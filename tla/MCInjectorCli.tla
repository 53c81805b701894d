---- MODULE MCInjectorCli ----
EXTENDS InjectorCli
\* A device where the app may open the staged file once its label is changed, and
\* two that deny it and have no BRK in libc, one of them denying execmod as well.
MCDevices ==
  {[root |-> TRUE, stages |-> TRUE, opens |-> o[1], gadget |-> o[2], execmod |-> o[3]] :
     o \in {<<"relabelled", TRUE, TRUE>>, <<"no", FALSE, TRUE>>, <<"no", FALSE, FALSE>>}}
====
