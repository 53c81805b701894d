-------------------------------- MODULE MCApi --------------------------------
(* Parts of the script API that share nothing: the code writer, the relocator *)
(* behind it, Cloak and the timers.  One behaviour exercises one of them.     *)
(*                                                                            *)
(* For the writer: two functions at the edges of what BL reaches, one label,  *)
(* and a function of every kind of instruction to relocate.                   *)
EXTENDS CodeWriter, Cloak, Timers

VARIABLE part

MCArity == 2 :> 1 @@ 70 :> 2
MCArgLists == {<<Reg(1)>>, <<Imm(7), Reg(0)>>, <<Reg(1), Reg(0)>>}
MCOriginal == << [op |-> "plain"], [op |-> "test", to |-> 2], [op |-> "bl", to |-> 2],
                 [op |-> "b", to |-> 70] >>

MCInit == /\ part \in {"writer", "relocator", "cloak", "timers"}
          /\ WriterInit /\ CloakInit /\ TimersInit

WriterSteps    == part = "writer" /\ (BothNext \/ WriterNext) /\ UNCHANGED <<cvars, tvars>>
RelocatorSteps == part = "relocator" /\ (BothNext \/ RelocatorNext) /\ UNCHANGED <<cvars, tvars>>
CloakSteps     == part = "cloak" /\ CloakNext /\ UNCHANGED <<wvars, tvars>>
TimerSteps     == part = "timers" /\ TimersNext /\ UNCHANGED <<wvars, cvars>>

Next == (WriterSteps \/ RelocatorSteps \/ CloakSteps \/ TimerSteps) /\ UNCHANGED part
Spec == MCInit /\ [][Next]_<<wvars, cvars, tvars, part>>
=============================================================================
