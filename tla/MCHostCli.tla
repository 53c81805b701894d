---- MODULE MCHostCli ----
EXTENDS HostCli, TLC
CONSTANTS h1, h2
C(r, i, f, l, t, n) == [restart |-> r, inject |-> i, forwards |-> f, loads |-> l, timed |-> t, calls |-> n]
\* attach without a pid, a script or --max-wait; trace java, which restarts,
\* injects and loads; stress in frida mode with two calls, on an app that is up.
Attach == C(FALSE, FALSE, FALSE, FALSE, FALSE, 0)
Trace == C(TRUE, TRUE, TRUE, TRUE, TRUE, 0)
Stress == C(FALSE, TRUE, TRUE, TRUE, TRUE, 2)
MCCommandLines == {h1 :> Attach @@ h2 :> b : b \in {Trace, Stress}}
====
