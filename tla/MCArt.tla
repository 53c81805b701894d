------------------------------- MODULE MCArt --------------------------------
(* A script that hooks Java methods, or one that traces the Android API: they *)
(* share no state, so one of the two runs.                                    *)
EXTENDS ArtHook, ApiTrace, TLC

VARIABLE service

Init == ArtInit /\ ApiTraceInit /\ service \in {"hooks", "trace"}
Next == \/ service = "hooks" /\ ArtNext /\ UNCHANGED <<xvars, service>>
        \/ service = "trace" /\ ApiTraceNext /\ UNCHANGED <<avars, service>>
Symmetry == Permutations(Methods) \cup Permutations(App) \cup Permutations(Tracees) \cup Permutations(Stubs)
Spec == Init /\ [][Next]_<<avars, xvars, service>>
=============================================================================
