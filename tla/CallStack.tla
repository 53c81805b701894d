------------------------------ MODULE CallStack ------------------------------
(***************************************************************************)
(* What hooking promises the program that is hooked: calls nest, and a     *)
(* call that returns, returns to the site that made it.  Nothing is said   *)
(* of how a call is dispatched.                                            *)
(***************************************************************************)
EXTENDS Naturals, Sequences

CONSTANTS Threads, Sites, MaxDepth

VARIABLES calls,    \* return sites of the calls each thread has open
          resumed   \* where the last finished call of each thread returned to

Init == /\ calls = [t \in Threads |-> <<>>]
        /\ resumed = [t \in Threads |-> 0]

Call(t, r) == /\ Len(calls[t]) < MaxDepth
              /\ calls' = [calls EXCEPT ![t] = Append(@, r)]
              /\ UNCHANGED resumed

Return(t) == /\ calls[t] # <<>>
             /\ resumed' = [resumed EXCEPT ![t] = calls[t][Len(calls[t])]]
             /\ calls' = [calls EXCEPT ![t] = SubSeq(@, 1, Len(@) - 1)]

Next == \E t \in Threads : Return(t) \/ \E r \in Sites : Call(t, r)

Spec == Init /\ [][Next]_<<calls, resumed>>
=============================================================================
