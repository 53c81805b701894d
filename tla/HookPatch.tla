----------------------------- MODULE HookPatch -----------------------------
(***************************************************************************)
(* What attach, replace and detach do to the first 16 bytes of a target,   *)
(* when several hooks are put on one function.  Every attach saves the     *)
(* bytes it finds, relocates them to its scratch page and writes a branch  *)
(* to that page; every detach writes the saved bytes back.                 *)
(*                                                                         *)
(* The content of a target is 0 for the program's own instructions, or     *)
(* the hook whose absolute branch stands there.  Scratch pages are never   *)
(* unmapped, so the trampoline of a detached hook stays runnable.          *)
(***************************************************************************)
EXTENDS Naturals

CONSTANTS Targets,   \* functions of the program
          MaxHooks   \* bound: how many hook ids are handed out

ASSUME MaxHooksAssumption == MaxHooks \in Nat \ {0}
ASSUME TargetsAssumption  == Targets # {}

HookIds == 1 .. MaxHooks
Content == 0 .. MaxHooks

\* "inline" runs the relocated bytes after the callback, "replace" returns
\* from its thunk, "pointer" branches straight to the replacement.
Modes == {"inline", "replace", "pointer"}

VARIABLES
  nextId,  \* NEXT_HOOK_ID
  hooks,   \* keys of HOOKS
  target, mode,
  saved,   \* original_bytes of each hook, also what its trampoline relocated
  code,    \* the bytes at each target
  todo,    \* ids detach_all has still to visit
  past     \* history: how the hooks of each target were removed so far

vars == <<nextId, hooks, target, mode, saved, code, todo, past>>

\* "nested": newest first and restored.  "disordered": restored, but an older
\* hook went before a newer one.  "failed": some restore_bytes failed.
Pasts == {"nested", "disordered", "failed"}

TypeOK == /\ nextId \in 1 .. MaxHooks + 1
          /\ hooks \subseteq HookIds
          /\ target \in [HookIds -> Targets]
          /\ mode \in [HookIds -> Modes]
          /\ saved \in [HookIds -> Content]
          /\ code \in [Targets -> Content]
          /\ todo \subseteq HookIds
          /\ past \in [Targets -> Pasts]

Init == /\ nextId = 1
        /\ hooks = {}
        /\ target = [h \in HookIds |-> CHOOSE t \in Targets : TRUE]
        /\ mode = [h \in HookIds |-> "inline"]
        /\ saved = [h \in HookIds |-> 0]
        /\ code = [t \in Targets |-> 0]
        /\ todo = {}
        /\ past = [t \in Targets |-> "nested"]

OnTarget(t) == {h \in hooks : target[h] = t}

\* Mutant: the bytes are taken from the file, not from memory.
PristineBytes(t) == 0
\* The 16 bytes the binding reads at the target and hands to attach.
LiveBytes(t) == code[t]

\* attach (inline and replace-mode) and replace_ptr: they differ in where the
\* branch leads, not in how they treat the bytes.
attach(t, m) ==
  /\ todo = {}
  /\ nextId \in HookIds
  /\ nextId' = nextId + 1
  /\ hooks' = hooks \cup {nextId}
  /\ target' = [target EXCEPT ![nextId] = t]
  /\ mode' = [mode EXCEPT ![nextId] = m]
  /\ saved' = [saved EXCEPT ![nextId] = LiveBytes(t)]
  /\ code' = [code EXCEPT ![t] = nextId]
  /\ UNCHANGED <<todo, past>>

\* mmap, relocation or mprotect failed.
attach_fails ==
  /\ todo = {}
  /\ nextId \in HookIds
  /\ nextId' = nextId + 1
  /\ UNCHANGED <<hooks, target, mode, saved, code, todo, past>>

Newest(h) == \A g \in OnTarget(target[h]) : g <= h

\* Mutant: nothing is written back.
LeaveBranch(h) == code[target[h]]
\* What restore_bytes writes.
RestoredBytes(h) == saved[h]

\* detach, alone or in the loop of detach_all.  The entry is gone before
\* restore_bytes runs; when mprotect fails the target keeps what it has.
detach(h) ==
  /\ h \in hooks
  /\ todo = {} \/ h \in todo
  /\ hooks' = hooks \ {h}
  /\ todo' = todo \ {h}
  /\ \/ /\ code' = [code EXCEPT ![target[h]] = RestoredBytes(h)]
        /\ past' = [past EXCEPT ![target[h]] =
                      IF @ = "nested" /\ ~ Newest(h) THEN "disordered" ELSE @]
     \/ /\ code' = code
        /\ past' = [past EXCEPT ![target[h]] = "failed"]
  /\ UNCHANGED <<nextId, target, mode, saved>>

detach_all ==
  /\ todo = {} /\ hooks # {}
  /\ todo' = hooks
  /\ UNCHANGED <<nextId, hooks, target, mode, saved, code, past>>

Next == \/ \E t \in Targets, m \in Modes : attach(t, m)
        \/ attach_fails
        \/ \E h \in HookIds : detach(h)
        \/ detach_all

Spec == Init /\ [][Next]_vars

-----------------------------------------------------------------------------

\* As long as the hooks of a function are removed newest first, its bytes are
\* always those of its newest hook, and its own again once no hook is left.
NestedRestores ==
  \A t \in Targets : past[t] = "nested" =>
    /\ code[t] \in OnTarget(t) \cup {0}
    /\ \A h \in OnTarget(t) : h <= code[t]

\* The inductive invariant behind it: the saved bytes of the hooks of a
\* function form a chain, each hook saved the branch of the next older one.
NestedInv ==
  /\ TypeOK
  /\ \A h \in hooks : h < nextId
  /\ NestedRestores
  /\ \A t \in Targets : past[t] = "nested" => \A h \in OnTarget(t) :
       /\ saved[h] \in OnTarget(t) \cup {0} /\ saved[h] < h
       /\ \A g \in OnTarget(t) : g <= saved[h] \/ h <= g
=============================================================================
