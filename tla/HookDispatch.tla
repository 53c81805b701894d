---------------------------- MODULE HookDispatch ----------------------------
(***************************************************************************)
(* The enter/leave dispatch of goauld-native-hook: the hook registry, the  *)
(* enter and leave thunks that the threads of the target run, the per      *)
(* thread stacks of saved link registers, and attach/detach working on the *)
(* registry while those threads are inside a hooked call.                  *)
(*                                                                         *)
(* Each hook has a target function of its own here; several hooks on one   *)
(* target are the subject of HookPatch.  A frame exists for every call     *)
(* that found the patched bytes at its target.  An address that x30 may    *)
(* hold is a return site of the program or a leave thunk, which is named   *)
(* by its hook.                                                            *)
(***************************************************************************)
EXTENDS Naturals, Sequences

CONSTANTS
  Threads,   \* threads of the target process
  Sites,     \* return addresses of the calls made by the target
  MaxHooks,  \* bound: how many hook ids are handed out
  MaxDepth,  \* bound: how deep a thread nests hooked calls
  IdMod      \* 2^16 in the code: the thunks carry the id in a MOVZ immediate

HookIds == 1 .. MaxHooks
Addr    == Sites \cup HookIds

ASSUME BoundsAssumption == /\ MaxHooks \in Nat \ {0}
                           /\ MaxDepth \in Nat \ {0}
                           /\ IdMod \in Nat \ {0}
ASSUME SitesAssumption  == Sites \cap Nat = {}

(***************************************************************************)
(* What a hook was attached with.  "observe": on_enter only.  "around":    *)
(* on_enter and on_leave.  "replace": both, in replace_mode, whose enter   *)
(* thunk ends in RET where the others branch to the relocated original.    *)
(***************************************************************************)
Kinds == {"observe", "around", "replace"}

Phases == {"enter", "onEnter", "body", "leave", "onLeave", "ret"}

Frame == [hook : HookIds,   \* whose patch the call ran into
          ret  : Sites,     \* where the caller expects the call to return
          x30  : Addr,      \* the link register
          phase: Phases,
          held : BOOLEAN,   \* a callback taken out of the registry entry
          slot : Nat]       \* history: index of its LR in saved_lr, 0 if none

VARIABLES
  nextId,     \* NEXT_HOOK_ID
  hooks,      \* keys of HOOKS
  kind,       \* the callbacks each hook was attached with
  patched,    \* hooks whose branch is in the target's code
  enterSlot,  \* callbacks.on_enter is Some
  leaveSlot,  \* callbacks.on_leave is Some
  savedLr,    \* saved_lr of each entry, by thread
  installer,  \* progress of the attach or detach under way
  todo,       \* ids detach_all has still to visit
  stack,      \* frames of each thread, innermost last
  resumed     \* where the last finished call of each thread returned to

registryVars == <<hooks, kind, patched, enterSlot, leaveSlot>>
installVars  == <<nextId, installer, todo>>
vars == <<nextId, hooks, kind, patched, enterSlot, leaveSlot, savedLr,
          installer, todo, stack, resumed>>

Idle == [step |-> "idle", id |-> 0]

TypeOK ==
  /\ nextId \in 1 .. MaxHooks + 1
  /\ hooks \subseteq HookIds
  /\ kind \in [HookIds -> Kinds]
  /\ patched \subseteq HookIds
  /\ enterSlot \in [HookIds -> BOOLEAN]
  /\ leaveSlot \in [HookIds -> BOOLEAN]
  /\ savedLr \in [HookIds -> [Threads -> Seq(Addr)]]
  /\ installer \in [step : {"idle", "patched", "unregistered"},
                    id   : 0 .. MaxHooks]
  /\ installer.step # "idle" => installer.id \in HookIds
  /\ todo \subseteq HookIds
  /\ stack \in [Threads -> Seq(Frame)]
  /\ resumed \in [Threads -> Sites \cup {0}]

Init ==
  /\ nextId = 1
  /\ hooks = {}
  /\ kind = [h \in HookIds |-> "observe"]
  /\ patched = {}
  /\ enterSlot = [h \in HookIds |-> FALSE]
  /\ leaveSlot = [h \in HookIds |-> FALSE]
  /\ savedLr = [h \in HookIds |-> [t \in Threads |-> <<>>]]
  /\ installer = Idle
  /\ todo = {}
  /\ stack = [t \in Threads |-> <<>>]
  /\ resumed = [t \in Threads |-> 0]

-----------------------------------------------------------------------------
(***************************************************************************)
(* attach and detach.  They run on the JS worker, one at a time, and take  *)
(* the registry lock only to insert or remove an entry, so that threads    *)
(* run between writing the target's bytes and updating the registry.       *)
(***************************************************************************)

InstallerFree == installer = Idle /\ todo = {}

\* The id is taken, the thunks are written and the target is patched.
AttachPatch(k) ==
  /\ InstallerFree
  /\ nextId \in HookIds
  /\ nextId' = nextId + 1
  /\ kind' = [kind EXCEPT ![nextId] = k]
  /\ patched' = patched \cup {nextId}
  /\ installer' = [step |-> "patched", id |-> nextId]
  /\ UNCHANGED <<hooks, enterSlot, leaveSlot, savedLr, todo, stack, resumed>>

\* mmap, the relocator or mprotect failed: only the id is gone.
AttachFail ==
  /\ InstallerFree
  /\ nextId \in HookIds
  /\ nextId' = nextId + 1
  /\ UNCHANGED <<registryVars, savedLr, installer, todo, stack, resumed>>

register_hook ==
  /\ installer.step = "patched"
  /\ LET h == installer.id IN
       /\ hooks' = hooks \cup {h}
       /\ enterSlot' = [enterSlot EXCEPT ![h] = TRUE]
       /\ leaveSlot' = [leaveSlot EXCEPT ![h] = kind[h] # "observe"]
       /\ savedLr' = [savedLr EXCEPT ![h] = [t \in Threads |-> <<>>]]
  /\ installer' = Idle
  /\ UNCHANGED <<nextId, kind, patched, todo, stack, resumed>>

\* detach_all snapshots the ids and then detaches them in any order.
detach_all ==
  /\ InstallerFree
  /\ hooks # {}
  /\ todo' = hooks
  /\ UNCHANGED <<nextId, registryVars, savedLr, installer, stack, resumed>>

\* First half of detach, alone or in the loop of detach_all: the entry goes,
\* with its callbacks and its saved link registers.
unregister_hook(h) ==
  /\ installer = Idle
  /\ h \in hooks
  /\ todo = {} \/ h \in todo
  /\ hooks' = hooks \ {h}
  /\ enterSlot' = [enterSlot EXCEPT ![h] = FALSE]
  /\ leaveSlot' = [leaveSlot EXCEPT ![h] = FALSE]
  /\ savedLr' = [savedLr EXCEPT ![h] = [t \in Threads |-> <<>>]]
  /\ todo' = todo \ {h}
  /\ installer' = [step |-> "unregistered", id |-> h]
  /\ UNCHANGED <<nextId, kind, patched, stack, resumed>>

\* Second half of detach; when mprotect fails the patch stays behind.
restore_bytes ==
  /\ installer.step = "unregistered"
  /\ \/ patched' = patched \ {installer.id}
     \/ patched' = patched
  /\ installer' = Idle
  /\ UNCHANGED <<nextId, hooks, kind, enterSlot, leaveSlot, savedLr, todo,
                 stack, resumed>>

-----------------------------------------------------------------------------
(***************************************************************************)
(* The threads of the target.                                              *)
(***************************************************************************)

\* The registry key a thunk of hook h passes in W1.
Key(h) == h % IdMod

Active(t)  == stack[t] # <<>>
Top(t)     == stack[t][Len(stack[t])]
SetTop(t, f) == stack' = [stack EXCEPT ![t][Len(stack[t])] = f]

\* A thread calls from plain code, from the body of a hooked function or
\* from a callback that runs on it.
MayCall(t) ==
  Active(t) => \/ Top(t).phase = "body"
               \/ Top(t).phase \in {"onEnter", "onLeave"} /\ Top(t).held

Call(t, h, r) ==
  /\ h \in patched
  /\ Len(stack[t]) < MaxDepth
  /\ MayCall(t)
  /\ stack' = [stack EXCEPT ![t] = Append(@,
                 [hook |-> h, ret |-> r, x30 |-> r, phase |-> "enter",
                  held |-> FALSE, slot |-> 0])]
  /\ UNCHANGED <<registryVars, savedLr, installVars, resumed>>

\* What the enter thunk does after dispatch: RET or the relocated original.
AfterEnter(h) == IF kind[h] = "replace" THEN "ret" ELSE "body"

\* Mutants: the LR is not pushed, or a field the thunk did not store is.
ForgetLr(lrs, lr) == lrs
PushWrongLr(lrs, lr) == Append(lrs, 0)
\* Mutants: the oldest LR is taken, the LR is read but not restored, the LR is
\* read but not removed.
PopOldestLr(lrs, lr) == IF lrs = <<>> THEN lr ELSE Head(lrs)
LeaveLrInThunk(lrs, lr) == lr
KeepLr(lrs) == lrs

\* saved_lr is a Vec per thread, pushed and popped at its end.
PushLr(lrs, lr) == Append(lrs, lr)
PopLr(lrs, lr)  == IF lrs = <<>> THEN lr ELSE lrs[Len(lrs)]
DropLr(lrs)     == SubSeq(lrs, 1, Len(lrs) - 1)

\* want_leave && leave_thunk # 0: attach builds a leave thunk for exactly the
\* hooks that come with on_leave or replace_mode.
WantLeave(k) == leaveSlot[k] \/ kind[k] = "replace"

\* goauld_dispatch_enter up to the release of the registry lock.
EnterTake(t) ==
  /\ Active(t) /\ Top(t).phase = "enter"
  /\ LET f == Top(t)
         k == Key(f.hook)
         lrs == savedLr[k][t]
     IN \/ /\ k \notin hooks
           /\ SetTop(t, [f EXCEPT !.phase = AfterEnter(f.hook)])
           /\ UNCHANGED <<enterSlot, savedLr>>
        \/ /\ k \in hooks
           /\ enterSlot' = [enterSlot EXCEPT ![k] = FALSE]
           /\ \/ /\ WantLeave(k)
                 /\ savedLr' = [savedLr EXCEPT ![k][t] = PushLr(lrs, f.x30)]
                 /\ SetTop(t, [f EXCEPT !.phase = "onEnter",
                                        !.held = enterSlot[k],
                                        !.x30 = k,
                                        !.slot = Len(lrs) + 1])
              \/ /\ ~ WantLeave(k)
                 /\ savedLr' = savedLr
                 /\ SetTop(t, [f EXCEPT !.phase = "onEnter",
                                        !.held = enterSlot[k]])
  /\ UNCHANGED <<hooks, kind, patched, leaveSlot, installVars, resumed>>

\* Mutant: the check for an empty slot is dropped.
Overwrite(full, held) == held

\* Whether a callback goes back into its entry: an empty slot takes what
\* the dispatcher holds, a full slot is left alone.
PutBack(full, held) == full \/ held

\* The callback has returned: goauld_dispatch_enter puts it back.
EnterPut(t) ==
  /\ Active(t) /\ Top(t).phase = "onEnter"
  /\ LET f == Top(t)
         k == Key(f.hook)
     IN /\ \/ /\ k \in hooks
              /\ enterSlot' = [enterSlot EXCEPT ![k] = PutBack(@, f.held)]
           \/ /\ k \notin hooks
              /\ enterSlot' = enterSlot
        /\ SetTop(t, [f EXCEPT !.phase = AfterEnter(f.hook), !.held = FALSE])
  /\ UNCHANGED <<hooks, kind, patched, leaveSlot, savedLr, installVars,
                 resumed>>

\* RET, out of the function's body or out of a thunk, goes where x30 says.
Return(t) ==
  /\ Active(t) /\ Top(t).phase \in {"body", "ret"}
  /\ LET f == Top(t) IN
       \/ /\ f.x30 \in Sites
          /\ resumed' = [resumed EXCEPT ![t] = f.x30]
          /\ stack' = [stack EXCEPT ![t] = SubSeq(@, 1, Len(@) - 1)]
       \/ /\ f.x30 \in HookIds
          /\ SetTop(t, [f EXCEPT !.phase = "leave"])
          /\ resumed' = resumed
  /\ UNCHANGED <<registryVars, savedLr, installVars>>

\* goauld_dispatch_leave up to the release of the registry lock.  Without an
\* entry it returns at once and the thunk's RET goes to x30, still the thunk.
LeaveTake(t) ==
  /\ Active(t) /\ Top(t).phase = "leave"
  /\ LET f == Top(t)
         k == Key(f.x30)
     IN \/ /\ k \notin hooks
           /\ SetTop(t, [f EXCEPT !.phase = "ret"])
           /\ leaveSlot' = leaveSlot
        \/ /\ k \in hooks
           /\ leaveSlot' = [leaveSlot EXCEPT ![k] = FALSE]
           /\ SetTop(t, [f EXCEPT !.phase = "onLeave", !.held = leaveSlot[k]])
  /\ UNCHANGED <<hooks, kind, patched, enterSlot, savedLr, installVars,
                 resumed>>

\* The callback has returned: put it back and pop the saved LR into x30.
LeavePut(t) ==
  /\ Active(t) /\ Top(t).phase = "onLeave"
  /\ LET f == Top(t)
         k == Key(f.x30)
         lrs == savedLr[k][t]
         done == [f EXCEPT !.phase = "ret", !.held = FALSE]
     IN \/ /\ k \notin hooks
           /\ SetTop(t, done)
           /\ UNCHANGED <<leaveSlot, savedLr>>
        \/ /\ k \in hooks
           /\ leaveSlot' = [leaveSlot EXCEPT ![k] = PutBack(@, f.held)]
           /\ savedLr' = [savedLr EXCEPT ![k][t] = DropLr(lrs)]
           /\ SetTop(t, [done EXCEPT !.x30 = PopLr(lrs, f.x30), !.slot = 0])
  /\ UNCHANGED <<hooks, kind, patched, enterSlot, installVars, resumed>>

-----------------------------------------------------------------------------

Install ==
  \/ \E k \in Kinds : AttachPatch(k)
  \/ AttachFail
  \/ register_hook
  \/ detach_all
  \/ \E h \in HookIds : unregister_hook(h)
  \/ restore_bytes

ThreadStep(t) ==
  \/ \E h \in HookIds, r \in Sites : Call(t, h, r)
  \/ EnterTake(t)
  \/ EnterPut(t)
  \/ Return(t)
  \/ LeaveTake(t)
  \/ LeavePut(t)

Next == Install \/ \E t \in Threads : ThreadStep(t)

Spec == Init /\ [][Next]_vars

(***************************************************************************)
(* Fairness.  A thread that runs keeps running: it gets through the thunk  *)
(* code and the two short critical sections (weak), callbacks return (the  *)
(* JS callbacks wait at most five seconds for the worker) and no function  *)
(* of the target calls hooked functions forever (strong, for the call at   *)
(* each depth).  New calls, attach and detach may stop at any time.        *)
(***************************************************************************)
AtDepth(t, d, A) == Len(stack[t]) = d /\ A

Fairness ==
  \A t \in Threads :
    /\ WF_vars(EnterTake(t))
    /\ WF_vars(LeaveTake(t))
    /\ \A d \in 1 .. MaxDepth : /\ SF_vars(AtDepth(t, d, EnterPut(t)))
                               /\ SF_vars(AtDepth(t, d, LeavePut(t)))
                               /\ SF_vars(AtDepth(t, d, Return(t)))

FairSpec == Spec /\ Fairness

-----------------------------------------------------------------------------
(***************************************************************************)
(* Properties.                                                             *)
(***************************************************************************)

FramesOf(t) == 1 .. Len(stack[t])

\* A frame whose return goes through the leave thunk of h.
Redirected(t, i, h) == i \in FramesOf(t) /\ stack[t][i].x30 = h

HoldsEnter(t, i, h) == /\ i \in FramesOf(t)
                       /\ stack[t][i].phase = "onEnter"
                       /\ stack[t][i].held
                       /\ Key(stack[t][i].hook) = h
HoldsLeave(t, i, h) == /\ i \in FramesOf(t)
                       /\ stack[t][i].phase = "onLeave"
                       /\ stack[t][i].held
                       /\ Key(stack[t][i].x30) = h

\* Whatever interleaving of recursion, threads, attach and detach: a link
\* register that the dispatchers left pointing into the program points
\* to the caller of that very call ("each return must unwind to the correct
\* original caller").
UnwindsToCaller ==
  \A t \in Threads : \A i \in FramesOf(t) :
    stack[t][i].x30 \in Sites => stack[t][i].x30 = stack[t][i].ret

\* saved_lr of thread t lists the return addresses of the calls of t that were
\* redirected to the leave thunk of h, innermost last, and nothing else.
LrMatch(h, t) ==
  LET lrs == savedLr[h][t] IN
    /\ \A i \in FramesOf(t) : Redirected(t, i, h) =>
         /\ stack[t][i].slot \in 1 .. Len(lrs)
         /\ lrs[stack[t][i].slot] = stack[t][i].ret
    /\ \A i, j \in FramesOf(t) :
         Redirected(t, i, h) /\ Redirected(t, j, h) /\ i < j
           => stack[t][i].slot < stack[t][j].slot
    /\ \A n \in 1 .. Len(lrs) :
         \E i \in FramesOf(t) : Redirected(t, i, h) /\ stack[t][i].slot = n

\* As long as a hook is registered, a call that dispatch_enter redirected has
\* its LR in saved_lr, at the place from which its return will pop it: the
\* per-thread stacks survive recursion, concurrency and calls nested inside
\* callbacks.
SavedLrMatches == \A h \in hooks, t \in Threads : LrMatch(h, t)

\* dispatch_enter and dispatch_leave take a callback out of its entry for the
\* time it runs.  While the hook is registered the callback is never lost
\* and never in two hands: it is in its entry, or exactly one dispatch of
\* one thread holds it (FnMut is never run twice at once).
CallbackConserved ==
  \A h \in hooks :
    /\ enterSlot[h] <=> ~ \E t \in Threads : \E i \in FramesOf(t) :
                             HoldsEnter(t, i, h)
    /\ leaveSlot[h] \/ kind[h] = "observe"
         <=> ~ \E t \in Threads : \E i \in FramesOf(t) : HoldsLeave(t, i, h)
    /\ \A t, u \in Threads : \A i \in FramesOf(t), j \in FramesOf(u) :
         \/ HoldsEnter(t, i, h) /\ HoldsEnter(u, j, h)
         \/ HoldsLeave(t, i, h) /\ HoldsLeave(u, j, h)
         => t = u /\ i = j

\* An id that has not been handed out, or not been registered yet.
Fresh(h) == h >= nextId \/ (installer.step = "patched" /\ installer.id = h)

\* No call can have been dispatched through a hook that was never registered.
FreshUnused ==
  /\ installer.step = "patched" => installer.id < nextId
  /\ \A h \in HookIds : Fresh(h) =>
       /\ h \notin hooks
       /\ \A t \in Threads : \A i \in FramesOf(t) :
            ~ Redirected(t, i, h) /\ ~ HoldsEnter(t, i, h)

\* A call enters with its own return address in x30 and comes to a leave thunk
\* only when x30 says so.
PhaseMatchesX30 ==
  \A t \in Threads : \A i \in FramesOf(t) :
    /\ stack[t][i].phase = "enter" => stack[t][i].x30 \in Sites
    /\ stack[t][i].phase \in {"leave", "onLeave"} => stack[t][i].x30 \in HookIds

\* The inductive invariant behind UnwindsToCaller: a popped LR is right only
\* because saved_lr and the stack of frames agree, which in turn needs that
\* ids are not reused and that x30 and the phase of a frame agree.
UnwindInv == /\ TypeOK /\ PhaseMatchesX30 /\ FreshUnused
             /\ SavedLrMatches /\ UnwindsToCaller

\* A call that waits in or for a leave thunk whose entry is gone.
Stranded(t) == \E i \in FramesOf(t) : stack[t][i].x30 \in HookIds \ hooks

\* Hooked calls finish: dispatch never blocks a thread for good, unless the
\* hook was detached while the call was between enter and leave.
CallsFinish == \A t \in Threads :
                 Active(t) ~> (~ Active(t) \/ Stranded(t))

\* The hooked program sees a plain call stack: every step of a thread, of
\* attach or of detach is a call, a return to the calling site or no step
\* at all of CallStack.
Plain == INSTANCE CallStack
           WITH calls <- [t \in Threads |->
                            [i \in FramesOf(t) |-> stack[t][i].ret]]
PlainCalls == Plain!Spec

\* docs/ARCHITECTURE.md 4.4: the real LR is stashed because "each return must
\* unwind to the correct original caller".  A call whose LR was replaced must
\* still be able to return to its caller.
RedirectedCallCanUnwind == \A t \in Threads : ~ Stranded(t)
=============================================================================
