------------------------- MODULE HookDispatchProofs -------------------------
(***************************************************************************)
(* Proofs about HookDispatch, for any number of threads, hooks and nesting *)
(* depth, as long as no hook id outgrows the 16 bits that the thunks carry.*)
(***************************************************************************)
EXTENDS HookDispatch, SequenceTheorems, TLAPS

\* No hook id outgrows the immediate that carries it.
NoIdWrap == MaxHooks < IdMod

\* Then the thunk of every hook passes that hook's own id.
LEMMA KeyIsId == NoIdWrap => \A h \in HookIds : Key(h) = h
BY BoundsAssumption DEF NoIdWrap, HookIds, Key

-----------------------------------------------------------------------------
(***************************************************************************)
(* How the three ways to write a thread's stack change its frames.         *)
(***************************************************************************)

\* Rewriting the innermost frame of t changes that frame and no other.
LEMMA SetTopFacts ==
  ASSUME stack \in [Threads -> Seq(Frame)], NEW t \in Threads, Active(t),
         NEW f \in Frame, SetTop(t, f)
  PROVE  /\ stack' \in [Threads -> Seq(Frame)]
         /\ Len(stack'[t]) = Len(stack[t])
         /\ Len(stack[t]) \in Nat \ {0}
         /\ stack'[t][Len(stack[t])] = f
         /\ \A i \in 1 .. Len(stack[t]) :
              i # Len(stack[t]) => stack'[t][i] = stack[t][i]
         /\ \A u \in Threads : u # t => stack'[u] = stack[u]
<1> DEFINE s == stack[t]
           n == Len(s)
<1>1. s \in Seq(Frame) /\ s # <<>>
  BY DEF Active
<1>2. n \in Nat \ {0} /\ n \in 1 .. n
  BY <1>1
<1>3. stack' = [stack EXCEPT ![t] = [s EXCEPT ![n] = f]]
  BY DEF SetTop
<1>4. stack'[t] = [s EXCEPT ![n] = f] /\ \A u \in Threads : u # t => stack'[u] = stack[u]
  BY <1>3
<1>5. /\ [s EXCEPT ![n] = f] \in Seq(Frame)
      /\ Len([s EXCEPT ![n] = f]) = n
      /\ \A j \in 1 .. n : [s EXCEPT ![n] = f][j] = IF j = n THEN f ELSE s[j]
  BY <1>1, <1>2, ExceptSeq
<1> QED
  BY <1>2, <1>3, <1>4, <1>5

\* A new innermost frame leaves the other frames alone.
LEMMA PushFacts ==
  ASSUME stack \in [Threads -> Seq(Frame)], NEW t \in Threads,
         NEW f \in Frame, stack' = [stack EXCEPT ![t] = Append(@, f)]
  PROVE  /\ stack' \in [Threads -> Seq(Frame)]
         /\ Len(stack[t]) \in Nat
         /\ Len(stack'[t]) = Len(stack[t]) + 1
         /\ stack'[t][Len(stack[t]) + 1] = f
         /\ \A i \in 1 .. Len(stack[t]) : stack'[t][i] = stack[t][i]
         /\ \A u \in Threads : u # t => stack'[u] = stack[u]
<1>1. stack[t] \in Seq(Frame) /\ stack'[t] = Append(stack[t], f)
  OBVIOUS
<1>2. /\ Append(stack[t], f) \in Seq(Frame)
      /\ Len(Append(stack[t], f)) = Len(stack[t]) + 1
      /\ \A i \in 1 .. Len(stack[t]) : Append(stack[t], f)[i] = stack[t][i]
      /\ Append(stack[t], f)[Len(stack[t]) + 1] = f
  BY <1>1, AppendProperties
<1> QED
  BY <1>1, <1>2

\* What a sequence is without its last element.
LEMMA DropLast ==
  ASSUME NEW S, NEW s \in Seq(S), s # <<>>
  PROVE  /\ SubSeq(s, 1, Len(s) - 1) \in Seq(S)
         /\ Len(s) \in Nat \ {0}
         /\ Len(SubSeq(s, 1, Len(s) - 1)) = Len(s) - 1
         /\ \A i \in 1 .. Len(s) - 1 : SubSeq(s, 1, Len(s) - 1)[i] = s[i]
<1>1. Len(s) \in Nat \ {0} /\ \A i \in 1 .. Len(s) - 1 : s[i] \in S
  OBVIOUS
<1> DEFINE m == Len(s) - 1
<1>2. m \in Nat /\ \A i \in 1 .. m : s[i] \in S
  BY <1>1
<1> HIDE DEF m
<1>3. /\ SubSeq(s, 1, m) \in Seq(S)
      /\ Len(SubSeq(s, 1, m)) = IF 1 <= m THEN m - 1 + 1 ELSE 0
      /\ \A i \in 1 .. m - 1 + 1 : SubSeq(s, 1, m)[i] = s[1 + i - 1]
  BY <1>2, SubSeqProperties
<1>4. /\ SubSeq(s, 1, m) \in Seq(S)
      /\ Len(SubSeq(s, 1, m)) = m
      /\ \A i \in 1 .. m : SubSeq(s, 1, m)[i] = s[i]
  BY <1>2, <1>3
<1> QED
  BY <1>1, <1>4 DEF m

\* A return that leaves the innermost call drops its frame.
LEMMA PopFacts ==
  ASSUME stack \in [Threads -> Seq(Frame)], NEW t \in Threads, Active(t),
         stack' = [stack EXCEPT ![t] = SubSeq(@, 1, Len(@) - 1)]
  PROVE  /\ stack' \in [Threads -> Seq(Frame)]
         /\ Len(stack[t]) \in Nat \ {0}
         /\ Len(stack'[t]) = Len(stack[t]) - 1
         /\ \A i \in 1 .. Len(stack[t]) - 1 : stack'[t][i] = stack[t][i]
         /\ \A u \in Threads : u # t => stack'[u] = stack[u]
<1>1. /\ stack[t] \in Seq(Frame) /\ stack[t] # <<>>
      /\ stack'[t] = SubSeq(stack[t], 1, Len(stack[t]) - 1)
      /\ \A u \in Threads : u # t => stack'[u] = stack[u]
  BY DEF Active
<1>2. /\ SubSeq(stack[t], 1, Len(stack[t]) - 1) \in Seq(Frame)
      /\ Len(stack[t]) \in Nat \ {0}
      /\ Len(SubSeq(stack[t], 1, Len(stack[t]) - 1)) = Len(stack[t]) - 1
      /\ \A i \in 1 .. Len(stack[t]) - 1 :
           SubSeq(stack[t], 1, Len(stack[t]) - 1)[i] = stack[t][i]
  BY <1>1, DropLast
<1> QED
  BY <1>1, <1>2
-----------------------------------------------------------------------------
(***************************************************************************)
(* Type correctness.                                                       *)
(***************************************************************************)

LEMMA InstallTyping == TypeOK /\ Install => TypeOK'
<1> SUFFICES ASSUME TypeOK, Install PROVE TypeOK'
  OBVIOUS
<1> USE BoundsAssumption
<1>1. ASSUME NEW k \in Kinds, AttachPatch(k) PROVE TypeOK'
  BY <1>1 DEF AttachPatch, InstallerFree, Idle, TypeOK, HookIds
<1>2. CASE AttachFail
  BY <1>2 DEF AttachFail, InstallerFree, Idle, TypeOK, HookIds, registryVars
<1>3. CASE register_hook
  <2>1. [t \in Threads |-> <<>>] \in [Threads -> Seq(Addr)]
    OBVIOUS
  <2>2. installer.id \in HookIds
    BY <1>3 DEF register_hook, TypeOK
  <2>3. savedLr' \in [HookIds -> [Threads -> Seq(Addr)]]
    BY <1>3, <2>1, <2>2 DEF register_hook, TypeOK
  <2>4. enterSlot' \in [HookIds -> BOOLEAN] /\ leaveSlot' \in [HookIds -> BOOLEAN]
    BY <1>3, <2>2 DEF register_hook, TypeOK
  <2>5. installer' \in [step : {"idle", "patched", "unregistered"},
                        id   : 0 .. MaxHooks]
        /\ (installer'.step # "idle" => installer'.id \in HookIds)
    BY <1>3 DEF register_hook, Idle
  <2> QED
    BY <1>3, <2>2, <2>3, <2>4, <2>5 DEF register_hook, TypeOK
<1>4. CASE detach_all
  BY <1>4 DEF detach_all, InstallerFree, TypeOK, registryVars
<1>5. ASSUME NEW h \in HookIds, unregister_hook(h) PROVE TypeOK'
  <2>1. [t \in Threads |-> <<>>] \in [Threads -> Seq(Addr)]
    OBVIOUS
  <2>2. installer' \in [step : {"idle", "patched", "unregistered"},
                        id   : 0 .. MaxHooks]
        /\ (installer'.step # "idle" => installer'.id \in HookIds)
    BY <1>5 DEF unregister_hook, HookIds
  <2>3. savedLr' \in [HookIds -> [Threads -> Seq(Addr)]]
    BY <1>5, <2>1 DEF unregister_hook, TypeOK
  <2>4. enterSlot' \in [HookIds -> BOOLEAN] /\ leaveSlot' \in [HookIds -> BOOLEAN]
    BY <1>5 DEF unregister_hook, TypeOK
  <2> QED
    BY <1>5, <2>2, <2>3, <2>4 DEF unregister_hook, TypeOK
<1>6. CASE restore_bytes
  <2>1. installer' \in [step : {"idle", "patched", "unregistered"},
                        id   : 0 .. MaxHooks]
        /\ (installer'.step # "idle" => installer'.id \in HookIds)
    BY <1>6 DEF restore_bytes, Idle
  <2>2. patched' \subseteq HookIds
    BY <1>6 DEF restore_bytes, TypeOK
  <2> QED
    BY <1>6, <2>1, <2>2 DEF restore_bytes, TypeOK
<1> QED
  BY <1>1, <1>2, <1>3, <1>4, <1>5, <1>6 DEF Install

\* The innermost frame of a thread that has one.
LEMMA TopFrame ==
  ASSUME TypeOK, NEW t \in Threads, Active(t)
  PROVE  /\ Top(t) \in Frame
         /\ Len(stack[t]) \in Nat \ {0}
         /\ Len(stack[t]) \in FramesOf(t)
         /\ Top(t) = stack[t][Len(stack[t])]
<1>1. stack[t] \in Seq(Frame) /\ stack[t] # <<>>
  BY DEF TypeOK, Active
<1> QED
  BY <1>1 DEF Top, FramesOf

LEMMA ThreadTyping ==
  ASSUME TypeOK, NEW t \in Threads, ThreadStep(t)
  PROVE  TypeOK'
<1> DEFINE f == Top(t)
<1>1. ASSUME NEW h \in HookIds, NEW r \in Sites, Call(t, h, r) PROVE TypeOK'
  <2> DEFINE g == [hook |-> h, ret |-> r, x30 |-> r, phase |-> "enter",
                   held |-> FALSE, slot |-> 0]
  <2>1. g \in Frame
    BY DEF Frame, Addr, Phases
  <2>2. stack' \in [Threads -> Seq(Frame)]
    BY <1>1, <2>1, PushFacts DEF Call, TypeOK
  <2> QED
    BY <1>1, <2>2 DEF Call, TypeOK, registryVars, installVars
<1>2. CASE EnterTake(t)
  <2> DEFINE k == Key(f.hook)
             lrs == savedLr[k][t]
  <2>1. Active(t) /\ f \in Frame
    BY <1>2, TopFrame DEF EnterTake
  <2>2. CASE k \notin hooks
    <3>1. [f EXCEPT !.phase = AfterEnter(f.hook)] \in Frame
      BY <2>1 DEF Frame, Phases, AfterEnter
    <3>2. SetTop(t, [f EXCEPT !.phase = AfterEnter(f.hook)])
          /\ UNCHANGED <<enterSlot, savedLr>>
      BY <1>2, <2>2 DEF EnterTake
    <3>3. stack' \in [Threads -> Seq(Frame)]
      BY <2>1, <3>1, <3>2, SetTopFacts DEF TypeOK
    <3> QED
      BY <1>2, <3>2, <3>3 DEF EnterTake, TypeOK, installVars
  <2>3. CASE k \in hooks /\ WantLeave(k)
    <3> DEFINE g == [f EXCEPT !.phase = "onEnter", !.held = enterSlot[k], !.x30 = k,
                              !.slot = Len(lrs) + 1]
    <3>1. k \in HookIds /\ lrs \in Seq(Addr) /\ enterSlot[k] \in BOOLEAN
      BY <2>3 DEF TypeOK
    <3>2. g \in Frame
      <4>1. Len(lrs) + 1 \in Nat
        BY <3>1
      <4>2. \A n \in Nat, b \in BOOLEAN, a \in Addr :
              [f EXCEPT !.phase = "onEnter", !.held = b,
                        !.x30 = a, !.slot = n] \in Frame
        BY <2>1 DEF Frame, Phases
      <4> QED
        BY <3>1, <4>1, <4>2 DEF Addr
    <3>3. /\ SetTop(t, g)
          /\ enterSlot' = [enterSlot EXCEPT ![k] = FALSE]
          /\ savedLr' = [savedLr EXCEPT ![k][t] = PushLr(lrs, f.x30)]
      BY <1>2, <2>3 DEF EnterTake
    <3>4. stack' \in [Threads -> Seq(Frame)]
      BY <2>1, <3>2, <3>3, SetTopFacts DEF TypeOK
    <3>5. PushLr(lrs, f.x30) \in Seq(Addr)
      BY <2>1, <3>1 DEF PushLr, Frame
    <3>6. savedLr' \in [HookIds -> [Threads -> Seq(Addr)]]
      BY <3>1, <3>3, <3>5 DEF TypeOK
    <3> QED
      BY <1>2, <3>3, <3>4, <3>6 DEF EnterTake, TypeOK, installVars
  <2>4. CASE k \in hooks /\ ~ WantLeave(k)
    <3> DEFINE g == [f EXCEPT !.phase = "onEnter", !.held = enterSlot[k]]
    <3>1. g \in Frame
      BY <2>1, <2>4 DEF Frame, Phases, TypeOK
    <3>2. /\ SetTop(t, g) /\ savedLr' = savedLr
          /\ enterSlot' = [enterSlot EXCEPT ![k] = FALSE]
      BY <1>2, <2>4 DEF EnterTake
    <3>3. stack' \in [Threads -> Seq(Frame)]
      BY <2>1, <3>1, <3>2, SetTopFacts DEF TypeOK
    <3> QED
      BY <1>2, <3>2, <3>3 DEF EnterTake, TypeOK, installVars
  <2> QED
    BY <2>2, <2>3, <2>4
<1>3. CASE EnterPut(t)
  <2> DEFINE g == [f EXCEPT !.phase = AfterEnter(f.hook), !.held = FALSE]
  <2>1. Active(t) /\ f \in Frame /\ SetTop(t, g)
    BY <1>3, TopFrame DEF EnterPut
  <2>2. g \in Frame
    BY <2>1 DEF Frame, Phases, AfterEnter
  <2>3. stack' \in [Threads -> Seq(Frame)]
    BY <2>1, <2>2, SetTopFacts DEF TypeOK
  <2>4. enterSlot' \in [HookIds -> BOOLEAN]
    BY <1>3, <2>1 DEF EnterPut, TypeOK, PutBack, Frame
  <2> QED
    BY <1>3, <2>3, <2>4 DEF EnterPut, TypeOK, installVars
<1>4. CASE Return(t)
  <2>1. Active(t) /\ f \in Frame
    BY <1>4, TopFrame DEF Return
  <2>2. CASE f.x30 \in Sites /\ resumed' = [resumed EXCEPT ![t] = f.x30]
             /\ stack' = [stack EXCEPT ![t] = SubSeq(@, 1, Len(@) - 1)]
    <3>1. stack' \in [Threads -> Seq(Frame)]
      BY <2>1, <2>2, PopFacts DEF TypeOK
    <3> QED
      BY <1>4, <2>2, <3>1 DEF Return, TypeOK, installVars, registryVars
  <2>3. CASE SetTop(t, [f EXCEPT !.phase = "leave"]) /\ resumed' = resumed
    <3>1. [f EXCEPT !.phase = "leave"] \in Frame
      BY <2>1 DEF Frame, Phases
    <3>2. stack' \in [Threads -> Seq(Frame)]
      BY <2>1, <2>3, <3>1, SetTopFacts DEF TypeOK
    <3> QED
      BY <1>4, <2>3, <3>2 DEF Return, TypeOK, installVars, registryVars
  <2> QED
    BY <1>4, <2>2, <2>3 DEF Return
<1>5. CASE LeaveTake(t)
  <2> DEFINE k == Key(f.x30)
  <2>1. Active(t) /\ f \in Frame
    BY <1>5, TopFrame DEF LeaveTake
  <2>2. PICK g \in Frame : SetTop(t, g)
    <3>1. CASE k \notin hooks
      <4>1. [f EXCEPT !.phase = "ret"] \in Frame
        BY <2>1 DEF Frame, Phases
      <4> QED
        BY <1>5, <3>1, <4>1 DEF LeaveTake
    <3>2. CASE k \in hooks
      <4>1. [f EXCEPT !.phase = "onLeave", !.held = leaveSlot[k]] \in Frame
        BY <2>1, <3>2 DEF Frame, Phases, TypeOK
      <4> QED
        BY <1>5, <3>2, <4>1 DEF LeaveTake
    <3> QED
      BY <3>1, <3>2
  <2>3. stack' \in [Threads -> Seq(Frame)]
    BY <2>1, <2>2, SetTopFacts DEF TypeOK
  <2>4. leaveSlot' \in [HookIds -> BOOLEAN]
    BY <1>5 DEF LeaveTake, TypeOK
  <2> QED
    BY <1>5, <2>3, <2>4 DEF LeaveTake, TypeOK, installVars
<1>6. CASE LeavePut(t)
  <2> DEFINE k == Key(f.x30)
             lrs == savedLr[k][t]
             done == [f EXCEPT !.phase = "ret", !.held = FALSE]
  <2>1. Active(t) /\ f \in Frame
    BY <1>6, TopFrame DEF LeavePut
  <2>2. done \in Frame
    BY <2>1 DEF Frame, Phases
  <2>3. CASE k \notin hooks
    <3>1. SetTop(t, done) /\ UNCHANGED <<leaveSlot, savedLr>>
      BY <1>6, <2>3 DEF LeavePut
    <3>2. stack' \in [Threads -> Seq(Frame)]
      BY <2>1, <2>2, <3>1, SetTopFacts DEF TypeOK
    <3> QED
      BY <1>6, <3>1, <3>2 DEF LeavePut, TypeOK, installVars
  <2>4. CASE k \in hooks
    <3> DEFINE g == [done EXCEPT !.x30 = PopLr(lrs, f.x30), !.slot = 0]
    <3>1. k \in HookIds /\ lrs \in Seq(Addr)
      BY <2>4 DEF TypeOK
    <3>2. PopLr(lrs, f.x30) \in Addr /\ DropLr(lrs) \in Seq(Addr)
      <4>1. CASE lrs = <<>>
        <5>1. SubSeq(lrs, 1, Len(lrs) - 1) = <<>>
          BY <4>1
        <5> QED
          BY <2>1, <4>1, <5>1 DEF PopLr, DropLr, Frame
      <4>2. CASE lrs # <<>>
        BY <3>1, <4>2, DropLast DEF PopLr, DropLr
      <4> QED
        BY <4>1, <4>2
    <3>3. g \in Frame
      BY <2>1, <3>2 DEF Frame, Phases
    <3>4. /\ SetTop(t, g)
          /\ leaveSlot' = [leaveSlot EXCEPT ![k] = PutBack(@, f.held)]
          /\ savedLr' = [savedLr EXCEPT ![k][t] = DropLr(lrs)]
      BY <1>6, <2>4 DEF LeavePut
    <3>5. stack' \in [Threads -> Seq(Frame)]
      BY <2>1, <3>3, <3>4, SetTopFacts DEF TypeOK
    <3>6. leaveSlot' \in [HookIds -> BOOLEAN]
      BY <2>1, <3>1, <3>4 DEF TypeOK, PutBack, Frame
    <3>7. savedLr' \in [HookIds -> [Threads -> Seq(Addr)]]
      BY <3>1, <3>2, <3>4 DEF TypeOK
    <3> QED
      BY <1>6, <3>5, <3>6, <3>7 DEF LeavePut, TypeOK, installVars
  <2> QED
    BY <2>3, <2>4
<1> QED
  BY <1>1, <1>2, <1>3, <1>4, <1>5, <1>6 DEF ThreadStep

LEMMA InitTyping == Init => TypeOK
<1> SUFFICES ASSUME Init PROVE TypeOK
  OBVIOUS
<1>1. [t \in Threads |-> <<>>] \in [Threads -> Seq(Addr)]
  OBVIOUS
<1>2. stack \in [Threads -> Seq(Frame)]
  BY DEF Init
<1> QED
  BY <1>1, <1>2, BoundsAssumption DEF Init, TypeOK, Idle, HookIds, Kinds

\* Every state of the dispatch has its type, whatever the ids wrap to.
THEOREM TypeCorrect == Spec => []TypeOK
<1>1. Init => TypeOK
  BY InitTyping
<1>2. TypeOK /\ [Next]_vars => TypeOK'
  <2>1. TypeOK /\ UNCHANGED vars => TypeOK'
    BY DEF TypeOK, vars
  <2> QED
    BY <2>1, InstallTyping, ThreadTyping DEF Next
<1> QED
  BY <1>1, <1>2, PTL DEF Spec
-----------------------------------------------------------------------------
(***************************************************************************)
(* Calls return to their callers.                                          *)
(***************************************************************************)

\* Return sites and leave thunks are different addresses.
LEMMA SitesAreNotThunks == \A a \in Sites : a \notin HookIds
BY SitesAssumption, BoundsAssumption DEF HookIds

\* A thread whose frames and saved LRs a step leaves alone keeps its match.
LEMMA LrMatchFrame ==
  ASSUME NEW h, NEW t, LrMatch(h, t),
         stack'[t] = stack[t], savedLr'[h][t] = savedLr[h][t]
  PROVE  LrMatch(h, t)'
BY DEF LrMatch, FramesOf, Redirected

\* Neither attach nor detach moves a frame.
LEMMA InstallKeepsFrames == Install => stack' = stack
BY DEF Install, AttachPatch, AttachFail, register_hook, detach_all,
       unregister_hook, restore_bytes

LEMMA InstallFreshUnused ==
  ASSUME TypeOK, FreshUnused, Install
  PROVE  FreshUnused'
<1> USE DEF FreshUnused, Fresh, Redirected, HoldsEnter, FramesOf
<1>1. ASSUME NEW k \in Kinds, AttachPatch(k) PROVE FreshUnused'
  BY <1>1 DEF AttachPatch, InstallerFree, Idle, TypeOK, HookIds
<1>2. CASE AttachFail
  BY <1>2 DEF AttachFail, InstallerFree, Idle, TypeOK, HookIds, registryVars
<1>3. CASE register_hook
  BY <1>3 DEF register_hook, Idle, TypeOK, HookIds
<1>4. CASE detach_all
  BY <1>4 DEF detach_all, registryVars
<1>5. ASSUME NEW h \in HookIds, unregister_hook(h) PROVE FreshUnused'
  BY <1>5 DEF unregister_hook, Idle
<1>6. CASE restore_bytes
  BY <1>6 DEF restore_bytes, Idle
<1> QED
  BY <1>1, <1>2, <1>3, <1>4, <1>5, <1>6 DEF Install

LEMMA InstallSavedLr ==
  ASSUME TypeOK, FreshUnused, SavedLrMatches, Install
  PROVE  SavedLrMatches'
<1>1. stack' = stack
  BY InstallKeepsFrames
<1>2. ASSUME hooks' \subseteq hooks,
             \A h \in hooks' : savedLr'[h] = savedLr[h]
      PROVE  SavedLrMatches'
  BY <1>1, <1>2, LrMatchFrame DEF SavedLrMatches
<1>3. ASSUME NEW k \in Kinds, AttachPatch(k) PROVE SavedLrMatches'
  BY <1>2, <1>3 DEF AttachPatch
<1>4. CASE AttachFail
  BY <1>2, <1>4 DEF AttachFail, registryVars
<1>5. CASE register_hook
  <2>0. PICK g \in HookIds : g = installer.id
    BY <1>5 DEF register_hook, TypeOK
  <2>1. g \in HookIds /\ Fresh(g) /\ hooks' = hooks \cup {g}
    BY <1>5, <2>0 DEF register_hook, Fresh
  <2>2. savedLr'[g] = [t \in Threads |-> <<>>]
        /\ \A h \in hooks : h # g => savedLr'[h] = savedLr[h]
    BY <1>5, <2>0, <2>1 DEF register_hook, TypeOK
  <2>3. ASSUME NEW t \in Threads PROVE LrMatch(g, t)'
    <3>1. savedLr'[g][t] = <<>>
      BY <2>2
    <3>2. \A i \in FramesOf(t) : ~ Redirected(t, i, g)
      BY <2>1 DEF FreshUnused
    <3> QED
      BY <1>1, <3>1, <3>2 DEF LrMatch, FramesOf, Redirected
  <2>4. ASSUME NEW h \in hooks, h # g, NEW t \in Threads PROVE LrMatch(h, t)'
    BY <1>1, <2>2, <2>4, LrMatchFrame DEF SavedLrMatches
  <2> QED
    BY <2>1, <2>3, <2>4 DEF SavedLrMatches
<1>6. CASE detach_all
  BY <1>2, <1>6 DEF detach_all, registryVars
<1>7. ASSUME NEW h \in HookIds, unregister_hook(h) PROVE SavedLrMatches'
  BY <1>2, <1>7 DEF unregister_hook, TypeOK
<1>8. CASE restore_bytes
  BY <1>2, <1>8 DEF restore_bytes
<1> QED
  BY <1>3, <1>4, <1>5, <1>6, <1>7, <1>8 DEF Install

LEMMA InstallUnwindInv == UnwindInv /\ Install => UnwindInv'
<1> SUFFICES ASSUME UnwindInv, Install PROVE UnwindInv'
  OBVIOUS
<1>1. stack' = stack
  BY InstallKeepsFrames
<1>2. PhaseMatchesX30' /\ UnwindsToCaller'
  BY <1>1 DEF UnwindInv, PhaseMatchesX30, UnwindsToCaller, FramesOf
<1> QED
  BY <1>2, InstallTyping, InstallFreshUnused, InstallSavedLr DEF UnwindInv

\* Rewriting the innermost frame: what its new value must satisfy for the
\* parts of the invariant that look at one frame at a time.
LEMMA SetTopFrameInv ==
  ASSUME UnwindInv, NEW t \in Threads, Active(t), NEW g \in Frame,
         SetTop(t, g), UNCHANGED <<hooks, nextId, installer>>,
         g.phase = "enter" => g.x30 \in Sites,
         g.phase \in {"leave", "onLeave"} => g.x30 \in HookIds,
         g.x30 \in Sites => g.x30 = g.ret,
         g.x30 \in HookIds => ~ Fresh(g.x30),
         g.phase = "onEnter" /\ g.held => ~ Fresh(Key(g.hook))
  PROVE  PhaseMatchesX30' /\ UnwindsToCaller' /\ FreshUnused'
<1> DEFINE n == Len(stack[t])
<1>1. /\ Len(stack'[t]) = n /\ n \in Nat \ {0} /\ stack'[t][n] = g
      /\ \A i \in 1 .. n : i # n => stack'[t][i] = stack[t][i]
      /\ \A u \in Threads : u # t => stack'[u] = stack[u]
  BY SetTopFacts DEF UnwindInv, TypeOK
<1>2. ASSUME NEW u \in Threads, NEW i \in 1 .. Len(stack'[u])
      PROVE  \/ u = t /\ i = n /\ stack'[u][i] = g
             \/ i \in FramesOf(u) /\ stack'[u][i] = stack[u][i]
  BY <1>1 DEF FramesOf
<1> HIDE DEF n
<1>3. PhaseMatchesX30'
  <2> SUFFICES ASSUME NEW u \in Threads, NEW i \in 1 .. Len(stack'[u])
               PROVE  /\ stack'[u][i].phase = "enter" => stack'[u][i].x30 \in Sites
                      /\ stack'[u][i].phase \in {"leave", "onLeave"}
                           => stack'[u][i].x30 \in HookIds
    BY DEF PhaseMatchesX30, FramesOf
  <2> QED
    BY <1>2 DEF UnwindInv, PhaseMatchesX30
<1>4. UnwindsToCaller'
  <2> SUFFICES ASSUME NEW u \in Threads, NEW i \in 1 .. Len(stack'[u]),
                      stack'[u][i].x30 \in Sites
               PROVE  stack'[u][i].x30 = stack'[u][i].ret
    BY DEF UnwindsToCaller, FramesOf
  <2> QED
    BY <1>2 DEF UnwindInv, UnwindsToCaller
<1>5. FreshUnused'
  <2> SUFFICES ASSUME NEW h \in HookIds, Fresh(h), NEW u \in Threads,
                      NEW i \in 1 .. Len(stack'[u])
               PROVE  /\ stack'[u][i].x30 # h
                      /\ ~ (/\ stack'[u][i].phase = "onEnter" /\ stack'[u][i].held
                            /\ Key(stack'[u][i].hook) = h)
    BY DEF UnwindInv, FreshUnused, Fresh, Redirected, HoldsEnter, FramesOf
  <2>1. CASE stack'[u][i] = g
    BY <2>1
  <2>2. CASE i \in FramesOf(u) /\ stack'[u][i] = stack[u][i]
    BY <2>2 DEF UnwindInv, FreshUnused, Redirected, HoldsEnter
  <2> QED
    BY <1>2, <2>1, <2>2
<1> QED
  BY <1>3, <1>4, <1>5

\* A step that keeps where the innermost call returns keeps every match.
LEMMA SetTopSavedLr ==
  ASSUME UnwindInv, NEW t \in Threads, Active(t), NEW g \in Frame,
         SetTop(t, g), UNCHANGED <<hooks, savedLr>>,
         g.x30 = Top(t).x30, g.slot = Top(t).slot, g.ret = Top(t).ret
  PROVE  SavedLrMatches'
<1> DEFINE n == Len(stack[t])
<1>1. /\ Len(stack'[t]) = n /\ n \in Nat \ {0} /\ stack'[t][n] = g
      /\ \A i \in 1 .. n : i # n => stack'[t][i] = stack[t][i]
      /\ \A u \in Threads : u # t => stack'[u] = stack[u]
  BY SetTopFacts DEF UnwindInv, TypeOK
<1>2. \A i \in 1 .. n : /\ stack'[t][i].x30 = stack[t][i].x30
                        /\ stack'[t][i].slot = stack[t][i].slot
                        /\ stack'[t][i].ret = stack[t][i].ret
  BY <1>1 DEF Top
<1>3. ASSUME NEW h \in hooks PROVE LrMatch(h, t)'
  <2>1. LrMatch(h, t)
    BY DEF UnwindInv, SavedLrMatches
  <2>2. FramesOf(t)' = FramesOf(t) /\ savedLr' = savedLr
    BY <1>1 DEF FramesOf
  <2>3. \A i \in FramesOf(t) : /\ Redirected(t, i, h)' <=> Redirected(t, i, h)
                               /\ stack'[t][i].slot = stack[t][i].slot
                               /\ stack'[t][i].ret = stack[t][i].ret
    BY <1>2, <2>2 DEF FramesOf, Redirected
  <2> QED
    BY <2>1, <2>2, <2>3 DEF LrMatch
<1>4. ASSUME NEW h \in hooks, NEW u \in Threads, u # t PROVE LrMatch(h, u)'
  BY <1>1, <1>4, LrMatchFrame DEF UnwindInv, SavedLrMatches
<1> QED
  BY <1>3, <1>4 DEF SavedLrMatches

LEMMA CallUnwindInv ==
  ASSUME UnwindInv, NEW t \in Threads, NEW h \in HookIds, NEW r \in Sites,
         Call(t, h, r)
  PROVE  PhaseMatchesX30' /\ UnwindsToCaller' /\ FreshUnused' /\ SavedLrMatches'
<1>0. PICK n \in Nat : n = Len(stack[t])
  BY PushFacts DEF UnwindInv, TypeOK
<1> DEFINE g == [hook |-> h, ret |-> r, x30 |-> r, phase |-> "enter",
                 held |-> FALSE, slot |-> 0]
<1>1. g \in Frame
  BY DEF Frame, Addr, Phases
<1>2. UNCHANGED <<hooks, nextId, installer, savedLr>>
  BY DEF Call, registryVars, installVars
<1>3. /\ n \in Nat /\ Len(stack'[t]) = n + 1 /\ stack'[t][n + 1] = g
      /\ \A i \in 1 .. n : stack'[t][i] = stack[t][i]
      /\ \A u \in Threads : u # t => stack'[u] = stack[u]
  BY <1>0, <1>1, PushFacts DEF UnwindInv, TypeOK, Call
<1>4. ASSUME NEW u \in Threads, NEW i \in 1 .. Len(stack'[u])
      PROVE  \/ u = t /\ i = n + 1 /\ stack'[u][i] = g
             \/ i \in FramesOf(u) /\ stack'[u][i] = stack[u][i]
  BY <1>0, <1>3 DEF FramesOf
<1>5. g.phase = "enter" /\ g.x30 = r /\ g.ret = r /\ r \notin HookIds
  BY SitesAreNotThunks
<1> HIDE DEF g
<1>6. PhaseMatchesX30' /\ UnwindsToCaller'
  <2> SUFFICES ASSUME NEW u \in Threads, NEW i \in 1 .. Len(stack'[u])
               PROVE  /\ stack'[u][i].phase = "enter" => stack'[u][i].x30 \in Sites
                      /\ stack'[u][i].phase \in {"leave", "onLeave"}
                           => stack'[u][i].x30 \in HookIds
                      /\ stack'[u][i].x30 \in Sites
                           => stack'[u][i].x30 = stack'[u][i].ret
    BY DEF PhaseMatchesX30, UnwindsToCaller, FramesOf
  <2> QED
    BY <1>4, <1>5 DEF UnwindInv, PhaseMatchesX30, UnwindsToCaller
<1>7. FreshUnused'
  <2> SUFFICES ASSUME NEW k \in HookIds, Fresh(k), NEW u \in Threads,
                      NEW i \in 1 .. Len(stack'[u])
               PROVE  /\ stack'[u][i].x30 # k
                      /\ ~ (/\ stack'[u][i].phase = "onEnter" /\ stack'[u][i].held
                            /\ Key(stack'[u][i].hook) = k)
    BY <1>2 DEF UnwindInv, FreshUnused, Fresh, Redirected, HoldsEnter, FramesOf
  <2> QED
    BY <1>4, <1>5 DEF UnwindInv, FreshUnused, Redirected, HoldsEnter
<1>8. ASSUME NEW k \in hooks PROVE LrMatch(k, t)'
  <2>1. LrMatch(k, t) /\ k \in HookIds /\ savedLr'[k][t] = savedLr[k][t]
    BY <1>2 DEF UnwindInv, SavedLrMatches, TypeOK
  <2>2. FramesOf(t) = 1 .. n /\ FramesOf(t)' = 1 .. n + 1
    BY <1>0, <1>3 DEF FramesOf
  <2>3. ~ Redirected(t, n + 1, k)'
    BY <1>3, <1>5, <2>1 DEF Redirected
  <2>4. \A i \in 1 .. n : /\ Redirected(t, i, k)' <=> Redirected(t, i, k)
                          /\ stack'[t][i] = stack[t][i]
    BY <1>3, <2>2 DEF Redirected
  <2>5. \A i \in FramesOf(t)' : Redirected(t, i, k)' =>
          /\ i \in FramesOf(t) /\ Redirected(t, i, k)
          /\ stack'[t][i] = stack[t][i]
    BY <1>3, <2>2, <2>3, <2>4
  <2>6. FramesOf(t) \subseteq FramesOf(t)'
    BY <2>2
  <2> QED
    BY <2>1, <2>2, <2>4, <2>5, <2>6 DEF LrMatch
<1>9. ASSUME NEW k \in hooks, NEW u \in Threads, u # t PROVE LrMatch(k, u)'
  BY <1>2, <1>3, <1>9, LrMatchFrame DEF UnwindInv, SavedLrMatches
<1> QED
  BY <1>2, <1>6, <1>7, <1>8, <1>9 DEF SavedLrMatches

LEMMA ReturnUnwindInv ==
  ASSUME UnwindInv, NEW t \in Threads, Return(t)
  PROVE  PhaseMatchesX30' /\ UnwindsToCaller' /\ FreshUnused' /\ SavedLrMatches'
<1>0. PICK n \in Nat : n = Len(stack[t])
  BY TopFrame DEF UnwindInv, Return
<1> DEFINE f == Top(t)
<1>1. /\ Active(t) /\ f \in Frame /\ f = stack[t][n] /\ n \in FramesOf(t)
      /\ UNCHANGED <<hooks, nextId, installer, savedLr>>
  BY <1>0, TopFrame DEF UnwindInv, Return, registryVars, installVars
<1>2. CASE f.x30 \in HookIds
  <2> DEFINE g == [f EXCEPT !.phase = "leave"]
  <2>1. g \in Frame /\ g.phase = "leave" /\ g.x30 = f.x30 /\ g.slot = f.slot
        /\ g.ret = f.ret
    BY <1>1 DEF Frame, Phases
  <2>2. SetTop(t, g)
    BY <1>2, SitesAreNotThunks DEF Return
  <2>3. ~ Fresh(f.x30)
    BY <1>1, <1>2 DEF UnwindInv, FreshUnused, Redirected
  <2>4. g.x30 \in Sites => g.x30 = g.ret
    BY <1>1, <2>1 DEF UnwindInv, UnwindsToCaller
  <2> HIDE DEF g
  <2>5. PhaseMatchesX30' /\ UnwindsToCaller' /\ FreshUnused'
    BY <1>1, <1>2, <2>1, <2>2, <2>3, <2>4, SetTopFrameInv
  <2> QED
    BY <1>1, <2>1, <2>2, <2>5, SetTopSavedLr
<1>3. CASE f.x30 \in Sites
  <2>1. stack' = [stack EXCEPT ![t] = SubSeq(@, 1, Len(@) - 1)]
    BY <1>3, SitesAreNotThunks DEF Return
  <2>2. /\ n \in Nat \ {0} /\ Len(stack'[t]) = n - 1
        /\ \A i \in 1 .. n - 1 : stack'[t][i] = stack[t][i]
        /\ \A u \in Threads : u # t => stack'[u] = stack[u]
    BY <1>0, <1>1, <2>1, PopFacts DEF UnwindInv, TypeOK
  <2>3. ASSUME NEW u \in Threads, NEW i \in 1 .. Len(stack'[u])
        PROVE  i \in FramesOf(u) /\ stack'[u][i] = stack[u][i]
    BY <1>0, <2>2 DEF FramesOf
  <2>4. PhaseMatchesX30' /\ UnwindsToCaller'
    BY <2>3 DEF UnwindInv, PhaseMatchesX30, UnwindsToCaller, FramesOf
  <2>5. FreshUnused'
    BY <1>1, <2>3
       DEF UnwindInv, FreshUnused, Fresh, Redirected, HoldsEnter, FramesOf
  <2>6. ASSUME NEW k \in hooks PROVE LrMatch(k, t)'
    <3>1. LrMatch(k, t) /\ k \in HookIds /\ savedLr'[k][t] = savedLr[k][t]
      BY <1>1 DEF UnwindInv, SavedLrMatches, TypeOK
    <3>2. FramesOf(t) = 1 .. n /\ FramesOf(t)' = 1 .. n - 1
      BY <1>0, <2>2 DEF FramesOf
    <3>3. ~ Redirected(t, n, k)
      BY <1>1, <1>3, <3>1, SitesAreNotThunks DEF Redirected
    <3>4. \A i \in FramesOf(t)' : /\ Redirected(t, i, k)' <=> Redirected(t, i, k)
                                  /\ stack'[t][i] = stack[t][i]
                                  /\ i \in FramesOf(t)
      BY <2>2, <3>2 DEF Redirected
    <3>5. \A i \in FramesOf(t) : Redirected(t, i, k) => i \in FramesOf(t)'
      BY <2>2, <3>2, <3>3
    <3> QED
      BY <3>1, <3>4, <3>5 DEF LrMatch
  <2>7. ASSUME NEW k \in hooks, NEW u \in Threads, u # t PROVE LrMatch(k, u)'
    BY <1>1, <2>2, <2>7, LrMatchFrame DEF UnwindInv, SavedLrMatches
  <2> QED
    BY <1>1, <2>4, <2>5, <2>6, <2>7 DEF SavedLrMatches
<1> QED
  BY <1>1, <1>2, <1>3 DEF Frame, Addr

LEMMA EnterTakeUnwindInv ==
  ASSUME UnwindInv, NoIdWrap, NEW t \in Threads, EnterTake(t)
  PROVE  PhaseMatchesX30' /\ UnwindsToCaller' /\ FreshUnused' /\ SavedLrMatches'
<1>0. PICK n \in Nat : n = Len(stack[t])
  BY TopFrame DEF UnwindInv, EnterTake
<1> DEFINE f == Top(t)
<1>1. /\ Active(t) /\ f \in Frame /\ f = stack[t][n] /\ n \in FramesOf(t)
      /\ f.phase = "enter" /\ UNCHANGED <<hooks, nextId, installer, kind>>
  BY <1>0, TopFrame DEF UnwindInv, EnterTake, installVars
<1>2. f.x30 \in Sites /\ f.x30 = f.ret /\ f.x30 \notin HookIds
  BY <1>1, SitesAreNotThunks DEF UnwindInv, PhaseMatchesX30, UnwindsToCaller
<1>3. PICK k \in HookIds : k = f.hook /\ k = Key(f.hook)
  BY <1>1, KeyIsId DEF Frame
<1>4. CASE k \notin hooks
  <2> DEFINE g == [f EXCEPT !.phase = AfterEnter(f.hook)]
  <2>1. SetTop(t, g) /\ savedLr' = savedLr
    BY <1>3, <1>4 DEF EnterTake
  <2>2. /\ g \in Frame /\ g.phase \in {"body", "ret"}
        /\ g.x30 = f.x30 /\ g.slot = f.slot /\ g.ret = f.ret
    BY <1>1 DEF Frame, Phases, AfterEnter
  <2> HIDE DEF g
  <2>3. PhaseMatchesX30' /\ UnwindsToCaller' /\ FreshUnused'
    BY <1>1, <1>2, <2>1, <2>2, SetTopFrameInv
  <2> QED
    BY <1>1, <2>1, <2>2, <2>3, SetTopSavedLr
<1>5. CASE k \in hooks /\ ~ WantLeave(k)
  <2> DEFINE g == [f EXCEPT !.phase = "onEnter", !.held = enterSlot[k]]
  <2>1. SetTop(t, g) /\ savedLr' = savedLr
    BY <1>3, <1>5 DEF EnterTake
  <2>2. /\ g \in Frame /\ g.phase = "onEnter" /\ Key(g.hook) = k
        /\ g.x30 = f.x30 /\ g.slot = f.slot /\ g.ret = f.ret
    BY <1>1, <1>3 DEF Frame, Phases, UnwindInv, TypeOK
  <2>3. ~ Fresh(k)
    BY <1>5 DEF UnwindInv, FreshUnused, TypeOK
  <2> HIDE DEF g
  <2>4. PhaseMatchesX30' /\ UnwindsToCaller' /\ FreshUnused'
    BY <1>1, <1>2, <2>1, <2>2, <2>3, SetTopFrameInv
  <2> QED
    BY <1>1, <2>1, <2>2, <2>4, SetTopSavedLr
<1>6. CASE k \in hooks /\ WantLeave(k)
  <2>0. PICK lrs \in Seq(Addr) : lrs = savedLr[k][t]
    BY <1>6 DEF UnwindInv, TypeOK
  <2> DEFINE m == Len(lrs)
             g == [f EXCEPT !.phase = "onEnter", !.held = enterSlot[k], !.x30 = k, !.slot = m + 1]
  <2>1. /\ SetTop(t, g)
        /\ savedLr' = [savedLr EXCEPT ![k][t] = Append(lrs, f.ret)]
    BY <1>2, <1>3, <1>6, <2>0 DEF EnterTake, PushLr
  <2>2. /\ g \in Frame /\ g.phase = "onEnter" /\ Key(g.hook) = k
        /\ g.x30 = k /\ g.slot = m + 1 /\ g.ret = f.ret
    <3>1. m + 1 \in Nat /\ enterSlot[k] \in BOOLEAN
      BY DEF UnwindInv, TypeOK
    <3>2. \A i \in Nat, b \in BOOLEAN, a \in Addr :
            [f EXCEPT !.phase = "onEnter", !.held = b,
                      !.x30 = a, !.slot = i] \in Frame
      BY <1>1 DEF Frame, Phases
    <3>3. g \in Frame
      BY <1>3, <3>1, <3>2 DEF Addr
    <3>4. /\ g.phase = "onEnter" /\ g.hook = f.hook
          /\ g.x30 = k /\ g.slot = m + 1 /\ g.ret = f.ret
      BY <1>1 DEF Frame
    <3> QED
      BY <1>3, <3>3, <3>4
  <2>3. ~ Fresh(k)
    BY <1>6 DEF UnwindInv, FreshUnused, TypeOK
  <2> HIDE DEF g
  <2>4. PhaseMatchesX30' /\ UnwindsToCaller' /\ FreshUnused'
    BY <1>1, <1>2, <2>1, <2>2, <2>3, SitesAreNotThunks, SetTopFrameInv
  <2>5. /\ Len(stack'[t]) = n /\ stack'[t][n] = g
        /\ \A i \in 1 .. n : i # n => stack'[t][i] = stack[t][i]
        /\ \A u \in Threads : u # t => stack'[u] = stack[u]
    BY <1>0, <1>1, <2>1, <2>2, SetTopFacts DEF UnwindInv, TypeOK
  <2>6. FramesOf(t) = 1 .. n /\ FramesOf(t)' = 1 .. n
    BY <1>0, <2>5 DEF FramesOf
  <2>7. /\ savedLr'[k][t] = Append(lrs, f.ret)
        /\ \A h \in hooks, u \in Threads :
             h # k \/ u # t => savedLr'[h][u] = savedLr[h][u]
    BY <2>0, <2>1, <1>6 DEF UnwindInv, TypeOK
  <2>8. ASSUME NEW h \in hooks, h # k PROVE LrMatch(h, t)'
    <3>1. LrMatch(h, t) /\ h \in HookIds /\ savedLr'[h][t] = savedLr[h][t]
      BY <2>7, <2>8 DEF UnwindInv, SavedLrMatches, TypeOK
    <3>2. ~ Redirected(t, n, h) /\ ~ Redirected(t, n, h)'
      BY <1>1, <1>2, <2>2, <2>5, <2>8, <3>1 DEF Redirected
    <3>3. \A i \in FramesOf(t) : /\ Redirected(t, i, h)' <=> Redirected(t, i, h)
                                 /\ i # n => stack'[t][i] = stack[t][i]
      BY <2>5, <2>6, <3>2 DEF Redirected
    <3>4. \A i \in FramesOf(t) : Redirected(t, i, h) =>
            stack'[t][i] = stack[t][i]
      BY <3>2, <3>3
    <3> QED
      BY <2>6, <3>1, <3>3, <3>4 DEF LrMatch
  <2>9. LrMatch(k, t)'
    <3>1. /\ LrMatch(k, t) /\ m \in Nat
          /\ Len(savedLr'[k][t]) = m + 1 /\ savedLr'[k][t][m + 1] = f.ret
          /\ \A i \in 1 .. m : savedLr'[k][t][i] = lrs[i]
      <4>1. f.ret \in Addr
        BY <1>1 DEF Frame, Addr
      <4> QED
        BY <1>6, <2>7, <4>1, AppendProperties DEF UnwindInv, SavedLrMatches
    <3>2. ~ Redirected(t, n, k) /\ Redirected(t, n, k)'
      BY <1>1, <1>2, <2>2, <2>5, <2>6 DEF Redirected
    <3>3. \A i \in 1 .. n : i # n => /\ Redirected(t, i, k)' <=> Redirected(t, i, k)
                                     /\ stack'[t][i] = stack[t][i]
      BY <2>5, <2>6 DEF Redirected
    <3>4. /\ \A i \in 1 .. n : Redirected(t, i, k) =>
               /\ stack[t][i].slot \in 1 .. m
               /\ lrs[stack[t][i].slot] = stack[t][i].ret
          /\ \A i, j \in 1 .. n :
               Redirected(t, i, k) /\ Redirected(t, j, k) /\ i < j
                 => stack[t][i].slot < stack[t][j].slot
      BY <2>0, <2>6, <3>1 DEF LrMatch
    <3> HIDE DEF m
    <3>5. ASSUME NEW i \in 1 .. n, Redirected(t, i, k)'
          PROVE  /\ stack'[t][i].slot \in 1 .. m + 1
                 /\ savedLr'[k][t][stack'[t][i].slot] = stack'[t][i].ret
      <4>1. CASE i = n
        BY <2>2, <2>5, <3>1, <4>1
      <4>2. CASE i # n
        <5>1. Redirected(t, i, k) /\ stack'[t][i] = stack[t][i]
          BY <3>3, <3>5, <4>2
        <5>2. /\ stack[t][i].slot \in 1 .. m
              /\ lrs[stack[t][i].slot] = stack[t][i].ret
          BY <3>4, <5>1
        <5> QED
          BY <3>1, <5>1, <5>2
      <4> QED
        BY <4>1, <4>2
    <3>6. ASSUME NEW i \in 1 .. n, NEW j \in 1 .. n,
                 Redirected(t, i, k)', Redirected(t, j, k)', i < j
          PROVE  stack'[t][i].slot < stack'[t][j].slot
      <4>1. i # n /\ Redirected(t, i, k) /\ stack'[t][i] = stack[t][i]
        BY <3>3, <3>6
      <4>2. CASE j = n
        BY <2>2, <2>5, <3>1, <3>4, <4>1, <4>2
      <4>3. CASE j # n
        BY <3>3, <3>4, <3>6, <4>1, <4>3
      <4> QED
        BY <4>2, <4>3
    <3>7. \A a \in 1 .. m + 1 :
            \E i \in 1 .. n : Redirected(t, i, k)' /\ stack'[t][i].slot = a
      <4> SUFFICES ASSUME NEW a \in 1 .. m + 1
                   PROVE \E i \in 1 .. n :
                           Redirected(t, i, k)' /\ stack'[t][i].slot = a
        OBVIOUS
      <4>1. CASE a = m + 1
        BY <1>1, <2>2, <2>5, <2>6, <3>2, <4>1
      <4>2. CASE a \in 1 .. m
        <5>1. PICK i \in 1 .. n : Redirected(t, i, k) /\ stack[t][i].slot = a
          BY <2>0, <2>6, <3>1, <4>2 DEF LrMatch, m
        <5> QED
          BY <3>2, <3>3, <5>1
      <4> QED
        BY <3>1, <4>1, <4>2
    <3> QED
      BY <2>6, <3>1, <3>5, <3>6, <3>7 DEF LrMatch
  <2>10. ASSUME NEW h \in hooks, NEW u \in Threads, u # t PROVE LrMatch(h, u)'
    BY <2>5, <2>7, <2>10, LrMatchFrame DEF UnwindInv, SavedLrMatches
  <2> QED
    BY <1>1, <2>4, <2>8, <2>9, <2>10 DEF SavedLrMatches
<1> QED
  BY <1>4, <1>5, <1>6

LEMMA EnterPutUnwindInv ==
  ASSUME UnwindInv, NEW t \in Threads, EnterPut(t)
  PROVE  PhaseMatchesX30' /\ UnwindsToCaller' /\ FreshUnused' /\ SavedLrMatches'
<1> DEFINE f == Top(t)
           g == [f EXCEPT !.phase = AfterEnter(f.hook), !.held = FALSE]
<1>1. /\ Active(t) /\ f \in Frame /\ SetTop(t, g)
      /\ UNCHANGED <<hooks, nextId, installer, savedLr>>
  BY TopFrame DEF UnwindInv, EnterPut, installVars
<1>2. /\ g \in Frame /\ g.phase \in {"body", "ret"}
      /\ g.x30 = f.x30 /\ g.slot = f.slot /\ g.ret = f.ret
  BY <1>1 DEF Frame, Phases, AfterEnter
<1>3. /\ f.x30 \in Sites => f.x30 = f.ret
      /\ f.x30 \in HookIds => ~ Fresh(f.x30)
  BY <1>1, TopFrame DEF UnwindInv, UnwindsToCaller, FreshUnused, Redirected
<1> HIDE DEF g
<1>4. PhaseMatchesX30' /\ UnwindsToCaller' /\ FreshUnused'
  BY <1>1, <1>2, <1>3, SetTopFrameInv
<1> QED
  BY <1>1, <1>2, <1>4, SetTopSavedLr

LEMMA LeaveTakeUnwindInv ==
  ASSUME UnwindInv, NEW t \in Threads, LeaveTake(t)
  PROVE  PhaseMatchesX30' /\ UnwindsToCaller' /\ FreshUnused' /\ SavedLrMatches'
<1> DEFINE f == Top(t)
           k == Key(f.x30)
<1>1. /\ Active(t) /\ f \in Frame /\ f.phase = "leave"
      /\ UNCHANGED <<hooks, nextId, installer, savedLr>>
  BY TopFrame DEF UnwindInv, LeaveTake, installVars
<1>2. /\ f.x30 \in HookIds
      /\ f.x30 \in Sites => f.x30 = f.ret
      /\ f.x30 \in HookIds => ~ Fresh(f.x30)
  BY <1>1, TopFrame
     DEF UnwindInv, UnwindsToCaller, FreshUnused, Redirected, PhaseMatchesX30
<1>3. PICK g \in Frame : /\ SetTop(t, g) /\ g.phase \in {"ret", "onLeave"}
                         /\ g.x30 = f.x30 /\ g.slot = f.slot /\ g.ret = f.ret
  <2>1. CASE k \notin hooks
    <3> DEFINE g == [f EXCEPT !.phase = "ret"]
    <3>1. /\ g \in Frame /\ g.phase \in {"ret", "onLeave"}
          /\ g.x30 = f.x30 /\ g.slot = f.slot /\ g.ret = f.ret
      BY <1>1 DEF Frame, Phases
    <3>2. SetTop(t, g)
      BY <2>1 DEF LeaveTake
    <3> QED
      BY <3>1, <3>2
  <2>2. CASE k \in hooks
    <3> DEFINE g == [f EXCEPT !.phase = "onLeave", !.held = leaveSlot[k]]
    <3>0. leaveSlot[k] \in BOOLEAN
      BY <2>2 DEF UnwindInv, TypeOK
    <3>1. /\ g \in Frame /\ g.phase \in {"ret", "onLeave"}
          /\ g.x30 = f.x30 /\ g.slot = f.slot /\ g.ret = f.ret
      BY <1>1, <3>0 DEF Frame, Phases
    <3>2. SetTop(t, g)
      BY <2>2 DEF LeaveTake
    <3> QED
      BY <3>1, <3>2
  <2> QED
    BY <2>1, <2>2
<1>4. PhaseMatchesX30' /\ UnwindsToCaller' /\ FreshUnused'
  BY <1>1, <1>2, <1>3, SetTopFrameInv
<1> QED
  BY <1>1, <1>3, <1>4, SetTopSavedLr

\* The frame that is about to pop is the owner of the last saved LR.
LEMMA PopsOwnLr ==
  ASSUME UnwindInv, NEW t \in Threads, Active(t), NEW k \in hooks,
         Top(t).x30 = k
  PROVE  /\ Top(t).slot = Len(savedLr[k][t])
         /\ savedLr[k][t] # <<>>
         /\ savedLr[k][t][Len(savedLr[k][t])] = Top(t).ret
<1>1. PICK n \in Nat : n = Len(stack[t]) /\ n \in FramesOf(t)
                       /\ Top(t) = stack[t][n] /\ FramesOf(t) = 1 .. n
  BY TopFrame DEF UnwindInv, FramesOf
<1>2. PICK lrs \in Seq(Addr) : lrs = savedLr[k][t]
  BY DEF UnwindInv, TypeOK
<1>3. PICK m \in Nat : m = Len(lrs)
  BY <1>2
<1>4. LrMatch(k, t) /\ Redirected(t, n, k)
  BY <1>1 DEF UnwindInv, SavedLrMatches, Redirected
<1>5. /\ stack[t][n].slot \in 1 .. m
      /\ lrs[stack[t][n].slot] = stack[t][n].ret
      /\ \A i \in 1 .. n : Redirected(t, i, k) /\ i < n
            => stack[t][i].slot < stack[t][n].slot
      /\ \A a \in 1 .. m : \E i \in 1 .. n :
            Redirected(t, i, k) /\ stack[t][i].slot = a
  BY <1>1, <1>2, <1>3, <1>4 DEF LrMatch
<1>6. PICK i \in 1 .. n : Redirected(t, i, k) /\ stack[t][i].slot = m
  BY <1>5
<1>7. i = n
  BY <1>5, <1>6
<1> QED
  BY <1>1, <1>2, <1>3, <1>5, <1>6, <1>7

LEMMA LeavePutUnwindInv ==
  ASSUME UnwindInv, NoIdWrap, NEW t \in Threads, LeavePut(t)
  PROVE  PhaseMatchesX30' /\ UnwindsToCaller' /\ FreshUnused' /\ SavedLrMatches'
<1>0. PICK n \in Nat : n = Len(stack[t])
  BY TopFrame DEF UnwindInv, LeavePut
<1> DEFINE f == Top(t)
           done == [f EXCEPT !.phase = "ret", !.held = FALSE]
<1>1. /\ Active(t) /\ f \in Frame /\ f = stack[t][n] /\ n \in FramesOf(t)
      /\ f.phase = "onLeave" /\ UNCHANGED <<hooks, nextId, installer>>
  BY <1>0, TopFrame DEF UnwindInv, LeavePut, installVars
<1>2. PICK k \in HookIds : k = f.x30 /\ k = Key(f.x30) /\ k \notin Sites
  BY <1>1, KeyIsId, SitesAreNotThunks DEF UnwindInv, PhaseMatchesX30
<1>3. CASE k \notin hooks
  <2>1. SetTop(t, done) /\ savedLr' = savedLr
    BY <1>2, <1>3 DEF LeavePut
  <2>2. /\ done \in Frame /\ done.phase = "ret"
        /\ done.x30 = f.x30 /\ done.slot = f.slot /\ done.ret = f.ret
    BY <1>1 DEF Frame, Phases
  <2>3. ~ Fresh(f.x30)
    BY <1>1, <1>2 DEF UnwindInv, FreshUnused, Redirected
  <2> HIDE DEF done
  <2>4. PhaseMatchesX30' /\ UnwindsToCaller' /\ FreshUnused'
    BY <1>1, <1>2, <2>1, <2>2, <2>3, SetTopFrameInv
  <2> QED
    BY <1>1, <2>1, <2>2, <2>4, SetTopSavedLr
<1>4. CASE k \in hooks
  <2>0. PICK lrs \in Seq(Addr) : lrs = savedLr[k][t]
    BY <1>4 DEF UnwindInv, TypeOK
  <2>1. PICK m \in Nat \ {0} : m = Len(lrs) /\ f.slot = m /\ lrs[m] = f.ret
                               /\ lrs # <<>>
    <3>1. /\ f.slot = Len(lrs) /\ lrs # <<>> /\ lrs[Len(lrs)] = f.ret
      BY <1>1, <1>2, <1>4, <2>0, PopsOwnLr
    <3>2. Len(lrs) \in Nat \ {0}
      BY <2>0, <3>1
    <3> QED
      BY <3>1, <3>2
  <2> DEFINE g == [done EXCEPT !.x30 = f.ret, !.slot = 0]
  <2>2. SetTop(t, g) /\ savedLr' = [savedLr EXCEPT ![k][t] = SubSeq(lrs, 1, m - 1)]
    BY <1>2, <1>4, <2>0, <2>1 DEF LeavePut, PopLr, DropLr
  <2>3. g \in Frame /\ g.phase = "ret" /\ g.x30 = f.ret /\ g.ret = f.ret
        /\ f.ret \in Sites
    BY <1>1 DEF Frame, Phases, Addr
  <2> HIDE DEF g
  <2>4. PhaseMatchesX30' /\ UnwindsToCaller' /\ FreshUnused'
    BY <1>1, <2>2, <2>3, SitesAreNotThunks, SetTopFrameInv
  <2>5. /\ Len(stack'[t]) = n /\ stack'[t][n] = g
        /\ \A i \in 1 .. n : i # n => stack'[t][i] = stack[t][i]
        /\ \A u \in Threads : u # t => stack'[u] = stack[u]
    BY <1>0, <1>1, <2>2, <2>3, SetTopFacts DEF UnwindInv, TypeOK
  <2>6. FramesOf(t) = 1 .. n /\ FramesOf(t)' = 1 .. n
    BY <1>0, <2>5 DEF FramesOf
  <2>7. /\ savedLr'[k][t] = SubSeq(lrs, 1, m - 1)
        /\ \A h \in hooks, u \in Threads :
             h # k \/ u # t => savedLr'[h][u] = savedLr[h][u]
    BY <2>0, <2>2, <1>4 DEF UnwindInv, TypeOK
  <2>8. \A h \in HookIds : ~ Redirected(t, n, h)'
    BY <2>3, <2>5, SitesAreNotThunks DEF Redirected
  <2>9. ASSUME NEW h \in hooks, h # k PROVE LrMatch(h, t)'
    <3>1. LrMatch(h, t) /\ h \in HookIds /\ savedLr'[h][t] = savedLr[h][t]
      BY <2>7, <2>9 DEF UnwindInv, SavedLrMatches, TypeOK
    <3>2. ~ Redirected(t, n, h) /\ ~ Redirected(t, n, h)'
      BY <1>1, <1>2, <2>8, <2>9, <3>1 DEF Redirected
    <3>3. \A i \in FramesOf(t) : /\ Redirected(t, i, h)' <=> Redirected(t, i, h)
                                 /\ i # n => stack'[t][i] = stack[t][i]
      BY <2>5, <2>6, <3>2 DEF Redirected
    <3>4. \A i \in FramesOf(t) : Redirected(t, i, h) =>
            stack'[t][i] = stack[t][i]
      BY <3>2, <3>3
    <3> QED
      BY <2>6, <3>1, <3>3, <3>4 DEF LrMatch
  <2>10. LrMatch(k, t)'
    <3>1. /\ LrMatch(k, t) /\ Redirected(t, n, k) /\ stack[t][n].slot = m
          /\ Len(savedLr'[k][t]) = m - 1
          /\ \A i \in 1 .. m - 1 : savedLr'[k][t][i] = lrs[i]
      BY <1>1, <1>2, <1>4, <2>1, <2>7, DropLast
         DEF UnwindInv, SavedLrMatches, Redirected
    <3>2. \A i \in 1 .. n : Redirected(t, i, k)' =>
            /\ i < n /\ Redirected(t, i, k) /\ stack'[t][i] = stack[t][i]
      BY <2>5, <2>6, <2>8 DEF Redirected
    <3>3. \A i \in 1 .. n : Redirected(t, i, k) /\ i # n =>
            Redirected(t, i, k)' /\ stack'[t][i] = stack[t][i]
      BY <2>5, <2>6 DEF Redirected
    <3>4. /\ \A i \in 1 .. n : Redirected(t, i, k) =>
               /\ stack[t][i].slot \in 1 .. m
               /\ lrs[stack[t][i].slot] = stack[t][i].ret
          /\ \A i, j \in 1 .. n :
               Redirected(t, i, k) /\ Redirected(t, j, k) /\ i < j
                 => stack[t][i].slot < stack[t][j].slot
          /\ \A a \in 1 .. m :
               \E i \in 1 .. n : Redirected(t, i, k) /\ stack[t][i].slot = a
      BY <2>0, <2>1, <2>6, <3>1 DEF LrMatch
    <3>5. ASSUME NEW i \in 1 .. n, Redirected(t, i, k)'
          PROVE  /\ stack'[t][i].slot \in 1 .. m - 1
                 /\ savedLr'[k][t][stack'[t][i].slot] = stack'[t][i].ret
      <4>1. /\ i < n /\ Redirected(t, i, k) /\ stack'[t][i] = stack[t][i]
        BY <3>2, <3>5
      <4>2. /\ stack[t][i].slot \in 1 .. m /\ stack[t][i].slot < m
            /\ lrs[stack[t][i].slot] = stack[t][i].ret
        <5>1. n \in 1 .. n
          BY <1>1, <2>6
        <5> QED
          BY <3>1, <3>4, <4>1, <5>1
      <4>3. stack[t][i].slot \in 1 .. m - 1
        BY <4>2
      <4>4. savedLr'[k][t][stack[t][i].slot] = lrs[stack[t][i].slot]
        BY <3>1, <4>3
      <4> QED
        BY <4>1, <4>2, <4>3, <4>4
    <3>6. ASSUME NEW i \in 1 .. n, NEW j \in 1 .. n,
                 Redirected(t, i, k)', Redirected(t, j, k)', i < j
          PROVE  stack'[t][i].slot < stack'[t][j].slot
      BY <3>2, <3>4, <3>6
    <3>7. \A a \in 1 .. m - 1 :
            \E i \in 1 .. n : Redirected(t, i, k)' /\ stack'[t][i].slot = a
      <4> SUFFICES ASSUME NEW a \in 1 .. m - 1
                   PROVE \E i \in 1 .. n :
                           Redirected(t, i, k)' /\ stack'[t][i].slot = a
        OBVIOUS
      <4>1. PICK i \in 1 .. n : Redirected(t, i, k) /\ stack[t][i].slot = a
        BY <3>4
      <4>2. i # n
        BY <3>1, <4>1
      <4> QED
        BY <3>3, <4>1, <4>2
    <3> QED
      BY <2>6, <3>1, <3>5, <3>6, <3>7 DEF LrMatch
  <2>11. ASSUME NEW h \in hooks, NEW u \in Threads, u # t PROVE LrMatch(h, u)'
    BY <2>5, <2>7, <2>11, LrMatchFrame DEF UnwindInv, SavedLrMatches
  <2> QED
    BY <1>1, <2>4, <2>9, <2>10, <2>11 DEF SavedLrMatches
<1> QED
  BY <1>3, <1>4

LEMMA NextUnwindInv == NoIdWrap /\ UnwindInv /\ [Next]_vars => UnwindInv'
<1> SUFFICES ASSUME NoIdWrap, UnwindInv, [Next]_vars PROVE UnwindInv'
  OBVIOUS
<1>1. CASE UNCHANGED vars
  BY <1>1 DEF vars, UnwindInv, TypeOK, PhaseMatchesX30, FreshUnused, Fresh,
              SavedLrMatches, LrMatch, UnwindsToCaller, FramesOf, Redirected,
              HoldsEnter
<1>2. CASE Install
  BY <1>2, InstallUnwindInv
<1>3. ASSUME NEW t \in Threads, ThreadStep(t) PROVE UnwindInv'
  <2>1. TypeOK'
    BY <1>3, ThreadTyping DEF UnwindInv
  <2>2. PhaseMatchesX30' /\ UnwindsToCaller' /\ FreshUnused' /\ SavedLrMatches'
    BY <1>3, CallUnwindInv, EnterTakeUnwindInv, EnterPutUnwindInv,
       ReturnUnwindInv, LeaveTakeUnwindInv, LeavePutUnwindInv DEF ThreadStep
  <2> QED
    BY <2>1, <2>2 DEF UnwindInv
<1> QED
  BY <1>1, <1>2, <1>3 DEF Next

LEMMA InitUnwindInv == Init => UnwindInv
<1> SUFFICES ASSUME Init PROVE UnwindInv
  OBVIOUS
<1>1. TypeOK
  BY InitTyping
<1>2. hooks = {} /\ installer.step = "idle" /\ \A t \in Threads : FramesOf(t) = {}
  BY DEF Init, FramesOf, Idle
<1> QED
  BY <1>1, <1>2 DEF UnwindInv, PhaseMatchesX30, FreshUnused, SavedLrMatches,
                    UnwindsToCaller, Redirected, HoldsEnter

\* For any number of threads, hooks and nested calls, while threads call in
\* and hooks come and go: the invariant behind the return addresses.  The one
\* assumption is that ids fit the thunks' immediate.
THEOREM UnwindInvariant ==
  ASSUME NoIdWrap
  PROVE  Spec => []UnwindInv
<1>1. Init => UnwindInv
  BY InitUnwindInv
<1>2. UnwindInv /\ [Next]_vars => UnwindInv'
  BY NextUnwindInv
<1> QED
  BY <1>1, <1>2, PTL DEF Spec

\* A link register that points into the program points to the caller of its call.
THEOREM UnwindCorrect ==
  ASSUME NoIdWrap
  PROVE  Spec => []UnwindsToCaller
<1>1. UnwindInv => UnwindsToCaller
  BY DEF UnwindInv
<1> QED
  BY <1>1, UnwindInvariant, PTL

\* saved_lr holds the return addresses of the redirected calls, in their order.
THEOREM SavedLrCorrect ==
  ASSUME NoIdWrap
  PROVE  Spec => []SavedLrMatches
<1>1. UnwindInv => SavedLrMatches
  BY DEF UnwindInv
<1> QED
  BY <1>1, UnwindInvariant, PTL

-----------------------------------------------------------------------------
(***************************************************************************)
(* Callbacks are conserved.                                                *)
(***************************************************************************)

\* What a frame holds of h.
InEnter(f, h) == f.phase = "onEnter" /\ f.held /\ Key(f.hook) = h
InLeave(f, h) == f.phase = "onLeave" /\ f.held /\ Key(f.x30) = h

EnterHeld(h) == \E u \in Threads, i \in Nat : HoldsEnter(u, i, h)
LeaveHeld(h) == \E u \in Threads, i \in Nat : HoldsLeave(u, i, h)

\* The on_enter and the on_leave of h: in its slot, or in one pair of hands.
EnterSide(h) ==
  /\ enterSlot[h] <=> ~ EnterHeld(h)
  /\ \A u, v \in Threads : \A i, j \in Nat :
       HoldsEnter(u, i, h) /\ HoldsEnter(v, j, h) => u = v /\ i = j
LeaveSide(h) ==
  /\ leaveSlot[h] \/ kind[h] = "observe" <=> ~ LeaveHeld(h)
  /\ kind[h] = "observe" => ~ leaveSlot[h]
  /\ \A u, v \in Threads : \A i, j \in Nat :
       HoldsLeave(u, i, h) /\ HoldsLeave(v, j, h) => u = v /\ i = j

Conserved(h) == EnterSide(h) /\ LeaveSide(h)

\* CallbackConserved is inductive once it is known that nobody holds a callback of
\* a hook before it is registered, and that a hook without on_leave never has one
\* in its slot.
CallbackInv ==
  /\ TypeOK
  /\ installer.step = "patched" => installer.id < nextId
  /\ \A h \in HookIds : Fresh(h) => h \notin hooks /\ ~ EnterHeld(h) /\ ~ LeaveHeld(h)
  /\ \A h \in hooks : Conserved(h)

LEMMA CallbackEnough == CallbackInv => CallbackConserved
<1> SUFFICES ASSUME CallbackInv PROVE CallbackConserved
  OBVIOUS
<1>1. \A t \in Threads : FramesOf(t) \subseteq Nat
  BY DEF CallbackInv, TypeOK, FramesOf
<1>2. ASSUME NEW h \in hooks
      PROVE  /\ EnterHeld(h) <=> \E t \in Threads : \E i \in FramesOf(t) : HoldsEnter(t, i, h)
             /\ LeaveHeld(h) <=> \E t \in Threads : \E i \in FramesOf(t) : HoldsLeave(t, i, h)
  BY <1>1 DEF EnterHeld, LeaveHeld, HoldsEnter, HoldsLeave
<1> QED
  BY <1>1, <1>2 DEF CallbackInv, Conserved, EnterSide, LeaveSide, CallbackConserved

\* Attach and detach move no callback from or to a thread.
LEMMA InstallCallback == CallbackInv /\ Install => CallbackInv'
<1> SUFFICES ASSUME CallbackInv, Install PROVE CallbackInv'
  OBVIOUS
<1>1. TypeOK' /\ stack' = stack
  BY InstallTyping, InstallKeepsFrames DEF CallbackInv
<1>2. \A h : (EnterHeld(h)' <=> EnterHeld(h)) /\ (LeaveHeld(h)' <=> LeaveHeld(h))
  BY <1>1 DEF EnterHeld, LeaveHeld, HoldsEnter, HoldsLeave, FramesOf
<1>3. ASSUME NEW h \in hooks, enterSlot'[h] = enterSlot[h], leaveSlot'[h] = leaveSlot[h],
             kind'[h] = kind[h]
      PROVE  Conserved(h)'
  BY <1>1, <1>2, <1>3
     DEF CallbackInv, Conserved, EnterSide, LeaveSide, HoldsEnter, HoldsLeave, FramesOf
<1> USE DEF Fresh
<1>4. ASSUME NEW k \in Kinds, AttachPatch(k) PROVE CallbackInv'
  BY <1>1, <1>2, <1>3, <1>4 DEF AttachPatch, InstallerFree, Idle, CallbackInv, TypeOK, HookIds
<1>5. CASE AttachFail
  BY <1>1, <1>2, <1>3, <1>5
     DEF AttachFail, InstallerFree, Idle, CallbackInv, TypeOK, HookIds, registryVars
<1>6. CASE register_hook
  <2>0. PICK n \in HookIds : n = installer.id
    BY <1>6 DEF register_hook, CallbackInv, TypeOK
  <2>1. /\ n \in HookIds /\ n \notin hooks /\ ~ EnterHeld(n) /\ ~ LeaveHeld(n) /\ n < nextId
    BY <1>6, <2>0 DEF register_hook, CallbackInv, TypeOK
  <2>2. /\ hooks' = hooks \cup {n} /\ kind' = kind /\ nextId' = nextId /\ installer' = Idle
        /\ enterSlot' = [enterSlot EXCEPT ![n] = TRUE]
        /\ leaveSlot' = [leaveSlot EXCEPT ![n] = kind[n] # "observe"]
    BY <1>6, <2>0 DEF register_hook
  <2>3. Conserved(n)'
    <3>1. enterSlot'[n] = TRUE /\ leaveSlot'[n] = (kind[n] # "observe")
      BY <2>1, <2>2 DEF CallbackInv, TypeOK
    <3>2. ~ EnterHeld(n)' /\ ~ LeaveHeld(n)'
      BY <1>2, <2>1
    <3>3. \A u \in Threads : \A i \in Nat : ~ HoldsEnter(u, i, n)' /\ ~ HoldsLeave(u, i, n)'
      BY <3>2 DEF EnterHeld, LeaveHeld
    <3> QED
      BY <2>2, <3>1, <3>2, <3>3 DEF Conserved, EnterSide, LeaveSide
  <2>4. ASSUME NEW h \in hooks PROVE Conserved(h)'
    BY <1>3, <2>1, <2>2 DEF CallbackInv, TypeOK
  <2> QED
    BY <1>1, <1>2, <2>1, <2>2, <2>3, <2>4 DEF CallbackInv, Idle, TypeOK, HookIds
<1>7. CASE detach_all
  BY <1>1, <1>2, <1>3, <1>7
     DEF detach_all, InstallerFree, Idle, CallbackInv, registryVars
<1>8. ASSUME NEW h \in HookIds, unregister_hook(h) PROVE CallbackInv'
  BY <1>1, <1>2, <1>3, <1>8 DEF unregister_hook, Idle, CallbackInv, TypeOK
<1>9. CASE restore_bytes
  BY <1>1, <1>2, <1>3, <1>9 DEF restore_bytes, Idle, CallbackInv
<1> QED
  BY <1>4, <1>5, <1>6, <1>7, <1>8, <1>9 DEF Install

\* A step that rewrites the innermost frame of a thread: what that does to who
\* holds the callbacks of h.
LEMMA SetTopHolds ==
  ASSUME TypeOK, NEW t \in Threads, Active(t), NEW g \in Frame, SetTop(t, g),
         NEW u \in Threads, NEW i \in Nat, NEW h
  PROVE  /\ HoldsEnter(u, i, h)' <=> IF u = t /\ i = Len(stack[t]) THEN InEnter(g, h)
                                     ELSE HoldsEnter(u, i, h)
         /\ HoldsLeave(u, i, h)' <=> IF u = t /\ i = Len(stack[t]) THEN InLeave(g, h)
                                     ELSE HoldsLeave(u, i, h)
         /\ u = t /\ i = Len(stack[t]) => /\ HoldsEnter(u, i, h) <=> InEnter(Top(t), h)
                                          /\ HoldsLeave(u, i, h) <=> InLeave(Top(t), h)
<1>1. /\ Len(stack'[t]) = Len(stack[t]) /\ Len(stack[t]) \in Nat \ {0}
      /\ stack'[t][Len(stack[t])] = g
      /\ \A j \in 1 .. Len(stack[t]) : j # Len(stack[t]) => stack'[t][j] = stack[t][j]
      /\ \A v \in Threads : v # t => stack'[v] = stack[v]
  BY SetTopFacts DEF TypeOK
<1> QED
  BY <1>1 DEF HoldsEnter, HoldsLeave, FramesOf, InEnter, InLeave, Top

\* The slot loses what the frame takes and gains what it gives back.
LEMMA EnterSideStep ==
  ASSUME TypeOK, NEW t \in Threads, Active(t), NEW g \in Frame, SetTop(t, g),
         NEW h, EnterSide(h),
         enterSlot'[h] <=> (enterSlot[h] \/ InEnter(Top(t), h)) /\ ~ InEnter(g, h),
         InEnter(g, h) => enterSlot[h] \/ InEnter(Top(t), h)
  PROVE  EnterSide(h)'
<1>1. PICK n \in Nat : n = Len(stack[t])
  BY TopFrame
<1>2. /\ HoldsEnter(t, n, h) <=> InEnter(Top(t), h)
      /\ HoldsEnter(t, n, h)' <=> InEnter(g, h)
      /\ \A u \in Threads, i \in Nat : ~ (u = t /\ i = n) =>
           (HoldsEnter(u, i, h)' <=> HoldsEnter(u, i, h))
  BY <1>1, SetTopHolds
<1> QED
  BY <1>2 DEF EnterSide, EnterHeld

LEMMA LeaveSideStep ==
  ASSUME TypeOK, NEW t \in Threads, Active(t), NEW g \in Frame, SetTop(t, g),
         NEW h, LeaveSide(h), kind'[h] = kind[h],
         leaveSlot'[h] <=> (leaveSlot[h] \/ InLeave(Top(t), h)) /\ ~ InLeave(g, h),
         InLeave(g, h) => leaveSlot[h] \/ InLeave(Top(t), h)
  PROVE  LeaveSide(h)'
<1>1. PICK n \in Nat : n = Len(stack[t])
  BY TopFrame
<1>2. /\ HoldsLeave(t, n, h) <=> InLeave(Top(t), h)
      /\ HoldsLeave(t, n, h)' <=> InLeave(g, h)
      /\ \A u \in Threads, i \in Nat : ~ (u = t /\ i = n) =>
           (HoldsLeave(u, i, h)' <=> HoldsLeave(u, i, h))
  BY <1>1, SetTopHolds
<1> QED
  BY <1>2 DEF LeaveSide, LeaveHeld

\* The dispatchers only ever take callbacks of registered hooks.
LEMMA SetTopCallback ==
  ASSUME CallbackInv, TypeOK', NEW t \in Threads, Active(t), NEW g \in Frame, SetTop(t, g),
         UNCHANGED <<hooks, kind, nextId, installer>>,
         \A h \in hooks :
           /\ enterSlot'[h] <=> (enterSlot[h] \/ InEnter(Top(t), h)) /\ ~ InEnter(g, h)
           /\ leaveSlot'[h] <=> (leaveSlot[h] \/ InLeave(Top(t), h)) /\ ~ InLeave(g, h),
         \A h \in HookIds :
           /\ InEnter(g, h) => h \in hooks /\ enterSlot[h]
           /\ InLeave(g, h) => h \in hooks /\ leaveSlot[h]
  PROVE  CallbackInv'
<1>1. TypeOK /\ hooks \subseteq HookIds
  BY DEF CallbackInv, TypeOK
<1>2. ASSUME NEW h \in hooks PROVE Conserved(h)'
  <2>1. EnterSide(h)'
    BY <1>1, EnterSideStep DEF CallbackInv, Conserved
  <2>2. LeaveSide(h)'
    BY <1>1, LeaveSideStep DEF CallbackInv, Conserved
  <2> QED
    BY <2>1, <2>2 DEF Conserved
<1>3. ASSUME NEW h \in HookIds, Fresh(h), h \notin hooks,
             ~ EnterHeld(h), ~ LeaveHeld(h)
      PROVE  ~ EnterHeld(h)' /\ ~ LeaveHeld(h)'
  BY <1>1, <1>3, SetTopHolds DEF EnterHeld, LeaveHeld
<1> QED
  BY <1>2, <1>3 DEF CallbackInv, Fresh

LEMMA CallCallback ==
  ASSUME CallbackInv, TypeOK', NEW t \in Threads, NEW h \in HookIds, NEW r \in Sites,
         Call(t, h, r)
  PROVE  CallbackInv'
<1> DEFINE g == [hook |-> h, ret |-> r, x30 |-> r, phase |-> "enter",
                 held |-> FALSE, slot |-> 0]
<1>1. g \in Frame
  BY DEF Frame, Addr, Phases
<1>2. /\ Len(stack[t]) \in Nat /\ Len(stack'[t]) = Len(stack[t]) + 1
      /\ stack'[t][Len(stack[t]) + 1] = g
      /\ \A i \in 1 .. Len(stack[t]) : stack'[t][i] = stack[t][i]
      /\ \A u \in Threads : u # t => stack'[u] = stack[u]
  BY <1>1, PushFacts DEF CallbackInv, TypeOK, Call
<1>3. \A k : \A u \in Threads, i \in Nat :
        /\ HoldsEnter(u, i, k)' <=> HoldsEnter(u, i, k)
        /\ HoldsLeave(u, i, k)' <=> HoldsLeave(u, i, k)
  BY <1>2 DEF HoldsEnter, HoldsLeave, FramesOf
<1>4. UNCHANGED <<hooks, kind, enterSlot, leaveSlot, nextId, installer>>
  BY DEF Call, registryVars, installVars
<1>5. \A k : (EnterHeld(k)' <=> EnterHeld(k)) /\ (LeaveHeld(k)' <=> LeaveHeld(k))
  BY <1>3 DEF EnterHeld, LeaveHeld
<1>6. \A k \in hooks : Conserved(k)'
  BY <1>3, <1>4, <1>5 DEF CallbackInv, Conserved, EnterSide, LeaveSide
<1> QED
  BY <1>4, <1>5, <1>6 DEF CallbackInv, Fresh

LEMMA ReturnCallback ==
  ASSUME CallbackInv, TypeOK', NEW t \in Threads, Return(t)
  PROVE  CallbackInv'
<1> DEFINE f == Top(t)
<1>1. /\ Active(t) /\ f.phase \in {"body", "ret"} /\ f \in Frame
      /\ UNCHANGED <<hooks, kind, enterSlot, leaveSlot, nextId, installer>>
  BY TopFrame DEF CallbackInv, Return, registryVars, installVars
<1>2. CASE stack' = [stack EXCEPT ![t] = SubSeq(@, 1, Len(@) - 1)]
  <2>1. /\ Len(stack[t]) \in Nat \ {0} /\ Len(stack'[t]) = Len(stack[t]) - 1
        /\ \A i \in 1 .. Len(stack[t]) - 1 : stack'[t][i] = stack[t][i]
        /\ \A u \in Threads : u # t => stack'[u] = stack[u]
    BY <1>1, <1>2, PopFacts DEF CallbackInv, TypeOK
  <2>2. stack[t][Len(stack[t])].phase \notin {"onEnter", "onLeave"}
    BY <1>1 DEF Top
  <2>3. \A k : \A u \in Threads, i \in Nat :
          /\ HoldsEnter(u, i, k)' <=> HoldsEnter(u, i, k)
          /\ HoldsLeave(u, i, k)' <=> HoldsLeave(u, i, k)
    <3> SUFFICES ASSUME NEW u \in Threads, NEW i \in Nat
                 PROVE  \A k : /\ HoldsEnter(u, i, k)' <=> HoldsEnter(u, i, k)
                               /\ HoldsLeave(u, i, k)' <=> HoldsLeave(u, i, k)
      OBVIOUS
    <3>1. CASE u = t /\ i = Len(stack[t])
      <4>1. i \notin 1 .. Len(stack'[t])
        BY <2>1, <3>1
      <4> QED
        BY <2>2, <3>1, <4>1 DEF HoldsEnter, HoldsLeave, FramesOf
    <3>2. CASE ~ (u = t /\ i = Len(stack[t]))
      <4>1. /\ i \in 1 .. Len(stack'[u]) <=> i \in 1 .. Len(stack[u])
            /\ i \in 1 .. Len(stack[u]) => stack'[u][i] = stack[u][i]
        BY <2>1, <3>2
      <4> QED
        BY <4>1 DEF HoldsEnter, HoldsLeave, FramesOf
    <3> QED
      BY <3>1, <3>2
  <2>4. \A k : (EnterHeld(k)' <=> EnterHeld(k)) /\ (LeaveHeld(k)' <=> LeaveHeld(k))
    BY <2>3 DEF EnterHeld, LeaveHeld
  <2>5. \A k \in hooks : Conserved(k)'
    BY <1>1, <2>3, <2>4 DEF CallbackInv, Conserved, EnterSide, LeaveSide
  <2> QED
    BY <1>1, <2>4, <2>5 DEF CallbackInv, Fresh
<1>3. CASE SetTop(t, [f EXCEPT !.phase = "leave"])
  <2> DEFINE g == [f EXCEPT !.phase = "leave"]
  <2>1. g \in Frame /\ g.phase = "leave"
    BY <1>1 DEF Frame, Phases
  <2>2. \A h : /\ ~ InEnter(g, h) /\ ~ InLeave(g, h)
               /\ ~ InEnter(f, h) /\ ~ InLeave(f, h)
    BY <1>1, <2>1 DEF InEnter, InLeave
  <2>3. \A h \in hooks :
          /\ enterSlot'[h] <=> (enterSlot[h] \/ InEnter(f, h)) /\ ~ InEnter(g, h)
          /\ leaveSlot'[h] <=> (leaveSlot[h] \/ InLeave(f, h)) /\ ~ InLeave(g, h)
    BY <1>1, <2>2
  <2> HIDE DEF g
  <2> QED
    BY <1>1, <1>3, <2>1, <2>2, <2>3, SetTopCallback DEF g
<1> QED
  BY <1>2, <1>3 DEF Return

LEMMA EnterTakeCallback ==
  ASSUME CallbackInv, TypeOK', NEW t \in Threads, EnterTake(t)
  PROVE  CallbackInv'
<1> DEFINE f == Top(t)
<1>1. PICK k : k = Key(f.hook)
  OBVIOUS
<1>2. /\ Active(t) /\ f.phase = "enter" /\ f \in Frame
      /\ UNCHANGED <<hooks, kind, leaveSlot, nextId, installer>>
  BY TopFrame DEF CallbackInv, EnterTake, installVars
<1>3. \A h : ~ InEnter(f, h) /\ ~ InLeave(f, h)
  BY <1>2 DEF InEnter, InLeave
<1>4. CASE k \notin hooks
  <2> DEFINE g == [f EXCEPT !.phase = AfterEnter(f.hook)]
  <2>1. g \in Frame /\ g.phase \in {"body", "ret"}
    BY <1>2 DEF Frame, Phases, AfterEnter
  <2>2. SetTop(t, g) /\ enterSlot' = enterSlot
    BY <1>1, <1>4 DEF EnterTake
  <2>3. \A h : ~ InEnter(g, h) /\ ~ InLeave(g, h)
    BY <2>1 DEF InEnter, InLeave
  <2>4. \A h \in hooks :
          /\ enterSlot'[h] <=> (enterSlot[h] \/ InEnter(f, h)) /\ ~ InEnter(g, h)
          /\ leaveSlot'[h] <=> (leaveSlot[h] \/ InLeave(f, h)) /\ ~ InLeave(g, h)
    BY <1>2, <1>3, <2>2, <2>3
  <2> HIDE DEF g
  <2> QED
    BY <1>2, <2>1, <2>2, <2>3, <2>4, SetTopCallback
<1>5. CASE k \in hooks
  <2>1. k \in HookIds /\ enterSlot[k] \in BOOLEAN
    BY <1>5 DEF CallbackInv, TypeOK
  <2>2. PICK g \in Frame : /\ SetTop(t, g) /\ g.phase = "onEnter"
                           /\ g.held = enterSlot[k] /\ g.hook = f.hook
    <3>1. CASE WantLeave(k)
      <4> DEFINE n == Len(savedLr[k][t]) + 1
                 g == [f EXCEPT !.phase = "onEnter", !.held = enterSlot[k], !.x30 = k,
                                !.slot = n]
      <4>1. n \in Nat
        BY <2>1 DEF CallbackInv, TypeOK
      <4>2. SetTop(t, g)
        BY <1>1, <1>5, <3>1 DEF EnterTake
      <4> HIDE DEF n
      <4>3. g \in Frame /\ g.phase = "onEnter" /\ g.held = enterSlot[k] /\ g.hook = f.hook
        BY <1>2, <2>1, <4>1 DEF Frame, Phases, Addr
      <4> QED
        BY <4>2, <4>3
    <3>2. CASE ~ WantLeave(k)
      <4> DEFINE g == [f EXCEPT !.phase = "onEnter", !.held = enterSlot[k]]
      <4>1. g \in Frame /\ g.phase = "onEnter" /\ g.held = enterSlot[k] /\ g.hook = f.hook
        BY <1>2, <2>1 DEF Frame, Phases
      <4>2. SetTop(t, g)
        BY <1>1, <1>5, <3>2 DEF EnterTake
      <4> QED
        BY <4>1, <4>2
    <3> QED
      BY <3>1, <3>2
  <2>3. enterSlot' = [enterSlot EXCEPT ![k] = FALSE]
    BY <1>1, <1>5 DEF EnterTake
  <2>4. \A h : (InEnter(g, h) <=> h = k /\ enterSlot[k]) /\ ~ InLeave(g, h)
    BY <1>1, <2>2 DEF InEnter, InLeave
  <2>5. \A h \in hooks : enterSlot'[h] <=> enterSlot[h] /\ h # k
    BY <2>1, <2>3 DEF CallbackInv, TypeOK
  <2>6. \A h \in hooks : enterSlot'[h] <=> (enterSlot[h] \/ InEnter(f, h)) /\ ~ InEnter(g, h)
    BY <1>3, <2>4, <2>5
  <2>7. \A h \in hooks : leaveSlot'[h] <=> (leaveSlot[h] \/ InLeave(f, h)) /\ ~ InLeave(g, h)
    BY <1>2, <1>3, <2>4
  <2>8. \A h \in HookIds : /\ InEnter(g, h) => h \in hooks /\ enterSlot[h]
                           /\ InLeave(g, h) => h \in hooks /\ leaveSlot[h]
    BY <1>5, <2>4
  <2> QED
    BY <1>2, <2>2, <2>6, <2>7, <2>8, SetTopCallback
<1> QED
  BY <1>4, <1>5

LEMMA EnterPutCallback ==
  ASSUME CallbackInv, TypeOK', NEW t \in Threads, EnterPut(t)
  PROVE  CallbackInv'
<1> DEFINE f == Top(t)
           g == [f EXCEPT !.phase = AfterEnter(f.hook), !.held = FALSE]
<1>1. PICK k : k = Key(f.hook)
  OBVIOUS
<1>2. /\ Active(t) /\ f.phase = "onEnter" /\ f \in Frame /\ SetTop(t, g)
      /\ UNCHANGED <<hooks, kind, leaveSlot, nextId, installer>>
  BY TopFrame DEF CallbackInv, EnterPut, installVars
<1>3. g \in Frame /\ ~ g.held
  BY <1>2 DEF Frame, Phases, AfterEnter
<1>4. \A h : ~ InEnter(g, h) /\ ~ InLeave(g, h) /\ ~ InLeave(f, h)
  BY <1>2, <1>3 DEF InEnter, InLeave
<1>5. \A h : InEnter(f, h) <=> f.held /\ h = k
  BY <1>1, <1>2 DEF InEnter
<1>6. ASSUME NEW h \in hooks PROVE enterSlot'[h] <=> enterSlot[h] \/ InEnter(f, h)
  <2>1. enterSlot \in [HookIds -> BOOLEAN] /\ h \in HookIds /\ f.held \in BOOLEAN
    BY <1>2 DEF CallbackInv, TypeOK, Frame
  <2>2. CASE h = k
    <3>1. enterSlot'[h] = PutBack(enterSlot[h], f.held)
      BY <1>1, <2>1, <2>2 DEF EnterPut
    <3> QED
      BY <1>5, <2>2, <3>1 DEF PutBack
  <2>3. CASE h # k
    <3>1. enterSlot'[h] = enterSlot[h]
      BY <1>1, <2>1, <2>3 DEF EnterPut
    <3> QED
      BY <1>5, <2>3, <3>1
  <2> QED
    BY <2>2, <2>3
<1>7. \A h \in hooks :
        /\ enterSlot'[h] <=> (enterSlot[h] \/ InEnter(f, h)) /\ ~ InEnter(g, h)
        /\ leaveSlot'[h] <=> (leaveSlot[h] \/ InLeave(f, h)) /\ ~ InLeave(g, h)
  BY <1>2, <1>4, <1>6
<1> HIDE DEF g
<1> QED
  BY <1>2, <1>3, <1>4, <1>7, SetTopCallback

LEMMA LeaveTakeCallback ==
  ASSUME CallbackInv, TypeOK', NEW t \in Threads, LeaveTake(t)
  PROVE  CallbackInv'
<1> DEFINE f == Top(t)
<1>1. PICK k : k = Key(f.x30)
  OBVIOUS
<1>2. /\ Active(t) /\ f.phase = "leave" /\ f \in Frame
      /\ UNCHANGED <<hooks, kind, enterSlot, nextId, installer>>
  BY TopFrame DEF CallbackInv, LeaveTake, installVars
<1>3. \A h : ~ InEnter(f, h) /\ ~ InLeave(f, h)
  BY <1>2 DEF InEnter, InLeave
<1>4. CASE k \notin hooks
  <2> DEFINE g == [f EXCEPT !.phase = "ret"]
  <2>1. g \in Frame /\ g.phase = "ret"
    BY <1>2 DEF Frame, Phases
  <2>2. SetTop(t, g) /\ leaveSlot' = leaveSlot
    BY <1>1, <1>4 DEF LeaveTake
  <2>3. \A h : ~ InEnter(g, h) /\ ~ InLeave(g, h)
    BY <2>1 DEF InEnter, InLeave
  <2>4. \A h \in hooks :
          /\ enterSlot'[h] <=> (enterSlot[h] \/ InEnter(f, h)) /\ ~ InEnter(g, h)
          /\ leaveSlot'[h] <=> (leaveSlot[h] \/ InLeave(f, h)) /\ ~ InLeave(g, h)
    BY <1>2, <1>3, <2>2, <2>3
  <2> HIDE DEF g
  <2> QED
    BY <1>2, <2>1, <2>2, <2>3, <2>4, SetTopCallback
<1>5. CASE k \in hooks
  <2>1. k \in HookIds /\ leaveSlot[k] \in BOOLEAN
    BY <1>5 DEF CallbackInv, TypeOK
  <2>2. PICK g \in Frame : /\ SetTop(t, g) /\ g.phase = "onLeave"
                           /\ g.held = leaveSlot[k] /\ g.x30 = f.x30
    <3> DEFINE g == [f EXCEPT !.phase = "onLeave", !.held = leaveSlot[k]]
    <3>1. g \in Frame /\ g.phase = "onLeave" /\ g.held = leaveSlot[k] /\ g.x30 = f.x30
      BY <1>2, <2>1 DEF Frame, Phases
    <3>2. SetTop(t, g)
      BY <1>1, <1>5 DEF LeaveTake
    <3> QED
      BY <3>1, <3>2
  <2>3. leaveSlot' = [leaveSlot EXCEPT ![k] = FALSE]
    BY <1>1, <1>5 DEF LeaveTake
  <2>4. \A h : (InLeave(g, h) <=> h = k /\ leaveSlot[k]) /\ ~ InEnter(g, h)
    BY <1>1, <2>2 DEF InEnter, InLeave
  <2>5. \A h \in hooks : leaveSlot'[h] <=> leaveSlot[h] /\ h # k
    BY <2>1, <2>3 DEF CallbackInv, TypeOK
  <2>6. \A h \in hooks : leaveSlot'[h] <=> (leaveSlot[h] \/ InLeave(f, h)) /\ ~ InLeave(g, h)
    BY <1>3, <2>4, <2>5
  <2>7. \A h \in hooks : enterSlot'[h] <=> (enterSlot[h] \/ InEnter(f, h)) /\ ~ InEnter(g, h)
    BY <1>2, <1>3, <2>4
  <2>8. \A h \in HookIds : /\ InEnter(g, h) => h \in hooks /\ enterSlot[h]
                           /\ InLeave(g, h) => h \in hooks /\ leaveSlot[h]
    BY <1>5, <2>4
  <2> QED
    BY <1>2, <2>2, <2>6, <2>7, <2>8, SetTopCallback
<1> QED
  BY <1>4, <1>5

LEMMA LeavePutCallback ==
  ASSUME CallbackInv, TypeOK', NEW t \in Threads, LeavePut(t)
  PROVE  CallbackInv'
<1> DEFINE f == Top(t)
           lrs == savedLr[Key(f.x30)][t]
           done == [f EXCEPT !.phase = "ret", !.held = FALSE]
<1>1. PICK k : k = Key(f.x30)
  OBVIOUS
<1>2. /\ Active(t) /\ f.phase = "onLeave" /\ f \in Frame
      /\ UNCHANGED <<hooks, kind, enterSlot, nextId, installer>>
  BY TopFrame DEF CallbackInv, LeavePut, installVars
<1>3. PICK g \in Frame : SetTop(t, g) /\ g.phase = "ret"
  <2>1. done \in Frame /\ done.phase = "ret"
    BY <1>2 DEF Frame, Phases
  <2>2. CASE k \notin hooks
    <3>1. SetTop(t, done)
      BY <1>1, <2>2 DEF LeavePut
    <3> QED
      BY <2>1, <3>1
  <2>3. CASE k \in hooks
    <3> DEFINE a == PopLr(lrs, f.x30)
               g == [done EXCEPT !.x30 = a, !.slot = 0]
    <3>1. SetTop(t, g)
      BY <1>1, <2>3 DEF LeavePut
    <3>2. a \in Addr
      <4>1. lrs \in Seq(Addr)
        BY <1>1, <2>3 DEF CallbackInv, TypeOK
      <4>2. CASE lrs = <<>>
        BY <1>2, <4>2 DEF PopLr, Frame
      <4>3. CASE lrs # <<>>
        BY <4>1, <4>3, DropLast DEF PopLr
      <4> QED
        BY <4>2, <4>3
    <3> HIDE DEF a
    <3>3. g \in Frame /\ g.phase = "ret"
      BY <2>1, <3>2 DEF Frame
    <3> QED
      BY <3>1, <3>3
  <2> QED
    BY <2>2, <2>3
<1>4. \A h : ~ InEnter(g, h) /\ ~ InLeave(g, h) /\ ~ InEnter(f, h)
  BY <1>2, <1>3 DEF InEnter, InLeave
<1>5. \A h : InLeave(f, h) <=> f.held /\ h = k
  BY <1>1, <1>2 DEF InLeave
<1>6. ASSUME NEW h \in hooks PROVE leaveSlot'[h] <=> leaveSlot[h] \/ InLeave(f, h)
  <2>1. leaveSlot \in [HookIds -> BOOLEAN] /\ h \in HookIds /\ f.held \in BOOLEAN
    BY <1>2 DEF CallbackInv, TypeOK, Frame
  <2>2. CASE h = k
    <3>1. leaveSlot'[h] = PutBack(leaveSlot[h], f.held)
      BY <1>1, <2>1, <2>2 DEF LeavePut
    <3> QED
      BY <1>5, <2>2, <3>1 DEF PutBack
  <2>3. CASE h # k
    <3>1. leaveSlot'[h] = leaveSlot[h]
      BY <1>1, <2>1, <2>3 DEF LeavePut
    <3> QED
      BY <1>5, <2>3, <3>1
  <2> QED
    BY <2>2, <2>3
<1>7. \A h \in hooks :
        /\ enterSlot'[h] <=> (enterSlot[h] \/ InEnter(f, h)) /\ ~ InEnter(g, h)
        /\ leaveSlot'[h] <=> (leaveSlot[h] \/ InLeave(f, h)) /\ ~ InLeave(g, h)
  BY <1>2, <1>4, <1>6
<1> QED
  BY <1>2, <1>3, <1>4, <1>7, SetTopCallback

LEMMA NextCallbackInv == CallbackInv /\ [Next]_vars => CallbackInv'
<1> SUFFICES ASSUME CallbackInv, [Next]_vars PROVE CallbackInv'
  OBVIOUS
<1>1. CASE UNCHANGED vars
  BY <1>1 DEF vars, CallbackInv, TypeOK, Fresh, Conserved, EnterSide, LeaveSide, EnterHeld,
              LeaveHeld, HoldsEnter, HoldsLeave, FramesOf
<1>2. CASE Install
  BY <1>2, InstallCallback
<1>3. ASSUME NEW t \in Threads, ThreadStep(t) PROVE CallbackInv'
  <2>1. TypeOK'
    BY <1>3, ThreadTyping DEF CallbackInv
  <2> QED
    BY <1>3, <2>1, CallCallback, EnterTakeCallback, EnterPutCallback, ReturnCallback,
       LeaveTakeCallback, LeavePutCallback DEF ThreadStep
<1> QED
  BY <1>1, <1>2, <1>3 DEF Next

\* For any number of threads, hooks and nested calls, and whatever the ids wrap to: as
\* long as a hook is registered, each of its callbacks is in its slot or in the hands of
\* exactly one dispatch, so that no callback is lost and none runs twice at once.
THEOREM CallbackOnce == Spec => []CallbackConserved
<1>1. Init => CallbackInv
  <2> SUFFICES ASSUME Init PROVE CallbackInv
    OBVIOUS
  <2>1. hooks = {} /\ installer.step = "idle" /\ \A t \in Threads : FramesOf(t) = {}
    BY DEF Init, FramesOf, Idle
  <2> QED
    BY <2>1, InitTyping DEF CallbackInv, EnterHeld, LeaveHeld, HoldsEnter, HoldsLeave
<1>2. CallbackInv /\ [Next]_vars => CallbackInv'
  BY NextCallbackInv
<1>3. CallbackInv => CallbackConserved
  BY CallbackEnough
<1> QED
  BY <1>1, <1>2, <1>3, PTL DEF Spec

-----------------------------------------------------------------------------
(***************************************************************************)
(* The dispatch implements CallStack.                                      *)
(***************************************************************************)

\* The abstract stack of calls: what PlainCalls maps the frames to.
Calls == [t \in Threads |-> [i \in FramesOf(t) |-> stack[t][i].ret]]

\* The return sites of a stack of frames, one by one.
LEMMA RetsOf ==
  ASSUME NEW s \in Seq(Frame)
  PROVE  /\ [i \in 1 .. Len(s) |-> s[i].ret] \in Seq(Sites)
         /\ Len(s) \in Nat
         /\ Len([i \in 1 .. Len(s) |-> s[i].ret]) = Len(s)
<1>1. PICK n \in Nat : n = Len(s) /\ \A i \in 1 .. n : s[i] \in Frame
  OBVIOUS
<1>2. \A i \in 1 .. n : s[i].ret \in Sites
  BY <1>1 DEF Frame
<1> QED
  BY <1>1, <1>2

LEMMA CallsOf ==
  ASSUME stack \in [Threads -> Seq(Frame)], NEW t \in Threads
  PROVE  /\ Calls[t] \in Seq(Sites)
         /\ Len(stack[t]) \in Nat
         /\ Len(Calls[t]) = Len(stack[t])
         /\ \A i \in 1 .. Len(stack[t]) : Calls[t][i] = stack[t][i].ret
BY RetsOf DEF Calls, FramesOf

LEMMA NextCallsOf ==
  ASSUME stack' \in [Threads -> Seq(Frame)], NEW t \in Threads
  PROVE  /\ Calls'[t] \in Seq(Sites)
         /\ Len(stack'[t]) \in Nat
         /\ Len(Calls'[t]) = Len(stack'[t])
         /\ \A i \in 1 .. Len(stack'[t]) : Calls'[t][i] = stack'[t][i].ret
BY RetsOf DEF Calls, FramesOf

\* The frames of a thread that a step leaves alone.
LEMMA CallsFrame ==
  ASSUME NEW t \in Threads, stack'[t] = stack[t]
  PROVE  Calls'[t] = Calls[t]
BY DEF Calls, FramesOf

\* What the dispatchers do to a frame is no step of the plain call stack.
LEMMA SetTopCalls ==
  ASSUME TypeOK, NEW t \in Threads, Active(t), NEW g \in Frame, SetTop(t, g),
         g.ret = Top(t).ret
  PROVE  Calls' = Calls
<1>1. /\ Len(stack[t]) \in Nat /\ Len(stack'[t]) = Len(stack[t])
      /\ \A i \in 1 .. Len(stack[t]) : stack'[t][i].ret = stack[t][i].ret
      /\ \A u \in Threads : u # t => stack'[u] = stack[u]
  <2>1. /\ Len(stack'[t]) = Len(stack[t]) /\ Len(stack[t]) \in Nat \ {0}
        /\ stack'[t][Len(stack[t])] = g
        /\ \A i \in 1 .. Len(stack[t]) : i # Len(stack[t]) => stack'[t][i] = stack[t][i]
        /\ \A u \in Threads : u # t => stack'[u] = stack[u]
    BY SetTopFacts DEF TypeOK
  <2> QED
    BY <2>1 DEF Top
<1>2. Calls'[t] = Calls[t]
  BY <1>1 DEF Calls, FramesOf
<1>3. \A u \in Threads : Calls'[u] = Calls[u]
  BY <1>1, <1>2, CallsFrame
<1> QED
  BY <1>3 DEF Calls

LEMMA CallCalls ==
  ASSUME TypeOK, TypeOK', NEW t \in Threads, NEW h \in HookIds, NEW r \in Sites, Call(t, h, r)
  PROVE  /\ Len(Calls[t]) < MaxDepth
         /\ Calls' = [Calls EXCEPT ![t] = Append(@, r)]
<1> DEFINE g == [hook |-> h, ret |-> r, x30 |-> r, phase |-> "enter",
                 held |-> FALSE, slot |-> 0]
<1>1. g \in Frame /\ g.ret = r
  BY DEF Frame, Addr, Phases
<1>2. PICK n \in Nat : /\ n = Len(stack[t]) /\ Len(stack'[t]) = n + 1
                       /\ stack'[t][n + 1].ret = r
                       /\ \A i \in 1 .. n : stack'[t][i] = stack[t][i]
                       /\ \A u \in Threads : u # t => stack'[u] = stack[u]
  <2>1. stack' = [stack EXCEPT ![t] = Append(@, g)]
    BY DEF Call
  <2> HIDE DEF g
  <2>2. /\ Len(stack[t]) \in Nat /\ Len(stack'[t]) = Len(stack[t]) + 1
        /\ stack'[t][Len(stack[t]) + 1] = g
        /\ \A i \in 1 .. Len(stack[t]) : stack'[t][i] = stack[t][i]
        /\ \A u \in Threads : u # t => stack'[u] = stack[u]
    BY <1>1, <2>1, PushFacts DEF TypeOK
  <2> QED
    BY <1>1, <2>2
<1>3. PICK s \in Seq(Sites) : s = Calls[t] /\ Len(s) = n
                              /\ \A i \in 1 .. n : s[i] = stack[t][i].ret
  BY <1>2, CallsOf DEF TypeOK
<1>4. /\ Calls'[t] \in Seq(Sites) /\ Len(Calls'[t]) = n + 1
      /\ \A i \in 1 .. n + 1 : Calls'[t][i] = stack'[t][i].ret
  <2>1. /\ Calls'[t] \in Seq(Sites)
        /\ Len(Calls'[t]) = Len(stack'[t])
        /\ \A i \in 1 .. Len(stack'[t]) : Calls'[t][i] = stack'[t][i].ret
    BY NextCallsOf DEF TypeOK
  <2> QED
    BY <1>2, <2>1
<1>5. Calls'[t] = Append(s, r)
  <2>1. /\ Append(s, r) \in Seq(Sites) /\ Len(Append(s, r)) = n + 1
        /\ \A i \in 1 .. n : Append(s, r)[i] = s[i]
        /\ Append(s, r)[n + 1] = r
    BY <1>3, AppendProperties
  <2>2. ASSUME NEW i \in 1 .. n + 1 PROVE Calls'[t][i] = Append(s, r)[i]
    <3>1. CASE i \in 1 .. n
      BY <1>2, <1>3, <1>4, <2>1, <3>1
    <3>2. CASE i = n + 1
      BY <1>2, <1>4, <2>1, <3>2
    <3>3. i \in 1 .. n \/ i = n + 1
      OBVIOUS
    <3> QED
      BY <3>1, <3>2, <3>3
  <2> QED
    BY <1>4, <2>1, <2>2, SeqEqual
<1>6. Calls' = [Calls EXCEPT ![t] = Append(s, r)]
  <2>1. \A u \in Threads : u # t => Calls'[u] = Calls[u]
    BY <1>2, CallsFrame
  <2> QED
    BY <1>5, <2>1 DEF Calls
<1> QED
  BY <1>2, <1>3, <1>6 DEF Call

LEMMA ReturnCalls ==
  ASSUME TypeOK, TypeOK', NEW t \in Threads, Active(t),
         stack' = [stack EXCEPT ![t] = SubSeq(@, 1, Len(@) - 1)]
  PROVE  /\ Calls[t] # <<>>
         /\ Calls[t][Len(Calls[t])] = Top(t).ret
         /\ Calls' = [Calls EXCEPT ![t] = SubSeq(@, 1, Len(@) - 1)]
<1>1. PICK n \in Nat : /\ n + 1 = Len(stack[t]) /\ Len(stack'[t]) = n
                       /\ \A i \in 1 .. n : stack'[t][i] = stack[t][i]
                       /\ \A u \in Threads : u # t => stack'[u] = stack[u]
  <2>1. /\ Len(stack[t]) \in Nat \ {0} /\ Len(stack'[t]) = Len(stack[t]) - 1
        /\ \A i \in 1 .. Len(stack[t]) - 1 : stack'[t][i] = stack[t][i]
        /\ \A u \in Threads : u # t => stack'[u] = stack[u]
    BY PopFacts DEF TypeOK
  <2>2. PICK n \in Nat : n = Len(stack[t]) - 1
    BY <2>1
  <2> QED
    BY <2>1, <2>2
<1>2. PICK s \in Seq(Sites) : s = Calls[t] /\ Len(s) = n + 1
                              /\ \A i \in 1 .. n + 1 : s[i] = stack[t][i].ret
  <2>1. /\ Calls[t] \in Seq(Sites) /\ Len(Calls[t]) = Len(stack[t])
        /\ \A i \in 1 .. Len(stack[t]) : Calls[t][i] = stack[t][i].ret
    BY CallsOf DEF TypeOK
  <2> QED
    BY <1>1, <2>1
<1>3. s # <<>>
  BY <1>2
<1>4. /\ Calls'[t] \in Seq(Sites) /\ Len(Calls'[t]) = n
      /\ \A i \in 1 .. n : Calls'[t][i] = stack'[t][i].ret
  <2>1. /\ Calls'[t] \in Seq(Sites)
        /\ Len(Calls'[t]) = Len(stack'[t])
        /\ \A i \in 1 .. Len(stack'[t]) : Calls'[t][i] = stack'[t][i].ret
    BY NextCallsOf DEF TypeOK
  <2> QED
    BY <1>1, <2>1
<1>5. Calls'[t] = SubSeq(s, 1, Len(s) - 1)
  <2>1. /\ SubSeq(s, 1, Len(s) - 1) \in Seq(Sites)
        /\ Len(SubSeq(s, 1, Len(s) - 1)) = n
        /\ \A i \in 1 .. n : SubSeq(s, 1, Len(s) - 1)[i] = s[i]
    BY <1>2, <1>3, DropLast
  <2>2. ASSUME NEW i \in 1 .. n PROVE Calls'[t][i] = SubSeq(s, 1, Len(s) - 1)[i]
    <3>1. i \in 1 .. n + 1
      OBVIOUS
    <3> QED
      BY <1>1, <1>2, <1>4, <2>1, <3>1
  <2> QED
    BY <1>4, <2>1, <2>2, SeqEqual
<1>6. Calls' = [Calls EXCEPT ![t] = SubSeq(s, 1, Len(s) - 1)]
  <2>1. \A u \in Threads : u # t => Calls'[u] = Calls[u]
    BY <1>1, CallsFrame
  <2> QED
    BY <1>5, <2>1 DEF Calls
<1> QED
  BY <1>1, <1>2, <1>3, <1>6 DEF Top

\* The dispatchers rewrite the innermost frame, and not where its call returns.
LEMMA DispatchSetsTop ==
  ASSUME TypeOK, NEW t \in Threads,
         EnterTake(t) \/ EnterPut(t) \/ LeaveTake(t) \/ LeavePut(t)
  PROVE  Active(t) /\ \E g \in Frame : SetTop(t, g) /\ g.ret = Top(t).ret
<1> DEFINE f == Top(t)
<1>1. Active(t) /\ f \in Frame
  BY TopFrame DEF EnterTake, EnterPut, LeaveTake, LeavePut
<1>3. f.x30 \in Addr
  BY <1>1 DEF Frame
<1>4. \A k \in hooks : k \in Addr /\ savedLr[k][t] \in Seq(Addr)
  BY DEF TypeOK, Addr
<1>5. CASE EnterTake(t)
  <2> DEFINE k == Key(f.hook)
             n == Len(savedLr[k][t]) + 1
  <2>1. CASE SetTop(t, [f EXCEPT !.phase = AfterEnter(f.hook)])
    <3> DEFINE g == [f EXCEPT !.phase = AfterEnter(f.hook)]
    <3>1. g \in Frame /\ g.ret = f.ret
      BY <1>1 DEF Frame, Phases, AfterEnter
    <3> QED
      BY <1>1, <2>1, <3>1
  <2>2. CASE k \in hooks /\ SetTop(t, [f EXCEPT !.phase = "onEnter", !.held = enterSlot[k],
                                                !.x30 = k, !.slot = n])
    <3> DEFINE g == [f EXCEPT !.phase = "onEnter", !.held = enterSlot[k],
                              !.x30 = k, !.slot = n]
    <3>1. n \in Nat /\ enterSlot[k] \in BOOLEAN /\ k \in Addr
      BY <1>4, <2>2 DEF TypeOK
    <3> HIDE DEF n, k
    <3>2. g \in Frame /\ g.ret = f.ret
      BY <1>1, <3>1 DEF Frame, Phases
    <3> QED
      BY <1>1, <2>2, <3>2
  <2>3. CASE k \in hooks /\ SetTop(t, [f EXCEPT !.phase = "onEnter", !.held = enterSlot[k]])
    <3> DEFINE g == [f EXCEPT !.phase = "onEnter", !.held = enterSlot[k]]
    <3>1. enterSlot[k] \in BOOLEAN
      BY <2>3 DEF TypeOK
    <3> HIDE DEF k
    <3>2. g \in Frame /\ g.ret = f.ret
      BY <1>1, <3>1 DEF Frame, Phases
    <3> QED
      BY <1>1, <2>3, <3>2
  <2> QED
    BY <1>5, <2>1, <2>2, <2>3 DEF EnterTake
<1>6. CASE EnterPut(t)
  <2> DEFINE g == [f EXCEPT !.phase = AfterEnter(f.hook), !.held = FALSE]
  <2>1. g \in Frame /\ g.ret = f.ret
    BY <1>1 DEF Frame, Phases, AfterEnter
  <2> QED
    BY <1>1, <1>6, <2>1 DEF EnterPut
<1>7. CASE LeaveTake(t)
  <2> DEFINE k == Key(f.x30)
  <2>1. CASE SetTop(t, [f EXCEPT !.phase = "ret"])
    <3> DEFINE g == [f EXCEPT !.phase = "ret"]
    <3>1. g \in Frame /\ g.ret = f.ret
      BY <1>1 DEF Frame, Phases
    <3> QED
      BY <1>1, <2>1, <3>1
  <2>2. CASE k \in hooks /\ SetTop(t, [f EXCEPT !.phase = "onLeave", !.held = leaveSlot[k]])
    <3> DEFINE g == [f EXCEPT !.phase = "onLeave", !.held = leaveSlot[k]]
    <3>1. leaveSlot[k] \in BOOLEAN
      BY <2>2 DEF TypeOK
    <3> HIDE DEF k
    <3>2. g \in Frame /\ g.ret = f.ret
      BY <1>1, <3>1 DEF Frame, Phases
    <3> QED
      BY <1>1, <2>2, <3>2
  <2> QED
    BY <1>7, <2>1, <2>2 DEF LeaveTake
<1>8. CASE LeavePut(t)
  <2> DEFINE k == Key(f.x30)
             lrs == savedLr[k][t]
             done == [f EXCEPT !.phase = "ret", !.held = FALSE]
             a == PopLr(lrs, f.x30)
  <2>1. done \in Frame /\ done.ret = f.ret
    BY <1>1 DEF Frame, Phases
  <2>2. CASE k \in hooks /\ SetTop(t, [done EXCEPT !.x30 = a, !.slot = 0])
    <3>1. a \in Addr
      <4>1. CASE lrs = <<>>
        BY <1>3, <4>1 DEF PopLr
      <4>2. CASE lrs # <<>>
        BY <1>4, <2>2, <4>2, DropLast DEF PopLr
      <4> QED
        BY <4>1, <4>2
    <3> DEFINE g == [done EXCEPT !.x30 = a, !.slot = 0]
    <3> HIDE DEF a, done
    <3>2. g \in Frame /\ g.ret = f.ret
      BY <2>1, <3>1 DEF Frame
    <3> QED
      BY <1>1, <2>2, <3>2
  <2> QED
    BY <1>1, <1>8, <2>1, <2>2 DEF LeavePut
<1> QED
  BY <1>5, <1>6, <1>7, <1>8

\* A step of the plain call stack, or none.
LEMMA StepIsPlain ==
  ASSUME UnwindInv, TypeOK', [Next]_vars
  PROVE  [Plain!Next]_<<Calls, resumed>>
<1>1. CASE UNCHANGED vars
  BY <1>1 DEF vars, Calls, FramesOf
<1>2. CASE Install
  <2>1. stack' = stack /\ resumed' = resumed
    BY <1>2 DEF Install, AttachPatch, AttachFail, register_hook, detach_all,
                unregister_hook, restore_bytes
  <2> QED
    BY <2>1 DEF Calls, FramesOf
<1> USE DEF UnwindInv
<1>3. ASSUME NEW t \in Threads, NEW h \in HookIds, NEW r \in Sites, Call(t, h, r)
      PROVE  Plain!Next
  <2>1. /\ Len(Calls[t]) < MaxDepth /\ Calls' = [Calls EXCEPT ![t] = Append(@, r)]
        /\ resumed' = resumed
    BY <1>3, CallCalls DEF Call
  <2> QED
    BY <2>1 DEF Calls, Plain!Next, Plain!Call
<1>4. ASSUME NEW t \in Threads, EnterTake(t) \/ EnterPut(t) \/ LeaveTake(t) \/ LeavePut(t)
      PROVE  UNCHANGED <<Calls, resumed>>
  <2>1. UNCHANGED resumed
    BY <1>4 DEF EnterTake, EnterPut, LeaveTake, LeavePut
  <2>2. PICK g \in Frame : SetTop(t, g) /\ g.ret = Top(t).ret
    BY <1>4, DispatchSetsTop
  <2> QED
    BY <1>4, <2>1, <2>2, DispatchSetsTop, SetTopCalls
<1>5. ASSUME NEW t \in Threads, Return(t)
      PROVE  Plain!Next \/ UNCHANGED <<Calls, resumed>>
  <2>1. Active(t) /\ Top(t) \in Frame
    BY <1>5, TopFrame DEF Return
  <2>2. CASE /\ Top(t).x30 \in Sites /\ resumed' = [resumed EXCEPT ![t] = Top(t).x30]
             /\ stack' = [stack EXCEPT ![t] = SubSeq(@, 1, Len(@) - 1)]
    <3>1. Top(t).x30 = Top(t).ret
      BY <2>1, <2>2, TopFrame DEF UnwindsToCaller
    <3>2. /\ Calls[t] # <<>> /\ Calls[t][Len(Calls[t])] = Top(t).x30
          /\ Calls' = [Calls EXCEPT ![t] = SubSeq(@, 1, Len(@) - 1)]
      BY <2>1, <2>2, <3>1, ReturnCalls
    <3>3. resumed' = [resumed EXCEPT ![t] = Calls[t][Len(Calls[t])]]
      BY <2>2, <3>2
    <3> QED
      BY <3>2, <3>3 DEF Calls, Plain!Next, Plain!Return
  <2>3. CASE SetTop(t, [Top(t) EXCEPT !.phase = "leave"]) /\ resumed' = resumed
    <3> DEFINE g == [Top(t) EXCEPT !.phase = "leave"]
    <3>1. g \in Frame /\ g.ret = Top(t).ret
      BY <2>1 DEF Frame, Phases
    <3> HIDE DEF g
    <3>2. SetTop(t, g)
      BY <2>3 DEF g
    <3> QED
      BY <2>1, <2>3, <3>1, <3>2, SetTopCalls
  <2> QED
    BY <1>5, <2>2, <2>3 DEF Return
<1> QED
  BY <1>1, <1>2, <1>3, <1>4, <1>5 DEF Next, ThreadStep

\* The hooked program sees a plain call stack: every behaviour of the dispatch is one of
\* CallStack, whose calls are the return sites of the frames.
THEOREM RefinesCallStack ==
  ASSUME NoIdWrap
  PROVE  Spec => PlainCalls
<1>1. Init => Plain!Init
  <2> SUFFICES ASSUME Init PROVE Plain!Init
    OBVIOUS
  <2>1. \A t \in Threads : [i \in FramesOf(t) |-> stack[t][i].ret] = <<>>
    BY RetsOf, EmptySeq DEF Init, FramesOf
  <2> QED
    BY <2>1 DEF Init, Plain!Init
<1>2. Init => UnwindInv
  BY InitUnwindInv
<1>3. UnwindInv /\ [Next]_vars => UnwindInv'
  BY NextUnwindInv
<1>4. UnwindInv /\ UnwindInv' /\ [Next]_vars => [Plain!Next]_<<Calls, resumed>>
  BY StepIsPlain DEF UnwindInv
<1> QED
  BY <1>1, <1>2, <1>3, <1>4, PTL DEF Spec, PlainCalls, Plain!Spec, Calls
=============================================================================
