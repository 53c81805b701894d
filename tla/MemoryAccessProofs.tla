-------------------------- MODULE MemoryAccessProofs --------------------------
(***************************************************************************)
(* Proofs about the memory access monitor, for any sets of pages and       *)
(* threads, any number of enables and any size of the pipe: its safety     *)
(* properties, and that faults come to their end.                          *)
(***************************************************************************)
EXTENDS MemoryAccess, FiniteSetTheorems, TLAPS

USE BoundsAssumption

(* Types *)

\* While pages are being restored or protected nothing is watched: STATE is None,
\* and set only after the last mprotect.
Unset == step \in {"restore", "query", "protect"} => watched = {}

\* StartDisable counted the enable it belongs to.
Counted == step = "restore" /\ wanted # {} => epoch < MaxEnables

TypeInv == TypeOK /\ Unset /\ Counted

LEMMA FrameTypes ==
  /\ NoFrame \in [epoch : 0 .. MaxEnables, page : Pages, first : BOOLEAN, prev : Restorable]
  /\ \A p \in Pages :
       [NoFrame EXCEPT !.page = p]
         = [epoch |-> 0, page |-> p, first |-> FALSE, prev |-> "own"]
BY DEF NoFrame, Restorable

LEMMA TypeInit == Init => TypeInv
<1> SUFFICES ASSUME Init PROVE TypeInv
  OBVIOUS
<1>1. frame \in [Threads -> [epoch : 0 .. MaxEnables, page : Pages,
                            first : BOOLEAN, prev : Restorable]]
  BY FrameTypes DEF Init
<1>2. pipe \in Seq(Event) /\ Len(pipe) <= PipeSize
  BY DEF Init
<1>3. /\ prot \in [Pages -> Protections] /\ prev \in [Pages -> Restorable]
      /\ pc \in [Threads -> PCs] /\ disturbed \in [Threads -> BOOLEAN]
      /\ told \in [Pages -> Nat]
  BY DEF Init, Protections, Restorable, PCs, Own
<1>4. /\ watched = {} /\ completed = {} /\ todo = {} /\ wanted = {} /\ late = {}
      /\ spoilt = {} /\ refused = {}
      /\ epoch \in 0 .. MaxEnables /\ step = "idle"
  BY DEF Init
<1>5. enabled \in BOOLEAN
  BY Zenon DEF Init
<1>6. fails \in 0 .. MaxFails
  BY DEF Init
<1> QED
  BY <1>1, <1>2, <1>3, <1>4, <1>5, <1>6 DEF TypeInv, TypeOK, Unset, Counted, Steps

LEMMA DisturbType == TypeOK /\ Disturb => disturbed' \in [Threads -> BOOLEAN]
BY DEF TypeOK, Disturb

\* The steps of enable and disable.
LEMMA WorkerTypes == TypeInv /\ Worker => TypeInv'
<1> SUFFICES ASSUME TypeInv, Worker PROVE TypeInv'
  OBVIOUS
<1> USE DEF TypeInv, TypeOK, Unset, Counted, threadVars, monitorVars, losses, Protections,
            Restorable, Steps, Fails, Spoil
<1>0. disturbed' \in [Threads -> BOOLEAN]
  BY DisturbType DEF Worker, StartDisable, RestorePage, Restored, QueryPage, ProtectPage,
                     ProtectFails, Publish, SwitchOn
<1>1. ASSUME NEW P \in SUBSET Pages, StartDisable(P) PROVE TypeInv'
  BY <1>0, <1>1 DEF StartDisable
<1>2. ASSUME NEW p \in Pages, RestorePage(p) PROVE TypeInv'
  <2>1. prot' \in [Pages -> Protections] /\ fails' \in 0 .. MaxFails /\ spoilt' \subseteq Pages
    BY <1>2 DEF RestorePage, PutBack
  <2> QED
    BY <1>0, <1>2, <2>1 DEF RestorePage
<1>3. ASSUME NEW p \in Pages, QueryPage(p) PROVE TypeInv'
  BY <1>0, <1>3 DEF QueryPage, QueryProt
<1>4. ASSUME NEW p \in Pages, ProtectPage(p) PROVE TypeInv'
  BY <1>0, <1>4 DEF ProtectPage
<1>5. CASE Restored
  <2>1. prev' \in [Pages -> Restorable]
    BY <1>5 DEF Restored
  <2>2. CASE wanted = {}
    BY <1>0, <1>5, <2>1, <2>2 DEF Restored
  <2>3. CASE wanted # {}
    <3>1. epoch' \in 0 .. MaxEnables /\ told' \in [Pages -> Nat]
      BY <1>5, <2>3 DEF Restored
    <3> QED
      BY <1>0, <1>5, <2>1, <2>3, <3>1 DEF Restored
  <2> QED
    BY <2>2, <2>3
<1>6. CASE ProtectFails
  BY <1>0, <1>6 DEF ProtectFails
<1>7. CASE Publish \/ SwitchOn
  BY <1>0, <1>7 DEF Publish, SwitchOn
<1> QED
  BY <1>1, <1>2, <1>3, <1>4, <1>5, <1>6, <1>7 DEF Worker

\* Leaving the handler keeps the types of pc and frame.
LEMMA LeaveTypes ==
  ASSUME TypeOK, NEW t \in Threads, NEW where \in PCs, NEW p \in Pages, Leave(t, where, p)
  PROVE  /\ pc' = [pc EXCEPT ![t] = where] /\ pc' \in [Threads -> PCs]
         /\ frame' = [frame EXCEPT ![t] = [epoch |-> 0, page |-> p, first |-> FALSE, prev |-> "own"]]
         /\ frame' \in [Threads -> [epoch : 0 .. MaxEnables, page : Pages,
                                    first : BOOLEAN, prev : Restorable]]
BY FrameTypes DEF Leave, Goto, TypeOK, Restorable

LEMMA ThreadTypes ==
  ASSUME TypeInv, NEW t \in Threads, (\E p \in Pages : Fault(t, p)) \/ HandlerStep(t)
  PROVE  TypeInv'
<1> USE DEF TypeInv, TypeOK, Unset, Counted, monitorVars, workerVars, losses, PCs, Goto
<1>1. ASSUME NEW p \in Pages, Fault(t, p) PROVE TypeInv'
  BY <1>1 DEF Fault
<1>2. CASE Retry(t)
  <2>1. CASE Leave(t, "run", NoFrame.page)
    BY <1>2, <2>1, LeaveTypes, FrameTypes DEF Retry
  <2> QED
    BY <1>2, <2>1 DEF Retry
<1>3. CASE CheckEnabled(t)
  <2>1. CASE Chained(t)
    BY <1>3, <2>1, LeaveTypes, FrameTypes DEF CheckEnabled, Chained
  <2> QED
    BY <1>3, <2>1 DEF CheckEnabled
<1>4. CASE Lookup(t)
  <2>1. CASE Chained(t) /\ UNCHANGED completed
    BY <1>4, <2>1, LeaveTypes, FrameTypes DEF Lookup, Chained
  <2>2. CASE /\ frame[t].page \in watched /\ pc' = [pc EXCEPT ![t] = "unprotect"]
             /\ frame' = [frame EXCEPT ![t] =
                  [epoch |-> epoch, page |-> frame[t].page,
                   first |-> frame[t].page \notin completed, prev |-> prev[frame[t].page]]]
             /\ completed' = completed \cup {frame[t].page}
    <3>1. frame' \in [Threads -> [epoch : 0 .. MaxEnables, page : Pages,
                                 first : BOOLEAN, prev : Restorable]]
      BY <2>2
    <3> QED
      BY <1>4, <2>2, <3>1 DEF Lookup
  <2> QED
    BY <1>4, <2>1, <2>2 DEF Lookup, Handled, Marked
<1>5. CASE Unprotect(t)
  <2>1. /\ prot' \in [Pages -> Protections] /\ late' \subseteq Pages
        /\ fails' \in 0 .. MaxFails /\ refused' \subseteq Threads
    BY <1>5 DEF Unprotect, Fails, Protections
  <2>2. CASE Leave(t, "retry", frame[t].page)
    BY <1>5, <2>1, <2>2, LeaveTypes DEF Unprotect
  <2> QED
    BY <1>5, <2>1, <2>2 DEF Unprotect
<1>6. CASE Notify(t)
  <2>1. EventOf(t) \in Event
    BY DEF EventOf, Event
  <2>2. pipe' \in Seq(Event) /\ Len(pipe') <= PipeSize
    BY <1>6, <2>1 DEF Notify
  <2> QED
    BY <1>6, <2>2, LeaveTypes DEF Notify
<1> QED
  BY <1>1, <1>2, <1>3, <1>4, <1>5, <1>6 DEF HandlerStep

LEMMA DrainTypes == TypeInv /\ Drain => TypeInv'
<1> SUFFICES ASSUME TypeInv, Drain PROVE TypeInv'
  OBVIOUS
<1> USE DEF TypeInv, TypeOK, Unset, Counted, monitorVars, workerVars, losses
<1>1. pipe' \in Seq(Event) /\ Len(pipe') <= PipeSize /\ Head(pipe) \in Event
  BY DEF Drain
<1>2. told' \in [Pages -> Nat]
  BY <1>1 DEF Drain, Event
<1> QED
  BY <1>1, <1>2 DEF Drain

LEMMA TypeStep == TypeInv /\ [Next]_vars => TypeInv'
<1> SUFFICES ASSUME TypeInv, [Next]_vars PROVE TypeInv'
  OBVIOUS
<1>1. CASE UNCHANGED vars
  BY <1>1 DEF vars, monitorVars, workerVars, losses, TypeInv, TypeOK, Unset, Counted
<1> QED
  BY <1>1, WorkerTypes, ThreadTypes, DrainTypes DEF Next

LEMMA TypesAlways == Spec => []TypeInv
BY TypeInit, TypeStep, PTL DEF Spec

\* No page is ever given PROT_NONE as the protection to go back to, and whatever
\* else has a type keeps it.
THEOREM TypeCorrect == Spec => []TypeOK
<1>1. TypeInv => TypeOK
  BY DEF TypeInv
<1> QED
  BY <1>1, TypesAlways, PTL

-----------------------------------------------------------------------------
(* Faults lost to the previous handler *)

\* A published set of pages is switched on before the worker is idle again.
SetMeansOn == step = "idle" /\ watched # {} => enabled

\* While nothing has disturbed a thread on its way through the handler, the page
\* it faulted on is still watched.
CrashInv ==
  /\ TypeInv /\ SetMeansOn
  /\ \A t \in Threads :
       /\ pc[t] = "crashed" => disturbed[t]
       /\ pc[t] \notin {"run", "crashed"} /\ ~ disturbed[t] =>
            step = "idle" /\ frame[t].page \in watched

LEMMA CrashInit == Init => CrashInv
<1> SUFFICES ASSUME Init PROVE CrashInv
  OBVIOUS
<1>1. SetMeansOn
  BY DEF Init, SetMeansOn
<1>2. \A t \in Threads : pc[t] = "run"
  BY DEF Init
<1> QED
  BY <1>1, <1>2, TypeInit DEF CrashInv

\* Whatever the worker does disturbs every handler under way.
LEMMA WorkerFrame == Worker => Disturb /\ UNCHANGED <<pc, frame, pipe>>
BY DEF Worker, StartDisable, RestorePage, Restored, QueryPage, ProtectPage, ProtectFails,
       Publish, SwitchOn, threadVars

LEMMA WorkerSetMeansOn == TypeInv /\ SetMeansOn /\ Worker => SetMeansOn'
<1> SUFFICES ASSUME TypeInv, SetMeansOn, Worker PROVE SetMeansOn'
  OBVIOUS
<1> USE DEF SetMeansOn
<1>1. CASE \E P \in SUBSET Pages : StartDisable(P)
  BY <1>1 DEF StartDisable
<1>2. CASE \E p \in Pages : RestorePage(p) \/ QueryPage(p) \/ ProtectPage(p)
  BY <1>2 DEF RestorePage, QueryPage, ProtectPage
<1>3. CASE Restored \/ ProtectFails
  BY <1>3 DEF Restored, ProtectFails, TypeInv, Unset
<1>4. CASE Publish
  BY <1>4 DEF Publish
<1>5. CASE SwitchOn
  BY <1>5 DEF SwitchOn
<1> QED
  BY <1>1, <1>2, <1>3, <1>4, <1>5 DEF Worker

LEMMA CrashThread ==
  ASSUME CrashInv, TypeInv', NEW t \in Threads, (\E p \in Pages : Fault(t, p)) \/ HandlerStep(t)
  PROVE  CrashInv'
<1> USE DEF CrashInv, monitorVars, workerVars, Goto
<1>0. SetMeansOn'
  BY DEF HandlerStep, Fault, Retry, CheckEnabled, Lookup, Unprotect, Notify, SetMeansOn
<1>t. pc \in [Threads -> PCs] /\ disturbed \in [Threads -> BOOLEAN] /\ DOMAIN frame = Threads
  BY DEF TypeInv, TypeOK
<1>1. ASSUME NEW p \in Pages, Fault(t, p) PROVE CrashInv'
  <2>1. frame'[t].page = p /\ \A u \in Threads \ {t} : frame'[u] = frame[u]
    BY <1>1 DEF Fault, TypeInv, TypeOK
  <2>2. /\ pc'[t] = "fault" /\ disturbed'[t] = (step # "idle" \/ p \notin watched)
        /\ \A u \in Threads \ {t} : pc'[u] = pc[u] /\ disturbed'[u] = disturbed[u]
        /\ step' = step /\ watched' = watched
    BY <1>t, <1>1 DEF Fault
  <2>3. ASSUME NEW u \in Threads \ {t}
        PROVE  /\ pc'[u] = "crashed" => disturbed'[u]
               /\ pc'[u] \notin {"run", "crashed"} /\ ~ disturbed'[u] =>
                    step' = "idle" /\ frame'[u].page \in watched'
    BY <2>1, <2>2
  <2> QED
    BY <1>0, <2>1, <2>2, <2>3
<1>2. CASE Retry(t)
  <2>1. CASE Leave(t, "run", NoFrame.page) /\ disturbed' = [disturbed EXCEPT ![t] = FALSE]
    BY <1>0, <1>t, <1>2, <2>1 DEF Retry, Leave
  <2>2. CASE /\ Goto(t, "fault") /\ UNCHANGED frame
             /\ disturbed' = [disturbed EXCEPT ![t] = @ \/ step # "idle"]
    BY <1>0, <1>t, <1>2, <2>2 DEF Retry
  <2> QED
    BY <1>2, <2>1, <2>2 DEF Retry
<1>3. CASE CheckEnabled(t)
  <2>1. CASE enabled /\ Goto(t, "lock") /\ UNCHANGED frame
    BY <1>0, <1>t, <1>3, <2>1 DEF CheckEnabled
  <2>2. CASE ~ enabled /\ Chained(t)
    BY <1>0, <1>t, <1>3, <2>2 DEF CheckEnabled, Leave, Chained, SetMeansOn
  <2> QED
    BY <1>3, <2>1, <2>2 DEF CheckEnabled
<1>4. CASE Lookup(t)
  <2>1. CASE frame[t].page \notin watched /\ Chained(t)
    BY <1>0, <1>t, <1>4, <2>1 DEF Lookup, Leave, Chained
  <2>2. CASE Goto(t, "unprotect") /\ frame[t].page \in watched
    <3>1. frame'[t].page = frame[t].page /\ \A u \in Threads \ {t} : frame'[u] = frame[u]
      BY <1>t, <1>4, <2>2 DEF Lookup, Leave, Chained
    <3> QED
      BY <1>0, <1>t, <1>4, <2>2, <3>1 DEF Lookup
  <2> QED
    BY <1>4, <2>1, <2>2 DEF Lookup, Handled
<1>5. CASE Unprotect(t) \/ Notify(t)
  <2>1. /\ frame'[t].page = frame[t].page /\ \A u \in Threads \ {t} : frame'[u] = frame[u]
        /\ pc[t] \in {"unprotect", "notify"} /\ pc' = [pc EXCEPT ![t] = pc'[t]]
        /\ pc'[t] # "crashed"
    <3>1. CASE Goto(t, "notify") /\ UNCHANGED frame
      BY <1>t, <1>5, <3>1 DEF Unprotect, Notify, Leave, PCs
    <3>2. CASE Leave(t, "retry", frame[t].page)
      BY <1>t, <1>5, <3>2, FrameTypes DEF Unprotect, Notify, Leave, TypeInv, TypeOK
    <3> QED
      BY <1>5, <3>1, <3>2 DEF Unprotect, Notify
  <2> QED
    BY <1>0, <1>t, <1>5, <2>1 DEF Unprotect, Notify
<1> QED
  BY <1>1, <1>2, <1>3, <1>4, <1>5 DEF HandlerStep

LEMMA CrashStep == CrashInv /\ [Next]_vars => CrashInv'
<1> SUFFICES ASSUME CrashInv, [Next]_vars PROVE CrashInv'
  OBVIOUS
<1>0. TypeInv'
  BY TypeStep DEF CrashInv
<1>1. CASE Worker
  BY <1>0, <1>1, WorkerFrame, WorkerSetMeansOn DEF CrashInv, Disturb, TypeInv, TypeOK
<1>2. CASE Drain
  BY <1>0, <1>2 DEF Drain, CrashInv, SetMeansOn, monitorVars, workerVars
<1>3. CASE UNCHANGED vars
  BY <1>0, <1>3 DEF vars, CrashInv, SetMeansOn, monitorVars, workerVars
<1> QED
  BY <1>0, <1>1, <1>2, <1>3, CrashThread DEF Next

\* A fault is passed to the previous handler only if the monitor changed while it
\* was under way, for any number of pages, threads and enables.
THEOREM LostOnlyIfDisturbed == Spec => []CrashOnlyIfDisturbed
<1>1. CrashInv => CrashOnlyIfDisturbed
  BY DEF CrashInv, CrashOnlyIfDisturbed
<1> QED
  BY <1>1, CrashInit, CrashStep, PTL DEF Spec

-----------------------------------------------------------------------------
(* Pages get their protection back *)

\* Where a page may be without its protection bits: it is watched, being restored, or
\* already protected by the enable under way.
Shut(p) == \/ p \in watched
           \/ step = "restore" /\ p \in todo
           \/ step = "protect" /\ p \in wanted \ todo

\* Nobody takes the default for the protection of a page that has bits of its own,
\* because it is asked for only when the page has them.
OwnBits(p) ==
  /\ prev[p] = "own"
  /\ prot[p] = "own" \/ (prot[p] = "none" /\ Shut(p))

\* A guard page is left alone as long as no enable has made an entry for it.
GuardShut(p) ==
  /\ prot[p] = "none" /\ ~ Shut(p)
  /\ step = "query" /\ p \in wanted => p \in todo
  /\ step = "protect" => p \notin wanted

\* What a handler is about to give back to a page.
GivesOwn(t) ==
  /\ pc[t] \notin {"unprotect", "notify"} => frame[t].prev = "own"
  /\ frame[t].page \notin spoilt => /\ frame[t].prev = "own"
                                    /\ pc[t] = "unprotect" => frame[t].page \notin Guards

OffInv ==
  /\ TypeInv
  /\ step \in {"query", "protect"} => todo \subseteq wanted
  /\ \A t \in Threads : GivesOwn(t)
  /\ \A p \in Pages \ spoilt : IF p \in Guards THEN GuardShut(p) ELSE OwnBits(p)

LEMMA OffInit == Init => OffInv
<1> SUFFICES ASSUME Init PROVE OffInv
  OBVIOUS
<1>1. /\ step = "idle" /\ watched = {} /\ \A p \in Pages : prev[p] = "own" /\ prot[p] = Own(p)
      /\ \A t \in Threads : frame[t].prev = "own" /\ pc[t] = "run"
  BY DEF Init, NoFrame
<1> QED
  BY <1>1, TypeInit DEF OffInv, Own, OwnBits, GuardShut, GivesOwn, Shut

\* More pages are spoilt as time goes by, never fewer.
LEMMA SpoiltGrows == [Next]_vars => spoilt \subseteq spoilt'
<1>1. Worker => spoilt \subseteq spoilt'
  BY DEF Worker, StartDisable, RestorePage, Restored, QueryPage, ProtectPage, ProtectFails,
         Publish, SwitchOn, Spoil, losses
<1>2. ASSUME NEW t \in Threads, (\E p \in Pages : Fault(t, p)) \/ HandlerStep(t)
      PROVE  spoilt \subseteq spoilt'
  BY <1>2 DEF HandlerStep, Fault, Retry, CheckEnabled, Lookup, Unprotect, Notify, losses
<1>3. Drain \/ UNCHANGED vars => spoilt \subseteq spoilt'
  BY DEF Drain, vars, losses
<1> QED
  BY <1>1, <1>2, <1>3 DEF Next

\* What a step of the worker does to one page that stays as it was.
LEMMA OffWorkerPage ==
  ASSUME OffInv, Worker, NEW q \in Pages \ spoilt'
  PROVE  IF q \in Guards THEN GuardShut(q)' ELSE OwnBits(q)'
<1>s. q \in Pages \ spoilt
  BY SpoiltGrows DEF Next
<1> USE DEF OffInv, Shut, OwnBits, GuardShut, Own, Spoil, monitorVars, losses
<1>t. /\ Unset /\ prot \in [Pages -> Protections] /\ prev \in [Pages -> Restorable]
      /\ todo \subseteq Pages /\ IF q \in Guards THEN GuardShut(q) ELSE OwnBits(q)
  BY <1>s DEF TypeInv, TypeOK
<1>1. ASSUME NEW P \in SUBSET Pages, StartDisable(P)
      PROVE  IF q \in Guards THEN GuardShut(q)' ELSE OwnBits(q)'
  BY <1>t, <1>1 DEF StartDisable
<1>2. ASSUME NEW p \in Pages, RestorePage(p)
      PROVE  IF q \in Guards THEN GuardShut(q)' ELSE OwnBits(q)'
  <2>1. CASE q \in Guards
    BY <1>t, <1>2, <2>1 DEF RestorePage, PutBack
  <2>2. CASE q \notin Guards
    BY <1>t, <1>2, <2>2 DEF RestorePage, PutBack
  <2> QED
    BY <2>1, <2>2
<1>3. ASSUME NEW p \in Pages, QueryPage(p)
      PROVE  IF q \in Guards THEN GuardShut(q)' ELSE OwnBits(q)'
  <2>1. CASE q \in Guards
    BY <1>t, <1>3, <2>1 DEF QueryPage, QueryProt
  <2>2. CASE q \notin Guards
    BY <1>t, <1>3, <2>2 DEF QueryPage, QueryProt, Unset
  <2> QED
    BY <2>1, <2>2
<1>4. ASSUME NEW p \in Pages, ProtectPage(p)
      PROVE  IF q \in Guards THEN GuardShut(q)' ELSE OwnBits(q)'
  BY <1>t, <1>4 DEF ProtectPage, Unset
<1>5. CASE Restored
  BY <1>t, <1>5 DEF Restored, Unset
<1>6. CASE ProtectFails
  BY <1>t, <1>6 DEF ProtectFails, Unset
<1>7. CASE Publish
  BY <1>t, <1>7 DEF Publish, NoneLeft, Unset
<1>8. CASE SwitchOn
  BY <1>t, <1>8 DEF SwitchOn
<1> QED
  BY <1>1, <1>2, <1>3, <1>4, <1>5, <1>6, <1>7, <1>8 DEF Worker

LEMMA OffWorker == OffInv /\ TypeInv' /\ Worker => OffInv'
<1> SUFFICES ASSUME OffInv, TypeInv', Worker PROVE OffInv'
  OBVIOUS
<1>1. step' \in {"query", "protect"} => todo' \subseteq wanted'
  BY DEF OffInv, Worker, StartDisable, RestorePage, Restored, QueryPage, ProtectPage,
         ProtectFails, Publish, SwitchOn
<1>2. \A t \in Threads : GivesOwn(t)'
  BY SpoiltGrows, WorkerFrame DEF OffInv, GivesOwn, Next
<1> QED
  BY <1>1, <1>2, OffWorkerPage DEF OffInv

LEMMA OffThread ==
  ASSUME OffInv, TypeInv', NEW t \in Threads, (\E p \in Pages : Fault(t, p)) \/ HandlerStep(t)
  PROVE  OffInv'
<1>0. UNCHANGED <<watched, prev, step, todo, wanted, spoilt>>
  BY DEF HandlerStep, Fault, Retry, CheckEnabled, Lookup, Unprotect, Notify, monitorVars,
         workerVars, losses
<1>t. /\ DOMAIN frame = Threads /\ DOMAIN pc = Threads /\ prot \in [Pages -> Protections]
      /\ frame[t].page \in Pages /\ pc \in [Threads -> PCs]
      /\ frame \in [Threads -> [epoch : 0 .. MaxEnables, page : Pages,
                               first : BOOLEAN, prev : Restorable]]
  BY DEF OffInv, TypeInv, TypeOK
<1>1. \A u \in Threads : GivesOwn(u)'
  <2>1. \A u \in Threads : GivesOwn(u)
    BY DEF OffInv
  <2>2. ASSUME NEW where \in {"run", "retry", "crashed"}, NEW p, Leave(t, where, p)
        PROVE  \A u \in Threads : GivesOwn(u)'
    BY <1>0, <1>t, <2>1, <2>2 DEF Leave, Goto, NoFrame, GivesOwn
  <2>3. ASSUME NEW p \in Pages, Fault(t, p) PROVE \A u \in Threads : GivesOwn(u)'
    <3>1. /\ frame'[t].prev = "own" /\ pc'[t] = "fault"
          /\ \A u \in Threads \ {t} : frame'[u] = frame[u] /\ pc'[u] = pc[u]
      BY <1>t, <2>1, <2>3 DEF Fault, Goto, GivesOwn
    <3> QED
      BY <1>0, <2>1, <3>1 DEF GivesOwn
  <2>4. CASE Retry(t) \/ CheckEnabled(t) \/ Notify(t)
    <3>1. CASE /\ \E where \in {"fault", "lock"} : Goto(t, where)
               /\ UNCHANGED frame /\ pc[t] \in {"retry", "fault"}
      BY <1>0, <1>t, <2>1, <3>1 DEF Goto, GivesOwn
    <3> QED
      BY <2>2, <2>4, <3>1 DEF Retry, CheckEnabled, Notify, Chained
  <2>5. CASE Unprotect(t)
    <3>1. CASE Goto(t, "notify") /\ UNCHANGED frame
      BY <1>0, <1>t, <2>1, <3>1 DEF Goto, GivesOwn
    <3> QED
      BY <2>2, <2>5, <3>1 DEF Unprotect
  <2>6. CASE Lookup(t)
    <3>1. CASE frame[t].page \in watched /\ Goto(t, "unprotect")
      <4>1. frame'[t].page = frame[t].page /\ frame'[t].prev = prev[frame[t].page]
            /\ pc'[t] = "unprotect"
            /\ \A u \in Threads \ {t} : frame'[u] = frame[u] /\ pc'[u] = pc[u]
        BY <1>t, <2>6, <3>1 DEF Lookup, Goto, Chained, Leave
      <4>2. frame[t].page \notin spoilt =>
              prev[frame[t].page] = "own" /\ frame[t].page \notin Guards
        BY <1>t, <3>1 DEF OffInv, OwnBits, GuardShut, Shut
      <4> QED
        BY <1>0, <2>1, <4>1, <4>2 DEF GivesOwn
    <3> QED
      BY <2>2, <2>6, <3>1 DEF Lookup, Handled, Chained
  <2> QED
    BY <2>2, <2>3, <2>4, <2>5, <2>6 DEF HandlerStep
<1>2. \/ prot' = prot
      \/ pc[t] = "unprotect" /\ prot' = [prot EXCEPT ![frame[t].page] = frame[t].prev]
  BY DEF HandlerStep, Fault, Retry, CheckEnabled, Lookup, Unprotect, Notify
<1>3. ASSUME NEW p \in Pages \ spoilt PROVE IF p \in Guards THEN GuardShut(p)' ELSE OwnBits(p)'
  BY <1>0, <1>t, <1>2 DEF OffInv, GivesOwn, OwnBits, GuardShut, Shut
<1> QED
  BY <1>0, <1>1, <1>3 DEF OffInv

LEMMA OffStep == OffInv /\ [Next]_vars => OffInv'
<1> SUFFICES ASSUME OffInv, [Next]_vars PROVE OffInv'
  OBVIOUS
<1>0. TypeInv'
  BY TypeStep DEF OffInv
<1>1. CASE Drain \/ UNCHANGED vars
  BY <1>0, <1>1 DEF Drain, vars, OffInv, Shut, OwnBits, GuardShut, GivesOwn, monitorVars,
                    workerVars, losses
<1> QED
  BY <1>0, <1>1, OffWorker, OffThread DEF Next

LEMMA OffAlways == Spec => []OffInv
BY OffInit, OffStep, PTL DEF Spec

\* Off, every page has the protection it had before it was watched, but for those that
\* an mprotect failed to restore, that were protected when an enable failed, and guard
\* pages that were watched.
THEOREM RestoredWhenOff == Spec => []OffMeansRestored
<1>1. OffInv => OffMeansRestored
  BY DEF OffInv, Shut, OwnBits, GuardShut, Own, OffMeansRestored
<1> QED
  BY <1>1, OffAlways, PTL

-----------------------------------------------------------------------------
(* Watched pages trap *)

\* Handlers of the present enable have marked their page before they restore it;
\* no handler is of an enable that has not published its pages.
TrapsInv ==
  /\ TypeInv
  /\ \A p \in watched \ completed : prot[p] = "none" \/ p \in late
  /\ step = "protect" => todo \subseteq wanted
                         /\ \A p \in wanted \ todo : prot[p] = "none" \/ p \in late
  /\ \A t \in Threads :
       /\ frame[t].epoch <= epoch
       /\ pc[t] = "unprotect" /\ frame[t].epoch = epoch =>
            frame[t].page \in completed \/ (watched = {} /\ step \in {"idle", "restore"})

LEMMA TrapsInit == Init => TrapsInv
<1> SUFFICES ASSUME Init PROVE TrapsInv
  OBVIOUS
<1>1. /\ watched = {} /\ step = "idle" /\ epoch = 0
      /\ \A t \in Threads : pc[t] = "run" /\ frame[t].epoch = 0
  BY DEF Init, NoFrame
<1> QED
  BY <1>1, TypeInit DEF TrapsInv

LEMMA TrapsWorker == TrapsInv /\ TypeInv' /\ Worker => TrapsInv'
<1> SUFFICES ASSUME TrapsInv, TypeInv', Worker PROVE TrapsInv'
  OBVIOUS
<1> USE DEF TrapsInv, monitorVars
<1>t. /\ UNCHANGED <<pc, frame>> /\ Unset /\ completed \subseteq watched
      /\ prot \in [Pages -> Protections] /\ todo \subseteq Pages
      /\ epoch \in Nat /\ \A t \in Threads : frame[t].epoch \in Nat
  BY WorkerFrame DEF TypeInv, TypeOK
<1>1. ASSUME NEW P \in SUBSET Pages, StartDisable(P) PROVE TrapsInv'
  BY <1>t, <1>1 DEF StartDisable
<1>2. ASSUME NEW p \in Pages, RestorePage(p) PROVE TrapsInv'
  BY <1>t, <1>2 DEF RestorePage, Unset
<1>3. ASSUME NEW p \in Pages, QueryPage(p) PROVE TrapsInv'
  BY <1>t, <1>3 DEF QueryPage, Unset
<1>4. ASSUME NEW p \in Pages, ProtectPage(p) PROVE TrapsInv'
  BY <1>t, <1>4 DEF ProtectPage, Unset
<1>5. CASE Restored
  BY <1>t, <1>5 DEF Restored, Unset
<1>6. CASE ProtectFails
  BY <1>t, <1>6 DEF ProtectFails, Unset
<1>7. CASE Publish
  BY <1>t, <1>7 DEF Publish, NoneLeft, Unset
<1>8. CASE SwitchOn
  BY <1>t, <1>8 DEF SwitchOn
<1> QED
  BY <1>1, <1>2, <1>3, <1>4, <1>5, <1>6, <1>7, <1>8 DEF Worker

LEMMA TrapsThread ==
  ASSUME TrapsInv, TypeInv', NEW t \in Threads, (\E p \in Pages : Fault(t, p)) \/ HandlerStep(t)
  PROVE  TrapsInv'
<1> USE DEF TrapsInv, monitorVars, workerVars, Goto
<1>t. /\ pc \in [Threads -> PCs] /\ DOMAIN frame = Threads /\ epoch \in Nat
      /\ prot \in [Pages -> Protections] /\ frame[t].page \in Pages
      /\ completed \subseteq watched /\ frame[t].epoch \in Nat /\ Unset
  BY DEF TypeInv, TypeOK
<1>l. ASSUME NEW where \in PCs \ {"unprotect"}, NEW p, Leave(t, where, p)
      PROVE  \A u \in Threads :
               /\ frame'[u].epoch <= epoch
               /\ pc'[u] = "unprotect" => u # t /\ pc[u] = "unprotect" /\ frame'[u] = frame[u]
  BY <1>t, <1>l DEF Leave, NoFrame
<1>1. ASSUME NEW p \in Pages, Fault(t, p) PROVE TrapsInv'
  <2>1. /\ frame'[t].epoch = frame[t].epoch /\ pc'[t] = "fault"
        /\ \A u \in Threads \ {t} : frame'[u] = frame[u] /\ pc'[u] = pc[u]
    BY <1>t, <1>1 DEF Fault, TypeInv, TypeOK
  <2> QED
    BY <1>1, <2>1 DEF Fault
<1>2. CASE Retry(t)
  <2>1. CASE Leave(t, "run", NoFrame.page)
    BY <1>2, <1>l, <2>1 DEF Retry, PCs
  <2>2. CASE Goto(t, "fault") /\ UNCHANGED frame
    BY <1>t, <1>2, <2>2 DEF Retry
  <2> QED
    BY <1>2, <2>1, <2>2 DEF Retry
<1>3. CASE CheckEnabled(t)
  <2>1. CASE Chained(t)
    BY <1>3, <1>l, <2>1 DEF CheckEnabled, PCs, Chained
  <2>2. CASE Goto(t, "lock") /\ UNCHANGED frame
    BY <1>t, <1>3, <2>2 DEF CheckEnabled
  <2> QED
    BY <1>3, <2>1, <2>2 DEF CheckEnabled
<1>4. CASE Lookup(t)
  <2>1. CASE Chained(t) /\ UNCHANGED completed
    BY <1>4, <1>l, <2>1 DEF Lookup, PCs, Chained
  <2>2. CASE /\ pc' = [pc EXCEPT ![t] = "unprotect"] /\ completed' = completed \cup {frame[t].page}
             /\ frame' = [frame EXCEPT ![t] =
                  [epoch |-> epoch, page |-> frame[t].page,
                   first |-> frame[t].page \notin completed, prev |-> prev[frame[t].page]]]
    BY <1>t, <1>4, <2>2 DEF Lookup
  <2> QED
    BY <1>4, <2>1, <2>2 DEF Lookup, Handled, Marked
<1>5. CASE Unprotect(t)
  <2>1. \A u \in Threads :
          /\ frame'[u].epoch <= epoch
          /\ pc'[u] = "unprotect" => u # t /\ pc[u] = "unprotect" /\ frame'[u] = frame[u]
    <3>1. CASE Leave(t, "retry", frame[t].page)
      BY <1>l, <3>1 DEF PCs
    <3> QED
      BY <1>t, <1>5, <3>1 DEF Unprotect
  <2>2. \A p \in Pages : prot[p] = "none" \/ p \in late =>
          prot'[p] = "none" \/ p \in late' \/ (p = frame[t].page /\ frame[t].epoch = epoch)
    BY <1>t, <1>5 DEF Unprotect
  <2>3. frame[t].epoch = epoch => frame[t].page \in completed \/ (watched = {} /\ step \in {"idle", "restore"})
    BY <1>5 DEF Unprotect
  <2>4. UNCHANGED <<watched, completed, step, todo, wanted, epoch>> /\ watched \subseteq Pages /\ wanted \subseteq Pages
    BY <1>5 DEF Unprotect, TypeInv, TypeOK
  <2> QED
    BY <1>t, <2>1, <2>2, <2>3, <2>4 DEF Unset
<1>6. CASE Notify(t)
  BY <1>6, <1>l DEF Notify, PCs
<1> QED
  BY <1>1, <1>2, <1>3, <1>4, <1>5, <1>6 DEF HandlerStep

LEMMA TrapsStep == TrapsInv /\ [Next]_vars => TrapsInv'
<1> SUFFICES ASSUME TrapsInv, [Next]_vars PROVE TrapsInv'
  OBVIOUS
<1>0. TypeInv'
  BY TypeStep DEF TrapsInv
<1>1. CASE Drain \/ UNCHANGED vars
  BY <1>0, <1>1 DEF Drain, vars, TrapsInv, monitorVars, workerVars
<1> QED
  BY <1>0, <1>1, TrapsWorker, TrapsThread DEF Next

\* A page that is watched and was not accessed still traps, unless a handler of
\* an earlier enable restored it late.
THEOREM WatchedStillTrap == Spec => []WatchedTraps
<1>1. TrapsInv => WatchedTraps
  BY DEF TrapsInv, WatchedTraps
<1> QED
  BY <1>1, TrapsInit, TrapsStep, PTL DEF Spec

-----------------------------------------------------------------------------
(* One event for a page *)

\* Where the events of the present enable about p are.
Places(s, ev) == {n \in DOMAIN s : s[n] = ev}
Now(p) == [epoch |-> epoch, page |-> p]
InHand(t, p) == pc[t] \in {"unprotect", "notify"} /\ frame[t].first /\ EventOf(t) = Now(p)
Hands(p) == {t \in Threads : InHand(t, p)}

\* A thread that is about to write an event is the one that marked the page.  No
\* event is of an enable that has not published its pages yet.
NotifyInv ==
  /\ TypeInv
  /\ \A t \in Threads : frame[t].epoch <= epoch /\ (pc[t] = "notify" => frame[t].first)
  /\ \A n \in DOMAIN pipe : pipe[n].epoch <= epoch
  /\ NotifiesOnce
  /\ step \in {"query", "protect"} => \A p \in Pages : EventsOf(p) = 0

LEMMA EventsSum ==
  ASSUME NEW p
  PROVE  EventsOf(p) = told[p] + Cardinality(Places(pipe, Now(p))) + Cardinality(Hands(p))
BY DEF EventsOf, Places, Now, Hands, InHand

LEMMA CountTypes ==
  ASSUME TypeOK, NEW p \in Pages
  PROVE  /\ IsFiniteSet(Places(pipe, Now(p))) /\ IsFiniteSet(Hands(p))
         /\ Cardinality(Places(pipe, Now(p))) \in Nat /\ Cardinality(Hands(p)) \in Nat
         /\ told[p] \in Nat /\ EventsOf(p) \in Nat
<1>1. IsFiniteSet(Hands(p))
  <2>1. Hands(p) \in SUBSET Threads
    BY DEF Hands
  <2> QED
    BY <2>1, FS_Subset
<1>2. IsFiniteSet(Places(pipe, Now(p)))
  <2>1. pipe \in Seq(Event) /\ Len(pipe) \in Nat /\ DOMAIN pipe = 1 .. Len(pipe)
    BY DEF TypeOK
  <2>2. Places(pipe, Now(p)) \in SUBSET (1 .. Len(pipe))
    BY <2>1 DEF Places
  <2>3. IsFiniteSet(1 .. Len(pipe))
    BY <2>1, FS_Interval
  <2> QED
    BY <2>2, <2>3, FS_Subset
<1>3. told[p] \in Nat
  BY DEF TypeOK
<1>4. Cardinality(Places(pipe, Now(p))) \in Nat /\ Cardinality(Hands(p)) \in Nat
  BY <1>1, <1>2, FS_CardinalityType
<1> QED
  BY <1>1, <1>2, <1>3, <1>4, EventsSum

\* What write_event and drain_loop do to the events in the pipe.
LEMMA AppendPlaces ==
  ASSUME NEW s \in Seq(Event), NEW e \in Event, NEW ev, IsFiniteSet(Places(s, ev))
  PROVE  Cardinality(Places(Append(s, e), ev)) = Cardinality(Places(s, ev)) + (IF e = ev THEN 1 ELSE 0)
<1>1. CASE e = ev
  <2>1. Places(Append(s, e), ev) = Places(s, ev) \cup {Len(s) + 1}
    BY <1>1 DEF Places
  <2>2. Len(s) + 1 \notin Places(s, ev)
    BY DEF Places
  <2> QED
    BY <1>1, <2>1, <2>2, FS_AddElement
<1>2. CASE e # ev
  <2>1. Places(Append(s, e), ev) = Places(s, ev)
    BY <1>2 DEF Places
  <2> QED
    BY <1>2, <2>1, FS_CardinalityType
<1> QED
  BY <1>1, <1>2

LEMMA TailPlaces ==
  ASSUME NEW s \in Seq(Event), s # << >>, NEW ev, IsFiniteSet(Places(s, ev))
  PROVE  Cardinality(Places(s, ev))
           = Cardinality(Places(Tail(s), ev)) + (IF Head(s) = ev THEN 1 ELSE 0)
<1> DEFINE R == Places(s, ev) \ {1}
           T == Places(Tail(s), ev)
           f == [n \in R |-> n - 1]
<1>1. IsFiniteSet(R) /\ Cardinality(R) \in Nat
      /\ Cardinality(Places(s, ev)) = Cardinality(R) + (IF Head(s) = ev THEN 1 ELSE 0)
  <2>1. 1 \in Places(s, ev) <=> Head(s) = ev
    BY DEF Places
  <2>2. Cardinality(Places(s, ev)) \in Nat
    BY FS_CardinalityType
  <2>3. /\ IsFiniteSet(R)
        /\ Cardinality(R) = IF 1 \in Places(s, ev) THEN Cardinality(Places(s, ev)) - 1
                                                   ELSE Cardinality(Places(s, ev))
    BY FS_RemoveElement
  <2>4. Cardinality(R) \in Nat
    BY <2>3, FS_CardinalityType
  <2> QED
    BY <2>1, <2>2, <2>3, <2>4
<1>2. ExistsBijection(R, T)
  <2>0. /\ Len(s) \in Nat \ {0} /\ DOMAIN s = 1 .. Len(s) /\ DOMAIN Tail(s) = 1 .. Len(s) - 1
        /\ \A n \in 1 .. Len(s) - 1 : Tail(s)[n] = s[n + 1]
    OBVIOUS
  <2>1. f \in [R -> T]
    BY <2>0 DEF Places
  <2>2. \A a, b \in R : f[a] = f[b] => a = b
    BY <2>0 DEF Places
  <2>3. \A n \in T : \E a \in R : f[a] = n
    <3>1. ASSUME NEW n \in T PROVE n + 1 \in R /\ f[n + 1] = n
      BY <2>0 DEF Places
    <3> QED
      BY <3>1
  <2> QED
    BY <2>1, <2>2, <2>3 DEF ExistsBijection, Bijection, Injection, Surjection, IsInjective
<1>3. Cardinality(T) = Cardinality(R)
  BY <1>1, <1>2, FS_Bijection
<1> QED
  BY <1>1, <1>3

\* A step that leaves what JS has, the pipe and the hands with events of p alone.
LEMMA SameEvents ==
  ASSUME NEW p, UNCHANGED <<told, pipe, epoch>>, Hands(p)' = Hands(p)
  PROVE  EventsOf(p)' = EventsOf(p)
<1>1. Now(p)' = Now(p) /\ Places(pipe, Now(p))' = Places(pipe, Now(p))
  BY DEF Now, Places
<1>2. EventsOf(p)' = told'[p] + Cardinality(Places(pipe, Now(p))') + Cardinality(Hands(p)')
  BY DEF EventsOf, Places, Now, Hands, InHand
<1> QED
  BY <1>1, <1>2, EventsSum

LEMMA NotifyInit == Init => NotifyInv
<1> SUFFICES ASSUME Init PROVE NotifyInv
  OBVIOUS
<1>1. /\ \A t \in Threads : pc[t] = "run" /\ frame[t].epoch = 0
      /\ epoch = 0 /\ pipe = << >> /\ step = "idle" /\ watched = {}
      /\ \A p \in Pages : told[p] = 0
  BY DEF Init, NoFrame
<1>2. ASSUME NEW p \in Pages PROVE EventsOf(p) = 0
  <2>1. Hands(p) = {} /\ Places(pipe, Now(p)) = {}
    BY <1>1 DEF Hands, InHand, Places
  <2>2. Cardinality({}) = 0
    BY FS_EmptySet
  <2> QED
    <3>1. EventsOf(p) = told[p] + Cardinality(Places(pipe, Now(p))) + Cardinality(Hands(p))
      BY EventsSum
    <3> QED
      BY <1>1, <2>1, <2>2, <3>1
<1> QED
  BY <1>1, <1>2, TypeInit DEF NotifyInv, NotifiesOnce

\* enable and disable neither write nor read events, but an enable makes those there
\* are events of the past.
LEMMA NotifyWorker == NotifyInv /\ TypeInv' /\ Worker => NotifyInv'
<1> SUFFICES ASSUME NotifyInv, TypeInv', Worker PROVE NotifyInv'
  OBVIOUS
<1>t. /\ UNCHANGED <<pc, frame, pipe>> /\ Unset /\ completed \subseteq watched
      /\ epoch \in Nat /\ pipe \in Seq(Event)
      /\ \A t \in Threads : frame[t].epoch \in Nat
  BY WorkerFrame DEF NotifyInv, TypeInv, TypeOK
<1>p. \A n \in DOMAIN pipe : pipe[n].epoch \in Nat
  <2>1. \A n \in DOMAIN pipe : pipe[n] \in Event
    BY <1>t
  <2> QED
    BY <2>1 DEF Event
<1>n. \A p \in Pages : EventsOf(p) \in Nat
  BY CountTypes DEF NotifyInv, TypeInv
<1>s. ASSUME UNCHANGED <<told, epoch>> PROVE \A p \in Pages : EventsOf(p)' = EventsOf(p)
  <2>1. ASSUME NEW p \in Pages PROVE Hands(p)' = Hands(p)
    BY <1>t, <1>s DEF Hands, InHand, EventOf, Now
  <2> QED
    BY <1>t, <1>s, <2>1, SameEvents
<1>1. ASSUME NEW P \in SUBSET Pages, StartDisable(P) PROVE NotifyInv'
  BY <1>t, <1>n, <1>s, <1>1 DEF StartDisable, NotifyInv, NotifiesOnce
<1>2. ASSUME NEW p \in Pages, RestorePage(p) \/ QueryPage(p) \/ ProtectPage(p) PROVE NotifyInv'
  BY <1>t, <1>n, <1>s, <1>2 DEF RestorePage, QueryPage, ProtectPage, NotifyInv, NotifiesOnce, monitorVars
<1>3. CASE Restored
  <2>1. CASE wanted = {}
    BY <1>t, <1>n, <1>s, <1>3, <2>1 DEF Restored, NotifyInv, NotifiesOnce
  <2>2. CASE wanted # {}
    <3>1. /\ epoch' = epoch + 1 /\ watched' = watched /\ completed' = completed
          /\ \A p \in Pages : told'[p] = 0
      BY <1>3, <2>2 DEF Restored
    <3>2. ASSUME NEW p \in Pages PROVE EventsOf(p)' = 0
      <4>1. Hands(p)' = {}
        BY <1>t, <3>1 DEF Hands, InHand, EventOf, Now, NotifyInv
      <4>2. Places(pipe, Now(p))' = {}
        BY <1>t, <1>p, <3>1 DEF Places, Now, NotifyInv
      <4>3. EventsOf(p)' = told'[p] + Cardinality(Places(pipe, Now(p))') + Cardinality(Hands(p)')
        BY DEF EventsOf, Places, Now, Hands, InHand
      <4> QED
        BY <3>1, <4>1, <4>2, <4>3, FS_EmptySet
    <3> QED
      BY <1>t, <1>p, <3>1, <3>2 DEF NotifyInv, NotifiesOnce
  <2> QED
    BY <2>1, <2>2
<1>4. CASE ProtectFails
  BY <1>t, <1>n, <1>s, <1>4 DEF ProtectFails, NotifyInv, NotifiesOnce
<1>5. CASE Publish
  <2>1. \A p \in Pages : EventsOf(p)' = 0
    BY <1>s, <1>5 DEF Publish, NotifyInv
  <2>2. step' = "switch on" /\ epoch' = epoch
    BY <1>5 DEF Publish
  <2>3. NotifiesOnce'
    BY <2>1 DEF NotifiesOnce
  <2> QED
    BY <1>t, <2>2, <2>3 DEF NotifyInv
<1>6. CASE SwitchOn
  BY <1>t, <1>n, <1>s, <1>6 DEF SwitchOn, NotifyInv, NotifiesOnce
<1> QED
  BY <1>1, <1>2, <1>3, <1>4, <1>5, <1>6 DEF Worker

\* A thread's step that leaves the numbers of events as they are.
LEMMA NotifyQuiet ==
  ASSUME NotifyInv, TypeInv', UNCHANGED <<watched, completed, step, epoch, told, pipe>>,
         \A t \in Threads : frame'[t].epoch <= epoch /\ (pc'[t] = "notify" => frame'[t].first),
         \A p \in Pages : Hands(p)' = Hands(p)
  PROVE  NotifyInv'
<1>1. \A p \in Pages : EventsOf(p)' = EventsOf(p)
  BY SameEvents
<1> QED
  BY <1>1 DEF NotifyInv, NotifiesOnce

\* Leaving the handler with nothing to report.
LEMMA NotifyLeaves ==
  ASSUME NotifyInv, TypeInv', NEW t \in Threads, NEW where \in {"run", "retry", "crashed"},
         NEW p, Leave(t, where, p), pc[t] \notin {"unprotect", "notify"} \/ ~ frame[t].first,
         UNCHANGED <<watched, completed, step, epoch, told, pipe>>
  PROVE  NotifyInv'
<1>1. /\ frame'[t].epoch = 0 /\ pc'[t] = where /\ epoch \in Nat
      /\ \A u \in Threads \ {t} : frame'[u] = frame[u] /\ pc'[u] = pc[u]
  BY DEF Leave, Goto, NoFrame, NotifyInv, TypeInv, TypeOK
<1>2. \A q \in Pages : Hands(q)' = Hands(q)
  BY <1>1 DEF Hands, InHand, EventOf, Now
<1> QED
  BY <1>1, <1>2, NotifyQuiet DEF NotifyInv

\* A thread's step before the critical section, or after it when its page was
\* marked already.
LEMMA NotifyGoes ==
  ASSUME NotifyInv, TypeInv', NEW t \in Threads, NEW where \in {"fault", "lock"},
         Goto(t, where), pc[t] \notin {"unprotect", "notify"},
         frame'[t].epoch = frame[t].epoch, \A u \in Threads \ {t} : frame'[u] = frame[u],
         UNCHANGED <<watched, completed, step, epoch, told, pipe>>
  PROVE  NotifyInv'
<1>1. pc'[t] = where /\ \A u \in Threads \ {t} : pc'[u] = pc[u]
  BY DEF Goto, NotifyInv, TypeInv, TypeOK
<1>2. \A q \in Pages : Hands(q)' = Hands(q)
  BY <1>1 DEF Hands, InHand, EventOf, Now
<1> QED
  BY <1>1, <1>2, NotifyQuiet DEF NotifyInv

\* The critical section: the first of the threads that fault on a page takes its
\* only event in hand, and marks it.
LEMMA NotifyLookup ==
  ASSUME NotifyInv, TypeInv', NEW t \in Threads, Lookup(t) PROVE NotifyInv'
<1> PICK q \in Pages : q = frame[t].page
  BY DEF NotifyInv, TypeInv, TypeOK
<1>i. TypeOK /\ Unset
  BY DEF NotifyInv, TypeInv
<1>t. /\ pc \in [Threads -> PCs] /\ DOMAIN frame = Threads /\ epoch \in Nat
      /\ TypeOK /\ Unset
  BY <1>i DEF TypeOK
<1>n. \A p \in Pages : EventsOf(p) \in Nat /\ IsFiniteSet(Hands(p)) /\ told[p] \in Nat
           /\ Cardinality(Hands(p)) \in Nat /\ Cardinality(Places(pipe, Now(p))) \in Nat
  BY <1>t, CountTypes
<1>u. pc[t] = "lock" /\ UNCHANGED <<watched, step, epoch, told, pipe>>
  BY DEF Lookup, workerVars
<1>1. CASE Chained(t) /\ UNCHANGED completed
  BY <1>1, <1>u, NotifyLeaves DEF Chained
<1>2. CASE /\ q \in watched /\ pc' = [pc EXCEPT ![t] = "unprotect"]
           /\ frame' = [frame EXCEPT ![t] =
                [epoch |-> epoch, page |-> q, first |-> q \notin completed, prev |-> prev[q]]]
           /\ completed' = completed \cup {q}
  <2>1. /\ pc'[t] = "unprotect" /\ frame'[t].epoch = epoch /\ frame'[t].page = q
        /\ frame'[t].first = (q \notin completed)
        /\ \A u \in Threads \ {t} : frame'[u] = frame[u] /\ pc'[u] = pc[u]
    BY <1>t, <1>2
  <2>2. ASSUME NEW p \in Pages, p # q \/ q \in completed PROVE EventsOf(p)' = EventsOf(p)
    <3>1. Hands(p)' = Hands(p)
      BY <1>u, <2>1, <2>2 DEF Hands, InHand, EventOf, Now
    <3> QED
      BY <1>u, <3>1, SameEvents
  <2>3. ASSUME q \notin completed PROVE EventsOf(q)' = EventsOf(q) + 1
    <3>1. Hands(q)' = Hands(q) \cup {t} /\ t \notin Hands(q)
      BY <1>u, <2>1, <2>3 DEF Hands, InHand, EventOf, Now
    <3>2. Cardinality(Hands(q)') = Cardinality(Hands(q)) + 1
      BY <1>n, <3>1, FS_AddElement
    <3>3. Places(pipe, Now(q))' = Places(pipe, Now(q))
      BY <1>u DEF Places, Now
    <3>4. EventsOf(q)' = told'[q] + Cardinality(Places(pipe, Now(q))') + Cardinality(Hands(q)')
      BY DEF EventsOf, Places, Now, Hands, InHand
    <3> QED
      BY <1>n, <1>u, <3>2, <3>3, <3>4, EventsSum
  <2>4. NotifiesOnce'
    BY <1>t, <1>n, <1>u, <1>2, <2>2, <2>3 DEF NotifyInv, NotifiesOnce
  <2>5. step \notin {"query", "protect"}
    BY <1>t, <1>2 DEF Unset
  <2> QED
    BY <1>t, <1>u, <2>1, <2>4, <2>5 DEF NotifyInv
<1> QED
  BY <1>1, <1>2 DEF Lookup, Handled, Marked, Chained, Goto

\* The event goes from the hand into the pipe, or is lost.
LEMMA NotifyWrites ==
  ASSUME NotifyInv, TypeInv', NEW t \in Threads, Notify(t) PROVE NotifyInv'
<1>t. pipe \in Seq(Event) /\ epoch \in Nat /\ EventOf(t) \in Event /\ TypeOK
  <2>1. frame[t].epoch \in 0 .. MaxEnables /\ frame[t].page \in Pages
    BY DEF NotifyInv, TypeInv, TypeOK
  <2>2. TypeOK
    BY DEF NotifyInv, TypeInv
  <2>3. pipe \in Seq(Event) /\ epoch \in Nat
    BY <2>2 DEF TypeOK
  <2> QED
    BY <2>1, <2>2, <2>3 DEF EventOf, Event
<1>n. \A p \in Pages : EventsOf(p) \in Nat /\ IsFiniteSet(Hands(p)) /\ told[p] \in Nat
           /\ IsFiniteSet(Places(pipe, Now(p)))
           /\ Cardinality(Hands(p)) \in Nat /\ Cardinality(Places(pipe, Now(p))) \in Nat
  BY <1>t, CountTypes
<1>u. /\ pc[t] = "notify" /\ UNCHANGED <<watched, completed, step, epoch, told>>
      /\ frame[t].first /\ frame[t].epoch <= epoch
      /\ pipe' = pipe \/ pipe' = Append(pipe, EventOf(t))
  BY DEF Notify, workerVars, monitorVars, NotifyInv
<1>1. /\ frame'[t].epoch = 0 /\ pc'[t] = "retry"
      /\ \A u \in Threads \ {t} : frame'[u] = frame[u] /\ pc'[u] = pc[u]
  BY DEF Notify, Leave, Goto, NoFrame, NotifyInv, TypeInv, TypeOK
<1>2. ASSUME NEW p \in Pages PROVE EventsOf(p)' <= EventsOf(p) /\ EventsOf(p)' \in Nat
  <2>1. Hands(p)' = Hands(p) \ {t} /\ (t \in Hands(p) <=> EventOf(t) = Now(p))
    BY <1>u, <1>1 DEF Hands, InHand, EventOf, Now
  <2>2. Cardinality(Hands(p)') = Cardinality(Hands(p)) - (IF EventOf(t) = Now(p) THEN 1 ELSE 0)
    <3>1. Cardinality(Hands(p) \ {t}) = IF t \in Hands(p) THEN Cardinality(Hands(p)) - 1
                                                        ELSE Cardinality(Hands(p))
      BY <1>n, FS_RemoveElement
    <3> QED
      BY <1>n, <2>1, <3>1
  <2>3. Now(p)' = Now(p)
    BY <1>u DEF Now
  <2>4. /\ Cardinality(Places(pipe', Now(p))) <= Cardinality(Places(pipe, Now(p)))
                                                 + (IF EventOf(t) = Now(p) THEN 1 ELSE 0)
        /\ Cardinality(Places(pipe', Now(p))) \in Nat
    <3>1. CASE pipe' = pipe
      BY <1>n, <3>1
    <3>2. CASE pipe' = Append(pipe, EventOf(t))
      BY <1>t, <1>n, <3>2, AppendPlaces
    <3> QED
      BY <1>u, <3>1, <3>2
  <2>5. EventsOf(p)' = told'[p] + Cardinality(Places(pipe', Now(p)')) + Cardinality(Hands(p)')
    BY DEF EventsOf, Places, Now, Hands, InHand
  <2>6. Cardinality(Hands(p)') \in Nat
    BY <1>n, <2>1, FS_RemoveElement, FS_CardinalityType
  <2>7. EventsOf(p) = told[p] + Cardinality(Places(pipe, Now(p))) + Cardinality(Hands(p))
    BY EventsSum
  <2>8. /\ told'[p] = told[p] /\ told[p] \in Nat
        /\ Cardinality(Hands(p)) \in Nat /\ Cardinality(Places(pipe, Now(p))) \in Nat
    BY <1>n, <1>u
  <2>9. EventsOf(p)' = told[p] + Cardinality(Places(pipe', Now(p))) + Cardinality(Hands(p)')
    BY <2>3, <2>5, <2>8
  <2>10. CASE EventOf(t) = Now(p)
    BY <2>2, <2>4, <2>6, <2>7, <2>8, <2>9, <2>10
  <2>11. CASE EventOf(t) # Now(p)
    BY <2>2, <2>4, <2>6, <2>7, <2>8, <2>9, <2>11
  <2> QED
    BY <2>10, <2>11
<1>3. \A n \in DOMAIN pipe' : pipe'[n].epoch <= epoch
  <2>1. EventOf(t).epoch <= epoch
    BY <1>u DEF EventOf
  <2>2. ASSUME pipe' = Append(pipe, EventOf(t)), NEW n \in DOMAIN pipe'
        PROVE  pipe'[n].epoch <= epoch
    <3>1. CASE n = Len(pipe) + 1
      BY <1>t, <2>1, <2>2, <3>1
    <3>2. CASE n # Len(pipe) + 1
      <4>1. n \in DOMAIN pipe /\ pipe'[n] = pipe[n]
        BY <1>t, <2>2, <3>2
      <4> QED
        BY <4>1 DEF NotifyInv
    <3> QED
      BY <3>1, <3>2
  <2> QED
    BY <1>u, <2>2 DEF NotifyInv
<1>4. NotifiesOnce'
  BY <1>n, <1>u, <1>2 DEF NotifiesOnce, NotifyInv
<1>5. step \in {"query", "protect"} => \A p \in Pages : EventsOf(p)' = 0
  BY <1>n, <1>2 DEF NotifyInv
<1> QED
  BY <1>t, <1>u, <1>1, <1>3, <1>4, <1>5 DEF NotifyInv

LEMMA NotifyThread ==
  ASSUME NotifyInv, TypeInv', NEW t \in Threads, (\E p \in Pages : Fault(t, p)) \/ HandlerStep(t)
  PROVE  NotifyInv'
<1> USE DEF monitorVars, workerVars
<1>t. pc \in [Threads -> PCs] /\ DOMAIN frame = Threads /\ epoch \in Nat
  BY DEF NotifyInv, TypeInv, TypeOK
<1>1. ASSUME NEW p \in Pages, Fault(t, p) PROVE NotifyInv'
  <2>1. frame'[t].epoch = frame[t].epoch /\ \A u \in Threads \ {t} : frame'[u] = frame[u]
    BY <1>1 DEF Fault, NotifyInv, TypeInv, TypeOK
  <2> QED
    BY <1>1, <2>1, NotifyGoes DEF Fault
<1>2. CASE Retry(t)
  BY <1>2, NotifyGoes, NotifyLeaves DEF Retry
<1>3. CASE CheckEnabled(t)
  BY <1>3, NotifyGoes, NotifyLeaves DEF CheckEnabled, Chained
<1>4. CASE Unprotect(t)
  <2>1. CASE frame[t].first /\ Goto(t, "notify") /\ UNCHANGED frame
    <3>1. pc'[t] = "notify" /\ pc[t] = "unprotect" /\ \A u \in Threads \ {t} : pc'[u] = pc[u]
      BY <1>t, <1>4, <2>1 DEF Unprotect, Goto
    <3>2. UNCHANGED <<watched, completed, step, epoch, told, pipe>>
      BY <1>4 DEF Unprotect
    <3>3. \A q \in Pages : Hands(q)' = Hands(q)
      BY <2>1, <3>1, <3>2 DEF Hands, InHand, EventOf, Now
    <3> QED
      BY <2>1, <3>1, <3>2, <3>3, NotifyQuiet DEF NotifyInv
  <2>2. CASE ~ frame[t].first /\ Leave(t, "retry", frame[t].page)
    BY <1>4, <2>2, NotifyLeaves DEF Unprotect
  <2> QED
    BY <1>4, <2>1, <2>2 DEF Unprotect
<1> QED
  BY <1>1, <1>2, <1>3, <1>4, NotifyLookup, NotifyWrites DEF HandlerStep

\* The event goes from the pipe to JS, or is of the past.
LEMMA NotifyDrain == NotifyInv /\ TypeInv' /\ Drain => NotifyInv'
<1> SUFFICES ASSUME NotifyInv, TypeInv', Drain PROVE NotifyInv'
  OBVIOUS
<1>t. /\ pipe \in Seq(Event) /\ pipe # << >> /\ epoch \in Nat /\ Head(pipe) \in Event
      /\ pipe' = Tail(pipe) /\ told \in [Pages -> Nat]
      /\ UNCHANGED <<watched, completed, step, epoch, pc, frame>>
      /\ told' = IF Head(pipe).epoch = epoch
                 THEN [told EXCEPT ![Head(pipe).page] = @ + 1] ELSE told
      /\ TypeOK /\ TypeOK'
  BY DEF Drain, workerVars, monitorVars, NotifyInv, TypeInv, TypeOK
<1>1. ASSUME NEW p \in Pages PROVE EventsOf(p)' = EventsOf(p)
  <2>1. Hands(p)' = Hands(p) /\ Now(p)' = Now(p)
    BY <1>t DEF Hands, InHand, EventOf, Now
  <2>2. Head(pipe) = Now(p) <=> Head(pipe).epoch = epoch /\ Head(pipe).page = p
    BY <1>t DEF Event, Now
  <2>3. told'[p] = told[p] + (IF Head(pipe) = Now(p) THEN 1 ELSE 0)
    BY <1>t, <2>2
  <2>4. /\ told[p] \in Nat /\ IsFiniteSet(Places(pipe, Now(p)))
        /\ Cardinality(Hands(p)) \in Nat /\ Cardinality(Places(pipe, Now(p))) \in Nat
    BY <1>t, CountTypes
  <2>5. Cardinality(Places(pipe, Now(p)))
          = Cardinality(Places(pipe', Now(p))) + (IF Head(pipe) = Now(p) THEN 1 ELSE 0)
    BY <1>t, <2>4, TailPlaces
  <2>6. EventsOf(p)' = told'[p] + Cardinality(Places(pipe', Now(p)')) + Cardinality(Hands(p)')
    BY DEF EventsOf, Places, Now, Hands, InHand
  <2>7. Cardinality(Places(pipe', Now(p))) \in Nat
    <3>1. IsFiniteSet(Places(pipe', Now(p)))
      <4>1. Places(pipe', Now(p)) \in SUBSET (1 .. Len(pipe')) /\ Len(pipe') \in Nat
        BY <1>t DEF Places
      <4>2. IsFiniteSet(1 .. Len(pipe'))
        BY <4>1, FS_Interval
      <4> QED
        BY <4>1, <4>2, FS_Subset
    <3> QED
      BY <3>1, FS_CardinalityType
  <2> QED
    BY <2>1, <2>3, <2>4, <2>5, <2>6, <2>7, EventsSum
<1>2. \A n \in DOMAIN pipe' : pipe'[n].epoch <= epoch
  BY <1>t DEF NotifyInv
<1> QED
  BY <1>t, <1>1, <1>2 DEF NotifyInv, NotifiesOnce

LEMMA NotifyStep == NotifyInv /\ [Next]_vars => NotifyInv'
<1> SUFFICES ASSUME NotifyInv, [Next]_vars PROVE NotifyInv'
  OBVIOUS
<1>0. TypeInv'
  BY TypeStep DEF NotifyInv
<1>1. CASE UNCHANGED vars
  <2>1. UNCHANGED <<watched, completed, step, epoch, told, pipe, pc, frame>>
    BY <1>1 DEF vars, monitorVars, workerVars
  <2>2. \A p \in Pages : Hands(p)' = Hands(p)
    BY <2>1 DEF Hands, InHand, EventOf, Now
  <2> QED
    BY <1>0, <2>1, <2>2, NotifyQuiet DEF NotifyInv
<1> QED
  BY <1>0, <1>1, NotifyWorker, NotifyThread, NotifyDrain DEF Next

\* A page notifies at most once for each enable, however many threads fault on it
\* together and whatever is still in the pipe when the monitor is enabled again.
THEOREM OneNoticePerPage == Spec => []NotifiesOnce
<1>1. NotifyInv => NotifiesOnce
  BY DEF NotifyInv
<1> QED
  BY <1>1, NotifyInit, NotifyStep, PTL DEF Spec

-----------------------------------------------------------------------------
(* FaultEnds *)

\* No enable is at its pages: disable may be.
Calm == step \in {"idle", "restore"}
\* What FaultEnds lets a thread fault for ever for.
Excused(t) == t \in refused \/ frame[t].page \in spoilt
\* The page t faulted on has its own bits, unless t is excused.
Back(t) == prot[frame[t].page] = "own" \/ Excused(t)

\* What others do leaves a thread in the handler where it is, and while the
\* monitor is calm takes no bits from its page.
LEMMA OthersStep ==
  ASSUME OffInv, NEW t \in Threads, [Next]_vars, ~ HandlerStep(t), pc[t] # "run"
  PROVE  /\ pc'[t] = pc[t]
         /\ Calm /\ Back(t) => Back(t)'
<1> USE DEF OffInv, TypeInv, TypeOK
<1>1. pc'[t] = pc[t] /\ frame'[t] = frame[t] /\ (t \in refused => t \in refused')
  <2>1. CASE Worker
    BY <2>1, WorkerFrame DEF Worker, StartDisable, RestorePage, Restored, QueryPage,
                             ProtectPage, ProtectFails, Publish, SwitchOn, losses
  <2>2. CASE Drain
    BY <2>2 DEF Drain, losses
  <2>3. CASE UNCHANGED vars
    BY <2>3 DEF vars, losses
  <2>4. ASSUME NEW s \in Threads, NEW p \in Pages, Fault(s, p)
        PROVE  pc'[t] = pc[t] /\ frame'[t] = frame[t] /\ refused' = refused
    BY <2>4 DEF Fault, Goto, losses
  <2>5. ASSUME NEW s \in Threads, HandlerStep(s)
        PROVE  pc'[t] = pc[t] /\ frame'[t] = frame[t] /\ (t \in refused => t \in refused')
    <3>1. s # t
      BY <2>5
    <3>2. t \in refused => t \in refused'
      BY <2>5, <3>1 DEF HandlerStep, Retry, CheckEnabled, Lookup, Unprotect, Notify, losses
    <3> QED
      BY <2>5, <3>1, <3>2 DEF HandlerStep, Retry, CheckEnabled, Lookup, Unprotect, Notify,
                              Goto, Leave, Chained
  <2> QED
    BY <2>1, <2>2, <2>3, <2>4, <2>5 DEF Next
<1>2. ASSUME Calm, NEW q \in Pages \ spoilt, prot[q] = "own" PROVE prot'[q] = "own"
  <2>0. prev[q] = "own" \/ q \in Guards
    BY <1>2 DEF OwnBits
  <2>1. CASE Worker
    <3>1. prot' = prot \/ \E p \in Pages : prot' = [prot EXCEPT ![p] = prev[p]]
      BY <1>2, <2>1 DEF Calm, Worker, StartDisable, RestorePage, PutBack, Restored, QueryPage,
                        ProtectPage, ProtectFails, Publish, SwitchOn
    <3>2. q \notin Guards
      BY <1>2 DEF GuardShut
    <3> QED
      BY <1>2, <2>0, <3>1, <3>2
  <2>2. CASE Drain
    BY <1>2, <2>2 DEF Drain
  <2>3. CASE UNCHANGED vars
    BY <1>2, <2>3 DEF vars
  <2>4. ASSUME NEW s \in Threads, NEW p \in Pages, Fault(s, p) PROVE prot' = prot
    BY <2>4 DEF Fault
  <2>5. ASSUME NEW s \in Threads, HandlerStep(s) PROVE prot'[q] = "own"
    <3>1. prot' = prot \/ prot' = [prot EXCEPT ![frame[s].page] = frame[s].prev]
      BY <2>5 DEF HandlerStep, Retry, CheckEnabled, Lookup, Unprotect, Notify
    <3> QED
      BY <1>2, <3>1 DEF GivesOwn
  <2> QED
    BY <1>2, <2>1, <2>2, <2>3, <2>4, <2>5 DEF Next
<1>3. frame[t].page \in Pages /\ spoilt \subseteq spoilt'
  BY SpoiltGrows
<1>4. CASE Excused(t)
  BY <1>1, <1>3, <1>4 DEF Back, Excused
<1>5. CASE ~ Excused(t)
  BY <1>1, <1>2, <1>3, <1>5 DEF Back, Excused
<1> QED
  BY <1>1, <1>4, <1>5

\* Where the handler goes.
LEMMA HandlerGoes ==
  ASSUME OffInv, NEW t \in Threads, HandlerStep(t)
  PROVE  /\ pc[t] = "fault" => pc'[t] \in {"lock", "crashed"}
         /\ pc[t] = "lock" => pc'[t] \in {"unprotect", "crashed"}
         /\ pc[t] = "unprotect" => pc'[t] \in {"notify", "retry"} /\ Back(t)'
         /\ pc[t] = "notify" => pc'[t] = "retry" /\ (Back(t) => Back(t)')
         /\ pc[t] = "retry" => pc'[t] \in {"run", "fault"}
         /\ pc[t] = "retry" /\ Back(t) /\ ~ Excused(t) => pc'[t] = "run"
<1> USE DEF OffInv, TypeInv, TypeOK
<1>1. CASE Retry(t)
  BY <1>1 DEF Retry, Goto, Leave, Back, MayTrap
<1>2. CASE CheckEnabled(t)
  BY <1>2 DEF CheckEnabled, Goto, Leave, Chained
<1>3. CASE Lookup(t)
  BY <1>3 DEF Lookup, Goto, Leave, Chained
<1>4. CASE Unprotect(t)
  <2>1. pc'[t] \in {"notify", "retry"} /\ frame'[t].page = frame[t].page
    BY <1>4, FrameTypes DEF Unprotect, Goto, Leave
  <2>2. \/ prot'[frame[t].page] = frame[t].prev
        \/ prot'[frame[t].page] = prot[frame[t].page]
             /\ (prot[frame[t].page] # "own" => t \in refused')
    BY <1>4 DEF Unprotect, MayTrap
  <2>3. frame[t].prev = "own" \/ frame[t].page \in spoilt
    BY DEF GivesOwn
  <2>4. spoilt' = spoilt
    BY <1>4 DEF Unprotect
  <2> QED
    BY <1>4, <2>1, <2>2, <2>3, <2>4 DEF Unprotect, Back, Excused
<1>5. CASE Notify(t)
  <2>1. pc'[t] = "retry" /\ frame'[t].page = frame[t].page /\ prot' = prot
        /\ spoilt' = spoilt /\ refused' = refused
    BY <1>5, FrameTypes DEF Notify, Goto, Leave, losses
  <2> QED
    BY <1>5, <2>1 DEF Notify, Back, Excused
<1> QED
  BY <1>1, <1>2, <1>3, <1>4, <1>5 DEF HandlerStep

\* What ENABLED comes to: the handler of t can run, but while the worker has the lock.
HandlerRuns(t) ==
  /\ [](pc[t] \in {"fault", "unprotect", "notify", "retry"} => ENABLED <<HandlerStep(t)>>_vars)
  /\ [](pc[t] = "lock" /\ step # "restore" => ENABLED <<Lookup(t)>>_vars)

LEMMA OneFaultEnds ==
  ASSUME NEW t \in Threads
  PROVE  /\ Spec /\ HandlerFair(t) /\ HandlerRuns(t)
         /\ <>[]Calm /\ []<>(step # "restore")
         => []<>Ended(t)
<1>1. OffInv => \/ Ended(t) \/ pc[t] = "fault" \/ pc[t] = "lock"
                \/ pc[t] = "unprotect" \/ pc[t] = "notify" \/ pc[t] = "retry"
  BY DEF OffInv, TypeInv, TypeOK, PCs, Ended
<1>2. pc[t] = "fault" \/ pc[t] = "unprotect" \/ pc[t] = "notify" \/ pc[t] = "retry"
      => pc[t] \in {"fault", "unprotect", "notify", "retry"}
  OBVIOUS
<1>3. <<Lookup(t)>>_vars => <<HandlerStep(t)>>_vars
  BY DEF HandlerStep
<1>4. OffInv /\ [Next]_vars /\ ~ <<HandlerStep(t)>>_vars =>
        /\ pc[t] = "fault" => (pc[t] = "fault")'
        /\ pc[t] = "lock" => (pc[t] = "lock")'
        /\ pc[t] = "unprotect" => (pc[t] = "unprotect")'
        /\ pc[t] = "notify" => (pc[t] = "notify")'
        /\ pc[t] = "retry" => (pc[t] = "retry")'
        /\ Calm /\ Back(t) /\ ~ Ended(t) => Back(t)'
  <2> SUFFICES ASSUME OffInv, [Next]_vars, ~ <<HandlerStep(t)>>_vars, pc[t] # "run"
               PROVE  pc'[t] = pc[t] /\ (Calm /\ Back(t) => Back(t)')
    BY DEF Ended
  <2>1. CASE UNCHANGED vars
    BY <2>1 DEF vars, losses, Back, Excused
  <2>2. CASE ~ HandlerStep(t)
    BY <2>2, OthersStep
  <2> QED
    BY <2>1, <2>2
<1>5. OffInv /\ <<HandlerStep(t)>>_vars =>
        /\ pc[t] = "fault" => (pc[t] = "lock")' \/ Ended(t)'
        /\ pc[t] = "lock" => (pc[t] = "unprotect")' \/ Ended(t)'
        /\ pc[t] = "unprotect" => ((pc[t] = "notify")' \/ (pc[t] = "retry")') /\ Back(t)'
        /\ pc[t] = "notify" => (pc[t] = "retry")' /\ (Back(t) => Back(t)')
        /\ pc[t] = "retry" /\ ~ Ended(t) => Ended(t)' \/ (~ Back(t) /\ (pc[t] = "fault")')
  BY HandlerGoes DEF Ended, Excused
<1> QED
  BY <1>1, <1>2, <1>3, <1>4, <1>5, OffAlways, PTL DEF Spec, HandlerFair, HandlerRuns

\* A thread that faults gets through its instruction or to the previous handler, unless
\* mprotect fails in its handler or its page had lost its own protection: mam_sig_handler
\* gives the page its bits and nobody takes them while the monitor is calm. So it does
\* when enable is called no more, and disable gets through its pages each time. Of ENABLED
\* it takes that the handler can run, but for the lock.
THEOREM FaultEndsWhenCalm ==
  /\ FairSpec /\ (\A t \in Threads : HandlerRuns(t))
  /\ <>[]Calm /\ []<>(step # "restore")
  => FaultEnds
<1>1. \A t \in Threads :
        /\ Spec /\ HandlerFair(t) /\ HandlerRuns(t)
        /\ <>[]Calm /\ []<>(step # "restore")
        => []<>Ended(t)
  BY OneFaultEnds
<1>2. FairSpec => Spec /\ \A t \in Threads : HandlerFair(t)
  BY PTL DEF FairSpec, Fairness
<1> QED
  BY <1>1, <1>2 DEF FaultEnds

=============================================================================
