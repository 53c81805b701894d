----------------------------- MODULE JavaProofs ------------------------------
(***************************************************************************)
(* Proofs about the Java side: implementations and originals belong to the *)
(* method called, for any number of methods, slots, threads and            *)
(* installations; and a trace keeps its limit, up to one event for every   *)
(* other thread, for any number of threads, starts and limits.             *)
(***************************************************************************)
EXTENDS ArtHook, ApiTrace, FiniteSetTheorems, TLAPS

-----------------------------------------------------------------------------
(* The trace of the Android API *)

Stages == {"no", "compares", "full", "formats"}

TraceTypeOK ==
  /\ limit \in Nat /\ count \in Nat
  /\ inCallback \in [Tracees -> Stages] /\ seen \in [Tracees -> Nat]

\* The threads that may still count an event without another look at the limit
\* of this trace: they have passed the comparison, or will compare with the
\* limit of the trace before.
Pending == {t \in Tracees : \/ inCallback[t] = "formats"
                            \/ inCallback[t] = "compares" /\ seen[t] # limit}

\* LimitHolds is not inductive: each of the pending threads can add one event.  A
\* thread becomes pending only while the count is below the limit.
LimitInv ==
  /\ TraceTypeOK
  /\ limit > 0 /\ starting # "reset" =>
       count + Cardinality(Pending) <= limit + Cardinality(Tracees) - 1

\* Any set of threads is finite and at most all of them.
LEMMA SomeThreads ==
  ASSUME NEW S \in SUBSET Tracees
  PROVE  /\ IsFiniteSet(S) /\ Cardinality(S) \in Nat /\ Cardinality(Tracees) \in Nat
         /\ Cardinality(S) <= Cardinality(Tracees)
BY TraceAssumption, FS_Subset, FS_CardinalityType

LEMMA LimitInit == ApiTraceInit => LimitInv
BY DEF ApiTraceInit, LimitInv, TraceTypeOK, Stages

\* The invariant gives the limit.
LEMMA LimitEnough == LimitInv => LimitHolds
<1> SUFFICES ASSUME LimitInv, limit > 0, starting # "reset"
             PROVE  count <= limit + Cardinality(Tracees) - 1
  BY DEF LimitHolds
<1>1. Cardinality(Pending) \in Nat /\ Cardinality(Tracees) \in Nat
  BY SomeThreads DEF Pending
<1> QED
  BY <1>1 DEF LimitInv, TraceTypeOK

\* No step leaves the types.
LEMMA TraceTypes == TraceTypeOK /\ [ApiTraceNext]_xvars => TraceTypeOK'
<1> SUFFICES ASSUME TraceTypeOK, [ApiTraceNext]_xvars PROVE TraceTypeOK'
  OBVIOUS
<1> USE DEF TraceTypeOK, Stages
<1>1. ASSUME NEW l \in Limits, Start(l) PROVE TraceTypeOK'
  BY <1>1, TraceAssumption DEF Start
<1>2. CASE ResetCount \/ InstallHooks \/ Enable \/ StopTrace
  BY <1>2 DEF ResetCount, InstallHooks, Enable, StopTrace
<1>3. ASSUME NEW t \in Tracees, EnterStub(t) \/ CompareCount(t) \/ SwitchOff(t) \/ CountEvent(t)
      PROVE  TraceTypeOK'
  BY <1>3 DEF EnterStub, CompareCount, SwitchOff, CountEvent, Goes
<1>4. CASE UNCHANGED xvars
  BY <1>4 DEF xvars
<1> QED
  BY <1>1, <1>2, <1>3, <1>4 DEF ApiTraceNext

\* A step after which no thread is pending that was not, and no event more has
\* been counted.
LEMMA NoNewPending ==
  ASSUME LimitInv, TraceTypeOK', Pending' \subseteq Pending,
         limit' = limit, count' = count, starting # "reset" \/ starting' = "reset"
  PROVE  LimitInv'
<1>1. IsFiniteSet(Pending) /\ Cardinality(Pending) \in Nat
  BY SomeThreads DEF Pending
<1>2. Cardinality(Pending') <= Cardinality(Pending) /\ Cardinality(Pending') \in Nat
  BY <1>1, FS_Subset, FS_CardinalityType
<1>3. Cardinality(Tracees) \in Nat
  BY TraceAssumption, FS_CardinalityType
<1> QED
  BY <1>1, <1>2, <1>3 DEF LimitInv, TraceTypeOK

LEMMA LimitStep == LimitInv /\ [ApiTraceNext]_xvars => LimitInv'
<1> SUFFICES ASSUME LimitInv, [ApiTraceNext]_xvars PROVE LimitInv'
  OBVIOUS
<1>0. TraceTypeOK /\ TraceTypeOK'
  BY TraceTypes DEF LimitInv
<1>n. /\ IsFiniteSet(Pending) /\ Cardinality(Pending) \in Nat
      /\ Cardinality(Pending') \in Nat /\ Cardinality(Tracees) \in Nat
      /\ Cardinality(Pending') <= Cardinality(Tracees)
  <2>1. Pending \in SUBSET Tracees /\ Pending' \in SUBSET Tracees
    BY DEF Pending
  <2> QED
    BY <2>1, SomeThreads
<1>1. ASSUME NEW l \in Limits, Start(l) PROVE LimitInv'
  BY <1>0, <1>1 DEF Start, LimitInv
<1>2. CASE ResetCount
  \* At worst every thread is pending.
  BY <1>0, <1>n, <1>2 DEF ResetCount, LimitInv, TraceTypeOK
<1>3. CASE InstallHooks \/ Enable \/ StopTrace
  <2>1. /\ Pending' = Pending /\ limit' = limit /\ count' = count
        /\ starting # "reset"
    BY <1>3 DEF InstallHooks, Enable, StopTrace, Pending
  <2> QED
    BY <2>1, <1>0, NoNewPending
<1>4. ASSUME NEW t \in Tracees, EnterStub(t) PROVE LimitInv'
  <2>1. Pending' \subseteq Pending
    BY <1>0, <1>4 DEF EnterStub, Goes, Pending, TraceTypeOK
  <2> QED
    BY <2>1, <1>0, <1>4, NoNewPending DEF EnterStub, LimitInv
<1>5. ASSUME NEW t \in Tracees, CompareCount(t) PROVE LimitInv'
  <2>1. /\ limit' = limit /\ count' = count /\ starting' = starting /\ seen' = seen
        /\ inCallback' = [inCallback EXCEPT ![t] = IF AtLimit(t) THEN "full" ELSE "formats"]
    BY <1>5 DEF CompareCount, Goes
  <2>2. CASE t \in Pending
    <3>1. Pending' \subseteq Pending
      BY <2>1, <2>2, <1>0 DEF Pending, TraceTypeOK
    <3> QED
      BY <3>1, <2>1, <1>0, NoNewPending DEF LimitInv
  <2>3. CASE t \notin Pending /\ AtLimit(t)
    <3>1. Pending' \subseteq Pending
      BY <2>1, <2>3, <1>0 DEF Pending, TraceTypeOK
    <3> QED
      BY <3>1, <2>1, <1>0, NoNewPending DEF LimitInv
  <2>4. CASE t \notin Pending /\ ~ AtLimit(t)
    \* The thread compared with the limit that is in force: there is room.
    <3>1. seen[t] = limit
      BY <1>5, <2>4 DEF Pending, CompareCount
    <3>2. limit > 0 => count < limit
      BY <3>1, <2>4, <1>0 DEF AtLimit, TraceTypeOK
    <3> QED
      BY <3>2, <2>1, <1>0, <1>n DEF LimitInv, TraceTypeOK
  <2> QED
    BY <2>2, <2>3, <2>4
<1>6. ASSUME NEW t \in Tracees, SwitchOff(t) PROVE LimitInv'
  <2>1. Pending' \subseteq Pending
    BY <1>0, <1>6 DEF SwitchOff, Goes, Pending, TraceTypeOK
  <2> QED
    BY <2>1, <1>0, <1>6, NoNewPending DEF SwitchOff, LimitInv
<1>7. ASSUME NEW t \in Tracees, CountEvent(t) PROVE LimitInv'
  <2>1. t \in Pending
    BY <1>7 DEF CountEvent, Pending
  <2>2. Pending' = Pending \ {t}
    BY <1>0, <1>7 DEF CountEvent, Goes, Pending, TraceTypeOK
  <2>3. Cardinality(Pending') = Cardinality(Pending) - 1
    BY <2>1, <2>2, <1>n, FS_RemoveElement
  <2>4. limit' = limit /\ starting' = starting /\ count' \in {count, count + 1}
    BY <1>7 DEF CountEvent
  <2> QED
    BY <2>3, <2>4, <1>0, <1>n DEF LimitInv, TraceTypeOK
<1>8. CASE UNCHANGED xvars
  <2>1. Pending' = Pending
    BY <1>8 DEF xvars, Pending
  <2> QED
    BY <2>1, <1>8 DEF xvars, LimitInv, TraceTypeOK
<1> QED
  BY <1>1, <1>2, <1>3, <1>4, <1>5, <1>6, <1>7, <1>8 DEF ApiTraceNext

\* However often the trace is started over itself and wherever its threads are
\* then, the events it counts exceed its limit by less than their number.
THEOREM LimitKept == ApiTraceSpec => []LimitHolds
BY LimitInit, LimitStep, LimitEnough, PTL DEF ApiTraceSpec

-----------------------------------------------------------------------------
(* Method hooks *)

USE ArtAssumption DEF Slots, Own, Missing, Callers

Places == 0 .. Missing
HookType == [method : Methods \cup {"none"}, backup : Places]
JobType == [by : Callers, called : Methods \cup {"none"}, hook : Methods \cup {"none"}]

ArtTypeOK ==
  /\ art \in [Methods -> 0 .. Own]
  /\ slots \in [Slots -> HookType] /\ live \in [Methods -> HookType]
  /\ installing \in HookType
  /\ queue \in Seq(JobType) /\ running \in JobType
  /\ rewrites \in [Methods -> Nat] /\ broken \subseteq Methods

\* A hook in SLOTS or LIVE is that of a method, a free slot holds nothing.
Named ==
  /\ \A s \in Slots : slots[s] = NoHook \/ slots[s].method \in Methods
  /\ installing = NoHook \/ installing.method \in Methods

\* The slot of a method being installed is still free; that of every other
\* rewritten method, unless its installation failed, is its own.
SlotsInv ==
  /\ installing # NoHook =>
       art[installing.method] \in Slots /\ slots[art[installing.method]] = NoHook
  /\ \A m \in Methods \ broken :
       art[m] # Own /\ installing.method # m => slots[art[m]].method = m

\* So a job is handed over with the hook of the method called.
RightHook(j) == j.called \notin broken => j.hook = j.called
JobsInv ==
  /\ \A i \in 1 .. Len(queue) : RightHook(queue[i])
  /\ running # NoJob => RightHook(running)

HookInv == ArtTypeOK /\ Named /\ SlotsInv /\ JobsInv

LEMMA HookInit == ArtInit => HookInv
<1> SUFFICES ASSUME ArtInit PROVE HookInv
  OBVIOUS
<1> USE DEF ArtInit, NoHook, Hook
<1>1. ArtTypeOK
  BY DEF ArtTypeOK, HookType, JobType, Places, NoJob, Job
<1>2. Named /\ SlotsInv
  BY DEF Named, SlotsInv
<1>3. JobsInv
  BY DEF JobsInv
<1> QED
  BY <1>1, <1>2, <1>3 DEF HookInv

LEMMA HookEnough == HookInv => OwnHook
BY DEF HookInv, JobsInv, RightHook, OwnHook

\* Rewriting m, with what Assign and Rewrite leave alone.
LEMMA RewriteStep ==
  ASSUME HookInv, NEW m \in Methods, installing = NoHook, Rewrite(m),
         UNCHANGED <<slots, live, queue, running, broken>>
  PROVE  HookInv'
<1>1. PICK s \in Slots : /\ FirstFree(s) /\ art' = [art EXCEPT ![m] = s]
                         /\ installing' \in {Hook(m, Saved(m, s)), Hook(m, Missing)}
  BY DEF Rewrite
<1>2. /\ slots[s] = NoHook /\ installing' \in HookType /\ installing'.method = m
      /\ installing' # NoHook
  BY <1>1 DEF FirstFree, FreeSlots, Hook, Saved, HookType, Places, HookInv, ArtTypeOK, NoHook
<1>3. ArtTypeOK'
  BY <1>1, <1>2 DEF HookInv, ArtTypeOK, Rewrite
<1>4. Named'
  BY <1>2 DEF HookInv, Named
<1>5. SlotsInv'
  <2>1. art'[m] = s /\ slots' = slots
    BY <1>1 DEF HookInv, ArtTypeOK
  <2>2. ASSUME NEW n \in Methods \ broken, art'[n] # Own, n # m
        PROVE  slots[art'[n]].method = n
    BY <1>1, <2>2 DEF HookInv, ArtTypeOK, SlotsInv, NoHook, Hook
  <2> QED
    BY <1>2, <2>1, <2>2 DEF SlotsInv
<1>6. JobsInv'
  BY DEF HookInv, JobsInv, RightHook
<1> QED
  BY <1>3, <1>4, <1>5, <1>6 DEF HookInv

LEMMA PublishStep == HookInv /\ Publish => HookInv'
<1> SUFFICES ASSUME HookInv, Publish PROVE HookInv'
  OBVIOUS
<1> DEFINE m == installing.method
<1>0. /\ installing # NoHook /\ installing' = NoHook /\ m \in Methods
      /\ art' = art /\ queue' = queue /\ running' = running /\ rewrites' = rewrites
      /\ art[m] \in Slots /\ slots[art[m]] = NoHook
  BY DEF Publish, calls, HookInv, Named, SlotsInv
<1>n. NoHook.method = "none" /\ NoHook \in HookType
  BY DEF NoHook, Hook, HookType, Places
<1>1. CASE /\ slots' = [slots EXCEPT ![art[m]] = installing]
           /\ live' = [live EXCEPT ![m] = installing]
           /\ broken' = broken
  <2>1. ArtTypeOK'
    BY <1>0, <1>n, <1>1 DEF HookInv, ArtTypeOK
  <2>2. Named'
    BY <1>0, <1>1 DEF HookInv, Named, ArtTypeOK
  <2>3. SlotsInv'
    <3>1. ASSUME NEW n \in Methods \ broken, art[n] # Own
          PROVE  slots'[art[n]].method = n
      <4>1. CASE n = m
        BY <4>1, <1>0, <1>1 DEF HookInv, ArtTypeOK
      <4>2. CASE n # m
        <5>1. slots[art[n]].method = n
          BY <3>1, <4>2 DEF HookInv, SlotsInv
        <5>2. art[n] # art[m] /\ art[n] \in Slots
          BY <5>1, <3>1, <1>0, <1>n DEF HookInv, ArtTypeOK
        <5> QED
          BY <5>1, <5>2, <1>0, <1>1 DEF HookInv, ArtTypeOK
      <4> QED
        BY <4>1, <4>2
    <3> QED
      BY <3>1, <1>0, <1>1 DEF SlotsInv
  <2>4. JobsInv'
    BY <1>0, <1>1 DEF HookInv, JobsInv, RightHook
  <2> QED
    BY <2>1, <2>2, <2>3, <2>4 DEF HookInv
<1>2. CASE broken' = broken \cup {m} /\ UNCHANGED <<slots, live>>
  <2>1. ArtTypeOK'
    BY <1>0, <1>n, <1>2 DEF HookInv, ArtTypeOK
  <2>2. Named' /\ SlotsInv'
    BY <1>0, <1>n, <1>2 DEF HookInv, Named, SlotsInv
  <2>3. JobsInv'
    BY <1>0, <1>2 DEF HookInv, JobsInv, RightHook
  <2> QED
    BY <2>1, <2>2, <2>3 DEF HookInv
<1> QED
  BY <1>1, <1>2 DEF Publish

\* The call of m finds the hook of m, or nothing while m is being installed.
LEMMA CallStep ==
  ASSUME HookInv, NEW m \in Methods, NEW t \in Callers, Call(t, m)
  PROVE  HookInv'
<1> DEFINE j == Job(t, m, Found(m).method)
<1>1. /\ queue' = Append(queue, j) /\ Found(m) # NoHook
      /\ UNCHANGED <<tables, running, rewrites, broken>>
  BY DEF Call, history
<1>2. /\ art[m] \in Slots /\ Found(m) = slots[art[m]] /\ Found(m) \in HookType
  BY <1>1 DEF Found, HookInv, ArtTypeOK
<1>3. RightHook(j)
  <2>1. installing.method # m
    BY <1>1, <1>2 DEF HookInv, SlotsInv, NoHook, Hook
  <2>2. m \notin broken => slots[art[m]].method = m
    BY <2>1, <1>2 DEF HookInv, SlotsInv
  <2> QED
    BY <2>2, <1>2 DEF RightHook, Job
<1>4. j \in JobType
  BY <1>2 DEF Job, JobType, HookType
<1>5. ArtTypeOK'
  BY <1>1, <1>4 DEF HookInv, ArtTypeOK, tables
<1>6. Named' /\ SlotsInv'
  BY <1>1 DEF HookInv, Named, SlotsInv, tables
<1>7. JobsInv'
  <2>1. \A i \in 1 .. Len(queue') : RightHook(queue'[i])
    BY <1>1, <1>3, <1>4 DEF HookInv, ArtTypeOK, JobsInv
  <2> QED
    BY <2>1, <1>1 DEF HookInv, JobsInv, RightHook
<1> QED
  BY <1>5, <1>6, <1>7 DEF HookInv

LEMMA TakeJobStep == HookInv /\ TakeJob => HookInv'
<1> SUFFICES ASSUME HookInv, TakeJob PROVE HookInv'
  OBVIOUS
<1>1. /\ queue # << >> /\ running' = Head(queue) /\ queue' = Tail(queue)
      /\ UNCHANGED <<tables, rewrites, broken>>
  BY DEF TakeJob, history
<1>2. /\ running' = queue[1] /\ queue' \in Seq(JobType) /\ running' \in JobType
      /\ Len(queue') = Len(queue) - 1 /\ Len(queue) \in Nat \ {0}
      /\ \A i \in 1 .. Len(queue') : queue'[i] = queue[i + 1]
  BY <1>1 DEF HookInv, ArtTypeOK
<1>3. ArtTypeOK' /\ Named' /\ SlotsInv'
  BY <1>1, <1>2 DEF HookInv, ArtTypeOK, Named, SlotsInv, tables
<1>4. JobsInv'
  <2>1. \A i \in 1 .. Len(queue') : RightHook(queue'[i])
    BY <1>2 DEF HookInv, JobsInv
  <2>2. RightHook(running')
    BY <1>2 DEF HookInv, JobsInv
  <2> QED
    BY <2>1, <2>2, <1>1 DEF JobsInv, RightHook
<1> QED
  BY <1>3, <1>4 DEF HookInv

\* What the other steps leave alone.
LEMMA OtherStep ==
  ASSUME HookInv, UNCHANGED <<art, slots, live, installing, queue, rewrites, broken>>,
         running' = running \/ running' = NoJob
  PROVE  HookInv'
<1>1. NoJob \in JobType
  BY DEF NoJob, Job, JobType
<1> QED
  BY <1>1 DEF HookInv, ArtTypeOK, Named, SlotsInv, JobsInv, RightHook

LEMMA HookStep == HookInv /\ [ArtNext]_avars => HookInv'
<1> SUFFICES ASSUME HookInv, [ArtNext]_avars PROVE HookInv'
  OBVIOUS
<1>1. ASSUME NEW m \in Methods, NEW fn \in BOOLEAN, Assign(m, fn) PROVE HookInv'
  <2>1. CASE Rewrite(m)
    BY <1>1, <2>1, RewriteStep DEF Assign, InScript, calls
  <2>2. CASE NotFound
    BY <1>1, <2>2, OtherStep DEF Assign, NotFound, calls
  <2> QED
    BY <1>1, <2>1, <2>2 DEF Assign
<1>2. ASSUME NEW m \in Methods, NestedCall(m) PROVE HookInv'
  BY <1>2, OtherStep DEF NestedCall, InvokeBackup, tables
<1>3. ASSUME NEW m \in Methods, NEW t \in Callers, Call(t, m) PROVE HookInv'
  BY <1>3, CallStep
<1>4. ASSUME NEW t \in Callers, CallEnds(t) PROVE HookInv'
  BY <1>4, OtherStep DEF CallEnds, tables, history
<1>5. CASE Publish
  BY <1>5, PublishStep
<1>6. CASE TakeJob
  BY <1>6, TakeJobStep
<1>7. CASE CallbackEnds \/ OriginalReturns
  BY <1>7, OtherStep DEF CallbackEnds, OriginalReturns, tables, history
<1>8. CASE CallOriginal
  BY <1>8, OtherStep DEF CallOriginal, InvokeBackup, tables
<1>9. CASE UNCHANGED avars
  BY <1>9, OtherStep DEF avars, tables, calls, history
<1> QED
  BY <1>1, <1>2, <1>3, <1>4, <1>5, <1>6, <1>7, <1>8, <1>9 DEF ArtNext

\* The callback that runs for a call is that of the method called, unless an
\* installation of it failed half-way, however many methods share the slots.
THEOREM OwnHookAlways == ArtSpec => []OwnHook
BY HookInit, HookStep, HookEnough, PTL DEF ArtSpec

-----------------------------------------------------------------------------
(* Originals *)

OriginalTypeOK == impls \subseteq Methods /\ asked \in Methods \cup {"none"}

\* A method that was never rewritten is nowhere in the tables.
Untouched(m) ==
  /\ art[m] = Own /\ live[m] = NoHook /\ installing.method # m
  /\ m \notin broken /\ asked # m
  /\ \A s \in Slots : slots[s].method # m

\* One that was rewritten once has a clone of its own code, or none, and that
\* clone in LIVE and in its slot once it is published.
Once(m) ==
  /\ installing.method = m =>
       /\ installing.backup \in {Own, Missing} /\ live[m] = NoHook
       /\ \A s \in Slots : slots[s].method # m
  /\ live[m] # NoHook => live[m].method = m /\ live[m].backup \in {Own, Missing}
  /\ \A s \in Slots : slots[s].method = m => slots[s] = live[m]
  /\ asked = m /\ m \notin broken =>
       live[m] # NoHook /\ (live[m].backup # Missing => ran = m)

OriginalInv ==
  /\ HookInv /\ OriginalTypeOK
  /\ \A m \in Methods : (rewrites[m] = 0 => Untouched(m)) /\ (rewrites[m] = 1 => Once(m))

LEMMA OriginalInit == ArtInit => OriginalInv
<1> SUFFICES ASSUME ArtInit PROVE OriginalInv
  OBVIOUS
<1>1. HookInv
  BY HookInit
<1>2. OriginalTypeOK
  BY DEF ArtInit, OriginalTypeOK
<1>3. \A m \in Methods : Untouched(m) /\ rewrites[m] = 0
  BY DEF ArtInit, Untouched, NoHook, Hook
<1> QED
  BY <1>1, <1>2, <1>3 DEF OriginalInv

LEMMA OriginalEnough == OriginalInv => OriginalRuns
BY DEF OriginalInv, OriginalTypeOK, Once, OriginalRuns

LEMMA OriginalRewrite ==
  ASSUME OriginalInv, HookInv', NEW m \in Methods, installing = NoHook, Rewrite(m),
         impls' \subseteq Methods,
         UNCHANGED <<slots, live, broken, asked, ran>>
  PROVE  OriginalInv'
<1>1. PICK s \in Slots : /\ art' = [art EXCEPT ![m] = s]
                         /\ installing' \in {Hook(m, Saved(m, s)), Hook(m, Missing)}
  BY DEF Rewrite
<1>2. /\ installing'.method = m /\ installing'.backup \in {art[m], Missing}
      /\ rewrites' = [rewrites EXCEPT ![m] = @ + 1]
      /\ rewrites \in [Methods -> Nat] /\ art \in [Methods -> 0 .. Own]
      /\ installing.method = "none"
  BY <1>1 DEF Hook, Saved, Rewrite, OriginalInv, HookInv, ArtTypeOK, NoHook
<1>3. ASSUME NEW n \in Methods, n # m, rewrites'[n] = 0 PROVE Untouched(n)'
  <2>1. rewrites[n] = 0 /\ art'[n] = art[n]
    BY <1>1, <1>2, <1>3
  <2> QED
    BY <2>1, <1>2, <1>3 DEF OriginalInv, Untouched
<1>4. ASSUME NEW n \in Methods, n # m, rewrites'[n] = 1 PROVE Once(n)'
  BY <1>2, <1>4 DEF OriginalInv, Once
<1>5. rewrites'[m] # 0
  BY <1>2
<1>6. ASSUME rewrites'[m] = 1 PROVE Once(m)'
  <2>1. Untouched(m)
    BY <1>2, <1>6 DEF OriginalInv
  <2> QED
    BY <2>1, <1>2 DEF Untouched, Once
<1> QED
  BY <1>3, <1>4, <1>5, <1>6 DEF OriginalInv, OriginalTypeOK

LEMMA OriginalPublish == OriginalInv /\ HookInv' /\ Publish => OriginalInv'
<1> SUFFICES ASSUME OriginalInv, HookInv', Publish PROVE OriginalInv'
  OBVIOUS
<1> PICK m \in Methods : m = installing.method
  BY DEF Publish, OriginalInv, HookInv, Named
<1>0. /\ installing # NoHook /\ installing' = NoHook /\ NoHook.method = "none"
      /\ m = installing.method /\ m # "none" /\ art[m] \in Slots
      /\ UNCHANGED <<art, impls, rewrites, asked, ran>>
      /\ slots \in [Slots -> HookType] /\ live \in [Methods -> HookType]
  BY ArtAssumption DEF Publish, OriginalInv, HookInv, Named, SlotsInv, ArtTypeOK, NoHook, Hook
<1>1. rewrites[m] # 0
  BY <1>0 DEF OriginalInv, Untouched
<1>2. CASE /\ slots' = [slots EXCEPT ![art[m]] = installing]
           /\ live' = [live EXCEPT ![m] = installing]
           /\ broken' = broken
  <2>1. ASSUME NEW n \in Methods, rewrites[n] = 0 PROVE Untouched(n)'
    BY <2>1, <1>0, <1>1, <1>2 DEF OriginalInv, Untouched
  <2>2. ASSUME NEW n \in Methods, rewrites[n] = 1, n # m PROVE Once(n)'
    <3>1. live'[n] = live[n] /\ Once(n)
      BY <2>2, <1>0, <1>2 DEF OriginalInv
    <3>2. \A s \in Slots : slots'[s].method = n => slots'[s] = slots[s]
      BY <2>2, <1>0, <1>2
    <3> QED
      BY <3>1, <3>2, <1>0, <1>2 DEF Once
  <2>3. ASSUME rewrites[m] = 1 PROVE Once(m)'
    <3>1. Once(m)
      BY <2>3, <1>0 DEF OriginalInv
    <3>2. live'[m] = installing /\ \A s \in Slots : slots'[s].method = m => slots'[s] = installing
      BY <3>1, <1>0, <1>2 DEF Once
    <3>3. asked # m \/ m \in broken
      BY <3>1 DEF Once
    <3> QED
      BY <3>1, <3>2, <3>3, <1>0, <1>2 DEF Once
  <2> QED
    BY <2>1, <2>2, <2>3, <1>0 DEF OriginalInv, OriginalTypeOK
<1>3. CASE broken' = broken \cup {m} /\ UNCHANGED <<slots, live>>
  <2>1. ASSUME NEW n \in Methods, rewrites[n] = 0 PROVE Untouched(n)'
    BY <2>1, <1>0, <1>1, <1>3 DEF OriginalInv, Untouched
  <2>2. ASSUME NEW n \in Methods, rewrites[n] = 1 PROVE Once(n)'
    BY <2>2, <1>0, <1>3 DEF OriginalInv, Once
  <2> QED
    BY <2>1, <2>2, <1>0 DEF OriginalInv, OriginalTypeOK
<1> QED
  BY <1>2, <1>3 DEF Publish

\* Asking for the original of m through a hook that is m's, unless m is broken.
LEMMA OriginalAsked ==
  ASSUME OriginalInv, HookInv', NEW m, NEW hook, hook # NoHook,
         m \in Methods, rewrites[m] # 0,
         m \notin broken /\ rewrites[m] = 1 => hook = live[m],
         asked' = m, ran' = BodyRun(hook),
         UNCHANGED <<art, slots, live, impls, installing, rewrites, broken>>
  PROVE  OriginalInv'
<1>1. ASSUME NEW n \in Methods, rewrites[n] = 0 PROVE Untouched(n)'
  BY <1>1 DEF OriginalInv, Untouched
<1>2. ASSUME NEW n \in Methods, rewrites[n] = 1 PROVE Once(n)'
  <2>1. Once(n)
    BY <1>2 DEF OriginalInv
  <2>2. n = m /\ m \notin broken => live[m] # NoHook /\ (live[m].backup # Missing => ran' = m)
    BY <1>2, <2>1 DEF Once, BodyRun
  <2> QED
    BY <2>1, <2>2 DEF Once
<1> QED
  BY <1>1, <1>2 DEF OriginalInv, OriginalTypeOK

LEMMA OriginalCall == OriginalInv /\ HookInv' /\ CallOriginal => OriginalInv'
<1> SUFFICES ASSUME OriginalInv, HookInv', CallOriginal PROVE OriginalInv'
  OBVIOUS
<1> DEFINE m == running.called
           hook == live[running.hook]
<1>1. /\ running # NoJob /\ running.hook \in Methods /\ hook # NoHook
      /\ asked' = m /\ ran' = BodyRun(hook)
      /\ UNCHANGED <<art, slots, live, impls, installing, rewrites, broken>>
  BY DEF CallOriginal, InvokeBackup, tables, OriginalInv, OriginalTypeOK
<1>2. m \notin broken => running.hook = m
  BY <1>1 DEF OriginalInv, HookInv, JobsInv, RightHook
<1>3. m \in Methods /\ rewrites[m] # 0
  BY <1>1, <1>2 DEF OriginalInv, Untouched, HookInv, ArtTypeOK
<1> QED
  BY <1>1, <1>2, <1>3, OriginalAsked

LEMMA OriginalNested ==
  ASSUME OriginalInv, HookInv', NEW m \in Methods, NestedCall(m)
  PROVE  OriginalInv'
<1>1. /\ installing = NoHook /\ Found(m) # NoHook
      /\ asked' = m /\ ran' = BodyRun(Found(m))
      /\ UNCHANGED <<art, slots, live, impls, installing, rewrites, broken>>
  BY DEF NestedCall, InScript, InvokeBackup, tables
<1>2. art[m] \in Slots /\ Found(m) = slots[art[m]] /\ installing.method # m
  BY <1>1 DEF Found, OriginalInv, HookInv, ArtTypeOK, NoHook, Hook
<1>3. rewrites[m] # 0
  BY <1>2 DEF OriginalInv, Untouched
<1>4. m \notin broken /\ rewrites[m] = 1 => Found(m) = live[m]
  BY <1>2 DEF OriginalInv, HookInv, SlotsInv, Once
<1> QED
  BY <1>1, <1>3, <1>4, OriginalAsked

LEMMA OriginalOther ==
  ASSUME OriginalInv, HookInv', impls' \subseteq Methods,
         UNCHANGED <<art, slots, live, installing, rewrites, broken, asked, ran>>
  PROVE  OriginalInv'
BY DEF OriginalInv, OriginalTypeOK, Untouched, Once

LEMMA OriginalStep == OriginalInv /\ [ArtNext]_avars => OriginalInv'
<1> SUFFICES ASSUME OriginalInv, [ArtNext]_avars PROVE OriginalInv'
  OBVIOUS
<1>0. HookInv' /\ impls \subseteq Methods
  BY HookStep DEF OriginalInv, OriginalTypeOK
<1>1. ASSUME NEW m \in Methods, NEW fn \in BOOLEAN, Assign(m, fn) PROVE OriginalInv'
  <2>1. impls' \subseteq Methods
    BY <1>0, <1>1 DEF Assign
  <2>2. CASE Rewrite(m)
    BY <1>0, <1>1, <2>1, <2>2, OriginalRewrite DEF Assign, InScript, calls
  <2>3. CASE NotFound
    BY <1>0, <1>1, <2>1, <2>3, OriginalOther DEF Assign, NotFound, calls
  <2> QED
    BY <1>1, <2>2, <2>3 DEF Assign
<1>2. ASSUME NEW m \in Methods, NestedCall(m) PROVE OriginalInv'
  BY <1>0, <1>2, OriginalNested
<1>3. ASSUME NEW m \in Methods, NEW t \in Callers, Call(t, m) PROVE OriginalInv'
  BY <1>0, <1>3, OriginalOther DEF Call, tables, history
<1>4. ASSUME NEW t \in Callers, CallEnds(t) PROVE OriginalInv'
  BY <1>0, <1>4, OriginalOther DEF CallEnds, tables, history
<1>5. CASE Publish
  BY <1>0, <1>5, OriginalPublish
<1>6. CASE TakeJob \/ CallbackEnds \/ OriginalReturns
  BY <1>0, <1>6, OriginalOther DEF TakeJob, CallbackEnds, OriginalReturns, tables, history
<1>7. CASE CallOriginal
  BY <1>0, <1>7, OriginalCall
<1>8. CASE UNCHANGED avars
  BY <1>0, <1>8, OriginalOther DEF avars, tables, calls, history
<1> QED
  BY <1>1, <1>2, <1>3, <1>4, <1>5, <1>6, <1>7, <1>8 DEF ArtNext

\* Whoever asks for the original of a method given an implementation once has its
\* body run, however the installations, calls and callbacks interleave.
THEOREM OriginalRunsAlways == ArtSpec => []OriginalRuns
BY OriginalInit, OriginalStep, OriginalEnough, PTL DEF ArtSpec
=============================================================================
