---------------------------- MODULE ScriptProofs ----------------------------
(***************************************************************************)
(* Proofs about what runs scripts.  The timers, for any number of them: a  *)
(* cleared callback never runs again, a timeout's runs once at most, and   *)
(* none is lost.  The JS worker, for any set of callers and number of      *)
(* jobs: jobs run in the order they were posted, and hook context is set   *)
(* exactly while it belongs there.  The cloak, for any address space and   *)
(* any number of hidden ranges: what is reported is what is not hidden.    *)
(***************************************************************************)
EXTENDS JsWorker, Timers, Cloak, SequenceTheorems, TLAPS

-----------------------------------------------------------------------------
(* The timers *)

Threads == {"none", "sleeps", "posts", "posted", "leaves", "ended"}

Pending(i) == \E k \in DOMAIN jobs : jobs[k] = i

Types ==
  /\ thread \in [Timers -> Threads]
  /\ repeating \subseteq Timers /\ entries \subseteq Timers
  /\ cancelled \subseteq Timers /\ callbacks \subseteq Timers
  /\ jobs \in Seq(Timers) /\ fired \in [Timers -> Nat]
  /\ DOMAIN firedBefore \subseteq Timers

\* A timer not yet set has left no trace.
Fresh(i) ==
  thread[i] = "none" =>
    /\ i \notin repeating \cup entries \cup cancelled \cup callbacks
    /\ i \notin DOMAIN firedBefore /\ ~Pending(i) /\ fired[i] = 0

\* What clear did stays done: neither callback nor entry comes back.
StaysCleared(i) ==
  /\ i \in cancelled => i \notin entries /\ i \in DOMAIN firedBefore
  /\ i \in DOMAIN firedBefore => i \notin callbacks /\ fired[i] = firedBefore[i]

Counted(i) == i \notin repeating => fired[i] + (IF i \in callbacks THEN 1 ELSE 0) <= 1

Tidy(i) ==
  /\ thread[i] = "ended" => i \notin entries
  /\ i \in callbacks /\ thread[i] \in {"posted", "leaves", "ended"} =>
       i \in repeating \/ Pending(i)

TimersInv == Types /\ \A i \in Timers : Fresh(i) /\ StaysCleared(i) /\ Counted(i) /\ Tidy(i)

-----------------------------------------------------------------------------

LEMMA InitTimers == TimersInit => TimersInv
BY DEF TimersInit, TimersInv, Types, Threads, Fresh, StaysCleared, Counted, Tidy, Pending

LEMMA StutterTimers == TimersInv /\ UNCHANGED tvars => TimersInv'
BY DEF tvars, TimersInv, Types, Fresh, StaysCleared, Counted, Tidy, Pending

LEMMA SetTimers ==
  ASSUME TimersInv, NEW i \in Timers, NEW again \in BOOLEAN, Set(i, again)
  PROVE  TimersInv'
<1>1. Types'
  BY DEF Set, Goes, TimersInv, Types, Threads
<1>2. ASSUME NEW j \in Timers PROVE Fresh(j)' /\ StaysCleared(j)' /\ Counted(j)' /\ Tidy(j)'
  <2>1. CASE j = i
    BY <2>1 DEF Set, Goes, TimersInv, Types, Fresh, StaysCleared, Counted, Tidy, Pending
  <2>2. CASE j # i
    BY <2>2 DEF Set, Goes, TimersInv, Types, Fresh, StaysCleared, Counted, Tidy, Pending
  <2> QED
    BY <2>1, <2>2
<1> QED
  BY <1>1, <1>2 DEF TimersInv

LEMMA ClearTimers ==
  ASSUME TimersInv, NEW i \in Timers, Clear(i)
  PROVE  TimersInv'
<1>1. /\ DOMAIN firedBefore' = DOMAIN firedBefore \cup {i}
      /\ \A j \in DOMAIN firedBefore : firedBefore'[j] = firedBefore[j]
      /\ firedBefore'[i] = fired[i]
  BY DEF Clear, Recorded
<1>2. Types'
  BY <1>1 DEF Clear, Cancel, TimersInv, Types
<1>3. ASSUME NEW j \in Timers PROVE Fresh(j)' /\ StaysCleared(j)' /\ Counted(j)' /\ Tidy(j)'
  BY <1>1 DEF Clear, Cancel, TimersInv, Types, Fresh, StaysCleared, Counted, Tidy, Pending
<1> QED
  BY <1>2, <1>3 DEF TimersInv

LEMMA FireTimers ==
  ASSUME TimersInv, FireTimer
  PROVE  TimersInv'
<1> PICK i \in Timers : i = Head(jobs)
  BY DEF FireTimer, TimersInv, Types
<1>1. /\ i \in Timers /\ Pending(i) /\ jobs' = Tail(jobs) /\ jobs' \in Seq(Timers)
  BY DEF FireTimer, TimersInv, Types, Pending
<1>2. /\ Len(jobs') = Len(jobs) - 1 /\ Len(jobs) \in Nat
      /\ \A k \in 1 .. Len(jobs') : jobs'[k] = jobs[k + 1]
  BY DEF FireTimer, TimersInv, Types
<1>3. ASSUME NEW j \in Timers \ {i} PROVE Pending(j)' <=> Pending(j)
  <2>1. ASSUME NEW k \in DOMAIN jobs, jobs[k] = j PROVE Pending(j)'
    <3>1. k - 1 \in DOMAIN jobs' /\ jobs'[k - 1] = j
      BY <1>1, <1>2, <2>1 DEF TimersInv, Types
    <3> QED
      BY <3>1 DEF Pending
  <2>2. ASSUME NEW k \in DOMAIN jobs', jobs'[k] = j PROVE Pending(j)
    <3>1. k + 1 \in DOMAIN jobs /\ jobs[k + 1] = j
      BY <1>1, <1>2, <2>2 DEF TimersInv, Types
    <3> QED
      BY <3>1 DEF Pending
  <2> QED
    BY <2>1, <2>2 DEF Pending
<1>4. /\ fired' = IF i \in callbacks THEN [fired EXCEPT ![i] = @ + 1] ELSE fired
      /\ callbacks' = IF i \in repeating THEN callbacks ELSE callbacks \ {i}
      /\ UNCHANGED <<thread, repeating, entries, cancelled, firedBefore>>
  BY DEF FireTimer
<1>5. Types'
  BY <1>1, <1>4 DEF TimersInv, Types
<1>6. ASSUME NEW j \in Timers \ {i} PROVE Fresh(j)' /\ StaysCleared(j)' /\ Counted(j)' /\ Tidy(j)'
  BY <1>1, <1>3, <1>4 DEF TimersInv, Types, Fresh, StaysCleared, Counted, Tidy
<1>7. Fresh(i)' /\ StaysCleared(i)' /\ Counted(i)' /\ Tidy(i)'
  BY <1>1, <1>4 DEF TimersInv, Types, Fresh, StaysCleared, Counted, Tidy
<1> QED
  BY <1>5, <1>6, <1>7 DEF TimersInv

LEMMA ThreadTimers ==
  ASSUME TimersInv, NEW i \in Timers, Wake(i) \/ Again(i) \/ Leave(i)
  PROVE  TimersInv'
<1>1. Types'
  BY DEF Wake, Again, Leave, Goes, TimersInv, Types, Threads
<1>2. ASSUME NEW j \in Timers PROVE Fresh(j)' /\ StaysCleared(j)' /\ Counted(j)' /\ Tidy(j)'
  <2>1. CASE Wake(i)
    BY <2>1 DEF Wake, Goes, TimersInv, Types, Fresh, StaysCleared, Counted, Tidy, Pending
  <2>2. CASE Again(i)
    BY <2>2 DEF Again, Goes, TimersInv, Types, Fresh, StaysCleared, Counted, Tidy, Pending
  <2>3. CASE Leave(i)
    BY <2>3 DEF Leave, Goes, TimersInv, Types, Fresh, StaysCleared, Counted, Tidy, Pending
  <2> QED
    BY <2>1, <2>2, <2>3
<1> QED
  BY <1>1, <1>2 DEF TimersInv

LEMMA PostTimers ==
  ASSUME TimersInv, NEW i \in Timers, Post(i)
  PROVE  TimersInv'
<1>1. jobs' = Append(jobs, i) /\ jobs \in Seq(Timers)
  BY DEF Post, TimersInv, Types
<1>2. ASSUME NEW j \in Timers PROVE Pending(j)' <=> (Pending(j) \/ j = i)
  BY <1>1 DEF Pending
<1>3. Types'
  BY <1>1 DEF Post, Goes, TimersInv, Types, Threads
<1>4. ASSUME NEW j \in Timers PROVE Fresh(j)' /\ StaysCleared(j)' /\ Counted(j)' /\ Tidy(j)'
  BY <1>2 DEF Post, Goes, TimersInv, Types, Fresh, StaysCleared, Counted, Tidy
<1> QED
  BY <1>3, <1>4 DEF TimersInv

\* However the script, the worker and the timers' threads interleave, and for
\* any number of timers: a callback does not run once it is cleared, that of a
\* timeout runs once at most and is not lost, and nothing is left behind.
THEOREM NoLateCallback == TimersSpec => []TimersKept
<1>1. TimersInit => TimersInv
  BY InitTimers
<1>2. TimersInv /\ [TimersNext]_tvars => TimersInv'
  BY StutterTimers, SetTimers, ClearTimers, FireTimers, ThreadTimers, PostTimers
     DEF TimersNext
<1>3. TimersInv => TimersKept
  BY DEF TimersInv, TimersKept, StaysCleared, Counted, Tidy, Pending
<1> QED
  BY <1>1, <1>2, <1>3, PTL DEF TimersSpec

-----------------------------------------------------------------------------
(* The worker *)

USE MaxJobsAssumption, WorkerAssumption DEF Jobs, Posters

LEMMA InitInv == Init => WorkerInv
<1> SUFFICES ASSUME Init PROVE WorkerInv
  OBVIOUS
<1>1. TypeOK
  <2>1. next \in 1 .. MaxJobs + 1 /\ running \in 0 .. MaxJobs /\ context \in 0 .. MaxJobs
    BY DEF Init
  <2>2. queue \in Seq(Jobs) /\ ran \in Seq(Jobs)
    BY DEF Init
  <2>3. kind \in [Jobs -> Kinds] /\ by \in [Jobs -> Posters]
    BY DEF Init, Kinds
  <2>4. waits \in [Posters -> 0 .. MaxJobs]
    BY DEF Init
  <2> QED
    BY <2>1, <2>2, <2>3, <2>4 DEF Init, TypeOK
<1>2. OrderInv
  BY DEF Init, OrderInv, Increasing
<1>3. ContextInv
  BY DEF Init, ContextInv, ContextOfItsJob, CallbackHasContext
<1> QED
  BY <1>1, <1>2, <1>3 DEF WorkerInv

\* Appending an element above all others keeps a sequence increasing.
LEMMA AppendIncreasing ==
  ASSUME NEW s \in Seq(Nat), Increasing(s), NEW x \in Nat,
         \A n \in 1 .. Len(s) : s[n] < x
  PROVE  Increasing(Append(s, x))
BY DEF Increasing

\* Posting a job keeps the order and the types.
LEMMA SendFacts ==
  ASSUME WorkerInv, NEW c \in Posters, NEW k \in Kinds, Send(c, k)
  PROVE  /\ next \in Jobs /\ next' = next + 1
         /\ kind' \in [Jobs -> Kinds] /\ by' \in [Jobs -> Posters]
         /\ queue' \in Seq(Jobs)
         /\ ran' = ran => OrderInv'
         /\ \A j \in 1 .. next - 1 : kind'[j] = kind[j]
         /\ kind'[next] = k
<1>1. /\ next \in Jobs /\ next' = next + 1
      /\ queue' = Append(queue, next) /\ queue \in Seq(Jobs) /\ ran \in Seq(Jobs)
      /\ kind' = [kind EXCEPT ![next] = k] /\ kind \in [Jobs -> Kinds]
      /\ by' = [by EXCEPT ![next] = c] /\ by \in [Jobs -> Posters]
  BY DEF Send, Put, WorkerInv, TypeOK
<1>2. queue' \in Seq(Jobs)
  BY <1>1
<1>3. ASSUME ran' = ran PROVE OrderInv'
  <2>1. Increasing(queue')
    <3>1. queue \in Seq(Nat) /\ next \in Nat
      BY <1>1
    <3>2. Increasing(queue) /\ \A n \in 1 .. Len(queue) : queue[n] < next
      BY DEF WorkerInv, OrderInv
    <3> QED
      BY <1>1, <3>1, <3>2, AppendIncreasing
  <2>2. \A n \in 1 .. Len(queue') :
          queue'[n] < next' /\ \A m \in 1 .. Len(ran) : ran[m] < queue'[n]
    BY <1>1 DEF WorkerInv, OrderInv
  <2>3. \A m \in 1 .. Len(ran) : ran[m] < next'
    BY <1>1 DEF WorkerInv, OrderInv
  <2> QED
    BY <1>3, <2>1, <2>2, <2>3 DEF WorkerInv, OrderInv
<1> QED
  BY <1>1, <1>2, <1>3

\* A thread other than the worker posts and perhaps waits.
LEMMA PostInv ==
  ASSUME WorkerInv, NEW c \in Callers, NEW k \in Kinds, Send(c, k),
         waits' = waits \/ Await(c),
         started' \in BOOLEAN, refs' \in {refs, refs \cup {next}},
         UNCHANGED <<booted, running, answers, context, ran>>
  PROVE  WorkerInv'
<1>1. /\ next \in Jobs /\ next' = next + 1
      /\ kind' \in [Jobs -> Kinds] /\ by' \in [Jobs -> Posters]
      /\ queue' \in Seq(Jobs)
      /\ OrderInv'
      /\ \A j \in 1 .. next - 1 : kind'[j] = kind[j]
  BY SendFacts
<1>2. /\ waits' \in [Posters -> 0 .. MaxJobs]
      /\ waits'[Worker] = waits[Worker]
  <2>1. /\ waits \in [Posters -> 0 .. MaxJobs] /\ next \in 0 .. MaxJobs
        /\ c \in Posters /\ c # Worker
    BY <1>1 DEF WorkerInv, TypeOK
  <2>2. CASE waits' = waits
    BY <2>1, <2>2
  <2>3. CASE waits' = [waits EXCEPT ![c] = next]
    BY <2>1, <2>3
  <2> QED
    BY <2>2, <2>3 DEF Await
<1>3. TypeOK'
  <2>1. next' \in 1 .. MaxJobs + 1
    BY <1>1
  <2>2. refs' \subseteq Jobs
    BY <1>1 DEF WorkerInv, TypeOK
  <2> QED
    BY <1>1, <1>2, <2>1, <2>2 DEF WorkerInv, TypeOK
<1>4. ContextInv'
  <2>1. running \in 0 .. MaxJobs /\ running < next /\ running < next'
    BY <1>1 DEF WorkerInv, ContextInv, TypeOK
  <2>2. running # 0 => kind'[running] = kind[running]
    BY <1>1, <2>1
  <2> QED
    BY <1>1, <1>2, <2>1, <2>2
    DEF WorkerInv, ContextInv, ContextOfItsJob, CallbackHasContext
<1> QED
  BY <1>1, <1>3, <1>4 DEF WorkerInv

LEMMA BootInv ==
  ASSUME WorkerInv, Boot
  PROVE  WorkerInv'
BY DEF Boot, jobVars, WorkerInv, TypeOK, OrderInv, Increasing, ContextInv,
       ContextOfItsJob, CallbackHasContext

LEMMA TakeInv ==
  ASSUME WorkerInv, Take
  PROVE  WorkerInv'
<1>1. PICK j \in Jobs : j = queue[1]
  BY DEF Take, WorkerInv, TypeOK
<1>2. /\ queue \in Seq(Jobs) /\ ran \in Seq(Jobs) /\ Len(queue) > 0
      /\ running = 0 /\ running' = j
      /\ queue' = Tail(queue) /\ ran' = Append(ran, j)
      /\ context' = SetContext(j)
      /\ UNCHANGED <<started, booted, next, kind, by, waits, answers, refs>>
  BY <1>1 DEF Take, jobVars, WorkerInv, TypeOK
<1>3. /\ Len(queue') = Len(queue) - 1
      /\ \A n \in 1 .. Len(queue') : queue'[n] = queue[n + 1]
  BY <1>2
<1>3a. /\ Len(ran') = Len(ran) + 1 /\ ran'[Len(ran) + 1] = j
      /\ \A m \in 1 .. Len(ran) : ran'[m] = ran[m]
  BY <1>2
<1>4. /\ next \in 1 .. MaxJobs + 1 /\ j < next
      /\ \A n \in 1 .. Len(queue) : queue[n] < next
      /\ \A m \in 1 .. Len(ran) : ran[m] < j
      /\ \A n \in 1 .. Len(queue) : \A m \in 1 .. Len(ran) : ran[m] < queue[n]
      /\ \A n \in 2 .. Len(queue) : j < queue[n]
      /\ \A m \in 1 .. Len(ran) : ran[m] < next
  BY <1>1, <1>2 DEF WorkerInv, OrderInv, Increasing, TypeOK
<1>5. TypeOK'
  <2>1. context' \in 0 .. MaxJobs
    BY <1>1, <1>2 DEF SetContext, WorkerInv, TypeOK
  <2> QED
    BY <1>1, <1>2, <2>1 DEF WorkerInv, TypeOK
<1>6. OrderInv'
  <2>1. Increasing(queue')
    BY <1>2, <1>3 DEF WorkerInv, OrderInv, Increasing
  <2>2. Increasing(ran')
    <3>1. ran \in Seq(Nat) /\ j \in Nat
      BY <1>1, <1>2
    <3> QED
      BY <1>2, <1>4, <3>1, AppendIncreasing DEF WorkerInv, OrderInv
  <2>3. \A m \in 1 .. Len(ran') : ran'[m] < next
    BY <1>2, <1>4, <1>3a
  <2>4. \A n \in 1 .. Len(queue') : queue'[n] < next
    BY <1>2, <1>3, <1>4
  <2>5. \A n \in 1 .. Len(queue') : \A m \in 1 .. Len(ran') : ran'[m] < queue'[n]
    <3> SUFFICES ASSUME NEW n \in 1 .. Len(queue'), NEW m \in 1 .. Len(ran')
                 PROVE  ran'[m] < queue'[n]
      OBVIOUS
    <3>1. queue'[n] = queue[n + 1] /\ n + 1 \in 2 .. Len(queue)
      BY <1>2, <1>3
    <3>2. CASE m = Len(ran) + 1
      BY <1>4, <1>3a, <3>1, <3>2
    <3>3. CASE m \in 1 .. Len(ran)
      <4>1. n + 1 \in 1 .. Len(queue)
        BY <3>1, <1>2
      <4> QED
        BY <1>4, <1>3a, <3>1, <3>3, <4>1
    <3>4. Len(ran) \in Nat
      BY <1>2
    <3> QED
      BY <1>3a, <3>2, <3>3, <3>4
  <2> QED
    BY <1>2, <2>1, <2>2, <2>3, <2>4, <2>5 DEF OrderInv
<1>7. ContextInv'
  <2>1. waits[Worker] = 0
    BY <1>2 DEF WorkerInv, ContextInv
  <2>2. context = 0
    BY <1>2, <2>1 DEF WorkerInv, ContextInv, ContextOfItsJob
  <2> QED
    BY <1>1, <1>2, <1>4, <2>1, <2>2
    DEF ContextInv, ContextOfItsJob, CallbackHasContext, SetContext
<1> QED
  BY <1>5, <1>6, <1>7 DEF WorkerInv

LEMMA JavaCallOnWorkerInv ==
  ASSUME WorkerInv, JavaCallOnWorker
  PROVE  WorkerInv'
<1>1. /\ next \in Jobs /\ next' = next + 1
      /\ kind' \in [Jobs -> Kinds] /\ by' \in [Jobs -> Posters]
      /\ queue' \in Seq(Jobs)
      /\ OrderInv'
      /\ \A j \in 1 .. next - 1 : kind'[j] = kind[j]
  <2>1. "java" \in Kinds /\ Worker \in Posters
    BY DEF Kinds
  <2> QED
    BY <2>1, SendFacts DEF JavaCallOnWorker
<1>2. /\ waits' = [waits EXCEPT ![Worker] = next] /\ refs' = refs \cup {next}
      /\ context' = next /\ context = 0 /\ running # 0
      /\ UNCHANGED <<started, booted, running, answers, ran>>
  BY DEF JavaCallOnWorker, Await
<1>3. TypeOK'
  <2>1. next' \in 1 .. MaxJobs + 1 /\ refs' \subseteq Jobs
    BY <1>1, <1>2 DEF WorkerInv, TypeOK
  <2>2. waits' \in [Posters -> 0 .. MaxJobs]
    BY <1>1, <1>2 DEF WorkerInv, TypeOK
  <2> QED
    BY <1>1, <1>2, <2>1, <2>2 DEF WorkerInv, TypeOK
<1>4. ContextInv'
  <2>1. /\ running \in 0 .. MaxJobs /\ running < next /\ running < next'
        /\ kind'[running] = kind[running] /\ kind[running] # "java"
    BY <1>1, <1>2
    DEF WorkerInv, ContextInv, CallbackHasContext, TypeOK
  <2>2. waits'[Worker] = next
    BY <1>2 DEF WorkerInv, TypeOK
  <2> QED
    BY <1>2, <2>1, <2>2 DEF ContextInv, ContextOfItsJob, CallbackHasContext
<1> QED
  BY <1>1, <1>3, <1>4 DEF WorkerInv

LEMMA FinishInv ==
  ASSUME WorkerInv, Finish
  PROVE  WorkerInv'
<1>1. /\ running \in Jobs /\ running' = 0 /\ waits[Worker] = 0
      /\ context' = Cleared(running)
      /\ UNCHANGED <<started, booted, next, kind, by, queue, waits, refs, ran>>
      /\ answers' \subseteq Jobs
  BY DEF Finish, AfterReply, jobVars, WorkerInv, TypeOK
<1>2. context' = 0
  BY <1>1 DEF Cleared, WorkerInv, ContextInv, ContextOfItsJob
<1>3. TypeOK'
  BY <1>1, <1>2 DEF WorkerInv, TypeOK
<1>4. OrderInv'
  BY <1>1 DEF WorkerInv, OrderInv, Increasing
<1>5. ContextInv'
  BY <1>1, <1>2
  DEF WorkerInv, TypeOK, ContextInv, ContextOfItsJob, CallbackHasContext
<1> QED
  BY <1>3, <1>4, <1>5 DEF WorkerInv

LEMMA ResumeInv ==
  ASSUME WorkerInv, NEW c \in Posters, waits[c] \in Jobs, Resume(c),
         answers' \subseteq Jobs
  PROVE  WorkerInv'
<1>1. /\ waits' = [waits EXCEPT ![c] = 0] /\ refs' = refs \ {waits[c]}
      /\ context' = IF c = Worker THEN 0 ELSE context
      /\ UNCHANGED <<started, booted, next, kind, by, queue, running, ran>>
  BY DEF Resume, jobVars
<1>2. TypeOK'
  <2>1. waits' \in [Posters -> 0 .. MaxJobs]
    BY <1>1 DEF WorkerInv, TypeOK
  <2>2. refs' \subseteq Jobs
    BY <1>1 DEF WorkerInv, TypeOK
  <2>3. context' \in 0 .. MaxJobs
    <3>1. context \in 0 .. MaxJobs
      BY DEF WorkerInv, TypeOK
    <3>2. context' = 0 \/ context' = context
      BY <1>1
    <3> QED
      BY <3>1, <3>2
  <2> QED
    BY <1>1, <2>1, <2>2, <2>3 DEF WorkerInv, TypeOK
<1>3. OrderInv'
  BY <1>1 DEF WorkerInv, OrderInv, Increasing
<1>4. ContextInv'
  <2>1. CASE c = Worker
    BY <1>1, <2>1
    DEF WorkerInv, TypeOK, ContextInv, ContextOfItsJob, CallbackHasContext
  <2>2. CASE c # Worker
    <3>1. waits'[Worker] = waits[Worker] /\ context' = context
      BY <1>1, <2>2 DEF WorkerInv, TypeOK
    <3> QED
      BY <1>1, <3>1 DEF WorkerInv, ContextInv, ContextOfItsJob, CallbackHasContext
  <2> QED
    BY <2>1, <2>2
<1> QED
  BY <1>2, <1>3, <1>4 DEF WorkerInv

LEMMA NextInv == WorkerInv /\ [Next]_vars => WorkerInv'
<1> SUFFICES ASSUME WorkerInv, [Next]_vars PROVE WorkerInv'
  OBVIOUS
<1>1. CASE \E c \in Callers : Load(c)
  <2>1. PICK c \in Callers : Load(c)
    BY <1>1
  <2>2. "eval" \in Kinds
    BY DEF Kinds
  <2> QED
    BY <2>1, <2>2, PostInv DEF Load
<1>2. CASE \E c \in Callers, k \in Kinds : Submit(c, k)
  <2>1. PICK c \in Callers, k \in Kinds : Submit(c, k)
    BY <1>2
  <2> QED
    BY <2>1, PostInv DEF Submit, WorkerInv, TypeOK
<1>3. CASE \E c \in Callers : SubmitAsync(c)
  <2>1. PICK c \in Callers : SubmitAsync(c)
    BY <1>3
  <2>2. "async" \in Kinds
    BY DEF Kinds
  <2> QED
    BY <2>1, <2>2, PostInv DEF SubmitAsync, WorkerInv, TypeOK
<1>4. CASE \E c \in Callers : HookedJavaCall(c)
  <2>1. PICK c \in Callers : HookedJavaCall(c)
    BY <1>4
  <2>2. "java" \in Kinds
    BY DEF Kinds
  <2> QED
    BY <2>1, <2>2, PostInv DEF HookedJavaCall, WorkerInv, TypeOK
<1>5. CASE \E c \in Posters : Answered(c) \/ TimedOut(c)
  <2>1. PICK c \in Posters : Answered(c) \/ TimedOut(c)
    BY <1>5
  <2>2. waits[c] \in Jobs /\ Resume(c) /\ answers' \subseteq Jobs
    BY <2>1 DEF Answered, TimedOut, WorkerInv, TypeOK
  <2> QED
    BY <2>2, ResumeInv
<1>6. CASE UNCHANGED vars
  BY <1>6 DEF vars, WorkerInv, TypeOK, OrderInv, Increasing, ContextInv,
              ContextOfItsJob, CallbackHasContext
<1> QED
  BY <1>1, <1>2, <1>3, <1>4, <1>5, <1>6, BootInv, TakeInv, JavaCallOnWorkerInv,
     FinishInv DEF Next

\* Whoever posts and whoever gives up: the queue and the jobs taken from it keep the
\* order of posting, and the hook context belongs to the callback that runs.
THEOREM WorkerInvariant == Spec => []WorkerInv
BY InitInv, NextInv, PTL DEF Spec

\* Jobs run at most once and in the order they were posted (worker_loop takes what
\* the submit_ functions sent, in order).
THEOREM JobsInOrder == Spec => []InOrder
<1>1. WorkerInv => InOrder
  BY DEF WorkerInv, OrderInv, InOrder
<1> QED
  BY <1>1, WorkerInvariant, PTL

\* clear_hook_context leaves nothing behind: no code on the worker finds the context
\* of a hook whose callback is not running.
THEOREM HookContextSound == Spec => []ContextOfItsJob
<1>1. WorkerInv => ContextOfItsJob
  BY DEF WorkerInv, ContextInv
<1> QED
  BY <1>1, WorkerInvariant, PTL

\* A Java callback that runs finds its own hook's context, whatever ran on the worker
\* since dispatch_slot posted it.
THEOREM HookContextThere == Spec => []CallbackHasContext
<1>1. WorkerInv => CallbackHasContext
  BY DEF WorkerInv, ContextInv
<1> QED
  BY <1>1, WorkerInvariant, PTL

\* A wait of one thread is over at the latest when recv_timeout is.
LEMMA ComesBack ==
  ASSUME NEW c \in Posters
  PROVE  /\ Spec /\ WaitsEnd(c)
         /\ [](waits[c] # 0 => ENABLED <<Answered(c) \/ TimedOut(c)>>_vars)
         => (waits[c] # 0 ~> waits[c] = 0)
<1>1. WorkerInv /\ <<Answered(c) \/ TimedOut(c)>>_vars => (waits[c] = 0)'
  BY DEF WorkerInv, TypeOK, Answered, TimedOut, Resume
<1>2. WorkerInv /\ (waits[c] # 0) /\ [Next]_vars => (waits[c] # 0)' \/ (waits[c] = 0)'
  OBVIOUS
<1> QED
  BY <1>1, <1>2, WorkerInvariant, PTL DEF Spec, WaitsEnd

\* Whoever waits for the worker comes back, also the worker that waits for itself:
\* each wait of the submit_ functions has a timeout of its own, whatever the job
\* does. Of ENABLED it takes that a wait can end.
THEOREM AllComeBack ==
  /\ FairSpec
  /\ \A c \in Posters : [](waits[c] # 0 => ENABLED <<Answered(c) \/ TimedOut(c)>>_vars)
  => CallersComeBack
<1>1. \A c \in Posters :
        /\ Spec /\ WaitsEnd(c)
        /\ [](waits[c] # 0 => ENABLED <<Answered(c) \/ TimedOut(c)>>_vars)
        => (waits[c] # 0 ~> waits[c] = 0)
  BY ComesBack
<1>2. FairSpec => Spec /\ \A c \in Posters : WaitsEnd(c)
  BY PTL DEF FairSpec, Fairness
<1> QED
  BY <1>1, <1>2 DEF CallersComeBack

-----------------------------------------------------------------------------
(* Cloak *)

\* Ranges as they are asked for, clipped and reported.
Pieces == [base : Addresses, size : Nat]
Shown(v, a) == \E i \in DOMAIN v : Holds(v[i], a)
\* No address is hidden twice.
Apart(rs) == \A x, y \in rs : x # y => ~ Overlaps(x, y)

CloakTypes ==
  /\ ranges \subseteq Spans /\ seen \subseteq Spans
  /\ \A x \in ranges \cup seen : x.size > 0
  /\ asked \in Pieces /\ hits \subseteq Pieces /\ cursor \in Addresses /\ visible \in Seq(Pieces)
  /\ Apart(ranges) /\ Apart(seen)

\* Fragments of the range asked for, behind each other, all before c.
InOrderBefore(v, c) ==
  /\ \A i \in DOMAIN v : v[i].base >= asked.base /\ v[i].size > 0 /\ End(v[i]) < c
  /\ \A i \in 1 .. Len(v) - 1 : End(v[i]) < v[i + 1].base

\* Between two hits: before the cursor all is settled, what is hidden behind it is
\* in the hits to come, and no two of them start at the same address.
Walk ==
  /\ cursor \in asked.base .. End(asked)
  /\ hits \subseteq Hits(seen, asked) /\ RangeOverlapsCloaked(seen, asked)
  /\ \A a \in Addresses : Holds(asked, a) /\ a < cursor =>
       (Shown(visible, a) <=> ~ HasRangeContaining(seen, a))
  /\ \A a \in Addresses : Holds(asked, a) /\ a >= cursor /\ HasRangeContaining(seen, a) =>
       \E c \in hits : Holds(c, a)
  /\ InOrderBefore(visible, cursor)
  /\ \A c, d \in hits : c.base = d.base => c = d

CloakInv == CloakTypes /\ (clipping = "gaps" => Walk) /\ ClipExact

LEMMA EndOf ==
  ASSUME NEW x \in Pieces
  PROVE  End(x) \in x.base .. Top /\ x.base \in Addresses /\ x.size \in Nat
BY CloakAssumption DEF Pieces, Addresses, End

\* A part holds the addresses both ranges hold.
LEMMA CutHolds ==
  ASSUME NEW x \in Pieces, NEW r \in Pieces, Cut(x, r).size > 0
  PROVE  /\ Cut(x, r) \in Pieces
         /\ End(Cut(x, r)) = Cut(x, r).base + Cut(x, r).size
         /\ End(Cut(x, r)) <= End(r) /\ Cut(x, r).base >= r.base
         /\ \A a \in Addresses : Holds(Cut(x, r), a) <=> Holds(x, a) /\ Holds(r, a)
<1> DEFINE lo == IF x.base > r.base THEN x.base ELSE r.base
           hi == IF End(x) < End(r) THEN End(x) ELSE End(r)
<1>1. /\ x.base \in Addresses /\ r.base \in Addresses
      /\ End(x) \in Addresses /\ End(r) \in Addresses
  BY EndOf, CloakAssumption DEF Addresses
<1>2. Cut(x, r) = [base |-> lo, size |-> hi - lo]
  BY DEF Cut, Span
<1>3. lo \in Addresses /\ hi \in Addresses
  BY <1>1
<1>4. Cut(x, r).base = lo /\ Cut(x, r).size = hi - lo
  BY <1>2
<1> DEFINE h == Cut(x, r)
<1>5. hi > lo
  BY <1>1, <1>3, <1>4 DEF Addresses
<1>6. h \in Pieces
  BY <1>2, <1>3, <1>5 DEF Pieces, Addresses
<1>7. End(h) = hi
  BY <1>3, <1>4, <1>5, CloakAssumption DEF End, Addresses
<1> HIDE DEF h
<1>8. ASSUME NEW a \in Addresses PROVE Holds(h, a) <=> Holds(x, a) /\ Holds(r, a)
  BY <1>1, <1>3, <1>4, <1>7 DEF Holds, Addresses, h
<1> QED
  BY <1>1, <1>3, <1>4, <1>5, <1>6, <1>7, <1>8 DEF h, Addresses

\* Ranges with something in them overlap exactly if they have a common part.
LEMMA CutOverlaps ==
  ASSUME NEW x \in Pieces, NEW r \in Pieces, x.size > 0, r.size > 0
  PROVE  Cut(x, r).size > 0 <=> Overlaps(x, r)
<1>1. /\ x.base \in 0 .. Top /\ r.base \in 0 .. Top /\ x.size \in Nat /\ r.size \in Nat
  BY DEF Pieces, Addresses
<1>2. End(x) = (IF x.base + x.size > Top THEN Top ELSE x.base + x.size)
      /\ End(r) = (IF r.base + r.size > Top THEN Top ELSE r.base + r.size)
  BY DEF End
<1>3. Cut(x, r).size = (IF End(x) < End(r) THEN End(x) ELSE End(r))
                         - (IF x.base > r.base THEN x.base ELSE r.base)
  BY DEF Cut, Span
<1> QED
  BY <1>1, <1>2, <1>3, CloakAssumption DEF Overlaps

\* An address two ranges hold makes them overlap.
LEMMA BothHold ==
  ASSUME NEW x \in Pieces, NEW y \in Pieces, NEW a \in Addresses, Holds(x, a), Holds(y, a)
  PROVE  Overlaps(x, y)
BY EndOf, CloakAssumption DEF Holds, Overlaps, Addresses

\* The fragments after a gap up to c is added.
LEMMA AddGap ==
  ASSUME NEW v \in Seq(Pieces), asked \in Pieces, cursor \in Addresses, cursor >= asked.base,
         InOrderBefore(v, cursor), NEW c \in Addresses, NEW w, w = v \o Gap(c)
  PROVE  /\ w \in Seq(Pieces)
         /\ \A a \in Addresses : Shown(w, a) <=> Shown(v, a) \/ (cursor <= a /\ a < c)
         /\ \A i \in DOMAIN w : /\ w[i].base >= asked.base /\ w[i].size > 0
                                /\ End(w[i]) < cursor \/ (cursor < c /\ End(w[i]) = c)
         /\ \A i \in 1 .. Len(w) - 1 : End(w[i]) < w[i + 1].base
<1> DEFINE f == Span(cursor, c - cursor)
<1>1. CASE ~ (cursor < c)
  <2>1. w = v
    BY <1>1, ConcatEmptySeq DEF Gap
  <2> QED
    BY <1>1, <2>1 DEF InOrderBefore, Addresses
<1>2. CASE cursor < c
  <2>1. f \in Pieces /\ f.base = cursor /\ f.size = c - cursor /\ f.size > 0
    BY <1>2 DEF Span, Pieces, Addresses
  <2>2. End(f) = c
    BY <2>1, CloakAssumption DEF End, Addresses
  <2>3. \A a \in Addresses : Holds(f, a) <=> cursor <= a /\ a < c
    BY <2>1, <2>2 DEF Holds, Addresses
  <2> HIDE DEF f
  <2>4. /\ w \in Seq(Pieces) /\ Len(v) \in Nat /\ Len(w) = Len(v) + 1
        /\ \A i \in 1 .. Len(v) : w[i] = v[i]
        /\ w[Len(v) + 1] = f
    <3>1. <<f>> \in Seq(Pieces) /\ Len(<<f>>) = 1 /\ <<f>>[1] = f
      BY <2>1
    <3>2. w = Append(v, f)
      BY <1>2, <2>1, AppendIsConcat DEF Gap, f
    <3> QED
      BY <2>1, <3>2, AppendProperties, LenProperties
  <2>5. DOMAIN w = 1 .. Len(v) + 1 /\ DOMAIN v = 1 .. Len(v)
    BY <2>4, LenProperties
  <2>6. ASSUME NEW a \in Addresses PROVE Shown(w, a) <=> Shown(v, a) \/ Holds(f, a)
    <3>1. ASSUME NEW i \in DOMAIN w, Holds(w[i], a) PROVE Shown(v, a) \/ Holds(f, a)
      <4>1. CASE i = Len(v) + 1
        BY <2>4, <3>1, <4>1
      <4>2. CASE i \in 1 .. Len(v)
        BY <2>4, <2>5, <3>1, <4>2 DEF Shown
      <4> QED
        BY <2>4, <2>5, <4>1, <4>2
    <3>2. ASSUME NEW i \in DOMAIN v, Holds(v[i], a) PROVE Shown(w, a)
      BY <2>4, <2>5, <3>2 DEF Shown
    <3>3. Holds(f, a) => Shown(w, a)
      BY <2>4, <2>5 DEF Shown
    <3> QED
      BY <3>1, <3>2, <3>3 DEF Shown
  <2>7. ASSUME NEW i \in DOMAIN w
        PROVE  /\ w[i].base >= asked.base /\ w[i].size > 0
               /\ End(w[i]) < cursor \/ End(w[i]) = c
    <3>1. CASE i = Len(v) + 1
      BY <2>1, <2>2, <2>4, <3>1
    <3>2. CASE i \in 1 .. Len(v)
      BY <2>4, <2>5, <3>2 DEF InOrderBefore
    <3> QED
      BY <2>4, <2>5, <3>1, <3>2
  <2>8. ASSUME NEW i \in 1 .. Len(w) - 1 PROVE End(w[i]) < w[i + 1].base
    <3>1. i \in 1 .. Len(v) /\ w[i] = v[i]
      BY <2>4
    <3>2. CASE i = Len(v)
      BY <2>1, <2>4, <2>5, <3>1, <3>2 DEF InOrderBefore
    <3>3. CASE i \in 1 .. Len(v) - 1
      <4>1. i + 1 \in 1 .. Len(v)
        BY <2>4, <3>3
      <4> QED
        BY <2>4, <3>1, <3>3, <4>1 DEF InOrderBefore
    <3> QED
      BY <2>4, <3>1, <3>2, <3>3
  <2> QED
    BY <1>2, <2>3, <2>4, <2>6, <2>7, <2>8
<1> QED
  BY <1>1, <1>2

\* What the hits of a range are.
LEMMA HitFacts ==
  ASSUME NEW rs, rs \subseteq Spans, \A x \in rs : x.size > 0, Apart(rs), NEW r \in Pieces
  PROVE  /\ \A h \in Hits(rs, r) :
              /\ h \in Pieces /\ h.size > 0 /\ End(h) = h.base + h.size
              /\ h.base >= r.base /\ End(h) <= End(r)
              /\ \A a \in Addresses : Holds(h, a) => Holds(r, a) /\ HasRangeContaining(rs, a)
         /\ \A a \in Addresses : Holds(r, a) /\ HasRangeContaining(rs, a) =>
              \E h \in Hits(rs, r) : Holds(h, a)
         /\ r.size > 0 => (Hits(rs, r) # {} <=> RangeOverlapsCloaked(rs, r))
         /\ Hits(rs, r) # {} => r.size > 0
         /\ \A c, d \in Hits(rs, r) : c.base = d.base => c = d
<1>0. \A x \in rs : x \in Pieces /\ x.size > 0
  BY CloakAssumption DEF Spans, Pieces
<1>1. ASSUME NEW h \in Hits(rs, r)
      PROVE  /\ h \in Pieces /\ h.size > 0 /\ End(h) = h.base + h.size
             /\ h.base >= r.base /\ End(h) <= End(r)
             /\ \E x \in rs : h = Cut(x, r) /\ (\A a \in Addresses : Holds(h, a) <=> Holds(x, a) /\ Holds(r, a))
  <2>1. PICK x \in rs : h = Cut(x, r) /\ Cut(x, r).size > 0
    BY DEF Hits
  <2> QED
    BY <1>0, <2>1, CutHolds
<1>2. ASSUME NEW h \in Hits(rs, r), NEW a \in Addresses, Holds(h, a)
      PROVE  Holds(r, a) /\ HasRangeContaining(rs, a)
  BY <1>1, <1>2 DEF HasRangeContaining
<1>3. ASSUME NEW a \in Addresses, Holds(r, a), HasRangeContaining(rs, a)
      PROVE  \E h \in Hits(rs, r) : Holds(h, a)
  <2>1. PICK x \in rs : Holds(x, a)
    BY <1>3 DEF HasRangeContaining
  <2>2. Overlaps(x, r)
    BY <1>0, <1>3, <2>1, BothHold
  <2>3. r.size > 0
    BY <1>3, EndOf, CloakAssumption DEF Holds, End, Pieces, Addresses
  <2>4. Cut(x, r).size > 0
    BY <1>0, <2>2, <2>3, CutOverlaps
  <2>5. Holds(Cut(x, r), a)
    BY <1>0, <1>3, <2>1, <2>4, CutHolds
  <2>6. Cut(x, r) \in Hits(rs, r)
    BY <2>4 DEF Hits
  <2> QED
    BY <2>5, <2>6
<1>4. ASSUME r.size > 0 PROVE Hits(rs, r) # {} <=> RangeOverlapsCloaked(rs, r)
  <2>1. \A x \in rs : Cut(x, r).size > 0 <=> Overlaps(x, r)
    BY <1>0, <1>4, CutOverlaps
  <2>2. Hits(rs, r) # {} <=> \E x \in rs : Cut(x, r).size > 0
    BY DEF Hits
  <2> QED
    BY <2>1, <2>2 DEF RangeOverlapsCloaked
<1>5. ASSUME NEW h \in Hits(rs, r) PROVE r.size > 0
  <2>1. /\ h.base \in Nat /\ h.size \in Nat /\ h.size > 0 /\ End(h) = h.base + h.size
        /\ r.base \in Nat /\ r.size \in Nat /\ h.base >= r.base /\ End(h) <= End(r)
    BY <1>1 DEF Pieces, Addresses
  <2> QED
    BY <2>1, CloakAssumption DEF End
<1>6. ASSUME NEW c \in Hits(rs, r), NEW d \in Hits(rs, r), c.base = d.base PROVE c = d
  <2>1. PICK x \in rs : c = Cut(x, r) /\ (\A a \in Addresses : Holds(c, a) <=> Holds(x, a) /\ Holds(r, a))
    BY <1>1
  <2>2. PICK y \in rs : d = Cut(y, r) /\ (\A a \in Addresses : Holds(d, a) <=> Holds(y, a) /\ Holds(r, a))
    BY <1>1
  <2>3. c.base \in Addresses /\ Holds(c, c.base) /\ Holds(d, c.base)
    BY <1>1, <1>6 DEF Holds, Pieces, Addresses
  <2>4. Overlaps(x, y)
    BY <1>0, <2>1, <2>2, <2>3, BothHold
  <2>5. x = y
    BY <2>4 DEF Apart
  <2> QED
    BY <2>1, <2>2, <2>5
<1>7. \A h \in Hits(rs, r) :
         /\ h \in Pieces /\ h.size > 0 /\ End(h) = h.base + h.size
         /\ h.base >= r.base /\ End(h) <= End(r)
  BY <1>1
<1> QED
  BY <1>2, <1>3, <1>4, <1>5, <1>6, <1>7

LEMMA InitCloak == CloakInit => CloakInv
<1> SUFFICES ASSUME CloakInit PROVE CloakInv
  OBVIOUS
<1>1. asked \in Pieces
  BY CloakAssumption DEF CloakInit, Pieces, Span, Addresses
<1>2. visible \in Seq(Pieces)
  BY EmptySeq DEF CloakInit
<1> QED
  BY <1>1, <1>2, CloakAssumption DEF CloakInit, CloakInv, CloakTypes, Apart, Addresses, ClipExact

LEMMA RestOfCloak ==
  ASSUME CloakInv, UNCHANGED <<clipping, asked, hits, cursor, visible, seen>>,
         ranges' \subseteq Spans, \A x \in ranges' : x.size > 0, Apart(ranges')
  PROVE  CloakInv'
<1>1. CloakTypes'
  <2>1. \A x \in seen' : x.size > 0
    BY DEF CloakInv, CloakTypes
  <2> QED
    BY <2>1 DEF CloakInv, CloakTypes
<1>2. ASSUME clipping' = "gaps" PROVE Walk'
  BY <1>2 DEF CloakInv, Walk, InOrderBefore
<1>3. ClipExact'
  BY DEF CloakInv, ClipExact, VisibleAddresses, UncloakedAddresses
<1> QED
  BY <1>1, <1>2, <1>3 DEF CloakInv

LEMMA RegistryStep ==
  ASSUME CloakInv, NEW r \in Spans, AddRange(r) \/ RemoveRange(r)
  PROVE  CloakInv'
<1>0. r \in Pieces /\ \A x \in ranges : x \in Pieces
  BY CloakAssumption DEF Spans, Pieces, CloakInv, CloakTypes
<1>1. CASE RemoveRange(r)
  <2>1. ranges' \subseteq Spans /\ (\A x \in ranges' : x.size > 0) /\ Apart(ranges')
    BY <1>1 DEF RemoveRange, CloakInv, CloakTypes, Apart
  <2> QED
    BY <1>1, <2>1, RestOfCloak DEF RemoveRange
<1>2. CASE AddRange(r)
  <2>1. \A x \in ranges' : x = r \/ (x \in ranges /\ ~ Overlaps(x, r))
    BY <1>2 DEF AddRange
  <2>2. r.size > 0
    BY <1>0, <1>2 DEF AddRange, Pieces
  <2>3. ranges' \subseteq Spans /\ \A x \in ranges' : x.size > 0
    BY <2>1, <2>2 DEF CloakInv, CloakTypes
  <2>4. \A x \in ranges' : x # r => ~ Overlaps(x, r) /\ ~ Overlaps(r, x)
    BY <2>1 DEF Overlaps
  <2>5. \A x, y \in ranges' : x # y => ~ Overlaps(x, y)
    BY <2>1, <2>4 DEF CloakInv, CloakTypes, Apart
  <2>6. Apart(ranges')
    BY <2>5 DEF Apart
  <2> QED
    BY <1>2, <2>3, <2>6, RestOfCloak DEF AddRange
<1> QED
  BY <1>1, <1>2

LEMMA StartStep ==
  ASSUME CloakInv, NEW r \in Pieces, ClipStart(r)
  PROVE  CloakInv'
<1>0. ranges \subseteq Spans /\ (\A x \in ranges : x.size > 0) /\ Apart(ranges)
  BY DEF CloakInv, CloakTypes
<1> DEFINE hs == Hits(ranges, r)
<1>1. /\ \A h \in hs :
           /\ h \in Pieces /\ h.size > 0 /\ End(h) = h.base + h.size
           /\ h.base >= r.base /\ End(h) <= End(r)
           /\ \A a \in Addresses : Holds(h, a) => Holds(r, a) /\ HasRangeContaining(ranges, a)
      /\ \A a \in Addresses : Holds(r, a) /\ HasRangeContaining(ranges, a) =>
           \E h \in hs : Holds(h, a)
      /\ r.size > 0 => (hs # {} <=> RangeOverlapsCloaked(ranges, r))
      /\ hs # {} => r.size > 0
      /\ \A c, d \in hs : c.base = d.base => c = d
  BY <1>0, HitFacts
<1> HIDE DEF hs
<1>2. /\ ranges' = ranges /\ seen' = ranges /\ asked' = r /\ hits' = hs
      /\ cursor' = r.base /\ visible' = << >>
      /\ clipping' = IF hs = {} THEN "none" ELSE "gaps"
  BY DEF ClipStart, hs
<1>3. CloakTypes'
  <2>1. visible' \in Seq(Pieces)
    BY <1>2, EmptySeq
  <2>2. cursor' \in Addresses /\ asked' \in Pieces
    BY <1>2, EndOf
  <2>3. hits' \subseteq Pieces
    BY <1>1, <1>2
  <2>4. Apart(ranges)' /\ Apart(seen)'
    BY <1>0, <1>2 DEF Apart
  <2> QED
    BY <1>0, <1>2, <2>1, <2>2, <2>3, <2>4 DEF CloakTypes
<1>4. ASSUME clipping' = "gaps" PROVE Walk'
  <2>1. hs # {}
    BY <1>2, <1>4
  <2>2. cursor' \in asked'.base .. End(asked)'
    BY <1>2, EndOf, CloakAssumption DEF Addresses
  <2>3. (hits \subseteq Hits(seen, asked))' /\ RangeOverlapsCloaked(seen, asked)'
    BY <1>1, <1>2, <2>1 DEF hs, Hits, RangeOverlapsCloaked
  <2>4. \A a \in Addresses : Holds(asked', a) => a >= cursor'
    BY <1>2, EndOf, CloakAssumption DEF Holds, Addresses
  <2>5. InOrderBefore(visible, cursor)'
    BY <1>2 DEF InOrderBefore
  <2>6. \A a \in Addresses : Holds(asked', a) /\ HasRangeContaining(seen', a) => \E c \in hits' : Holds(c, a)
    BY <1>1, <1>2
  <2>7. \A a \in Addresses : a >= cursor' => ~ (a < cursor')
    BY <1>2, EndOf DEF Addresses
  <2>8. \A c, d \in hits' : c.base = d.base => c = d
    BY <1>1, <1>2
  <2> QED
    BY <2>2, <2>3, <2>4, <2>5, <2>6, <2>7, <2>8 DEF Walk
<1>5. ClipExact'
  <2>1. clipping' # "some"
    BY <1>2
  <2>2. ASSUME clipping' = "none"
        PROVE  /\ asked'.size > 0 => ~ RangeOverlapsCloaked(seen', asked')
               /\ \A a \in Addresses : Holds(asked', a) => ~ HasRangeContaining(seen', a)
    <3>1. hs = {}
      BY <1>2, <2>2
    <3> QED
      BY <1>1, <1>2, <3>1
  <2> QED
    BY <2>1, <2>2 DEF ClipExact
<1> QED
  BY <1>3, <1>4, <1>5 DEF CloakInv

\* Fragments hold addresses of the range, before the cursor.
LEMMA ShownBefore ==
  ASSUME visible \in Seq(Pieces), asked \in Pieces, cursor \in Addresses,
         InOrderBefore(visible, cursor), NEW a \in Addresses, Shown(visible, a)
  PROVE  asked.base <= a /\ a < cursor
<1>1. PICK i \in DOMAIN visible : Holds(visible[i], a)
  BY DEF Shown
<1>2. visible[i] \in Pieces
  BY <1>1, ElementOfSeq, LenProperties
<1>3. visible[i].base >= asked.base /\ End(visible[i]) < cursor
  BY <1>1 DEF InOrderBefore
<1> QED
  BY <1>1, <1>2, <1>3, EndOf, CloakAssumption DEF Holds, Addresses

LEMMA HitStep ==
  ASSUME CloakInv, ClipHit
  PROVE  CloakInv'
<1>0. /\ CloakTypes /\ Walk /\ clipping = "gaps"
      /\ seen \subseteq Spans /\ (\A x \in seen : x.size > 0) /\ Apart(seen) /\ asked \in Pieces
      /\ visible \in Seq(Pieces) /\ cursor \in Addresses
  BY DEF CloakInv, CloakTypes, ClipHit
<1>1. PICK c \in hits :
        /\ Sorted(c)
        /\ visible' = visible \o Gap(c.base)
        /\ cursor' = (IF End(c) > cursor THEN End(c) ELSE cursor)
        /\ hits' = hits \ {c}
  BY DEF ClipHit
<1>2. UNCHANGED <<ranges, clipping, asked, seen>>
  BY DEF ClipHit
<1> DEFINE w == visible'
           k == cursor'
<1>3. /\ c \in Pieces /\ c.size > 0 /\ End(c) = c.base + c.size
      /\ c.base >= asked.base /\ End(c) <= End(asked)
      /\ \A a \in Addresses : Holds(c, a) => Holds(asked, a) /\ HasRangeContaining(seen, a)
  <2>1. c \in Hits(seen, asked)
    BY <1>0 DEF Walk
  <2> QED
    BY <1>0, <2>1, HitFacts
<1>4. /\ asked.base \in Addresses /\ End(asked) \in Addresses
      /\ c.base \in Addresses /\ End(c) \in Addresses /\ c.base < End(c)
      /\ cursor >= asked.base /\ cursor <= End(asked)
  <2>1. /\ asked.base \in 0 .. Top /\ End(asked) \in 0 .. Top
        /\ c.base \in 0 .. Top /\ End(c) \in 0 .. Top
    BY <1>0, <1>3, EndOf, CloakAssumption DEF Addresses
  <2>2. c.size \in Nat
    BY <1>3, EndOf
  <2> QED
    BY <1>0, <1>3, <2>1, <2>2, CloakAssumption DEF Walk, Addresses
<1>5. k \in asked.base .. End(asked) /\ k \in Addresses /\ cursor <= k /\ End(c) <= k
  BY <1>0, <1>1, <1>3, <1>4, CloakAssumption DEF Addresses
<1>6. /\ w \in Seq(Pieces)
      /\ \A a \in Addresses : Shown(w, a) <=> Shown(visible, a) \/ (cursor <= a /\ a < c.base)
      /\ \A i \in DOMAIN w : /\ w[i].base >= asked.base /\ w[i].size > 0
                             /\ End(w[i]) < cursor \/ (cursor < c.base /\ End(w[i]) = c.base)
      /\ \A i \in 1 .. Len(w) - 1 : End(w[i]) < w[i + 1].base
  <2>1. InOrderBefore(visible, cursor)
    BY <1>0 DEF Walk
  <2>2. w = visible \o Gap(c.base)
    BY <1>1
  <2>3. c.base \in Addresses /\ cursor >= asked.base
    BY <1>4
  <2>4. visible \in Seq(Pieces) /\ asked \in Pieces /\ cursor \in Addresses
    BY <1>0
  <2> DEFINE to == c.base
  <2> HIDE DEF w, to
  <2>5. w = visible \o Gap(to) /\ to \in Addresses /\ cursor >= asked.base
    BY <2>2, <2>3 DEF w, to
  <2>6. /\ w \in Seq(Pieces)
        /\ \A a \in Addresses : Shown(w, a) <=> Shown(visible, a) \/ (cursor <= a /\ a < to)
        /\ \A i \in DOMAIN w : /\ w[i].base >= asked.base /\ w[i].size > 0
                               /\ End(w[i]) < cursor \/ (cursor < to /\ End(w[i]) = to)
        /\ \A i \in 1 .. Len(w) - 1 : End(w[i]) < w[i + 1].base
    BY <2>1, <2>4, <2>5, AddGap
  <2> QED
    BY <2>6 DEF to
<1>7. InOrderBefore(w, k)
  <2>1. ASSUME NEW i \in DOMAIN w PROVE End(w[i]) < k
    <3>1. w[i] \in Pieces
      BY <1>6, <2>1, ElementOfSeq, LenProperties
    <3>2. End(w[i]) \in Nat
      BY <3>1, EndOf, CloakAssumption DEF Addresses
    <3> QED
      BY <1>0, <1>4, <1>5, <1>6, <3>2 DEF Addresses
  <2> QED
    BY <1>6, <2>1 DEF InOrderBefore
<1>8. ASSUME NEW a \in Addresses, Holds(asked, a), a < k
      PROVE  Shown(w, a) <=> ~ HasRangeContaining(seen, a)
  <2>1. CASE a < cursor
    <3>1. Shown(w, a) <=> Shown(visible, a)
      BY <1>0, <1>4, <1>6, <2>1 DEF Addresses
    <3> QED
      BY <1>0, <1>8, <2>1, <3>1 DEF Walk
  <2>2. CASE a >= cursor /\ a < c.base
    <3>1. Shown(w, a)
      BY <1>6, <2>2 DEF Addresses
    <3>2. ~ HasRangeContaining(seen, a)
      <4>1. SUFFICES ASSUME HasRangeContaining(seen, a) PROVE FALSE
        OBVIOUS
      <4>2. PICK d \in hits : Holds(d, a)
        BY <1>0, <1>8, <2>2, <4>1 DEF Walk
      <4>3. c.base <= d.base /\ d \in Pieces
        BY <1>0, <1>1 DEF Sorted, CloakTypes
      <4> QED
        BY <1>4, <2>2, <4>2, <4>3, EndOf DEF Holds, Addresses
    <3> QED
      BY <3>1, <3>2
  <2>3. CASE a >= cursor /\ a >= c.base
    <3>1. Holds(c, a)
      BY <1>0, <1>1, <1>4, <1>8, <2>3 DEF Holds, Addresses
    <3>2. ~ Shown(visible, a)
      BY <1>0, <2>3, ShownBefore DEF Walk, Addresses
    <3>3. ~ (a < c.base)
      BY <1>4, <2>3 DEF Addresses
    <3> QED
      BY <1>3, <1>6, <3>1, <3>2, <3>3
  <2> QED
    BY <1>0, <1>4, <2>1, <2>2, <2>3 DEF Addresses
<1>9. ASSUME NEW a \in Addresses, Holds(asked, a), a >= k, HasRangeContaining(seen, a)
      PROVE  \E d \in hits' : Holds(d, a)
  <2>1. a >= cursor
    BY <1>0, <1>5, <1>9 DEF Addresses
  <2>2. PICK d \in hits : Holds(d, a)
    BY <1>0, <1>9, <2>1 DEF Walk
  <2>3. d # c
    BY <1>4, <1>5, <1>9, <2>2 DEF Holds, Addresses
  <2> QED
    BY <1>1, <2>2, <2>3
<1>10. CloakTypes'
  BY <1>0, <1>1, <1>2, <1>5, <1>6 DEF CloakTypes, Apart
<1>11. Walk'
  <2>1. hits' \subseteq Hits(seen, asked)'
    BY <1>0, <1>1, <1>2 DEF Walk, Hits
  <2>2. InOrderBefore(visible, cursor)'
    BY <1>2, <1>7 DEF InOrderBefore
  <2>3. RangeOverlapsCloaked(seen, asked)'
    BY <1>0, <1>2 DEF Walk, RangeOverlapsCloaked
  <2>4. \A d, e \in hits' : d.base = e.base => d = e
    BY <1>0, <1>1 DEF Walk
  <2> QED
    BY <1>2, <1>5, <1>8, <1>9, <2>1, <2>2, <2>3, <2>4 DEF Walk
<1>12. ClipExact'
  BY <1>0, <1>2 DEF ClipExact
<1> QED
  BY <1>10, <1>11, <1>12 DEF CloakInv

LEMMA EndStep ==
  ASSUME CloakInv, ClipEnd
  PROVE  CloakInv'
<1>0. /\ CloakTypes /\ Walk /\ clipping = "gaps" /\ hits = {} /\ clipping' = "some"
      /\ visible' = visible \o Gap(End(asked)) /\ asked \in Pieces
      /\ visible \in Seq(Pieces) /\ cursor \in Addresses
      /\ UNCHANGED <<ranges, asked, hits, cursor, seen>>
  BY DEF CloakInv, CloakTypes, ClipEnd
<1>1. /\ asked.base \in Addresses /\ End(asked) \in Addresses
      /\ cursor >= asked.base /\ cursor <= End(asked)
  BY <1>0, EndOf, CloakAssumption DEF Walk, Addresses
<1> DEFINE w == visible'
<1>2. /\ w \in Seq(Pieces)
      /\ \A a \in Addresses : Shown(w, a) <=> Shown(visible, a) \/ (cursor <= a /\ a < End(asked))
      /\ \A i \in 1 .. Len(w) - 1 : End(w[i]) < w[i + 1].base
  <2>1. InOrderBefore(visible, cursor)
    BY <1>0 DEF Walk
  <2> QED
    BY <1>0, <1>1, <2>1, AddGap
<1>3. ASSUME NEW a \in Addresses
      PROVE  Shown(w, a) <=> Holds(asked, a) /\ ~ HasRangeContaining(seen, a)
  <2>1. CASE a < cursor /\ asked.base <= a
    <3>1. Holds(asked, a)
      BY <1>0, <1>1, <2>1, CloakAssumption DEF Holds, Addresses
    <3>2. ~ (cursor <= a)
      BY <1>0, <2>1 DEF Addresses
    <3> QED
      BY <1>0, <1>2, <2>1, <3>1, <3>2 DEF Walk
  <2>2. CASE a >= cursor
    <3>1. ~ Shown(visible, a)
      BY <1>0, <2>2, ShownBefore DEF Walk, Addresses
    <3>2. Holds(asked, a) <=> cursor <= a /\ a < End(asked)
      BY <1>0, <1>1, <2>2 DEF Holds, Addresses
    <3>3. Holds(asked, a) => ~ HasRangeContaining(seen, a)
      BY <1>0, <2>2 DEF Walk
    <3> QED
      BY <1>2, <3>1, <3>2, <3>3
  <2>3. CASE ~ (asked.base <= a)
    <3>1. ~ Holds(asked, a) /\ ~ (cursor <= a)
      BY <1>0, <1>1, <2>3 DEF Holds, Addresses
    <3>2. ~ Shown(visible, a)
      BY <1>0, <2>3, ShownBefore DEF Walk
    <3> QED
      BY <1>2, <3>1, <3>2
  <2> QED
    BY <1>0, <1>1, <2>1, <2>2, <2>3 DEF Addresses
<1>4. (VisibleAddresses = UncloakedAddresses)'
  <2>1. \A a \in Addresses : Shown(w, a) <=> Holds(asked', a) /\ ~ HasRangeContaining(seen', a)
    BY <1>0, <1>3
  <2> QED
    BY <2>1 DEF VisibleAddresses, UncloakedAddresses, Shown
<1>5. RangeOverlapsCloaked(seen', asked')
  BY <1>0 DEF Walk, RangeOverlapsCloaked
<1>6. ClipExact'
  BY <1>0, <1>2, <1>4, <1>5 DEF ClipExact
<1>7. CloakTypes'
  BY <1>0, <1>2 DEF CloakTypes, Apart
<1> QED
  BY <1>0, <1>6, <1>7 DEF CloakInv

LEMMA NextCloak == CloakInv /\ [CloakNext]_cvars => CloakInv'
<1> SUFFICES ASSUME CloakInv, [CloakNext]_cvars PROVE CloakInv'
  OBVIOUS
<1>1. ASSUME NEW r \in Spans, AddRange(r) \/ RemoveRange(r) PROVE CloakInv'
  BY <1>1, RegistryStep
<1>2. ASSUME NEW base \in Addresses, NEW size \in Addresses, ClipStart(Span(base, size)) PROVE CloakInv'
  <2>1. Span(base, size) \in Pieces
    BY CloakAssumption DEF Span, Pieces, Addresses
  <2> QED
    BY <1>2, <2>1, StartStep
<1>3. CASE UNCHANGED cvars
  <2>1. ranges' \subseteq Spans /\ (\A x \in ranges' : x.size > 0) /\ Apart(ranges')
    BY <1>3 DEF cvars, CloakInv, CloakTypes, Apart
  <2> QED
    BY <1>3, <2>1, RestOfCloak DEF cvars
<1> QED
  BY <1>1, <1>2, <1>3, HitStep, EndStep DEF CloakNext

\* While clip_range walks through its copy of the hits, what lies before its cursor
\* is settled and what lies behind is in the hits to come, for any size of the
\* address space and whatever other threads hide and unhide meanwhile; no
\* address is ever hidden by two ranges of the registry.
THEOREM CloakInvariance == CloakSpec => []CloakInv
<1>1. CloakInit => CloakInv
  BY InitCloak
<1>2. CloakInv /\ [CloakNext]_cvars => CloakInv'
  BY NextCloak
<1> QED
  BY <1>1, <1>2, PTL DEF CloakSpec

\* What clip_range leaves visible is exactly what the two other queries do not call
\* hidden, in the registry it saw under the lock, for any size of the address
\* space and any number of hidden ranges.
THEOREM ClipCorrect == CloakSpec => []ClipExact
<1>1. CloakInv => ClipExact
  BY DEF CloakInv
<1> QED
  BY <1>1, CloakInvariance, PTL
=============================================================================
