------------------------------ MODULE JsWorker ------------------------------
(***************************************************************************)
(* The JS worker of goauld-script: one thread owns the JS engine, every    *)
(* other thread posts jobs to its channel and most of them wait for the    *)
(* answer, for a limited time.  A caller that gives up leaves its job in   *)
(* the channel.                                                            *)
(*                                                                         *)
(* Jobs are numbered in the order they were posted.  The worker itself     *)
(* posts and waits when a script calls a hooked Java method.               *)
(***************************************************************************)
EXTENDS Naturals, Sequences

CONSTANTS
  Callers,  \* the agent's I/O thread, ART threads, threads in native hooks
  Worker,   \* goauld-js-worker
  MaxJobs   \* bound: how many jobs are posted

ASSUME MaxJobsAssumption == MaxJobs \in Nat \ {0}
ASSUME WorkerAssumption  == Worker \notin Callers

Jobs == 1 .. MaxJobs
Posters == Callers \cup {Worker}

\* Eval; RpcCall; JavaInvoke; InterceptorEnter and InterceptorLeave; and those
\* without an answer, EvalAsync and HostPost.
Kinds == {"eval", "rpc", "java", "hook", "async"}

VARIABLES
  started, \* JOB_TX is set
  booted,  \* boot() has returned and worker_loop runs
  next,    \* number of the next job
  kind, by,
  queue,   \* the channel
  running, \* the job worker_loop has taken, 0 if none
  waits,   \* the job whose answer each thread waits for, 0 if none
  answers, \* jobs whose answer lies in their reply channel
  refs,    \* jobs whose jobject is a live GlobalRef
  context, \* the job whose hook context is in the worker's CUR_ENV, CUR_THIZ
           \* and CUR_ART, 0 if they are cleared
  ran      \* history: the jobs taken, in order

jobVars == <<next, kind, by>>
vars == <<started, booted, next, kind, by, queue, running, waits, answers,
          refs, context, ran>>

TypeOK == /\ started \in BOOLEAN /\ booted \in BOOLEAN
          /\ next \in 1 .. MaxJobs + 1
          /\ kind \in [Jobs -> Kinds]
          /\ by \in [Jobs -> Posters]
          /\ queue \in Seq(Jobs)
          /\ running \in 0 .. MaxJobs
          /\ waits \in [Posters -> 0 .. MaxJobs]
          /\ answers \subseteq Jobs
          /\ refs \subseteq Jobs
          /\ context \in 0 .. MaxJobs
          /\ ran \in Seq(Jobs)

Init == /\ started = FALSE /\ booted = FALSE
        /\ next = 1
        /\ kind = [j \in Jobs |-> "async"]
        /\ by = [j \in Jobs |-> Worker]
        /\ queue = << >>
        /\ running = 0
        /\ waits = [c \in Posters |-> 0]
        /\ answers = {}
        /\ refs = {}
        /\ context = 0
        /\ ran = << >>

-----------------------------------------------------------------------------

\* Mutant: the job jumps the queue.
PutFirst(q, j) == <<j>> \o q
\* Sender::send.
Put(q, j) == Append(q, j)

\* The next job goes into the channel.
Send(c, k) == /\ next \in Jobs
              /\ next' = next + 1
              /\ kind' = [kind EXCEPT ![next] = k]
              /\ by' = [by EXCEPT ![next] = c]
              /\ queue' = Put(queue, next)

Await(c) == waits' = [waits EXCEPT ![c] = next]

\* ScriptEngine::load on the I/O thread: ensure_started, submit_eval.
Load(c) ==
  /\ waits[c] = 0
  /\ started' = TRUE
  /\ Send(c, "eval") /\ Await(c)
  /\ UNCHANGED <<booted, running, answers, refs, context, ran>>

\* submit_rpc_call, submit_interceptor_enter and _leave.  Without a worker they
\* return at once.
Submit(c, k) ==
  /\ k \in {"rpc", "hook"}
  /\ started /\ waits[c] = 0
  /\ Send(c, k) /\ Await(c)
  /\ UNCHANGED <<started, booted, running, answers, refs, context, ran>>

\* submit_eval_async, submit_host_post.
SubmitAsync(c) ==
  /\ started /\ waits[c] = 0
  /\ Send(c, "async")
  /\ UNCHANGED <<started, booted, running, waits, answers, refs, context, ran>>

\* dispatch_slot on an ART thread: the receiver becomes a GlobalRef, then
\* submit_java_invoke.
HookedJavaCall(c) ==
  /\ started /\ waits[c] = 0
  /\ Send(c, "java") /\ Await(c)
  /\ refs' = refs \cup {next}
  /\ UNCHANGED <<started, booted, running, answers, context, ran>>

\* The thread with its first job may come before boot() has made the engine.
Boot ==
  /\ started /\ ~ booted
  /\ booted' = TRUE
  /\ UNCHANGED <<started, jobVars, queue, running, waits, answers, refs,
                 context, ran>>

\* Mutant: the context of the last hook stays.
NoContext(j) == context
\* set_hook_context, before the callback of a Java hook.
SetContext(j) == IF kind[j] = "java" THEN j ELSE context

\* worker_loop takes the oldest job.
Take ==
  /\ booted /\ running = 0 /\ queue # << >>
  /\ LET j == Head(queue) IN
       /\ running' = j
       /\ queue' = Tail(queue)
       /\ ran' = Append(ran, j)
       /\ context' = SetContext(j)
  /\ UNCHANGED <<started, booted, jobVars, waits, answers, refs>>

\* A script function that runs Java code (class loaders, storage, toasts) reaches a
\* hooked method: dispatch_slot on the worker.  Inside a hook (IN_BRIDGE) only
\* the original is invoked.  Otherwise the worker posts a job to itself and waits
\* like any other caller.
JavaCallOnWorker ==
  /\ running # 0 /\ waits[Worker] = 0 /\ context = 0
  /\ Send(Worker, "java") /\ Await(Worker)
  /\ refs' = refs \cup {next}
  /\ context' = next
  /\ UNCHANGED <<started, booted, running, answers, ran>>

\* Mutant: the context of the last hook stays.
LeftBehind(j) == context
\* clear_hook_context, on every way out of worker_java_invoke.
Cleared(j) == IF kind[j] = "java" THEN 0 ELSE context

\* Mutant: the answer is sent again until somebody takes it.
RetryLostReply(j) == IF waits[by[j]] = j THEN 0 ELSE j
\* let _ = reply.send(..): an answer nobody waits for is dropped.
AfterReply(j) == 0

Finish ==
  /\ running # 0 /\ waits[Worker] = 0
  /\ running' = AfterReply(running)
  /\ answers' = IF waits[by[running]] = running
                THEN answers \cup {running} ELSE answers
  /\ context' = Cleared(running)
  /\ UNCHANGED <<started, booted, jobVars, queue, waits, refs, ran>>

\* dispatch_slot after try_js_invoke: the GlobalRef is dropped and the thread's
\* own hook context is cleared.
Resume(c) ==
  /\ waits' = [waits EXCEPT ![c] = 0]
  /\ refs' = refs \ {waits[c]}
  /\ context' = IF c = Worker THEN 0 ELSE context
  /\ UNCHANGED <<started, booted, jobVars, queue, running, ran>>

Answered(c) ==
  /\ waits[c] \in answers
  /\ answers' = answers \ {waits[c]}
  /\ Resume(c)

\* Mutant: a wait of the worker for itself is without a limit.
OthersGiveUp(c) == c # Worker
\* recv_timeout, in every submit_ function that waits.
GivesUp(c) == TRUE

TimedOut(c) ==
  /\ waits[c] \in Jobs \ answers
  /\ GivesUp(c)
  /\ UNCHANGED answers
  /\ Resume(c)

Next ==
  \/ \E c \in Callers : \/ Load(c)
                        \/ \E k \in Kinds : Submit(c, k)
                        \/ SubmitAsync(c)
                        \/ HookedJavaCall(c)
  \/ Boot
  \/ Take
  \/ JavaCallOnWorker
  \/ Finish
  \/ \E c \in Posters : Answered(c) \/ TimedOut(c)

Spec == Init /\ [][Next]_vars

(***************************************************************************)
(* Fairness.  The worker thread runs, a script comes to its end, and a     *)
(* wait ends by its answer or its timeout.  Nobody has to post.            *)
(***************************************************************************)
WaitsEnd(c) == WF_vars(Answered(c) \/ TimedOut(c))
Fairness == /\ WF_vars(Boot) /\ WF_vars(Take) /\ WF_vars(Finish)
            /\ \A c \in Posters : WaitsEnd(c)

FairSpec == Spec /\ Fairness

-----------------------------------------------------------------------------

Increasing(s) == \A m, n \in 1 .. Len(s) : m < n => s[m] < s[n]

\* Jobs run at most once and in the order they were posted, also those whose
\* callers have long given up: what a session loaded runs before the call that
\* it made afterwards, whether or not the load timed out.
InOrder == Increasing(ran)

\* Hook context is in the worker's thread locals only while the callback of that
\* hook runs, or while the worker itself stands in a hooked call: a script never
\* finds the context of an earlier hook.
ContextOfItsJob ==
  context # 0 => \/ waits[Worker] = context
                 \/ running = context /\ kind[running] = "java"

\* The other way round: a Java callback always finds its own context.
CallbackHasContext ==
  running # 0 /\ kind[running] = "java" => context = running

\* The inductive invariant behind these: the channel continues the order of the
\* jobs taken, a job exists before anything refers to it, and the worker waits
\* only out of a job that is no Java callback.
OrderInv ==
  /\ Increasing(queue) /\ Increasing(ran)
  /\ \A n \in 1 .. Len(queue) : /\ queue[n] < next
                                /\ \A m \in 1 .. Len(ran) : ran[m] < queue[n]
  /\ \A m \in 1 .. Len(ran) : ran[m] < next
ContextInv ==
  /\ running < next
  /\ waits[Worker] # 0 => /\ context = waits[Worker]
                          /\ running # 0 /\ kind[running] # "java"
  /\ ContextOfItsJob /\ CallbackHasContext
WorkerInv == TypeOK /\ OrderInv /\ ContextInv

\* Every job that was posted is run, however late.
EveryJobRuns ==
  \A j \in Jobs : j < next ~> (running # j /\ \E n \in 1 .. Len(ran) : ran[n] = j)

\* Every thread comes back from a wait, the worker's wait for itself included.
CallersComeBack == \A c \in Posters : waits[c] # 0 ~> waits[c] = 0
=============================================================================
