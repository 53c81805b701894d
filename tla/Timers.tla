-------------------------------- MODULE Timers --------------------------------
(***************************************************************************)
(* setTimeout, setInterval and their clear: each timer is a thread of its  *)
(* own that sleeps and posts an evaluation of __goauld_fireTimer(id) to    *)
(* the JS worker, where the callback is looked up.                         *)
(*                                                                         *)
(* The actions of the script and FireTimer are the worker's; it alone      *)
(* touches callbacks.                                                      *)
(***************************************************************************)
EXTENDS Integers, Sequences

CONSTANTS
  MaxTimers, \* bound: how many timers a script sets
  MaxPosts   \* bound: how often an interval is posted

ASSUME TimersAssumption == MaxTimers \in Nat /\ MaxPosts \in Nat

Timers == 1 .. MaxTimers

VARIABLES
  thread,    \* what goauld-timer-{id} does next
  repeating,
  entries,   \* TIMERS
  cancelled, \* timers whose flag is set
  callbacks, \* __timerCbs
  jobs,      \* the evaluations in the worker's channel
  posts,     \* how often each timer posted
  fired,       \* history: how often each callback fired
  firedBefore  \* history: how often it had run when it was cleared

tvars == <<thread, repeating, entries, cancelled, callbacks, jobs, posts, fired, firedBefore>>

TimersInit ==
  /\ thread = [i \in Timers |-> "none"] /\ repeating = {}
  /\ entries = {} /\ cancelled = {} /\ callbacks = {} /\ jobs = << >>
  /\ posts = [i \in Timers |-> 0] /\ fired = [i \in Timers |-> 0] /\ firedBefore = << >>

Goes(i, to) == thread' = [thread EXCEPT ![i] = to]

-----------------------------------------------------------------------------
(* The script *)

Set(i, again) ==
  /\ thread[i] = "none" /\ \A j \in 1 .. i - 1 : thread[j] # "none"
  /\ Goes(i, "sleeps")
  /\ repeating' = IF again THEN repeating \cup {i} ELSE repeating
  /\ entries' = entries \cup {i} /\ callbacks' = callbacks \cup {i}
  /\ UNCHANGED <<cancelled, jobs, posts, fired, firedBefore>>

\* cancel: only an entry still in TIMERS has its flag set.
Cancel(i) ==
  /\ entries' = entries \ {i}
  /\ cancelled' = IF i \in entries THEN cancelled \cup {i} ELSE cancelled

\* History: how often the callback had run.
Recorded(i) ==
  firedBefore' = [j \in DOMAIN firedBefore \cup {i} |-> IF j = i THEN fired[i] ELSE firedBefore[j]]

\* Mutant: the thread's flag is all a clear sets.
ClearKept(i) ==
  /\ thread[i] # "none" /\ i \notin DOMAIN firedBefore
  /\ Recorded(i)
  /\ Cancel(i)
  /\ UNCHANGED <<thread, repeating, callbacks, jobs, posts, fired>>
Clear(i) ==
  /\ thread[i] # "none" /\ i \notin DOMAIN firedBefore
  /\ Recorded(i)
  /\ callbacks' = callbacks \ {i}
  /\ Cancel(i)
  /\ UNCHANGED <<thread, repeating, jobs, posts, fired>>

\* __goauld_fireTimer
FireTimer ==
  /\ jobs # << >> /\ jobs' = Tail(jobs)
  /\ LET i == Head(jobs) IN
     /\ fired' = IF i \in callbacks THEN [fired EXCEPT ![i] = @ + 1] ELSE fired
     /\ callbacks' = IF i \in repeating THEN callbacks ELSE callbacks \ {i}
  /\ UNCHANGED <<thread, repeating, entries, cancelled, posts, firedBefore>>

-----------------------------------------------------------------------------
(* The timer's thread *)

Wake(i) ==
  /\ thread[i] = "sleeps" /\ (i \in cancelled \/ posts[i] < MaxPosts)
  /\ Goes(i, IF i \in cancelled THEN "ended" ELSE "posts")
  /\ UNCHANGED <<repeating, entries, cancelled, callbacks, jobs, posts, fired, firedBefore>>

\* submit_eval_async; the worker runs, as it set the timer.
Post(i) ==
  /\ thread[i] = "posts" /\ Goes(i, "posted")
  /\ jobs' = Append(jobs, i) /\ posts' = [posts EXCEPT ![i] = @ + 1]
  /\ UNCHANGED <<repeating, entries, cancelled, callbacks, fired, firedBefore>>

Again(i) ==
  /\ thread[i] = "posted"
  /\ Goes(i, IF i \in repeating \ cancelled THEN "sleeps" ELSE "leaves")
  /\ UNCHANGED <<repeating, entries, cancelled, callbacks, jobs, posts, fired, firedBefore>>

Leave(i) ==
  /\ thread[i] = "leaves" /\ Goes(i, "ended") /\ entries' = entries \ {i}
  /\ UNCHANGED <<repeating, cancelled, callbacks, jobs, posts, fired, firedBefore>>

TimersNext ==
  \/ \E i \in Timers : Set(i, TRUE) \/ Set(i, FALSE) \/ Clear(i)
  \/ FireTimer
  \/ \E i \in Timers : Wake(i) \/ Post(i) \/ Again(i) \/ Leave(i)

TimersSpec == TimersInit /\ [][TimersNext]_tvars

-----------------------------------------------------------------------------

\* Wherever the clear falls between the thread's wake-up, its check, its post
\* and the worker's turn: a callback does not run once it is cleared, that of a
\* timeout runs once at most and is not lost, and a thread that ends leaves no
\* entry in TIMERS and the script no callback nothing would ever remove.
TimersKept ==
  \A i \in Timers :
    /\ i \in DOMAIN firedBefore => fired[i] = firedBefore[i]
    /\ i \notin repeating => fired[i] + (IF i \in callbacks THEN 1 ELSE 0) <= 1
    /\ thread[i] = "ended" => i \notin entries
    /\ i \in callbacks /\ thread[i] \in {"posted", "leaves", "ended"} =>
         i \in repeating \/ \E k \in DOMAIN jobs : jobs[k] = i
=============================================================================
