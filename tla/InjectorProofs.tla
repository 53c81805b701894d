---------------------------- MODULE InjectorProofs ----------------------------
(***************************************************************************)
(* Proofs about goauld-injector's two commands, for any number of threads, *)
(* runs, signals, locks and clones.  trace-syscalls pairs the entries and  *)
(* the exits of the system calls it sees; inject leaves the app as it      *)
(* found it, and the app is killed by nothing the injector controls.       *)
(***************************************************************************)
EXTENDS InjectorCli, Integers, TLAPS

-----------------------------------------------------------------------------
\* trace-syscalls.

TraceType ==
  /\ st \in [Threads -> {"absent", "runs", "stopped", "gone"}]
  /\ stop \in [Threads -> {"none", "syscall", "signal", "trap", "clone", "exit"}]
  /\ mode \in [Threads -> {"syscall", "cont"}]
  /\ child \in [Threads -> Threads]
  /\ traced \subseteq Threads

\* What waitpid has to say of a thread, and what nobody can know of one that is not there.
StopInv ==
  \A t \in Threads :
    /\ st[t] \in {"runs", "absent"} => stop[t] = "none"
    /\ stop[t] \in {"syscall", "signal", "trap", "clone"} => st[t] = "stopped"
    /\ st[t] = "absent" => t \notin traced \cup inSys \cup pending /\ mode[t] = "cont"

\* What the phases have not done yet.
PhaseInv ==
  /\ phase = "resolve" => traced = {}
  /\ phase \in {"resolve", "seize"} => \A t \in Threads : mode[t] = "cont"
  /\ phase \in {"resolve", "seize", "start"} => pending = {}
  /\ phase = "start" => \A t \in todo \cap Threads : mode[t] = "cont"

\* A traced thread that was not resumed yet stands outside the kernel.
ContInv ==
  phase \in {"seize", "start", "loop"} =>
    \A t \in traced \ odd : mode[t] = "cont" /\ st[t] # "gone" =>
      /\ st[t] = "stopped" /\ stop[t] \in {"trap", "signal"}
      /\ t \notin inSys /\ t \notin pending

\* One that was, pairs.
Paired(t) == t \in pending <=> IF stop[t] = "syscall" THEN t \notin inSys ELSE t \in inSys
PairInv ==
  phase \in {"start", "loop"} =>
    \A t \in traced \ odd : mode[t] = "syscall" /\ st[t] # "gone" => Paired(t)

TraceInv == TraceType /\ StopInv /\ PhaseInv /\ ContInv /\ PairInv

LEMMA InitTrace == TraceInit => TraceInv
BY AppAssumption
   DEF TraceInit, TraceInv, TraceType, StopInv, PhaseInv, ContInv, PairInv

\* ptrace resumes what is stopped, and only that.
LEMMA ResumeFacts ==
  ASSUME TraceType, NEW T, NEW how \in {"syscall", "cont"}, Resume(T, how)
  PROVE  /\ st' \in [Threads -> {"absent", "runs", "stopped", "gone"}]
         /\ stop' \in [Threads -> {"none", "syscall", "signal", "trap", "clone", "exit"}]
         /\ mode' \in [Threads -> {"syscall", "cont"}]
         /\ \A t \in Threads :
              IF t \in T \cap traced /\ st[t] = "stopped"
              THEN st'[t] = "runs" /\ stop'[t] = "none" /\ mode'[t] = how
              ELSE st'[t] = st[t] /\ stop'[t] = stop[t] /\ mode'[t] = mode[t]
BY DEF Resume, TraceType

\* The kernel traces the new thread of a traced one.
LEMMA CloneTrace ==
  ASSUME TraceInv, NEW t \in Threads, NEW u \in Threads, Clone(t, u)
  PROVE  TraceInv'
<1>1. CASE t \in traced
  <2>1. /\ t # u /\ traced' = traced \cup {u} /\ st[t] = "runs" /\ st[u] = "absent"
        /\ st' = [st EXCEPT ![t] = "stopped", ![u] = "stopped"]
        /\ stop' = [stop EXCEPT ![t] = "clone", ![u] = "trap"]
        /\ child' = [child EXCEPT ![t] = u]
        /\ UNCHANGED <<phase, todo, pending, odd, mode, inSys>>
    BY <1>1 DEF Clone, tool
  <2>2. TraceType'
    BY <2>1 DEF TraceInv, TraceType
  <2>3. /\ st'[t] = "stopped" /\ st'[u] = "stopped" /\ stop'[t] = "clone" /\ stop'[u] = "trap"
        /\ \A v \in Threads : v # t /\ v # u => st'[v] = st[v] /\ stop'[v] = stop[v]
    BY <2>1 DEF TraceInv, TraceType
  <2>4. u \notin inSys /\ u \notin pending /\ u \notin traced /\ mode[u] = "cont"
        /\ stop[t] = "none"
    BY <2>1 DEF TraceInv, StopInv
  <2>5. StopInv'
    <3>1. ASSUME NEW v \in Threads, v = t \/ v = u
          PROVE  st'[v] = "stopped" /\ stop'[v] # "none"
      BY <2>3, <3>1
    <3>2. ASSUME NEW v \in Threads, v # t, v # u
          PROVE  /\ st'[v] = st[v] /\ stop'[v] = stop[v]
                 /\ v \in traced' <=> v \in traced
      BY <2>1, <2>3, <3>2
    <3> QED
      BY <2>1, <3>1, <3>2 DEF TraceInv, StopInv
  <2>8. PhaseInv'
    BY <1>1, <2>1 DEF TraceInv, PhaseInv
  <2>6. ContInv'
    BY <1>1, <2>1, <2>3, <2>4 DEF TraceInv, TraceType, ContInv
  <2>7. PairInv'
    BY <1>1, <2>1, <2>3, <2>4 DEF TraceInv, TraceType, PairInv, Paired
  <2> QED
    BY <2>2, <2>5, <2>6, <2>7, <2>8 DEF TraceInv
<1>2. CASE t \notin traced
  <2>1. /\ st' = [st EXCEPT ![u] = "runs"] /\ st[u] = "absent"
        /\ UNCHANGED <<phase, todo, pending, odd, mode, inSys, traced, stop, child>>
    BY <1>2 DEF Clone, tool
  <2>2. u \notin traced /\ stop[u] = "none"
    BY <2>1 DEF TraceInv, StopInv
  <2>3. TraceType' /\ PhaseInv' /\ ContInv' /\ PairInv'
    BY <2>1, <2>2 DEF TraceInv, TraceType, PhaseInv, ContInv, PairInv, Paired
  <2>4. StopInv'
    BY <2>1, <2>2 DEF TraceInv, TraceType, StopInv
  <2> QED
    BY <2>3, <2>4 DEF TraceInv
<1> QED
  BY <1>1, <1>2

\* The steps of the app's threads and of the kernel.
LEMMA KernelTrace ==
  ASSUME TraceInv, NEW t \in Threads,
         \/ CrossKernel(t) \/ GetSignal(t) \/ TrapAgain(t) \/ ThreadExit(t)
         \/ \E u \in Threads : Clone(t, u)
  PROVE  TraceInv'
<1> USE DEF TraceInv, TraceType, StopInv, PhaseInv, ContInv, PairInv, Paired, tool
<1>1. CASE CrossKernel(t)
  BY <1>1 DEF CrossKernel, Stops
<1>2. CASE GetSignal(t)
  BY <1>2 DEF GetSignal, Stops
<1>3. CASE TrapAgain(t)
  BY <1>3 DEF TrapAgain, Stops
<1>4. CASE ThreadExit(t)
  BY <1>4 DEF ThreadExit
<1>5. ASSUME NEW u \in Threads, Clone(t, u) PROVE TraceInv'
  BY <1>5, CloneTrace
<1> QED
  BY <1>1, <1>2, <1>3, <1>4, <1>5

LEMMA SetUpTrace ==
  ASSUME TraceInv, ListThreads \/ \E t \in Threads : SeizeTid(t) \/ StartTid(t)
  PROVE  TraceInv'
<1> USE DEF TraceInv, TraceType, StopInv, PhaseInv, ContInv, PairInv, Paired
<1>1. CASE ListThreads
  BY <1>1 DEF ListThreads, kernel
<1>2. ASSUME NEW t \in Threads, SeizeTid(t) PROVE TraceInv'
  BY <1>2 DEF SeizeTid
<1>3. ASSUME NEW t \in Threads, StartTid(t) PROVE TraceInv'
  BY <1>3, ResumeFacts DEF StartTid
<1> QED
  BY <1>1, <1>2, <1>3

LEMMA LoopTrace ==
  ASSUME TraceInv, NEW t \in Threads,
         LoopExit(t) \/ LoopSyscall(t) \/ LoopSignal(t) \/ LoopClone(t)
  PROVE  TraceInv'
<1> USE DEF TraceInv, TraceType, StopInv, PhaseInv, ContInv, PairInv, Paired
<1>1. CASE LoopExit(t)
  BY <1>1 DEF LoopExit, Reported
<1>2. CASE LoopSyscall(t)
  BY <1>2, ResumeFacts DEF LoopSyscall, Reported
<1>3. CASE LoopSignal(t)
  BY <1>3 DEF LoopSignal, Reported
<1>4. CASE LoopClone(t)
  BY <1>4, ResumeFacts DEF LoopClone, Reported
<1> QED
  BY <1>1, <1>2, <1>3, <1>4

LEMMA EndTrace ==
  ASSUME TraceInv,
         \/ LoopEnds \/ DetachEnds \/ TracerExits \/ TracerKilled
         \/ \E t \in Threads : DetachTid(t)
  PROVE  TraceInv'
<1> USE DEF TraceInv, TraceType, StopInv, PhaseInv, ContInv, PairInv, Paired
<1>1. CASE LoopEnds
  BY <1>1 DEF LoopEnds, kernel
<1>2. CASE DetachEnds
  BY <1>2 DEF DetachEnds, kernel
<1>3. CASE TracerExits
  BY <1>3, ResumeFacts DEF TracerExits
<1>4. CASE TracerKilled
  BY <1>4, ResumeFacts DEF TracerKilled
<1>5. ASSUME NEW t \in Threads, DetachTid(t) PROVE TraceInv'
  BY <1>5, ResumeFacts DEF DetachTid
<1> QED
  BY <1>1, <1>2, <1>3, <1>4, <1>5

LEMMA NextTrace == TraceInv /\ [TraceNext]_tvars => TraceInv'
<1>1. TraceInv /\ UNCHANGED tvars => TraceInv'
  BY DEF tvars, kernel, TraceInv, TraceType, StopInv, PhaseInv, ContInv, PairInv, Paired
<1> QED
  BY <1>1, KernelTrace, SetUpTrace, LoopTrace, EndTrace DEF TraceNext, TracerStep

\* Only one of the two commands runs, and the other's state stands still.
LEMMA TraceInvariance == Spec => []TraceInv
<1>1. Init => TraceInv
  BY InitTrace DEF Init
<1>2. TraceInv /\ [Next]_cvars => TraceInv'
  <2>1. [Next]_cvars => [TraceNext]_tvars
    BY DEF Next, Inject, Trace, cvars
  <2> QED
    BY <2>1, NextTrace
<1> QED
  BY <1>1, <1>2, PTL DEF Spec

\* trace-syscalls, with any number of threads that come, go, clone and get signals: the
\* map of pending entries pairs the entries and exits of every thread whose stops were
\* all system calls.
THEOREM PairsCorrect == Spec => []PairsMatch
<1>1. TraceInv => PairsMatch
  BY DEF TraceInv, PairInv, Paired, PairsMatch, TraceType
<1> QED
  BY <1>1, TraceInvariance, PTL

-----------------------------------------------------------------------------
\* inject: the type of the state.

\* The places of a run between its seizing the app and its letting go.
Between == DOMAIN Syscalls \cup DOMAIN Calls
Midway == Between \cup {"cont", "plant", "plant_rx", "planted", "unplant", "unplant_rx",
                        "loaded", "failed"}
Places == Midway \cup {"idle", "stage", "stale", "list", "seize", "exit", "done"}
Working(i) == run[i].at \in Midway

RunType == [at : Places, call : DOMAIN Calls \cup {"none"},
            out : {"none", "got", "zero", "err"}, saved : Contexts,
            todo : SUBSET Threads, canOpen : BOOLEAN, conts : Nat,
            word : {"code", "brk"}, garbled : BOOLEAN]

LEMMA CallNames ==
  DOMAIN Calls = {"loader", "plain", "why", "create", "why_ns", "nsopen", "extopen", "reason",
                  "why_fd"}
BY DEF Calls

LEMMA SyscallNames ==
  DOMAIN Syscalls = {"mmap_page", "openat", "reopenat", "close", "page_rx", "page_rw",
                     "page_rw2", "memfd_rw", "memfd_create", "mmap_buf", "write", "lseek",
                     "mmap_brk", "brk_rx", "mmap_stack", "close_ok", "close_none", "close_fail"}
BY DEF Syscalls

\* What follows a call or a system call.
LEMMA CallTable ==
  ASSUME NEW c \in DOMAIN Calls, NEW o \in {"got", "zero", "err"}
  PROVE  /\ Calls[c][o] \in Between \cup {"ok", "fail"}
         /\ Calls[c].got \in Between \cup {"ok", "fail"}
         /\ Calls[c].zero \in Between \cup {"ok", "fail"}
         /\ Calls[c].err \in Between \cup {"ok", "fail"}
         /\ Missing(c) \in Between \cup {"ok", "fail"}
<1>1. /\ Calls[c].got \in Between \cup {"ok", "fail"}
      /\ Calls[c].zero \in Between \cup {"ok", "fail"}
      /\ Calls[c].err \in Between \cup {"ok", "fail"}
  BY CallNames, SyscallNames DEF Calls, Call, Between
<1>2. Missing(c) \in {"memfd_rw", "close_none", Calls[c].zero}
  BY DEF Missing
<1> QED
  BY <1>1, <1>2, SyscallNames DEF Between

Numbers == {"mmap", "openat", "close", "mprotect", "memfd_create", "write", "lseek"}
LEMMA SyscallTable ==
  ASSUME NEW p \in DOMAIN Syscalls
  PROVE  /\ \A o \in {"ok", "fail", "junk"} : Syscalls[p][o] \in Between \cup {"load", "ok", "fail"}
         /\ Syscalls[p].ok \in Between \cup {"load", "ok", "fail"}
         /\ Syscalls[p].nr \in Numbers
BY CallNames, SyscallNames DEF Syscalls, Then, Ignored, Between, Numbers

\* Where a run goes.
LEMMA GotoWithFacts ==
  ASSUME run \in [Runs -> RunType], NEW i \in Runs, NEW r \in RunType,
         NEW p \in Places \cup {"ok", "fail", "load"}, GotoWith(i, r, p)
  PROVE  /\ run' \in [Runs -> RunType]
         /\ \A j \in Runs : j # i => run'[j] = run[j]
         /\ run'[i].saved = r.saved /\ run'[i].call = r.call /\ run'[i].out = r.out
         /\ run'[i].todo = r.todo /\ run'[i].word = r.word /\ run'[i].garbled = r.garbled
         /\ p \in Places => run'[i].at = p
         /\ p \in {"ok", "fail"} => run'[i].at \in {"loaded", "failed"}
         /\ p = "load" => run'[i].at \in Between
<1>1. CASE p \in {"ok", "fail"}
  <2> DEFINE q == [r EXCEPT !.at = IF p = "ok" THEN "loaded" ELSE "failed", !.canOpen = FALSE]
  <2>1. run' = [run EXCEPT ![i] = q]
    BY <1>1 DEF GotoWith
  <2>2. /\ q \in RunType /\ q.at \in {"loaded", "failed"}
        /\ q.saved = r.saved /\ q.call = r.call /\ q.out = r.out /\ q.todo = r.todo
    BY <1>1 DEF RunType, Places, Midway
  <2>3. p \notin Places
    BY <1>1, CallNames, SyscallNames DEF Places, Midway, Between
  <2> QED
    BY <1>1, <2>1, <2>2, <2>3
<1>2. CASE p = "load"
  <2> DEFINE q == [r EXCEPT !.at = IF r.canOpen THEN "loader" ELSE "memfd_rw"]
  <2>1. run' = [run EXCEPT ![i] = q]
    BY <1>2 DEF GotoWith
  <2>2. /\ q \in RunType /\ q.at \in Between
        /\ q.saved = r.saved /\ q.call = r.call /\ q.out = r.out /\ q.todo = r.todo
    BY <1>2, CallNames, SyscallNames DEF RunType, Places, Midway, Between
  <2>3. p \notin Places
    BY <1>2, CallNames, SyscallNames DEF Places, Midway, Between
  <2> QED
    BY <1>2, <2>1, <2>2, <2>3
<1>3. CASE p \in Places
  <2> DEFINE q == [r EXCEPT !.at = p]
  <2>0. p \notin {"ok", "fail", "load"}
    BY <1>3, CallNames, SyscallNames DEF Places, Midway, Between
  <2>1. run' = [run EXCEPT ![i] = q]
    BY <2>0 DEF GotoWith
  <2>2. /\ q \in RunType /\ q.at = p
        /\ q.saved = r.saved /\ q.call = r.call /\ q.out = r.out /\ q.todo = r.todo
    BY <1>3 DEF RunType
  <2> QED
    BY <1>3, <2>0, <2>1, <2>2
<1> QED
  BY <1>1, <1>2, <1>3

LockType == [who : Threads \cup {NoThread}, depth : Int, own : BOOLEAN]

AppType ==
  /\ device \in Devices /\ alive \in BOOLEAN /\ dirty \in BOOLEAN /\ missed \in BOOLEAN
  /\ thr \in [Threads -> {"absent", "runs", "stopped", "gone"}]
  /\ tracer \in [Threads -> {0} \cup Runs]
  /\ lock \in LockType
  /\ ctx \in Contexts
  /\ libc \in [word : {"code", "brk"}, exec : BOOLEAN]
  /\ entry \in Numbers \cup {"none"} /\ harmed \in BOOLEAN
  /\ budget \in [signals : 0 .. MaxSignals, locks : Nat, clones : Nat]
\* The places of a call under way, and of one whose outcome is known.
OnCall == {"cont", "plant", "plant_rx", "planted", "unplant", "unplant_rx"}
OffCall == {"unplant", "unplant_rx"}
RunsType ==
  /\ run \in [Runs -> RunType]
  /\ \A i \in Runs :
       /\ run[i].at \in OnCall => run[i].call # "none"
       /\ run[i].at \in OffCall => run[i].out # "none"
InjectType == AppType /\ RunsType

LEMMA SpendFacts ==
  ASSUME AppType, NEW b \in {"signals", "locks", "clones"}, Spend(b)
  PROVE  /\ budget' \in [signals : 0 .. MaxSignals, locks : Nat, clones : Nat]
         /\ b = "signals" => budget'.signals < MaxSignals
         /\ b # "signals" => budget'.signals = budget.signals
<1> USE AppAssumption
<1>1. CASE b = "signals"
  BY <1>1 DEF AppType, Spend
<1>2. CASE b = "locks"
  BY <1>2 DEF AppType, Spend
<1>3. CASE b = "clones"
  BY <1>3 DEF AppType, Spend
<1> QED
  BY <1>1, <1>2, <1>3

\* A run that is over has nothing left.
LEMMA OverFacts ==
  ASSUME NEW p \in Places
  PROVE  Over(p) \in RunType /\ Over(p).at = p
BY AppAssumption DEF Over, Idle, RunType, Contexts

LEMMA PlaceNames ==
  /\ {"idle", "stage", "stale", "list", "seize", "exit", "done"} \cap Midway = {}
  /\ Between \cap {"cont", "plant", "plant_rx", "planted", "unplant", "unplant_rx",
                   "loaded", "failed"} = {}
BY CallNames, SyscallNames DEF Midway, Between

LEMMA LockTypes ==
  ASSUME AppType
  PROVE  /\ \A w \in Threads \cup {NoThread}, d \in Int :
              /\ [lock EXCEPT !.depth = d, !.who = w] \in LockType
              /\ [lock EXCEPT !.who = w, !.depth = d] \in LockType
         /\ lock.depth - 1 \in Int /\ lock.depth + 1 \in Int
         /\ Unlocked \in LockType
<1>1. lock \in LockType /\ lock.depth - 1 \in Int /\ lock.depth + 1 \in Int
  BY DEF AppType, LockType
<1>2. ASSUME NEW w \in Threads \cup {NoThread}, NEW d \in Int
      PROVE  /\ [lock EXCEPT !.depth = d, !.who = w] \in LockType
             /\ [lock EXCEPT !.who = w, !.depth = d] \in LockType
  BY <1>1 DEF LockType
<1> QED
  BY <1>1, <1>2, AppAssumption DEF Unlocked

\* The steps of the app alone.
LEMMA AppStepType ==
  ASSUME InjectType, NEW t \in Threads,
         AppLock(t) \/ AppUnlock(t) \/ AppClone(t) \/ AppThreadExit(t) \/ AppTraps(t)
         \/ MainEnters \/ MainReturnsAlone
  PROVE  InjectType'
<1>1. UNCHANGED run
  BY DEF AppLock, AppUnlock, AppClone, AppThreadExit, AppTraps, MainEnters, MainReturnsAlone
<1>2. RunsType'
  BY <1>1 DEF InjectType, RunsType
<1>3. AppType'
  <2> USE AppAssumption DEF InjectType, Contexts
  <2>1. CASE AppLock(t)
    BY <2>1, SpendFacts DEF AppLock, AppType, LockType, late
  <2>2. CASE AppUnlock(t)
    BY <2>2, LockTypes DEF AppUnlock, AppType, LockType, late
  <2>3. CASE AppClone(t)
    BY <2>3, SpendFacts DEF AppClone, AppType, late
  <2>4. CASE AppThreadExit(t)
    BY <2>4 DEF AppThreadExit, AppType, late
  <2>5. CASE AppTraps(t)
    BY <2>5 DEF AppTraps, AppType, late
  <2>6. CASE MainEnters
    <3>1. lock' = [lock EXCEPT !.who = Main, !.depth = @ + 1]
      BY <2>6 DEF MainEnters
    <3>2. lock' \in LockType
      BY <3>1, LockTypes
    <3> QED
      BY <2>6, <3>2 DEF MainEnters, AppType, late
  <2>7. CASE MainReturnsAlone
    BY <2>7, LockTypes DEF MainReturnsAlone, AppType, late
  <2> QED
    BY <2>1, <2>2, <2>3, <2>4, <2>5, <2>6, <2>7
<1> QED
  BY <1>2, <1>3 DEF InjectType

LEMMA ReleasedFacts ==
  ASSUME AppType, NEW i, Released(i)
  PROVE  /\ thr' \in [Threads -> {"absent", "runs", "stopped", "gone"}]
         /\ tracer' \in [Threads -> {0} \cup Runs]
         /\ \A t \in Threads :
              /\ tracer'[t] = IF tracer[t] = i THEN 0 ELSE tracer[t]
              /\ thr'[t] = IF tracer[t] = i /\ thr[t] = "stopped" THEN "runs" ELSE thr[t]
BY DEF Released, AppType

LEMMA LandedType ==
  ASSUME InjectType, NEW i \in Runs, NEW out \in {"got", "zero", "err"},
         At(i, "cont"), Landed(i, out)
  PROVE  /\ RunsType' /\ ctx' \in Contexts
         /\ thr' \in [Threads -> {"absent", "runs", "stopped", "gone"}]
         /\ \A j \in Runs : j # i => run'[j] = run[j]
         /\ run'[i].saved = run[i].saved /\ run'[i].word = run[i].word
         /\ IF Calls[run[i].call].landing = "libc" /\ ~ device.gadget
            THEN run'[i].at = "unplant"
            ELSE run'[i].at \in Midway \ OnCall
<1> DEFINE c == run[i].call
           r == [run[i] EXCEPT !.conts = 0, !.garbled = FALSE]
<1>1. run[i] \in RunType /\ c \in DOMAIN Calls
  BY DEF InjectType, RunsType, RunType, At, OnCall
<1>2. r \in RunType /\ r.saved = run[i].saved /\ r.call = c /\ r.word = run[i].word
  BY <1>1 DEF RunType
<1>3. CASE Calls[c].landing = "libc" /\ ~ device.gadget
  <2> DEFINE q == [r EXCEPT !.out = out]
  <2>1. q \in RunType /\ q.saved = run[i].saved /\ q.call = c /\ q.out = out /\ q.word = run[i].word
    BY <1>2 DEF RunType
  <2>2. GotoWith(i, q, "unplant")
    BY <1>3 DEF Landed
  <2>3. "unplant" \in Places /\ run \in [Runs -> RunType]
    BY DEF Places, Midway, InjectType, RunsType
  <2> HIDE DEF q
  <2>4. /\ run' \in [Runs -> RunType] /\ \A j \in Runs : j # i => run'[j] = run[j]
        /\ run'[i].at = "unplant" /\ run'[i].call = c /\ run'[i].out = out
        /\ run'[i].saved = run[i].saved /\ run'[i].word = run[i].word
    BY <2>1, <2>2, <2>3, GotoWithFacts
  <2>5. RunsType'
    BY <1>1, <2>4, CallNames DEF InjectType, RunsType
  <2> QED
    BY <1>1, <1>3, <2>4, <2>5 DEF Landed, InjectType, AppType, RunType
<1>4. CASE ~ (Calls[c].landing = "libc" /\ ~ device.gadget)
  <2> DEFINE q == [r EXCEPT !.call = "none"]
             p == Calls[c][out]
  <2>1. q \in RunType /\ q.saved = run[i].saved /\ q.word = run[i].word
    BY <1>2 DEF RunType
  <2>2. GotoWith(i, q, p)
    BY <1>4 DEF Landed
  <2>3. p \in Between \cup {"ok", "fail"} /\ run \in [Runs -> RunType]
    BY <1>1, CallTable DEF InjectType, RunsType
  <2> HIDE DEF q, p
  <2>4. p \in Places \cup {"ok", "fail", "load"}
    BY <2>3 DEF Places, Midway
  <2>5. /\ run' \in [Runs -> RunType] /\ \A j \in Runs : j # i => run'[j] = run[j]
        /\ run'[i].word = run[i].word /\ run'[i].saved = run[i].saved
        /\ p \in Places => run'[i].at = p
        /\ p \in {"ok", "fail"} => run'[i].at \in {"loaded", "failed"}
    BY <2>1, <2>2, <2>3, <2>4, GotoWithFacts
  <2>6. run'[i].at \in Midway \ OnCall
    BY <2>3, <2>5, PlaceNames DEF Places, Midway, OnCall
  <2>7. RunsType'
    BY <2>5, <2>6 DEF InjectType, RunsType, OnCall, OffCall
  <2> QED
    BY <1>1, <1>4, <2>5, <2>6, <2>7 DEF Landed, InjectType, AppType, RunType
<1> QED
  BY <1>3, <1>4

\* The steps of the main thread inside a function that run i called.
LEMMA CalledType ==
  ASSUME InjectType, NEW i \in Runs,
         MainFaults(i) \/ CallStopped(i) \/ \E out \in {"got", "zero"} : MainReturns(i, out)
  PROVE  InjectType'
<1>1. CASE MainFaults(i)
  BY <1>1, LandedType, SpendFacts DEF MainFaults, InjectType, AppType, late
<1>2. CASE CallStopped(i)
  <2>1. CASE Landed(i, "err")
    BY <1>2, <2>1, LandedType, SpendFacts DEF CallStopped, InjectType, AppType, late
  <2>2. CASE run' = [run EXCEPT ![i].conts = @ + 1] /\ UNCHANGED <<thr, ctx>>
    <3>1. run' = [run EXCEPT ![i] = [run[i] EXCEPT !.conts = @ + 1]]
      BY <2>2
    <3>2. LET q == [run[i] EXCEPT !.conts = @ + 1]
          IN  q \in RunType /\ q.at = run[i].at /\ q.call = run[i].call /\ q.out = run[i].out
      BY DEF InjectType, RunsType, RunType
    <3>3. RunsType'
      BY <3>1, <3>2 DEF InjectType, RunsType
    <3> QED
      BY <1>2, <2>2, <3>3, SpendFacts DEF CallStopped, InjectType, AppType, late
  <2> QED
    BY <1>2, <2>1, <2>2 DEF CallStopped
<1>3. ASSUME NEW out \in {"got", "zero"}, MainReturns(i, out) PROVE InjectType'
  <2>1. At(i, "cont") /\ Landed(i, out) /\ lock' = Unlocked
        /\ UNCHANGED <<device, alive, tracer, libc, late, budget, dirty, missed>>
    BY <1>3 DEF MainReturns
  <2>2. lock' \in LockType
    BY <2>1, LockTypes DEF InjectType
  <2>3. /\ RunsType' /\ ctx' \in Contexts
        /\ thr' \in [Threads -> {"absent", "runs", "stopped", "gone"}]
    BY <2>1, LandedType
  <2> QED
    BY <2>1, <2>2, <2>3 DEF InjectType, AppType, late
<1> QED
  BY <1>1, <1>2, <1>3

\* A run goes to p, and nothing else changes in it.
LEMMA GotoFacts ==
  ASSUME InjectType, NEW i \in Runs, NEW p \in Places \cup {"ok", "fail", "load"}, Goto(i, p)
  PROVE  /\ run' \in [Runs -> RunType]
         /\ \A j \in Runs : j # i => run'[j] = run[j]
         /\ run'[i].saved = run[i].saved /\ run'[i].call = run[i].call
         /\ run'[i].out = run[i].out /\ run'[i].todo = run[i].todo
         /\ run'[i].word = run[i].word /\ run'[i].garbled = run[i].garbled
         /\ p \in Places => run'[i].at = p
         /\ p \in {"ok", "fail"} => run'[i].at \in {"loaded", "failed"}
         /\ p = "load" => run'[i].at \in Between
BY GotoWithFacts DEF Goto, InjectType, RunsType

LEMMA ToExitFacts ==
  ASSUME RunsType, NEW i \in Runs, NEW p \in Places \ OnCall,
         run' = [run EXCEPT ![i] = Over(p)]
  PROVE  /\ RunsType' /\ run'[i].at = p
         /\ \A j \in Runs : j # i => run'[j] = run[j]
BY OverFacts DEF RunsType, OnCall, OffCall

LEMMA DiesFacts ==
  ASSUME AppType, NEW i, Dies(i)
  PROVE  /\ Released(i) /\ ctx' \in Contexts /\ dirty' \in BOOLEAN
         /\ entry' \in Numbers \cup {"none"}
         /\ ~ dirty' => ~ dirty
         /\ IF tracer[Main] = i
            THEN /\ entry' = "none"
                 /\ ~ dirty' => ctx = "own" /\ ctx' = "own" /\ libc = [word |-> "code", exec |-> TRUE]
            ELSE entry' = entry /\ dirty' = dirty
<1>1. PICK c \in LeftAt(i) :
        ctx' = c /\ dirty' = (dirty \/ (tracer[Main] = i /\ (c # "own" \/ libc # [word |-> "code", exec |-> TRUE])))
  BY DEF Dies
<1>2. c \in {ctx, "lost"}
  BY DEF LeftAt
<1> QED
  BY <1>1, <1>2 DEF AppType, Dies, Contexts

\* The steps of a run outside the closure of inject_library.
LEMMA OutsideType ==
  ASSUME InjectType, NEW i \in Runs,
         \/ Start(i) \/ Stage(i) \/ ReleaseStale(i) \/ Crash(i) \/ ListTids(i)
         \/ \E t \in Threads : StopTid(i, t)
         \/ Seized(i) \/ Detach(i) \/ AppGone(i) \/ Exit(i)
  PROVE  InjectType'
<1> USE PlaceNames DEF Places, OnCall, OffCall
<1>1. CASE Start(i) \/ Stage(i)
  <2>1. RunsType'
    <3>1. CASE ToExit(i)
      BY <3>1, ToExitFacts DEF ToExit, InjectType
    <3>2. ASSUME NEW p \in {"stage", "stale"}, Goto(i, p) PROVE RunsType'
      BY <3>2, GotoFacts DEF InjectType, RunsType
    <3> QED
      BY <1>1, <3>1, <3>2 DEF Start, Stage
  <2> QED
    BY <1>1, <2>1 DEF Start, Stage, app, late, InjectType, AppType
<1>2. CASE ReleaseStale(i)
  <2> DEFINE j == tracer[Main]
  <2>1. CASE j = 0 /\ Goto(i, "list") /\ UNCHANGED <<thr, tracer, ctx, entry, dirty>>
    <3>1. RunsType'
      BY <2>1, GotoFacts DEF InjectType, RunsType
    <3> QED
      BY <1>2, <2>1, <3>1 DEF ReleaseStale, InjectType, AppType
  <2>2. CASE j # 0 /\ Dies(j) /\ run' = [run EXCEPT ![j] = Over("done"), ![i].at = "list"]
    <3>1. j \in Runs
      BY <2>2, AppAssumption DEF InjectType, AppType
    <3>2. RunsType'
      BY <2>2, <3>1, OverFacts DEF InjectType, RunsType, RunType
    <3> QED
      BY <1>2, <2>2, <3>2, DiesFacts, ReleasedFacts DEF ReleaseStale, InjectType, AppType
  <2> QED
    BY <1>2, <2>1, <2>2 DEF ReleaseStale
<1>3. CASE Crash(i)
  <2>1. RunsType'
    BY <1>3, ToExitFacts DEF Crash, InjectType
  <2>2. /\ thr' \in [Threads -> {"absent", "runs", "stopped", "gone"}]
        /\ tracer' \in [Threads -> {0} \cup Runs]
        /\ ctx' \in Contexts /\ dirty' \in BOOLEAN /\ entry' \in Numbers \cup {"none"}
    BY <1>3, DiesFacts, ReleasedFacts DEF Crash, InjectType
  <2> QED
    BY <1>3, <2>1, <2>2 DEF Crash, InjectType, AppType
<1>4. CASE ListTids(i)
  <2> DEFINE q == [run[i] EXCEPT !.at = "seize",
                                 !.todo = {t \in Threads : thr[t] \in {"runs", "stopped"}}]
  <2>1. q \in RunType /\ q.at = "seize"
    BY DEF InjectType, RunsType, RunType
  <2>2. run' = [run EXCEPT ![i] = q] /\ UNCHANGED <<device, app, budget, dirty, missed>>
    BY <1>4 DEF ListTids
  <2>3. RunsType'
    BY <2>1, <2>2 DEF InjectType, RunsType
  <2> QED
    BY <2>2, <2>3 DEF InjectType, AppType, app, late
<1>5. ASSUME NEW t \in Threads, StopTid(i, t) PROVE InjectType'
  <2>1. CASE ToExit(i) /\ UNCHANGED <<thr, tracer>>
    BY <1>5, <2>1, ToExitFacts DEF StopTid, ToExit, InjectType, AppType, late
  <2>2. CASE /\ thr' = [thr EXCEPT ![t] = "stopped"]
             /\ tracer' = [tracer EXCEPT ![t] = i]
             /\ run' = [run EXCEPT ![i].todo = @ \ {t}]
    BY <1>5, <2>2 DEF StopTid, InjectType, AppType, RunsType, RunType, late
  <2> QED
    BY <1>5, <2>1, <2>2 DEF StopTid
<1>6. CASE Seized(i)
  <2>1. "mmap_page" \in Between
    BY SyscallNames DEF Between
  <2>2. run' = [run EXCEPT ![i].at = "mmap_page", ![i].saved = ctx]
    BY <1>6 DEF Seized
  <2>3. RunsType'
    <3> DEFINE q == [run[i] EXCEPT !.at = "mmap_page", !.saved = ctx]
    <3>0. "mmap_page" \in Places /\ ctx \in Contexts /\ run[i] \in RunType
      BY <2>1 DEF InjectType, AppType, RunsType, Midway
    <3>1. q \in RunType /\ q.at = "mmap_page"
      BY <3>0 DEF RunType
    <3>2. run' = [run EXCEPT ![i] = q]
      BY <2>2
    <3> QED
      BY <3>1, <3>2 DEF InjectType, RunsType
  <2> QED
    BY <1>6, <2>3 DEF Seized, InjectType, AppType, app, late
<1>7. CASE Detach(i)
  <2>1. run[i].saved \in Contexts
    BY DEF InjectType, RunsType, RunType
  <2> QED
    BY <1>7, <2>1, ToExitFacts, ReleasedFacts DEF Detach, ToExit, RunsOn, InjectType, AppType
<1>8. CASE AppGone(i)
  BY <1>8, ToExitFacts DEF AppGone, ToExit, InjectType, AppType, app, late
<1>9. CASE Exit(i)
  BY <1>9, ToExitFacts, ReleasedFacts DEF Exit, InjectType, AppType, late
<1> QED
  BY <1>1, <1>2, <1>3, <1>4, <1>5, <1>6, <1>7, <1>8, <1>9

\* A run between its system calls and calls goes on to the next of them, or
\* ends the closure of inject_library.
LEMMA NextPlace ==
  ASSUME InjectType, NEW i \in Runs, NEW r \in RunType, r.saved = run[i].saved,
         NEW p \in Between \cup {"ok", "fail", "load"}, GotoWith(i, r, p)
  PROVE  /\ RunsType'
         /\ \A j \in Runs : j # i => run'[j] = run[j]
         /\ run'[i].saved = run[i].saved
         /\ run'[i].at \in Between \cup {"loaded", "failed"}
<1>1. p \in Places \cup {"ok", "fail", "load"} /\ run \in [Runs -> RunType]
  BY DEF Places, Midway, InjectType, RunsType
<1>2. /\ run' \in [Runs -> RunType] /\ \A j \in Runs : j # i => run'[j] = run[j]
      /\ run'[i].saved = run[i].saved
      /\ p \in Places => run'[i].at = p
      /\ p \in {"ok", "fail"} => run'[i].at \in {"loaded", "failed"}
      /\ p = "load" => run'[i].at \in Between
  BY <1>1, GotoWithFacts
<1>3. p \in Between => p \in Places
  BY DEF Places, Midway
<1>4. run'[i].at \in Between \cup {"loaded", "failed"}
  BY <1>2, <1>3
<1>5. RunsType'
  BY <1>2, <1>4, PlaceNames DEF InjectType, RunsType, OnCall, OffCall
<1> QED
  BY <1>2, <1>4, <1>5

\* A run leaves a planted call that did not come off.
LEMMA LeavesCall ==
  ASSUME InjectType, NEW i \in Runs, run[i].call # "none",
         \/ PlantFails(i)
         \/ /\ run[i].out # "none"
            /\ GotoWith(i, [run[i] EXCEPT !.call = "none", !.out = "none"],
                        Calls[run[i].call][run[i].out])
  PROVE  /\ RunsType'
         /\ \A j \in Runs : j # i => run'[j] = run[j]
         /\ run'[i].saved = run[i].saved
         /\ run'[i].at \in Between \cup {"loaded", "failed"}
<1>1. run[i] \in RunType /\ run[i].call \in DOMAIN Calls
  BY DEF InjectType, RunsType, RunType
<1>2. CASE PlantFails(i)
  <2> DEFINE r == [run[i] EXCEPT !.call = "none"]
             p == Calls[run[i].call].err
  <2>1. r \in RunType /\ r.saved = run[i].saved
    BY <1>1 DEF RunType
  <2>2. p \in Between \cup {"ok", "fail", "load"}
    BY <1>1, CallTable
  <2>3. GotoWith(i, r, p)
    BY <1>2 DEF PlantFails
  <2> HIDE DEF r, p
  <2> QED
    BY <2>1, <2>2, <2>3, NextPlace
<1>3. CASE /\ run[i].out # "none"
           /\ GotoWith(i, [run[i] EXCEPT !.call = "none", !.out = "none"],
                       Calls[run[i].call][run[i].out])
  <2> DEFINE r == [run[i] EXCEPT !.call = "none", !.out = "none"]
             p == Calls[run[i].call][run[i].out]
  <2>1. r \in RunType /\ r.saved = run[i].saved
    BY <1>1 DEF RunType
  <2>2. run[i].out \in {"got", "zero", "err"}
    BY <1>1, <1>3 DEF RunType
  <2>3. p \in Between \cup {"ok", "fail", "load"}
    BY <1>1, <2>2, CallTable
  <2>4. GotoWith(i, r, p)
    BY <1>3
  <2> HIDE DEF r, p
  <2> QED
    BY <2>1, <2>3, <2>4, NextPlace
<1> QED
  BY <1>2, <1>3

\* The registers of a call are set.
LEMMA SetRegsFacts ==
  ASSUME InjectType, NEW i \in Runs, NEW name \in DOMAIN Calls, SetRegs(i, name)
  PROVE  /\ RunsType' /\ ctx' = "call"
         /\ thr' = [thr EXCEPT ![Main] = "runs"]
         /\ \A j \in Runs : j # i => run'[j] = run[j]
         /\ run'[i].saved = run[i].saved /\ run'[i].at = "cont" /\ run'[i].call = name
         /\ run'[i].word = run[i].word /\ run'[i].garbled = (entry # "none")
         /\ entry' = "none" /\ harmed' = (harmed \/ entry # "none") /\ harmed' \in BOOLEAN
<1> DEFINE q == [run[i] EXCEPT !.at = "cont", !.call = name, !.conts = 0, !.garbled = entry # "none"]
<1>1. run' = [run EXCEPT ![i] = q]
  BY DEF SetRegs
<1>2. /\ q \in RunType /\ q.at = "cont" /\ q.call = name /\ q.saved = run[i].saved
      /\ q.call # "none" /\ q.word = run[i].word /\ q.garbled = (entry # "none")
  <2>1. run[i] \in RunType /\ "cont" \in Places /\ name # "none"
    BY CallNames DEF InjectType, RunsType, Places, Midway
  <2> QED
    BY <2>1 DEF RunType
<1>3. RunsType'
  BY <1>1, <1>2 DEF InjectType, RunsType, OffCall
<1>4. harmed \in BOOLEAN
  BY DEF InjectType, AppType
<1> QED
  BY <1>1, <1>2, <1>3, <1>4 DEF SetRegs, RunsOn, InjectType, RunsType

\* A signal of those there may be has been.
Spent == budget.signals < MaxSignals
\* Only a signal's stop leaves the main thread at the entry of a system call.
SignalInv ==
  entry # "none" \/ harmed \/ (\E i \in Runs : At(i, "cont") /\ run[i].garbled) => Spent

\* The two stops of a remote system call, n of them a signal's.
LEMMA SteppedType ==
  ASSUME AppType, NEW nr \in Numbers, NEW n \in 0 .. 2, Stepped(nr, n)
  PROVE  /\ budget' \in [signals : 0 .. MaxSignals, locks : Nat, clones : Nat]
         /\ budget'.signals = budget.signals - n
         /\ entry' \in Numbers \cup {"none"}
<1>1. /\ budget \in [signals : 0 .. MaxSignals, locks : Nat, clones : Nat]
      /\ n <= budget.signals /\ budget' = [budget EXCEPT !.signals = @ - n]
  BY DEF AppType, Stepped
<1>2. budget.signals - n \in 0 .. MaxSignals
  BY <1>1, AppAssumption
<1> QED
  BY <1>1, <1>2 DEF Stepped

\* Without a signal the call itself runs, and nothing is left for later.
LEMMA SteppedFacts ==
  ASSUME InjectType, SignalInv, NEW nr \in Numbers, NEW n \in 0 .. 2, Stepped(nr, n)
  PROVE  /\ entry' # "none" \/ harmed \/ Astray(nr) \/ ~ Ran(nr, n) => Spent'
         /\ Spent => Spent'
<1>1. /\ budget.signals \in 0 .. MaxSignals /\ n \in Int
      /\ budget'.signals = budget.signals - n
  BY SteppedType DEF InjectType, AppType
<1>2. Spent => Spent'
  BY <1>1, AppAssumption DEF Spent
<1>3. n # 0 => Spent'
  BY <1>1, AppAssumption DEF Spent
<1>4. entry # "none" \/ harmed => Spent
  BY DEF SignalInv
<1>5. entry' # "none" => n = 1 \/ entry # "none"
  BY DEF Stepped
<1>6. Astray(nr) => entry # "none"
  BY DEF Astray
<1>7. ~ Ran(nr, n) => entry # "none" \/ n # 0
  BY DEF Ran
<1> QED
  BY <1>2, <1>3, <1>4, <1>5, <1>6, <1>7

\* The steps of a run between seizing the app and the end of the closure.
ClosureStep(i) ==
  \/ Syscall(i) \/ SymbolMissing(i) \/ BeginCall(i) \/ Plant(i) \/ PlantExec(i) \/ Unplant(i)
  \/ UnplantExec(i)
  \/ MainFaults(i) \/ CallStopped(i) \/ \E out \in {"got", "zero"} : MainReturns(i, out)

\* A system call, or a function that is not there, changes only the place, the
\* signals still to come and what one of them leaves.
LEMMA MoveFacts ==
  ASSUME InjectType, NEW i \in Runs, Syscall(i) \/ SymbolMissing(i)
  PROVE  /\ RunsType' /\ run[i].at \in Between
         /\ \A j \in Runs : j # i => run'[j] = run[j]
         /\ run'[i].saved = run[i].saved
         /\ run'[i].at \in Between \cup {"loaded", "failed"}
         /\ budget' \in [signals : 0 .. MaxSignals, locks : Nat, clones : Nat]
         /\ entry' \in Numbers \cup {"none"} /\ harmed' \in BOOLEAN
         /\ UNCHANGED <<device, alive, thr, tracer, lock, ctx, libc, dirty, missed>>
         /\ SignalInv => /\ entry' # "none" \/ harmed' => Spent'
                         /\ Spent => Spent'
<1>1. CASE Syscall(i)
  <2> DEFINE p == run[i].at
             r == IF p = "close" THEN [run[i] EXCEPT !.canOpen = TRUE] ELSE run[i]
  <2>1. /\ p \in DOMAIN Syscalls /\ Syscalls[p].nr \in Numbers
        /\ UNCHANGED <<device, alive, thr, tracer, lock, ctx, libc, dirty, missed>>
    BY <1>1, SyscallTable DEF Syscall, InSyscall
  <2>2. r \in RunType /\ r.saved = run[i].saved
    BY DEF InjectType, RunsType, RunType
  <2>3. PICK n \in 0 .. 2 :
          /\ Stepped(Syscalls[p].nr, n)
          /\ harmed' = (harmed \/ Astray(Syscalls[p].nr))
          /\ \E out \in Outcomes(Syscalls[p].nr, n, Answers(p)) :
               \/ GotoWith(i, r, Syscalls[p][out])
               \/ p = "write" /\ out = "junk" /\ GotoWith(i, r, Syscalls[p].ok)
    BY <1>1 DEF Syscall
  <2>O. \A out \in Outcomes(Syscalls[p].nr, n, Answers(p)) : out \in {"ok", "fail", "junk"}
    BY DEF Outcomes, Answers
  <2>4. PICK q \in Between \cup {"ok", "fail", "load"} : GotoWith(i, r, q)
    BY <2>1, <2>3, <2>O, SyscallTable
  <2>5. /\ budget' \in [signals : 0 .. MaxSignals, locks : Nat, clones : Nat]
        /\ entry' \in Numbers \cup {"none"} /\ harmed' \in BOOLEAN
    BY <2>1, <2>3, SteppedType DEF InjectType, AppType, Astray
  <2>7. SignalInv => (entry' # "none" \/ harmed' => Spent') /\ (Spent => Spent')
    BY <2>1, <2>3, SteppedFacts
  <2> HIDE DEF r
  <2>6. /\ RunsType' /\ \A j \in Runs : j # i => run'[j] = run[j]
        /\ run'[i].saved = run[i].saved
        /\ run'[i].at \in Between \cup {"loaded", "failed"}
    BY <2>2, <2>4, NextPlace
  <2> QED
    BY <2>1, <2>5, <2>6, <2>7 DEF Between
<1>2. CASE SymbolMissing(i)
  <2> DEFINE p == Missing(run[i].at)
  <2>1. run[i].at \in DOMAIN Calls /\ Goto(i, p) /\ UNCHANGED <<device, app, budget, dirty, missed>>
    BY <1>2 DEF SymbolMissing, MayBeMissing, InCall
  <2>2. p \in Between \cup {"ok", "fail", "load"}
    BY <2>1, CallTable
  <2>3. run[i] \in RunType
    BY DEF InjectType, RunsType
  <2>4. GotoWith(i, run[i], p)
    BY <2>1 DEF Goto
  <2> HIDE DEF p
  <2>5. /\ RunsType' /\ \A j \in Runs : j # i => run'[j] = run[j]
        /\ run'[i].saved = run[i].saved
        /\ run'[i].at \in Between \cup {"loaded", "failed"}
    BY <2>2, <2>3, <2>4, NextPlace
  <2>6. UNCHANGED <<entry, harmed>> /\ (Spent' <=> Spent)
    BY <2>1 DEF app, late, Spent
  <2> QED
    BY <2>1, <2>5, <2>6 DEF Between, InjectType, AppType, app, SignalInv
<1> QED
  BY <1>1, <1>2

\* What a remote mprotect of libc's page leaves.
LEMMA TurnedType ==
  ASSUME AppType, NEW n
  PROVE  /\ RxAllowed \in BOOLEAN /\ WordFound \in {"code", "brk"}
         /\ \A x \in BOOLEAN : Turned(n, x) \in BOOLEAN
<1>1. device.execmod \in BOOLEAN /\ libc.exec \in BOOLEAN /\ libc.word \in {"code", "brk"}
  BY InjectorAssumption DEF AppType, DeviceType
<1> QED
  BY <1>1 DEF RxAllowed, Turned, WordFound

LEMMA MprotectType ==
  ASSUME AppType, NEW n \in 0 .. 2, Mprotect(n), harmed' \in BOOLEAN,
         libc' \in [word : {"code", "brk"}, exec : BOOLEAN]
  PROVE  AppType'
<1>1. "mprotect" \in Numbers
  BY DEF Numbers
<1>2. /\ budget' \in [signals : 0 .. MaxSignals, locks : Nat, clones : Nat]
      /\ entry' \in Numbers \cup {"none"}
  BY <1>1, SteppedType DEF Mprotect
<1> QED
  BY <1>2 DEF Mprotect, AppType

LEMMA ClosureType ==
  ASSUME InjectType, NEW i \in Runs, ClosureStep(i)
  PROVE  InjectType'
<1>H. /\ \A nr : Astray(nr) \in BOOLEAN
      /\ harmed \in BOOLEAN /\ libc \in [word : {"code", "brk"}, exec : BOOLEAN]
  BY DEF Astray, InjectType, AppType
<1>1. CASE Syscall(i) \/ SymbolMissing(i)
  BY <1>1, MoveFacts DEF InjectType, AppType
<1>2. CASE BeginCall(i)
  <2>1. ASSUME NEW name \in DOMAIN Calls, SetRegs(i, name) PROVE InjectType'
    <3>1. /\ RunsType' /\ ctx' = "call" /\ thr' = [thr EXCEPT ![Main] = "runs"]
          /\ entry' = "none" /\ harmed' \in BOOLEAN
      BY <2>1, SetRegsFacts
    <3> QED
      BY <1>2, <3>1 DEF BeginCall, InjectType, AppType, Contexts
  <2>2. CASE /\ run[i].at \in InCall
             /\ run' = [run EXCEPT ![i].at = "plant", ![i].call = run[i].at]
             /\ UNCHANGED <<ctx, thr, late>>
    <3> DEFINE q == [run[i] EXCEPT !.at = "plant", !.call = run[i].at]
    <3>1. run' = [run EXCEPT ![i] = q]
      BY <2>2
    <3>0. run[i] \in RunType /\ "plant" \in Places /\ run[i].at \in DOMAIN Calls
      BY <2>2 DEF InCall, InjectType, RunsType, Places, Midway
    <3>2. q \in RunType /\ q.at = "plant" /\ q.call # "none"
      BY <3>0, CallNames DEF RunType
    <3>3. RunsType'
      BY <3>1, <3>2 DEF InjectType, RunsType, OffCall
    <3> QED
      BY <1>2, <2>2, <3>3 DEF BeginCall, InjectType, AppType, late
  <2>3. At(i, "planted") => run[i].call \in DOMAIN Calls
    BY DEF At, InjectType, RunsType, RunType, OnCall
  <2> QED
    BY <1>2, <2>1, <2>2, <2>3 DEF BeginCall, InCall
<1>3. CASE Plant(i)
  <2>1. run[i].call # "none"
    BY <1>3 DEF Plant, At, InjectType, RunsType, OnCall
  <2>2. PICK n \in 0 .. 2 :
          /\ Mprotect(n) /\ harmed' = (harmed \/ Astray("mprotect"))
          /\ \/ /\ libc' = [word |-> "brk", exec |-> Turned(n, FALSE)]
                /\ GotoWith(i, [run[i] EXCEPT !.word = WordFound], "plant_rx") \/ PlantFails(i)
             \/ PlantFails(i) /\ UNCHANGED libc
    BY <1>3 DEF Plant
  <2>T. Turned(n, FALSE) \in BOOLEAN
    BY TurnedType DEF InjectType
  <2>3. libc' \in [word : {"code", "brk"}, exec : BOOLEAN] /\ harmed' \in BOOLEAN
    <3>1. libc' = libc \/ libc' = [word |-> "brk", exec |-> Turned(n, FALSE)]
      BY <2>2, Zenon
    <3>2. harmed' = (harmed \/ Astray("mprotect"))
      BY <2>2, Zenon
    <3>3. harmed' \in BOOLEAN
      BY <1>H, <3>2
    <3>4. [word |-> "brk", exec |-> Turned(n, FALSE)] \in [word : {"code", "brk"}, exec : BOOLEAN]
      BY <2>T
    <3> QED
      BY <1>H, <3>1, <3>3, <3>4
  <2>4. CASE PlantFails(i)
    BY <2>1, <2>2, <2>3, <2>4, LeavesCall, MprotectType DEF InjectType
  <2>5. CASE GotoWith(i, [run[i] EXCEPT !.word = WordFound], "plant_rx")
    <3> DEFINE q == [run[i] EXCEPT !.word = WordFound]
    <3>1. "plant_rx" \in Places /\ run \in [Runs -> RunType]
      BY DEF Places, Midway, InjectType, RunsType
    <3>2. q \in RunType /\ q.call = run[i].call
      BY <3>1, TurnedType DEF InjectType, RunType
    <3>G. GotoWith(i, q, "plant_rx")
      BY <2>5
    <3> HIDE DEF q
    <3>3. /\ run' \in [Runs -> RunType] /\ \A j \in Runs : j # i => run'[j] = run[j]
          /\ run'[i].at = "plant_rx" /\ run'[i].call = run[i].call
      BY <3>G, <3>1, <3>2, GotoWithFacts
    <3>4. RunsType'
      BY <2>1, <3>3 DEF InjectType, RunsType, OffCall
    <3> QED
      BY <2>2, <2>3, <3>4, MprotectType DEF InjectType
  <2> QED
    BY <2>2, <2>4, <2>5
<1>4. CASE PlantExec(i)
  <2>1. run[i].call # "none" /\ run[i] \in RunType
    BY <1>4 DEF PlantExec, At, InjectType, RunsType, OnCall
  <2>2. PICK n \in 0 .. 2 :
          /\ Mprotect(n) /\ harmed' = (harmed \/ Astray("mprotect"))
          /\ libc' = [libc EXCEPT !.exec = Turned(n, RxAllowed)]
          /\ Goto(i, "planted") \/ GotoWith(i, [run[i] EXCEPT !.out = "err"], "unplant")
    BY <1>4 DEF PlantExec
  <2>3. libc' \in [word : {"code", "brk"}, exec : BOOLEAN] /\ harmed' \in BOOLEAN
    BY <1>H, <2>2, TurnedType DEF InjectType
  <2>4. RunsType'
    <3>1. "planted" \in Places /\ "unplant" \in Places /\ run \in [Runs -> RunType]
      BY DEF Places, Midway, InjectType, RunsType
    <3>2. CASE Goto(i, "planted")
      <4>1. /\ run' \in [Runs -> RunType] /\ \A j \in Runs : j # i => run'[j] = run[j]
            /\ run'[i].at = "planted" /\ run'[i].call = run[i].call
        BY <3>1, <3>2, GotoFacts
      <4> QED
        BY <2>1, <4>1 DEF InjectType, RunsType, OffCall
    <3>3. CASE GotoWith(i, [run[i] EXCEPT !.out = "err"], "unplant")
      <4> DEFINE q == [run[i] EXCEPT !.out = "err"]
      <4>1. q \in RunType /\ q.call = run[i].call /\ q.out = "err"
        BY <2>1 DEF RunType
      <4>G. GotoWith(i, q, "unplant")
        BY <3>3
      <4> HIDE DEF q
      <4>2. /\ run' \in [Runs -> RunType] /\ \A j \in Runs : j # i => run'[j] = run[j]
            /\ run'[i].at = "unplant" /\ run'[i].call = run[i].call /\ run'[i].out = "err"
        BY <3>1, <4>G, <4>1, GotoWithFacts
      <4> QED
        BY <2>1, <4>2 DEF InjectType, RunsType
    <3> QED
      BY <2>2, <3>2, <3>3
  <2> QED
    BY <2>2, <2>3, <2>4, MprotectType DEF InjectType
<1>5. CASE Unplant(i)
  <2>1. run[i].call # "none" /\ run[i].out # "none" /\ run[i] \in RunType
    BY <1>5 DEF Unplant, At, InjectType, RunsType, OnCall, OffCall
  <2>2. PICK n \in 0 .. 2 :
          /\ Mprotect(n) /\ harmed' = (harmed \/ Astray("mprotect") \/ Turned(n, FALSE))
          /\ libc' = [word |-> PutBack(i), exec |-> Turned(n, FALSE)]
    BY <1>5 DEF Unplant
  <2>3. libc' \in [word : {"code", "brk"}, exec : BOOLEAN] /\ harmed' \in BOOLEAN
    BY <1>H, <2>1, <2>2, TurnedType DEF InjectType, PutBack, RunType
  <2>4. RunsType'
    <3> DEFINE q == [run[i] EXCEPT !.word = "code"]
    <3>1. "unplant_rx" \in Places /\ run \in [Runs -> RunType]
      BY DEF Places, Midway, InjectType, RunsType
    <3>2. q \in RunType /\ q.call = run[i].call /\ q.out = run[i].out
      BY <2>1 DEF RunType
    <3> HIDE DEF q
    <3>3. /\ run' \in [Runs -> RunType] /\ \A j \in Runs : j # i => run'[j] = run[j]
          /\ run'[i].at = "unplant_rx" /\ run'[i].call = run[i].call /\ run'[i].out = run[i].out
      <4>1. GotoWith(i, q, "unplant_rx")
        BY <1>5 DEF q, Unplant
      <4> QED
        BY <3>1, <3>2, <4>1, GotoWithFacts
    <3> QED
      BY <2>1, <3>3 DEF InjectType, RunsType
  <2> QED
    BY <2>2, <2>3, <2>4, MprotectType DEF InjectType
<1>6. CASE UnplantExec(i)
  <2>1. run[i].call # "none" /\ run[i].out # "none"
    BY <1>6 DEF UnplantExec, At, InjectType, RunsType, OnCall, OffCall
  <2>2. PICK n \in 0 .. 2 :
          /\ Mprotect(n) /\ harmed' = (harmed \/ Astray("mprotect"))
          /\ libc' = [libc EXCEPT !.exec = Turned(n, RxAllowed)]
    BY <1>6 DEF UnplantExec
  <2>3. libc' \in [word : {"code", "brk"}, exec : BOOLEAN] /\ harmed' \in BOOLEAN
    BY <1>H, <2>2, TurnedType DEF InjectType
  <2>4. RunsType'
    BY <1>6, <2>1, LeavesCall DEF UnplantExec
  <2> QED
    BY <2>2, <2>3, <2>4, MprotectType DEF InjectType
<1>7. CASE MainFaults(i) \/ CallStopped(i) \/ \E out \in {"got", "zero"} : MainReturns(i, out)
  BY <1>7, CalledType
<1> QED
  BY <1>1, <1>2, <1>3, <1>4, <1>5, <1>6, <1>7 DEF ClosureStep

-----------------------------------------------------------------------------
\* inject: what a run knows of the app it has.

\* While a run has the app, it is the tracer of its main thread, which it has
\* stopped but for its calls, and no thread is free unless one was missed.
TracedByOne ==
  /\ thr[Main] \in {"runs", "stopped"}
  /\ \A t \in Threads : tracer[t] \in {0, tracer[Main]}
  /\ \A i \in Runs :
       /\ Working(i) => tracer[Main] = i
       /\ At(i, "seize") => Main \in run[i].todo \/ (tracer[Main] = i /\ thr[Main] = "stopped")
       /\ Working(i) /\ ~ At(i, "cont") => thr[Main] = "stopped"
       /\ Working(i) /\ ~ missed => \A t \in Threads : ~ Free(t)

\* The places where the BRK may be in libc.
NeedsBrk(i) == Calls[run[i].call].landing = "libc" /\ ~ device.gadget
Planted(i) == run[i].at \in {"plant_rx", "planted", "unplant"} \/ (At(i, "cont") /\ NeedsBrk(i))
ExecOk == libc.exec \/ ~ device.execmod \/ Spent
\* What a run that has the app knows of it.
Steady(i) ==
  /\ run[i].saved = "own"
  /\ IF At(i, "cont") THEN ctx \in {"call", "locked"} ELSE ctx = "own"
  /\ libc.word = "brk" => harmed \/ Planted(i)
  /\ Planted(i) /\ ~ harmed => run[i].word = "code"
  /\ run[i].at \in {"plant", "plant_rx", "planted"} => NeedsBrk(i)
  /\ run[i].at \in {"plant_rx", "unplant_rx"} \/ ExecOk
LockBalance ==
  budget.signals = MaxSignals =>
    /\ lock.depth = (IF lock.own THEN 1 ELSE 0) + (IF ctx = "locked" THEN 1 ELSE 0)
    /\ ctx = "locked" => lock.who = Main
Clean ==
  ~ dirty /\ alive =>
    /\ LockBalance
    /\ \A i \in Runs : Working(i) => Steady(i)
    /\ (\A i \in Runs : ~ Working(i)) => ctx = "own" /\ (harmed \/ libc.word = "code") /\ ExecOk
\* A system call is pending only while a run has the main thread stopped.
EntryHeld == entry # "none" /\ alive => \E i \in Runs : Working(i) /\ ~ At(i, "cont")
InjectInv == InjectType /\ TracedByOne /\ SignalInv /\ EntryHeld /\ Clean /\ AppSurvives

LEMMA InitInject == ASSUME InjectInit PROVE InjectInv
<1>1. RunsType
  <2>1. Idle \in RunType /\ Idle.at = "idle"
    BY DEF Idle, RunType, Contexts, Places
  <2> QED
    BY <2>1 DEF InjectInit, RunsType, OnCall, OffCall
<1>2. AppType
  <2>1. budget \in [signals : 0 .. MaxSignals, locks : Nat, clones : Nat]
    BY AppAssumption, InjectorAssumption DEF InjectInit
  <2>2. lock \in LockType
    BY DEF InjectInit, LockType
  <2> QED
    BY <2>1, <2>2 DEF InjectInit, AppType, Contexts
<1>3. \A i \in Runs : run[i].at = "idle" /\ ~ Working(i) /\ ~ At(i, "seize")
  BY PlaceNames DEF InjectInit, Idle, Working, At
<1>4. TracedByOne
  BY <1>3, AppAssumption DEF InjectInit, TracedByOne
<1>5. Clean
  BY <1>3 DEF InjectInit, Clean, LockBalance, ExecOk
<1>6. SignalInv /\ EntryHeld
  BY <1>3 DEF InjectInit, SignalInv, EntryHeld, At
<1> QED
  BY <1>1, <1>2, <1>4, <1>5, <1>6 DEF InjectInit, InjectInv, InjectType, AppSurvives

\* Two runs do not have the app at once.
LEMMA OneWorks ==
  ASSUME TracedByOne, NEW i \in Runs, NEW j \in Runs, Working(i), j # i
  PROVE  ~ Working(j) /\ tracer[Main] # j
BY DEF TracedByOne

\* A step of a run that has the app and keeps it.
LEMMA WorkerStep ==
  ASSUME InjectInv, InjectType', NEW i \in Runs, Working(i), Working(i)', alive,
         \A j \in Runs : j # i => run'[j] = run[j],
         UNCHANGED <<device, alive, tracer, dirty, missed>>,
         \A t \in Threads : t # Main => thr'[t] = thr[t],
         thr'[Main] \in {"runs", "stopped"},
         ~ At(i, "cont")' => thr'[Main] = "stopped",
         entry' # "none" \/ harmed' \/ (At(i, "cont")' /\ run'[i].garbled) => Spent',
         At(i, "cont")' => entry' = "none",
         ~ dirty => Steady(i)' /\ LockBalance'
  PROVE  InjectInv'
<1> USE AppAssumption
<1>1. \A j \in Runs : j # i => ~ Working(j) /\ tracer[Main] # j
  BY OneWorks DEF InjectInv
<1>2. tracer[Main] = i /\ tracer'[Main] = i
  BY DEF InjectInv, TracedByOne
<1>3. \A j \in Runs : j # i => ~ Working(j)'
  BY <1>1 DEF Working
<1>4. ~ missed' => \A t \in Threads : ~ Free(t)'
  <2> SUFFICES ASSUME ~ missed', NEW t \in Threads PROVE ~ Free(t)'
    OBVIOUS
  <2>1. ~ Free(t) /\ i # 0
    BY DEF InjectInv, TracedByOne, Runs
  <2> QED
    BY <1>2, <2>1 DEF Free
<1>5. \A j \in Runs : At(j, "seize")' => j # i /\ At(j, "seize")
  BY PlaceNames DEF Working, At
<1>6. TracedByOne'
  <2>1. \A t \in Threads : tracer'[t] \in {0, tracer'[Main]}
    BY DEF InjectInv, TracedByOne
  <2>2. \A j \in Runs : At(j, "seize")' => Main \in run'[j].todo
    BY <1>1, <1>5 DEF InjectInv, TracedByOne
  <2> QED
    BY <1>2, <1>3, <1>4, <2>1, <2>2 DEF TracedByOne
<1>7. Clean'
  BY <1>3 DEF Clean
<1>8. SignalInv'
  <2>1. \A j \in Runs : j # i => ~ At(j, "cont")'
    BY <1>3 DEF Working, Midway, At
  <2> QED
    BY <2>1 DEF SignalInv
<1>9. EntryHeld'
  BY DEF EntryHeld
<1> QED
  BY <1>6, <1>7, <1>8, <1>9 DEF InjectInv, AppSurvives

\* A step of a run that has not seized the app and does not seize it.
LEMMA OutsideStep ==
  ASSUME InjectInv, NEW i \in Runs, ~ Working(i), ~ Working(i)',
         \A j \in Runs : j # i => run'[j] = run[j],
         UNCHANGED <<device, alive, lock, ctx, libc, late, budget, dirty, missed>>
  PROVE  SignalInv' /\ EntryHeld' /\ Clean' /\ AppSurvives'
<1>0. UNCHANGED <<entry, harmed>> /\ (Spent' <=> Spent)
  BY DEF late, Spent
<1>1. \A j \in Runs : Working(j)' <=> Working(j)
  BY DEF Working
<1>2. \A j \in Runs : Working(j) => (Steady(j)' <=> Steady(j))
  BY <1>0 DEF Working, Steady, Planted, NeedsBrk, At, ExecOk
<1>3. (LockBalance' <=> LockBalance) /\ (ExecOk' <=> ExecOk)
  BY <1>0 DEF LockBalance, ExecOk
<1>4. SignalInv'
  <2>1. \A j \in Runs : At(j, "cont")' => At(j, "cont") /\ run'[j] = run[j]
    BY DEF Working, Midway, At
  <2> QED
    BY <1>0, <2>1 DEF InjectInv, SignalInv
<1>5. EntryHeld'
  <2>1. \A j \in Runs : Working(j) /\ ~ At(j, "cont") => Working(j)' /\ ~ At(j, "cont")'
    BY DEF Working, At
  <2> QED
    BY <1>0, <2>1 DEF InjectInv, EntryHeld
<1> QED
  BY <1>0, <1>1, <1>2, <1>3, <1>4, <1>5 DEF InjectInv, Clean, AppSurvives

-----------------------------------------------------------------------------
\* inject: the steps of the closure of inject_library.

LEMMA HarmStays ==
  ASSUME NEW i \in Runs, Syscall(i) \/ SymbolMissing(i)
  PROVE  harmed => harmed'
BY DEF Syscall, SymbolMissing, app, late

\* The steps of the closure.
LEMMA MoveInv ==
  ASSUME InjectInv, NEW i \in Runs, Syscall(i) \/ SymbolMissing(i)
  PROVE  InjectInv'
<1> USE PlaceNames
<1>1. /\ run[i].at \in Between
      /\ \A j \in Runs : j # i => run'[j] = run[j]
      /\ run'[i].saved = run[i].saved
      /\ run'[i].at \in Between \cup {"loaded", "failed"}
      /\ entry' # "none" \/ harmed' => Spent'
      /\ Spent => Spent'
      /\ harmed => harmed'
      /\ UNCHANGED <<device, alive, thr, tracer, lock, ctx, libc, dirty, missed>>
  BY MoveFacts, HarmStays DEF InjectInv
<1>2. InjectType'
  BY ClosureType DEF InjectInv, ClosureStep
<1>3. alive
  BY DEF Syscall, SymbolMissing
<1>4. Working(i) /\ Working(i)' /\ ~ At(i, "cont") /\ ~ At(i, "cont")' /\ ~ Planted(i) /\ ~ At(i, "plant_rx")
  BY <1>1 DEF Working, Midway, At, Planted
<1>5. thr[Main] = "stopped"
  BY <1>4 DEF InjectInv, TracedByOne
<1>6. ASSUME ~ dirty PROVE Steady(i)' /\ LockBalance'
  <2>1. Steady(i) /\ LockBalance
    BY <1>3, <1>4, <1>6 DEF InjectInv, Clean
  <2>2. LockBalance'
    <3>1. budget'.signals = MaxSignals => budget.signals = MaxSignals
      BY <1>1, <1>2, AppAssumption DEF InjectInv, InjectType, AppType, Spent
    <3> QED
      BY <1>1, <2>1, <3>1 DEF LockBalance
  <2>3. ExecOk'
    BY <1>1, <1>4, <2>1 DEF Steady, ExecOk
  <2>4. run'[i].saved = "own" /\ ctx' = "own" /\ (libc'.word = "brk" => harmed')
    BY <1>1, <1>4, <2>1 DEF Steady
  <2>5. run'[i].at \notin {"plant", "plant_rx", "planted"} /\ ~ Planted(i)'
    BY <1>1 DEF Planted, At
  <2> QED
    BY <1>4, <2>2, <2>3, <2>4, <2>5 DEF Steady
<1> QED
  BY <1>1, <1>2, <1>3, <1>4, <1>5, <1>6, WorkerStep

\* The registers of a call are set, with the BRK it needs planted.
LEMMA SetRegsInv ==
  ASSUME InjectInv, NEW i \in Runs, NEW name \in DOMAIN Calls, BeginCall(i), SetRegs(i, name),
         Working(i), ~ At(i, "cont"), run[i].at \notin {"plant_rx", "unplant_rx"},
         Planted(i)' => Planted(i), Planted(i) => Planted(i)'
  PROVE  InjectInv'
<1>1. /\ alive /\ InjectType'
      /\ UNCHANGED <<device, alive, tracer, lock, libc, budget, dirty, missed>>
  BY ClosureType DEF InjectInv, ClosureStep, BeginCall
<1>2. /\ ctx' = "call" /\ thr' = [thr EXCEPT ![Main] = "runs"]
      /\ \A j \in Runs : j # i => run'[j] = run[j]
      /\ run'[i].saved = run[i].saved /\ run'[i].at = "cont" /\ run'[i].word = run[i].word
      /\ run'[i].garbled = (entry # "none")
      /\ entry' = "none" /\ harmed' = (harmed \/ entry # "none")
  BY SetRegsFacts DEF InjectInv
<1>3. Working(i)' /\ At(i, "cont")' /\ run'[i].at \notin {"plant", "plant_rx", "planted"}
  BY <1>2 DEF Working, Midway, At
<1>4. entry # "none" \/ harmed => Spent'
  BY <1>1 DEF InjectInv, SignalInv, Spent
<1>5. ASSUME ~ dirty PROVE Steady(i)' /\ LockBalance'
  <2>1. Steady(i) /\ LockBalance
    BY <1>1, <1>5 DEF InjectInv, Clean
  <2>2. LockBalance'
    BY <1>1, <1>2, <2>1 DEF Steady, LockBalance
  <2>3. ExecOk' /\ run'[i].saved = "own"
    BY <1>1, <1>2, <2>1 DEF Steady, ExecOk, Spent
  <2>4. /\ libc'.word = "brk" => harmed' \/ Planted(i)'
        /\ Planted(i)' /\ ~ harmed' => run'[i].word = "code"
    BY <1>1, <1>2, <2>1 DEF Steady
  <2> QED
    BY <1>2, <1>3, <2>2, <2>3, <2>4 DEF Steady
<1>6. thr'[Main] = "runs" /\ \A t \in Threads : t # Main => thr'[t] = thr[t]
  BY <1>2, AppAssumption DEF InjectInv, InjectType, AppType
<1> QED
  BY <1>1, <1>2, <1>3, <1>4, <1>5, <1>6, WorkerStep

LEMMA BeginCallInv ==
  ASSUME InjectInv, NEW i \in Runs, BeginCall(i)
  PROVE  InjectInv'
<1> USE PlaceNames
<1>1. CASE At(i, "planted") /\ SetRegs(i, run[i].call)
  <2>1. run[i].call \in DOMAIN Calls
    BY <1>1 DEF At, InjectInv, InjectType, RunsType, RunType, OnCall
  <2>2. /\ Working(i) /\ ~ At(i, "cont") /\ run[i].at \notin {"plant_rx", "unplant_rx"}
        /\ Planted(i)
    BY <1>1 DEF Working, Midway, At, Planted
  <2>3. run'[i].at = "cont" /\ run'[i].call = run[i].call /\ UNCHANGED device
    BY <1>1, <2>1, SetRegsFacts DEF InjectInv, BeginCall
  <2>4. CASE NeedsBrk(i)
    <3>1. Planted(i)'
      BY <2>3, <2>4 DEF Planted, NeedsBrk, At
    <3> QED
      BY <1>1, <2>1, <2>2, <3>1, SetRegsInv
  <2>5. CASE ~ NeedsBrk(i)
    <3>1. /\ alive /\ InjectType'
          /\ UNCHANGED <<device, alive, tracer, lock, libc, budget, dirty, missed>>
      BY ClosureType DEF InjectInv, ClosureStep, BeginCall
    <3>2. dirty
      BY <1>1, <2>2, <2>5, <3>1 DEF InjectInv, Clean, Steady, At
    <3>3. /\ thr' = [thr EXCEPT ![Main] = "runs"] /\ run'[i].garbled = (entry # "none")
          /\ \A j \in Runs : j # i => run'[j] = run[j]
          /\ entry' = "none" /\ harmed' = (harmed \/ entry # "none")
      BY <1>1, <2>1, SetRegsFacts DEF InjectInv
    <3>4. thr'[Main] = "runs" /\ \A t \in Threads : t # Main => thr'[t] = thr[t]
      BY <3>3, AppAssumption DEF InjectInv, InjectType, AppType
    <3>5. Working(i)' /\ At(i, "cont")'
      BY <2>3 DEF Working, Midway, At
    <3>6. entry # "none" \/ harmed => Spent'
      BY <3>1 DEF InjectInv, SignalInv, Spent
    <3> QED
      BY <2>2, <3>1, <3>2, <3>3, <3>4, <3>5, <3>6, WorkerStep
  <2> QED
    BY <2>4, <2>5
<1>2. CASE run[i].at \in InCall
  <2>1. run[i].at \in DOMAIN Calls /\ alive /\ run[i].at \in Between
    BY <1>2 DEF BeginCall, Between, InCall
  <2>2. /\ Working(i) /\ ~ At(i, "cont") /\ ~ Planted(i)
        /\ run[i].at \notin {"plant_rx", "unplant_rx"}
    BY <2>1 DEF Working, Midway, At, Planted
  <2>3. CASE ~ (Calls[run[i].at].landing = "libc" /\ ~ device.gadget) /\ SetRegs(i, run[i].at)
    <3>1. run'[i].at = "cont" /\ run'[i].call = run[i].at /\ UNCHANGED device
      BY <2>1, <2>3, SetRegsFacts DEF InjectInv, BeginCall
    <3>2. ~ Planted(i)'
      BY <2>3, <3>1 DEF Planted, NeedsBrk
    <3> QED
      BY <2>1, <2>2, <2>3, <3>2, SetRegsInv
  <2>4. CASE /\ Calls[run[i].at].landing = "libc" /\ ~ device.gadget
             /\ run' = [run EXCEPT ![i].at = "plant", ![i].call = run[i].at]
             /\ UNCHANGED <<ctx, thr, late>>
    <3>0. InjectType' /\ UNCHANGED <<device, alive, tracer, lock, libc, budget, dirty, missed>>
      BY ClosureType DEF InjectInv, ClosureStep, BeginCall
    <3>1. /\ \A j \in Runs : j # i => run'[j] = run[j]
          /\ run'[i].saved = run[i].saved /\ run'[i].at = "plant"
          /\ run'[i].call = run[i].at
      BY <2>4 DEF InjectInv, InjectType, RunsType, RunType
    <3>2. Working(i)' /\ ~ At(i, "cont")' /\ ~ Planted(i)'
      BY <3>1 DEF Working, Midway, At, Planted
    <3>3. UNCHANGED <<entry, harmed>> /\ (entry # "none" \/ harmed => Spent')
      BY <2>4, <3>0 DEF late, InjectInv, SignalInv, Spent
    <3>4. ASSUME ~ dirty PROVE Steady(i)' /\ LockBalance'
      <4>1. Steady(i) /\ LockBalance
        BY <2>1, <2>2, <3>4 DEF InjectInv, Clean
      <4>2. LockBalance'
        BY <2>4, <3>0, <4>1 DEF LockBalance
      <4>3. /\ ExecOk' /\ run'[i].saved = "own" /\ ctx' = "own"
            /\ libc'.word = "brk" => harmed'
        BY <2>2, <2>4, <3>0, <3>1, <3>3, <4>1 DEF Steady, ExecOk, Spent
      <4>4. NeedsBrk(i)'
        BY <2>4, <3>0, <3>1 DEF NeedsBrk
      <4> QED
        BY <3>2, <4>2, <4>3, <4>4 DEF Steady
    <3>5. thr'[Main] = "stopped" /\ \A t \in Threads : t # Main => thr'[t] = thr[t]
      BY <2>2, <2>4 DEF InjectInv, TracedByOne
    <3> QED
      BY <2>1, <2>2, <3>0, <3>1, <3>2, <3>3, <3>4, <3>5, WorkerStep
  <2> QED
    BY <1>2, <2>1, <2>3, <2>4 DEF BeginCall, At
<1> QED
  BY <1>1, <1>2 DEF BeginCall

\* A remote mprotect of libc's page: what it leaves, and that only a signal keeps
\* it from taking effect.
LEMMA MprotectFacts ==
  ASSUME InjectInv, NEW n \in 0 .. 2, Mprotect(n)
  PROVE  /\ UNCHANGED <<device, alive, thr, tracer, lock, ctx, dirty, missed>>
         /\ entry' # "none" \/ harmed \/ Astray("mprotect") \/ ~ Ran("mprotect", n) => Spent'
         /\ Spent => Spent'
         /\ \A x : Turned(n, x) = (IF Ran("mprotect", n) THEN x ELSE libc.exec)
<1>1. "mprotect" \in Numbers
  BY DEF Numbers
<1> QED
  BY <1>1, SteppedFacts DEF Mprotect, InjectInv, Turned

\* A step of a run that has a word of libc's page in hand.
LEMMA PageStep ==
  ASSUME InjectInv, NEW i \in Runs, NEW n \in 0 .. 2, Mprotect(n), alive,
         ClosureStep(i), Working(i), ~ At(i, "cont"), Working(i)', ~ At(i, "cont")',
         \A j \in Runs : j # i => run'[j] = run[j],
         run'[i].saved = run[i].saved, harmed => harmed', harmed' => Spent',
         ~ dirty => /\ libc'.word = "brk" => harmed' \/ Planted(i)'
                    /\ Planted(i)' /\ ~ harmed' => run'[i].word = "code"
                    /\ run'[i].at \in {"plant", "plant_rx", "planted"} => NeedsBrk(i)'
                    /\ run'[i].at \in {"plant_rx", "unplant_rx"} \/ ExecOk'
  PROVE  InjectInv'
<1>1. InjectType'
  BY ClosureType DEF InjectInv
<1>2. /\ UNCHANGED <<device, alive, thr, tracer, lock, ctx, dirty, missed>>
      /\ entry' # "none" => Spent'
      /\ Spent => Spent'
  BY MprotectFacts
<1>3. thr[Main] = "stopped"
  BY DEF InjectInv, TracedByOne
<1>4. ASSUME ~ dirty PROVE Steady(i)' /\ LockBalance'
  <2>1. run[i].saved = "own" /\ ctx = "own" /\ LockBalance
    BY <1>4 DEF InjectInv, Clean, Steady
  <2>2. budget'.signals = MaxSignals => budget.signals = MaxSignals
    BY <1>1, <1>2, AppAssumption DEF InjectInv, InjectType, AppType, Spent
  <2>3. LockBalance'
    BY <1>2, <2>1, <2>2 DEF LockBalance
  <2> QED
    BY <1>2, <1>4, <2>1, <2>3 DEF Steady
<1> QED
  BY <1>1, <1>2, <1>3, <1>4, WorkerStep

LEMMA PlantInv ==
  ASSUME InjectInv, NEW i \in Runs, Plant(i)
  PROVE  InjectInv'
<1> USE PlaceNames
<1>1. At(i, "plant") /\ alive /\ ClosureStep(i)
  BY DEF Plant, ClosureStep
<1>2. /\ Working(i) /\ ~ At(i, "cont") /\ ~ Planted(i)
      /\ run[i].at \notin {"plant_rx", "unplant_rx"}
  BY <1>1 DEF Working, Midway, At, Planted
<1>3. ~ dirty => Steady(i)
  BY <1>1, <1>2 DEF InjectInv, Clean
<1>4. run[i].call # "none" /\ run[i] \in RunType
  BY <1>1 DEF At, InjectInv, InjectType, RunsType, OnCall
<1>5. PICK n \in 0 .. 2 : \E out \in Outcomes("mprotect", n, {"ok"}) :
        /\ Mprotect(n)
        /\ harmed' = (harmed \/ Astray("mprotect"))
        /\ IF out = "ok"
           THEN /\ libc' = [word |-> "brk", exec |-> Turned(n, FALSE)]
                /\ \/ GotoWith(i, [run[i] EXCEPT !.word = WordFound], "plant_rx")
                   \/ Turned(n, FALSE) /\ PlantFails(i)
           ELSE PlantFails(i) /\ UNCHANGED libc
  BY DEF Plant
<1>6. /\ UNCHANGED <<device, dirty>> /\ (harmed => harmed') /\ (harmed' => Spent')
      /\ Spent => Spent'
      /\ Turned(n, FALSE) = (IF Ran("mprotect", n) THEN FALSE ELSE libc.exec)
  BY <1>5, MprotectFacts
<1>7. CASE /\ libc' = [word |-> "brk", exec |-> Turned(n, FALSE)]
           /\ GotoWith(i, [run[i] EXCEPT !.word = WordFound], "plant_rx")
  <2> DEFINE q == [run[i] EXCEPT !.word = WordFound]
  <2>1. /\ q \in RunType /\ q.call = run[i].call /\ q.saved = run[i].saved
        /\ q.word = libc.word
    BY <1>4, TurnedType DEF InjectInv, InjectType, RunType, WordFound
  <2>2. GotoWith(i, q, "plant_rx")
    BY <1>7
  <2>3. "plant_rx" \in Places /\ run \in [Runs -> RunType]
    BY DEF Places, Midway, InjectInv, InjectType, RunsType
  <2> HIDE DEF q
  <2>4. /\ \A j \in Runs : j # i => run'[j] = run[j]
        /\ run'[i].saved = run[i].saved /\ run'[i].at = "plant_rx"
        /\ run'[i].call = run[i].call /\ run'[i].word = libc.word
    BY <2>1, <2>2, <2>3, GotoWithFacts
  <2>5. Working(i)' /\ ~ At(i, "cont")' /\ Planted(i)'
    BY <2>4 DEF Working, Midway, At, Planted
  <2>6. ASSUME ~ dirty PROVE NeedsBrk(i)' /\ (~ harmed' => run'[i].word = "code")
    <3>1. NeedsBrk(i)'
      BY <1>1, <1>3, <1>6, <2>4, <2>6 DEF Steady, At, NeedsBrk
    <3>2. libc.word \in {"code", "brk"}
      BY DEF InjectInv, InjectType, AppType
    <3> QED
      BY <1>2, <1>3, <1>6, <2>4, <2>6, <3>1, <3>2 DEF Steady
  <2> QED
    BY <1>1, <1>2, <1>5, <1>6, <2>4, <2>5, <2>6, PageStep
<1>8. CASE PlantFails(i)
  <2>1. /\ \A j \in Runs : j # i => run'[j] = run[j]
        /\ run'[i].saved = run[i].saved
        /\ run'[i].at \in Between \cup {"loaded", "failed"}
    BY <1>4, <1>8, LeavesCall DEF InjectInv
  <2>2. /\ Working(i)' /\ ~ At(i, "cont")' /\ ~ Planted(i)'
        /\ run'[i].at \notin {"plant", "plant_rx", "planted"}
    BY <2>1 DEF Working, Midway, At, Planted
  <2>3. PICK out \in Outcomes("mprotect", n, {"ok"}) :
          IF out = "ok"
          THEN /\ libc' = [word |-> "brk", exec |-> Turned(n, FALSE)]
               /\ \/ GotoWith(i, [run[i] EXCEPT !.word = WordFound], "plant_rx")
                  \/ Turned(n, FALSE) /\ PlantFails(i)
          ELSE PlantFails(i) /\ UNCHANGED libc
    BY <1>5
  <2>4. CASE UNCHANGED libc
    <3>1. ~ dirty => (libc'.word = "brk" => harmed') /\ ExecOk'
      BY <1>2, <1>3, <1>6, <2>4 DEF Steady, ExecOk
    <3> QED
      BY <1>1, <1>2, <1>5, <1>6, <2>1, <2>2, <3>1, PageStep
  <2>5. CASE out = "ok" /\ libc' = [word |-> "brk", exec |-> Turned(n, FALSE)] /\ Turned(n, FALSE)
    <3>1. ~ Ran("mprotect", n)
      BY <1>6, <2>5
    <3>2. Astray("mprotect")
      BY <2>5, <3>1 DEF Outcomes
    <3>3. harmed' /\ ExecOk'
      BY <1>5, <1>6, <3>2 DEF ExecOk
    <3> QED
      BY <1>1, <1>2, <1>5, <1>6, <2>1, <2>2, <3>3, PageStep
  <2>6. ~ GotoWith(i, [run[i] EXCEPT !.word = WordFound], "plant_rx")
    <3> DEFINE q == [run[i] EXCEPT !.word = WordFound]
    <3>1. q \in RunType
      BY <1>4, TurnedType DEF InjectInv, InjectType, RunType
    <3>2. "plant_rx" \in Places /\ run \in [Runs -> RunType]
      BY DEF Places, Midway, InjectInv, InjectType, RunsType
    <3> HIDE DEF q
    <3>3. GotoWith(i, q, "plant_rx") => run'[i].at = "plant_rx"
      BY <3>1, <3>2, GotoWithFacts
    <3> QED
      BY <2>2, <3>3 DEF q
  <2> QED
    BY <2>3, <2>4, <2>5, <2>6
<1> QED
  BY <1>5, <1>7, <1>8

LEMMA PlantExecInv ==
  ASSUME InjectInv, NEW i \in Runs, PlantExec(i)
  PROVE  InjectInv'
<1> USE PlaceNames
<1>1. At(i, "plant_rx") /\ alive /\ ClosureStep(i)
  BY DEF PlantExec, ClosureStep
<1>2. Working(i) /\ ~ At(i, "cont") /\ Planted(i)
  BY <1>1 DEF Working, Midway, At, Planted
<1>3. ~ dirty => Steady(i)
  BY <1>1, <1>2 DEF InjectInv, Clean
<1>4. run[i] \in RunType /\ run \in [Runs -> RunType] /\ libc.exec \in BOOLEAN
  BY DEF InjectInv, InjectType, RunsType, AppType
<1>5. PICK n \in 0 .. 2 :
        /\ Mprotect(n)
        /\ harmed' = (harmed \/ Astray("mprotect"))
        /\ libc' = [libc EXCEPT !.exec = Turned(n, RxAllowed)]
        /\ Goto(i, "planted") \/ GotoWith(i, [run[i] EXCEPT !.out = "err"], "unplant")
  BY DEF PlantExec
<1>6. /\ UNCHANGED <<device, dirty>> /\ (harmed => harmed') /\ (harmed' => Spent')
      /\ ~ Ran("mprotect", n) => Spent'
      /\ Turned(n, RxAllowed) = (IF Ran("mprotect", n) THEN RxAllowed ELSE libc.exec)
  BY <1>5, MprotectFacts
<1>7. ExecOk' /\ libc'.word = libc.word
  BY <1>5, <1>6 DEF ExecOk, RxAllowed, InjectInv, InjectType, AppType
<1>8. /\ \A j \in Runs : j # i => run'[j] = run[j]
      /\ run'[i].saved = run[i].saved /\ run'[i].at \in {"planted", "unplant"}
      /\ run'[i].call = run[i].call /\ run'[i].word = run[i].word
  <2>1. "planted" \in Places /\ "unplant" \in Places
    BY DEF Places, Midway
  <2>2. CASE Goto(i, "planted")
    BY <2>1, <2>2, GotoFacts DEF InjectInv
  <2>3. CASE GotoWith(i, [run[i] EXCEPT !.out = "err"], "unplant")
    <3> DEFINE q == [run[i] EXCEPT !.out = "err"]
    <3>1. /\ q \in RunType /\ q.call = run[i].call /\ q.saved = run[i].saved
          /\ q.word = run[i].word
      BY <1>4 DEF RunType
    <3>2. GotoWith(i, q, "unplant")
      BY <2>3
    <3> HIDE DEF q
    <3> QED
      BY <1>4, <2>1, <3>1, <3>2, GotoWithFacts
  <2> QED
    BY <1>5, <2>2, <2>3
<1>9. Working(i)' /\ ~ At(i, "cont")' /\ Planted(i)'
  BY <1>8 DEF Working, Midway, At, Planted
<1>10. ASSUME ~ dirty PROVE NeedsBrk(i)' /\ (~ harmed' => run'[i].word = "code")
  <2>1. NeedsBrk(i)
    BY <1>1, <1>3, <1>10 DEF Steady, At
  <2> QED
    BY <1>2, <1>3, <1>6, <1>8, <1>10, <2>1 DEF Steady, NeedsBrk
<1> QED
  BY <1>1, <1>2, <1>5, <1>6, <1>7, <1>8, <1>9, <1>10, PageStep

LEMMA UnplantInv ==
  ASSUME InjectInv, NEW i \in Runs, Unplant(i)
  PROVE  InjectInv'
<1> USE PlaceNames
<1>1. At(i, "unplant") /\ alive /\ ClosureStep(i)
  BY DEF Unplant, ClosureStep
<1>2. Working(i) /\ ~ At(i, "cont") /\ Planted(i)
  BY <1>1 DEF Working, Midway, At, Planted
<1>3. ~ dirty => Steady(i)
  BY <1>1, <1>2 DEF InjectInv, Clean
<1>4. run[i] \in RunType /\ run \in [Runs -> RunType]
  BY DEF InjectInv, InjectType, RunsType
<1>5. PICK n \in 0 .. 2 :
        /\ Mprotect(n)
        /\ harmed' = (harmed \/ Astray("mprotect") \/ Turned(n, FALSE))
        /\ libc' = [word |-> PutBack(i), exec |-> Turned(n, FALSE)]
  BY DEF Unplant
<1>6. /\ UNCHANGED dirty /\ (harmed => harmed') /\ (harmed' => Spent')
  <2>1. Turned(n, FALSE) => ~ Ran("mprotect", n)
    BY DEF Turned
  <2> QED
    BY <1>5, <2>1, MprotectFacts
<1>7. /\ \A j \in Runs : j # i => run'[j] = run[j]
      /\ run'[i].saved = run[i].saved /\ run'[i].at = "unplant_rx"
  <2> DEFINE q == [run[i] EXCEPT !.word = "code"]
  <2>1. q \in RunType /\ q.saved = run[i].saved
    BY <1>4 DEF RunType
  <2>2. GotoWith(i, q, "unplant_rx")
    BY DEF Unplant
  <2>3. "unplant_rx" \in Places
    BY DEF Places, Midway
  <2> HIDE DEF q
  <2> QED
    BY <1>4, <2>1, <2>2, <2>3, GotoWithFacts
<1>8. Working(i)' /\ ~ At(i, "cont")' /\ ~ Planted(i)'
  BY <1>7 DEF Working, Midway, At, Planted
<1>9. ~ dirty => (libc'.word = "brk" => harmed')
  BY <1>2, <1>3, <1>5, <1>6 DEF Steady, PutBack
<1> QED
  BY <1>1, <1>2, <1>5, <1>6, <1>7, <1>8, <1>9, PageStep

LEMMA UnplantExecInv ==
  ASSUME InjectInv, NEW i \in Runs, UnplantExec(i)
  PROVE  InjectInv'
<1> USE PlaceNames
<1>1. At(i, "unplant_rx") /\ alive /\ ClosureStep(i)
  BY DEF UnplantExec, ClosureStep
<1>2. Working(i) /\ ~ At(i, "cont") /\ ~ Planted(i)
  BY <1>1 DEF Working, Midway, At, Planted
<1>3. ~ dirty => Steady(i)
  BY <1>1, <1>2 DEF InjectInv, Clean
<1>4. run[i].call # "none" /\ run[i].out # "none"
  BY <1>1 DEF At, InjectInv, InjectType, RunsType, OnCall, OffCall
<1>5. PICK n \in 0 .. 2 :
        /\ Mprotect(n)
        /\ harmed' = (harmed \/ Astray("mprotect"))
        /\ libc' = [libc EXCEPT !.exec = Turned(n, RxAllowed)]
  BY DEF UnplantExec
<1>6. /\ UNCHANGED <<device, dirty>> /\ (harmed => harmed') /\ (harmed' => Spent')
      /\ ~ Ran("mprotect", n) => Spent'
      /\ Turned(n, RxAllowed) = (IF Ran("mprotect", n) THEN RxAllowed ELSE libc.exec)
  BY <1>5, MprotectFacts
<1>7. ExecOk' /\ libc'.word = libc.word
  BY <1>5, <1>6 DEF ExecOk, RxAllowed, InjectInv, InjectType, AppType
<1>8. /\ \A j \in Runs : j # i => run'[j] = run[j]
      /\ run'[i].saved = run[i].saved
      /\ run'[i].at \in Between \cup {"loaded", "failed"}
  BY <1>4, LeavesCall DEF InjectInv, UnplantExec
<1>9. /\ Working(i)' /\ ~ At(i, "cont")' /\ ~ Planted(i)'
      /\ run'[i].at \notin {"plant", "plant_rx", "planted"}
  BY <1>8 DEF Working, Midway, At, Planted
<1>10. ~ dirty => (libc'.word = "brk" => harmed')
  BY <1>2, <1>3, <1>6, <1>7 DEF Steady
<1> QED
  BY <1>1, <1>2, <1>5, <1>6, <1>7, <1>8, <1>9, <1>10, PageStep

-----------------------------------------------------------------------------
\* inject: the called function and the app's own threads.

\* The called function is over for run i.
LEMMA LandedInv ==
  ASSUME InjectInv, InjectType', NEW i \in Runs, NEW out \in {"got", "zero", "err"},
         At(i, "cont"), alive, Landed(i, out),
         UNCHANGED <<device, alive, tracer, libc, dirty, missed>>,
         UNCHANGED <<entry, harmed>>,
         \/ Spent'
         \/ budget' = budget /\ lock' = Unlocked
  PROVE  InjectInv'
<1> USE PlaceNames
<1>1. /\ \A j \in Runs : j # i => run'[j] = run[j]
      /\ run'[i].saved = run[i].saved
      /\ run'[i].word = run[i].word
      /\ run'[i].at \in Midway \ {"cont", "plant", "plant_rx", "planted", "unplant_rx"}
      /\ IF NeedsBrk(i) THEN run'[i].at = "unplant" ELSE run'[i].at # "unplant"
  BY LandedType DEF InjectInv, NeedsBrk, Midway, OnCall
<1>2. Working(i) /\ Working(i)' /\ ~ At(i, "cont")'
  BY <1>1 DEF Working, Midway, At
<1>3. thr'[Main] = "stopped" /\ \A t \in Threads : t # Main => thr'[t] = thr[t]
  BY AppAssumption DEF Landed, InjectInv, InjectType, AppType
<1>4. budget'.signals = MaxSignals => budget' = budget
  BY AppAssumption DEF InjectType, AppType, Spent
<1>6. entry' # "none" \/ harmed' => Spent'
  BY DEF InjectInv, SignalInv, Spent
<1>5. ASSUME ~ dirty PROVE Steady(i)' /\ LockBalance'
  <2>1. Steady(i) /\ LockBalance
    BY <1>2, <1>5 DEF InjectInv, Clean
  <2>2. ctx \in {"call", "locked"} /\ ctx' = "own" /\ run'[i].saved = "own"
    BY <1>1, <2>1 DEF Steady, Landed
  <2>3. LockBalance'
    <3> SUFFICES ASSUME budget'.signals = MaxSignals
                 PROVE  lock'.depth = IF lock'.own THEN 1 ELSE 0
      BY <2>2 DEF LockBalance
    <3>1. budget' = budget /\ lock' = Unlocked
      BY <1>4, AppAssumption DEF InjectType, AppType, Spent
    <3>2. /\ lock.depth = (IF lock.own THEN 1 ELSE 0) + (IF ctx = "locked" THEN 1 ELSE 0)
          /\ lock.depth \in Int /\ lock \in LockType
      BY <2>1, <3>1 DEF LockBalance, InjectInv, InjectType, AppType, LockType
    <3> QED
      BY <2>2, <3>1, <3>2 DEF Unlocked, LockType
  <2>4. ExecOk'
    BY <1>4, <2>1, AppAssumption DEF Steady, ExecOk, Spent, At, InjectType, AppType
  <2>5. Planted(i)' <=> Planted(i)
    BY <1>1 DEF Planted, At
  <2>6. /\ libc'.word = "brk" => harmed' \/ Planted(i)'
        /\ Planted(i)' /\ ~ harmed' => run'[i].word = "code"
    BY <1>1, <2>1, <2>5 DEF Steady
  <2> QED
    BY <1>1, <1>2, <2>2, <2>3, <2>4, <2>6 DEF Steady
<1> QED
  BY <1>1, <1>2, <1>3, <1>5, <1>6, WorkerStep

LEMMA CalledInv ==
  ASSUME InjectInv, NEW i \in Runs,
         MainFaults(i) \/ CallStopped(i) \/ \E out \in {"got", "zero"} : MainReturns(i, out)
  PROVE  InjectInv'
<1>1. InjectType'
  BY ClosureType DEF InjectInv, ClosureStep
<1>2. ASSUME Spend("signals") PROVE Spent'
  BY <1>2, SpendFacts DEF InjectInv, InjectType, Spent
<1>3. CASE MainFaults(i)
  <2>1. Spent'
    <3>1. CASE run[i].garbled /\ UNCHANGED budget
      BY <1>3, <3>1 DEF MainFaults, InjectInv, SignalInv, Spent
    <3> QED
      BY <1>2, <1>3, <3>1 DEF MainFaults
  <2> QED
    BY <1>1, <1>3, <2>1, LandedInv DEF MainFaults, Called, late
<1>4. CASE CallStopped(i)
  <2>1. CASE Landed(i, "err")
    BY <1>1, <1>2, <1>4, <2>1, LandedInv DEF CallStopped, Called, late
  <2>2. CASE run' = [run EXCEPT ![i].conts = @ + 1] /\ UNCHANGED <<thr, ctx>>
    <3>1. /\ \A j \in Runs : j # i => run'[j] = run[j]
          /\ run'[i].at = run[i].at /\ run'[i].call = run[i].call
          /\ run'[i].saved = run[i].saved /\ run'[i].word = run[i].word
      BY <2>2 DEF InjectInv, InjectType, RunsType, RunType
    <3>2. /\ At(i, "cont") /\ alive /\ thr[Main] = "runs"
          /\ UNCHANGED <<device, alive, tracer, lock, libc, entry, harmed, dirty, missed>>
          /\ Spent'
      BY <1>2, <1>4 DEF CallStopped, Called, late
    <3>3. Working(i) /\ Working(i)' /\ At(i, "cont")'
      BY <3>1, <3>2 DEF Working, Midway, At
    <3>4. ASSUME ~ dirty PROVE Steady(i)' /\ LockBalance'
      <4>1. LockBalance'
        BY <1>1, <3>2, AppAssumption DEF LockBalance, InjectType, AppType, Spent
      <4>2. Steady(i)
        BY <3>2, <3>3, <3>4 DEF InjectInv, Clean
      <4> QED
        BY <2>2, <3>1, <3>2, <3>3, <4>1, <4>2 DEF Steady, ExecOk, Planted, NeedsBrk, At
    <3>5. entry = "none"
      <4>1. \A j \in Runs : j # i => ~ Working(j)
        BY <3>3, OneWorks DEF InjectInv
      <4> QED
        BY <3>2, <4>1 DEF InjectInv, EntryHeld
    <3> QED
      BY <1>1, <2>2, <3>1, <3>2, <3>3, <3>4, <3>5, WorkerStep
  <2> QED
    BY <1>4, <2>1, <2>2 DEF CallStopped
<1>5. ASSUME NEW out \in {"got", "zero"}, MainReturns(i, out) PROVE InjectInv'
  <2>1. /\ At(i, "cont") /\ alive /\ Landed(i, out) /\ lock' = Unlocked
        /\ UNCHANGED <<device, alive, tracer, libc, entry, harmed, budget, dirty, missed>>
    BY <1>5 DEF MainReturns, Called, late
  <2> QED
    BY <1>1, <2>1, LandedInv
<1> QED
  BY <1>3, <1>4, <1>5

\* A step that changes no run, tracer, history, libc or whether the app lives.
LEMMA AppKeeps ==
  ASSUME InjectInv, InjectType', alive,
         UNCHANGED <<device, alive, tracer, libc, entry, harmed, run, dirty, missed>>,
         thr'[Main] = thr[Main],
         \A i \in Runs : Working(i) /\ ~ missed => \A t \in Threads : Free(t)' => Free(t),
         budget'.signals = budget.signals,
         ctx' = ctx \/ (ctx = "call" /\ ctx' = "locked"),
         ~ dirty => LockBalance'
  PROVE  InjectInv'
<1>1. \A j \in Runs : (Working(j)' <=> Working(j)) /\ \A p : At(j, p)' <=> At(j, p)
  BY DEF Working, At
<1>2. TracedByOne'
  <2>1. \A j \in Runs : Working(j) /\ ~ missed => \A t \in Threads : ~ Free(t)'
    BY DEF InjectInv, TracedByOne
  <2>2. \A j \in Runs : At(j, "seize") => Main \in run[j].todo \/ (tracer[Main] = j /\ thr[Main] = "stopped")
    BY DEF InjectInv, TracedByOne
  <2> QED
    BY <1>1, <2>1, <2>2, AppAssumption DEF InjectInv, TracedByOne
<1>3. Clean'
  <2> SUFFICES ASSUME ~ dirty PROVE Clean'
    BY DEF Clean
  <2>1. ExecOk' <=> ExecOk
    BY DEF ExecOk, Spent
  <2>2. \A j \in Runs : Planted(j)' <=> Planted(j)
    BY DEF Planted, NeedsBrk, At
  <2>3. \A j \in Runs : NeedsBrk(j)' <=> NeedsBrk(j)
    BY DEF NeedsBrk
  <2>4. \A j \in Runs : Working(j) => Steady(j)'
    <3> SUFFICES ASSUME NEW j \in Runs, Working(j) PROVE Steady(j)'
      OBVIOUS
    <3>1. Steady(j)
      BY DEF InjectInv, Clean
    <3> QED
      BY <1>1, <2>1, <2>2, <2>3, <3>1 DEF Steady
  <2>5. (\A j \in Runs : ~ Working(j)) => ctx' = "own" /\ (harmed \/ libc.word = "code") /\ ExecOk
    BY DEF InjectInv, Clean
  <2> QED
    BY <1>1, <2>1, <2>4, <2>5 DEF Clean
<1>4. SignalInv' /\ EntryHeld'
  BY <1>1 DEF InjectInv, SignalInv, EntryHeld, Spent
<1> QED
  BY <1>2, <1>3, <1>4 DEF InjectInv, AppSurvives

LEMMA AppInv ==
  ASSUME InjectInv, NEW t \in Threads,
         AppLock(t) \/ AppUnlock(t) \/ AppClone(t) \/ AppThreadExit(t) \/ AppTraps(t)
         \/ MainEnters \/ MainReturnsAlone
  PROVE  InjectInv'
<1> USE AppAssumption, InjectorAssumption
<1>0. InjectType'
  BY AppStepType DEF InjectInv
<1>T. /\ lock \in LockType /\ thr \in [Threads -> {"absent", "runs", "stopped", "gone"}]
      /\ budget \in [signals : 0 .. MaxSignals, locks : Nat, clones : Nat]
      /\ tracer \in [Threads -> {0} \cup Runs]
  BY DEF InjectInv, InjectType, AppType
<1>L. ~ dirty /\ alive => LockBalance
  BY DEF InjectInv, Clean
<1>F. \A i \in Runs : Working(i) /\ ~ missed => \A u \in Threads : ~ Free(u)
  BY DEF InjectInv, TracedByOne
<1>1. CASE AppLock(t)
  <2>1. /\ budget'.signals = budget.signals /\ lock.depth = 0 /\ alive
        /\ lock' = [who |-> t, depth |-> 1, own |-> TRUE]
        /\ UNCHANGED <<device, alive, thr, tracer, ctx, libc, entry, harmed, run, dirty, missed>>
    BY <1>1, <1>T, SpendFacts DEF AppLock, late, Free, InjectInv, InjectType
  <2>2. ~ dirty => LockBalance'
    BY <1>T, <1>L, <2>1 DEF LockBalance, LockType
  <2>3. \A u \in Threads : Free(u)' => Free(u)
    BY <2>1 DEF Free
  <2> QED
    BY <1>0, <2>1, <2>2, <2>3, AppKeeps
<1>2. CASE AppUnlock(t)
  <2>1. /\ lock.own /\ alive /\ lock.who = t /\ (t = Main => ctx = "own")
        /\ lock'.depth = lock.depth - 1 /\ lock'.own = FALSE
        /\ UNCHANGED <<device, alive, thr, tracer, ctx, libc, entry, harmed, budget, run, dirty, missed>>
    BY <1>2 DEF AppUnlock, late, Free
  <2>2. ~ dirty => LockBalance'
    BY <1>T, <1>L, <2>1 DEF LockBalance, LockType
  <2>3. \A u \in Threads : Free(u)' => Free(u)
    BY <2>1 DEF Free
  <2> QED
    BY <1>0, <2>1, <2>2, <2>3, AppKeeps
<1>3. CASE AppClone(t)
  <2>1. /\ budget'.signals = budget.signals /\ alive
        /\ thr[t] = "absent" /\ thr' = [thr EXCEPT ![t] = "runs"]
        /\ UNCHANGED <<device, alive, tracer, lock, ctx, libc, entry, harmed, run, dirty, missed>>
    BY <1>3, <1>T, SpendFacts DEF AppClone, late, Free, InjectInv, InjectType
  <2>2. \A i \in Runs : ~ (Working(i) /\ ~ missed)
    BY <1>3, <1>F DEF AppClone
  <2>3. thr'[Main] = thr[Main]
    BY <1>T, <2>1 DEF InjectInv, TracedByOne
  <2>4. ~ dirty => LockBalance'
    BY <1>L, <2>1 DEF LockBalance
  <2> QED
    BY <1>0, <2>1, <2>2, <2>3, <2>4, AppKeeps
<1>4. CASE AppThreadExit(t)
  <2>1. /\ alive /\ t # Main /\ thr' = [thr EXCEPT ![t] = "gone"]
        /\ UNCHANGED <<device, alive, tracer, lock, ctx, libc, entry, harmed, budget, run, dirty, missed>>
    BY <1>4 DEF AppThreadExit, late, Free
  <2>2. thr'[Main] = thr[Main] /\ \A u \in Threads : Free(u)' => Free(u)
    BY <1>T, <2>1 DEF Free
  <2>3. ~ dirty => LockBalance'
    BY <1>L, <2>1 DEF LockBalance
  <2> QED
    BY <1>0, <2>1, <2>2, <2>3, AppKeeps
<1>5. CASE MainEnters
  <2>1. /\ alive /\ ctx = "call" /\ ctx' = "locked"
        /\ lock' = [lock EXCEPT !.who = Main, !.depth = @ + 1]
        /\ UNCHANGED <<device, alive, thr, tracer, libc, entry, harmed, budget, run, dirty, missed>>
    BY <1>5 DEF MainEnters, late, Called
  <2>2. ~ dirty => LockBalance'
    BY <1>T, <1>L, <2>1 DEF LockBalance, LockType
  <2>3. \A u \in Threads : Free(u)' => Free(u)
    BY <2>1 DEF Free
  <2> QED
    BY <1>0, <2>1, <2>2, <2>3, AppKeeps
<1>6. CASE AppTraps(t) \/ MainReturnsAlone
  <2>1. /\ UNCHANGED <<device, thr, tracer, ctx, libc, entry, harmed, budget, run, dirty, missed>>
        /\ alive' = FALSE /\ alive
    BY <1>6 DEF AppTraps, MainReturnsAlone, late, Free, Called
  <2>2. dirty \/ missed \/ ~ libc.exec \/ (harmed /\ Spent)
    <3> SUFFICES ASSUME ~ dirty, ~ missed PROVE ~ libc.exec \/ (harmed /\ Spent)
      OBVIOUS
    <3>1. \A i \in Runs : ~ Working(i)
      <4>1. CASE AppTraps(t)
        BY <1>F, <4>1 DEF AppTraps
      <4>2. CASE MainReturnsAlone
        <5>1. tracer[Main] = 0
          BY <4>2 DEF MainReturnsAlone
        <5> QED
          BY <5>1 DEF InjectInv, TracedByOne, Runs
      <4> QED
        BY <1>6, <4>1, <4>2
    <3>2. ctx = "own" /\ (harmed \/ libc.word = "code") /\ (harmed => Spent)
      BY <2>1, <3>1 DEF InjectInv, Clean, SignalInv
    <3> QED
      BY <1>6, <3>2 DEF AppTraps, MainReturnsAlone
  <2>3. TracedByOne'
    <3>1. \A j \in Runs : (Working(j)' <=> Working(j)) /\ \A p : At(j, p)' <=> At(j, p)
      BY <2>1 DEF Working, At
    <3>2. \A u \in Threads : ~ Free(u)'
      BY <2>1 DEF Free
    <3> QED
      BY <2>1, <3>1, <3>2 DEF InjectInv, TracedByOne
  <2>4. SignalInv' /\ EntryHeld' /\ Clean' /\ AppSurvives'
    BY <2>1, <2>2 DEF Clean, AppSurvives, InjectInv, SignalInv, EntryHeld, Spent, At
  <2> QED
    BY <1>0, <2>3, <2>4 DEF InjectInv
<1> QED
  BY <1>1, <1>2, <1>3, <1>4, <1>5, <1>6

-----------------------------------------------------------------------------
\* inject: the steps by which a run gets the app and lets it go.

\* A run that has not the app takes a step that stops and releases no thread.
LEMMA QuietStep ==
  ASSUME InjectInv, InjectType', NEW i \in Runs, ~ Working(i), ~ Working(i)',
         \A j \in Runs : j # i => run'[j] = run[j],
         At(i, "seize")' => Main \in run'[i].todo,
         UNCHANGED <<device, app, budget, dirty, missed>>
  PROVE  InjectInv'
<1>1. SignalInv' /\ EntryHeld' /\ Clean' /\ AppSurvives'
  BY OutsideStep DEF app
<1>2. \A j \in Runs : Working(j)' => Working(j) /\ (At(j, "cont")' <=> At(j, "cont"))
  BY DEF Working, At
<1>3. \A j \in Runs : At(j, "seize")' =>
        Main \in run'[j].todo \/ (tracer[Main] = j /\ thr[Main] = "stopped")
  BY DEF At, InjectInv, TracedByOne
<1>4. \A t \in Threads : Free(t)' <=> Free(t)
  BY DEF Free, app
<1>5. TracedByOne'
  BY <1>2, <1>3, <1>4 DEF InjectInv, TracedByOne, app
<1> QED
  BY <1>1, <1>5 DEF InjectInv

LEMMA QuietInv ==
  ASSUME InjectInv, NEW i \in Runs,
         Start(i) \/ Stage(i) \/ ListTids(i) \/ (AppGone(i) /\ ~ Working(i))
  PROVE  InjectInv'
<1> USE PlaceNames
<1>1. InjectType' /\ UNCHANGED <<device, app, budget, dirty, missed>>
  BY OutsideType DEF InjectInv, Start, Stage, ListTids, AppGone
<1>2. CASE ToExit(i) /\ ~ Working(i)
  <2>1. run'[i].at = "exit" /\ \A j \in Runs : j # i => run'[j] = run[j]
    BY <1>2, ToExitFacts DEF ToExit, InjectInv, InjectType, Places, OnCall
  <2>2. ~ Working(i)' /\ ~ At(i, "seize")'
    BY <2>1 DEF Working, At
  <2> QED
    BY <1>1, <1>2, <2>1, <2>2, QuietStep
<1>3. CASE Start(i) \/ Stage(i)
  <2>1. ~ Working(i)
    BY <1>3 DEF Start, Stage, At, Working
  <2>2. ASSUME NEW p \in {"stage", "stale"}, Goto(i, p) PROVE InjectInv'
    <3>1. p \in Places
      BY DEF Places
    <3>2. run'[i].at = p /\ \A j \in Runs : j # i => run'[j] = run[j]
      BY <2>2, <3>1, GotoFacts DEF InjectInv
    <3>3. ~ Working(i)' /\ ~ At(i, "seize")'
      BY <3>2 DEF Working, At
    <3> QED
      BY <1>1, <2>1, <3>2, <3>3, QuietStep
  <2> QED
    BY <1>2, <1>3, <2>1, <2>2 DEF Start, Stage
<1>4. CASE ListTids(i)
  <2>1. /\ run'[i].at = "seize" /\ \A j \in Runs : j # i => run'[j] = run[j]
        /\ run'[i].todo = {t \in Threads : thr[t] \in {"runs", "stopped"}}
    BY <1>4 DEF ListTids, InjectInv, InjectType, RunsType, RunType
  <2>2. ~ Working(i) /\ ~ Working(i)'
    BY <1>4, <2>1 DEF ListTids, At, Working
  <2>3. Main \in run'[i].todo
    BY <2>1, AppAssumption DEF InjectInv, TracedByOne
  <2> QED
    BY <1>1, <2>1, <2>2, <2>3, QuietStep
<1>5. CASE AppGone(i) /\ ~ Working(i)
  BY <1>2, <1>5 DEF AppGone
<1> QED
  BY <1>3, <1>4, <1>5

\* A run that had the app gives up on a dead one.
LEMMA AppGoneInv ==
  ASSUME InjectInv, NEW i \in Runs, AppGone(i)
  PROVE  InjectInv'
<1>1. InjectType'
  BY OutsideType DEF InjectInv
<1>2. ~ alive /\ UNCHANGED <<device, app, budget, dirty, missed>>
  BY DEF AppGone
<1>3. run'[i].at = "exit" /\ \A j \in Runs : j # i => run'[j] = run[j]
  BY ToExitFacts, PlaceNames DEF AppGone, ToExit, InjectInv, InjectType, Places, OnCall
<1>4. ~ Working(i)' /\ ~ At(i, "seize")'
  BY <1>3, PlaceNames DEF Working, At
<1>5. \A j \in Runs : At(j, "seize")' =>
        Main \in run'[j].todo \/ (tracer[Main] = j /\ thr[Main] = "stopped")
  BY <1>3, <1>4 DEF At, InjectInv, TracedByOne
<1>6. \A j \in Runs : Working(j)' => Working(j) /\ (At(j, "cont")' <=> At(j, "cont"))
  BY <1>3, <1>4 DEF Working, At
<1>7. TracedByOne'
  <2>1. \A t \in Threads : Free(t)' <=> Free(t)
    BY <1>2 DEF Free, app
  <2> QED
    BY <1>2, <1>5, <1>6, <2>1 DEF InjectInv, TracedByOne, app
<1>8. SignalInv'
  <2>1. \A j \in Runs : At(j, "cont")' => At(j, "cont") /\ run'[j] = run[j]
    BY <1>3 DEF At
  <2> QED
    BY <1>2, <2>1 DEF InjectInv, SignalInv, Spent, app, late
<1> QED
  BY <1>1, <1>2, <1>7, <1>8 DEF InjectInv, EntryHeld, Clean, AppSurvives, app, late

\* A thread is stopped, or the run gives up.
LEMMA StopTidInv ==
  ASSUME InjectInv, NEW i \in Runs, NEW t \in Threads, StopTid(i, t)
  PROVE  InjectInv'
<1> USE PlaceNames, AppAssumption
<1>1. /\ InjectType' /\ At(i, "seize") /\ t \in run[i].todo
      /\ (t # Main => Main \notin run[i].todo) /\ ~ Working(i)
      /\ UNCHANGED <<device, alive, lock, ctx, libc, late, budget, dirty, missed>>
  BY OutsideType DEF InjectInv, StopTid, At, Working
<1>2. CASE ToExit(i) /\ UNCHANGED <<thr, tracer>>
  <2>1. run'[i].at = "exit" /\ \A j \in Runs : j # i => run'[j] = run[j]
    BY <1>2, ToExitFacts DEF ToExit, InjectInv, InjectType, Places, OnCall
  <2>2. ~ Working(i)' /\ ~ At(i, "seize")'
    BY <2>1 DEF Working, At
  <2> QED
    BY <1>1, <1>2, <2>1, <2>2, QuietStep DEF app
<1>3. CASE /\ thr[t] = "runs" /\ tracer[t] = 0
           /\ thr' = [thr EXCEPT ![t] = "stopped"]
           /\ tracer' = [tracer EXCEPT ![t] = i]
           /\ run' = [run EXCEPT ![i].todo = @ \ {t}]
  <2>1. /\ run'[i].at = "seize" /\ run'[i].todo = run[i].todo \ {t}
        /\ \A j \in Runs : j # i => run'[j] = run[j]
    BY <1>1, <1>3 DEF At, InjectInv, InjectType, RunsType, RunType
  <2>2. \A j \in Runs : Working(j)' <=> Working(j)
    BY <1>1, <2>1 DEF Working, At
  <2>3. SignalInv' /\ EntryHeld' /\ Clean' /\ AppSurvives'
    BY <1>1, <2>1, <2>2, OutsideStep
  <2>4. \A u \in Threads : /\ thr'[u] = IF u = t THEN "stopped" ELSE thr[u]
                           /\ tracer'[u] = IF u = t THEN i ELSE tracer[u]
    BY <1>3 DEF InjectInv, InjectType, AppType
  <2>5. tracer'[Main] = i /\ thr'[Main] \in {"runs", "stopped"}
        /\ (tracer[Main] = i => thr[Main] = "stopped")
    <3>1. CASE t = Main
      BY <1>3, <2>4, <3>1 DEF Runs
    <3>2. CASE t # Main
      <4>1. tracer[Main] = i /\ thr[Main] = "stopped"
        BY <1>1, <3>2 DEF InjectInv, TracedByOne
      <4> QED
        BY <2>4, <3>2, <4>1
    <3> QED
      BY <3>1, <3>2
  <2>6. \A u \in Threads : tracer'[u] \in {0, i}
    BY <1>1, <1>3, <2>4, <2>5 DEF InjectInv, TracedByOne
  <2>7. \A j \in Runs : ~ Working(j)
    BY <1>1, <1>3, <2>4, <2>5 DEF InjectInv, TracedByOne, Runs
  <2>8. \A j \in Runs : At(j, "seize")' =>
          Main \in run'[j].todo \/ (tracer'[Main] = j /\ thr'[Main] = "stopped")
    <3> SUFFICES ASSUME NEW j \in Runs, At(j, "seize")', Main \notin run'[j].todo
                 PROVE  tracer'[Main] = j /\ thr'[Main] = "stopped"
      OBVIOUS
    <3>1. CASE j = i
      <4>1. t = Main \/ tracer[Main] = i
        BY <1>1, <2>4, <2>5
      <4> QED
        BY <2>4, <2>5, <3>1, <4>1
    <3>2. CASE j # i
      <4>1. At(j, "seize") /\ Main \notin run[j].todo
        BY <2>1, <3>2 DEF At
      <4>2. tracer[Main] = j
        BY <4>1 DEF InjectInv, TracedByOne
      <4>3. FALSE
        BY <1>3, <2>4, <2>5, <3>2, <4>2 DEF Runs
      <4> QED
        BY <4>3
    <3> QED
      BY <3>1, <3>2
  <2>9. TracedByOne'
    BY <2>2, <2>5, <2>6, <2>7, <2>8 DEF TracedByOne
  <2> QED
    BY <1>1, <2>3, <2>9 DEF InjectInv
<1> QED
  BY <1>2, <1>3 DEF StopTid

\* The run has stopped the threads it listed: it has the app.
LEMMA SeizedInv ==
  ASSUME InjectInv, NEW i \in Runs, Seized(i)
  PROVE  InjectInv'
<1> USE PlaceNames
<1>1. /\ InjectType' /\ At(i, "seize") /\ run[i].todo = {}
      /\ UNCHANGED <<device, app, budget, dirty>>
      /\ missed' = (missed \/ \E t \in Threads : Free(t))
  BY OutsideType DEF InjectInv, Seized
<1>2. /\ run'[i].at = "mmap_page" /\ run'[i].saved = ctx
      /\ \A j \in Runs : j # i => run'[j] = run[j]
  BY DEF Seized, InjectInv, InjectType, RunsType, RunType
<1>3. ~ Working(i) /\ Working(i)' /\ ~ At(i, "cont")' /\ ~ Planted(i)' /\ ~ At(i, "seize")'
  <2>1. "mmap_page" \in Between
    BY SyscallNames DEF Between
  <2> QED
    BY <1>1, <1>2, <2>1 DEF At, Working, Midway, Planted
<1>4. tracer[Main] = i /\ thr[Main] = "stopped"
  BY <1>1 DEF InjectInv, TracedByOne
<1>5. \A j \in Runs : ~ Working(j)
  BY <1>3, <1>4 DEF InjectInv, TracedByOne
<1>6. \A j \in Runs : j # i => ~ Working(j)'
  BY <1>2, <1>5 DEF Working
<1>7. \A j \in Runs : At(j, "seize")' => j # i /\ At(j, "seize") /\ Main \in run'[j].todo
  BY <1>2, <1>3, <1>4 DEF At, InjectInv, TracedByOne
<1>8. \A t \in Threads : Free(t)' <=> Free(t)
  BY <1>1 DEF Free, app
<1>9. TracedByOne'
  BY <1>1, <1>3, <1>4, <1>6, <1>7, <1>8 DEF InjectInv, TracedByOne, app
<1>10. Clean'
  <2> SUFFICES ASSUME ~ dirty, alive PROVE Clean'
    BY <1>1 DEF Clean, app
  <2>1. LockBalance /\ ctx = "own" /\ (harmed \/ libc.word = "code") /\ ExecOk
    BY <1>5 DEF InjectInv, Clean
  <2>2. LockBalance' /\ ExecOk'
    BY <1>1, <2>1 DEF LockBalance, ExecOk, Spent, app
  <2>3. Steady(i)'
    <3>1. run'[i].at \notin {"plant", "plant_rx", "planted"}
      BY <1>2
    <3> QED
      BY <1>1, <1>2, <1>3, <2>1, <2>2, <3>1 DEF Steady, app, late
  <2> QED
    BY <1>3, <1>6, <2>2, <2>3 DEF Clean
<1>11. SignalInv' /\ AppSurvives'
  <2>1. \A j \in Runs : ~ At(j, "cont")'
    BY <1>3, <1>6 DEF Working, Midway, At
  <2> QED
    BY <1>1, <2>1 DEF InjectInv, AppSurvives, SignalInv, Spent, app, late
<1>12. EntryHeld'
  BY <1>1, <1>5 DEF InjectInv, EntryHeld, app, late
<1> QED
  BY <1>1, <1>9, <1>10, <1>11, <1>12 DEF InjectInv

\* The kernel lets go of what the tracer k held, and k's run is over: nobody
\* has the app.
LEMMA LetsGo ==
  ASSUME InjectInv, InjectType', NEW k \in Runs, tracer[Main] = k, Released(k),
         ~ Working(k)',
         \A j \in Runs : j # k => run'[j] = run[j] \/ (~ Working(j)' /\ ~ At(j, "seize")'),
         ~ At(k, "seize")',
         UNCHANGED <<device, alive, lock, libc, budget, missed>>,
         ~ dirty' => ~ dirty,
         harmed => harmed', entry' # "none" \/ harmed' => Spent', alive => entry' = "none",
         ~ dirty' /\ alive => /\ ctx' = "own" /\ ctx = "own"
                              /\ harmed' \/ libc.word = "code"
                              /\ ExecOk
  PROVE  InjectInv'
<1> USE AppAssumption
<1>1. \A j \in Runs : ~ Working(j)'
  BY OneWorks DEF InjectInv, TracedByOne, Working
<1>2. \A t \in Threads : /\ tracer'[t] = IF tracer[t] = k THEN 0 ELSE tracer[t]
                         /\ thr'[t] = IF tracer[t] = k /\ thr[t] = "stopped" THEN "runs" ELSE thr[t]
  BY ReleasedFacts DEF InjectInv, InjectType
<1>3. \A t \in Threads : tracer'[t] = 0
  BY <1>2 DEF InjectInv, TracedByOne
<1>4. thr'[Main] \in {"runs", "stopped"}
  BY <1>2 DEF InjectInv, TracedByOne
<1>5. \A j \in Runs : At(j, "seize")' => Main \in run'[j].todo
  <2> SUFFICES ASSUME NEW j \in Runs, At(j, "seize")' PROVE Main \in run'[j].todo
    OBVIOUS
  <2>1. j # k /\ run'[j] = run[j] /\ At(j, "seize")
    BY DEF At
  <2> QED
    BY <2>1 DEF InjectInv, TracedByOne
<1>6. TracedByOne'
  BY <1>1, <1>3, <1>4, <1>5 DEF TracedByOne
<1>7. Clean'
  <2> SUFFICES ASSUME ~ dirty', alive PROVE Clean'
    BY DEF Clean
  <2>1. /\ ctx' = "own" /\ ctx = "own" /\ (harmed' \/ libc.word = "code")
        /\ ExecOk /\ LockBalance
    BY DEF InjectInv, Clean
  <2>2. LockBalance' /\ ExecOk'
    BY <2>1 DEF LockBalance, ExecOk, Spent
  <2> QED
    BY <1>1, <2>1, <2>2 DEF Clean
<1>8. SignalInv'
  <2>1. \A j \in Runs : ~ At(j, "cont")'
    BY <1>1 DEF Working, Midway, At
  <2> QED
    BY <2>1 DEF SignalInv
<1> QED
  BY <1>6, <1>7, <1>8 DEF InjectInv, EntryHeld, AppSurvives

LEMMA DetachInv ==
  ASSUME InjectInv, NEW i \in Runs, Detach(i)
  PROVE  InjectInv'
<1> USE PlaceNames
<1>1. /\ InjectType' /\ run[i].at \in {"loaded", "failed"} /\ alive /\ ctx' = run[i].saved
      /\ Released(i) /\ ToExit(i)
      /\ entry' = "none" /\ harmed' = (harmed \/ entry # "none")
      /\ UNCHANGED <<device, alive, lock, libc, budget, dirty, missed>>
  BY OutsideType DEF InjectInv, Detach, RunsOn
<1>2. /\ Working(i) /\ ~ At(i, "cont") /\ ~ Planted(i)
      /\ run[i].at \notin {"plant_rx", "unplant_rx"}
  BY <1>1 DEF Working, Midway, At, Planted
<1>3. tracer[Main] = i
  BY <1>2 DEF InjectInv, TracedByOne
<1>4. run'[i].at = "exit" /\ \A j \in Runs : j # i => run'[j] = run[j]
  BY <1>1, ToExitFacts DEF ToExit, InjectInv, InjectType, Places, OnCall
<1>5. ~ Working(i)' /\ ~ At(i, "seize")'
  BY <1>4 DEF Working, At
<1>7. entry # "none" \/ harmed => Spent'
  BY <1>1 DEF InjectInv, SignalInv, Spent
<1>6. ASSUME ~ dirty PROVE ctx' = "own" /\ ctx = "own" /\ (harmed \/ libc.word = "code") /\ ExecOk
  <2>1. Steady(i)
    BY <1>1, <1>2, <1>6 DEF InjectInv, Clean
  <2>2. libc.word = "brk" => harmed
    BY <1>2, <2>1 DEF Steady
  <2> QED
    BY <1>1, <1>2, <2>1, <2>2 DEF Steady, InjectInv, InjectType, AppType
<1> QED
  BY <1>1, <1>3, <1>4, <1>5, <1>6, <1>7, LetsGo

\* The run that has the app dies.
LEMMA DiesClean ==
  ASSUME InjectInv, NEW k \in Runs, tracer[Main] = k, Dies(k), UNCHANGED <<harmed, budget>>
  PROVE  /\ ~ dirty' => /\ ~ dirty /\ ctx' = "own" /\ ctx = "own"
                        /\ libc.word = "code" /\ ExecOk
         /\ entry' = "none" /\ (harmed' => Spent')
<1>1. /\ ~ dirty' => ~ dirty /\ ctx = "own" /\ ctx' = "own" /\ libc = [word |-> "code", exec |-> TRUE]
      /\ entry' = "none"
  BY DiesFacts DEF InjectInv, InjectType
<1>2. harmed => Spent'
  BY DEF InjectInv, SignalInv, Spent
<1> QED
  BY <1>1, <1>2 DEF ExecOk

LEMMA ReleaseStaleInv ==
  ASSUME InjectInv, NEW i \in Runs, ReleaseStale(i)
  PROVE  InjectInv'
<1> USE PlaceNames
<1>1. /\ InjectType' /\ At(i, "stale")
      /\ UNCHANGED <<device, alive, lock, libc, harmed, budget, missed>>
  BY OutsideType DEF InjectInv, ReleaseStale
<1>2. ~ Working(i)
  BY <1>1 DEF At, Working
<1>3. CASE tracer[Main] = 0 /\ Goto(i, "list") /\ UNCHANGED <<thr, tracer, ctx, entry, dirty>>
  <2>1. "list" \in Places
    BY DEF Places
  <2>2. run'[i].at = "list" /\ \A j \in Runs : j # i => run'[j] = run[j]
    BY <1>3, <2>1, GotoFacts DEF InjectInv
  <2>3. ~ Working(i)' /\ ~ At(i, "seize")'
    BY <2>2 DEF Working, At
  <2> QED
    BY <1>1, <1>2, <1>3, <2>2, <2>3, QuietStep DEF app, late
<1>4. CASE /\ tracer[Main] # 0 /\ Dies(tracer[Main])
           /\ run' = [run EXCEPT ![tracer[Main]] = Over("done"), ![i].at = "list"]
  <2>1. PICK k \in Runs : tracer[Main] = k
    BY <1>4, AppAssumption DEF InjectInv, InjectType, AppType
  <2>2. "done" \in Places
    BY DEF Places
  <2>3. /\ run'[i].at = "list" /\ (k # i => run'[k].at = "done")
        /\ \A j \in Runs : j # i /\ j # k => run'[j] = run[j]
    <3> DEFINE dead == [run EXCEPT ![k] = Over("done")]
    <3>1. dead \in [Runs -> RunType] /\ dead[k].at = "done" /\ \A j \in Runs : j # k => dead[j] = run[j]
      BY <2>2, OverFacts DEF InjectInv, InjectType, RunsType
    <3>2. run' = [dead EXCEPT ![i] = [dead[i] EXCEPT !.at = "list"]]
      BY <1>4, <2>1
    <3> HIDE DEF dead
    <3>3. [dead[i] EXCEPT !.at = "list"].at = "list"
      BY <3>1 DEF RunType
    <3> QED
      BY <3>1, <3>2, <3>3
  <2>4. \A j \in {i, k} : ~ Working(j)' /\ ~ At(j, "seize")'
    BY <2>3 DEF Working, At
  <2>5. Released(k) /\ Dies(k)
    BY <1>4, <2>1 DEF Dies
  <2>6. /\ ~ dirty' => /\ ~ dirty /\ ctx' = "own" /\ ctx = "own"
                       /\ libc.word = "code" /\ ExecOk
        /\ entry' = "none" /\ (harmed' => Spent')
    BY <1>1, <2>1, <2>5, DiesClean
  <2>7. \A j \in Runs : j # k => run'[j] = run[j] \/ (~ Working(j)' /\ ~ At(j, "seize")')
    BY <2>3, <2>4
  <2> QED
    BY <1>1, <2>1, <2>4, <2>5, <2>6, <2>7, LetsGo
<1> QED
  BY <1>3, <1>4 DEF ReleaseStale

\* A run that traces nothing is over.
LEMMA LeavesAlone ==
  ASSUME InjectInv, NEW i \in Runs, tracer[Main] # i, Released(i)
  PROVE  UNCHANGED <<thr, tracer>>
<1>1. \A t \in Threads : tracer[t] # i
  BY DEF InjectInv, TracedByOne, Runs
<1> QED
  BY <1>1 DEF Released, InjectInv, InjectType, AppType

LEMMA EndInv ==
  ASSUME InjectInv, NEW i \in Runs, Crash(i) \/ Exit(i)
  PROVE  InjectInv'
<1> USE PlaceNames
<1>1. /\ InjectType' /\ Released(i)
      /\ UNCHANGED <<device, alive, lock, libc, harmed, budget, missed>>
  BY OutsideType DEF InjectInv, Crash, Exit, Dies, late
<1>2. run' = [run EXCEPT ![i] = Over("done")]
  BY DEF Crash, Exit
<1>3. run'[i].at = "done" /\ \A j \in Runs : j # i => run'[j] = run[j]
  BY <1>2, ToExitFacts DEF InjectInv, InjectType, Places, OnCall
<1>4. ~ Working(i)' /\ ~ At(i, "seize")'
  BY <1>3 DEF Working, At
<1>5. CASE Crash(i) /\ tracer[Main] = i
  <2>1. /\ ~ dirty' => /\ ~ dirty /\ ctx' = "own" /\ ctx = "own"
                       /\ libc.word = "code" /\ ExecOk
        /\ entry' = "none" /\ (harmed' => Spent')
    BY <1>1, <1>5, DiesClean DEF Crash
  <2> QED
    BY <1>1, <1>3, <1>4, <1>5, <2>1, LetsGo
<1>6. CASE Exit(i) /\ tracer[Main] = i
  <2>1. ~ Working(i) /\ UNCHANGED <<ctx, entry, dirty>>
    BY <1>6 DEF Exit, At, Working, late
  <2>2. \A j \in Runs : ~ Working(j)
    BY <1>6, <2>1 DEF InjectInv, TracedByOne
  <2>3. ~ dirty /\ alive => ctx = "own" /\ (harmed \/ libc.word = "code") /\ ExecOk
    BY <2>2 DEF InjectInv, Clean
  <2>4. (entry' # "none" \/ harmed' => Spent') /\ (alive => entry' = "none")
    BY <1>1, <2>1, <2>2 DEF InjectInv, SignalInv, EntryHeld, Spent
  <2> QED
    BY <1>1, <1>3, <1>4, <1>6, <2>1, <2>3, <2>4, LetsGo
<1>7. CASE tracer[Main] # i
  <2>1. UNCHANGED <<thr, tracer>>
    BY <1>1, <1>7, LeavesAlone
  <2>2. ~ Working(i)
    BY <1>7 DEF InjectInv, TracedByOne
  <2>3. UNCHANGED <<ctx, entry, dirty>>
    <3>1. CASE Crash(i)
      <4>1. run[i].at \notin AtSyscall
        BY <2>2 DEF Working, Midway, Between, AtSyscall, InSyscall
      <4>2. ctx' = ctx
        BY <1>7, <3>1, <4>1 DEF Crash, Dies, LeftAt
      <4> QED
        BY <1>7, <3>1, <4>2, DiesFacts DEF Crash, InjectInv, InjectType
    <3>2. CASE Exit(i)
      BY <3>2 DEF Exit, late
    <3> QED
      BY <3>1, <3>2
  <2> QED
    BY <1>1, <1>3, <1>4, <2>1, <2>2, <2>3, QuietStep DEF app, late
<1> QED
  BY <1>5, <1>6, <1>7

LEMMA NextInject ==
  ASSUME InjectInv, [Next]_cvars
  PROVE  InjectInv'
<1>1. CASE UNCHANGED ivars
  <2>1. \A j \in Runs : Working(j)' <=> Working(j)
    BY <1>1 DEF ivars, Working
  <2>2. \A j \in Runs : Steady(j)' <=> Steady(j)
    BY <1>1 DEF ivars, app, late, Steady, Planted, NeedsBrk, At, ExecOk, Spent
  <2>3. InjectType' /\ TracedByOne' /\ SignalInv' /\ EntryHeld' /\ AppSurvives'
    BY <1>1 DEF ivars, app, late, InjectInv, InjectType, AppType, RunsType, TracedByOne, Working, At, Free,
                SignalInv, EntryHeld, Spent, AppSurvives
  <2>4. Clean'
    BY <1>1, <2>1, <2>2 DEF ivars, app, late, InjectInv, Clean, LockBalance, ExecOk, Spent
  <2> QED
    BY <2>3, <2>4 DEF InjectInv
<1>2. ASSUME InjectNext PROVE InjectInv'
  <2>1. CASE \E i \in Runs : Start(i) \/ RunStep(i) \/ Crash(i)
    BY <2>1, QuietInv, ReleaseStaleInv, StopTidInv, SeizedInv, MoveInv, BeginCallInv, PlantInv,
       PlantExecInv, UnplantInv, UnplantExecInv, DetachInv, AppGoneInv, EndInv DEF RunStep
  <2>2. CASE MainStep
    BY <2>2, AppInv, CalledInv, AppAssumption DEF MainStep
  <2>3. CASE AppStep
    BY <2>3, AppInv, CalledInv DEF AppStep
  <2>4. CASE \E t \in Threads : AppUnlock(t)
    BY <2>4, AppInv
  <2> QED
    BY <1>2, <2>1, <2>2, <2>3, <2>4 DEF InjectNext
<1> QED
  BY <1>1, <1>2 DEF Next, Inject, Trace, cvars

\* Whatever the injector is killed at, and however its runs follow each other:
\* one run at a time has the app, it knows where the main thread must go on from
\* and where its BRK is, and the linker's lock is balanced; and only the stop of a
\* signal leaves the main thread at the entry of a system call that runs late.
THEOREM InjectInvariance == Spec => []InjectInv
<1>1. Init => InjectInv
  BY InitInject DEF Init
<1>2. InjectInv /\ [Next]_cvars => InjectInv'
  BY NextInject
<1> QED
  BY <1>1, <1>2, PTL DEF Spec

LEMMA LeavesFromInv == ASSUME InjectInv PROVE LeavesAppAsFound
<1> SUFFICES ASSUME \A t \in Threads : tracer[t] = 0, alive, ~ dirty
             PROVE  /\ ~ harmed => ctx = "own" /\ libc.word = "code"
                    /\ harmed => budget.signals < MaxSignals
                    /\ libc.exec \/ ~ device.execmod \/ budget.signals < MaxSignals
                    /\ lock.own \/ lock.depth = 0 \/ budget.signals < MaxSignals
  BY DEF LeavesAppAsFound
<1>1. \A i \in Runs : ~ Working(i)
  BY AppAssumption DEF InjectInv, TracedByOne, Runs
<1>2. ctx = "own" /\ (harmed \/ libc.word = "code") /\ ExecOk /\ LockBalance
  BY <1>1 DEF InjectInv, Clean
<1>3. budget.signals \in 0 .. MaxSignals
  BY DEF InjectInv, InjectType, AppType
<1>4. budget.signals = MaxSignals => lock.own \/ lock.depth = 0
  BY <1>2 DEF LockBalance
<1>5. harmed => budget.signals < MaxSignals
  BY DEF InjectInv, SignalInv, Spent
<1> QED
  BY <1>2, <1>3, <1>4, <1>5, AppAssumption DEF ExecOk, Spent

\* inject.rs puts back what it found on every path of the closure: once nothing
\* is traced and no run died half-way, the main thread with its registers, libc and
\* the lock are as they were, unless a signal's stop was taken for the one of a
\* remote call, or the policy forbids to make libc's page executable again.
THEOREM LeavesApp == Spec => []LeavesAppAsFound
<1>1. InjectInv => LeavesAppAsFound
  BY LeavesFromInv
<1> QED
  BY <1>1, InjectInvariance, PTL

\* The app dies only of a run killed half-way, of a thread that escaped the stop
\* of all threads, of a page of libc that may not be executed again, or of a system
\* call that ran late, after a signal, on registers that were not its own.
THEOREM AppSurvivesAlways == Spec => []AppSurvives
<1>1. InjectInv => AppSurvives
  BY DEF InjectInv
<1> QED
  BY <1>1, InjectInvariance, PTL
===============================================================================
