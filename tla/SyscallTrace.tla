----------------------------- MODULE SyscallTrace -----------------------------
(***************************************************************************)
(* goauld-injector trace-syscalls (syscall_trace.rs): every thread of the  *)
(* app is seized and resumed with PTRACE_SYSCALL; each stop waitpid        *)
(* reports is taken for a clone, a syscall entry or exit, or a signal, and *)
(* the thread is resumed.  A map of pending entries pairs exits with       *)
(* entries.                                                                *)
(*                                                                         *)
(* The kernel's part is what a traced thread stops for: a syscall when it  *)
(* was resumed for syscalls, a signal, a clone, the trap of SEIZE and      *)
(* INTERRUPT, which is also the first stop of a cloned thread.             *)
(***************************************************************************)
EXTENDS AppProcess

CONSTANT MaxEvents    \* --max-events, 0 for no limit

ASSUME TraceAssumption == MaxEvents \in Nat

VARIABLES
  phase,      \* "resolve", "seize", "start", "loop", "detach", "exit", "over"
  todo,       \* threads the phase still has to treat
  attached,   \* the tracer's list of threads
  pending,    \* threads with an entry in the pending map
  events,     \* entries counted
  st,         \* thread -> "absent", "runs", "stopped", "gone"
  traced,     \* threads this process traces
  stop,       \* thread -> why it is stopped, as waitpid will say or has said
  mode,       \* thread -> "syscall" or "cont", how it was last resumed
  again,      \* threads with another trap of INTERRUPT to come
  inSys,      \* threads inside a system call
  signals,    \* signals still to come
  child,      \* thread -> the one its clone stop is about
  odd         \* history: threads that were not resumed for, or not read at, a syscall stop

kernel == <<st, traced, stop, child, mode, again, inSys, signals>>
tvars == <<phase, todo, attached, pending, events, kernel, odd>>

TraceInit ==
  /\ phase = "resolve" /\ todo = {} /\ attached = {} /\ pending = {} /\ events = 0
  /\ st = [t \in Threads |-> IF t = Main THEN "runs" ELSE "absent"]
  /\ traced = {} /\ again = {} /\ inSys = {} /\ odd = {}
  /\ stop = [t \in Threads |-> "none"] /\ child = [t \in Threads |-> t]
  /\ mode = [t \in Threads |-> "cont"]
  /\ signals = MaxSignals

-----------------------------------------------------------------------------
\* The app's threads and the kernel.

Stops(t, why) ==
  IF t \in traced
  THEN stop' = [stop EXCEPT ![t] = why] /\ st' = [st EXCEPT ![t] = "stopped"]
  ELSE UNCHANGED <<stop, st>>
tool == <<phase, todo, attached, pending, events, odd>>

\* A thread enters or leaves a system call.
CrossKernel(t) ==
  /\ st[t] = "runs" /\ (t \in again => t \in inSys)
  /\ inSys' = IF t \in inSys THEN inSys \ {t} ELSE inSys \cup {t}
  /\ IF mode[t] = "syscall" THEN Stops(t, "syscall") ELSE UNCHANGED <<stop, st>>
  /\ UNCHANGED <<tool, traced, child, mode, again, signals>>

GetSignal(t) ==
  /\ st[t] = "runs" /\ t \notin inSys /\ signals > 0
  /\ signals' = signals - 1 /\ Stops(t, "signal")
  /\ UNCHANGED <<tool, traced, child, mode, again, inSys>>

TrapAgain(t) ==
  /\ st[t] = "runs" /\ t \in again \ inSys
  /\ again' = again \ {t} /\ Stops(t, "trap")
  /\ UNCHANGED <<tool, traced, child, mode, inSys, signals>>

\* The new thread of a traced one is traced and stops before its first step.
Clone(t, u) ==
  /\ st[t] = "runs" /\ t \in inSys /\ t \notin again /\ st[u] = "absent"
  /\ IF t \in traced
     THEN /\ traced' = traced \cup {u}
          /\ st' = [st EXCEPT ![t] = "stopped", ![u] = "stopped"]
          /\ stop' = [stop EXCEPT ![t] = "clone", ![u] = "trap"]
          /\ child' = [child EXCEPT ![t] = u]
     ELSE st' = [st EXCEPT ![u] = "runs"] /\ UNCHANGED <<traced, stop, child>>
  /\ UNCHANGED <<tool, mode, again, inSys, signals>>

ThreadExit(t) ==
  /\ t # Main /\ st[t] = "runs"
  /\ st' = [st EXCEPT ![t] = "gone"]
  /\ stop' = [stop EXCEPT ![t] = IF t \in traced THEN "exit" ELSE "none"]
  /\ UNCHANGED <<tool, traced, child, mode, again, inSys, signals>>

-----------------------------------------------------------------------------
\* trace_syscalls.

\* ptrace resumes the threads of T that are stopped, with signal 0.
Resume(T, how) ==
  LET stopped == {t \in T \cap traced : st[t] = "stopped"} IN
  /\ st' = [t \in Threads |-> IF t \in stopped THEN "runs" ELSE st[t]]
  /\ stop' = [t \in Threads |-> IF t \in stopped THEN "none" ELSE stop[t]]
  /\ mode' = [t \in Threads |-> IF t \in stopped THEN how ELSE mode[t]]

\* resolve_target, then list_tids.
ListThreads ==
  /\ phase = "resolve"
  /\ \/ /\ phase' = "seize"
        /\ todo' = {t \in Threads : st[t] = "runs"} /\ attached' = todo'
     \/ phase' = "over" /\ UNCHANGED <<todo, attached>>
  /\ UNCHANGED <<pending, events, kernel, odd>>

\* SEIZE, INTERRUPT and one wait, whose status nobody looks at: a signal's stop
\* leaves the trap to come.  A system call the thread slept in starts again.
SeizeTid(t) ==
  /\ phase = "seize" /\ t \in todo
  /\ IF st[t] = "runs"
     THEN /\ traced' = traced \cup {t} /\ st' = [st EXCEPT ![t] = "stopped"]
          /\ inSys' = inSys \ {t}
          /\ \/ stop' = [stop EXCEPT ![t] = "trap"] /\ UNCHANGED <<signals, again>>
             \/ /\ signals > 0 /\ signals' = signals - 1
                /\ stop' = [stop EXCEPT ![t] = "signal"] /\ again' = again \cup {t}
     ELSE UNCHANGED <<traced, st, stop, inSys, signals, again>>
  /\ todo' = IF todo = {t} THEN attached ELSE todo \ {t}
  /\ phase' = IF todo = {t} THEN "start" ELSE "seize"
  /\ UNCHANGED <<attached, pending, events, child, mode, odd>>

\* Mutant: a thread that is gone is waited for.
StartTidWaits(t) ==
  /\ phase = "start" /\ t \in todo /\ st[t] # "gone"
  /\ Resume({t}, "syscall")
  /\ todo' = todo \ {t}
  /\ phase' = IF todo = {t} THEN "loop" ELSE "start"
  /\ UNCHANGED <<attached, pending, events, traced, child, again, inSys, signals, odd>>
\* A thread that is gone is an error: the tracer exits without detach_all.
StartTid(t) ==
  /\ phase = "start" /\ t \in todo
  /\ Resume({t}, "syscall")
  /\ todo' = IF st[t] = "gone" THEN {} ELSE todo \ {t}
  /\ phase' = CASE st[t] = "gone" -> "exit" [] todo = {t} -> "loop" [] OTHER -> "start"
  /\ UNCHANGED <<attached, pending, events, traced, child, again, inSys, signals, odd>>

Reported(t, why) ==
  /\ phase = "loop" /\ (MaxEvents > 0 => events < MaxEvents)
  /\ t \in traced /\ stop[t] \in why

LoopExit(t) ==
  /\ Reported(t, {"exit"})
  /\ pending' = pending \ {t} /\ attached' = attached \ {t}
  /\ traced' = traced \ {t} /\ stop' = [stop EXCEPT ![t] = "none"]
  /\ UNCHANGED <<phase, todo, events, st, child, mode, again, inSys, signals, odd>>

\* seize_tid of the new thread: SEIZE fails, INTERRUPT sets another trap if the
\* thread is stopped already, and the wait takes whatever stop comes first.
LoopClone(t) ==
  /\ Reported(t, {"clone"})
  /\ LET u == child[t] IN
     /\ \/ /\ st[u] = "stopped" /\ again' = again \cup {u}
           /\ odd' = IF stop[u] = "trap" THEN odd ELSE odd \cup {u}
           /\ UNCHANGED inSys
        \/ st[u] \in {"runs", "gone"} /\ UNCHANGED <<again, odd, inSys>>
        \/ /\ st[u] = "runs" /\ mode[u] = "syscall"    \* its syscall stop
           /\ again' = again \cup {u} /\ odd' = odd \cup {u}
           /\ inSys' = IF u \in inSys THEN inSys \ {u} ELSE inSys \cup {u}
     /\ Resume({t, u}, "syscall")
     /\ attached' = attached \cup {t, u}
  /\ UNCHANGED <<phase, todo, pending, events, traced, child, signals>>

\* Mutant: an exit looks its entry up and leaves it in the map.
LoopSyscallKeeps(t) ==
  /\ Reported(t, {"syscall", "trap"})
  /\ attached' = attached \cup {t}
  /\ odd' = IF stop[t] = "trap" THEN odd \cup {t} ELSE odd
  /\ pending' = pending \cup {t}
  /\ Resume({t}, "syscall")
  /\ UNCHANGED <<phase, todo, events, traced, child, again, inSys, signals>>
\* SIGTRAP with or without 0x80: an entry, or the exit of the pending one.
LoopSyscall(t) ==
  /\ Reported(t, {"syscall", "trap"})
  /\ attached' = attached \cup {t}
  /\ odd' = IF stop[t] = "trap" THEN odd \cup {t} ELSE odd
  /\ IF t \in pending THEN pending' = pending \ {t} /\ UNCHANGED events
     ELSE /\ pending' = pending \cup {t}
          /\ \E passes \in BOOLEAN :    \* --filter
               events' = IF passes /\ events < MaxEvents THEN events + 1 ELSE events
  /\ Resume({t}, "syscall")
  /\ UNCHANGED <<phase, todo, traced, child, again, inSys, signals>>

\* Any other signal is passed on with PTRACE_CONT.
LoopSignal(t) ==
  /\ Reported(t, {"signal"})
  /\ st' = [st EXCEPT ![t] = "runs"] /\ stop' = [stop EXCEPT ![t] = "none"]
  /\ mode' = [mode EXCEPT ![t] = "cont"] /\ odd' = odd \cup {t}
  /\ attached' = attached \cup {t}
  /\ UNCHANGED <<phase, todo, pending, events, traced, child, again, inSys, signals>>

\* The deadline, --max-events, no thread left, or an error of getregs.
LoopEnds ==
  /\ phase = "loop"
  /\ phase' = "detach" /\ todo' = attached
  /\ UNCHANGED <<attached, pending, events, kernel, odd>>

\* detach_all: INTERRUPT, up to 50 ms for a stop, DETACH with signal 0.  A
\* thread that has not stopped by then stays traced.
DetachTid(t) ==
  /\ phase = "detach" /\ t \in todo
  /\ todo' = todo \ {t}
  /\ \/ Resume({t}, "cont") /\ traced' = traced \ {t} /\ again' = again \ {t}
     \/ st[t] = "runs" /\ again' = again \cup {t} /\ UNCHANGED <<st, stop, mode, traced>>
  /\ UNCHANGED <<phase, attached, pending, events, child, inSys, signals, odd>>

DetachEnds ==
  /\ phase = "detach" /\ todo = {} /\ phase' = "exit"
  /\ UNCHANGED <<todo, attached, pending, events, kernel, odd>>

\* The kernel detaches whatever is still traced.
TracerExits ==
  /\ phase = "exit" /\ phase' = "over"
  /\ Resume(Threads, "cont")
  /\ traced' = {} /\ again' = {} /\ pending' = {} /\ attached' = {}
  /\ UNCHANGED <<todo, events, child, inSys, signals, odd>>

\* The injector is killed: timeout, adb, the user.
TracerKilled ==
  /\ phase \notin {"resolve", "over"} /\ phase' = "over"
  /\ Resume(Threads, "cont")
  /\ traced' = {} /\ again' = {} /\ pending' = {} /\ todo' = {} /\ attached' = {}
  /\ UNCHANGED <<events, child, inSys, signals, odd>>

TracerStep ==
  \/ ListThreads \/ LoopEnds \/ DetachEnds \/ TracerExits
  \/ \E t \in Threads :
       \/ SeizeTid(t) \/ StartTid(t) \/ DetachTid(t)
       \/ LoopExit(t) \/ LoopSyscall(t) \/ LoopSignal(t) \/ LoopClone(t)
TraceNext ==
  \/ TracerStep \/ TracerKilled
  \/ \E t \in Threads :
       \/ CrossKernel(t) \/ GetSignal(t) \/ TrapAgain(t) \/ ThreadExit(t)
       \/ \E u \in Threads : Clone(t, u)

\* The map of pending entries follows every thread into and out of the kernel, as
\* long as all its stops were system calls: no trap, no signal, not cloned.
PairsMatch ==
  \A t \in traced \ odd : phase = "loop" /\ mode[t] = "syscall" /\ st[t] # "gone" =>
    (t \in pending) = IF stop[t] = "syscall" THEN t \notin inSys ELSE t \in inSys

\* Once a trace began, the app's threads run again with nobody tracing them, also
\* the ones cloned while it ended and the ones of a trace that failed.
AppRunsAlone == []<>(traced = {} /\ \A t \in Threads : st[t] # "stopped")
==============================================================================
