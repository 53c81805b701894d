----------------------------- MODULE InjectorCli -----------------------------
(***************************************************************************)
(* The goauld-injector program: one of its two commands that touch an app. *)
(***************************************************************************)
EXTENDS Injector, SyscallTrace

VARIABLE cmd    \* the subcommand; never changes

cvars == <<cmd, ivars, tvars>>

\* The flat flags without a subcommand mean inject; ps only reads /proc.
Init ==
  /\ InjectInit /\ TraceInit
  /\ cmd \in {"inject", "trace-syscalls"}
  /\ cmd = "trace-syscalls" => device = CHOOSE d \in Devices : TRUE

Inject(A) == cmd = "inject" /\ A /\ UNCHANGED <<cmd, tvars>>
Trace(A) == cmd = "trace-syscalls" /\ A /\ UNCHANGED <<cmd, ivars>>
Next == Inject(InjectNext) \/ Trace(TraceNext)

\* LoopEnds: a trace without a deadline and without --max-events never ends.
Spec ==
  /\ Init /\ [][Next]_cvars
  /\ WF_cvars(Inject(InjectProgress) \/ Trace(TracerStep))
  /\ WF_cvars(Trace(LoopEnds))
==============================================================================
