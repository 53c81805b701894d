------------------------------ MODULE ApiTrace ------------------------------
(***************************************************************************)
(* Tracing of Android API calls: inline hooks on ART's invoke stubs, whose *)
(* callback runs on every thread of the app, switched on and off by atomic *)
(* variables and limited by a number of events.                            *)
(***************************************************************************)
EXTENDS Naturals, FiniteSets

CONSTANTS
  Tracees,    \* threads of the app that run Java code
  Stubs,      \* art_quick_invoke_stub and art_quick_invoke_static_stub
  Limits,     \* values of max_events
  MaxStarts,  \* bound: calls of start_android_api_trace
  MaxCount    \* bound: events counted

ASSUME TraceAssumption == /\ Limits \subseteq Nat /\ MaxStarts \in Nat /\ MaxCount \in Nat
                          /\ IsFiniteSet(Tracees)

VARIABLES
  enabled, limit, count,  \* ENABLED, MAX_EVENTS, EVENT_COUNT
  hooked,                 \* the stubs attached; INSTALLED when there are any
  starting,               \* where start_android_api_trace is
  starts,
  inCallback,             \* where each thread is in on_invoke_enter
  seen                    \* max: the limit each thread read there

xvars == <<enabled, limit, count, hooked, starting, starts, inCallback, seen>>

ApiTraceInit ==
  /\ enabled = FALSE /\ limit = 0 /\ count = 0 /\ hooked = {}
  /\ starting = "no" /\ starts = 0
  /\ inCallback = [t \in Tracees |-> "no"] /\ seen = [t \in Tracees |-> 0]

-----------------------------------------------------------------------------

\* The prefixes and the limit are replaced while callbacks run.
Start(l) ==
  /\ starting = "no" /\ starts < MaxStarts
  /\ limit' = l /\ starts' = starts + 1 /\ starting' = "reset"
  /\ UNCHANGED <<enabled, count, hooked, inCallback, seen>>

ResetCount ==
  /\ starting = "reset" /\ starting' = "install"
  /\ count' = 0
  /\ UNCHANGED <<enabled, limit, hooked, starts, inCallback, seen>>

\* PrettyMethod and its like are not found in libart.
HelpersMissing == starting' = "no" /\ UNCHANGED hooked

\* ensure_invoke_hook attaches once, and at least one stub.
AttachStubs ==
  /\ starting' = "enable"
  /\ IF hooked = {} THEN hooked' \in SUBSET Stubs \ {{}} ELSE UNCHANGED hooked

InstallHooks ==
  /\ starting = "install"
  /\ HelpersMissing \/ AttachStubs
  /\ UNCHANGED <<enabled, limit, count, starts, inCallback, seen>>

Enable ==
  /\ starting = "enable" /\ starting' = "no"
  /\ enabled' = TRUE
  /\ UNCHANGED <<limit, count, hooked, starts, inCallback, seen>>

StopTrace ==
  /\ starting = "no" /\ enabled
  /\ enabled' = FALSE
  /\ UNCHANGED <<limit, count, hooked, starting, starts, inCallback, seen>>

-----------------------------------------------------------------------------
(* on_invoke_enter *)

Goes(t, p) == inCallback' = [inCallback EXCEPT ![t] = p]

\* A thread that is in the callback already (IN_TRACE) goes straight on.
EnterStub(t) ==
  /\ hooked # {} /\ enabled /\ inCallback[t] = "no"
  /\ Goes(t, "compares") /\ seen' = [seen EXCEPT ![t] = limit]
  /\ UNCHANGED <<enabled, limit, count, hooked, starting, starts>>

\* Mutant: one event too many.
AboveLimit(t) == seen[t] > 0 /\ count > seen[t]
AtLimit(t) == seen[t] > 0 /\ count >= seen[t]

CompareCount(t) ==
  /\ inCallback[t] = "compares"
  /\ Goes(t, IF AtLimit(t) THEN "full" ELSE "formats")
  /\ UNCHANGED <<enabled, limit, count, hooked, starting, starts, seen>>

SwitchOff(t) ==
  /\ inCallback[t] = "full" /\ Goes(t, "no")
  /\ enabled' = FALSE
  /\ UNCHANGED <<limit, count, hooked, starting, starts, seen>>

\* The class does not match, or the event is counted and sent; the label and the
\* arguments were read in between.
CountEvent(t) ==
  /\ inCallback[t] = "formats" /\ Goes(t, "no")
  /\ \/ count < MaxCount /\ count' = count + 1
     \/ UNCHANGED count
  /\ UNCHANGED <<enabled, limit, hooked, starting, starts, seen>>

ApiTraceNext ==
  \/ \E l \in Limits : Start(l)
  \/ ResetCount \/ InstallHooks \/ Enable \/ StopTrace
  \/ \E t \in Tracees : EnterStub(t) \/ CompareCount(t) \/ SwitchOff(t) \/ CountEvent(t)

ApiTraceSpec == ApiTraceInit /\ [][ApiTraceNext]_xvars

-----------------------------------------------------------------------------

\* --max-events: since its count was reset a trace emits at most one event more
\* than the limit for every other thread, also when it was started over another
\* trace whose callbacks were still under way with the limit of that one.
LimitHolds ==
  limit > 0 /\ starting # "reset" => count <= limit + Cardinality(Tracees) - 1
=============================================================================
