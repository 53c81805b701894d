---------------------------- MODULE MemoryAccess ----------------------------
(***************************************************************************)
(* MemoryAccessMonitor of goauld-script: pages lose their protection bits, *)
(* the SIGSEGV handler gives them back on the first access and reports the *)
(* access through a pipe.  The JS worker enables and disables the monitor  *)
(* while the threads of the target run and fault.                          *)
(*                                                                         *)
(* The target's accesses are legal under the protection its pages had      *)
(* before they were watched, but for those to guard pages, which have no   *)
(* protection bits of their own and whose faults somebody else awaits.     *)
(* mprotect may fail whenever it is called.                                *)
(***************************************************************************)
EXTENDS Naturals, Sequences, FiniteSets

CONSTANTS
  Pages,
  Guards,     \* the pages whose own protection is PROT_NONE
  Threads,
  MaxEnables, \* bound: how often the monitor is enabled
  MaxFails,   \* bound: how often mprotect fails
  PipeSize    \* events the non-blocking pipe takes

ASSUME BoundsAssumption == /\ MaxEnables \in Nat /\ MaxFails \in Nat /\ PipeSize \in Nat
                           /\ Pages # {} /\ IsFiniteSet(Threads)
                           /\ Guards \subseteq Pages

\* A page has bits of its own, or the read-write default that query_prot_flags
\* gives for a page that has none, or none.
Restorable == {"own", "rw"}
Protections == Restorable \cup {"none"}
\* The protection a page has before it is watched.
Own(p) == IF p \in Guards THEN "none" ELSE "own"

VARIABLES
  prot,
  enabled,   \* ENABLED
  prev,      \* prev_prot of the entries being built, or in STATE
  watched,   \* keys of STATE.pages, {} for None
  completed, \* entries of STATE with their completed flag set
  epoch,     \* history: enables so far
  step,      \* what enable or disable does next, "idle" between them
  todo,      \* pages the loop under way has still to visit
  wanted,    \* pages of the enable under way
  pc, frame, \* what each thread does, and what its handler knows
  pipe,      \* events in the pipe
  told,      \* history: events of the last enable that JS got, by page
  fails,     \* calls of mprotect that may still fail
  spoilt,    \* history: pages that lost their own protection, to an mprotect
             \* that failed or to the default of query_prot_flags
  refused,   \* history: threads whose handler left the page as it was, because
             \* mprotect failed
  late,      \* history: pages the last enable protected and a handler that began
             \* before it restored
  disturbed  \* history: the monitor changed since the thread faulted

workerVars  == <<step, todo, wanted, epoch>>
monitorVars == <<enabled, prev, watched, completed>>
losses == <<fails, spoilt, refused>>
vars == <<prot, monitorVars, workerVars, pc, frame, pipe, told, losses, late,
          disturbed>>

Steps == {"idle", "restore", "query", "protect", "switch on"}

\* "run": at an instruction that has not faulted.  "fault", "lock",
\* "unprotect", "notify": in mam_sig_handler.  "retry": back from it, at the
\* instruction that faulted.  "crashed": passed to the previous handler.
PCs == {"run", "fault", "lock", "unprotect", "notify", "retry", "crashed"}

Event == [epoch : 0 .. MaxEnables, page : Pages]

\* The page that faulted, and what the handler read of its entry.
NoFrame == [epoch |-> 0, page |-> CHOOSE p \in Pages : TRUE, first |-> FALSE,
            prev |-> "own"]

\* No entry gives back PROT_NONE: its page would fault for ever.
TypeOK ==
  /\ prot \in [Pages -> Protections] /\ prev \in [Pages -> Restorable]
  /\ enabled \in BOOLEAN /\ fails \in 0 .. MaxFails
  /\ spoilt \subseteq Pages /\ refused \subseteq Threads
  /\ watched \subseteq Pages /\ completed \subseteq watched
  /\ todo \subseteq Pages /\ wanted \subseteq Pages /\ late \subseteq Pages
  /\ epoch \in 0 .. MaxEnables
  /\ step \in Steps
  /\ pc \in [Threads -> PCs]
  /\ frame \in [Threads -> [epoch : 0 .. MaxEnables, page : Pages,
                            first : BOOLEAN, prev : Restorable]]
  /\ pipe \in Seq(Event) /\ Len(pipe) <= PipeSize
  /\ told \in [Pages -> Nat]
  /\ disturbed \in [Threads -> BOOLEAN]

Init ==
  /\ prot = [p \in Pages |-> Own(p)] /\ prev = [p \in Pages |-> "own"]
  /\ enabled = FALSE
  /\ fails = MaxFails /\ spoilt = {} /\ refused = {}
  /\ watched = {} /\ completed = {}
  /\ epoch = 0
  /\ step = "idle" /\ todo = {} /\ wanted = {} /\ late = {}
  /\ pc = [t \in Threads |-> "run"] /\ frame = [t \in Threads |-> NoFrame]
  /\ pipe = << >> /\ told = [p \in Pages |-> 0]
  /\ disturbed = [t \in Threads |-> FALSE]

-----------------------------------------------------------------------------
(* enable and disable, on the JS worker. *)

threadVars == <<pc, frame, pipe>>

\* Every step of the worker disturbs the handlers under way.
Disturb ==
  disturbed' = [t \in Threads |-> disturbed[t] \/ pc[t] \notin {"run", "crashed"}]

\* disable, alone or at the start of enable(P): ENABLED is cleared, then STATE
\* is locked and taken.
StartDisable(P) ==
  /\ step = "idle"
  /\ P # {} => epoch < MaxEnables
  /\ enabled' = FALSE
  /\ wanted' = P
  /\ step' = "restore" /\ todo' = watched
  /\ watched' = {} /\ completed' = {} /\ late' = {}
  /\ Disturb
  /\ UNCHANGED <<prot, prev, epoch, threadVars, told, losses>>

\* Mutant: a page still without protection bits is left as it is.
LeaveTrapped(p) == prot[p]
\* The protection disable gives a page.
PutBack(p) == prev[p]

\* A call of mprotect fails.
Fails == fails > 0 /\ fails' = fails - 1

\* The pages of S that are not as they were stay so: nothing restores them any more.
Spoil(S) == spoilt' = spoilt \cup {p \in S : prot[p] # Own(p)}

\* disable ignores that mprotect failed: STATE has been taken.
RestorePage(p) ==
  /\ step = "restore" /\ p \in todo
  /\ \/ prot' = [prot EXCEPT ![p] = PutBack(p)] /\ UNCHANGED <<fails, spoilt>>
     \/ Fails /\ UNCHANGED prot /\ Spoil({p})
  /\ todo' = todo \ {p}
  /\ Disturb
  /\ UNCHANGED <<monitorVars, step, wanted, epoch, threadVars, told, refused, late>>

\* The lock is released.  disable ends here, enable goes on to make its entries.
Restored ==
  /\ step = "restore" /\ todo = {}
  /\ prev' = [p \in Pages |-> "own"]
  /\ todo' = wanted
  /\ \/ wanted = {} /\ step' = "idle" /\ UNCHANGED <<epoch, told>>
     \/ /\ wanted # {} /\ step' = "query"
        /\ epoch' = epoch + 1 /\ told' = [p \in Pages |-> 0]
  /\ Disturb
  /\ UNCHANGED <<prot, enabled, watched, completed, wanted, threadVars, losses, late>>

\* Mutant: the protection as the memory map shows it.
QueryRaw(p) == prot[p]
\* query_prot_flags: a page without protection bits counts as read-write, a guard
\* page like any other.
QueryProt(p) == IF prot[p] = "none" THEN "rw" ELSE prot[p]

QueryPage(p) ==
  /\ step = "query" /\ p \in todo
  /\ prev' = [prev EXCEPT ![p] = QueryProt(p)]
  /\ spoilt' = spoilt \cup ({p} \cap Guards)
  /\ IF todo = {p} THEN step' = "protect" /\ todo' = wanted
                   ELSE step' = step /\ todo' = todo \ {p}
  /\ Disturb
  /\ UNCHANGED <<prot, enabled, watched, completed, wanted, epoch, threadVars,
                 told, fails, refused, late>>

ProtectPage(p) ==
  /\ step = "protect" /\ p \in todo
  /\ prot' = [prot EXCEPT ![p] = "none"] /\ late' = late \ {p}
  /\ todo' = todo \ {p}
  /\ Disturb
  /\ UNCHANGED <<monitorVars, step, wanted, epoch, threadVars, told, losses>>

\* mprotect failed: enable calls disable, which finds no STATE to restore the pages
\* from that are protected already.
ProtectFails ==
  /\ step = "protect" /\ todo # {}
  /\ Fails /\ Spoil(wanted \ todo)
  /\ step' = "idle" /\ todo' = {} /\ wanted' = {}
  /\ prev' = [p \in Pages |-> "own"]
  /\ Disturb
  /\ UNCHANGED <<prot, enabled, watched, completed, epoch, threadVars, told, refused,
                 late>>

\* Mutant: the loop stops before its last page.
OneLeft(S) == Cardinality(S) <= 1
\* All pages of the enable have been protected.
NoneLeft(S) == S = {}

\* STATE is set under the lock.
Publish ==
  /\ step = "protect" /\ NoneLeft(todo)
  /\ watched' = wanted
  /\ step' = "switch on" /\ todo' = {}
  /\ Disturb
  /\ UNCHANGED <<prot, enabled, prev, completed, wanted, epoch, threadVars, told,
                 losses, late>>

SwitchOn ==
  /\ step = "switch on"
  /\ enabled' = TRUE
  /\ step' = "idle" /\ wanted' = {}
  /\ Disturb
  /\ UNCHANGED <<prot, prev, watched, completed, todo, epoch, threadVars, told,
                 losses, late>>

Worker == \/ \E P \in SUBSET Pages : StartDisable(P)
          \/ \E p \in Pages : RestorePage(p) \/ QueryPage(p) \/ ProtectPage(p)
          \/ Restored \/ ProtectFails \/ Publish \/ SwitchOn

-----------------------------------------------------------------------------
(* The threads of the target. *)

Goto(t, where) == pc' = [pc EXCEPT ![t] = where]
\* Leaving the handler, its frame goes; a thread that will try its instruction
\* again knows the page.
Leave(t, where, p) == /\ Goto(t, where)
                      /\ frame' = [frame EXCEPT ![t] = [NoFrame EXCEPT !.page = p]]

\* Whether an access may trap: every one does on a page without bits, and one to
\* execute on a page that is read-write though it was not so of its own.
MayTrap(p) == prot[p] # "own"

\* A thread touches a page that lacks the bit it needs.
Fault(t, p) ==
  /\ pc[t] = "run" /\ MayTrap(p)
  /\ Goto(t, "fault")
  /\ frame' = [frame EXCEPT ![t].page = p]
  /\ disturbed' = [disturbed EXCEPT ![t] = step # "idle" \/ p \notin watched]
  /\ UNCHANGED <<prot, monitorVars, workerVars, pipe, told, losses, late>>

\* The instruction is tried again: it goes through, or faults again.
Retry(t) ==
  /\ pc[t] = "retry"
  /\ \/ /\ prot[frame[t].page] # "none"
        /\ Leave(t, "run", NoFrame.page)
        /\ disturbed' = [disturbed EXCEPT ![t] = FALSE]
     \/ /\ MayTrap(frame[t].page)
        /\ Goto(t, "fault")
        /\ disturbed' = [disturbed EXCEPT ![t] = @ \/ step # "idle"]
        /\ UNCHANGED frame
  /\ refused' = refused \ {t}
  /\ UNCHANGED <<prot, monitorVars, workerVars, pipe, told, fails, spoilt, late>>

\* Mutant: while the monitor is off the handler just returns.
NotChained(t) == Leave(t, "retry", frame[t].page)
\* chain_previous.  What the previous handler does is its own affair.
Chained(t) == Leave(t, "crashed", NoFrame.page)

\* mam_sig_handler looks at ENABLED first, without a lock.
CheckEnabled(t) ==
  /\ pc[t] = "fault"
  /\ \/ enabled /\ Goto(t, "lock") /\ UNCHANGED frame
     \/ ~ enabled /\ Chained(t)
  /\ UNCHANGED <<prot, monitorVars, workerVars, pipe, told, losses, late,
                 disturbed>>

\* Mutants: the flag stays clear; an access to a completed page is not ours.
NotMarked(p) == completed
OnlyOpen == watched \ completed
\* What becomes of the flags when p is accessed.
Marked(p) == completed \cup {p}
\* The pages whose faults the handler takes: a second thread may have faulted
\* before the first one's handler restored the page.
Handled == watched

\* The handler's critical section.  disable holds the lock while it restores.
Lookup(t) ==
  /\ pc[t] = "lock" /\ step # "restore"
  /\ LET p == frame[t].page IN
       \/ /\ p \in Handled
          /\ frame' = [frame EXCEPT ![t] =
                         [epoch |-> epoch, page |-> p, first |-> p \notin completed,
                          prev |-> prev[p]]]
          /\ completed' = Marked(p)
          /\ Goto(t, "unprotect")
       \/ p \notin Handled /\ Chained(t) /\ UNCHANGED completed
  /\ UNCHANGED <<prot, enabled, prev, watched, workerVars, pipe, told, losses,
                 late, disturbed>>

\* The handler ignores that mprotect failed and goes on as if it had not.
Unprotect(t) ==
  /\ pc[t] = "unprotect"
  /\ \/ /\ prot' = [prot EXCEPT ![frame[t].page] = frame[t].prev]
        /\ late' = IF frame[t].epoch # epoch /\ prot[frame[t].page] = "none"
                     THEN late \cup {frame[t].page} ELSE late
        /\ UNCHANGED <<fails, refused>>
     \/ /\ Fails
        /\ refused' = IF MayTrap(frame[t].page) THEN refused \cup {t} ELSE refused
        /\ UNCHANGED <<prot, late>>
  /\ IF frame[t].first THEN Goto(t, "notify") /\ UNCHANGED frame
                       ELSE Leave(t, "retry", frame[t].page)
  /\ UNCHANGED <<monitorVars, workerVars, pipe, told, spoilt, disturbed>>

EventOf(t) == [epoch |-> frame[t].epoch, page |-> frame[t].page]

\* write_event: a full pipe loses the event.
Notify(t) ==
  /\ pc[t] = "notify"
  /\ pipe' = IF Len(pipe) < PipeSize THEN Append(pipe, EventOf(t)) ELSE pipe
  /\ Leave(t, "retry", frame[t].page)
  /\ UNCHANGED <<prot, monitorVars, workerVars, told, losses, late, disturbed>>

\* drain_loop posts each event to the JS worker.
Drain ==
  /\ pipe # << >>
  /\ pipe' = Tail(pipe)
  /\ told' = IF Head(pipe).epoch = epoch
               THEN [told EXCEPT ![Head(pipe).page] = @ + 1] ELSE told
  /\ UNCHANGED <<prot, monitorVars, workerVars, pc, frame, losses, late, disturbed>>

HandlerStep(t) == Retry(t) \/ CheckEnabled(t) \/ Lookup(t) \/ Unprotect(t)
                    \/ Notify(t)

Next == \/ Worker
        \/ \E t \in Threads : (\E p \in Pages : Fault(t, p)) \/ HandlerStep(t)
        \/ Drain

Spec == Init /\ [][Next]_vars

\* Threads run, the worker gets through an enable or disable it began.  The lock
\* is a parking_lot Mutex, which hands itself over now and then: the handler gets
\* it in the end, however often the worker takes it.
HandlerFair(t) == WF_vars(HandlerStep(t)) /\ SF_vars(Lookup(t))
Fairness == /\ \A t \in Threads : HandlerFair(t)
            /\ WF_vars(step # "idle" /\ Worker)

FairSpec == Spec /\ Fairness

-----------------------------------------------------------------------------

\* Events of the last enable about p: JS has them, the pipe, or a handler.
EventsOf(p) ==
  told[p] + Cardinality({n \in DOMAIN pipe : pipe[n] = [epoch |-> epoch, page |-> p]})
    + Cardinality({t \in Threads : /\ pc[t] \in {"unprotect", "notify"}
                                   /\ frame[t].first
                                   /\ EventOf(t) = [epoch |-> epoch, page |-> p]})

\* "each monitored page notifies once": one enable makes at most one event for a
\* page, however many threads fault on it together, and only once the page is
\* marked completed.
NotifiesOnce ==
  \A p \in Pages : EventsOf(p) <= (IF watched = {} \/ p \in completed THEN 1 ELSE 0)

\* A thread loses its fault to the previous handler only if the monitor was
\* switched while the fault was under way, or it touched a page that was not
\* watched: a guard page, or one that a failing mprotect left without its bits.
CrashOnlyIfDisturbed == \A t \in Threads : pc[t] = "crashed" => disturbed[t]

\* When the monitor is off every page has the protection it had before it was
\* watched, whatever handlers are still running, but for guard pages that were
\* watched, and for pages an mprotect failed to restore or that were protected
\* when an enable failed.
OffMeansRestored ==
  step = "idle" /\ watched = {} => \A p \in Pages : prot[p] = Own(p) \/ p \in spoilt

\* A page that is watched and was not accessed yet still traps, unless a handler
\* from before the last enable restored it late.
WatchedTraps ==
  step = "idle" => \A p \in watched \ completed : prot[p] = "none" \/ p \in late

\* The instruction of t went through, or the previous handler has its fault; or mprotect
\* failed in its handler, or the page had lost its own protection before.
Ended(t) == pc[t] \in {"run", "crashed"} \/ t \in refused \/ frame[t].page \in spoilt

\* Every fault comes to its end, so that a thread is again and again at one, unless the
\* monitor is enabled for ever again, or the page has no bits to be given: where
\* mprotect failed, nothing ends it.
FaultEnds == \A t \in Threads : []<>Ended(t)
=============================================================================
