------------------------------ MODULE ArtHook -------------------------------
(***************************************************************************)
(* Java.use(..).implementation: an ArtMethod is rewritten to a native one  *)
(* whose entry is one of a few bridge functions, one per slot; the bridge  *)
(* hands the call to the JS worker, where the implementation may call the  *)
(* original through a clone of the ArtMethod made before the rewrite.      *)
(*                                                                         *)
(* The 32 bytes of an ArtMethod are abstracted to where a call of it goes. *)
(***************************************************************************)
EXTENDS Naturals, Sequences, FiniteSets, Functions

CONSTANTS
  Methods,   \* the (I)I methods scripts hook; each has a key of its own
  App,       \* threads of the app
  Worker,    \* goauld-js-worker
  MaxSlots,  \* bound: 16 in the code
  MaxHooks,  \* bound: methods rewritten, in all
  MaxCalls   \* bound: calls of hooked methods handed to the worker

ASSUME ArtAssumption == /\ MaxSlots \in Nat \ {0} /\ MaxHooks \in Nat /\ MaxCalls \in Nat
                        /\ Worker \notin App /\ "none" \notin Methods

Slots == 0 .. MaxSlots - 1
Own == MaxSlots           \* the method's code: no bridge
Missing == MaxSlots + 1   \* no bytes: malloc failed, or nothing
Callers == App \cup {Worker}

\* LiveHook: the method and what its clone would run.
Hook(m, b) == [method |-> m, backup |-> b]
NoHook == Hook("none", Missing)
Job(t, m, h) == [by |-> t, called |-> m, hook |-> h]
NoJob == Job(Worker, "none", "none")

VARIABLES
  art,        \* where a call of each method goes: Own or a slot's bridge
  slots,      \* SLOTS
  live,       \* LIVE: by ArtMethod*
  impls,      \* methods with a function in __javaImpls
  installing, \* install_hook_env on the worker, after the rewrite
  queue,      \* JavaInvokeJobs
  running,    \* the one whose callback runs on the worker
  waits,      \* the call each thread waits for
  inOriginal, \* IN_ORIGINAL of the worker: the methods whose clone it runs
  posted,     \* how many calls were handed over
  rewrites,   \* history: how often each method was rewritten
  broken,     \* history: methods rewritten without getting their slot
  asked, ran  \* history: whose original was last asked for, whose body ran then

tables == <<art, slots, live, impls, installing>>
calls == <<queue, running, waits, inOriginal, posted>>
history == <<rewrites, broken, asked, ran>>
avars == <<tables, calls, history>>

ArtInit ==
  /\ art = [m \in Methods |-> Own]
  /\ slots = [s \in Slots |-> NoHook] /\ live = [m \in Methods |-> NoHook]
  /\ impls = {} /\ installing = NoHook
  /\ queue = << >> /\ running = NoJob /\ waits = [t \in Callers |-> NoJob]
  /\ inOriginal = FALSE /\ posted = 0
  /\ rewrites = [m \in Methods |-> 0] /\ broken = {}
  /\ asked = "none" /\ ran = "none"

\* The worker executes script: a statement of its own or a callback.
InScript == installing = NoHook /\ waits[Worker] = NoJob /\ ~inOriginal

-----------------------------------------------------------------------------
(* Installing *)

\* Mutant: the slot of a method whose implementation was taken away is used again.
ReusableSlots == {s \in Slots : slots[s] = NoHook \/ slots[s].method \notin impls}
FreeSlots == {s \in Slots : slots[s] = NoHook}
\* vec.iter().position(|e| e.is_none())
FirstFree(s) == s \in FreeSlots /\ \A r \in FreeSlots : s <= r

\* Mutant: the ArtMethod is cloned from the live bytes after the rewrite.
SavedLate(m, s) == s
\* saved, and with it backup_art.
Saved(m, s) == art[m]

\* The backup is malloc'ed after the rewrite.
Rewrite(m) ==
  /\ \E s \in Slots :
       /\ FirstFree(s)
       /\ art' = [art EXCEPT ![m] = s]
       /\ installing' \in {Hook(m, Saved(m, s)), Hook(m, Missing)}
  /\ rewrites' = [rewrites EXCEPT ![m] = @ + 1]

\* The class, the method or the trampoline is not found, or all slots are taken.
NotFound == UNCHANGED <<art, installing, rewrites>>

\* method.implementation = fn or null: javaHook runs in any case.
Assign(m, fn) ==
  /\ InScript /\ FoldFunction(+, 0, rewrites) < MaxHooks
  /\ impls' = IF fn THEN impls \cup {m} ELSE impls \ {m}
  /\ Rewrite(m) \/ NotFound
  /\ UNCHANGED <<slots, live, calls, broken, asked, ran>>

\* The references to the reflected method and the class may not be made.  The slot
\* is still free: only the worker installs.
Publish ==
  /\ installing # NoHook /\ installing' = NoHook
  /\ \/ /\ slots' = [slots EXCEPT ![art[installing.method]] = installing]
        /\ live' = [live EXCEPT ![installing.method] = installing]
        /\ UNCHANGED broken
     \/ broken' = broken \cup {installing.method} /\ UNCHANGED <<slots, live>>
  /\ UNCHANGED <<art, impls, calls, rewrites, asked, ran>>

-----------------------------------------------------------------------------
(* dispatch_slot *)

\* The hook a call of m finds; nothing happens at an empty slot, x comes back.
Found(m) == IF art[m] = Own THEN NoHook ELSE slots[art[m]]

\* A thread outside every hook: submit_java_invoke and the wait for the answer.
\* The worker does so when a script statement runs hooked Java code.
Call(t, m) ==
  /\ waits[t] = NoJob /\ Found(m) # NoHook /\ posted < MaxCalls
  /\ t = Worker => InScript /\ running = NoJob
  /\ LET j == Job(t, m, Found(m).method) IN
     queue' = Append(queue, j) /\ waits' = [waits EXCEPT ![t] = j]
  /\ posted' = posted + 1
  /\ UNCHANGED <<tables, running, inOriginal, history>>

\* The answer, or after ten seconds x + 1000.
CallEnds(t) ==
  /\ waits[t] # NoJob
  /\ waits' = [waits EXCEPT ![t] = NoJob]
  /\ UNCHANGED <<tables, queue, running, inOriginal, posted, history>>

\* worker_java_invoke: hook context, then the implementation if there is one.
TakeJob ==
  /\ running = NoJob /\ InScript /\ queue # << >>
  /\ running' = Head(queue) /\ queue' = Tail(queue)
  /\ UNCHANGED <<tables, waits, inOriginal, posted, history>>

CallbackEnds ==
  /\ running # NoJob /\ InScript
  /\ running' = NoJob
  /\ UNCHANGED <<tables, queue, waits, inOriginal, posted, history>>

\* The clone runs the body, unless it is itself a clone of a rewritten method:
\* then its bridge finds IN_ORIGINAL set and returns x.
BodyRun(hook) == IF hook.backup = Own THEN hook.method ELSE "none"

\* call_original_int
InvokeBackup(m, hook) ==
  /\ hook # NoHook
  /\ asked' = m /\ ran' = BodyRun(hook)
  /\ inOriginal' = (hook.backup = Own)
  /\ UNCHANGED <<tables, queue, running, waits, posted, rewrites, broken>>

\* this.method(x) in the implementation: the hook by CUR_ART, not by the key.
CallOriginal ==
  /\ running # NoJob /\ InScript /\ running.hook \in impls
  /\ InvokeBackup(running.called, live[running.hook])

\* The implementation runs Java code that comes to a hooked method: IN_BRIDGE is
\* set, only its backup is invoked.
NestedCall(m) ==
  /\ running # NoJob /\ InScript /\ running.hook \in impls
  /\ InvokeBackup(m, Found(m))

\* The body returns.  What it called in between, if hooked, was answered with x.
OriginalReturns ==
  /\ inOriginal /\ inOriginal' = FALSE
  /\ UNCHANGED <<tables, queue, running, waits, posted, history>>

ArtNext ==
  \/ \E m \in Methods : (\E fn \in BOOLEAN : Assign(m, fn)) \/ NestedCall(m)
  \/ \E m \in Methods, t \in Callers : Call(t, m)
  \/ \E t \in Callers : CallEnds(t)
  \/ Publish \/ TakeJob \/ CallbackEnds \/ CallOriginal \/ OriginalReturns

ArtSpec == ArtInit /\ [][ArtNext]_avars

-----------------------------------------------------------------------------

\* An implementation runs only for calls of its own method, with any number of
\* methods hooked at once and also where the slots run out; a method whose
\* installation failed half-way is none of it: its bridge belongs to the next.
OwnHook ==
  running # NoJob /\ running.called \notin broken => running.hook = running.called

\* Whoever asks for the original of a method that was given an implementation
\* once, its callback or Java code under another method's callback, has the
\* body of that method run, and not a bridge.
OriginalRuns ==
  asked # "none" /\ asked \notin broken /\ rewrites[asked] = 1 /\ live[asked].backup # Missing =>
    ran = asked
=============================================================================
