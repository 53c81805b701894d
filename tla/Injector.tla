------------------------------- MODULE Injector -------------------------------
(***************************************************************************)
(* goauld-injector inject: one process stops every thread of an app with   *)
(* ptrace, makes the app's main thread run system calls and dlopen, puts   *)
(* its registers back and detaches (inject.rs, remote.rs, the injector's   *)
(* main.rs).  Several runs of the injector may follow each other on one    *)
(* app: a later run kills the one that still traces it, and any run may be *)
(* killed from outside.                                                    *)
(*                                                                         *)
(* The app is its threads, the linker's lock, the last word of libc's text *)
(* and the place its main thread would continue from.  Signals that arrive *)
(* at the main thread while it is traced are counted: the injector resumes *)
(* it with signal 0 and takes the stop for the one it waits for, which may *)
(* leave the thread at the entry of a system call that runs too late.      *)
(***************************************************************************)
EXTENDS AppProcess

CONSTANTS
  NoThread,     \* the linker's lock is free
  Devices,      \* what the devices let the injector do: see DeviceType
  MaxRuns,      \* bound: runs of the injector on this app
  MaxConts,     \* stops a remote call is resumed from (64 in cont_until_pc)
  MaxLocks,     \* bound: times the app's own threads take the linker's lock
  MaxClones     \* bound: threads the app creates

\* root: su was granted; stages: a way of copying the agent works; opens: the app
\* may open the copy, at once or after its label is changed; gadget: libc, libdl
\* or the linker has a BRK; execmod: a written page of libc may be made
\* executable again.
DeviceType == [root : BOOLEAN, stages : BOOLEAN, opens : {"yes", "relabelled", "no"},
               gadget : BOOLEAN, execmod : BOOLEAN]

ASSUME InjectorAssumption ==
  /\ Devices \subseteq DeviceType
  /\ NoThread \notin Threads
  /\ MaxRuns \in Nat \ {0} /\ MaxConts \in Nat \ {0}
  /\ MaxLocks \in Nat /\ MaxClones \in Nat

Runs == 1 .. MaxRuns

VARIABLES
  device,   \* the device; never changes
  alive,    \* the app has not been killed
  thr,      \* thread -> "absent", "runs", "stopped" or "gone"
  tracer,   \* thread -> the run that traces it, 0 for none
  lock,     \* the linker's recursive lock: [who, depth, own]
  ctx,      \* where the main thread continues: see Contexts
  libc,     \* [word, exec]: last word of libc's text, page executable
  entry,    \* the system call the main thread was left at the entry of, or "none"
  harmed,   \* history: the app's registers or memory may have been overwritten
  budget,   \* signals, locks and clones still to come
  run,      \* run -> what that injector process is doing: see Idle
  dirty,    \* history: a run died with the app not as it found it
  missed    \* history: a thread escaped the stop of all threads

late == <<entry, harmed>>
app == <<alive, thr, tracer, lock, ctx, libc, late>>
ivars == <<device, app, budget, run, dirty, missed>>

\* own: the app's code.  call, locked: a function the injector called, before
\* it has the linker's lock and after.  lost: half-way through a system call.
Contexts == {"own", "call", "locked", "lost"}

\* The functions the main thread is made to call, in the order they are tried.
\* landing: "scratch" returns to a BRK in a page of the injector's, "libc" to
\* one in libc; lock: takes the linker's lock; got, zero, err: what is next when it returns a value, returns 0, or fails.
Call(landing, takesLock, got, zero, err) ==
  [landing |-> landing, lock |-> takesLock,
   got |-> got, zero |-> zero, err |-> err]
Calls ==
  [loader  |-> Call("scratch", TRUE, "ok", "page_rw", "fail"),
   plain   |-> Call("libc", TRUE, "ok", "why", "why"),
   why     |-> Call("libc", FALSE, "page_rw2", "page_rw2", "page_rw2"),
   create  |-> Call("libc", TRUE, "nsopen", "why_ns", "fail"),
   why_ns  |-> Call("libc", FALSE, "memfd_rw", "memfd_rw", "memfd_rw"),
   nsopen  |-> Call("libc", TRUE, "ok", "memfd_rw", "fail"),
   extopen |-> Call("scratch", TRUE, "close_ok", "reason", "fail"),
   reason  |-> Call("libc", FALSE, "close_fail", "close_fail", "close_fail"),
   why_fd  |-> Call("libc", FALSE, "fail", "fail", "fail")]
\* Where the ladder goes on when a function is not exported there.
Missing(p) == CASE p = "create"  -> "memfd_rw"
                [] p = "extopen" -> "close_none"
                [] OTHER         -> Calls[p].zero

\* The system calls it is made to run between them, by number: what is next when
\* one succeeds, when it fails, and when x0 still holds the argument (mmap: 0,
\* mprotect and memfd_create: an address, openat: AT_FDCWD, write: the descriptor).
Then(nr, ok, fail, junk) == [nr |-> nr, ok |-> ok, fail |-> fail, junk |-> junk]
Ignored(nr, next) == Then(nr, next, next, next)
Syscalls ==
  [mmap_page    |-> Then("mmap", "openat", "fail", "fail"),
   openat       |-> Then("openat", "close", "reopenat", "reopenat"),
   reopenat     |-> Then("openat", "close", "page_rx", "page_rx"),
   close        |-> Ignored("close", "page_rx"),
   page_rx      |-> Then("mprotect", "load", "fail", "fail"),
   page_rw      |-> Ignored("mprotect", "plain"),
   page_rw2     |-> Ignored("mprotect", "create"),
   memfd_rw     |-> Ignored("mprotect", "memfd_create"),
   memfd_create |-> Then("memfd_create", "mmap_buf", "fail", "mmap_buf"),
   mmap_buf     |-> Then("mmap", "write", "close_fail", "close_fail"),
   write        |-> Then("write", "lseek", "close_fail", "write"),
   lseek        |-> Ignored("lseek", "mmap_brk"),
   mmap_brk     |-> Then("mmap", "brk_rx", "close_fail", "close_fail"),
   brk_rx       |-> Then("mprotect", "mmap_stack", "close_fail", "close_fail"),
   mmap_stack   |-> Then("mmap", "extopen", "close_fail", "close_fail"),
   close_ok     |-> Ignored("close", "ok"),
   close_none   |-> Ignored("close", "why_fd"),
   close_fail   |-> Ignored("close", "fail")]

\* word: what plant_brk_in_libc found in libc.  garbled: the call under way did
\* not start with the arguments it was given.
Idle == [at |-> "idle", call |-> "none", out |-> "none", saved |-> "own", todo |-> {},
         canOpen |-> FALSE, conts |-> 0, word |-> "code", garbled |-> FALSE]

InSyscall == DOMAIN Syscalls
InCall == DOMAIN Calls
\* With the registers of a system call set.
AtSyscall == InSyscall \cup {"plant", "plant_rx", "unplant", "unplant_rx"}
\* dlopen has to be there, and android_dlopen_ext is looked for before create.
MayBeMissing == InCall \ {"plain", "nsopen"}
\* With nothing of the app in hand, or no use for it any more.
Outside == {"idle", "stage", "stale", "list", "seize", "exit", "done"}

InjectInit ==
  /\ device \in Devices
  /\ alive = TRUE /\ dirty = FALSE /\ missed = FALSE
  /\ thr = [t \in Threads |-> IF t = Main THEN "runs" ELSE "absent"]
  /\ tracer = [t \in Threads |-> 0]
  /\ lock = [who |-> NoThread, depth |-> 0, own |-> FALSE]
  /\ ctx = "own" /\ libc = [word |-> "code", exec |-> TRUE]
  /\ entry = "none" /\ harmed = FALSE
  /\ budget = [signals |-> MaxSignals, locks |-> MaxLocks, clones |-> MaxClones]
  /\ run = [i \in Runs |-> Idle]

At(i, p) == run[i].at = p
\* Next place of run i; "ok" and "fail" end the closure of inject_library.
GotoWith(i, r, p) ==
  run' = [run EXCEPT ![i] =
    CASE p \in {"ok", "fail"} -> [r EXCEPT !.at = IF p = "ok" THEN "loaded" ELSE "failed", !.canOpen = FALSE]
      [] p = "load" -> [r EXCEPT !.at = IF r.canOpen THEN "loader" ELSE "memfd_rw"]
      [] OTHER      -> [r EXCEPT !.at = p]]
\* What is left of a run that is over.
Over(p) == [Idle EXCEPT !.at = p]
Goto(i, p) == GotoWith(i, run[i], p)
Spend(b) == budget[b] > 0 /\ budget' = [budget EXCEPT ![b] = @ - 1]

-----------------------------------------------------------------------------
\* The app's own threads.

Free(t) == alive /\ thr[t] = "runs" /\ tracer[t] = 0

\* A thread of the app enters the linker: dlopen, dl_iterate_phdr, unwinding.
AppLock(t) ==
  /\ Free(t) /\ (t = Main => ctx = "own") /\ lock.depth = 0 /\ Spend("locks")
  /\ lock' = [who |-> t, depth |-> 1, own |-> TRUE]
  /\ UNCHANGED <<device, alive, thr, tracer, ctx, libc, late, run, dirty, missed>>

AppUnlock(t) ==
  /\ Free(t) /\ (t = Main => ctx = "own") /\ lock.who = t /\ lock.own
  /\ lock' = [who |-> IF lock.depth = 1 THEN NoThread ELSE t,
              depth |-> lock.depth - 1, own |-> FALSE]
  /\ UNCHANGED <<device, alive, thr, tracer, ctx, libc, late, budget, run, dirty, missed>>

AppClone(t) ==
  /\ \E u \in Threads : Free(u)
  /\ thr[t] = "absent" /\ Spend("clones")
  /\ thr' = [thr EXCEPT ![t] = "runs"]
  /\ UNCHANGED <<device, alive, tracer, lock, ctx, libc, late, run, dirty, missed>>

AppThreadExit(t) ==
  /\ t # Main /\ Free(t) /\ lock.who # t
  /\ thr' = [thr EXCEPT ![t] = "gone"]
  /\ UNCHANGED <<device, alive, tracer, lock, ctx, libc, late, budget, run, dirty, missed>>

\* An untraced thread executes the BRK or the page that may not be executed, meets
\* what was overwritten, or the main thread goes on from registers nobody put back:
\* the app is killed.
AppTraps(t) ==
  /\ Free(t)
  /\ libc.word = "brk" \/ ~libc.exec \/ harmed \/ (t = Main /\ ctx = "lost")
  /\ alive' = FALSE
  /\ UNCHANGED <<device, thr, tracer, lock, ctx, libc, late, budget, run, dirty, missed>>

-----------------------------------------------------------------------------
\* The main thread inside a called function.  i traces it, or 0: then nobody
\* catches the BRK it returns to.

Called(c) == alive /\ thr[Main] = "runs" /\ ctx = c
\* Run i reads the outcome of its call, with the registers put back.
Landed(i, out) ==
  /\ ctx' = run[i].saved
  /\ thr' = [thr EXCEPT ![Main] = "stopped"]
  /\ LET c == Calls[run[i].call]
         r == [run[i] EXCEPT !.conts = 0, !.garbled = FALSE] IN
     IF c.landing = "libc" /\ ~device.gadget
     THEN GotoWith(i, [r EXCEPT !.out = out], "unplant")
     ELSE GotoWith(i, [r EXCEPT !.call = "none"], c[out])

MainEnters ==
  /\ Called("call")
  /\ tracer[Main] # 0 => Calls[run[tracer[Main]].call].lock
  /\ lock.who \in {NoThread, Main}
  /\ lock' = [lock EXCEPT !.who = Main, !.depth = @ + 1]
  /\ ctx' = "locked"
  /\ UNCHANGED <<device, alive, thr, tracer, libc, late, budget, run, dirty, missed>>

Unlocked ==
  IF ctx # "locked" THEN lock
  ELSE [lock EXCEPT !.depth = @ - 1, !.who = IF lock.depth = 1 THEN NoThread ELSE Main]

MainReturns(i, out) ==
  /\ ctx \in {"call", "locked"} /\ Called(ctx)
  /\ tracer[Main] = i /\ At(i, "cont")
  /\ (ctx = "locked") = Calls[run[i].call].lock
  /\ Landed(i, out)
  /\ lock' = Unlocked
  /\ UNCHANGED <<device, alive, tracer, libc, late, budget, dirty, missed>>

\* The run that made the call is dead: the BRK kills the app.
MainReturnsAlone ==
  /\ ctx \in {"call", "locked"} /\ Called(ctx) /\ tracer[Main] = 0
  /\ lock' = Unlocked /\ alive' = FALSE
  /\ UNCHANGED <<device, thr, tracer, ctx, libc, late, budget, run, dirty, missed>>

\* A fault in the called function, which one that started with a wrong argument
\* needs no signal for: the registers are put back in the middle of it, and what it
\* had locked stays locked.
MainFaults(i) ==
  /\ ctx \in {"call", "locked"} /\ Called(ctx) /\ tracer[Main] = i /\ At(i, "cont")
  /\ IF run[i].garbled THEN UNCHANGED budget ELSE Spend("signals")
  /\ Landed(i, "err")
  /\ UNCHANGED <<device, alive, tracer, lock, libc, late, dirty, missed>>

\* Another signal stops it: resumed with signal 0, given up after MaxConts.
CallStopped(i) ==
  /\ ctx \in {"call", "locked"} /\ Called(ctx) /\ tracer[Main] = i /\ At(i, "cont")
  /\ Spend("signals")
  /\ IF run[i].conts + 1 = MaxConts THEN Landed(i, "err")
     ELSE /\ run' = [run EXCEPT ![i].conts = @ + 1]
          /\ UNCHANGED <<thr, ctx>>
  /\ UNCHANGED <<device, alive, tracer, lock, libc, late, dirty, missed>>

-----------------------------------------------------------------------------
\* One run of the injector.

ToExit(i) == run' = [run EXCEPT ![i] = Over("exit")]

\* resolve_target names a live process of the package, or the run ends.  Runs are
\* numbered in the order they get to touch it; staging touches no process.
Start(i) ==
  /\ At(i, "idle") /\ (i > 1 => run[i - 1].at \notin {"idle", "stage", "stale"})
  /\ Goto(i, "stage") \/ Goto(i, "stale") \/ ToExit(i)
  /\ UNCHANGED <<device, app, budget, dirty, missed>>

Stage(i) ==
  /\ At(i, "stage")
  /\ IF device.root /\ device.stages THEN Goto(i, "stale") ELSE ToExit(i)
  /\ UNCHANGED <<device, app, budget, dirty, missed>>

\* Run i is gone and the kernel lets everything it traced run.
Released(i) ==
  /\ thr' = [t \in Threads |-> IF tracer[t] = i /\ thr[t] = "stopped" THEN "runs" ELSE thr[t]]
  /\ tracer' = [t \in Threads |-> IF tracer[t] = i THEN 0 ELSE tracer[t]]
\* What a run that dies at p may leave the main thread in: a system call it stands at
\* the entry of runs, and overwrites x0.
LeftAt(i) ==
  IF tracer[Main] = i /\ entry # "none" THEN {"lost"}
  ELSE IF run[i].at \in AtSyscall
  THEN {ctx, "lost"} ELSE {ctx}
Dies(i) ==
  /\ Released(i)
  /\ entry' = IF tracer[Main] = i THEN "none" ELSE entry
  /\ \E c \in LeftAt(i) :
       /\ ctx' = c
       /\ dirty' = (dirty \/ (tracer[Main] = i /\ (c # "own" \/ libc # [word |-> "code", exec |-> TRUE])))

\* A tracer that is an injector is killed before this run seizes the app.
ReleaseStale(i) ==
  /\ At(i, "stale")
  /\ LET j == tracer[Main] IN
     IF j = 0
     THEN Goto(i, "list") /\ UNCHANGED <<thr, tracer, ctx, entry, dirty>>
     ELSE /\ Dies(j)
          /\ run' = [run EXCEPT ![j] = Over("done"), ![i].at = "list"]
  /\ UNCHANGED <<device, alive, lock, libc, harmed, budget, missed>>

\* timeout, a lost adb connection or the user ends the run anywhere.
Crash(i) ==
  /\ run[i].at \notin {"idle", "done"}
  /\ Dies(i)
  /\ run' = [run EXCEPT ![i] = Over("done")]
  /\ UNCHANGED <<device, alive, lock, libc, harmed, budget, missed>>

ListTids(i) ==
  /\ At(i, "list")
  /\ run' = [run EXCEPT ![i].at = "seize", ![i].todo = {t \in Threads : thr[t] \in {"runs", "stopped"}}]
  /\ UNCHANGED <<device, app, budget, dirty, missed>>

\* Mutant: a thread that is gone by now is waited for.
StopTidWaits(i, t) ==
  /\ At(i, "seize") /\ t \in run[i].todo /\ (t # Main => Main \notin run[i].todo)
  /\ thr[t] = "runs" /\ tracer[t] = 0 /\ alive
  /\ thr' = [thr EXCEPT ![t] = "stopped"]
  /\ tracer' = [tracer EXCEPT ![t] = i]
  /\ run' = [run EXCEPT ![i].todo = @ \ {t}]
  /\ UNCHANGED <<device, alive, lock, ctx, libc, late, budget, dirty, missed>>
\* SEIZE, INTERRUPT and wait, the main thread first.  Fails for a thread that
\* is gone or has another tracer; the ones already stopped wait for the exit.
StopTid(i, t) ==
  /\ At(i, "seize") /\ t \in run[i].todo /\ (t # Main => Main \notin run[i].todo)
  /\ IF thr[t] = "runs" /\ tracer[t] = 0 /\ alive
     THEN /\ thr' = [thr EXCEPT ![t] = "stopped"]
          /\ tracer' = [tracer EXCEPT ![t] = i]
          /\ run' = [run EXCEPT ![i].todo = @ \ {t}]
     ELSE ToExit(i) /\ UNCHANGED <<thr, tracer>>
  /\ UNCHANGED <<device, alive, lock, ctx, libc, late, budget, dirty, missed>>

Seized(i) ==
  /\ At(i, "seize") /\ run[i].todo = {}
  /\ run' = [run EXCEPT ![i].at = "mmap_page", ![i].saved = ctx]
  /\ missed' = (missed \/ \E t \in Threads : Free(t))
  /\ UNCHANGED <<device, app, budget, dirty>>

\* A remote system call is PTRACE_SYSCALL twice; n of the two stops are a signal's,
\* which come before an entry.  After one the main thread is left at the entry of
\* this call.  Where an earlier call left it, that one runs first, on this call's
\* registers, and this one is left at its entry, unless a signal's stop is in between.
Stepped(nr, n) ==
  /\ n <= budget.signals /\ (n = 2 => entry = "none")
  /\ budget' = [budget EXCEPT !.signals = @ - n]
  /\ entry' = IF (n = 1) = (entry = "none") THEN nr ELSE "none"
\* What runs has the number and the arguments of the call, or another number.
Ran(nr, n) == entry = nr \/ (entry = "none" /\ n = 0)
Astray(nr) == entry \notin {"none", nr}
\* What x0 is taken for; answers: what the call itself can return.
Outcomes(nr, n, answers) == IF Ran(nr, n) THEN answers
                            ELSE IF Astray(nr) THEN {"ok", "fail", "junk"} ELSE {"junk"}

Denied(p) == (p = "openat" /\ device.opens # "yes") \/ (p = "reopenat" /\ device.opens = "no")
Answers(p) == IF p \in {"openat", "reopenat"} THEN {IF Denied(p) THEN "fail" ELSE "ok"}
              ELSE {"ok", "fail"}
Syscall(i) ==
  /\ run[i].at \in InSyscall /\ alive
  /\ LET p == run[i].at
         c == Syscalls[p]
         r == IF p = "close" THEN [run[i] EXCEPT !.canOpen = TRUE] ELSE run[i]
     IN \E n \in 0 .. 2 :
          /\ Stepped(c.nr, n)
          /\ harmed' = (harmed \/ Astray(c.nr))
          /\ \E out \in Outcomes(c.nr, n, Answers(p)) :
               \/ GotoWith(i, r, c[out])
               \/ p = "write" /\ out = "junk" /\ GotoWith(i, r, c.ok)  \* a descriptor as large as the rest
  /\ UNCHANGED <<device, alive, thr, tracer, lock, ctx, libc, dirty, missed>>

\* The function of a call is not exported there.
SymbolMissing(i) ==
  /\ run[i].at \in MayBeMissing /\ alive
  /\ Goto(i, Missing(run[i].at))
  /\ UNCHANGED <<device, app, budget, dirty, missed>>

\* remote_call, remote_call_with_lr: the registers of the call are set and the
\* main thread runs; for a BRK in libc that is not there one is planted first.
\* When the main thread stands at the entry of a system call, that runs first, on
\* the registers it has by now, and overwrites x0.
RunsOn == entry' = "none" /\ harmed' = (harmed \/ entry # "none")
SetRegs(i, name) ==
  /\ run' = [run EXCEPT ![i].at = "cont", ![i].call = name, ![i].conts = 0, ![i].garbled = entry # "none"]
  /\ ctx' = "call" /\ thr' = [thr EXCEPT ![Main] = "runs"]
  /\ RunsOn

BeginCall(i) ==
  /\ alive
  /\ \/ At(i, "planted") /\ SetRegs(i, run[i].call)
     \/ /\ run[i].at \in InCall
        /\ IF Calls[run[i].at].landing = "libc" /\ ~device.gadget
           THEN /\ run' = [run EXCEPT ![i].at = "plant", ![i].call = run[i].at]
                /\ UNCHANGED <<ctx, thr, late>>
           ELSE SetRegs(i, run[i].at)
  /\ UNCHANGED <<device, alive, tracer, lock, libc, budget, dirty, missed>>

\* A remote mprotect of libc's page: RW is never refused, RX of a written page
\* may be.  Turned: whether the page is executable afterwards.
RxAllowed == libc.exec \/ device.execmod
Turned(n, x) == IF Ran("mprotect", n) THEN x ELSE libc.exec
Mprotect(n) == Stepped("mprotect", n) /\ UNCHANGED <<device, alive, thr, tracer, lock, ctx, dirty, missed>>

PlantFails(i) == GotoWith(i, [run[i] EXCEPT !.call = "none"], Calls[run[i].call].err)

\* Mutant: the word is read when the BRK has been written.
ReadLate == "brk"
\* The word plant_brk_in_libc will put back.
WordFound == libc.word

\* mprotect RW and the write of plant_brk_in_libc.  Into a page that is still
\* executable POKEDATA writes eight bytes: the word, and what is mapped behind it,
\* or it fails there with the word written.
Plant(i) ==
  /\ At(i, "plant") /\ alive
  /\ \E n \in 0 .. 2 : \E out \in Outcomes("mprotect", n, {"ok"}) :
       /\ Mprotect(n)
       /\ harmed' = (harmed \/ Astray("mprotect"))
       /\ IF out = "ok"
          THEN /\ libc' = [word |-> "brk", exec |-> Turned(n, FALSE)]
               /\ \/ GotoWith(i, [run[i] EXCEPT !.word = WordFound], "plant_rx")
                  \/ Turned(n, FALSE) /\ PlantFails(i)
          ELSE PlantFails(i) /\ UNCHANGED libc

\* mprotect RX; when it fails the word and the protection are put back.
PlantExec(i) ==
  /\ At(i, "plant_rx") /\ alive
  /\ \E n \in 0 .. 2 : \E out \in Outcomes("mprotect", n, {IF RxAllowed THEN "ok" ELSE "fail"}) :
       /\ Mprotect(n)
       /\ harmed' = (harmed \/ Astray("mprotect"))
       /\ libc' = [libc EXCEPT !.exec = Turned(n, RxAllowed)]
       /\ IF out = "ok" THEN Goto(i, "planted")
          ELSE GotoWith(i, [run[i] EXCEPT !.out = "err"], "unplant")

\* Mutant: the page's protection is put back, the word in it is not.
NotPutBack(i) == libc.word
PutBack(i) == run[i].word

\* Drop of PlantedBrk, and the error path of plant_brk_in_libc: mprotect RW and the
\* word.  Errors are ignored; POKEDATA overwrites what is behind the word.
Unplant(i) ==
  /\ At(i, "unplant") /\ alive
  /\ \E n \in 0 .. 2 :
       /\ Mprotect(n)
       /\ harmed' = (harmed \/ Astray("mprotect") \/ Turned(n, FALSE))
       /\ libc' = [word |-> PutBack(i), exec |-> Turned(n, FALSE)]
  /\ GotoWith(i, [run[i] EXCEPT !.word = "code"], "unplant_rx")

\* mprotect RX, its error ignored.
UnplantExec(i) ==
  /\ At(i, "unplant_rx") /\ alive
  /\ \E n \in 0 .. 2 :
       /\ Mprotect(n)
       /\ harmed' = (harmed \/ Astray("mprotect"))
       /\ libc' = [libc EXCEPT !.exec = Turned(n, RxAllowed)]
  /\ GotoWith(i, [run[i] EXCEPT !.call = "none", !.out = "none"], Calls[run[i].call][run[i].out])

Detach(i) ==
  /\ run[i].at \in {"loaded", "failed"} /\ alive
  /\ ctx' = run[i].saved /\ RunsOn
  /\ Released(i)
  /\ ToExit(i)
  /\ UNCHANGED <<device, alive, lock, libc, budget, dirty, missed>>

\* ptrace fails on a dead app: an error wherever the run was.
AppGone(i) ==
  /\ ~alive /\ run[i].at \notin Outside
  /\ ToExit(i)
  /\ UNCHANGED <<device, app, budget, dirty, missed>>

Exit(i) ==
  /\ At(i, "exit")
  /\ Released(i) /\ run' = [run EXCEPT ![i] = Over("done")]
  /\ UNCHANGED <<device, alive, lock, ctx, libc, late, budget, dirty, missed>>

RunStep(i) ==
  \/ Stage(i) \/ ReleaseStale(i) \/ ListTids(i) \/ \E t \in Threads : StopTid(i, t)
  \/ Seized(i) \/ Syscall(i) \/ SymbolMissing(i) \/ BeginCall(i) \/ Plant(i) \/ PlantExec(i)
  \/ Unplant(i) \/ UnplantExec(i) \/ Detach(i) \/ AppGone(i) \/ Exit(i)
MainStep ==
  \/ MainEnters \/ MainReturnsAlone
  \/ \E i \in Runs : \E out \in {"got", "zero"} : MainReturns(i, out)
AppStep ==
  \/ \E t \in Threads : AppLock(t) \/ AppClone(t) \/ AppThreadExit(t) \/ AppTraps(t)
  \/ \E i \in Runs : MainFaults(i) \/ CallStopped(i)
InjectNext ==
  \/ \E i \in Runs : Start(i) \/ RunStep(i) \/ Crash(i)
  \/ MainStep \/ AppStep \/ \E t \in Threads : AppUnlock(t)

\* What the scheduler and the devices owe: the injector runs, the main thread
\* runs, and a thread that has the linker's lock gives it back.
InjectProgress ==
  (\E i \in Runs : RunStep(i)) \/ MainStep \/ \E t \in Threads : AppUnlock(t)

\* When nothing is traced any more and no run died half-way, the main thread
\* continues where it was stopped, with its registers, libc's text is as it was, and
\* the linker's lock is free or the app's own.  Only the stop of a signal can spoil
\* that: a late system call overwrites what is the app's, a late mprotect or a
\* denied one leaves the page without execution, a call given up on keeps its lock.
LeavesAppAsFound ==
  (\A t \in Threads : tracer[t] = 0) /\ alive /\ ~dirty =>
    /\ ~harmed => ctx = "own" /\ libc.word = "code"
    /\ harmed => budget.signals < MaxSignals
    /\ libc.exec \/ ~device.execmod \/ budget.signals < MaxSignals
    /\ lock.own \/ lock.depth = 0 \/ budget.signals < MaxSignals

\* The app outlives the injector (PTRACE_O_EXITKILL is not set, whatever
\* ARCHITECTURE.md 3.2 says): it is only ever killed after a run that died half-way,
\* a thread created while the others were being stopped, a page of libc that was not
\* made executable again, or a system call that ran late because of a signal.
AppSurvives ==
  ~alive => dirty \/ missed \/ ~libc.exec \/ (harmed /\ budget.signals < MaxSignals)

Ended(i) == run[i].at \in {"idle", "done"}
\* The call waits for a lock whose holder the same run stopped.
LinkerDeadlock(i) ==
  /\ At(i, "cont") /\ ctx = "call" /\ lock.who \in Threads \ {Main}
  /\ thr[lock.who] = "stopped" /\ tracer[lock.who] = i
\* Every run of the injector ends, unless the function it called needs a lock
\* that a thread it stopped holds: then it hangs, for ever.  (Again and again all
\* that were started have ended.)
RunsEnd == []<>(\A i \in Runs : Ended(i) \/ LinkerDeadlock(i))
===============================================================================
