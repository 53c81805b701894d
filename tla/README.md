# A TLA+ verification project for arm_goauld

arm_goauld injects an agent into an Android/arm64 process and lets JavaScript
hook native functions and Java methods in it. This directory holds TLA+
modules that model the parts of it whose correctness depends on the order in
which things happen (threads running into a hook while it is being installed
or removed, jobs queued for the one JavaScript thread, faults on watched pages,
sessions that come and go), the TLC configurations that check them on small
instances, and TLAPS proofs of the results that matter most.

Contents

1. The system: components, state, interactions, hard behaviours
2. The plan
3. Modules: how state and actions correspond to the code
4. Runs, bounds and fairness
5. Disagreements between code and documentation, and other observations
6. Proofs
7. What is not modelled

To check a run: `tlc -workers 2 -config HookDispatch_threads.cfg MCHookDispatch`.
To check the proofs: `tlapm HookDispatchProofs.tla`. `PROJECT.json` lists the
runs, the source lines each definition stands for, the hazards each property is
aimed at and, for every property, a mutated definition that breaks it.

## 1. The system

The workspace `src/crates` has eight crates. A host program talks to a device
over adb; an injector on the device stops the target with ptrace and makes it
load the agent; the agent serves one socket session at a time and runs scripts
on one JavaScript thread; hooks run on whatever thread of the target calls a
hooked function.

    host CLI --adb--> injector --ptrace--> target process
        \                                    | dlopen
         \---- framed socket ---->  agent (sessions, engine, JS worker)
                                        |                |
                              native hooks (thunks)   ART bridge (ArtMethod)
                                        ^                ^
                                        threads of the target

| Component | State it keeps | Operations | Interacts with |
|---|---|---|---|
| Hook dispatch (`goauld-native-hook/trampoline.rs`) | `NEXT_HOOK_ID`, registry `HOOKS`: callbacks and per-thread `saved_lr` of every hook | `register_hook`, `unregister_hook`, `goauld_dispatch_enter`, `goauld_dispatch_leave`, the two thunks | threads of the target call in; patching inserts and removes entries; callbacks post to the JS worker |
| Inline patching (`patch.rs`, `icache.rs`) | the code bytes of targets, one scratch page per hook | `attach`, `replace_ptr`, `detach`, `detach_all`, `flush` | relocator, dispatch registry |
| Relocation, encoding, decoding (`relocator.rs`, `encode.rs`, `decoder.rs`) | none (pure); the streaming relocator keeps a cursor | `build_trampoline`, `relocate_one`, rewriting of conditional branches | patching; `Arm64Relocator` in JS |
| Code writer (`writer.rs`, `arm64_code.rs`) | buffer, labels and pending fix-ups, handle tables | `put_*`, `flush` | JS |
| GOT hooks (`got.rs`) | one pointer slot | `find_got_slot`, `replace_got` | none |
| JS worker and queue (`js_queue.rs`, `js_lock.rs`, `bindings.rs` worker part) | FIFO of jobs, current script, `JsLock` owner | `submit_*`, `worker_loop`, `worker_*` | everything that runs JavaScript |
| Interceptor glue (`frida_prelude.inc.js`, `bindings.rs`) | callback tables by hook id, invocation objects, `__goauld_mut_x` | `Interceptor.attach`, `dispatch_enter_to_js`, `dispatch_leave_to_js` | dispatch callbacks, JS worker |
| Script engine (`engine.rs`, `bridge.rs`, `timers.rs`) | scripts, outbound sink, timer table | `load`, `unload`, `set_outbound`, `emit_send`, `schedule`, `cancel` | sessions, JS worker |
| Agent sessions (`goauld-agent/lib.rs`) | listening socket, one session, its pump thread | `start_agent_listener`, accept loops, `on_connected` | engine; host over the wire protocol |
| Wire protocol (`goauld-proto`) | none | `encode`, `decode` | sessions, host |
| Memory access monitor (`memory_access.rs`) | watched ranges and pages, page protections, event pipe, previous handlers | `enable`, `disable`, `mam_sig_handler`, `drain_loop` | fault handler on any thread; JS callback |
| Cloak (`cloak.rs`) | list of hidden ranges | `add_range`, `remove_range`, `clip_range` | module and range enumeration |
| ART hooks (`goauld-art-bridge`) | slot table, rewritten `ArtMethod`s, original clones | `hook_art_method`, `unhook_art_method`, `call_original`, `dispatch_slot` | ART threads; JS worker |
| API trace (`api_trace.rs`) | session parameters, event counter, installed flag | `start`, `stop`, `on_invoke_enter` | dispatch, engine |
| ptrace injection (`goauld-inject`) | set of stopped threads, saved registers, planted breakpoint | `seize`, `detach`, `remote_call`, `inject_library` | kernel, target |
| Syscall trace (`syscall_trace.rs`) | traced threads, which of them are inside a syscall | `trace_syscalls` | kernel, target |
| Host and injector command lines | none beyond a connection | one command per run | adb, agent |
| Script API (`api.rs`, `host_ops.rs`, second JS backend `bindings_symbiote.rs`) | allocation table, thread observer, exception flag | read-only views of the process | JS |

What makes the system hard to test:

* **Interleaving.** The registry lock is released while callbacks run; target
  code is patched before the registry knows the hook; callers of the worker
  give up and the worker runs their jobs later.
* **Order.** Saved link registers must pop in the order of the calls,
  overlapping hooks on one target must be undone in reverse, jobs are FIFO
  but answers are not awaited for ever.
* **Failure.** `mprotect` or a thread's seize may fail in the middle of an
  operation; a session may end while its pump thread and its engine sink live.
* **Stale state.** Invocation objects, register write-backs and slots that were
  checked before a lock was released.

What makes each component correct is stated with its module in section 3.

## 2. The plan

The order followed what a target can lose: first that hooked code returns to its
callers, then the bytes of functions, then the script side, then the way the agent
comes into the process and talks to its hosts.

| Step | Modules | Abstract specification or reference | Theorems |
|---|---|---|---|
| 1 | `HookDispatch` | `CallStack`: plain calls and returns (refinement) | `TypeCorrect`, `UnwindInvariant`, `UnwindCorrect`, `SavedLrCorrect`, `CallbackOnce`, `RefinesCallStack` |
| 2 | `HookPatch` | the bytes a function has with its newest hook | `NestedInvariant`, `RestoreCorrect` |
| 3 | `Relocator` | the four original instructions on the same processor | `TrampolineInvariance`, `EffectKept`, `DataNeverRun`, `NeverStuck`, `FinishesAlways` |
| 4 | `JsWorker` | an in-order executor | `WorkerInvariant`, `JobsInOrder`, `HookContextSound`, `HookContextThere`, `AllComeBack` |
| 5 | `MemoryAccess` | pages as they would be unwatched | `TypeCorrect`, `LostOnlyIfDisturbed`, `RestoredWhenOff`, `WatchedStillTrap`, `OneNoticePerPage`, `FaultEndsWhenCalm` |
| 6 | `AppProcess`, `Injector`, `SyscallTrace`, composed by `InjectorCli` | the app as it was found | `PairsCorrect`, `InjectInvariance`, `LeavesApp`, `AppSurvivesAlways` |
| 7 | `AgentSession`, composed with the hosts by `HostCli` | the sequence of messages as emitted | `SessionInvariance`, `HeardInOrder`, `RepliesMatch` |
| 8 | `ArtHook`, `ApiTrace`, side by side in `MCArt` | the method called, its own body | `OwnHookAlways`, `OriginalRunsAlways`, `LimitKept` |
| 9 | `CodeWriter`, `Cloak`, `Timers`, side by side in `MCApi` | statements, sets of addresses, callbacks | `CodeInvariance`, `CodeCorrect`, `NoLateCallback`, `CloakInvariance`, `ClipCorrect` |

All of these exist. What is left:

1. `InterceptorJs`: callback tables by hook id, invocation objects and register
   write-back on top of `JsWorker`. Instance: 2 threads, 2 hooks, one of them
   without a JS callback, depth 2. Question: does a call see its own registers,
   return value and invocation object, and when does a stale write-back reach
   another call.


## 3. Modules

### HookDispatch, CallStack, MCHookDispatch, HookDispatchProofs

*Code*: `trampoline.rs` and the parts of `patch.rs` that touch the registry.

*State*. `hooks`, `enterSlot`, `leaveSlot` and `savedLr` are the registry
entries: its keys, whether each of the two callback options is `Some`, and the
per-thread vectors of saved link registers. `kind` is what the hook was attached
with, `patched` the hooks whose branch is in the target's code. `nextId` is
`NEXT_HOOK_ID`. `installer` and `todo` are the progress of the one attach, detach
or `detach_all` under way on the JS worker. `stack[t]` is the call stack of
thread `t`, one frame for each hooked call: where the caller expects to be
returned to (`ret`), the link register (`x30`, a return site of the program or the
leave thunk of a hook), how far the call has come (`phase`), whether the dispatcher
holds a callback it took out of the entry (`held`). `slot` is history that no
guard reads.

*Actions*. `AttachPatch`, `register_hook`: attach, with the window between
writing the target and inserting the entry. `AttachFail`: one of its early
returns; only the id is lost. `unregister_hook`, `restore_bytes`: the two
halves of detach, the second may fail and leave the branch; `detach_all`
snapshots the keys. `Call`: a thread runs into patched code, out of plain code,
of the body of a hooked function or of a callback that runs on it. `EnterTake`
and `EnterPut`: `goauld_dispatch_enter` up to the release of the lock, and after
the callback. `LeaveTake`, `LeavePut`: the same for `goauld_dispatch_leave`.
`Return`: any RET, it goes where `x30` says.

*Properties*. `UnwindsToCaller` and `PlainCalls` (refinement of `CallStack`):
calls return to their callers. `SavedLrMatches`: the saved link registers of a
hook and thread are exactly those of its open redirected calls, in order.
`CallbackConserved`: a callback is in its entry or in exactly one hand.
`CallsFinish`: dispatch does not keep a thread for ever. The property that
fails is in section 5.

### HookPatch, CodeProofs

*Code*: `patch.rs`, with `encode_abs_branch` and the reading of target bytes in
the attach binding of `bindings.rs`.

*State*. `code[t]` is what the first 16 bytes of function `t` hold: 0 for its own
instructions, otherwise the hook whose branch is there. `hooks`, `target`, `mode`
and `saved` are the registry entries, `saved[h]` both the `original_bytes` of `h`
and what its trampoline relocated. `todo` holds the ids `detach_all` has still to
visit (a `HashMap` gives them in no particular order). `past[t]` is history: how
the hooks of `t` have been removed so far.

*Actions*. `attach` (inline, replace-mode and pointer replacement; they treat
the bytes alike), `attach_fails` (an id is lost), `detach` (the entry goes, then
the bytes are written back or `mprotect` fails), `detach_all`.

*Properties*. `NestedRestores`: while the hooks of a function are removed
newest first and no restore failed, the function shows the branch of its newest
hook, and its own bytes when none is left. `NestedInv` is the inductive
invariant behind it: saved bytes form a chain through the hooks of a function
in the order of their ids. What detaching out of
that order and a second inline hook do is in section 5.

`HookDispatch` models the order of the patch and the registry for one hook at a
function; `HookPatch` the bytes under several hooks.

### Relocator, RelocatorProofs

*Code*: `relocator.rs`, `encode.rs`, and the classification of `decoder.rs`.

*State*. One displaced instruction of any kind the decoder distinguishes
(`insn`: kind, place among the four, what it refers to), the base address of the
trampoline and its words (`code`), and a processor that executes them: `pc`, the
registers that matter, the plain instructions executed so far (`ran`), the value
of the tested condition (`holds`).

*Operators*. `build_trampoline` puts `relocate_one` of the instruction, encoded for the
running `EmitPc`, between copies of the others and appends the branch back; `AbsBranch`, `AbsCall`,
`RewriteCondBranch`, `PcRelAddr` and `PcRelLoad` are its encoders, with immediates
of limited reach (`Field` truncates, `Fits` is the range test). Encoded words are
records with the fields the processor looks at.

*Actions*. `Execute` runs one word, literals included as data, `CalleeReturns` is
the return of a function that a displaced BL called.

*Properties*. `SameEffect`: when the trampoline has been left, the processor is
where the four originals would have left it: same `pc`, same plain
instructions run, same registers (except X17, the scheme's scratch register).
`NeverRunsData`: no inline literal is executed. `Finishes`: every trampoline is
left, so `SameEffect` is about something. The four kinds of instruction for
which relocation is not faithful are taken out of `SameEffect` by name
(`NarrowLoad`, `AlwaysBranch`, `FarPage`, `IntoPatch`), see section 5.

### JsWorker, ScriptProofs

*Code*: `js_queue.rs`, the worker side of `bindings.rs` (`boot_worker`,
`worker_java_invoke` and its neighbours), `ScriptEngine::load`, and `dispatch_slot` of
the ART bridge as a caller.

*State*. `queue` is the channel, jobs being numbered in the order they are posted;
`running` is the job `worker_loop` has taken. `waits[c]` is the job a thread
waits for in `recv_timeout`, `answers` the answers that lie in reply channels,
`refs` the jobs whose `jobject` is a live GlobalRef. `context` stands for the
thread locals `CUR_ENV`, `CUR_THIZ` and `CUR_ART` of the worker. `ran` is history.

*Actions*. `Load`, `Submit`, `SubmitAsync` and `HookedJavaCall` post a job and, but
for the asynchronous kinds, wait; `Boot`, `Take` and `Finish` are the worker.
`JavaCallOnWorker` is a script function that reaches a hooked Java method on the worker
itself: `dispatch_slot` there posts to the channel only the worker empties.
`Answered` and `TimedOut` end a wait; both go on in the caller, which drops the
GlobalRef.

*Properties*. `InOrder`: jobs run at most once and in the order of posting,
whatever timed out. `ContextOfItsJob` and `CallbackHasContext`: hook context is
there exactly while it belongs. `EveryJobRuns` and `CallersComeBack` are the
liveness side; the worker's wait for itself ends only by its timeout.
What a late Java job finds is in section 5.

### MemoryAccess, MemoryAccessProofs

*Code*: `memory_access.rs`.

*State*. `prot` is the protection of each page as the kernel has it: its own, none,
or the read-write default of `query_prot_flags`. The pages in `Guards` have none of
their own. `enabled` is `ENABLED`;
`watched`, `prev` and `completed` are the page map in `STATE`. `step`, `todo` and
`wanted` say where the worker is in `enable` or `disable`, which protect and
restore one page per `mprotect`. Each thread has `pc` and, in the handler, a
`frame` with the entry it read under the lock. `pipe` is the event pipe. `fails` bounds
the failures of `mprotect`; the histories `spoilt` (pages that lost their own protection)
and `refused` (threads whose handler changed nothing) name what they left behind.

*Actions*. `StartDisable` begins `disable`, alone or as the first call of `enable`;
then `RestorePage`, `Restored`, `QueryPage`, `ProtectPage`, `Publish`, `SwitchOn`, and
`ProtectFails` for an `mprotect` that fails there. `RestorePage` and `Unprotect` go on
alike when their `mprotect` fails, since the code ignores its result (lines 154, 307,
330). A thread goes through `Fault`,
`CheckEnabled`, `Lookup` (the critical section), `Unprotect` and `Notify` (both after
the lock is released), and `Retry`, where the instruction is executed again.
`Drain` is the drain thread.

*Properties*. `NotifiesOnce`: one event at most per page and enable, with threads
faulting together. `CrashOnlyIfDisturbed`: a fault goes to the previous
handler only if the monitor changed while it was under way, or its page was not
watched: a guard page, or one left without bits. `OffMeansRestored`: off, every page has
the protection it had before it was watched, late handlers included, except where
`mprotect` failed and for guard pages that were watched, which come back read-write. `WatchedTraps`: a watched page that was not accessed still traps,
except where a late handler of an earlier enable restored it (history `late`; the
code has this gap, and no document promises otherwise). `FaultEnds`: nobody
faults for ever (again and again each thread is out of its fault), unless the monitor is enabled for ever again, the `mprotect` of its
handler failed, or its page had lost its own protection before (with the read-write
default an access to execute traps for ever, too). `TypeOK` says beyond types that no entry would give back
`PROT_NONE`.

### AppProcess, Injector, SyscallTrace, InjectorCli, MCInjectorCli

*Code*: `inject.rs`, `remote.rs`, `syscall_trace.rs` and the injector's `main.rs`.
`AppProcess` holds what the two commands share, the threads of the app;
`InjectorCli` is the program, which runs one of the two.

*State of Injector*. The app: `alive`, `thr` (each thread absent, running, stopped),
`tracer` (the run that traces it), `lock` (the linker's), `ctx` (where the main thread
would continue: its own code, a called function, inside the linker's lock, or
registers that are lost), `libc` (the last word of its text and whether the page is
executable), `entry` (the system call the main thread was left at the entry of: it
runs when the thread is next resumed). `harmed` is history: registers or memory of the
app may have been overwritten. Each run has a record: place (`at`), the call or system
call under way, how often it resumed the main thread, the registers it saved, the
outcome, the word it found in libc (`word`), and whether its call began with arguments a
late system call had changed (`garbled`).
`device` is what the device allows; it never changes. `budget` counts down the bounds.

*Actions*. `Start`, `Stage`, `ReleaseStale` (kill the leftover run that traces the
app), `ListTids`, `StopTid`, `Seized`; `Syscall` for a remote system call;
`SymbolMissing`, `BeginCall`, and `Plant`, `PlantExec`, `Unplant`, `UnplantExec` (one remote
`mprotect` each) for a remote function call;
`MainEnters`, `MainReturns`, `MainFaults`, `CallStopped` for what the called function
does meanwhile; `Detach`, `Exit`. `Calls` and `Syscalls` are tables: the ladder of ways
to load the agent in `inject_library`, each step with where it goes after success,
failure or a wrong result. The app runs on its own where it is not stopped
(`AppLock`, `AppClone`, `AppThreadExit`, `AppTraps`), and `Crash` kills an injector
anywhere.

*The two stops of a remote system call*. `remote_syscall` resumes the main thread with
`PTRACE_SYSCALL` twice and takes the first stop for the entry and the second for the exit,
whatever stopped it (`remote.rs`:691-701, 787-794). `n` of the two may be a signal's
(`Stepped`). After one, the thread stands at the entry of the call when its registers are
set again: nothing of the call has run, and x0 still holds its argument (`junk`). From then on each
remote call is a stop late. The next one first runs the pending system call, by
number the earlier one, on arguments of the next: when both have one number it is the
next call that runs (`Ran`), otherwise some other call does (`Astray`), which may write
or map anywhere, hence `harmed`. A call of a function, or the detach, resumes a thread that
stands at an entry the same way (`RunsOn`): the pending call runs on the registers just
set, the app's own at the detach, and overwrites x0. One more signal brings the stops
in step again.

*State of SyscallTrace*. `phase` is where `trace_syscalls` is, `attached`, `pending`
and `events` its variables; `st`, `traced`, `stop`, `mode`, `again`, `inSys` are the
kernel's side: what each thread is stopped for and how it was last resumed. `odd` is
history: threads that missed a stop or had one too many. *Actions*: `SeizeTid`,
`StartTid`, the four branches of the loop (`LoopExit`, `LoopClone`, `LoopSyscall`,
`LoopSignal`), `DetachTid`, and the kernel's `CrossKernel`, `GetSignal`, `TrapAgain`,
`Clone`, `ThreadExit`.

*Properties*. `LeavesAppAsFound`: with nothing traced any more, registers, libc's text
and the linker's lock are as they were, unless a signal came while the main thread was
traced; then it names what each may have become. `AppSurvives`: the app is killed only after a
run that died half-way, by a thread that was missed, by a page of libc that was not made
executable again, or after a late system call. An injector killed at any other
moment does not take the app with it, which is what the code promises
(`remote.rs`:129-130) and ARCHITECTURE.md does not (section 5). `RunsEnd`: again and again
all runs that were started have ended, but for one whose
call waits for a lock whose holder the run itself stopped. `PairsMatch`: a thread has
an entry pending exactly when it is inside a system call, as long as its stops
are what the loop takes them for. `AppRunsAlone`: a trace that has ended leaves no
thread stopped, and each does end.

### AgentSession, HostCli, SessionProofs, MCHostCli

*Code*: `goauld-agent/lib.rs`, `set_outbound` and `emit_send` of the engine,
`goauld-host/main.rs`, frames of `goauld-proto`.

*State*. A connection is named after its host and attempt. Of the agent: `at` (place
in the accept loop or `on_connected`), `session`, `sink` (the sender the engine holds),
`waiting` (the frame whose job the inbound loop waits for), `script`, `backlog`; per
connection `chan` (the mpsc channel) and `pump` (its thread). `inward` and `outward` are
the frames on the way. Of each host: `cmd`, `pc`, `conn`, `lost` (it reads from the
middle of a frame), `call` (the call it waits for). `pid` and `port` say which process
the app is and which one adb forwards to. `got`, `helloAt`, `stalled` are history.

*Actions*. `Accept`, `SetOutbound`, `WriteHello`, `ReadInbound`, `JobAnswered`, `ReadFails`,
`Pump`, `Emit` and `Evaluated` are the agent; `RestartPackage` (the agent dies),
`Inject`, `Forward`, `Connect`, `ConnectFails`, `HelloFails`, `HelloArrives`, `Listen`,
`AwaitReply`, `TimesOut`, `Stall`, `ReadGarbage`, `ReadEof`, `Killed` the hosts.

*Properties*. `HearsInOrder`: Hello first, then what scripts emitted in order, nothing
twice, nothing left out on a connection without a timeout in the middle of a frame.
`RepliesMatchCalls`: the k-th reply is that of the k-th call. `SessionsEnd`: the agent
comes back to `accept` once the host of its session is gone. `Delivered`: everything
emitted since the Hello is heard or the host has hung up.

### ArtHook, ApiTrace, JavaProofs, MCArt

*Code*: `goauld-art-bridge/android/mod.rs`, the implementation setter of
`frida_prelude.inc.js`, `worker_java_invoke` of `bindings.rs`; `api_trace.rs`.

*State of ArtHook*. `art[m]` is where a call of `m` goes: its own code or the bridge of
a slot. `slots` and `live` are `SLOTS` and `LIVE`; a hook is its method and what its clone
would run (`backup`). `impls` are the methods with a function in `__javaImpls`.
`installing` is the hook between the rewrite and its publication; `queue`, `running` and
`waits` are the job channel as this component sees it; `inOriginal` is `IN_ORIGINAL` of the
worker. `rewrites`, `broken`, `asked`, `ran` are history.

*Actions*. `Assign` (set or take away an implementation: `install_hook_env` runs in any
case, up to the rewrite or an error), `Publish` (or a failing NewGlobalRef), `Call`
and `CallEnds` (`dispatch_slot` and the wait of ten seconds), `TakeJob`, `CallbackEnds`,
`CallOriginal`, `NestedCall`, `OriginalReturns`.

*State of ApiTrace*. `enabled`, `limit`, `count` are the atomics; `hooked` the stubs
attached; `starting` the progress of a start; `inCallback[t]` where a thread is in
`on_invoke_enter`, `seen[t]` the limit it read. *Actions*: the steps of a start one by
one, `StopTrace`, and per thread `EnterStub`, `CompareCount`, `SwitchOff`, `CountEvent`.

*Properties*. `OwnHook`: the callback that runs for a call is that of the method called.
`OriginalRuns`: asking for the original of a method given an implementation once runs
its body. `LimitHolds`: how far the events of a trace can go over its limit, with
every thread that had passed the check before.

### CodeWriter, Cloak, Timers, CodeProofs, ScriptProofs, MCApi

*Code*: `writer.rs`, the streaming `Arm64Relocator` of `relocator.rs`, `encode.rs`,
`arm64_code.rs`; `cloak.rs`; `timers.rs` with its part of `frida_prelude.inc.js`.

*CodeWriter*. `pc`, `buf`, `labels`, `fixups` are the writer's fields; `taken`, `ahead`, `eoi`
the relocator's. Each `Put` action appends words and records its statement in
`script` and where it begins in `starts`; `flushed` and `failed` remember what `flush`
returned. `Flush` writes the fix-ups before the first it cannot resolve (`Resolved`,
`CannotResolve`) and drops the rest. The numbers a script may load are `Immediates`; `B`
and `BL` reach `BranchReach` words, the tests `TestReach`. `Execute` is the processor on a
word, `Perform` what a statement means; `DoesWhatItSays` runs both (`NextWord`,
`NextStatement`) with either flag and compares calls made with their arguments,
registers, flags and exit. `MaxRun` bounds how many statements are run, since code with a
loop need not end. Statements that overwrite their own arguments and tests beyond the
reach of their offset are taken out by name (`Overwrites`, `FarTest`), see section 5.

*Cloak*. `ranges` is the registry; addresses reach up to `Top`, where the end of a range
saturates. `clip_range` is a state machine of its own, since it works on a copy after
the lock is released: `ClipStart` takes the `hits` under the lock, `ClipHit` is the loop
with its `cursor` and `visible`, `ClipEnd` what comes after; `AddRange` and `RemoveRange`
of other threads may come between any two. `ClipExact` compares its answer with
`has_range_containing` and `range_overlaps_cloaked` on the registry `seen` under the lock.

*Timers*. Per timer its thread (`sleeps`, `posts`, `posted`, `leaves`, `ended`), its entry in
`TIMERS`, its cancel flag and its callback in `__timerCbs`; `jobs` are the evaluations
posted. `TimersKept`: no callback after its clear, a timeout at most once and not lost,
no entry left behind.

## 4. Runs, bounds and fairness

### Hook dispatch

| Run | Instance | Shows |
|---|---|---|
| `dispatch_threads` | 2 threads, 1 hook, depth 2, symmetric | the inductive invariant, callbacks conserved, under concurrency, recursion, attach and detach |
| `dispatch_nesting` | 1 thread, 2 hooks, depth 3, 2 sites | link registers under mixed nesting (A in B in A, calls out of callbacks), refinement of `CallStack` |
| `dispatch_finish` | 2 threads, 1 hook, depth 1 | liveness under `Fairness` |
| `dispatch_detach_in_flight` | 1 thread, 1 hook, depth 1 | section 5 |

Two return sites are enough because the properties compare one address with
another; depth 3 is the least at which two hooks alternate; two threads are
enough for every conflict of the model, as each is between the entry of one
hook and two hands. `MaxHooks` bounds how many ids are handed out: a hook that
was detached is not attached again under its id, as in the code. `IdMod` is
2^16 in the code, as in the runs.

`Fairness`: weak fairness for the thunk code and the two critical sections (a
running thread goes on running, `parking_lot` hands over the lock), strong
fairness at each depth for the end of callbacks and bodies (they may be
interrupted by nested calls, but the glue's callbacks wait at most five
seconds and the target's functions terminate). Nothing is assumed of attach,
detach or new calls. Deadlock is not checked in these runs: when all ids are
used and no hook is left the model may stop, as the program may.

### Patching and relocation

| Run | Instance | Shows |
|---|---|---|
| `patch_nested` | 2 functions, 4 hooks | the chain of saved bytes and restoration, any order of operations, failing restores |
| `reloc_effect` | 64 words of memory, pages of 4 words, immediates of 4 bits, target at 32, scratch at 0, 12 or 48 | every kind, place and operand, near and far, forwards and backwards |

Four hooks give three on one function next to one on another, or a chain of
four; removal out of order needs only two. In the relocator the widths of
immediates and pages are scaled so that each boundary (ADR against ADRP, literal
re-encoded against expanded, ADRP in and out of reach) lies inside 64 words, with
operands on both sides of it. One displaced instruction out of four depends on
the PC; two of them only shift each other, which the three other places show.
`Finishes` assumes weak fairness of the processor. Deadlock is not checked: a
relocator instance ends when its trampoline is left, a patch instance when its
ids are used up.

### JS worker

| Run | Instance | Shows |
|---|---|---|
| `worker_jobs` | 2 callers and the worker, 4 jobs | order, context and liveness with any mixture of kinds, answers and timeouts |

Two callers and four jobs give a late job of each caller with a later one behind it,
and a nested call of the worker between them. `MaxJobs` only bounds how many are posted.
`Fairness`: weak fairness of the worker thread (a script that never ends is left
out) and of each wait, which ends by its answer or its timeout. Deadlock is not
checked: nobody has to post, and when the jobs are used up the model stops.

### Memory access monitor

| Run | Instance | Shows |
|---|---|---|
| `memory_watch` | 2 threads, 2 pages, one of them a guard page, 2 enables, one `mprotect` that fails, a pipe for one event | all properties of the module; deadlock is checked |

Two threads are needed to fault on one page together, two pages for an enable
that stops half-way, two enables for a handler that is late. A pipe for one event
is full at once (the real one holds some thirteen hundred). One failure shows each
place where `mprotect` can fail, with all that follows from it, a second enable that takes
the default for the page included; the guard page serves as the second ordinary one once it
is watched. The proofs are for any number of failures and any guard pages. `Fairness`: threads
run, the worker finishes what it began, and the handler gets the lock in the
end (strong fairness of `Lookup`: `parking_lot` is fair eventually). `FaultEnds` depends
on `MaxEnables`: enabled again without end, a page could trap a thread without end.

### ptrace, sessions, Java, script API

| Run | Instance | Shows |
|---|---|---|
| `ptrace` | main and one more thread, 2 runs of the injector, 1 signal, 1 clone, 1 taking of the linker's lock, 2 resumptions per call, 3 kinds of device; for the trace 2 events at most | the app as found and alive, every run ends, pairing, no thread left stopped |
| `agent_sessions` | 2 hosts, 2 attempts each, backlog 2, 2 messages, 1 timeout in mid-frame | order, replies, delivery, the accept loop comes back |
| `java` | 3 methods, 2 slots, 3 rewrites, 2 app threads and the worker, 2 calls; 3 threads, 2 stubs, limits 0 to 2, 3 starts | own hook, own original, event limit |
| `script_api` | 4 statements, code at 20 or 30 with functions at 2 and 70, branches that reach 32 words and tests that reach 16; addresses 0 to 4, ranges of up to 2 to hide; 2 timers | code does what its statements say, clipping, timers |

`ptrace`: one run that dies and a second that finds it is the least at which
`ReleaseStale` does something; a thread besides the main one is needed to hold the
lock, to be missed by the list and to exit between list and seize. The devices
are one where the app may open the staged file after a relabel, and two that deny it, so
that all rungs of the ladder are tried, with a breakpoint planted in libc for each call;
the policy of one of them denies `execmod` as well. One signal spoils one stop, and
every later system call of the run is a stop late; the properties name what that may leave. A
second signal, which brings the stops in step again, and giving up on a call after `MaxConts`
stops with that are left to the proofs, which are for any number.
`MaxConts` is 64 in the code: two show the loop.
Fairness is weak fairness of the injector, of the main thread and of a thread that
holds the linker's lock (the scheduler owes them that), and of `LoopEnds`, since a
trace that is neither limited nor timed never ends.

`agent_sessions`: one host attaches and stays with the session, the other
restarts the app and traces, or injects and calls the script twice; this makes
abandoned connections wait behind a session, sinks change hands, stale forwards
and an agent that dies under a host. The app may start with an agent an earlier host
left in it. `Retries` is 20 in the code and only repeats. Fairness is weak fairness of
`Progress`: threads run, timeouts fire; scripts need not end or emit and nobody
presses Ctrl-C. A script's job that never ends is covered by the 30 s timeout
in `JobAnswered`.

`java`: the third method finds the slots taken; the third rewrite may be a second one of
the same method. Methods, threads and stubs are symmetric; the properties are
invariants. Both halves share no state and run side by side, as the halves of
`script_api` do.

`script_api`: four statements are enough for a label, a branch to it, a flush in
between, and a call; seven statements run go round a
loop. Distances of 10 to 50 words lie on both sides of what `BranchReach` (32) and
`TestReach` (16) allow. The writer's language is closed under renaming of registers. `Top` = 4 holds two
hidden ranges with gaps before and between them, ranges that touch, overlap and reach
the end, and any range to clip; `ClipCorrect` is for any `Top`, `CodeCorrect` for any
constants. Deadlock is not checked in these
runs: hosts, injectors and scripts end.

## 5. Disagreements between code and documentation, and other observations

One is a violation run: the property states what the document says, and TLC finds
a behaviour of the code against it.

* `RedirectedCallCanUnwind` (`dispatch_detach_in_flight`). Detach drops the entry
  and with it `saved_lr`. A call that was redirected and has not returned
  then finds no entry in `goauld_dispatch_leave`, which returns early with `x30`
  still at the leave thunk: the thunk's RET enters the thunk again.
  ARCHITECTURE 4.4: "each return must unwind to the correct original caller".

The models show more, without a run of their own. By component:

Hooks

* `HookPatch`: hooks of one function removed in another order than newest first (by hand,
  or by `detach_all`, which takes the order of a map) write back the branch of a hook
  that is gone. ARCHITECTURE 4.5: "restore them byte-for-byte". `NestedRestores` is stated
  for the nested order.
* `HookDispatch`, branch `k \notin hooks` of `EnterTake`: a replaced function returns
  at once with nothing run when the entry is missing (target patched but hook not
  yet registered, or unregistered but not yet restored). `trampoline.rs` line 41:
  "run enter callback then return without calling original".
* `HookDispatch`, `WantLeave`: whether to redirect is read from the slot that is
  empty while another thread's on_leave runs, so that call misses its on_leave.
* `HookDispatch`, `Key`: the thunk carries 16 bits of a 32 bit id; from the
  65536th hook on, calls use another hook's entry or none. `UnwindCorrect` assumes
  `NoIdWrap`.
* `Relocator`: LDRSW (literal) is re-encoded as a load of a W register and LDR Dt
  (literal) as a load of an X register (ARCHITECTURE 4.2: re-encoded literal loads).
  `NarrowLoad` takes both out of `SameEffect`.
* `Relocator`, `AlwaysBranch`: B.AL becomes B.NV over the absolute branch, and NV
  branches always too. ARCHITECTURE 4.2.1: "functionally identical".
* `Relocator`, `FarPage`: ADRP's page difference is masked to 21 bits, not checked.
* `Relocator`, `IntoPatch`: a displaced loop back into the displaced instructions
  lands in the patch, and a load from them reads it. The prologue a second inline hook
  displaces is such a load: `LDR X17, #8` of the first hook's branch reads the literal of the
  second, and the trampoline circles.

JavaScript worker, memory monitor

* `JsWorker`: a Java job whose caller gave up runs later with a global reference
  the caller has deleted.
* `MemoryAccess`, `Chained`: if the process ignored SIGSEGV before, `chain_previous`
  returns to the faulting instruction, which faults again. `FaultEnds` counts the
  fault as ended when the previous disposition has it.
* `MemoryAccess`: `memory_access.rs`:4-5 says of a monitored page that it "is restored to its
  previous protection so the faulting access can complete". It is not, and the
  properties excuse just these cases:
  * `ProtectFails`: the `disable` that is to undo a failed `enable` finds `STATE` empty and
    leaves the pages it protected without bits; a later enable takes them for read-write.
  * `RestorePage`: `disable` ignores a failing `mprotect` (line 154), with `STATE` taken
    already: the page stays without bits and its next access goes to the previous handler.
  * `Unprotect`: the handler ignores it, too (lines 307, 330). It writes its event and
    returns, and the instruction faults again, as long as the call fails.
  * `QueryProt`: a page whose own protection is `PROT_NONE` is remembered as read-write
    (lines 67-70), so a guard page that was watched guards no longer.

ptrace

* `SyscallTrace`: a cloned thread comes with a trap more than its parent had; it is read as
  a system call, and entry and exit of that thread are exchanged from then on. After a signal
  passed on with PTRACE_CONT a thread does not stop at system calls until it is
  next resumed with PTRACE_SYSCALL. `PairsMatch` names both.
* `Injector`, `Stepped`: a signal that stops the main thread during a remote system call is
  lost and its stop is taken for the entry or the exit of the call. The registers are then set while
  the thread stands at the entry (`remote.rs`:691-701, 722-728, 787-794): the pending call
  runs on them, with the number of the earlier call, and overwrites x0, of the next call or, at
  the detach, of the app; every later remote call is a stop late. ARCHITECTURE.md:94-95 has "the target must resume exactly where it was, with
  no observable trace of the injection". What a late call does is not followed further
  than `harmed`, from which the app may die.
* `Injector`, `AppSurvives`: ARCHITECTURE.md:91-92 says "`PTRACE_O_TRACEEXIT |
  PTRACE_O_EXITKILL` are set"; the code sets neither and `remote.rs`:129-130 says why not
  the second: it "would SIGKILL the app". With it every killed injector would kill
  the app; the model and the property follow the code.
* `Injector`, `Unplant` and `Plant`: POKEDATA writes eight bytes for a last word of four. When
  the page was made writable the write behind the mapping fails and the word has to be
  in; when a spoiled `mprotect` left it executable, what is mapped behind is overwritten.
* `Injector`: signals that arrive during seize or detach are lost. A remote call given up
  after 64 stops, or one that faulted, may leave the linker's lock held.
* `Injector`, `ReleaseStale`: killing a leftover injector in the middle of a call loses the
  registers of the main thread, and the app dies at the planted BRK.
* `AppProcess`: the threads are listed once; one created meanwhile is never stopped.
* Not in a model: the scan for a BRK never reads the last
  word of a mapping, buffers and memfds are left mapped, `use_namespace` is unused.

Agent and hosts

* `AgentSession`: a read that times out in the middle of a frame loses the framing for the
  rest of the session. Messages emitted between two sessions go to the sink of the dead
  one. A connection dropped by its host is still accepted and served until its first
  write fails.
* `HostCli`: `call_id` is not compared (one call at a time makes `RepliesMatchCalls` hold);
  a forward left from before a restart leads to the old port; an attach without
  `--max-wait` holds the only session for as long as it likes.

Java

* `ArtHook`, `Saved`: assigning `implementation` again (or null) installs a second hook,
  whose clone is the method as already rewritten, so `callOriginal` does not run the body.
  ARCHITECTURE 5.5 calls the clone "pre-patch". `OriginalRuns` is stated for methods
  given an implementation once.
* A hooked method called from inside an original returns without its callback
  (`IN_ORIGINAL`). A call between the rewrite and the publication finds an empty slot and
  returns at once. When NewGlobalRef fails, the method stays rewritten (`broken`) and
  the next hook takes its slot. Overloads of one name share a key. Slots are never freed.
* The three writes to an ArtMethod are one step of the model; the calibrated size may be
  a multiple of the true one.
* `ApiTrace`: a thread that saw the limit of the trace before may store `ENABLED = false`
  into the next one. A start that fails has already changed limit and count of the
  running trace. The limit is exceeded by one event less than there are threads at most,
  which `LimitHolds` says and `LimitKept` proves.

Script API

* `CodeWriter`: a flush that meets an undefined label, or one out of reach, has already
  taken the fix-ups, so a later flush succeeds with branches to themselves. Arguments are moved in order, so a swap,
  or a `call_reg` whose target is among the arguments, reads a register already overwritten
  (`Overwrites`). Offsets of B.cond, CBZ and TBZ to labels are cut off without an error
  (`FarTest`). `putPushAllXRegisters` leaves the flags in x15.
* `Cloak`, `AddRange`: ranges that overlap or touch the new one are dropped, not merged
  ("Merge simple overlaps / adjacency for compactness"), and become visible again.
  The last address cannot be hidden, since the end of a range saturates. Of an empty
  range inside a hidden one `range_overlaps_cloaked` says that it is hidden, `clip_range`
  that it is visible; no mapping is empty.
* `Timers`: an interval posts without limit while the worker is busy. A thread that cannot
  be spawned leaves the entry and the callback of its timer.

## 6. Proofs

`HookDispatchProofs`, for any sets of threads and sites, any number of hooks and any
depth:

* `TypeCorrect` (`[]TypeOK`) and `CallbackOnce` (`[]CallbackConserved`) need only the
  assumptions on the constants, also when ids wrap.
* `UnwindInvariant`, `UnwindCorrect` (`[]UnwindsToCaller`), `SavedLrCorrect`
  (`[]SavedLrMatches`) and the refinement `RefinesCallStack` (`Spec => PlainCalls`)
  assume `NoIdWrap`: no id outgrows the immediate of the thunk. Without it they are
  false (section 5).

`UnwindsToCaller` is not inductive: that the popped value is right follows
only from what `saved_lr` holds. The inductive invariant `UnwindInv` adds
`SavedLrMatches` (the vector of a hook and thread and the open frames
redirected to that hook correspond one to one, in order), `PhaseMatchesX30` (a
frame is in the leave thunk only through its link register) and
`FreshUnused` (an id that was never registered is in no frame, so a new entry
starts with an empty and correct vector). TLC checks `UnwindInv` in
`dispatch_threads`. The proof has one lemma per action of a thread, three on
how a step rewrites one stack (`SetTopFacts`, `PushFacts`, `PopFacts`), two on
rewriting the innermost frame (`SetTopFrameInv`, `SetTopSavedLr`), and
`PopsOwnLr`: the frame in the leave thunk owns the last element.

`CallbackInv` adds to `CallbackConserved` that nobody holds a callback of an id not yet
registered, and that a hook without `on_leave` never has one in its slot.
`EnterSideStep` and `LeaveSideStep` say what a rewrite of the innermost frame does to the
holders of one hook's callbacks: the slot loses what the frame takes and gains what
it gives back.

The refinement maps a thread's frames to their return sites. A call of the program
appends one (`CallCalls`), its return removes one and goes to that very site
(`ReturnCalls`, from `UnwindsToCaller`), and whatever the dispatchers do in between
rewrites the innermost frame but not where its call returns (`DispatchSetsTop`,
`SetTopCalls`): a stutter of `CallStack`.

`CodeProofs` proves `NestedInvariant` (`Spec => []NestedInv`) and from it
`RestoreCorrect` (`Spec => []NestedRestores`), for any set of functions and any number
of hooks. That a detach writes the branch of the
next older hook follows only from the chain: `NestedInv` says that no hook of the
function lies between a hook and the one it saved. The proof has one lemma per
action.

`RelocatorProofs` proves `TrampolineInvariance` (`Spec => []TrampolineInv`) and from it
`EffectKept` (`Spec => []SameEffect`) and `DataNeverRun` (`Spec => []NeverRunsData`), for
every displaced instruction, every target and scratch page, every page size and every
reach of an immediate. The run scales the reaches down to 8 words and 8 pages, the
theorems hold of the real 2^18 words and 2^20 pages too. They assume that addresses
are natural numbers that do not wrap and, of `Scratches`, that the target is not in
the scratch page, which was just mapped (`ScratchAssumption`).

Neither property is inductive: both say nothing of the registers half way. `TrampolineInv`
does. `Static` keeps what no step changes, above all that the words are those
`build_trampoline` laid out. `Flow` says that the processor is in one of ten stages, each
with its address, what has run and what the registers hold: in front of the displaced
instruction (`Before`); in the middle of its replacement (`Branches`, `Jumps`, `Pages`,
`LoadsFar`); behind it, on the way back (`After`, `GoesBack`); out of the trampoline at the
resume address, at the target of a branch or in a function called (`Resumed`, `Gone`,
`Called`). The argument has three parts:

* *Layout*. `ChunkWords` gives the words of each replacement, `Layout` where they are
  between the copies and the way back, `WordFacts` the word at an address. A sequence
  is taken as the function it is (`Spans`), so `Joined` is all that is needed of `\o`.
* *Processor*. One lemma per opcode (`DoesPlain` to `DoesTest`) says what `Execute` does at a
  word, so the stages need no case split over the ten disjuncts of `Execute`.
* *Stages*. One lemma per stage says which follows. The skips counted by hand are where
  `Branches`, `Jumps` and `After` meet. `FieldKeeps` and `PageSum` are the arithmetic: a page
  difference in reach survives its field, and page and offset add up to the address.

`ScriptProofs` has a part on the worker and one on the timers. It proves
`WorkerInvariant` (`Spec => []WorkerInv`), for any number of callers and jobs: the jobs taken, the channel and the next number form one increasing
sequence (`OrderInv`), and the worker waits for itself only out of a job that is no Java
callback (`ContextInv`), without which the nested call could clear the context of the
job around it. From it follow `JobsInOrder` (`[]InOrder`), `HookContextSound`
(`[]ContextOfItsJob`) and `HookContextThere` (`[]CallbackHasContext`). One lemma per
action; `SendFacts` is shared by the five that post.

`InjectorProofs` is about both commands, for any threads, devices, runs, signals, locks
and clones.

`PairsCorrect` (`[]PairsMatch`): `TraceInv` adds what `waitpid` has to say of a thread
(`StopInv`), what a phase has not done yet (`PhaseInv`) and that a traced thread not
resumed yet stands outside the kernel (`ContInv`). Without `ContInv` the first
`PTRACE_SYSCALL` could let a thread out of a call whose entry nobody saw.

`LeavesApp` (`[]LeavesAppAsFound`) and `AppSurvivesAlways` (`[]AppSurvives`) follow from
`InjectInvariance`:

* `TracedByOne`: the run that works on the app is the tracer of its main thread, which it
  has stopped but for its calls, and unless a thread was missed none is free. So
  two runs never work at once (`OneWorks`) and the app's own actions on its context, code
  and lock cannot happen meanwhile.
* `SignalInv`: only a signal's stop leaves the main thread at the entry of a system call,
  or a call garbled, or the app harmed.
* `EntryHeld`: a system call is pending only while a run has the main thread stopped, so
  it is run by that run's next call or at its end, and never met by a later run.
* `Clean`: unless a run died half-way, a working run has saved the app's own
  context and the thread has left it only during a call; the BRK is in libc only at the
  places of the ladder that take it out again (`Planted`), and the word that will be put back is
  libc's own unless the app was harmed; the linker's lock counts the
  app's own hold and the call in the linker (`LockBalance`). When nobody works, the
  context is the app's and so is the code, unless the app was harmed.

Neither property is inductive: a step of the ladder restores what an earlier step saved,
so the registers, the planted word and the lock have to be related to the place the run
has in its ladder. The proof goes by kind of step: those of a run that keeps the app
(`WorkerStep`, with one lemma for each call and landing, and
`PageStep` for the four system calls on libc's page), those that let it go
(`LetsGo`), those outside (`OutsideStep`, `QuietInv`), and those of the app itself
(`AppInv`). That a ladder stays in its tables comes from `CallTable` and `SyscallTable`.

`SessionProofs` is about `HostCli` with the agent in it, for any set of hosts and
command lines, any number of retries, messages, calls, restarts and read timeouts. It
proves `SessionInvariance` (`Spec => []SessionInv`) and from it `HeardInOrder` and
`RepliesMatch`. Neither `HearsInOrder` nor `RepliesMatchCalls` is inductive: both speak of
what was read, and the next frame to be read is anywhere between the script and the
host. `SessionInv` says what is there:

* `SessionType`: the types of agent, wires and hosts.
* `ConnInv`: a host that connects, waits or listens has a connection of its own, none
  before; it has read something exactly once it is past its Hello; a host that has lost
  its place in the stream did so on that connection.
* `FreshInv`: nothing is on a connection that is not made yet, waits in the backlog or
  has no pump, and a connection is in the backlog once and not the session. Without
  it a session could start on a channel with something in it. `AtInv` says what the agent
  has done at each of its places.
* `HearInv`: a host that waits has its end open, hears Hello first, and `StreamInv`:
  what was heard, what is written and what is in the channel are rising one after the
  other (`InStep`) whatever happens. On connections without a timeout inside a frame what was
  heard has no gap (`Full`); while the host is there nothing is missing over all
  three either, and, for the sink, up to the last number emitted (`Whole`).
* `CallInv`: at the reply, only the host's last call is under way, on one of
  the wire, the worker, the channel and the wire back, and those before were answered
  (`OneCall`); on any other connection none is (`NoCalls`). This is why a reply need not be
  compared with the call: a host that gives up on one never makes another on the
  same connection.

The lemmas `NumbersAppend` and `NumbersTail` say how the numbers in a fifo and their
order change at its ends; no induction over sequences is needed beyond that, for
the model touches its fifos nowhere else. `ListenShape` reduces what a host with a
connection does, eight actions, to six effects (`Idles`, `Skips`, `Quits`, `Takes`, `Asks`,
`Finishes`), each treated once per part of the invariant.

`MemoryAccessProofs` proves all five safety properties of the monitor, for any
set of threads, any guard pages, any number of enables and of failures of `mprotect` and
any capacity of the pipe, assuming that there is a page and that the threads are finitely many:

* `TypeCorrect` needs that nothing is published while `enable` or `disable` are
  at their pages (`Unset`), and that an `enable` under way has its number (`Counted`).
* `LostOnlyIfDisturbed` (`CrashInv`): a thread nobody disturbed is in the handler only while
  the worker is idle and its page watched, and then `ENABLED` is set (`SetMeansOn`).
* `RestoredWhenOff` (`OffInv`), page by page, for those not `spoilt`: every entry, also one in
  a late handler's hands (`GivesOwn`), holds the page's own protection; a page without its
  bits (`OwnBits`) is `Shut`: watched, or one the worker has yet to restore or has
  protected in the enable under way; a guard page (`GuardShut`) has no entry.
* `WatchedStillTrap` (`TrapsInv`): a handler about to change the protection has marked its
  page, or holds an entry from before the last enable.
* `OneNoticePerPage` (`NotifyInv`): events are counted where they are: told to the script, in
  the pipe, in the hands of a handler that was first. The lemmas `AppendPlaces` and
  `TailPlaces` say what the pipe does to the count; no event is of a later enable than
  the current, so a new enable starts from none.

`JavaProofs` has two parts that share nothing. `OwnHookAlways` and `OriginalRunsAlways` are for any number of methods, slots, threads and installations. `HookInv` adds to the types that slots hold hooks of methods (`Named`),
that a rewritten method has its own slot except while it is installed or its installation
failed (`SlotsInv`), and that the same holds of the jobs in the channel (`JobsInv`).
`OriginalInv` says of a method never rewritten that its entry point and clones are untouched
(`Untouched`), and of one rewritten once that its clone is its own code (`Once`).

`LimitKept` is for any finite set of threads and any limits. `LimitHolds` is not
inductive: the threads that may still count an event without another look (`Pending`) are
to be added to the count, and at least the thread that compares is not among them.

`ScriptProofs` also proves `NoLateCallback`, for any number of timers. `TimersInv` adds that a
timer not set left no trace (`Fresh`) and that what a clear removed does not come back
(`StaysCleared`).

`CloakInvariance` and `ClipCorrect` are for any size of the address space and any number of
hidden ranges. What the loop of `clip_range` leaves to be shown is `Walk`: every address
before the cursor is shown exactly if it is not hidden, every hidden one behind it is
in a hit to come, the fragments are in order and end before the cursor, and no two hits
start at one address, so that each next hit has the least base of those left. For this
ranges of the registry must be disjoint (`Apart`), which `add_range` sees to. `CutHolds`
and `CutOverlaps` say what intersecting two ranges gives, with ends that saturate,
`HitFacts` what the hits are together, `AddGap` what one more fragment shows.

`CodeProofs` also proves `CodeInvariance` (`CodeSpec => []CodeInv`) and `CodeCorrect`
(`CodeSpec => []DoesWhatItSays`), for every choice of the constants: any functions with up
to three arguments, any function to relocate, any reach of a branch, scripts of any length
`MaxStmts` and runs of any length `MaxRun`. The only assumption is `CodeAssumption`, which
`script_api` evaluates. It is the one place where a proof follows two programs:

* *The words*. `CodeInv` says that each statement's words lie where `starts` has it
  begin, up to the next (`Layout`), that a branch waiting for its label has a fix-up,
  the others their offset (`Pending`), and that the queue of the relocator holds the
  instructions that follow those passed on (`Reading`). One lemma per action. The
  hard ones are `PutLdrRegValueStep`, which goes back to an earlier word, `FlushStep`,
  and `WriteStep`, which puts many statements at once.
* *The processor*. One lemma per kind of word says what `Execute` does (`LdrStep` to
  `PlainStep`), with the state spelled out field by field.
* *Both*. `Matches` relates a state of the statements and one of the words: the same
  registers except X17, and X30, where a return address is the number of a statement on
  one side and an address in the buffer on the other (`Links`), the same calls seen, and
  stacks where one frame of `putPushAllXRegisters` stands for three (`Stands`). Or both
  have ended alike, or the statements went wrong.
* *One statement*. From states that are `Alike` a statement and at most nine words lead to
  states that match (`LabelDoes` to `CallDoes`, together `StatementDoes`). Arguments are an
  induction over those set up so far (`ArrangeMore`), for which `Overwrites` is needed.
* *A run*. `RunsMatch` is the induction over the statements run. The runs of the model are
  functions defined by recursion; `WordsExist` and `StatementsExist` show that there is such
  a function by an explicit induction over its length, since the library's theorem takes an
  operator as a parameter.

Every safety invariant of the passing runs is stated by a theorem.

### Liveness

The prover knows nothing of `ENABLED` but its name, and has no induction over data for
temporal formulas. Where a liveness property needs no such induction, it is proved of
`FairSpec` and of what `ENABLED` comes to, which is a hypothesis of the theorem: the
guard of the action, as it stands in the model.

* `FinishesAlways` (`Relocator`): `CanGoOn` is the guard of `Next`. That a trampoline
  does not stop half-way and gets further with every step is safety, and
  `NeverStuck` has no hypotheses: from the stages of `Flow` it follows that a
  trampoline that is not `Done` can go on and that `Reached`, at most 11 until it is `Done`,
  grows with every step. The twelve values are spelled out for the temporal prover.
* `AllComeBack` (`JsWorker`): a wait can be answered or time out; nothing the worker does
  matters, which is the point of the timeouts.
* `FaultEndsWhenCalm` (`MemoryAccess`): the handler can run, and get the lock when the worker
  has not got it. Two hypotheses more say that in the end no `enable` is at its pages
  (`Calm`) and that the worker does not stay in the loop of `disable`. The model has both,
  since enables are bounded and pages are finitely many, but that is an induction. `OffInv`
  says that the bits a handler gives, and `disable` after it, are the page's own, unless the
  page is `spoilt`.

On the instances of the runs TLC finds these hypotheses true in every reachable
state.

Only model-checked, since their arguments count something down that has no bound in
advance: `CallsFinish` (the calls that are open), `EveryJobRuns` (the queue), `RunsEnd` and
`AppRunsAlone` (threads, retries), `SessionsEnd` and `Delivered` (messages and retries).

## 7. What is not modelled

* The register file beyond `x30` and the bytes of thunks in the hook models: straight-line
  code that TLC would only replay. The thunk's frame is 256 bytes while `CpuContext`
  has 272: `sp`, `pc` and `pstate` alias the saved frame pointer and LR.
* Tail calls from one hooked function into another; allocation inside
  `goauld_dispatch_enter` while the registry is locked; threads that execute a
  prologue while it is written; scratch pages, of which every attach keeps one.
* `mam_sig_handler` locks `STATE` in signal context: a thread that holds the lock
  and touches a watched page would wait for itself. In the model the critical
  sections touch no watched page. The classification of an access as read or
  write is left out too.
* `JsLock` is stored and taken by nobody, so no model has it.
* Interceptor's JavaScript glue (callback tables, invocation objects, register
  write-back): `dispatch_*` and `worker_*` are modelled up to the call of the script.
* GOT hooks: a walk of ELF tables and one pointer store.
* SELinux, Yama and capability set-up, spawning and the discovery of symbols in the
  injector; file deployment over adb and printing in the hosts.
* JNI reflection and toasts, which keep no state but caches; the calibration of
  ArtMethod's layout; the entry points of the bridge that only tests call.
* Memory, Module, Process and Thread functions of the script API, which read the process
  and return, and the second JavaScript backend (`bindings_symbiote.rs`), which mirrors the
  first.
* Cache maintenance, formatting, logging and the layout of payloads.
