----------------------------- MODULE CodeWriter -----------------------------
(***************************************************************************)
(* Arm64Writer and Arm64Relocator as scripts use them: statements append   *)
(* words to a buffer, branches to labels are filled in by flush, literals  *)
(* lie in the code; the relocator reads instructions of a function and     *)
(* writes them through the writer.                                         *)
(*                                                                         *)
(* Offsets and addresses count words of four bytes; the encoding of a word *)
(* is abstracted to what the processor does with it.                       *)
(***************************************************************************)
EXTENDS Integers, Sequences, SequencesExt

CONSTANTS
  Pcs,        \* addresses the code may be generated for
  Functions,  \* addresses of functions outside of it
  Arity,      \* how many arguments each takes
  Immediates, \* values a script loads
  ArgLists,   \* lists of arguments scripts pass
  Labels,
  Original,   \* the instructions of the function given to the relocator
  BranchReach, \* the offset of B and BL is in -BranchReach .. BranchReach - 1
  TestReach,   \* likewise for B.cond, CBZ and TBZ
  MaxStmts,   \* bound: statements a script makes between two resets
  MaxRun      \* bound: statements run to see what they do

\* The registers; X15, which pushes the flags, is the 3 of this model.
X == 0 .. 3
Reg(r) == <<"reg", r>>
Imm(v) == <<"imm", v>>

\* Arguments leave a register free for the function.  The function relocated ends
\* with its first branch that does not come back; others go to functions.
ASSUME CodeAssumption ==
  /\ Pcs \cup Functions \subseteq Nat /\ Arity \in [Functions -> 0 .. 3]
  /\ ArgLists \subseteq UNION {[1 .. n -> {Reg(r) : r \in X} \cup {Imm(v) : v \in Immediates}] : n \in 0 .. 3}
  /\ BranchReach \in Nat \ {0} /\ TestReach \in Nat \ {0}
  /\ MaxStmts \in Nat /\ MaxRun \in Nat
  /\ Len(Original) \in Nat \ {0}
  /\ \A i \in 1 .. Len(Original) :
       /\ Original[i].op \in {"plain", "test", "bl", "b"}
       /\ Original[i].op # "plain" => Original[i].to \in Functions
       /\ Original[i].op = "b" <=> i = Len(Original)

VARIABLES
  pc, buf, labels, fixups, \* Arm64Writer
  taken, ahead, eoi,       \* Arm64Relocator: read so far, read_ahead
  script,   \* history: the statements that made buf
  starts,   \* history: where in buf each starts
  passed,   \* history: how many instructions the relocator has passed on
  flushed,  \* buf was flushed and nothing put since
  failed    \* history: a flush failed since the last reset

wvars == <<pc, buf, labels, fixups, taken, ahead, eoi, script, starts, passed,
           flushed, failed>>

\* Values of registers.
Held(r) == <<"held", r>>
Address(a) == <<"address", a>>
Flags(f) == <<"flags", f>>
Junk == <<"junk", 0>>

-----------------------------------------------------------------------------
(* Words *)

Fits(x, reach) == x \in -reach .. reach - 1
\* An offset as the processor reads it from its field, where the rest is cut off.
Field(x, reach) == LET m == x % (2 * reach) IN IF m >= reach THEN m - 2 * reach ELSE m
CanBranch(from, to) == Fits(to - from, BranchReach)

Jump(op, d) == [op |-> op, by |-> d]
Test(d) == [op |-> "test", by |-> Field(d, TestReach), cut |-> ~ Fits(d, TestReach)]
Lit(v) == << [op |-> "lit", v |-> v], [op |-> "upper"] >>
Ldr(r, d) == [op |-> "ldr", r |-> r, by |-> d]
OnReg(op, r) == [op |-> op, r |-> r]
Pair(op, a, b) == [op |-> op, a |-> a, b |-> b]

LdrU64(r, v) == <<Ldr(r, 2), Jump("b", 3)>> \o Lit(v)
AbsBranch(t) == <<Ldr(17, 2), OnReg("br", 17)>> \o Lit(Address(t))
AbsCall(t) == <<[op |-> "adr", r |-> 30, by |-> 5]>> \o AbsBranch(t)
SkipTest(t) == <<[op |-> "skip", by |-> 5]>> \o AbsBranch(t)

PushAll == <<Pair("push", 0, 1), Pair("push", 2, 3), OnReg("mrs", 3), Pair("push", 30, 3)>>
PopAll == <<Pair("pop", 30, 3), OnReg("msr", 3), Pair("pop", 2, 3), Pair("pop", 0, 1)>>

Setup(arg, d) == IF arg[1] = "imm" THEN LdrU64(d, arg)
                 ELSE IF arg[2] = d THEN << >> ELSE <<Pair("mov", d, arg[2])>>
\* Mutant: from the first argument to the last.
ArgumentsForward(args) == FlattenSeq([i \in 1 .. Len(args) |-> Setup(args[i], i - 1)])
Arguments(args) ==
  FlattenSeq([i \in 1 .. Len(args) |-> Setup(args[Len(args) + 1 - i], Len(args) - i)])

\* Directly if the call itself, behind the arguments, is in reach.
CallAddress(f, args, at) ==
  LET ws == Arguments(args)
      n == Len(args)
  IN ws \o IF CanBranch(at + Len(ws), f) THEN <<Jump("bl", f - at - Len(ws))>>
           ELSE LdrU64(n, Address(f)) \o <<OnReg("blr", n)>>
CallReg(r, args) == Arguments(args) \o <<OnReg("blr", r)>>

\* relocate_one, of the i-th instruction; SkipTest has the test inverted.
Relocated(i) ==
  CASE Original[i].op = "plain" -> <<[op |-> "plain", n |-> i]>>
    [] Original[i].op = "b"     -> AbsBranch(Original[i].to)
    [] Original[i].op = "bl"    -> AbsCall(Original[i].to)
    [] Original[i].op = "test"  -> SkipTest(Original[i].to)

-----------------------------------------------------------------------------
(* The writer *)

WriterInit ==
  /\ pc \in Pcs /\ buf = << >> /\ labels = << >> /\ fixups = << >>
  /\ taken = 0 /\ ahead = << >> /\ eoi = FALSE
  /\ script = << >> /\ starts = << >> /\ passed = 0
  /\ flushed = FALSE /\ failed = FALSE

EmitPc == pc + Len(buf)
Says(s) == /\ Len(script) < MaxStmts /\ flushed' = FALSE
           /\ script' = Append(script, s) /\ starts' = Append(starts, Len(buf))
Emits(ws) == buf' = buf \o ws
Relocator == <<taken, ahead, eoi, passed>>

Put(s, ws) == Says(s) /\ Emits(ws) /\ UNCHANGED <<pc, labels, fixups, failed, Relocator>>

\* A label is placed once between two resets; a second placing would win.
PutLabel(l) ==
  /\ l \notin DOMAIN labels
  /\ labels' = [k \in DOMAIN labels \cup {l} |-> IF k = l THEN Len(buf) ELSE labels[k]]
  /\ Says([op |-> "label", label |-> l])
  /\ UNCHANGED <<pc, buf, fixups, failed, Relocator>>

\* put_b_label, put_bl_label; put_b_cond_label, put_cbz_ and put_tbz_..._label
PutBranchLabel(op, l) ==
  /\ Says([op |-> op, label |-> l])
  /\ Emits(<<IF op = "test" THEN Test(0) ELSE Jump(op, 0)>>)
  /\ fixups' = Append(fixups, [at |-> Len(buf), label |-> l, op |-> op])
  /\ UNCHANGED <<pc, labels, failed, Relocator>>

PutLdrRegRef(r) == Put([op |-> "ldr_ref", r |-> r, at |-> Len(buf)], <<Ldr(r, 0)>>)

\* The script gives the reference putLdrRegRef returned.
PutLdrRegValue(at, v) ==
  /\ Says([op |-> "value", ref |-> at, v |-> v])
  /\ buf' = [buf EXCEPT ![at + 1].by = Len(buf) - at] \o Lit(v)
  /\ UNCHANGED <<pc, labels, fixups, failed, Relocator>>

PutCallAddress(f, args) ==
  Put([op |-> "call", f |-> f, args |-> args], CallAddress(f, args, EmitPc))
PutCallReg(r, args) == Put([op |-> "call_reg", r |-> r, args |-> args], CallReg(r, args))

PutBImm(t) == CanBranch(EmitPc, t) /\ Put([op |-> "exit", to |-> t], <<Jump("b", t - EmitPc)>>)
PutBranchAddress(t) == Put([op |-> "exit", to |-> t], AbsBranch(t))

Resolve(f) ==
  LET d == labels[f.label] - f.at
  IN IF f.op = "test" THEN Test(d) ELSE Jump(f.op, d)

\* The label is not known, or out of reach.
CannotResolve(f) ==
  \/ f.label \notin DOMAIN labels
  \/ f.op # "test" /\ ~ CanBranch(f.at, labels[f.label])

\* resolve_fixups stops at the first one it cannot resolve.
Resolved == {n \in DOMAIN fixups : \A k \in 1 .. n : ~ CannotResolve(fixups[k])}

\* The fixups are taken first and not put back where one fails.
Flush ==
  /\ ~ flushed
  /\ LET of(k) == {n \in Resolved : fixups[n].at + 1 = k}
     IN buf' = [k \in DOMAIN buf |->
                  IF of(k) = {} THEN buf[k] ELSE Resolve(fixups[CHOOSE n \in of(k) : TRUE])]
  /\ flushed' = (Resolved = DOMAIN fixups)
  /\ failed' = (failed \/ Resolved # DOMAIN fixups)
  /\ fixups' = << >>
  /\ UNCHANGED <<pc, labels, script, starts, Relocator>>

Reset(p) ==
  /\ pc' = p /\ buf' = << >> /\ labels' = << >> /\ fixups' = << >>
  /\ script' = << >> /\ starts' = << >> /\ flushed' = FALSE /\ failed' = FALSE
  /\ UNCHANGED Relocator
-----------------------------------------------------------------------------
(* The relocator *)

\* read_one, up to the first branch that does not come back.
ReadMore(n) == [i \in 1 .. n |-> taken + i]
Ends(n) == \E i \in 1 .. taken + n : Original[i].op = "b"

ReadOne ==
  /\ ~ eoi
  /\ ahead' = ahead \o ReadMore(1) /\ taken' = taken + 1 /\ eoi' = Ends(1)
  /\ UNCHANGED <<pc, buf, labels, fixups, script, starts, passed, flushed, failed>>

\* Takes the next n from the queue, which is filled when it is empty.
Take(n) ==
  /\ n > 0 /\ passed' = passed + n
  /\ LET k == IF n > Len(ahead) THEN n - Len(ahead) ELSE 0 IN
     /\ ahead' = SubSeq(ahead \o ReadMore(k), n + 1, Len(ahead) + k)
     /\ taken' = taken + k /\ eoi' = Ends(k)

Oldest(n) == SubSeq(ahead \o ReadMore(n), 1, n)
\* The words of the first k of them.
Copies(q, k) == FlattenSeq([i \in 1 .. k |-> Relocated(q[i])])

Write(n) ==
  /\ Len(script) < MaxStmts /\ flushed' = FALSE
  /\ script' = script \o [i \in 1 .. n |-> [op |-> "orig", n |-> passed + i]]
  /\ starts' = starts \o [i \in 1 .. n |-> Len(buf) + Len(Copies(Oldest(n), i - 1))]
  /\ Emits(Copies(Oldest(n), n))
  /\ Take(n)
  /\ UNCHANGED <<pc, labels, fixups, failed>>

WriteOne == ~ (eoi /\ ahead = << >>) /\ Write(1)
WriteAll == Write(Len(Original) - taken + Len(ahead))

SkipOne ==
  /\ ~ (eoi /\ ahead = << >>) /\ Take(1)
  /\ UNCHANGED <<pc, buf, labels, fixups, script, starts, flushed, failed>>

ResetRelocator ==
  /\ taken' = 0 /\ ahead' = << >> /\ eoi' = FALSE /\ passed' = 0
  /\ UNCHANGED <<pc, buf, labels, fixups, script, starts, flushed, failed>>

-----------------------------------------------------------------------------
(* What scripts do *)

Values == {script[i].ref : i \in {j \in DOMAIN script : script[j].op = "value"}}
OpenRefs == {script[i].at : i \in {j \in DOMAIN script : script[j].op = "ldr_ref"}} \ Values

PutOne ==
  \/ \E r \in {0, 1}, v \in Immediates : Put([op |-> "ldr", r |-> r, v |-> Imm(v)], LdrU64(r, Imm(v)))
  \/ Put([op |-> "push", a |-> 0, b |-> 1], <<Pair("push", 0, 1)>>)
  \/ \E r \in {0, 1} : Put([op |-> "pop", a |-> r, b |-> r + 1], <<Pair("pop", r, r + 1)>>)
  \/ Put([op |-> "push_all"], PushAll) \/ Put([op |-> "pop_all"], PopAll)
  \/ Put([op |-> "ret"], <<OnReg("br", 30)>>)

PutCall ==
  \E args \in ArgLists :
    \/ \E f \in Functions : Len(args) = Arity[f] /\ PutCallAddress(f, args)
    \/ PutCallReg(2, args)

PutBranch ==
  \/ \E l \in Labels : PutLabel(l) \/ \E op \in {"b", "bl", "test"} : PutBranchLabel(op, l)
  \/ \E f \in Functions : PutBImm(f) \/ PutBranchAddress(f)

WriterNext ==
  \/ PutOne \/ PutCall
  \/ PutLdrRegRef(1) \/ \E at \in OpenRefs : PutLdrRegValue(at, Imm(9))
RelocatorNext == ReadOne \/ WriteOne \/ WriteAll \/ SkipOne \/ ResetRelocator
BothNext == PutBranch \/ Flush \/ \E p \in Pcs : Reset(p)

CodeNext == WriterNext \/ RelocatorNext \/ BothNext
CodeSpec == WriterInit /\ [][CodeNext]_wvars

-----------------------------------------------------------------------------
(* Running it: the words, and the statements they were made from.  A position *)
(* is an offset in buf, or the number of a statement.                         *)

Start(f) ==
  [at |-> 0, regs |-> [r \in X \cup {17, 30} |-> Held(r)], flags |-> Flags(f),
   stack |-> << >>, seen |-> << >>, end |-> "no"]
Stop(s, e) == [s EXCEPT !.end = e]
Step(s) == [s EXCEPT !.at = @ + 1]
With(s, r, v) == [s EXCEPT !.regs[r] = v]
See(s, what) == [s EXCEPT !.seen = Append(@, what)]

Position(v) == IF v[1] = "stmt" THEN v[2] ELSE v[2] - pc
Within(v) == v[1] = "stmt" \/ (v[1] = "address" /\ v[2] - pc \in 0 .. Len(buf))
Here(s, v) == IF v = Held(30) THEN Stop(s, "returned") ELSE [s EXCEPT !.at = Position(v)]

\* A function outside sees its arguments, keeps no register, and returns to X30.
Forgets(regs) == [r \in DOMAIN regs |-> IF r = 30 THEN regs[r] ELSE Junk]
Left(s) == [s EXCEPT !.flags = Junk, !.regs = Forgets(s.regs)]
Outside(s, v) ==
  LET n == IF v[1] = "address" /\ v[2] \in Functions THEN Arity[v[2]] ELSE 2
      args == [r \in 0 .. n - 1 |-> s.regs[r]]
  IN Here(Left(See(s, <<v, args>>)), s.regs[30])
Transfer(s, v) == IF v = Held(30) \/ Within(v) THEN Here(s, v) ELSE Outside(s, v)
Near(s, d) == Transfer(s, Address(pc + s.at + d))
Taken(s) == s.flags = Flags("eq")

Pushed(s, x) == Step([s EXCEPT !.stack = Append(@, x)])
Popped(s) == [s EXCEPT !.stack = Front(@)]
Pop(s, a, b) == LET x == Last(s.stack) IN Step(With(With(Popped(s), a, x[1]), b, x[2]))

\* The word at s.at.
Execute(s) ==
  LET w == buf[s.at + 1] IN
  CASE w.op = "plain" -> Step(See(s, w))
    [] w.op = "b" -> Near(s, w.by)
    [] w.op = "bl" -> Near(With(s, 30, Address(pc + s.at + 1)), w.by)
    [] w.op = "test" -> IF Taken(s) THEN Near(s, w.by) ELSE Step(s)
    [] w.op = "skip" -> IF Taken(s) THEN Step(s) ELSE Near(s, w.by)
    [] w.op = "ldr" -> LET at == s.at + w.by + 1
                       IN IF at \in DOMAIN buf /\ buf[at].op = "lit"
                          THEN Step(With(s, w.r, buf[at].v)) ELSE Stop(s, "data")
    [] w.op = "adr" -> Step(With(s, w.r, Address(pc + s.at + w.by)))
    [] w.op = "mov" -> Step(With(s, w.a, s.regs[w.b]))
    [] w.op = "mrs" -> Step(With(s, w.r, s.flags))
    [] w.op = "msr" -> Step([s EXCEPT !.flags = s.regs[w.r]])
    [] w.op = "push" -> Pushed(s, <<s.regs[w.a], s.regs[w.b]>>)
    [] w.op = "pop" -> IF s.stack = << >> THEN Stop(s, "fault") ELSE Pop(s, w.a, w.b)
    [] w.op = "br" -> Transfer(s, s.regs[w.r])
    [] w.op = "blr" -> Transfer(With(s, 30, Address(pc + s.at + 1)), s.regs[w.r])
    [] w.op \in {"lit", "upper"} -> Stop(s, "data")

\* The statement after s.at.
Next1(s) == <<"stmt", s.at + 1>>
LabelAt(l) == {i \in DOMAIN script : script[i].op = "label" /\ script[i].label = l}
GoTo(s, l) == IF LabelAt(l) = {} THEN Stop(s, "undefined")
              ELSE [s EXCEPT !.at = CHOOSE i \in LabelAt(l) : TRUE]
ArgumentOf(s, arg) == IF arg[1] = "imm" THEN arg ELSE s.regs[arg[2]]
Passed(s, args) ==
  [s EXCEPT !.regs = [r \in DOMAIN @ |-> IF r + 1 \in DOMAIN args THEN ArgumentOf(s, args[r + 1])
                                         ELSE @[r]]]
Calls(s, v) == Transfer(With(s, 30, Next1(s)), v)
\* All registers but X17 and the flags as push_all found them.
Restored(s, x) == [s EXCEPT !.regs = [x[1] EXCEPT ![17] = s.regs[17]], !.flags = x[2]]

\* The statement at s.at.
Perform(s) ==
  LET w == script[s.at + 1] IN
  CASE w.op = "label" -> Step(s)
    [] w.op = "b" -> GoTo(s, w.label)
    [] w.op = "bl" -> GoTo(With(s, 30, Next1(s)), w.label)
    [] w.op = "test" -> IF Taken(s) THEN GoTo(s, w.label) ELSE Step(s)
    [] w.op = "ldr" -> Step(With(s, w.r, w.v))
    [] w.op = "ldr_ref" -> IF w.at \in Values THEN Step(With(s, w.r, Imm(9))) ELSE Stop(s, "undefined")
    [] w.op = "value" -> Stop(s, "data")
    [] w.op = "push" -> Pushed(s, <<s.regs[w.a], s.regs[w.b]>>)
    [] w.op = "pop" -> IF s.stack = << >> \/ Len(Last(s.stack)) # 2 THEN Stop(s, "fault")
                       ELSE Pop(s, w.a, w.b)
    [] w.op = "push_all" -> With(Pushed(s, <<s.regs, s.flags, "all">>), 3, s.flags)
    [] w.op = "pop_all" -> IF s.stack = << >> \/ Len(Last(s.stack)) # 3 THEN Stop(s, "fault")
                           ELSE Step(Restored(Popped(s), Last(s.stack)))
    [] w.op = "call" -> Calls(Passed(s, w.args), Address(w.f))
    [] w.op = "call_reg" -> Calls(Passed(s, w.args), s.regs[w.r])
    [] w.op = "ret" -> Transfer(s, s.regs[30])
    [] w.op = "exit" -> Transfer(s, Address(w.to))
    [] w.op = "orig" ->
         LET o == Original[w.n] IN
         CASE o.op = "plain" -> Step(See(s, [op |-> "plain", n |-> w.n]))
           [] o.op = "test" -> IF Taken(s) THEN Transfer(s, Address(o.to)) ELSE Step(s)
           [] o.op = "bl" -> Calls(s, Address(o.to))
           [] o.op = "b" -> Transfer(s, Address(o.to))

NextWord(s) == IF s.end # "no" THEN s ELSE IF s.at = Len(buf) THEN Stop(s, "off") ELSE Execute(s)
NextStatement(s) ==
  IF s.end # "no" THEN s ELSE IF s.at = Len(script) THEN Stop(s, "off") ELSE Perform(s)

\* The words of a statement that are executed: three arguments and a far call.
MaxWords == 9
Words(f) ==
  LET run[n \in 0 .. MaxWords * (MaxRun + 1)] == IF n = 0 THEN Start(f) ELSE NextWord(run[n - 1])
  IN run[MaxWords * (MaxRun + 1)]
Statements(f) ==
  LET run[n \in 0 .. MaxRun] == IF n = 0 THEN Start(f) ELSE NextStatement(run[n - 1])
  IN run[MaxRun]

Result(s) == <<s.end, s.seen, s.flags, [r \in X |-> s.regs[r]]>>

\* What a script must not do.  An argument of a call, or the register called, is
\* overwritten by an argument behind it, which is set up first; a test jumps
\* further than its offset goes, which is cut off.
Overwritten(r, args, before) ==
  \E i \in DOMAIN args : i > before /\ args[i] # Reg(r) /\ r = i - 1
Overwrites(w) ==
  \/ w.op \in {"call", "call_reg"} /\ \E j \in DOMAIN w.args :
       w.args[j][1] = "reg" /\ Overwritten(w.args[j][2], w.args, j)
  \/ w.op = "call_reg" /\ Overwritten(w.r, w.args, 0)
FarTest == \E i \in DOMAIN buf : buf[i].op = "test" /\ buf[i].cut
\* The buffer is memory of its own.
OwnMemory == \A f \in Functions : f - pc \notin 0 .. Len(buf)

\* The code a successful flush leaves in memory does what the statements say:
\* branches go to their labels, literals are loaded and never run into, calls
\* get their arguments, what was pushed is popped, and relocated instructions
\* come in their order, whatever was flushed in between.
DoesWhatItSays ==
  /\ flushed /\ ~ failed /\ OwnMemory
  /\ ~ FarTest /\ \A i \in DOMAIN script : ~ Overwrites(script[i])
  => \A f \in {"eq", "ne"} :
       Statements(f).end \in {"off", "returned"} => Result(Words(f)) = Result(Statements(f))
=============================================================================
