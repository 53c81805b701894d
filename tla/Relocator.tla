----------------------------- MODULE Relocator -----------------------------
(***************************************************************************)
(* build_trampoline of goauld-native-hook, executed: four instructions are *)
(* taken from a target, each is re-encoded for its place in the scratch    *)
(* page, and a branch back follows.  One of the four is any of the kinds   *)
(* the decoder tells apart, the other three do not depend on the PC.       *)
(*                                                                         *)
(* Addresses count words of four bytes; a literal of eight bytes fills two *)
(* words.  How far immediate fields reach are constants, scaled down.      *)
(***************************************************************************)
EXTENDS Integers, Sequences, FiniteSets

CONSTANTS
  Target,    \* address of the function that is patched
  Scratches, \* addresses the trampoline may be emitted at
  Top,       \* bound: the largest address
  PageSize,  \* words in a page
  AdrReach,  \* words that ADR and a literal load reach backwards: 2^18
  AdrpReach  \* pages that ADRP reaches backwards: 2^20

ASSUME RelocAssumption ==
  /\ Top \in Nat /\ Target \in 0 .. Top /\ Scratches \subseteq 0 .. Top
  /\ PageSize \in Nat \ {0} /\ AdrReach \in Nat \ {0} /\ AdrpReach \in Nat \ {0}

MinPatchInsns == 4
\* Where the original runs on after the displaced instructions.
Resume == Target + MinPatchInsns
Displaced == Target .. Resume - 1

\* The scratch page is new: the target is elsewhere.
Page(e) == e .. e + 15
ASSUME ScratchAssumption == \A e \in Scratches : (Target .. Resume) \cap Page(e) = {}

\* What the displaced instruction is to the processor.  "bal" stands for the
\* condition codes AL and NV, which both branch always; BLR and RET are copied
\* like BR.
Kinds == {"plain", "br", "b", "bl", "bcond", "bal", "cbz", "tbz",
          "adr", "adrp", "ldr64", "ldr32", "ldrsw", "ldrfp"}
Conditional == {"bcond", "bal", "cbz", "tbz"}
Loads == {"ldr64", "ldr32", "ldrsw", "ldrfp"}

Regs == {"rd", "x0", "x17", "x30", "v"}
NoValue == [is |-> "old", at |-> 0]
AddrOf(a) == [is |-> "addr", at |-> a]
Loaded(how, a) == [is |-> how, at |-> a]

VARIABLES
  insn,    \* [kind, place among the four, what it refers to]
  holds,   \* whether the tested condition is true
  base,    \* where the trampoline is
  code,    \* its words
  pc, regs,
  ran,     \* the plain instructions executed so far
  returned \* the function called by a displaced BL has returned

vars == <<insn, holds, base, code, pc, regs, ran, returned>>

-----------------------------------------------------------------------------
(* The encoders. *)

PageOf(a) == a \div PageSize

\* An immediate keeps its low bits, the processor extends their sign.
Field(x, reach) == LET m == x % (2 * reach)
                   IN IF m >= reach THEN m - 2 * reach ELSE m
Fits(x, reach) == x \in - reach .. reach - 1

\* LDR X17, #8 ; BR X17 ; <u64 target>
AbsBranch(t) == << [op |-> "ldrlit", r |-> "x17", how |-> "addr", imm |-> 2],
                   [op |-> "br17"],
                   [op |-> "lit", v |-> t], [op |-> "lit", v |-> t] >>

\* ADR X30, #20 and the branch
AbsCall(t) == << [op |-> "adr", r |-> "x30", imm |-> 5] >> \o AbsBranch(t)

\* Mutant: the skip is counted from the branch instead of the test.
SkipTooShort == 4
\* skip_target: over the test and the absolute branch.
Skip == 5

\* Cond::invert and the flipped nonzero of CBZ and TBZ.  AL turns into NV.
Inverts(kind) == kind # "bal"

RewriteCondBranch(kind, t) ==
  << [op |-> "test", kind |-> kind, inverted |-> Inverts(kind), imm |-> Skip] >>
    \o AbsBranch(t)

\* encode_pc_rel_addr: ADR in range, else ADRP and ADD.
PcRelAddr(e, t) ==
  IF Fits(t - e, AdrReach)
  THEN << [op |-> "adr", r |-> "rd", imm |-> t - e] >>
  ELSE << [op |-> "adrp", r |-> "rd",
           imm |-> Field(PageOf(t) - PageOf(e), AdrpReach)],
          [op |-> "add", r |-> "rd", imm |-> t % PageSize] >>

\* The decoder's view of a literal load: LDRSW is not a 64-bit load, and the
\* index of a SIMD register is 0.
LoadReg(kind) == IF kind = "ldrfp" THEN "x0" ELSE "rd"
LoadHow(kind) == IF kind \in {"ldr64", "ldrfp"} THEN "mem64" ELSE "mem32"

\* Re-encoded in range, else through the address in X17.
PcRelLoad(kind, e, t) ==
  IF Fits(t - e, AdrReach)
  THEN << [op |-> "ldrlit", r |-> LoadReg(kind), how |-> LoadHow(kind),
           imm |-> t - e] >>
  ELSE << [op |-> "ldrlit", r |-> "x17", how |-> "addr", imm |-> 2],
          [op |-> "b", imm |-> 3],
          [op |-> "lit", v |-> t], [op |-> "lit", v |-> t],
          [op |-> "ldrx17", r |-> LoadReg(kind), how |-> LoadHow(kind)] >>

relocate_one(kind, t, e) ==
  CASE kind = "br"          -> << [op |-> "br", to |-> t] >>
    [] kind = "b"           -> AbsBranch(t)
    [] kind = "bl"          -> AbsCall(t)
    [] kind \in Conditional -> RewriteCondBranch(kind, t)
    [] kind \in {"adr", "adrp"} -> PcRelAddr(e, t)
    [] kind \in Loads       -> PcRelLoad(kind, e, t)

\* Mutant: every instruction is encoded for the start of the trampoline.
EncodeAtBase(e, done) == e
\* emit_pc of the next instruction.
EmitPc(e, done) == e + Len(done)

\* Mutant: the way back is computed from the trampoline, not from the target.
ResumeInScratch(e) == e + MinPatchInsns
\* resume_addr, the first instruction that was not displaced.
ResumeAddr(e) == Resume

\* Instructions m to n, copied.
Copied(m, n) == [k \in 1 .. n - m + 1 |-> [op |-> "plain", n |-> m + k - 1]]

build_trampoline(i, e) ==
  LET before == Copied(1, i.place - 1)
      chunk  == IF i.kind = "plain" THEN Copied(i.place, i.place)
                ELSE relocate_one(i.kind, i.ref, EmitPc(e, before))
  IN before \o chunk \o Copied(i.place + 1, MinPatchInsns) \o AbsBranch(ResumeAddr(e))

-----------------------------------------------------------------------------
(* The processor. *)

\* What the original encoding can refer to from its place.
Reachable(i) ==
  LET at == Target + i.place - 1 IN
    CASE i.kind \in {"bcond", "bal", "cbz", "tbz", "adr"} \cup Loads ->
           Fits(i.ref - at, AdrReach)
      [] i.kind = "adrp" -> /\ i.ref % PageSize = 0
                            /\ Fits(PageOf(i.ref) - PageOf(at), AdrpReach)
      [] i.kind \in {"b", "bl", "br"} -> TRUE
      [] i.kind = "plain" -> i.ref = 0

Insns == {i \in [kind : Kinds, place : 1 .. MinPatchInsns, ref : 0 .. Top] :
            Reachable(i)}

\* Nothing refers to the scratch page, which is new.
Init ==
  /\ insn \in Insns
  /\ base \in Scratches
  /\ insn.ref \notin Page(base)
  /\ holds \in BOOLEAN
  /\ code = build_trampoline(insn, base)
  /\ pc = base
  /\ regs = [r \in Regs |-> NoValue]
  /\ ran = << >>
  /\ returned = FALSE

Inside == pc \in base .. base + Len(code) - 1
Word == code[pc - base + 1]
WordAt(a) == code[a - base + 1]

Advance == pc' = pc + 1
Write(r, v) == regs' = [regs EXCEPT ![r] = v]
\* A literal load from the trampoline finds the address stored there.
LiteralAt(w) ==
  IF w.how = "addr" THEN AddrOf(WordAt(pc + w.imm).v) ELSE Loaded(w.how, pc + w.imm)

Taken(w) == w.kind = "bal" \/ (holds /= w.inverted)

Execute ==
  /\ Inside
  /\ LET w == Word IN
       \/ /\ w.op = "plain" /\ Advance
          /\ ran' = Append(ran, w.n) /\ UNCHANGED regs
       \/ /\ w.op = "adr" /\ Advance
          /\ Write(w.r, AddrOf(pc + w.imm)) /\ UNCHANGED ran
       \/ /\ w.op = "adrp" /\ Advance
          /\ Write(w.r, AddrOf((PageOf(pc) + w.imm) * PageSize)) /\ UNCHANGED ran
       \/ /\ w.op = "add" /\ Advance
          /\ Write(w.r, AddrOf(regs[w.r].at + w.imm)) /\ UNCHANGED ran
       \/ /\ w.op = "ldrlit" /\ Advance
          /\ Write(w.r, LiteralAt(w)) /\ UNCHANGED ran
       \/ /\ w.op = "ldrx17" /\ Advance
          /\ Write(w.r, Loaded(w.how, regs["x17"].at)) /\ UNCHANGED ran
       \/ /\ w.op = "br17" /\ pc' = regs["x17"].at /\ UNCHANGED <<regs, ran>>
       \/ /\ w.op = "br" /\ pc' = w.to /\ UNCHANGED <<regs, ran>>
       \/ /\ w.op = "b" /\ pc' = pc + w.imm /\ UNCHANGED <<regs, ran>>
       \/ /\ w.op = "test" /\ pc' = pc + (IF Taken(w) THEN w.imm ELSE 1)
          /\ UNCHANGED <<regs, ran>>
  /\ UNCHANGED <<insn, holds, base, code, returned>>

\* The function a displaced BL called comes back.
CalleeReturns ==
  /\ insn.kind = "bl" /\ ~ Inside /\ ~ returned
  /\ pc = insn.ref /\ regs["x30"] # NoValue
  /\ pc' = regs["x30"].at
  /\ returned' = TRUE
  /\ UNCHANGED <<insn, holds, base, code, regs, ran>>

Next == Execute \/ CalleeReturns
Spec == Init /\ [][Next]_vars
FairSpec == Spec /\ WF_vars(Next)

-----------------------------------------------------------------------------
(* What the four original instructions do. *)

Leaves == \/ insn.kind \in {"b", "br"}
          \/ insn.kind = "bal"
          \/ insn.kind \in Conditional /\ holds
OriginalPc == IF Leaves THEN insn.ref ELSE Resume
\* The plain instructions before the other one, all, or all but it.
OriginalRan ==
  IF Leaves THEN [n \in 1 .. insn.place - 1 |-> n]
  ELSE IF insn.kind = "plain" THEN [n \in 1 .. MinPatchInsns |-> n]
  ELSE [n \in 1 .. MinPatchInsns - 1 |-> IF n < insn.place THEN n ELSE n + 1]
OriginalRegs ==
  [r \in Regs |->
     CASE r = "rd" /\ insn.kind \in {"adr", "adrp"} -> AddrOf(insn.ref)
       [] r = "rd" /\ insn.kind = "ldr64" -> Loaded("mem64", insn.ref)
       [] r = "rd" /\ insn.kind = "ldr32" -> Loaded("mem32", insn.ref)
       [] r = "rd" /\ insn.kind = "ldrsw" -> Loaded("mem32 signed", insn.ref)
       [] r = "v" /\ insn.kind = "ldrfp" -> Loaded("mem64", insn.ref)
       [] OTHER -> NoValue]

Done == ~ Inside /\ (insn.kind = "bl" => returned)

\* X17 is the scratch register of the scheme; X30 is the call's own.
Same == /\ pc = OriginalPc
        /\ ran = OriginalRan
        /\ \A r \in Regs \ {"x17"} :
             (r = "x30" /\ insn.kind = "bl") \/ regs[r] = OriginalRegs[r]

\* Where relocation is not faithful.  A SIMD literal load and LDRSW lose what the
\* decoder does not keep; B.AL is rewritten with B.NV, which is taken as well; a
\* branch or load that refers to the displaced words finds the patch there; the
\* page difference of ADRP is truncated when the scratch page is out of reach.
NarrowLoad   == insn.kind \in {"ldrsw", "ldrfp"}
AlwaysBranch == insn.kind = "bal"
IntoPatch    == /\ insn.kind \in Conditional \cup {"b", "bl", "br"} \cup Loads
                /\ insn.ref \in Displaced
FarPage      == LET e == base + insn.place - 1 IN
                  /\ insn.kind \in {"adr", "adrp"}
                  /\ ~ Fits(PageOf(insn.ref) - PageOf(e), AdrpReach)

\* The relocated instructions do to the processor what the originals did,
\* wherever the trampoline lies and whatever the instruction refers to.
SameEffect ==
  Done /\ ~ NarrowLoad /\ ~ AlwaysBranch /\ ~ IntoPatch /\ ~ FarPage => Same

\* The skips and resume addresses of the rewrites are counted right: no literal
\* is ever executed and no branch lands outside the words that were emitted.
NeverRunsData == Inside => Word.op # "lit"

\* Every trampoline comes to its end.
Finishes == <>Done
=============================================================================
