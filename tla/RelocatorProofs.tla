--------------------------- MODULE RelocatorProofs ---------------------------
(***************************************************************************)
(* Proofs that the relocated instructions do what the originals did, that  *)
(* no literal of the trampoline is executed and that it comes to an end,   *)
(* for any target, scratch page, displaced instruction, page size and      *)
(* reach of an immediate, the real ones among them.                        *)
(***************************************************************************)
EXTENDS Relocator, SequenceTheorems, TLAPS

-----------------------------------------------------------------------------
(* Arithmetic of the encoders *)

\* An immediate in reach survives its field.
LEMMA FieldKeeps ==
  ASSUME NEW reach \in Nat \ {0}, NEW x \in Int, Fits(x, reach)
  PROVE  Field(x, reach) = x
<1>1. CASE x >= 0
  <2>1. x % (2 * reach) = x
    BY <1>1 DEF Fits
  <2> QED
    BY <1>1, <2>1 DEF Fits, Field
<1>2. CASE x < 0
  <2>1. x % (2 * reach) = x + 2 * reach
    BY <1>2 DEF Fits
  <2> QED
    BY <1>2, <2>1 DEF Fits, Field
<1> QED
  BY <1>1, <1>2

LEMMA PageAddress ==
  ASSUME NEW a \in Nat
  PROVE  /\ PageOf(a) \in Nat /\ a % PageSize \in 0 .. PageSize - 1
         /\ PageOf(a) * PageSize + (a % PageSize) = a
<1>0. PageSize \in Nat \ {0}
  BY RelocAssumption
<1>1. a = PageSize * (a \div PageSize) + (a % PageSize)
  BY <1>0
<1>2. a \div PageSize \in Nat
  BY <1>0
<1>3. a % PageSize \in 0 .. PageSize - 1
  BY <1>0
<1>4. (a \div PageSize) * PageSize + (a % PageSize) = a
  BY <1>0, <1>1, <1>2, <1>3
<1> QED
  BY <1>2, <1>3, <1>4 DEF PageOf

\* ADRP adds pages to the page it is in, ADD the rest.
LEMMA PageSum ==
  ASSUME NEW e \in Nat, NEW t \in Nat
  PROVE  (PageOf(e) + (PageOf(t) - PageOf(e))) * PageSize + (t % PageSize) = t
<1>1. PageOf(e) + (PageOf(t) - PageOf(e)) = PageOf(t)
  BY PageAddress
<1> QED
  BY <1>1, PageAddress

-----------------------------------------------------------------------------
(* Words of the trampoline *)

Spans(f, n) == f = [k \in 1 .. n |-> f[k]]
\* u is f, of m elements, followed by g, of n.
Joins(u, f, m, g, n) ==
  /\ Spans(u, m + n)
  /\ \A k \in 1 .. m : u[k] = f[k]
  /\ \A k \in m + 1 .. m + n : u[k] = g[k - m]

LEMMA SpansLen ==
  ASSUME NEW f, NEW m \in Nat, Spans(f, m)
  PROVE  Len(f) = m
<1> DEFINE S == {f[k] : k \in 1 .. m}
<1>1. f \in [1 .. m -> S]
  BY DEF Spans
<1>2. f \in Seq(S)
  BY <1>1, SeqDef
<1>3. DOMAIN f = 1 .. m
  BY <1>1
<1> QED
  BY <1>2, <1>3, LenProperties

LEMMA Joined ==
  ASSUME NEW f, NEW g, NEW m \in Nat, NEW n \in Nat, Spans(f, m), Spans(g, n)
  PROVE  Joins(f \o g, f, m, g, n)
<1> DEFINE S == {f[k] : k \in 1 .. m} \cup {g[k] : k \in 1 .. n}
<1>1. f \in Seq(S) /\ g \in Seq(S)
  <2>1. f \in [1 .. m -> S] /\ g \in [1 .. n -> S]
    BY DEF Spans
  <2> QED
    BY <2>1, SeqDef
<1>2. Len(f) = m /\ Len(g) = n
  BY SpansLen
<1> HIDE DEF S
<1>3. f \o g \in Seq(S) /\ Len(f \o g) = m + n
  BY <1>1, <1>2, ConcatProperties
<1>4. \A k \in 1 .. m + n : (f \o g)[k] = IF k <= m THEN f[k] ELSE g[k - m]
  BY <1>1, <1>2, ConcatProperties
<1> DEFINE u == f \o g
<1>5. u \in [1 .. m + n -> S] /\ \A k \in 1 .. m + n : u[k] = IF k <= m THEN f[k] ELSE g[k - m]
  BY <1>3, <1>4, LenProperties
<1> HIDE DEF u
<1>6. Spans(u, m + n)
  BY <1>5 DEF Spans
<1>7. \A k \in 1 .. m : u[k] = f[k]
  BY <1>5
<1>8. \A k \in m + 1 .. m + n : u[k] = g[k - m]
  BY <1>5
<1> QED
  BY <1>6, <1>7, <1>8 DEF Joins, u

LEMMA AbsBranchWords ==
  ASSUME NEW t
  PROVE  /\ Spans(AbsBranch(t), 4)
         /\ AbsBranch(t)[1] = [op |-> "ldrlit", r |-> "x17", how |-> "addr", imm |-> 2]
         /\ AbsBranch(t)[2] = [op |-> "br17"]
         /\ AbsBranch(t)[3] = [op |-> "lit", v |-> t]
         /\ AbsBranch(t)[4] = [op |-> "lit", v |-> t]
BY DEF AbsBranch, Spans

LEMMA OneWord ==
  ASSUME NEW w
  PROVE  Spans(<<w>>, 1) /\ <<w>>[1] = w
BY DEF Spans

\* The words that stand for the instruction that is not plain, and their address.
At(i, e) == e + i.place - 1
Chunk(i, e) ==
  IF i.kind = "plain" THEN Copied(i.place, i.place) ELSE relocate_one(i.kind, i.ref, At(i, e))
PcRel == {"adr", "adrp"} \cup Loads
Far(i, e) == i.kind \in PcRel /\ ~ Fits(i.ref - At(i, e), AdrReach)
Size(i, e) ==
  IF i.kind = "b" THEN 4
  ELSE IF i.kind \in {"bl"} \cup Conditional THEN 5
  ELSE IF ~ Far(i, e) THEN 1
  ELSE IF i.kind \in Loads THEN 5 ELSE 2

\* The chunk word by word.
ChunkOk(i, e) ==
  LET c == Chunk(i, e)
      a == At(i, e)
      t == i.ref
  IN
  /\ Spans(c, Size(i, e))
  /\ i.kind = "plain" => c[1] = [op |-> "plain", n |-> i.place]
  /\ i.kind = "br" => c[1] = [op |-> "br", to |-> t]
  /\ i.kind = "b" => \A j \in 1 .. 4 : c[j] = AbsBranch(t)[j]
  /\ i.kind \in {"bl"} \cup Conditional => \A j \in 1 .. 4 : c[1 + j] = AbsBranch(t)[j]
  /\ i.kind = "bl" => c[1] = [op |-> "adr", r |-> "x30", imm |-> 5]
  /\ i.kind \in Conditional =>
       c[1] = [op |-> "test", kind |-> i.kind, inverted |-> Inverts(i.kind), imm |-> 5]
  /\ i.kind \in {"adr", "adrp"} /\ ~ Far(i, e) => c[1] = [op |-> "adr", r |-> "rd", imm |-> t - a]
  /\ i.kind \in {"adr", "adrp"} /\ Far(i, e) =>
       /\ c[1] = [op |-> "adrp", r |-> "rd", imm |-> Field(PageOf(t) - PageOf(a), AdrpReach)]
       /\ c[2] = [op |-> "add", r |-> "rd", imm |-> t % PageSize]
  /\ i.kind \in Loads /\ ~ Far(i, e) =>
       c[1] = [op |-> "ldrlit", r |-> LoadReg(i.kind), how |-> LoadHow(i.kind), imm |-> t - a]
  /\ i.kind \in Loads /\ Far(i, e) =>
       /\ c[1] = [op |-> "ldrlit", r |-> "x17", how |-> "addr", imm |-> 2]
       /\ c[2] = [op |-> "b", imm |-> 3]
       /\ c[3] = [op |-> "lit", v |-> t]
       /\ c[5] = [op |-> "ldrx17", r |-> LoadReg(i.kind), how |-> LoadHow(i.kind)]

LEMMA InsnTypes ==
  ASSUME NEW i \in Insns
  PROVE  i.kind \in Kinds /\ i.place \in 1 .. 4 /\ i.ref \in 0 .. Top
BY DEF Insns, MinPatchInsns

\* A word before an absolute branch.
BranchAfter(u, w, t) ==
  Spans(u, 5) /\ u[1] = w /\ \A j \in 1 .. 4 : u[1 + j] = AbsBranch(t)[j]

LEMMA BeforeAbsBranch ==
  ASSUME NEW w, NEW t
  PROVE  BranchAfter(<<w>> \o AbsBranch(t), w, t)
<1> DEFINE f == <<w>>
           b == AbsBranch(t)
           u == f \o b
<1>1. Spans(f, 1) /\ f[1] = w /\ Spans(b, 4)
  BY OneWord, AbsBranchWords
<1> HIDE DEF f, b
<1>2. Joins(u, f, 1, b, 4)
  BY <1>1, Joined
<1> HIDE DEF u
<1>3. Spans(u, 5) /\ u[1] = w
  BY <1>1, <1>2 DEF Joins
<1>4. \A k \in 2 .. 5 : u[k] = b[k - 1]
  BY <1>2 DEF Joins
<1>5. u[2] = b[1] /\ u[3] = b[2] /\ u[4] = b[3] /\ u[5] = b[4]
  BY <1>4
<1>6. \A j \in 1 .. 4 : u[1 + j] = b[j]
  BY <1>5
<1> QED
  BY <1>3, <1>6 DEF f, b, u, BranchAfter

LEMMA ChunkWords ==
  ASSUME NEW i \in Insns, NEW e \in Nat
  PROVE  ChunkOk(i, e)
<1> DEFINE a == At(i, e)
           t == i.ref
           r == LoadReg(i.kind)
           how == LoadHow(i.kind)
<1>0. i.kind \in Kinds /\ i.place \in 1 .. 4 /\ t \in 0 .. Top
  BY InsnTypes
<1> USE DEF ChunkOk, Chunk, Size, Far
<1>1. CASE i.kind = "plain"
  <2>1. Chunk(i, e) = Copied(i.place, i.place) /\ Size(i, e) = 1
    BY <1>1 DEF PcRel, Loads, Conditional
  <2>2. Spans(Copied(i.place, i.place), 1) /\ Copied(i.place, i.place)[1] = [op |-> "plain", n |-> i.place]
    BY <1>0 DEF Copied, Spans
  <2> QED
    BY <1>1, <2>1, <2>2 DEF PcRel, Loads, Conditional
<1>2. CASE i.kind = "br"
  <2>1. Chunk(i, e) = << [op |-> "br", to |-> t] >> /\ Size(i, e) = 1
    BY <1>2 DEF PcRel, Loads, Conditional, relocate_one
  <2> QED
    BY <1>2, <2>1, OneWord DEF PcRel, Loads, Conditional
<1>3. CASE i.kind = "b"
  <2>1. Chunk(i, e) = AbsBranch(t) /\ Size(i, e) = 4
    BY <1>3 DEF PcRel, Loads, Conditional, relocate_one
  <2> QED
    BY <1>3, <2>1, AbsBranchWords DEF PcRel, Loads, Conditional
<1>4. CASE i.kind = "bl"
  <2> DEFINE x == [op |-> "adr", r |-> "x30", imm |-> 5]
  <2>1. Chunk(i, e) = <<x>> \o AbsBranch(t) /\ Size(i, e) = 5
    BY <1>4 DEF PcRel, Loads, Conditional, relocate_one, AbsCall
  <2> HIDE DEF Chunk, Size, Far, x
  <2>2. BranchAfter(<<x>> \o AbsBranch(t), x, t)
    BY BeforeAbsBranch
  <2>3. BranchAfter(Chunk(i, e), x, t)
    BY <2>1, <2>2, Zenon
  <2> QED
    BY <1>4, <2>1, <2>3 DEF PcRel, Loads, Conditional, x, BranchAfter
<1>5. CASE i.kind \in Conditional
  <2> DEFINE x == [op |-> "test", kind |-> i.kind, inverted |-> Inverts(i.kind), imm |-> 5]
  <2>1. Chunk(i, e) = <<x>> \o AbsBranch(t) /\ Size(i, e) = 5
    BY <1>5 DEF PcRel, Loads, Conditional, relocate_one, RewriteCondBranch, Skip
  <2> HIDE DEF Chunk, Size, Far, x
  <2>2. BranchAfter(<<x>> \o AbsBranch(t), x, t)
    BY BeforeAbsBranch
  <2>3. BranchAfter(Chunk(i, e), x, t)
    BY <2>1, <2>2, Zenon
  <2> QED
    BY <1>5, <2>1, <2>3 DEF PcRel, Loads, Conditional, x, BranchAfter
<1>6. CASE i.kind \in {"adr", "adrp"}
  <2>1. Chunk(i, e) = PcRelAddr(a, t)
    BY <1>6 DEF PcRel, Loads, Conditional, relocate_one
  <2>2. CASE Fits(t - a, AdrReach)
    <3>1. Chunk(i, e) = << [op |-> "adr", r |-> "rd", imm |-> t - a] >> /\ Size(i, e) = 1 /\ ~ Far(i, e)
      BY <1>6, <2>1, <2>2 DEF PcRel, Loads, Conditional, PcRelAddr
    <3> QED
      BY <1>6, <3>1, OneWord DEF PcRel, Loads, Conditional
  <2>3. CASE ~ Fits(t - a, AdrReach)
    <3>1. /\ Chunk(i, e) = << [op |-> "adrp", r |-> "rd",
                               imm |-> Field(PageOf(t) - PageOf(a), AdrpReach)],
                              [op |-> "add", r |-> "rd", imm |-> t % PageSize] >>
          /\ Size(i, e) = 2 /\ Far(i, e)
      BY <1>6, <2>1, <2>3 DEF PcRel, Loads, Conditional, PcRelAddr
    <3> HIDE DEF Far, Size, Chunk
    <3>2. Spans(Chunk(i, e), 2)
      BY <3>1 DEF Spans
    <3> QED
      BY <1>6, <3>1, <3>2 DEF PcRel, Loads, Conditional
  <2> QED
    BY <2>2, <2>3
<1>7. CASE i.kind \in Loads
  <2>1. Chunk(i, e) = PcRelLoad(i.kind, a, t)
    BY <1>7 DEF PcRel, Loads, Conditional, relocate_one
  <2>2. CASE Fits(t - a, AdrReach)
    <3>1. /\ Chunk(i, e) = << [op |-> "ldrlit", r |-> r, how |-> how, imm |-> t - a] >>
          /\ Size(i, e) = 1 /\ ~ Far(i, e)
      BY <1>7, <2>1, <2>2 DEF PcRel, Loads, Conditional, PcRelLoad
    <3> QED
      BY <1>7, <3>1, OneWord DEF PcRel, Loads, Conditional
  <2>3. CASE ~ Fits(t - a, AdrReach)
    <3>1. /\ Chunk(i, e) = << [op |-> "ldrlit", r |-> "x17", how |-> "addr", imm |-> 2],
                              [op |-> "b", imm |-> 3],
                              [op |-> "lit", v |-> t], [op |-> "lit", v |-> t],
                              [op |-> "ldrx17", r |-> r, how |-> how] >>
          /\ Size(i, e) = 5 /\ Far(i, e)
      BY <1>7, <2>1, <2>3 DEF PcRel, Loads, Conditional, PcRelLoad
    <3> HIDE DEF Far, Size, Chunk
    <3>2. Spans(Chunk(i, e), 5)
      BY <3>1 DEF Spans
    <3> QED
      BY <1>7, <3>1, <3>2 DEF PcRel, Loads, Conditional
  <2> QED
    BY <2>2, <2>3
<1> QED
  BY <1>0, <1>1, <1>2, <1>3, <1>4, <1>5, <1>6, <1>7 DEF Kinds, Loads, Conditional

LEMMA SizeType ==
  ASSUME NEW i \in Insns, NEW e
  PROVE  Size(i, e) \in 1 .. 5
BY DEF Size

\* The trampoline: instructions before, the chunk, those after, the way back.
LayoutOk(c, i, e) ==
  LET p == i.place
      s == Size(i, e)
  IN
  /\ Spans(c, s + 7) /\ Len(c) = s + 7
  /\ \A n \in 1 .. p - 1 : c[n] = [op |-> "plain", n |-> n]
  /\ \A j \in 1 .. s : c[p - 1 + j] = Chunk(i, e)[j]
  /\ \A n \in p + 1 .. 4 : c[s + n - 1] = [op |-> "plain", n |-> n]
  /\ \A j \in 1 .. 4 : c[s + 3 + j] = AbsBranch(Resume)[j]

LEMMA Layout ==
  ASSUME NEW i \in Insns, NEW e \in Nat
  PROVE  LayoutOk(build_trampoline(i, e), i, e)
<1> DEFINE p == i.place
           s == Size(i, e)
           before == Copied(1, p - 1)
           after == Copied(p + 1, 4)
           c == Chunk(i, e)
           back == AbsBranch(Resume)
<1>0. p \in 1 .. 4 /\ s \in 1 .. 5
  BY InsnTypes, SizeType
<1>1. Spans(before, p - 1) /\ \A n \in 1 .. p - 1 : before[n] = [op |-> "plain", n |-> n]
  <2>1. (p - 1) - 1 + 1 = p - 1 /\ \A k \in 1 .. p - 1 : 1 + k - 1 = k
    BY <1>0
  <2>2. before = [k \in 1 .. p - 1 |-> [op |-> "plain", n |-> 1 + k - 1]]
    BY <2>1 DEF Copied
  <2> QED
    BY <2>1, <2>2 DEF Spans
<1>2. Spans(after, 4 - p) /\ \A k \in 1 .. 4 - p : after[k] = [op |-> "plain", n |-> p + k]
  <2>1. 4 - (p + 1) + 1 = 4 - p /\ \A k \in 1 .. 4 - p : (p + 1) + k - 1 = p + k
    BY <1>0
  <2>2. after = [k \in 1 .. 4 - p |-> [op |-> "plain", n |-> (p + 1) + k - 1]]
    BY <2>1 DEF Copied
  <2> QED
    BY <2>1, <2>2 DEF Spans
<1>3. Spans(c, s)
  BY ChunkWords DEF ChunkOk
<1>4. Spans(back, 4)
  BY AbsBranchWords
<1> HIDE DEF before, after, c, back, s
<1>5. Len(before) = p - 1
  BY <1>0, <1>1, SpansLen
<1>6. build_trampoline(i, e) = before \o c \o after \o back
  <2>1. EmitPc(e, before) = At(i, e)
    BY <1>5 DEF EmitPc, At
  <2> QED
    BY <2>1 DEF build_trampoline, ResumeAddr, MinPatchInsns, before, c, after, back, Chunk
<1> DEFINE u == before \o c
           v == u \o after
           w == v \o back
<1>7. Joins(u, before, p - 1, c, s)
  BY <1>0, <1>1, <1>3, Joined
<1> HIDE DEF u
<1>8. Joins(v, u, (p - 1) + s, after, 4 - p)
  <2>1. Spans(u, (p - 1) + s)
    BY <1>7 DEF Joins
  <2> QED
    BY <1>0, <1>2, <2>1, Joined
<1> HIDE DEF v
<1>9. Joins(w, v, s + 3, back, 4)
  <2>1. Spans(v, ((p - 1) + s) + (4 - p)) /\ ((p - 1) + s) + (4 - p) = s + 3
    BY <1>0, <1>8 DEF Joins
  <2>2. Spans(v, s + 3)
    BY <2>1
  <2> QED
    BY <1>0, <1>4, <2>2, Joined
<1>10. build_trampoline(i, e) = w
  BY <1>6 DEF u, v
<1> HIDE DEF w
<1>11. Spans(w, s + 7) /\ Len(w) = s + 7
  <2>1. (s + 3) + 4 = s + 7 /\ s + 7 \in Nat
    BY <1>0
  <2>2. Spans(w, (s + 3) + 4)
    BY <1>9 DEF Joins
  <2>3. Spans(w, s + 7)
    BY <2>1, <2>2
  <2> QED
    BY <2>1, <2>3, SpansLen
<1>12. \A n \in 1 .. p - 1 : w[n] = [op |-> "plain", n |-> n]
  <2> SUFFICES ASSUME NEW n \in 1 .. p - 1 PROVE w[n] = [op |-> "plain", n |-> n]
    OBVIOUS
  <2>1. n \in 1 .. (p - 1) + s /\ n \in 1 .. s + 3
    BY <1>0
  <2>2. w[n] = v[n] /\ v[n] = u[n] /\ u[n] = before[n]
    BY <1>7, <1>8, <1>9, <2>1 DEF Joins
  <2> QED
    BY <1>1, <2>2
<1>13. \A j \in 1 .. s : w[p - 1 + j] = c[j]
  <2> SUFFICES ASSUME NEW j \in 1 .. s PROVE w[p - 1 + j] = c[j]
    OBVIOUS
  <2> DEFINE k == p - 1 + j
  <2>1. k \in (p - 1) + 1 .. (p - 1) + s /\ k \in 1 .. (p - 1) + s /\ k \in 1 .. s + 3 /\ k - (p - 1) = j
    BY <1>0
  <2> HIDE DEF k
  <2>2. w[k] = v[k] /\ v[k] = u[k] /\ u[k] = c[k - (p - 1)]
    BY <1>7, <1>8, <1>9, <2>1 DEF Joins
  <2> QED
    BY <2>1, <2>2 DEF k
<1>14. \A n \in p + 1 .. 4 : w[s + n - 1] = [op |-> "plain", n |-> n]
  <2> SUFFICES ASSUME NEW n \in p + 1 .. 4 PROVE w[s + n - 1] = [op |-> "plain", n |-> n]
    OBVIOUS
  <2> DEFINE k == s + n - 1
  <2>1. /\ n - p \in 1 .. 4 - p /\ k \in 1 .. s + 3 /\ k - ((p - 1) + s) = n - p
        /\ k \in ((p - 1) + s) + 1 .. ((p - 1) + s) + (4 - p) /\ p + (n - p) = n
    BY <1>0
  <2> HIDE DEF k
  <2>2. w[k] = v[k] /\ v[k] = after[k - ((p - 1) + s)]
    BY <1>8, <1>9, <2>1 DEF Joins
  <2>3. after[n - p] = [op |-> "plain", n |-> p + (n - p)]
    BY <1>2, <2>1
  <2> QED
    BY <2>1, <2>2, <2>3 DEF k
<1>15. \A j \in 1 .. 4 : w[s + 3 + j] = back[j]
  <2> SUFFICES ASSUME NEW j \in 1 .. 4 PROVE w[s + 3 + j] = back[j]
    OBVIOUS
  <2> DEFINE k == s + 3 + j
  <2>1. k \in (s + 3) + 1 .. (s + 3) + 4 /\ k - (s + 3) = j
    BY <1>0
  <2> HIDE DEF k
  <2>2. w[k] = back[k - (s + 3)]
    BY <1>9, <2>1 DEF Joins
  <2> QED
    BY <2>1, <2>2 DEF k
<1> QED
  BY <1>10, <1>11, <1>12, <1>13, <1>14, <1>15 DEF LayoutOk, c, s, back

-----------------------------------------------------------------------------
(* The invariant *)

\* What has run when the first n instructions are done.
RanOf(i, n) ==
  IF i.kind = "plain" \/ n < i.place THEN [m \in 1 .. n |-> m]
  ELSE [m \in 1 .. n - 1 |-> IF m < i.place THEN m ELSE m + 1]
Place == insn.place
Here == At(insn, base)
Words == Size(insn, base)

Static ==
  /\ insn \in Insns /\ base \in Scratches /\ insn.ref \notin Page(base)
  /\ holds \in BOOLEAN /\ returned \in BOOLEAN
  /\ code = build_trampoline(insn, base)
  /\ regs = [r \in Regs |-> regs[r]]

\* Registers that are as they were, X30 of a call and X17 aside.
Clean == \A r \in Regs \ {"x17"} : (r = "x30" /\ insn.kind = "bl") \/ regs[r] = NoValue
\* Registers that are as the originals leave them, where relocation keeps that.
Right == \A r \in Regs \ {"x17"} :
  \/ r = "x30" /\ insn.kind = "bl"
  \/ NarrowLoad \/ FarPage
  \/ regs[r] = OriginalRegs[r]
\* The instruction that is not plain is done, and falls through.
Passed ==
  /\ insn.kind = "bl" => returned
  /\ insn.kind \notin {"b", "br"}
  /\ insn.kind \in Conditional /\ insn.kind # "bal" => ~ holds
Started == ~ returned /\ Clean /\ ran = RanOf(insn, Place - 1)

Before == \E n \in 0 .. Place - 1 : pc = base + n /\ ran = RanOf(insn, n) /\ ~ returned /\ Clean
\* In front of, and in, the absolute branch of the chunk.
Branches ==
  /\ insn.kind \in {"bl"} \cup Conditional /\ pc = Here + 1 /\ Started
  /\ insn.kind \in Conditional => insn.kind # "bal" /\ holds
  /\ insn.kind = "bl" => regs["x30"] = AddrOf(Here + 5)
Jumps ==
  /\ insn.kind \in {"b", "bl"} \cup Conditional /\ pc = Here + Words - 3 /\ Started
  /\ insn.kind \in Conditional => insn.kind # "bal" /\ holds
  /\ insn.kind = "bl" => regs["x30"] = AddrOf(Here + 5)
  /\ regs["x17"] = AddrOf(insn.ref)
Pages ==
  /\ insn.kind \in {"adr", "adrp"} /\ Far(insn, base) /\ pc = Here + 1
  /\ ~ returned /\ ran = RanOf(insn, Place - 1)
  /\ regs["rd"] = AddrOf((PageOf(Here) + Field(PageOf(insn.ref) - PageOf(Here), AdrpReach)) * PageSize)
  /\ \A r \in Regs \ {"x17", "rd"} : regs[r] = NoValue
LoadsFar ==
  /\ insn.kind \in Loads /\ Far(insn, base) /\ pc \in {Here + 1, Here + 4} /\ Started
  /\ regs["x17"] = AddrOf(insn.ref)
After ==
  \E n \in Place .. 4 :
    pc = base + Words + n - 1 /\ ran = RanOf(insn, n) /\ Right /\ Passed
GoesBack ==
  /\ pc = base + Words + 4 /\ ran = RanOf(insn, 4) /\ Right /\ Passed
  /\ regs["x17"] = AddrOf(Resume)
Resumed == pc = Resume /\ ran = RanOf(insn, 4) /\ Right /\ Passed
Gone == Leaves /\ insn.kind # "bal" /\ pc = insn.ref /\ ran = RanOf(insn, Place - 1) /\ Clean
Called ==
  /\ insn.kind = "bl" /\ pc = insn.ref /\ Started /\ regs["x30"] = AddrOf(Here + 5)

Flow == \/ Before \/ Branches \/ Jumps \/ Pages \/ LoadsFar
        \/ After \/ GoesBack \/ Resumed \/ Gone \/ Called
TrampolineInv == Static /\ Flow

-----------------------------------------------------------------------------
(* What has run *)

LEMMA RunsOn ==
  ASSUME NEW i \in Insns, NEW n \in 1 .. 4, i.kind = "plain" \/ n # i.place
  PROVE  Append(RanOf(i, n - 1), n) = RanOf(i, n)
<1>0. i.place \in 1 .. 4
  BY InsnTypes
<1> DEFINE l == IF i.kind = "plain" \/ n < i.place THEN n - 1 ELSE n - 2
           f == RanOf(i, n - 1)
<1>1. f \in [1 .. l -> Nat] /\ l \in Nat
  BY <1>0 DEF RanOf
<1>2. f \in Seq(Nat)
  BY <1>1, SeqDef
<1>3. Len(f) = l
  <2>1. DOMAIN f = 1 .. l
    BY <1>1
  <2> QED
    BY <1>1, <1>2, <2>1, LenProperties
<1> HIDE DEF f
<1>4. /\ Append(f, n) \in Seq(Nat) /\ Len(Append(f, n)) = l + 1
      /\ \A k \in 1 .. l : Append(f, n)[k] = f[k]
      /\ Append(f, n)[l + 1] = n
  BY <1>2, <1>3, AppendProperties
<1> DEFINE g == Append(f, n)
<1>5. g \in [1 .. l + 1 -> Nat]
  BY <1>4, LenProperties
<1> HIDE DEF g
<1>6. \A k \in 1 .. l + 1 : g[k] = RanOf(i, n)[k]
  <2> SUFFICES ASSUME NEW k \in 1 .. l + 1 PROVE g[k] = RanOf(i, n)[k]
    OBVIOUS
  <2>1. CASE k = l + 1
    BY <1>0, <1>4, <2>1 DEF RanOf, g
  <2>2. CASE k \in 1 .. l
    <3>1. g[k] = RanOf(i, n - 1)[k]
      BY <1>4, <2>2 DEF f, g
    <3> QED
      BY <1>0, <2>2, <3>1 DEF RanOf
  <2> QED
    BY <1>1, <2>1, <2>2
<1>7. RanOf(i, n) \in [1 .. l + 1 -> Nat]
  BY <1>0 DEF RanOf
<1> QED
  BY <1>5, <1>6, <1>7 DEF f, g

LEMMA RunsPast ==
  ASSUME NEW i \in Insns, i.kind # "plain"
  PROVE  RanOf(i, i.place) = RanOf(i, i.place - 1)
<1>0. i.place \in 1 .. 4
  BY InsnTypes
<1> QED
  BY <1>0 DEF RanOf

-----------------------------------------------------------------------------
(* What is where *)

LEMMA StaticFacts ==
  ASSUME Static
  PROVE  /\ base \in Nat /\ Place \in 1 .. 4 /\ Words \in 1 .. 5 /\ insn.ref \in Nat
         /\ insn.kind \in Kinds /\ Here = base + Place - 1 /\ Resume \in Nat
         /\ insn.ref \notin base .. base + 15 /\ Resume \notin base .. base + 15
         /\ LayoutOk(code, insn, base) /\ ChunkOk(insn, base)
<1>1. base \in Nat /\ Target \in Nat /\ Resume \in Nat
  BY RelocAssumption DEF Static, Resume, MinPatchInsns
<1>2. Resume \in Target .. Resume
  BY <1>1 DEF Resume, MinPatchInsns
<1>3. Resume \notin Page(base)
  BY <1>2, ScratchAssumption DEF Static
<1>4. insn \in Insns
  BY DEF Static
<1>5. Place \in 1 .. 4 /\ insn.ref \in 0 .. Top /\ insn.kind \in Kinds
  BY <1>4, InsnTypes DEF Place
<1>6. Words \in 1 .. 5
  BY <1>4, SizeType DEF Words
<1>7. LayoutOk(code, insn, base) /\ ChunkOk(insn, base)
  BY <1>1, <1>4, Layout, ChunkWords DEF Static
<1> QED
  BY <1>1, <1>3, <1>5, <1>6, <1>7, RelocAssumption DEF Static, Here, At, Page, Place

LEMMA InsideFacts ==
  ASSUME Static
  PROVE  Inside <=> pc \in base .. base + Words + 6
<1>1. Len(code) = Words + 7 /\ base \in Nat /\ Words \in 1 .. 5
  BY StaticFacts DEF LayoutOk, Words
<1> QED
  BY <1>1 DEF Inside

LEMMA WordFacts ==
  ASSUME Static
  PROVE  /\ \A n \in 0 .. Place - 2 : WordAt(base + n) = [op |-> "plain", n |-> n + 1]
         /\ \A j \in 0 .. Words - 1 : WordAt(Here + j) = Chunk(insn, base)[j + 1]
         /\ \A n \in Place .. 3 : WordAt(base + Words + n - 1) = [op |-> "plain", n |-> n + 1]
         /\ \A j \in 0 .. 3 : WordAt(base + Words + 3 + j) = AbsBranch(Resume)[j + 1]
<1> DEFINE p == Place
           s == Words
<1>0. /\ base \in Nat /\ p \in 1 .. 4 /\ s \in 1 .. 5 /\ Here = base + p - 1
      /\ \A n \in 1 .. p - 1 : code[n] = [op |-> "plain", n |-> n]
      /\ \A j \in 1 .. s : code[p - 1 + j] = Chunk(insn, base)[j]
      /\ \A n \in p + 1 .. 4 : code[s + n - 1] = [op |-> "plain", n |-> n]
      /\ \A j \in 1 .. 4 : code[s + 3 + j] = AbsBranch(Resume)[j]
  BY StaticFacts DEF LayoutOk, Words, Place
<1> HIDE DEF p, s
<1>1. ASSUME NEW n \in 0 .. p - 2 PROVE WordAt(base + n) = [op |-> "plain", n |-> n + 1]
  <2>1. n + 1 \in 1 .. p - 1 /\ (base + n) - base + 1 = n + 1
    BY <1>0
  <2> QED
    BY <1>0, <2>1 DEF WordAt
<1>2. ASSUME NEW j \in 0 .. s - 1 PROVE WordAt(Here + j) = Chunk(insn, base)[j + 1]
  <2>1. j + 1 \in 1 .. s /\ (Here + j) - base + 1 = p - 1 + (j + 1)
    BY <1>0
  <2> QED
    BY <1>0, <2>1 DEF WordAt
<1>3. ASSUME NEW n \in p .. 3 PROVE WordAt(base + s + n - 1) = [op |-> "plain", n |-> n + 1]
  <2>1. n + 1 \in p + 1 .. 4 /\ (base + s + n - 1) - base + 1 = s + (n + 1) - 1
    BY <1>0
  <2> QED
    BY <1>0, <2>1 DEF WordAt
<1>4. ASSUME NEW j \in 0 .. 3 PROVE WordAt(base + s + 3 + j) = AbsBranch(Resume)[j + 1]
  <2>1. j + 1 \in 1 .. 4 /\ (base + s + 3 + j) - base + 1 = s + 3 + (j + 1)
    BY <1>0
  <2> QED
    BY <1>0, <2>1 DEF WordAt
<1> QED
  BY <1>1, <1>2, <1>3, <1>4 DEF p, s

-----------------------------------------------------------------------------
(* What the processor does with a word *)

LEMMA DoesPlain ==
  ASSUME Execute, NEW n, WordAt(pc) = [op |-> "plain", n |-> n]
  PROVE  pc' = pc + 1 /\ ran' = Append(ran, n) /\ regs' = regs
BY DEF Execute, Word, WordAt, Advance

LEMMA DoesAdr ==
  ASSUME Execute, NEW r, NEW x, WordAt(pc) = [op |-> "adr", r |-> r, imm |-> x]
  PROVE  pc' = pc + 1 /\ ran' = ran /\ regs' = [regs EXCEPT ![r] = AddrOf(pc + x)]
BY DEF Execute, Word, WordAt, Advance, Write

LEMMA DoesAdrp ==
  ASSUME Execute, NEW r, NEW x, WordAt(pc) = [op |-> "adrp", r |-> r, imm |-> x]
  PROVE  /\ pc' = pc + 1 /\ ran' = ran
         /\ regs' = [regs EXCEPT ![r] = AddrOf((PageOf(pc) + x) * PageSize)]
BY DEF Execute, Word, WordAt, Advance, Write

LEMMA DoesAdd ==
  ASSUME Execute, NEW r, NEW x, WordAt(pc) = [op |-> "add", r |-> r, imm |-> x]
  PROVE  pc' = pc + 1 /\ ran' = ran /\ regs' = [regs EXCEPT ![r] = AddrOf(regs[r].at + x)]
BY DEF Execute, Word, WordAt, Advance, Write

LEMMA DoesLoad ==
  ASSUME Execute, NEW r, NEW how, NEW x,
         WordAt(pc) = [op |-> "ldrlit", r |-> r, how |-> how, imm |-> x]
  PROVE  /\ pc' = pc + 1 /\ ran' = ran
         /\ regs' = [regs EXCEPT ![r] = IF how = "addr" THEN AddrOf(WordAt(pc + x).v)
                                        ELSE Loaded(how, pc + x)]
BY DEF Execute, Word, WordAt, Advance, Write, LiteralAt

LEMMA DoesLoadX17 ==
  ASSUME Execute, NEW r, NEW how, WordAt(pc) = [op |-> "ldrx17", r |-> r, how |-> how]
  PROVE  /\ pc' = pc + 1 /\ ran' = ran
         /\ regs' = [regs EXCEPT ![r] = Loaded(how, regs["x17"].at)]
BY DEF Execute, Word, WordAt, Advance, Write

LEMMA DoesBr17 ==
  ASSUME Execute, WordAt(pc) = [op |-> "br17"]
  PROVE  pc' = regs["x17"].at /\ ran' = ran /\ regs' = regs
BY DEF Execute, Word, WordAt

LEMMA DoesBr ==
  ASSUME Execute, NEW t, WordAt(pc) = [op |-> "br", to |-> t]
  PROVE  pc' = t /\ ran' = ran /\ regs' = regs
BY DEF Execute, Word, WordAt

LEMMA DoesB ==
  ASSUME Execute, NEW x, WordAt(pc) = [op |-> "b", imm |-> x]
  PROVE  pc' = pc + x /\ ran' = ran /\ regs' = regs
BY DEF Execute, Word, WordAt

LEMMA DoesTest ==
  ASSUME Execute, NEW k, NEW v, NEW x,
         WordAt(pc) = [op |-> "test", kind |-> k, inverted |-> v, imm |-> x]
  PROVE  /\ pc' = pc + (IF k = "bal" \/ holds # v THEN x ELSE 1)
         /\ ran' = ran /\ regs' = regs
BY DEF Execute, Word, WordAt, Taken

-----------------------------------------------------------------------------
(* What stays *)

LEMMA StaticKept == Static /\ (Execute \/ CalleeReturns) => Static'
<1> SUFFICES ASSUME Static, Execute \/ CalleeReturns PROVE Static'
  OBVIOUS
<1>1. UNCHANGED <<insn, holds, base, code>> /\ returned' \in BOOLEAN
  BY DEF Execute, CalleeReturns, Static
<1>2. regs' = [r \in Regs |-> regs'[r]]
  <2>1. CASE CalleeReturns
    BY <2>1 DEF CalleeReturns, Static
  <2>2. CASE Execute
    <3>1. regs' = regs \/ \E r, v : regs' = [regs EXCEPT ![r] = v]
      BY <2>2 DEF Execute, Write
    <3>2. DOMAIN regs = Regs
      BY DEF Static
    <3> QED
      BY <3>1, <3>2 DEF Static
  <2> QED
    BY <2>1, <2>2
<1>3. build_trampoline(insn, base)' = build_trampoline(insn, base)
  BY <1>1
<1> QED
  BY <1>1, <1>2, <1>3 DEF Static, Page

LEMMA SameParts ==
  ASSUME UNCHANGED <<insn, base, holds>>
  PROVE  /\ Here' = Here /\ Words' = Words /\ Place' = Place
         /\ \A n : RanOf(insn, n)' = RanOf(insn, n)
         /\ Far(insn, base)' = Far(insn, base)
         /\ OriginalRegs' = OriginalRegs /\ Leaves' = Leaves
         /\ FarPage' = FarPage /\ NarrowLoad' = NarrowLoad
<1>1. Here' = Here /\ Words' = Words /\ Place' = Place
  BY DEF Here, Words, Place
<1>2. \A n : RanOf(insn, n)' = RanOf(insn, n)
  BY DEF RanOf
<1>3. Far(insn, base)' = Far(insn, base)
  BY DEF Far
<1>4. OriginalRegs' = OriginalRegs
  BY DEF OriginalRegs
<1>5. Leaves' = Leaves
  BY DEF Leaves
<1>6. FarPage' = FarPage /\ NarrowLoad' = NarrowLoad
  BY DEF FarPage, NarrowLoad
<1> QED
  BY <1>1, <1>2, <1>3, <1>4, <1>5, <1>6

LEMMA Frame ==
  ASSUME Execute
  PROVE  UNCHANGED <<insn, base, holds, code, returned>>
BY DEF Execute

\* The kinds that leave the registers alone.
LEMMA CleanIsRight ==
  ASSUME Static, Clean, insn.kind \notin PcRel
  PROVE  Right
<1> SUFFICES ASSUME NEW r \in Regs \ {"x17"}, ~ (r = "x30" /\ insn.kind = "bl")
             PROVE  regs[r] = OriginalRegs[r]
  BY DEF Right
<1>1. regs[r] = NoValue
  BY DEF Clean
<1>2. OriginalRegs[r] = NoValue
  BY DEF OriginalRegs, PcRel, Loads
<1> QED
  BY <1>1, <1>2

-----------------------------------------------------------------------------
(* The steps *)

\* A plain instruction before the chunk.
LEMMA BeforeSteps ==
  ASSUME Static, Execute, NEW n \in 0 .. Place - 2,
         pc = base + n, ran = RanOf(insn, n), ~ returned, Clean
  PROVE  Before'
<1>0. /\ base \in Nat /\ Place \in 1 .. 4 /\ insn \in Insns
      /\ WordAt(pc) = [op |-> "plain", n |-> n + 1]
  BY StaticFacts, WordFacts DEF Static
<1>1. pc' = pc + 1 /\ ran' = Append(ran, n + 1) /\ regs' = regs
  BY <1>0, DoesPlain
<1>2. UNCHANGED <<insn, base, holds, returned>>
  BY Frame
<1>3. Append(RanOf(insn, n), n + 1) = RanOf(insn, n + 1)
  <2>1. n + 1 \in 1 .. 4 /\ n + 1 # insn.place /\ (n + 1) - 1 = n
    BY <1>0 DEF Place
  <2> QED
    BY <1>0, <2>1, RunsOn
<1>4. ran' = RanOf(insn, n + 1)'
  BY <1>1, <1>2, <1>3, SameParts
<1>5. n + 1 \in 0 .. Place' - 1 /\ pc' = base' + (n + 1)
  BY <1>0, <1>1, <1>2, SameParts
<1>6. Clean' /\ ~ returned'
  BY <1>1, <1>2 DEF Clean
<1> QED
  BY <1>4, <1>5, <1>6, <1>2, SameParts DEF Before

\* The chunk is done: the instruction after it is next.
LEMMA ChunkDone ==
  ASSUME Static, UNCHANGED <<insn, base, holds>>, pc' = Here + Words, insn.kind # "plain",
         ran' = RanOf(insn, Place - 1), Right', Passed'
  PROVE  After'
<1>0. /\ base \in Nat /\ Place \in 1 .. 4 /\ Words \in 1 .. 5 /\ Here = base + Place - 1
      /\ insn \in Insns
  BY StaticFacts DEF Static
<1>1. ran' = RanOf(insn, Place)'
  <2>1. RanOf(insn, Place) = RanOf(insn, Place - 1)
    BY <1>0, RunsPast DEF Place
  <2> QED
    BY <2>1, SameParts
<1>2. Place \in Place' .. 4 /\ pc' = base' + Words' + Place - 1 /\ Place' = Place
  BY <1>0, SameParts
<1>3. ran' = RanOf(insn', Place)
  BY <1>1, <1>2
<1> QED
  BY <1>2, <1>3 DEF After

\* The words of the chunk.
LEMMA ChunkAt ==
  ASSUME Static
  PROVE  \A j \in 0 .. Words - 1 : WordAt(Here + j) = Chunk(insn, base)[j + 1]
BY WordFacts

LEMMA StartPlain ==
  ASSUME Static, Execute, pc = Here, Started, insn.kind = "plain"
  PROVE  After'
<1>0. /\ base \in Nat /\ Place \in 1 .. 4 /\ Here = base + Place - 1
      /\ insn \in Insns
  BY StaticFacts DEF Static
<1>1. Words = 1
  BY DEF Words, Size, Far, PcRel, Loads, Conditional
<1>2. WordAt(pc) = [op |-> "plain", n |-> Place]
  <2>1. Chunk(insn, base)[1] = [op |-> "plain", n |-> Place]
    BY StaticFacts DEF ChunkOk, Place
  <2>2. WordAt(Here + 0) = Chunk(insn, base)[0 + 1] /\ Here + 0 = Here
    BY <1>0, <1>1, ChunkAt
  <2> QED
    BY <2>1, <2>2
<1>3. pc' = pc + 1 /\ ran' = Append(ran, Place) /\ regs' = regs
  BY <1>2, DoesPlain
<1>4. UNCHANGED <<insn, base, holds, returned>>
  BY Frame
<1>5. ran' = RanOf(insn, Place)
  BY <1>0, <1>3, RunsOn DEF Started, Place
<1>6. Right'
  <2>1. Right
    BY CleanIsRight DEF Started, PcRel, Loads
  <2> QED
    BY <1>3, <1>4, <2>1, SameParts DEF Right
<1>7. Passed'
  BY <1>4 DEF Passed, Conditional
<1>8. Place \in Place' .. 4 /\ pc' = base' + Words' + Place - 1 /\ ran' = RanOf(insn', Place)
  BY <1>0, <1>1, <1>3, <1>4, <1>5, SameParts
<1> QED
  BY <1>6, <1>7, <1>8 DEF After

LEMMA StartBr ==
  ASSUME Static, Execute, pc = Here, Started, insn.kind = "br"
  PROVE  Gone'
<1>0. base \in Nat /\ Place \in 1 .. 4 /\ Here = base + Place - 1
  BY StaticFacts
<1>1. Words = 1
  BY DEF Words, Size, Far, PcRel, Loads, Conditional
<1>2. WordAt(pc) = [op |-> "br", to |-> insn.ref]
  <2>1. Chunk(insn, base)[1] = [op |-> "br", to |-> insn.ref]
    BY StaticFacts DEF ChunkOk
  <2>2. WordAt(Here + 0) = Chunk(insn, base)[0 + 1] /\ Here + 0 = Here
    BY <1>0, <1>1, ChunkAt
  <2> QED
    BY <2>1, <2>2
<1>3. pc' = insn.ref /\ ran' = ran /\ regs' = regs
  BY <1>2, DoesBr
<1>4. UNCHANGED <<insn, base, holds, returned>>
  BY Frame
<1>5. ran' = RanOf(insn', Place' - 1)
  BY <1>3, <1>4, SameParts DEF Started
<1> QED
  BY <1>3, <1>4, <1>5 DEF Gone, Started, Leaves, Clean

LEMMA StartB ==
  ASSUME Static, Execute, pc = Here, Started, insn.kind = "b"
  PROVE  Jumps'
<1>0. base \in Nat /\ Place \in 1 .. 4 /\ Here = base + Place - 1
  BY StaticFacts
<1>1. Words = 4
  BY DEF Words, Size
<1>2. /\ WordAt(Here + 0) = AbsBranch(insn.ref)[1] /\ WordAt(Here + 2) = AbsBranch(insn.ref)[3]
      /\ Here + 0 = Here
  <2>1. \A j \in 1 .. 4 : Chunk(insn, base)[j] = AbsBranch(insn.ref)[j]
    BY StaticFacts DEF ChunkOk
  <2>2. WordAt(Here + 0) = Chunk(insn, base)[0 + 1] /\ Here + 0 = Here
    BY <1>0, <1>1, ChunkAt
  <2>3. WordAt(Here + 2) = Chunk(insn, base)[2 + 1]
    BY <1>1, ChunkAt
  <2>4. Chunk(insn, base)[0 + 1] = AbsBranch(insn.ref)[1]
    BY <2>1
  <2>5. Chunk(insn, base)[2 + 1] = AbsBranch(insn.ref)[3]
    BY <2>1
  <2> QED
    BY <2>2, <2>3, <2>4, <2>5
<1>3. /\ WordAt(pc) = [op |-> "ldrlit", r |-> "x17", how |-> "addr", imm |-> 2]
      /\ WordAt(pc + 2) = [op |-> "lit", v |-> insn.ref]
  <2>1. /\ AbsBranch(insn.ref)[1] = [op |-> "ldrlit", r |-> "x17", how |-> "addr", imm |-> 2]
        /\ AbsBranch(insn.ref)[3] = [op |-> "lit", v |-> insn.ref]
    BY AbsBranchWords
  <2> QED
    BY <1>2, <2>1
<1>4. pc' = pc + 1 /\ ran' = ran /\ regs' = [regs EXCEPT !["x17"] = AddrOf(insn.ref)]
  BY <1>3, DoesLoad
<1>5. UNCHANGED <<insn, base, holds, returned>>
  BY Frame
<1>6. regs'["x17"] = AddrOf(insn.ref) /\ \A r \in Regs \ {"x17"} : regs'[r] = regs[r]
  BY <1>4 DEF Static, Regs
<1>7. Started'
  BY <1>4, <1>5, <1>6, SameParts DEF Started, Clean
<1>8. pc' = Here' + Words' - 3
  BY <1>0, <1>1, <1>4, <1>5, SameParts
<1> QED
  BY <1>5, <1>6, <1>7, <1>8 DEF Jumps, Conditional

LEMMA StartBl ==
  ASSUME Static, Execute, pc = Here, Started, insn.kind = "bl"
  PROVE  Branches'
<1>0. base \in Nat /\ Place \in 1 .. 4 /\ Here = base + Place - 1
  BY StaticFacts
<1>1. Words = 5
  BY DEF Words, Size
<1>2. WordAt(pc) = [op |-> "adr", r |-> "x30", imm |-> 5]
  <2>1. Chunk(insn, base)[1] = [op |-> "adr", r |-> "x30", imm |-> 5]
    BY StaticFacts DEF ChunkOk
  <2>2. WordAt(Here + 0) = Chunk(insn, base)[0 + 1] /\ Here + 0 = Here
    BY <1>0, <1>1, ChunkAt
  <2> QED
    BY <2>1, <2>2
<1>3. pc' = pc + 1 /\ ran' = ran /\ regs' = [regs EXCEPT !["x30"] = AddrOf(pc + 5)]
  BY <1>2, DoesAdr
<1>4. UNCHANGED <<insn, base, holds, returned>>
  BY Frame
<1>5. regs'["x30"] = AddrOf(Here + 5) /\ \A r \in Regs \ {"x30"} : regs'[r] = regs[r]
  BY <1>3 DEF Static, Regs
<1>6. Started'
  BY <1>3, <1>4, <1>5, SameParts DEF Started, Clean
<1> QED
  BY <1>3, <1>4, <1>5, <1>6, SameParts DEF Branches, Conditional

LEMMA StartTest ==
  ASSUME Static, Execute, pc = Here, Started, insn.kind \in Conditional
  PROVE  Branches' \/ After'
<1>0. base \in Nat /\ Place \in 1 .. 4 /\ Here = base + Place - 1
  BY StaticFacts
<1>1. Words = 5
  BY DEF Words, Size, Conditional
<1>2. WordAt(pc) = [op |-> "test", kind |-> insn.kind, inverted |-> Inverts(insn.kind), imm |-> 5]
  <2>1. Chunk(insn, base)[1] =
          [op |-> "test", kind |-> insn.kind, inverted |-> Inverts(insn.kind), imm |-> 5]
    BY StaticFacts DEF ChunkOk
  <2>2. WordAt(Here + 0) = Chunk(insn, base)[0 + 1] /\ Here + 0 = Here
    BY <1>0, <1>1, ChunkAt
  <2> QED
    BY <2>1, <2>2
<1>3. /\ pc' = pc + (IF insn.kind = "bal" \/ holds # Inverts(insn.kind) THEN 5 ELSE 1)
      /\ ran' = ran /\ regs' = regs
  BY <1>2, DoesTest
<1>4. UNCHANGED <<insn, base, holds, returned>>
  BY Frame
<1>5. Started'
  BY <1>3, <1>4, SameParts DEF Started, Clean
<1>6. CASE insn.kind = "bal" \/ ~ holds
  <2>1. pc' = Here + Words
    BY <1>1, <1>3, <1>6 DEF Inverts, Static
  <2>2. Right'
    <3>1. Right
      BY CleanIsRight DEF Started, PcRel, Loads, Conditional
    <3> QED
      BY <1>3, <1>4, <3>1, SameParts DEF Right
  <2>3. Passed'
    BY <1>4, <1>6 DEF Passed, Conditional
  <2> QED
    BY <1>3, <1>4, <2>1, <2>2, <2>3, ChunkDone DEF Started, Conditional
<1>7. CASE insn.kind # "bal" /\ holds
  <2>1. pc' = Here' + 1
    BY <1>3, <1>4, <1>7, SameParts DEF Inverts, Static
  <2> QED
    BY <1>4, <1>5, <1>7, <2>1 DEF Branches, Conditional
<1> QED
  BY <1>6, <1>7

LEMMA StartAddr ==
  ASSUME Static, Execute, pc = Here, Started, insn.kind \in {"adr", "adrp"}
  PROVE  After' \/ Pages'
<1>0. /\ base \in Nat /\ Place \in 1 .. 4 /\ Here = base + Place - 1 /\ Words \in 1 .. 5
      /\ insn.ref \in Nat
  BY StaticFacts
<1>1. WordAt(pc) = Chunk(insn, base)[1]
  <2>1. WordAt(Here + 0) = Chunk(insn, base)[0 + 1] /\ Here + 0 = Here
    BY <1>0, ChunkAt
  <2> QED
    BY <2>1
<1>2. UNCHANGED <<insn, base, holds, returned>>
  BY Frame
<1>3. CASE ~ Far(insn, base)
  <2>1. Words = 1
    BY <1>3 DEF Words, Size, Conditional
  <2>2. WordAt(pc) = [op |-> "adr", r |-> "rd", imm |-> insn.ref - Here]
    BY <1>1, <1>3, StaticFacts DEF ChunkOk, Here
  <2>3. /\ pc' = pc + 1 /\ ran' = ran
        /\ regs' = [regs EXCEPT !["rd"] = AddrOf(pc + (insn.ref - Here))]
    BY <2>2, DoesAdr
  <2>4. pc + (insn.ref - Here) = insn.ref
    BY <1>0
  <2>5. regs'["rd"] = AddrOf(insn.ref) /\ \A r \in Regs \ {"rd"} : regs'[r] = regs[r]
    BY <2>3, <2>4 DEF Static, Regs
  <2>6. Right'
    <3>1. ASSUME NEW r \in Regs \ {"x17"} PROVE regs'[r] = OriginalRegs[r]
      <4>1. CASE r = "rd"
        BY <2>5, <4>1 DEF OriginalRegs
      <4>2. CASE r # "rd"
        BY <2>5, <4>2, <3>1 DEF OriginalRegs, Started, Clean
      <4> QED
        BY <4>1, <4>2
    <3> QED
      BY <1>2, <3>1, SameParts DEF Right
  <2>7. Passed'
    BY <1>2 DEF Passed, Conditional
  <2> QED
    BY <1>2, <2>1, <2>3, <2>6, <2>7, ChunkDone DEF Started
<1>4. CASE Far(insn, base)
  <2> DEFINE x == Field(PageOf(insn.ref) - PageOf(Here), AdrpReach)
  <2>1. WordAt(pc) = [op |-> "adrp", r |-> "rd", imm |-> x]
    BY <1>1, <1>4, StaticFacts DEF ChunkOk, Here
  <2>2. /\ pc' = pc + 1 /\ ran' = ran
        /\ regs' = [regs EXCEPT !["rd"] = AddrOf((PageOf(pc) + x) * PageSize)]
    BY <2>1, DoesAdrp
  <2> HIDE DEF x
  <2>3. /\ regs'["rd"] = AddrOf((PageOf(Here) + x) * PageSize)
        /\ \A r \in Regs \ {"rd"} : regs'[r] = regs[r]
    BY <2>2 DEF Static, Regs
  <2>4. \A r \in Regs \ {"x17", "rd"} : regs'[r] = NoValue
    BY <2>3 DEF Started, Clean
  <2>5. pc' = Here' + 1 /\ ran' = RanOf(insn', Place' - 1) /\ ~ returned' /\ Far(insn', base')
    BY <1>2, <1>4, <2>2, SameParts DEF Started
  <2>6. regs'["rd"] = AddrOf((PageOf(Here') + Field(PageOf(insn'.ref) - PageOf(Here'), AdrpReach)) * PageSize)
    BY <1>2, <2>3, SameParts DEF x
  <2> QED
    BY <1>2, <2>4, <2>5, <2>6 DEF Pages
<1> QED
  BY <1>3, <1>4

\* A literal reaches the register the original loads, unless it is narrow.
LEMMA LoadIsRight ==
  ASSUME Static, insn.kind \in Loads, UNCHANGED <<insn, base, holds>>, Clean,
         regs' = [regs EXCEPT ![LoadReg(insn.kind)] = Loaded(LoadHow(insn.kind), insn.ref)]
  PROVE  Right'
<1>1. CASE NarrowLoad
  BY <1>1, SameParts DEF Right
<1>2. CASE ~ NarrowLoad
  <2>1. LoadReg(insn.kind) = "rd" /\ insn.kind \in {"ldr64", "ldr32"}
    BY <1>2 DEF NarrowLoad, LoadReg, Loads
  <2>2. /\ regs'["rd"] = Loaded(LoadHow(insn.kind), insn.ref)
        /\ \A r \in Regs \ {"rd"} : regs'[r] = regs[r]
    BY <2>1 DEF Static, Regs
  <2>3. ASSUME NEW r \in Regs \ {"x17"} PROVE regs'[r] = OriginalRegs[r]
    <3>1. CASE r = "rd"
      BY <2>1, <2>2, <3>1 DEF OriginalRegs, LoadHow
    <3>2. CASE r # "rd"
      BY <2>1, <2>2, <3>2, <2>3 DEF OriginalRegs, Clean
    <3> QED
      BY <3>1, <3>2
  <2> QED
    BY <2>3, SameParts DEF Right
<1> QED
  BY <1>1, <1>2

LEMMA StartLoad ==
  ASSUME Static, Execute, pc = Here, Started, insn.kind \in Loads
  PROVE  After' \/ LoadsFar'
<1>0. /\ base \in Nat /\ Place \in 1 .. 4 /\ Here = base + Place - 1 /\ Words \in 1 .. 5
      /\ insn.ref \in Nat
  BY StaticFacts
<1>1. WordAt(pc) = Chunk(insn, base)[1]
  <2>1. WordAt(Here + 0) = Chunk(insn, base)[0 + 1] /\ Here + 0 = Here
    BY <1>0, ChunkAt
  <2> QED
    BY <2>1
<1>2. UNCHANGED <<insn, base, holds, returned>>
  BY Frame
<1>3. CASE ~ Far(insn, base)
  <2> DEFINE how == LoadHow(insn.kind)
             d == LoadReg(insn.kind)
  <2>1. Words = 1
    BY <1>3 DEF Words, Size, Conditional, Loads
  <2>2. WordAt(pc) = [op |-> "ldrlit", r |-> d, how |-> how, imm |-> insn.ref - Here]
    BY <1>1, <1>3, StaticFacts DEF ChunkOk, Here
  <2>3. how # "addr"
    BY DEF LoadHow
  <2> HIDE DEF how, d
  <2>4. /\ pc' = pc + 1 /\ ran' = ran
        /\ regs' = [regs EXCEPT ![d] = Loaded(how, pc + (insn.ref - Here))]
    BY <2>2, <2>3, DoesLoad
  <2>5. pc + (insn.ref - Here) = insn.ref
    BY <1>0
  <2>6. Right'
    BY <1>2, <2>4, <2>5, LoadIsRight DEF Started, how, d
  <2>7. Passed'
    BY <1>2 DEF Passed, Conditional, Loads
  <2> QED
    BY <1>2, <2>1, <2>4, <2>6, <2>7, ChunkDone DEF Started, Loads
<1>4. CASE Far(insn, base)
  <2>1. Words = 5
    BY <1>4 DEF Words, Size, Conditional, Loads
  <2>2. WordAt(pc) = [op |-> "ldrlit", r |-> "x17", how |-> "addr", imm |-> 2]
    BY <1>1, <1>4, StaticFacts DEF ChunkOk
  <2>3. WordAt(pc + 2) = [op |-> "lit", v |-> insn.ref]
    <3>1. WordAt(Here + 2) = Chunk(insn, base)[2 + 1]
      BY <2>1, ChunkAt
    <3> QED
      BY <1>4, <3>1, StaticFacts DEF ChunkOk
  <2>4. pc' = pc + 1 /\ ran' = ran /\ regs' = [regs EXCEPT !["x17"] = AddrOf(insn.ref)]
    BY <2>2, <2>3, DoesLoad
  <2>5. regs'["x17"] = AddrOf(insn.ref) /\ \A r \in Regs \ {"x17"} : regs'[r] = regs[r]
    BY <2>4 DEF Static, Regs
  <2>6. Started'
    BY <1>2, <2>4, <2>5, SameParts DEF Started, Clean
  <2> QED
    BY <1>2, <1>4, <2>4, <2>5, <2>6, SameParts DEF LoadsFar
<1> QED
  BY <1>3, <1>4

\* The two words of an absolute branch of the chunk that are executed.
LEMMA BranchWords ==
  ASSUME Static, insn.kind \in {"b", "bl"} \cup Conditional
  PROVE  /\ insn.kind # "b" =>
              /\ WordAt(Here + 1) = [op |-> "ldrlit", r |-> "x17", how |-> "addr", imm |-> 2]
              /\ WordAt((Here + 1) + 2) = [op |-> "lit", v |-> insn.ref]
         /\ WordAt(Here + Words - 3) = [op |-> "br17"]
         /\ Words = IF insn.kind = "b" THEN 4 ELSE 5
<1>0. Here \in Nat
  BY StaticFacts
<1>1. /\ AbsBranch(insn.ref)[1] = [op |-> "ldrlit", r |-> "x17", how |-> "addr", imm |-> 2]
      /\ AbsBranch(insn.ref)[2] = [op |-> "br17"]
      /\ AbsBranch(insn.ref)[3] = [op |-> "lit", v |-> insn.ref]
  BY AbsBranchWords
<1>2. Words = IF insn.kind = "b" THEN 4 ELSE 5
  BY DEF Words, Size, Conditional
<1>3. CASE insn.kind = "b"
  <2>1. Chunk(insn, base)[2] = AbsBranch(insn.ref)[2]
    BY <1>3, StaticFacts DEF ChunkOk
  <2>2. WordAt(Here + 1) = Chunk(insn, base)[1 + 1]
    BY <1>2, <1>3, ChunkAt
  <2>3. Here + Words - 3 = Here + 1
    BY <1>0, <1>2, <1>3
  <2> QED
    BY <1>1, <1>2, <1>3, <2>1, <2>2, <2>3
<1>4. CASE insn.kind # "b"
  <2>1. \A j \in 1 .. 4 : Chunk(insn, base)[1 + j] = AbsBranch(insn.ref)[j]
    BY <1>4, StaticFacts DEF ChunkOk
  <2>2. WordAt(Here + 1) = Chunk(insn, base)[1 + 1]
    BY <1>2, <1>4, ChunkAt
  <2>3. WordAt(Here + 2) = Chunk(insn, base)[2 + 1]
    BY <1>2, <1>4, ChunkAt
  <2>4. WordAt(Here + 3) = Chunk(insn, base)[3 + 1]
    BY <1>2, <1>4, ChunkAt
  <2>5. Here + Words - 3 = Here + 2 /\ (Here + 1) + 2 = Here + 3
    BY <1>0, <1>2, <1>4
  <2>6. Chunk(insn, base)[1 + 1] = AbsBranch(insn.ref)[1]
    BY <2>1
  <2>7. Chunk(insn, base)[2 + 1] = AbsBranch(insn.ref)[2]
    BY <2>1
  <2>8. Chunk(insn, base)[3 + 1] = AbsBranch(insn.ref)[3]
    BY <2>1
  <2> QED
    BY <1>1, <1>2, <1>4, <2>2, <2>3, <2>4, <2>5, <2>6, <2>7, <2>8
<1> QED
  BY <1>3, <1>4

LEMMA BranchesStep ==
  ASSUME Static, Execute, Branches
  PROVE  Jumps'
<1>0. Here \in Nat /\ pc = Here + 1
  BY StaticFacts DEF Branches
<1>1. insn.kind \in {"bl"} \cup Conditional /\ insn.kind # "b"
  BY DEF Branches, Conditional
<1>2. /\ WordAt(pc) = [op |-> "ldrlit", r |-> "x17", how |-> "addr", imm |-> 2]
      /\ WordAt(pc + 2) = [op |-> "lit", v |-> insn.ref] /\ Words = 5
  BY <1>0, <1>1, BranchWords
<1>3. pc' = pc + 1 /\ ran' = ran /\ regs' = [regs EXCEPT !["x17"] = AddrOf(insn.ref)]
  BY <1>2, DoesLoad
<1>4. UNCHANGED <<insn, base, holds, returned>>
  BY Frame
<1>5. regs'["x17"] = AddrOf(insn.ref) /\ \A r \in Regs \ {"x17"} : regs'[r] = regs[r]
  BY <1>3 DEF Static, Regs
<1>6. Started'
  BY <1>3, <1>4, <1>5, SameParts DEF Started, Clean, Branches
<1>7. pc' = Here' + Words' - 3
  BY <1>0, <1>2, <1>3, <1>4, SameParts
<1>8. insn.kind = "bl" => regs'["x30"] = AddrOf(Here' + 5)
  BY <1>4, <1>5, SameParts DEF Branches, Regs
<1> QED
  BY <1>1, <1>4, <1>5, <1>6, <1>7, <1>8 DEF Branches, Jumps

LEMMA JumpsStep ==
  ASSUME Static, Execute, Jumps
  PROVE  Gone' \/ Called'
<1>1. WordAt(pc) = [op |-> "br17"]
  BY BranchWords DEF Jumps
<1>2. pc' = insn.ref /\ ran' = ran /\ regs' = regs
  BY <1>1, DoesBr17 DEF Jumps, AddrOf
<1>3. UNCHANGED <<insn, base, holds, returned>>
  BY Frame
<1>4. Started'
  BY <1>2, <1>3, SameParts DEF Started, Clean, Jumps
<1>5. CASE insn.kind = "bl"
  BY <1>2, <1>3, <1>4, <1>5, SameParts DEF Jumps, Called
<1>6. CASE insn.kind # "bl"
  <2>1. Leaves' /\ insn.kind # "bal"
    BY <1>3, <1>6 DEF Jumps, Leaves, Conditional
  <2> QED
    BY <1>2, <1>3, <1>4, <2>1 DEF Gone, Started
<1> QED
  BY <1>5, <1>6

LEMMA PagesWord ==
  ASSUME Static, Pages
  PROVE  WordAt(pc) = [op |-> "add", r |-> "rd", imm |-> insn.ref % PageSize] /\ Words = 2
<1>1. Words = 2
  BY DEF Pages, Words, Size, Conditional, Loads
<1>2. WordAt(Here + 1) = Chunk(insn, base)[1 + 1]
  BY <1>1, ChunkAt
<1> QED
  BY <1>1, <1>2, StaticFacts DEF Pages, ChunkOk

LEMMA PagesStep ==
  ASSUME Static, Execute, Pages
  PROVE  After'
<1> DEFINE x == Field(PageOf(insn.ref) - PageOf(Here), AdrpReach)
           a == (PageOf(Here) + x) * PageSize
<1>0. Here \in Nat /\ insn.ref \in Nat /\ pc = Here + 1 /\ Here = base + insn.place - 1
  BY StaticFacts DEF Pages, Place
<1>1. WordAt(pc) = [op |-> "add", r |-> "rd", imm |-> insn.ref % PageSize] /\ Words = 2
  BY PagesWord
<1>2. /\ pc' = pc + 1 /\ ran' = ran
      /\ regs' = [regs EXCEPT !["rd"] = AddrOf(regs["rd"].at + (insn.ref % PageSize))]
  BY <1>1, DoesAdd
<1>3. UNCHANGED <<insn, base, holds, returned>>
  BY Frame
<1>4. regs["rd"].at = a
  BY DEF Pages, AddrOf
<1> HIDE DEF a
<1>5. /\ regs'["rd"] = AddrOf(a + (insn.ref % PageSize))
      /\ \A r \in Regs \ {"rd"} : regs'[r] = regs[r]
  BY <1>2, <1>4 DEF Static, Regs
<1>7. Right'
  <2>1. CASE FarPage
    BY <1>3, <2>1, SameParts DEF Right
  <2>2. CASE ~ FarPage
    <3>1. Fits(PageOf(insn.ref) - PageOf(Here), AdrpReach)
      BY <1>0, <2>2 DEF FarPage, Pages
    <3>2. PageOf(insn.ref) \in Nat /\ PageOf(Here) \in Nat
      BY <1>0, PageAddress
    <3>3. x = PageOf(insn.ref) - PageOf(Here)
      BY <3>1, <3>2, FieldKeeps, RelocAssumption
    <3>4. a + (insn.ref % PageSize) = insn.ref
      BY <1>0, <3>3, PageSum DEF a
    <3>5. ASSUME NEW r \in Regs \ {"x17"} PROVE regs'[r] = OriginalRegs[r]
      <4>1. CASE r = "rd"
        BY <1>5, <3>4, <4>1 DEF OriginalRegs, Pages
      <4>2. CASE r # "rd"
        BY <1>5, <4>2, <3>5 DEF OriginalRegs, Pages
      <4> QED
        BY <4>1, <4>2
    <3> QED
      BY <3>5, <1>3, SameParts DEF Right
  <2> QED
    BY <2>1, <2>2
<1>8. Passed'
  BY <1>3 DEF Passed, Pages, Conditional
<1> QED
  BY <1>0, <1>1, <1>2, <1>3, <1>7, <1>8, ChunkDone DEF Pages

LEMMA LoadsFarWord ==
  ASSUME Static, LoadsFar
  PROVE  /\ Words = 5
         /\ pc = Here + 1 => WordAt(pc) = [op |-> "b", imm |-> 3]
         /\ pc = Here + 4 =>
              WordAt(pc) = [op |-> "ldrx17", r |-> LoadReg(insn.kind), how |-> LoadHow(insn.kind)]
<1>1. Words = 5
  BY DEF LoadsFar, Words, Size, Conditional, Loads
<1>2. WordAt(Here + 1) = Chunk(insn, base)[1 + 1]
  BY <1>1, ChunkAt
<1>3. WordAt(Here + 4) = Chunk(insn, base)[4 + 1]
  BY <1>1, ChunkAt
<1> QED
  BY <1>1, <1>2, <1>3, StaticFacts DEF LoadsFar, ChunkOk

LEMMA LoadsFarStep ==
  ASSUME Static, Execute, LoadsFar
  PROVE  After' \/ LoadsFar'
<1>0. Here \in Nat /\ Words = 5
  BY StaticFacts, LoadsFarWord
<1>1. UNCHANGED <<insn, base, holds, returned>>
  BY Frame
<1>2. CASE pc = Here + 1
  <2>1. pc' = pc + 3 /\ ran' = ran /\ regs' = regs
    BY <1>2, LoadsFarWord, DoesB
  <2>2. Started'
    BY <1>1, <2>1, SameParts DEF Started, Clean, LoadsFar
  <2>3. pc' = Here' + 4
    BY <1>0, <1>1, <1>2, <2>1, SameParts
  <2> QED
    BY <1>1, <2>1, <2>2, <2>3, SameParts DEF LoadsFar
<1>3. CASE pc = Here + 4
  <2> DEFINE d == LoadReg(insn.kind)
             how == LoadHow(insn.kind)
  <2>1. WordAt(pc) = [op |-> "ldrx17", r |-> d, how |-> how]
    BY <1>3, LoadsFarWord
  <2> HIDE DEF d, how
  <2>2. pc' = pc + 1 /\ ran' = ran /\ regs' = [regs EXCEPT ![d] = Loaded(how, regs["x17"].at)]
    BY <2>1, DoesLoadX17
  <2>3. regs["x17"].at = insn.ref
    BY DEF LoadsFar, AddrOf
  <2>4. Right'
    BY <1>1, <2>2, <2>3, LoadIsRight DEF LoadsFar, Started, d, how
  <2>5. Passed'
    BY <1>1 DEF Passed, LoadsFar, Loads, Conditional
  <2>6. pc' = Here + Words
    BY <1>0, <1>3, <2>2
  <2> QED
    BY <1>1, <2>2, <2>4, <2>5, <2>6, ChunkDone DEF LoadsFar, Started, Loads
<1> QED
  BY <1>2, <1>3 DEF LoadsFar

LEMMA AfterWord ==
  ASSUME Static, NEW n \in Place .. 4, pc = base + Words + n - 1
  PROVE  IF n < 4 THEN WordAt(pc) = [op |-> "plain", n |-> n + 1]
         ELSE /\ WordAt(pc) = [op |-> "ldrlit", r |-> "x17", how |-> "addr", imm |-> 2]
              /\ WordAt(pc + 2) = [op |-> "lit", v |-> Resume]
<1>0. base \in Nat /\ Place \in 1 .. 4 /\ Words \in 1 .. 5
  BY StaticFacts
<1>1. CASE n < 4
  BY <1>0, <1>1, WordFacts
<1>2. CASE n = 4
  <2>1. WordAt(base + Words + 3 + 0) = AbsBranch(Resume)[0 + 1]
    BY WordFacts
  <2>2. WordAt(base + Words + 3 + 2) = AbsBranch(Resume)[2 + 1]
    BY WordFacts
  <2>3. pc = base + Words + 3 + 0 /\ pc + 2 = base + Words + 3 + 2
    BY <1>0, <1>2
  <2> QED
    BY <1>2, <2>1, <2>2, <2>3, AbsBranchWords
<1> QED
  BY <1>0, <1>1, <1>2

LEMMA AfterStep ==
  ASSUME Static, Execute, After
  PROVE  After' \/ GoesBack'
<1>0. base \in Nat /\ Place \in 1 .. 4 /\ Words \in 1 .. 5 /\ insn \in Insns
  BY StaticFacts DEF Static
<1>1. PICK n \in Place .. 4 : pc = base + Words + n - 1 /\ ran = RanOf(insn, n) /\ Right /\ Passed
  BY DEF After
<1>2. UNCHANGED <<insn, base, holds, returned>>
  BY Frame
<1>3. CASE n < 4
  <2>0. WordAt(pc) = [op |-> "plain", n |-> n + 1]
    BY <1>1, <1>3, AfterWord
  <2>1. pc' = pc + 1 /\ ran' = Append(ran, n + 1) /\ regs' = regs
    BY <2>0, DoesPlain
  <2>2. Append(RanOf(insn, n), n + 1) = RanOf(insn, n + 1)
    <3>1. n + 1 \in 1 .. 4 /\ n + 1 # insn.place /\ (n + 1) - 1 = n
      BY <1>0, <1>3 DEF Place
    <3> QED
      BY <1>0, <3>1, RunsOn
  <2>3. n + 1 \in Place' .. 4 /\ pc' = base' + Words' + (n + 1) - 1 /\ ran' = RanOf(insn', n + 1)
    BY <1>0, <1>1, <1>2, <1>3, <2>1, <2>2, SameParts
  <2>4. Right' /\ Passed'
    BY <1>1, <1>2, <2>1, SameParts DEF Right, Passed
  <2> QED
    BY <2>3, <2>4 DEF After
<1>4. CASE n = 4
  <2>1. /\ WordAt(pc) = [op |-> "ldrlit", r |-> "x17", how |-> "addr", imm |-> 2]
        /\ WordAt(pc + 2) = [op |-> "lit", v |-> Resume]
    <3>1. pc = base + Words + 4 - 1 /\ 4 \in Place .. 4
      BY <1>0, <1>1, <1>4
    <3>2. ~ (4 < 4)
      OBVIOUS
    <3> QED
      BY <3>1, <3>2, AfterWord, Zenon
  <2>2. pc' = pc + 1 /\ ran' = ran /\ regs' = [regs EXCEPT !["x17"] = AddrOf(Resume)]
    BY <2>1, DoesLoad
  <2>3. regs'["x17"] = AddrOf(Resume) /\ \A r \in Regs \ {"x17"} : regs'[r] = regs[r]
    BY <2>2 DEF Static, Regs
  <2>4. Right' /\ Passed'
    BY <1>1, <1>2, <2>3, SameParts DEF Right, Passed
  <2>5. pc' = base' + Words' + 4 /\ ran' = RanOf(insn', 4)
    BY <1>0, <1>1, <1>2, <1>4, <2>2, SameParts
  <2> QED
    BY <2>3, <2>4, <2>5 DEF GoesBack
<1> QED
  BY <1>0, <1>3, <1>4

LEMMA GoesBackWord ==
  ASSUME Static, GoesBack
  PROVE  WordAt(pc) = [op |-> "br17"]
<1>0. base \in Nat /\ Words \in 1 .. 5
  BY StaticFacts
<1>1. WordAt(base + Words + 3 + 1) = AbsBranch(Resume)[1 + 1]
  BY WordFacts
<1>2. pc = base + Words + 3 + 1
  BY <1>0 DEF GoesBack
<1>3. 1 + 1 = 2
  OBVIOUS
<1>4. AbsBranch(Resume)[1 + 1] = [op |-> "br17"]
  BY <1>3, AbsBranchWords, Zenon
<1> QED
  BY <1>1, <1>2, <1>4, Zenon

LEMMA GoesBackStep ==
  ASSUME Static, Execute, GoesBack
  PROVE  Resumed'
<1>1. pc' = Resume /\ ran' = ran /\ regs' = regs
  BY GoesBackWord, DoesBr17 DEF GoesBack, AddrOf
<1>2. UNCHANGED <<insn, base, holds, returned>>
  BY Frame
<1> QED
  BY <1>1, <1>2, SameParts DEF GoesBack, Resumed, Right, Passed

-----------------------------------------------------------------------------
(* In the trampoline and out of it *)

LEMMA InsideStages ==
  ASSUME Static, Before \/ Branches \/ Jumps \/ Pages \/ LoadsFar \/ After \/ GoesBack
  PROVE  Inside
<1>0. base \in Nat /\ Place \in 1 .. 4 /\ Words \in 1 .. 5 /\ Here = base + Place - 1
  BY StaticFacts
<1>1. SUFFICES pc \in base .. base + Words + 6
  BY InsideFacts
<1>2. CASE Before
  BY <1>0, <1>2 DEF Before
<1>3. CASE Branches
  BY <1>0, <1>3 DEF Branches
<1>4. CASE Jumps
  <2>1. Words \in {4, 5} /\ pc = Here + Words - 3
    BY <1>4, BranchWords DEF Jumps
  <2> QED
    BY <1>0, <2>1
<1>5. CASE Pages
  BY <1>0, <1>5 DEF Pages
<1>6. CASE LoadsFar
  BY <1>0, <1>6 DEF LoadsFar
<1>7. CASE After
  BY <1>0, <1>7 DEF After
<1>8. CASE GoesBack
  BY <1>0, <1>8 DEF GoesBack
<1> QED
  BY <1>2, <1>3, <1>4, <1>5, <1>6, <1>7, <1>8

LEMMA OutsideStages ==
  ASSUME Static, Resumed \/ Gone \/ Called
  PROVE  ~ Inside
<1>0. /\ base \in Nat /\ Words \in 1 .. 5 /\ Resume \in Nat /\ insn.ref \in Nat
      /\ insn.ref \notin base .. base + 15 /\ Resume \notin base .. base + 15
  BY StaticFacts
<1>1. pc = Resume \/ pc = insn.ref
  BY DEF Resumed, Gone, Called
<1>2. pc \notin base .. base + Words + 6
  BY <1>0, <1>1
<1> QED
  BY <1>2, InsideFacts

-----------------------------------------------------------------------------
(* The invariant holds *)

\* The first word of the chunk.
LEMMA HereStep ==
  ASSUME Static, Execute, pc = Here, Started
  PROVE  Flow'
<1>1. CASE insn.kind = "plain"
  BY <1>1, StartPlain DEF Flow
<1>2. CASE insn.kind = "br"
  BY <1>2, StartBr DEF Flow
<1>3. CASE insn.kind = "b"
  BY <1>3, StartB DEF Flow
<1>4. CASE insn.kind = "bl"
  BY <1>4, StartBl DEF Flow
<1>5. CASE insn.kind \in Conditional
  BY <1>5, StartTest DEF Flow
<1>6. CASE insn.kind \in {"adr", "adrp"}
  BY <1>6, StartAddr DEF Flow
<1>7. CASE insn.kind \in Loads
  BY <1>7, StartLoad DEF Flow
<1>8. insn.kind \in Kinds
  BY StaticFacts
<1> QED
  BY <1>1, <1>2, <1>3, <1>4, <1>5, <1>6, <1>7, <1>8 DEF Kinds, Conditional, Loads

LEMMA ExecuteFlow ==
  ASSUME Static, Flow, Execute
  PROVE  Flow'
<1>0. base \in Nat /\ Place \in 1 .. 4 /\ Here = base + Place - 1
  BY StaticFacts
<1>1. Inside
  BY DEF Execute
<1>2. CASE Before
  <2>1. PICK n \in 0 .. Place - 1 : pc = base + n /\ ran = RanOf(insn, n) /\ ~ returned /\ Clean
    BY <1>2 DEF Before
  <2>2. CASE n < Place - 1
    <3>1. n \in 0 .. Place - 2
      BY <1>0, <2>2
    <3>2. Before'
      BY <2>1, <3>1, BeforeSteps
    <3> QED
      BY <3>2 DEF Flow
  <2>3. CASE n = Place - 1
    <3>1. pc = Here /\ Started
      BY <1>0, <2>1, <2>3 DEF Started
    <3> QED
      BY <3>1, HereStep
  <2> QED
    BY <1>0, <2>2, <2>3
<1>3. CASE Branches
  BY <1>3, BranchesStep DEF Flow
<1>4. CASE Jumps
  BY <1>4, JumpsStep DEF Flow
<1>5. CASE Pages
  BY <1>5, PagesStep DEF Flow
<1>6. CASE LoadsFar
  BY <1>6, LoadsFarStep DEF Flow
<1>7. CASE After
  BY <1>7, AfterStep DEF Flow
<1>8. CASE GoesBack
  BY <1>8, GoesBackStep DEF Flow
<1>9. CASE Resumed \/ Gone \/ Called
  BY <1>1, <1>9, OutsideStages
<1> QED
  BY <1>2, <1>3, <1>4, <1>5, <1>6, <1>7, <1>8, <1>9 DEF Flow

\* X30 is the address after the absolute call.
LEMMA CalleeReturnsFlow ==
  ASSUME Static, Flow, CalleeReturns
  PROVE  Flow'
<1>1. insn.kind = "bl" /\ ~ Inside /\ ~ returned
  BY DEF CalleeReturns
<1>2. Called
  <2>1. Resumed \/ Gone \/ Called
    BY <1>1, InsideStages DEF Flow
  <2>2. ~ Resumed
    BY <1>1 DEF Resumed, Passed
  <2>3. ~ Gone
    BY <1>1 DEF Gone, Leaves, Conditional
  <2> QED
    BY <2>1, <2>2, <2>3
<1>3. UNCHANGED <<insn, base, holds, regs, ran>> /\ returned' /\ pc' = regs["x30"].at
  BY DEF CalleeReturns
<1>4. pc' = Here + Words
  <2>1. Words = 5
    BY <1>1, BranchWords
  <2>2. pc' = Here + 5
    BY <1>2, <1>3 DEF Called, AddrOf
  <2> QED
    BY <2>1, <2>2
<1>5. Right'
  <2>1. Right
    BY <1>1, <1>2, CleanIsRight DEF Called, Started, PcRel, Loads
  <2> QED
    BY <1>3, <2>1, SameParts DEF Right
<1>6. Passed'
  BY <1>1, <1>3 DEF Passed, Conditional
<1>7. After'
  BY <1>1, <1>2, <1>3, <1>4, <1>5, <1>6, ChunkDone DEF Called, Started
<1> QED
  BY <1>7 DEF Flow

LEMMA InitFlow == Init => TrampolineInv
<1> SUFFICES ASSUME Init PROVE TrampolineInv
  OBVIOUS
<1>1. Static
  BY DEF Init, Static
<1>2. base \in Nat /\ Place \in 1 .. 4
  BY <1>1, StaticFacts
<1>3. ran = RanOf(insn, 0)
  <2>1. RanOf(insn, 0) = [m \in 1 .. 0 |-> m]
    BY <1>2 DEF RanOf, Place
  <2>2. [m \in 1 .. 0 |-> m] = << >>
    OBVIOUS
  <2> QED
    BY <2>1, <2>2 DEF Init
<1>4. pc = base + 0 /\ 0 \in 0 .. Place - 1 /\ ~ returned
  BY <1>2 DEF Init
<1>5. Clean
  BY DEF Init, Clean
<1>6. Before
  BY <1>3, <1>4, <1>5 DEF Before
<1> QED
  BY <1>1, <1>6 DEF TrampolineInv, Flow

LEMMA StandsStill == TrampolineInv /\ UNCHANGED vars => TrampolineInv'
<1> SUFFICES ASSUME TrampolineInv, UNCHANGED vars PROVE TrampolineInv'
  OBVIOUS
<1> USE DEF TrampolineInv, vars
<1>1. Static'
  BY DEF Static, Page
<1>2. Clean' = Clean
  BY DEF Clean
<1>3. Started' = Started
  BY <1>2, SameParts DEF Started
<1>4. Right' = Right
  BY SameParts DEF Right
<1>5. Passed' = Passed
  BY DEF Passed
<1>6. CASE Before
  <2>1. PICK n \in 0 .. Place - 1 : pc = base + n /\ ran = RanOf(insn, n) /\ ~ returned /\ Clean
    BY <1>6 DEF Before
  <2>2. n \in 0 .. Place' - 1 /\ pc' = base' + n /\ ran' = RanOf(insn', n) /\ ~ returned'
    BY <2>1, SameParts
  <2>3. Before'
    BY <1>2, <2>1, <2>2 DEF Before
  <2> QED
    BY <1>1, <2>3 DEF Flow
<1>7. CASE Branches
  BY <1>1, <1>3, <1>7, SameParts DEF Branches, Flow
<1>8. CASE Jumps
  BY <1>1, <1>3, <1>8, SameParts DEF Jumps, Flow
<1>9. CASE Pages
  BY <1>1, <1>9, SameParts DEF Pages, Flow
<1>10. CASE LoadsFar
  BY <1>1, <1>3, <1>10, SameParts DEF LoadsFar, Flow
<1>11. CASE After
  BY <1>1, <1>4, <1>5, <1>11, SameParts DEF After, Flow
<1>12. CASE GoesBack
  BY <1>1, <1>4, <1>5, <1>12, SameParts DEF GoesBack, Flow
<1>13. CASE Resumed
  BY <1>1, <1>4, <1>5, <1>13, SameParts DEF Resumed, Flow
<1>14. CASE Gone
  BY <1>1, <1>2, <1>14, SameParts DEF Gone, Flow
<1>15. CASE Called
  BY <1>1, <1>3, <1>15, SameParts DEF Called, Flow
<1> QED
  BY <1>1, <1>6, <1>7, <1>8, <1>9, <1>10, <1>11, <1>12, <1>13, <1>14, <1>15 DEF Flow

LEMMA NextFlow == TrampolineInv /\ [Next]_vars => TrampolineInv'
<1> SUFFICES ASSUME TrampolineInv, [Next]_vars PROVE TrampolineInv'
  OBVIOUS
<1>1. CASE UNCHANGED vars
  BY <1>1, StandsStill
<1>2. CASE Execute
  BY <1>2, StaticKept, ExecuteFlow DEF TrampolineInv
<1>3. CASE CalleeReturns
  BY <1>3, StaticKept, CalleeReturnsFlow DEF TrampolineInv
<1> QED
  BY <1>1, <1>2, <1>3 DEF Next

\* Wherever the processor is between two instructions, the registers and what has
\* run are those of that place of the trampoline, whatever the displaced
\* instruction, the two addresses and how far immediates reach.
THEOREM TrampolineInvariance == Spec => []TrampolineInv
<1>1. Init => TrampolineInv
  BY InitFlow
<1>2. TrampolineInv /\ [Next]_vars => TrampolineInv'
  BY NextFlow
<1> QED
  BY <1>1, <1>2, PTL DEF Spec

-----------------------------------------------------------------------------
(* What it implies *)

LEMMA EffectOf == TrampolineInv => SameEffect
<1> SUFFICES ASSUME TrampolineInv, Done, ~ NarrowLoad, ~ AlwaysBranch, ~ FarPage PROVE Same
  BY DEF SameEffect
<1>0. Static /\ Place \in 1 .. 4
  BY StaticFacts DEF TrampolineInv
<1>1. ~ Called /\ (Resumed \/ Gone \/ Called)
  <2>1. ~ Called
    BY DEF Done, Called, Started
  <2> QED
    BY <1>0, <2>1, InsideStages DEF TrampolineInv, Flow, Done
<1>2. CASE Resumed
  <2>1. ~ Leaves
    BY <1>2 DEF Resumed, Passed, Leaves, AlwaysBranch
  <2>2. pc = OriginalPc
    BY <1>2, <2>1 DEF OriginalPc, Resumed
  <2>3. RanOf(insn, 4) = OriginalRan
    BY <1>0, <2>1 DEF RanOf, OriginalRan, MinPatchInsns, Place
  <2> QED
    BY <1>2, <2>2, <2>3 DEF Same, Resumed, Right
<1>3. CASE Gone
  <2>1. pc = OriginalPc
    BY <1>3 DEF OriginalPc, Gone
  <2>2. RanOf(insn, Place - 1) = OriginalRan
    BY <1>0, <1>3 DEF RanOf, OriginalRan, Gone, Place
  <2>3. Right
    BY <1>0, <1>3, CleanIsRight DEF Gone, Leaves, PcRel, Loads, Conditional
  <2> QED
    BY <1>3, <2>1, <2>2, <2>3 DEF Same, Gone, Right
<1> QED
  BY <1>1, <1>2, <1>3

\* Words the processor executes.
Executed == {"plain", "adr", "adrp", "add", "ldrlit", "ldrx17", "br17", "br", "b", "test"}

LEMMA HereWord ==
  ASSUME Static
  PROVE  WordAt(Here).op \in Executed
<1>0. /\ Here \in Nat /\ Words \in 1 .. 5 /\ insn.kind \in Kinds
      /\ WordAt(Here + 0) = Chunk(insn, base)[0 + 1]
  BY StaticFacts, ChunkAt
<1>1. WordAt(Here) = Chunk(insn, base)[1]
  BY <1>0
<1>2. CASE insn.kind = "b"
  <2>1. \A j \in 1 .. 4 : Chunk(insn, base)[j] = AbsBranch(insn.ref)[j]
    BY <1>2, StaticFacts DEF ChunkOk
  <2>2. WordAt(Here) = AbsBranch(insn.ref)[1]
    BY <1>1, <2>1
  <2>3. AbsBranch(insn.ref)[1] = [op |-> "ldrlit", r |-> "x17", how |-> "addr", imm |-> 2]
    BY AbsBranchWords
  <2> QED
    BY <2>2, <2>3 DEF Executed
<1>3. CASE insn.kind # "b"
  BY <1>0, <1>1, <1>3, StaticFacts DEF ChunkOk, Kinds, Conditional, Loads, Executed
<1> QED
  BY <1>2, <1>3

\* The next word is one of them.
LEMMA WordExecuted == TrampolineInv => (Inside => Word.op \in Executed)
<1> SUFFICES ASSUME TrampolineInv, Inside PROVE WordAt(pc).op \in Executed
  BY DEF Word, WordAt
<1> USE DEF Executed
<1>0. Static /\ base \in Nat /\ Place \in 1 .. 4 /\ Here = base + Place - 1
  BY StaticFacts DEF TrampolineInv
<1>1. CASE Before
  <2>1. PICK n \in 0 .. Place - 1 : pc = base + n
    BY <1>1 DEF Before
  <2>2. CASE n < Place - 1
    <3>1. WordAt(pc) = [op |-> "plain", n |-> n + 1]
      BY <1>0, <2>1, <2>2, WordFacts
    <3> QED
      BY <3>1
  <2>3. CASE n = Place - 1
    <3>1. pc = Here
      BY <1>0, <2>1, <2>3
    <3> QED
      BY <1>0, <3>1, HereWord
  <2> QED
    BY <1>0, <2>2, <2>3
<1>2. CASE Branches
  BY <1>0, <1>2, BranchWords DEF Branches, Conditional
<1>3. CASE Jumps
  BY <1>0, <1>3, BranchWords DEF Jumps
<1>4. CASE Pages
  BY <1>0, <1>4, PagesWord
<1>5. CASE LoadsFar
  BY <1>0, <1>5, LoadsFarWord DEF LoadsFar
<1>6. CASE After
  <2>1. PICK n \in Place .. 4 : pc = base + Words + n - 1
    BY <1>6 DEF After
  <2>2. \/ WordAt(pc) = [op |-> "plain", n |-> n + 1]
        \/ WordAt(pc) = [op |-> "ldrlit", r |-> "x17", how |-> "addr", imm |-> 2]
    BY <1>0, <2>1, AfterWord, Zenon
  <2> QED
    BY <2>2
<1>7. CASE GoesBack
  BY <1>0, <1>7, GoesBackWord
<1> QED
  BY <1>0, <1>1, <1>2, <1>3, <1>4, <1>5, <1>6, <1>7, OutsideStages DEF TrampolineInv, Flow

\* The relocated instructions leave the processor where, and as, the originals
\* would have, for every target, scratch page, page size and reach of an
\* immediate; the four exceptions SameEffect names are the only ones.
THEOREM EffectKept == Spec => []SameEffect
<1>1. TrampolineInv => SameEffect
  BY EffectOf
<1> QED
  BY <1>1, TrampolineInvariance, PTL

\* No trampoline runs into the addresses stored between its instructions.
THEOREM DataNeverRun == Spec => []NeverRunsData
<1>1. TrampolineInv => NeverRunsData
  BY WordExecuted DEF NeverRunsData, Executed
<1> QED
  BY <1>1, TrampolineInvariance, PTL

-----------------------------------------------------------------------------
(* It comes to an end *)

\* How far a trampoline has come: the words before the next one; in the function
\* called, those before the return address but one; 12, more than there are, when
\* it has come to its end.
Reached ==
  IF Inside THEN pc - base
  ELSE IF insn.kind = "bl" /\ ~ returned THEN Place + 3
  ELSE 12
\* What Execute, or CalleeReturns, waits for.
CanGoOn ==
  \/ Inside /\ Word.op \in Executed
  \/ insn.kind = "bl" /\ ~ Inside /\ ~ returned /\ pc = insn.ref /\ regs["x30"] # NoValue

LEMMA ReachedInside ==
  Static /\ pc \in base .. base + Words + 6 => Reached = pc - base /\ Reached \in 0 .. 11
<1> SUFFICES ASSUME Static, pc \in base .. base + Words + 6
             PROVE  Reached = pc - base /\ Reached \in 0 .. 11
  OBVIOUS
<1>1. base \in Nat /\ Words \in 1 .. 5
  BY StaticFacts
<1> QED
  BY <1>1, InsideFacts DEF Reached

LEMMA ReachedOutside ==
  Static /\ (Resumed \/ Gone \/ Called) => Reached = IF Called THEN Place + 3 ELSE 12
<1> SUFFICES ASSUME Static, Resumed \/ Gone \/ Called
             PROVE  Reached = IF Called THEN Place + 3 ELSE 12
  OBVIOUS
<1>1. ~ Inside
  BY OutsideStages
<1>2. CASE Called
  BY <1>1, <1>2 DEF Called, Started, Reached
<1>3. CASE Resumed
  BY <1>1, <1>3 DEF Resumed, Passed, Reached, Called, Started
<1>4. CASE Gone
  BY <1>1, <1>4 DEF Gone, Leaves, Conditional, Reached, Called
<1> QED
  BY <1>2, <1>3, <1>4

\* Past the first word of the chunk.
LEMMA HereGoesOn ==
  ASSUME Static, Execute, pc = Here, Started
  PROVE  pc' \in pc + 1 .. base + Words + 6 \/ Gone'
<1>0. /\ base \in Nat /\ Place \in 1 .. 4 /\ Words \in 1 .. 5 /\ Here = base + Place - 1
      /\ insn.kind \in Kinds
  BY StaticFacts
<1>1. base' = base /\ Place' = Place /\ Words' = Words /\ Here' = Here /\ insn' = insn
  BY Frame, SameParts
<1>2. ASSUME After' PROVE pc' \in pc + 1 .. base + Words + 6
  <2>1. PICK n \in Place' .. 4 : pc' = base' + Words' + n - 1
    BY <1>2 DEF After
  <2> QED
    BY <1>0, <1>1, <2>1
<1>3. CASE insn.kind = "plain"
  BY <1>2, <1>3, StartPlain
<1>4. CASE insn.kind = "br"
  BY <1>4, StartBr
<1>5. CASE insn.kind = "b"
  <2>1. Words = 4
    BY <1>5 DEF Words, Size
  <2>2. pc' = Here' + Words' - 3
    BY <1>5, StartB DEF Jumps
  <2> QED
    BY <1>0, <1>1, <2>1, <2>2
<1>6. CASE insn.kind = "bl"
  BY <1>0, <1>1, <1>6, StartBl DEF Branches
<1>7. CASE insn.kind \in Conditional
  <2>1. pc' = Here' + 1 \/ After'
    BY <1>7, StartTest DEF Branches
  <2> QED
    BY <1>0, <1>1, <1>2, <2>1
<1>8. CASE insn.kind \in {"adr", "adrp"}
  <2>1. pc' = Here' + 1 \/ After'
    BY <1>8, StartAddr DEF Pages
  <2> QED
    BY <1>0, <1>1, <1>2, <2>1
<1>9. CASE insn.kind \in Loads
  <2>1. pc' \in {Here' + 1, Here' + 4} \/ After'
    BY <1>9, StartLoad DEF LoadsFar
  <2> QED
    BY <1>0, <1>1, <1>2, <2>1
<1> QED
  BY <1>0, <1>3, <1>4, <1>5, <1>6, <1>7, <1>8, <1>9 DEF Kinds, Conditional, Loads

\* To a later word, or out of the trampoline.
LEMMA ExecuteGoesOn ==
  ASSUME Static, Flow, Execute
  PROVE  pc' \in pc + 1 .. base + Words + 6 \/ Gone' \/ Resumed' \/ (Jumps /\ Called')
<1>0. base \in Nat /\ Place \in 1 .. 4 /\ Here = base + Place - 1 /\ Words \in 1 .. 5
  BY StaticFacts
<1>1. Inside
  BY DEF Execute
<1>2. CASE Before
  <2>1. PICK n \in 0 .. Place - 1 : pc = base + n /\ ran = RanOf(insn, n) /\ ~ returned /\ Clean
    BY <1>2 DEF Before
  <2>2. CASE n < Place - 1
    <3>1. WordAt(pc) = [op |-> "plain", n |-> n + 1]
      BY <1>0, <2>1, <2>2, WordFacts
    <3>2. pc' = pc + 1
      BY <3>1, DoesPlain
    <3> QED
      BY <1>0, <2>1, <3>2
  <2>3. CASE n = Place - 1
    <3>1. pc = Here /\ Started
      BY <1>0, <2>1, <2>3 DEF Started
    <3> QED
      BY <3>1, HereGoesOn
  <2> QED
    BY <1>0, <2>2, <2>3
<1>3. CASE Branches
  <2>1. Words = 5 /\ pc = Here + 1
    BY <1>3, BranchWords DEF Branches, Conditional
  <2>2. pc' = Here' + Words' - 3 /\ Here' = Here /\ Words' = Words
    BY <1>3, BranchesStep, Frame, SameParts DEF Jumps
  <2> QED
    BY <1>0, <2>1, <2>2
<1>4. CASE Jumps
  BY <1>4, JumpsStep
<1>5. CASE Pages
  <2>1. pc' = pc + 1 /\ pc = Here + 1
    BY <1>5, PagesWord, DoesAdd DEF Pages
  <2> QED
    BY <1>0, <2>1
<1>6. CASE LoadsFar
  <2>1. pc' = pc + 1 \/ pc' = pc + 3
    BY <1>6, LoadsFarWord, DoesB, DoesLoadX17 DEF LoadsFar
  <2>2. pc \in {Here + 1, Here + 4} /\ Words = 5
    BY <1>6, LoadsFarWord DEF LoadsFar
  <2> QED
    BY <1>0, <2>1, <2>2
<1>7. CASE After
  <2>1. PICK n \in Place .. 4 : pc = base + Words + n - 1
    BY <1>7 DEF After
  <2>2. \/ WordAt(pc) = [op |-> "plain", n |-> n + 1]
        \/ WordAt(pc) = [op |-> "ldrlit", r |-> "x17", how |-> "addr", imm |-> 2]
    BY <2>1, AfterWord, Zenon
  <2>3. pc' = pc + 1
    BY <2>2, DoesPlain, DoesLoad
  <2> QED
    BY <1>0, <2>1, <2>3
<1>8. CASE GoesBack
  BY <1>8, GoesBackStep
<1>9. CASE Resumed \/ Gone \/ Called
  BY <1>1, <1>9, OutsideStages
<1> QED
  BY <1>2, <1>3, <1>4, <1>5, <1>6, <1>7, <1>8, <1>9 DEF Flow

LEMMA GoesFurther ==
  ASSUME TrampolineInv, Next
  PROVE  Reached' > Reached /\ Reached \in 0 .. 11
<1>0. Static /\ Flow /\ base \in Nat /\ Place \in 1 .. 4 /\ Here = base + Place - 1
  BY StaticFacts DEF TrampolineInv
<1>1. TrampolineInv'
  BY NextFlow
<1>2. Static' /\ base' = base /\ Place' = Place
  BY <1>1, Frame, SameParts DEF TrampolineInv, Next, CalleeReturns, Place
<1>3. Place' + 3 \in 4 .. 7
  BY <1>0, <1>2
<1>4. (Static /\ pc \in base .. base + Words + 6 => Reached = pc - base /\ Reached \in 0 .. 11)'
  BY ReachedInside, PTL
<1>5. (Static /\ (Resumed \/ Gone \/ Called) => Reached = IF Called THEN Place + 3 ELSE 12)'
  BY ReachedOutside, PTL
<1>6. CASE Execute
  <2>0. Words' = Words /\ Words \in 1 .. 5 /\ pc \in base .. base + Words + 6 /\ pc \in Nat
    BY <1>0, <1>6, StaticFacts, InsideFacts, Frame, SameParts DEF Execute
  <2>1. Reached = pc - base /\ Reached \in 0 .. 11
    BY <1>0, <2>0, ReachedInside
  <2>2. CASE pc' \in pc + 1 .. base + Words + 6
    <3>1. Reached' = pc' - base
      BY <1>0, <1>2, <1>4, <2>0, <2>2
    <3>2. pc' \in Int /\ pc' >= pc + 1
      BY <1>0, <2>0, <2>2
    <3>3. base \in Int /\ pc \in Int
      BY <1>0, <2>0
    <3>4. \A x, y, z \in Int : y >= x + 1 => y - z > x - z
      OBVIOUS
    <3>5. pc' - base > pc - base
      BY <3>2, <3>3, <3>4, Zenon
    <3> QED
      BY <2>1, <3>1, <3>5
  <2>3. CASE Gone' \/ Resumed'
    <3>1. ~ Called'
      BY <2>3 DEF Gone, Leaves, Conditional, Resumed, Passed, Called, Started
    <3> QED
      BY <1>2, <1>5, <2>1, <2>3, <3>1
  <2>4. CASE Jumps /\ Called'
    <3>1. Reached' = Place' + 3
      BY <1>2, <1>5, <2>4
    <3>2. Words = 5 /\ pc = Here + Words - 3
      <4>1. insn.kind = "bl"
        BY <1>6, <2>4, Frame DEF Called
      <4> QED
        BY <1>0, <2>4, <4>1, BranchWords DEF Jumps
    <3> QED
      BY <1>0, <1>2, <2>1, <3>1, <3>2
  <2> QED
    BY <1>0, <1>6, <2>2, <2>3, <2>4, ExecuteGoesOn
<1>7. CASE CalleeReturns
  <2>1. Called
    <3>1. insn.kind = "bl" /\ ~ Inside /\ ~ returned
      BY <1>7 DEF CalleeReturns
    <3>2. Resumed \/ Gone \/ Called
      BY <1>0, <3>1, InsideStages DEF Flow
    <3>3. ~ Resumed /\ ~ Gone
      BY <3>1 DEF Resumed, Passed, Gone, Leaves, Conditional
    <3> QED
      BY <3>2, <3>3
  <2>2. Reached = Place + 3
    BY <1>0, <2>1, ReachedOutside
  <2>3. pc' = Here + 5 /\ Words = 5 /\ Words' = Words
    BY <1>0, <1>2, <1>7, <2>1, BranchWords, SameParts DEF CalleeReturns, Called, AddrOf
  <2>4. pc' \in base' .. base' + Words' + 6
    BY <1>0, <1>2, <2>3
  <2>5. Reached' = pc' - base'
    BY <1>2, <1>4, <2>4
  <2> QED
    BY <1>0, <1>2, <2>2, <2>3, <2>5
<1> QED
  BY <1>6, <1>7 DEF Next

LEMMA GoesOn == TrampolineInv => Done \/ CanGoOn
<1> SUFFICES ASSUME TrampolineInv, ~ Done, ~ Inside PROVE CanGoOn
  BY WordExecuted DEF CanGoOn
<1>1. Static /\ insn.kind = "bl" /\ ~ returned
  BY DEF Done, TrampolineInv
<1>2. Resumed \/ Gone \/ Called
  BY <1>1, InsideStages DEF TrampolineInv, Flow
<1>3. Called
  BY <1>1, <1>2 DEF Resumed, Passed, Gone, Leaves, Conditional
<1> QED
  BY <1>1, <1>3 DEF CanGoOn, Called, AddrOf, NoValue

LEMMA ReachedType == TrampolineInv => Reached \in 0 .. 12
<1> SUFFICES ASSUME TrampolineInv PROVE Reached \in 0 .. 12
  OBVIOUS
<1>1. Static /\ Place \in 1 .. 4
  BY StaticFacts DEF TrampolineInv
<1>2. CASE Inside
  BY <1>1, <1>2, InsideFacts, ReachedInside
<1>3. CASE ~ Inside
  BY <1>1, <1>3 DEF Reached
<1> QED
  BY <1>2, <1>3

AtLeast(n) == Done \/ Reached >= n

LEMMA AtTheEnd ==
  ASSUME TrampolineInv, Reached >= 12
  PROVE  Done
<1>1. Static /\ Place \in 1 .. 4
  BY StaticFacts DEF TrampolineInv
<1>2. ~ Inside
  BY <1>1, ReachedInside, StaticFacts, InsideFacts
<1> QED
  BY <1>1, <1>2 DEF Reached, Done

\* No trampoline gets stuck, or goes around in circles: until it is done the
\* processor has a word it executes or a function that returns, and each step
\* brings it further along, at most twelve of them.
THEOREM NeverStuck ==
  Spec => /\ [](Done \/ CanGoOn)
          /\ [][Reached' > Reached /\ Reached \in 0 .. 11]_vars
<1>1. TrampolineInv => Done \/ CanGoOn
  BY GoesOn
<1>2. TrampolineInv /\ [Next]_vars => [Reached' > Reached /\ Reached \in 0 .. 11]_vars
  BY GoesFurther
<1> QED
  BY <1>1, <1>2, TrampolineInvariance, PTL DEF Spec

LEMMA DoneStays == TrampolineInv /\ Done => ~ Next
<1> SUFFICES ASSUME TrampolineInv, Done, Next PROVE FALSE
  OBVIOUS
<1> QED
  BY DEF Done, Next, Execute, CalleeReturns

\* No step leads back, each leads on.
LEMMA GetsOn ==
  ASSUME NEW n \in Nat, NEW m \in Nat, m = n + 1
  PROVE  /\ TrampolineInv /\ AtLeast(n) /\ [Next]_vars => AtLeast(n)'
         /\ TrampolineInv /\ AtLeast(n) /\ <<Next>>_vars => AtLeast(m)'
<1>1. ASSUME TrampolineInv, AtLeast(n), Next PROVE AtLeast(n)' /\ AtLeast(m)'
  <2>1. (TrampolineInv => Reached \in 0 .. 12)'
    BY ReachedType, PTL
  <2>2. Reached' \in 0 .. 12
    BY <1>1, <2>1, NextFlow
  <2>3. ~ Done
    BY <1>1, DoneStays
  <2> QED
    BY <1>1, <2>2, <2>3, GoesFurther DEF AtLeast
<1>2. ASSUME AtLeast(n), UNCHANGED vars PROVE AtLeast(n)'
  BY <1>2 DEF vars, AtLeast, Done, Reached, Inside, Place
<1> QED
  BY <1>1, <1>2

\* With a processor that goes on, every trampoline comes to its end.  The hypothesis
\* says what ENABLED comes to: a word that is executed, or a function that
\* returns, makes a step possible.
THEOREM FinishesAlways == FairSpec /\ [](CanGoOn => ENABLED <<Next>>_vars) => Finishes
<1> DEFINE On(n, m) ==
      /\ TrampolineInv /\ AtLeast(n) /\ [Next]_vars => AtLeast(n)'
      /\ TrampolineInv /\ AtLeast(n) /\ <<Next>>_vars => AtLeast(m)'
<1>1. TrampolineInv => AtLeast(0)
  BY ReachedType DEF AtLeast
<1>2. On(0, 1) /\ On(1, 2) /\ On(2, 3) /\ On(3, 4) /\ On(4, 5) /\ On(5, 6)
  BY GetsOn
<1>3. On(6, 7) /\ On(7, 8) /\ On(8, 9) /\ On(9, 10) /\ On(10, 11) /\ On(11, 12)
  BY GetsOn
<1>4. TrampolineInv /\ AtLeast(12) => Done
  BY AtTheEnd DEF AtLeast
<1>5. TrampolineInv => Done \/ CanGoOn
  BY GoesOn
<1>6. CanGoOn /\ UNCHANGED vars => CanGoOn'
  BY DEF CanGoOn, vars, Inside, Word
<1> QED
  BY <1>1, <1>2, <1>3, <1>4, <1>5, <1>6, TrampolineInvariance, PTL DEF FairSpec, Spec, Finishes
=============================================================================
