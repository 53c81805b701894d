----------------------------- MODULE CodeProofs -----------------------------
(***************************************************************************)
(* Proofs about the code the native hook library writes, for any constants. *)
(*                                                                         *)
(* HookPatch: hooks removed newest first restore the bytes of their        *)
(* functions.                                                              *)
(*                                                                         *)
(* CodeWriter: what a successful flush leaves in memory does what the      *)
(* statements say.  CodeInv says which words are in the buffer, statement  *)
(* by statement, and is kept by every step.  Then the run of the words is  *)
(* shown to follow the run of the statements: Matches relates the two      *)
(* states, one lemma per kind of statement shows that at most nine words   *)
(* keep them related, and an induction over the run does the rest.         *)
(***************************************************************************)
EXTENDS HookPatch, CodeWriter, SequenceTheorems, WellFoundedInduction, TLAPS

-----------------------------------------------------------------------------
(* Patches *)

\* The links of the chain of saved bytes of function t.
Chained(t) ==
  \A h \in OnTarget(t) :
    /\ saved[h] \in OnTarget(t) \cup {0} /\ saved[h] < h
    /\ \A g \in OnTarget(t) : g <= saved[h] \/ h <= g

\* The bytes of t are those of its newest hook.
ShowsNewest(t) == /\ code[t] \in OnTarget(t) \cup {0}
                  /\ \A h \in OnTarget(t) : h <= code[t]

\* The conjuncts of NestedInv that are about functions.
LEMMA NestedInvParts ==
  NestedInv <=> /\ TypeOK
                /\ \A h \in hooks : h < nextId
                /\ \A t \in Targets : past[t] = "nested" =>
                                        ShowsNewest(t) /\ Chained(t)
BY DEF NestedInv, NestedRestores, ShowsNewest, Chained

LEMMA InitNested == Init => NestedInv
<1> SUFFICES ASSUME Init PROVE NestedInv
  OBVIOUS
<1>0. PICK u \in Targets : u = CHOOSE t \in Targets : TRUE
  BY TargetsAssumption
<1>1. TypeOK
  <2>1. target \in [HookIds -> Targets]
    BY <1>0 DEF Init
  <2>2. nextId \in 1 .. MaxHooks + 1 /\ hooks \subseteq HookIds /\ todo \subseteq HookIds
    BY MaxHooksAssumption DEF Init
  <2>3. /\ mode \in [HookIds -> Modes] /\ saved \in [HookIds -> Content]
        /\ code \in [Targets -> Content] /\ past \in [Targets -> Pasts]
    <3>1. 0 \in Content /\ "inline" \in Modes /\ "nested" \in Pasts
      BY MaxHooksAssumption DEF Content, Modes, Pasts
    <3> QED
      BY <3>1 DEF Init
  <2> QED
    BY <2>1, <2>2, <2>3 DEF TypeOK
<1>2. \A t \in Targets : OnTarget(t) = {} /\ code[t] = 0
  BY DEF Init, OnTarget
<1> QED
  BY <1>1, <1>2 DEF Init, NestedInv, NestedRestores

LEMMA AttachNested ==
  ASSUME NestedInv, NEW t \in Targets, NEW m \in Modes, attach(t, m)
  PROVE  NestedInv'
<1>0. PICK n \in HookIds : n = nextId
  BY DEF attach
<1>1. /\ n \in Nat \ {0} /\ n \notin hooks /\ hooks' = hooks \cup {n}
      /\ \A h \in hooks : h \in Nat \ {0} /\ h < n
      /\ target' = [target EXCEPT ![n] = t]
      /\ saved' = [saved EXCEPT ![n] = code[t]]
      /\ code' = [code EXCEPT ![t] = n] /\ past' = past
  BY <1>0, MaxHooksAssumption DEF attach, LiveBytes, NestedInv, TypeOK, HookIds
<1>2. TypeOK'
  BY <1>0, MaxHooksAssumption
     DEF attach, LiveBytes, NestedInv, TypeOK, HookIds, Content
<1>3. \A h \in hooks' : h < nextId'
  BY <1>0, <1>1 DEF attach
<1>4. OnTarget(t)' = OnTarget(t) \cup {n}
      /\ \A u \in Targets : u # t => OnTarget(u)' = OnTarget(u)
  BY <1>1 DEF OnTarget, NestedInv, TypeOK
<1>5. /\ code'[t] = n /\ saved'[n] = code[t]
      /\ \A u \in Targets : u # t => code'[u] = code[u]
      /\ \A h \in hooks : saved'[h] = saved[h]
  BY <1>0, <1>1 DEF NestedInv, TypeOK
<1>6. ASSUME past[t] = "nested" PROVE ShowsNewest(t)' /\ Chained(t)'
  <2>1. ShowsNewest(t) /\ Chained(t)
    BY <1>6, NestedInvParts
  <2>2. \A h \in OnTarget(t) : h \in hooks /\ h \in Nat \ {0} /\ h < n
    BY <1>1 DEF OnTarget
  <2>3. ShowsNewest(t)'
    BY <1>1, <1>4, <1>5, <2>2 DEF ShowsNewest
  <2>4. code[t] \in OnTarget(t) \cup {0} /\ code[t] # n
    BY <1>1, <2>1, <2>2 DEF ShowsNewest
  <2>5. ASSUME NEW h \in OnTarget(t)'
        PROVE  /\ saved'[h] \in OnTarget(t)' \cup {0} /\ saved'[h] < h
               /\ \A g \in OnTarget(t)' : g <= saved'[h] \/ h <= g
    <3>1. CASE h = n
      <4>1. saved'[n] \in OnTarget(t) \cup {0} /\ saved'[n] < n
        BY <1>1, <1>5, <2>1, <2>2, <2>4
      <4>2. \A g \in OnTarget(t) : g <= saved'[n]
        BY <1>5, <2>1 DEF ShowsNewest
      <4> QED
        BY <1>1, <1>4, <3>1, <4>1, <4>2
    <3>2. CASE h \in OnTarget(t)
      <4>1. saved'[h] = saved[h] /\ h < n /\ h \in Nat
        BY <1>5, <2>2, <3>2
      <4>2. /\ saved[h] \in OnTarget(t) \cup {0} /\ saved[h] < h
            /\ \A g \in OnTarget(t) : g <= saved[h] \/ h <= g
        BY <2>1, <3>2 DEF Chained
      <4> QED
        BY <1>1, <1>4, <4>1, <4>2
    <3> QED
      BY <1>4, <2>5, <3>1, <3>2
  <2> QED
    BY <2>3, <2>5 DEF Chained
<1>7. ASSUME NEW u \in Targets, u # t, past[u] = "nested"
      PROVE  ShowsNewest(u)' /\ Chained(u)'
  <2>1. ShowsNewest(u) /\ Chained(u) /\ \A h \in OnTarget(u) : h \in hooks
    BY <1>7, NestedInvParts DEF OnTarget
  <2> QED
    BY <1>4, <1>5, <1>7, <2>1 DEF ShowsNewest, Chained
<1> QED
  BY <1>1, <1>2, <1>3, <1>6, <1>7 DEF NestedInv, NestedRestores, ShowsNewest, Chained

LEMMA DetachNested ==
  ASSUME NestedInv, NEW n \in HookIds, detach(n)
  PROVE  NestedInv'
<1>0. PICK t \in Targets : t = target[n]
  BY DEF NestedInv, TypeOK
<1>1. /\ n \in hooks /\ n \in OnTarget(t) /\ hooks' = hooks \ {n}
      /\ UNCHANGED <<nextId, target, mode, saved>>
  BY <1>0 DEF detach, OnTarget
<1>2. TypeOK'
  <2>1. code' \in [Targets -> Content]
    BY DEF detach, RestoredBytes, NestedInv, TypeOK
  <2>2. past' \in [Targets -> Pasts]
    BY DEF detach, NestedInv, TypeOK, Pasts
  <2>3. todo' \subseteq HookIds /\ hooks' \subseteq HookIds
    BY DEF detach, NestedInv, TypeOK
  <2> QED
    BY <1>1, <2>1, <2>2, <2>3 DEF NestedInv, TypeOK
<1>3. OnTarget(t)' = OnTarget(t) \ {n}
      /\ \A u \in Targets : u # t => OnTarget(u)' = OnTarget(u)
  BY <1>0, <1>1 DEF OnTarget
<1>4. \A u \in Targets : u # t => code'[u] = code[u] /\ past'[u] = past[u]
  BY <1>0 DEF detach, NestedInv, TypeOK
<1>5. ASSUME past'[t] = "nested" PROVE ShowsNewest(t)' /\ Chained(t)'
  <2>1. past[t] = "nested" /\ Newest(n) /\ code'[t] = saved[n]
    BY <1>0, <1>5 DEF detach, RestoredBytes, NestedInv, TypeOK, Pasts
  <2>2. ShowsNewest(t) /\ Chained(t)
    BY <2>1, NestedInvParts
  <2>3. \A h \in OnTarget(t) : h \in Nat \ {0} /\ h <= n /\ saved'[h] = saved[h]
    <3>1. n \in HookIds /\ hooks \subseteq HookIds /\ HookIds \subseteq Nat \ {0}
      BY <1>1 DEF NestedInv, TypeOK, HookIds, OnTarget
    <3>2. \A h \in OnTarget(t) : h \in hooks /\ saved'[h] = saved[h]
      BY <1>0, <1>1 DEF OnTarget
    <3>3. \A h \in OnTarget(t) : h <= n
      BY <1>1, <2>1, <3>1, <3>2 DEF Newest, OnTarget
    <3> QED
      BY <3>1, <3>2, <3>3
  <2>4. n \in Nat \ {0}
    BY <1>1, <2>3
  <2>5. \A h \in OnTarget(t) : /\ saved[h] \in OnTarget(t) \cup {0}
                               /\ saved[h] \in Nat /\ saved[h] < h
                               /\ \A g \in OnTarget(t) : g <= saved[h] \/ h <= g
    BY <2>2, <2>3 DEF Chained
  <2>6. ShowsNewest(t)'
    <3>1. saved[n] \in OnTarget(t)' \cup {0}
      <4>1. saved[n] \in OnTarget(t) \cup {0} /\ saved[n] # n
        BY <1>1, <2>4, <2>5
      <4> QED
        BY <1>3, <4>1
    <3>2. ASSUME NEW h \in OnTarget(t)' PROVE h <= saved[n]
      <4>1. h \in OnTarget(t) /\ h \in Nat /\ h < n
        BY <1>3, <2>3, <2>4
      <4>2. h <= saved[n] \/ n <= h
        BY <1>1, <2>5, <4>1
      <4> QED
        BY <2>4, <4>1, <4>2
    <3> QED
      BY <2>1, <3>1, <3>2 DEF ShowsNewest
  <2>7. ASSUME NEW h \in OnTarget(t)'
        PROVE  /\ saved'[h] \in OnTarget(t)' \cup {0} /\ saved'[h] < h
               /\ \A g \in OnTarget(t)' : g <= saved'[h] \/ h <= g
    <3>1. h \in OnTarget(t) /\ h # n /\ saved'[h] = saved[h] /\ h < n
      BY <1>3, <2>3, <2>4
    <3>2. saved[h] # n
      <4>1. saved[h] \in Nat /\ saved[h] < h /\ h \in Nat
        BY <2>3, <2>5, <3>1
      <4> QED
        BY <2>4, <3>1, <4>1
    <3> QED
      BY <1>3, <2>5, <3>1, <3>2
  <2> QED
    BY <2>6, <2>7 DEF Chained
<1>6. ASSUME NEW u \in Targets, u # t, past'[u] = "nested"
      PROVE  ShowsNewest(u)' /\ Chained(u)'
  <2>1. ShowsNewest(u) /\ Chained(u)
    BY <1>4, <1>6, NestedInvParts
  <2> QED
    BY <1>1, <1>3, <1>4, <1>6, <2>1 DEF ShowsNewest, Chained
<1> QED
  BY <1>1, <1>2, <1>5, <1>6 DEF NestedInv, NestedRestores, ShowsNewest, Chained

\* While the hooks of a function are removed newest first, the function shows the
\* thunk of its newest hook and each hook saved the bytes of the one before it.
THEOREM NestedInvariant == Spec => []NestedInv
<1>1. Init => NestedInv
  BY InitNested
<1>2. NestedInv /\ [Next]_vars => NestedInv'
  <2> SUFFICES ASSUME NestedInv, [Next]_vars PROVE NestedInv'
    OBVIOUS
  <2>1. CASE UNCHANGED vars
    BY <2>1 DEF vars, NestedInv, NestedRestores, TypeOK, OnTarget
  <2>2. CASE attach_fails
    BY <2>2, MaxHooksAssumption
       DEF attach_fails, NestedInv, NestedRestores, TypeOK, OnTarget, HookIds
  <2>3. CASE detach_all
    BY <2>3 DEF detach_all, NestedInv, NestedRestores, TypeOK, OnTarget
  <2> QED
    BY <2>1, <2>2, <2>3, AttachNested, DetachNested DEF Next
<1> QED
  BY <1>1, <1>2, PTL DEF Spec

\* Hooks removed newest first leave the bytes of their function as they were,
\* however they interleave with hooks on other functions and failed attaches.
THEOREM RestoreCorrect == Spec => []NestedRestores
<1>1. NestedInv => NestedRestores
  BY DEF NestedInv
<1> QED
  BY <1>1, NestedInvariant, PTL

-----------------------------------------------------------------------------
(* The code writer: sequences and FlattenSeq *)

\* A set of natural numbers that is not empty has a least member.
LEMMA Least ==
  ASSUME NEW S \in SUBSET Nat, S # {}
  PROVE  \E m \in S : \A k \in S : m <= k
<1> DEFINE R == OpToRel(<, Nat)
<1>1. \E m \in S : \A k \in S : <<k, m>> \notin R
  <2>1. IsWellFoundedOn(R, Nat)
    BY NatLessThanWellFounded
  <2> HIDE DEF R
  <2> QED
    BY <2>1, WFMin
<1>2. \A m, k \in Nat : <<k, m>> \notin R => m <= k
  BY DEF OpToRel
<1> QED
  BY <1>1, <1>2

\* g is what FlattenSeq builds up for the first n of ss.
Joins(g, ss, n) ==
  /\ DOMAIN g = 1 .. n
  /\ \A i \in 1 .. n : g[i] = IF i = 1 THEN ss[i] ELSE g[i - 1] \o ss[i]

\* FlattenSeq's recursive function exists: its partial results can be built up one by
\* one.
LEMMA JoinsExist ==
  ASSUME NEW S, NEW ss \in Seq(Seq(S)), NEW n \in 1 .. Len(ss)
  PROVE  \E g \in [1 .. n -> Seq(S)] : Joins(g, ss, n)
<1> DEFINE Bad == {m \in 1 .. Len(ss) : ~ \E g \in [1 .. m -> Seq(S)] : Joins(g, ss, m)}
<1>1. SUFFICES ASSUME Bad # {} PROVE FALSE
  OBVIOUS
<1>2. PICK m \in Bad : \A k \in Bad : m <= k
  <2>1. Bad \in SUBSET Nat
    OBVIOUS
  <2> HIDE DEF Bad
  <2> QED
    BY <1>1, <2>1, Least
<1>3. m \in 1 .. Len(ss) /\ Len(ss) \in Nat /\ ss[m] \in Seq(S)
  OBVIOUS
<1>4. CASE m = 1
  <2> DEFINE g == [i \in 1 .. 1 |-> ss[1]]
  <2>1. g \in [1 .. m -> Seq(S)] /\ Joins(g, ss, m)
    BY <1>3, <1>4 DEF Joins
  <2> QED
    BY <2>1
<1>5. CASE m # 1
  <2>1. m - 1 \in 1 .. Len(ss) /\ m - 1 \notin Bad
    <3>1. m - 1 \in 1 .. Len(ss) /\ ~ m <= m - 1
      BY <1>3, <1>5
    <3> QED
      BY <1>2, <3>1
  <2>2. PICK h \in [1 .. m - 1 -> Seq(S)] : Joins(h, ss, m - 1)
    BY <2>1
  <2> DEFINE g == [i \in 1 .. m |-> IF i = m THEN h[m - 1] \o ss[m] ELSE h[i]]
  <2>3. h[m - 1] \o ss[m] \in Seq(S)
    BY <1>3, <1>5, <2>2
  <2>6. g[m] = h[m - 1] \o ss[m] /\ \A i \in 1 .. m - 1 : g[i] = h[i]
    <3>1. m \in 1 .. m /\ \A i \in 1 .. m - 1 : i \in 1 .. m /\ i # m
      BY <1>3
    <3> QED
      BY <3>1
  <2>4. g \in [1 .. m -> Seq(S)]
    BY <1>3, <2>2, <2>3
  <2> HIDE DEF g
  <2>5. Joins(g, ss, m)
    <3>1. ASSUME NEW i \in 1 .. m PROVE g[i] = IF i = 1 THEN ss[i] ELSE g[i - 1] \o ss[i]
      <4>1. CASE i = m
        <5>1. m - 1 \in 1 .. m - 1
          BY <1>3, <1>5
        <5> QED
          BY <1>5, <2>6, <4>1, <5>1
      <4>2. CASE i # m
        <5>1. i \in 1 .. m - 1
          BY <1>3, <4>2
        <5>2. h[i] = IF i = 1 THEN ss[i] ELSE h[i - 1] \o ss[i]
          BY <2>2, <5>1 DEF Joins
        <5>3. i # 1 => i - 1 \in 1 .. m - 1
          BY <1>3, <5>1
        <5> QED
          BY <2>6, <5>1, <5>2, <5>3
      <4> QED
        BY <4>1, <4>2
    <3> QED
      BY <2>4, <3>1 DEF Joins
  <2> QED
    BY <2>4, <2>5
<1> QED
  BY <1>4, <1>5

\* Two such functions agree as far as both go.
LEMMA JoinsUnique ==
  ASSUME NEW ss, NEW n \in Nat, NEW m \in Nat, n <= m, NEW f, NEW g, Joins(f, ss, n), Joins(g, ss, m),
         NEW i \in 1 .. n
  PROVE  f[i] = g[i]
<1> DEFINE Bad == {k \in 1 .. n : f[k] # g[k]}
<1>1. SUFFICES ASSUME Bad # {} PROVE FALSE
  OBVIOUS
<1>2. PICK k \in Bad : \A j \in Bad : k <= j
  <2>1. Bad \in SUBSET Nat
    OBVIOUS
  <2> HIDE DEF Bad
  <2> QED
    BY <1>1, <2>1, Least
<1>0. k \in 1 .. n /\ k \in 1 .. m /\ f[k] # g[k]
  OBVIOUS
<1>3. CASE k = 1
  BY <1>0, <1>3 DEF Joins
<1>4. CASE k # 1
  <2>1. k - 1 \in 1 .. n /\ ~ k <= k - 1
    BY <1>0, <1>4
  <2>3. f[k - 1] = g[k - 1]
    BY <1>2, <2>1
  <2>2. f[k] = f[k - 1] \o ss[k] /\ g[k] = g[k - 1] \o ss[k]
    BY <1>0, <1>4 DEF Joins
  <2> QED
    BY <1>0, <2>3, <2>2
<1> QED
  BY <1>3, <1>4

\* FlattenSeq of a sequence is the last of the partial results.
LEMMA FlattenJoins ==
  ASSUME NEW S, NEW ss \in Seq(Seq(S)), Len(ss) # 0
  PROVE  \E g \in [1 .. Len(ss) -> Seq(S)] : Joins(g, ss, Len(ss)) /\ FlattenSeq(ss) = g[Len(ss)]
<1> DEFINE n == Len(ss)
           Eq(f) == f = [i \in 1 .. n |-> IF i = 1 THEN ss[i] ELSE f[i - 1] \o ss[i]]
           flat == CHOOSE f : Eq(f)
<1>1. n \in Nat \ {0}
  OBVIOUS
<1>2. PICK g \in [1 .. n -> Seq(S)] : Joins(g, ss, n)
  BY <1>1, JoinsExist
<1>3. Eq(g)
  BY <1>2 DEF Joins
<1>4. Eq(flat)
  BY <1>3
<1>5. FlattenSeq(ss) = flat[n]
  BY <1>1 DEF FlattenSeq
<1>6. Joins(flat, ss, n)
  BY <1>4 DEF Joins
<1>7. flat[n] = g[n]
  BY <1>1, <1>2, <1>6, JoinsUnique
<1> QED
  BY <1>2, <1>5, <1>7

\* Of nothing, it is nothing.
LEMMA FlattenEmpty == FlattenSeq(<< >>) = << >>
BY DEF FlattenSeq

\* With one sequence more, it is what it was with that sequence behind it.
LEMMA FlattenAppend ==
  ASSUME NEW S, NEW ss \in Seq(Seq(S)), NEW s \in Seq(S)
  PROVE  /\ FlattenSeq(ss) \in Seq(S)
         /\ FlattenSeq(Append(ss, s)) = FlattenSeq(ss) \o s
<1> DEFINE t == Append(ss, s)  n == Len(ss)
<1>1. t \in Seq(Seq(S)) /\ n \in Nat /\ Len(t) = n + 1 /\ t[n + 1] = s
      /\ \A i \in 1 .. n : t[i] = ss[i]
  OBVIOUS
<1>2. PICK g \in [1 .. n + 1 -> Seq(S)] : Joins(g, t, n + 1) /\ FlattenSeq(t) = g[n + 1]
  <2> HIDE DEF t, n
  <2> QED
    BY <1>1, FlattenJoins
<1> HIDE DEF t
<1>3. CASE n = 0
  <2>1. ss = << >>
    BY <1>3
  <2>2. g[1] = s
    BY <1>1, <1>2, <1>3 DEF Joins
  <2>3. << >> \o s = s /\ << >> \in Seq(S) /\ g[n + 1] = s
    BY <1>3, <2>2
  <2> QED
    BY <1>2, <2>1, <2>3, FlattenEmpty DEF t
<1>4. CASE n # 0
  <2>1. PICK h \in [1 .. n -> Seq(S)] : Joins(h, ss, n) /\ FlattenSeq(ss) = h[n]
    BY <1>1, <1>4, FlattenJoins
  <2>2. Joins(h, t, n)
    <3>1. ASSUME NEW i \in 1 .. n PROVE h[i] = IF i = 1 THEN t[i] ELSE h[i - 1] \o t[i]
      <4>1. t[i] = ss[i] /\ h[i] = IF i = 1 THEN ss[i] ELSE h[i - 1] \o ss[i]
        BY <1>1, <2>1 DEF Joins
      <4> QED
        BY <4>1
    <3> QED
      BY <2>1, <3>1 DEF Joins
  <2>3. h[n] = g[n]
    <3>1. n \in 1 .. n /\ n + 1 \in Nat /\ n <= n + 1
      BY <1>1, <1>4
    <3> QED
      BY <1>1, <1>2, <2>2, <3>1, JoinsUnique
  <2>4. g[n + 1] = g[n] \o s
    <3>1. n + 1 \in 1 .. n + 1 /\ n + 1 # 1 /\ (n + 1) - 1 = n
      BY <1>1, <1>4
    <3> QED
      BY <1>1, <1>2, <3>1 DEF Joins
  <2>5. h[n] \in Seq(S)
    <3>1. n \in 1 .. n
      BY <1>1, <1>4
    <3> QED
      BY <2>1, <3>1
  <2> QED
    BY <1>2, <2>1, <2>3, <2>4, <2>5 DEF t
<1> QED
  BY <1>1, <1>3, <1>4

Sequence(s) == \E S : s \in Seq(S)

\* A sequence of one.
LEMMA One ==
  ASSUME NEW a
  PROVE  Sequence(<<a>>) /\ Len(<<a>>) = 1 /\ <<a>>[1] = a
<1>1. <<a>> \in Seq({a})
  OBVIOUS
<1> QED
  BY <1>1 DEF Sequence

\* A sequence of two.
LEMMA Two ==
  ASSUME NEW a, NEW b
  PROVE  Sequence(<<a, b>>) /\ Len(<<a, b>>) = 2 /\ <<a, b>>[1] = a /\ <<a, b>>[2] = b
<1>1. <<a, b>> \in Seq({a, b})
  OBVIOUS
<1> QED
  BY <1>1 DEF Sequence

\* A sequence of four.
LEMMA Four ==
  ASSUME NEW a, NEW b, NEW c, NEW d
  PROVE  LET s == <<a, b, c, d>>
         IN Sequence(s) /\ Len(s) = 4 /\ s[1] = a /\ s[2] = b /\ s[3] = c /\ s[4] = d
<1>1. <<a, b, c, d>> \in Seq({a, b, c, d})
  OBVIOUS
<1> QED
  BY <1>1 DEF Sequence

State(a, r, f, k, z, e) ==
  [at |-> a, regs |-> r, flags |-> f, stack |-> k, seen |-> z, end |-> e]

\* The fields of a state of the processor.
LEMMA Fields ==
  ASSUME NEW a, NEW r, NEW f, NEW k, NEW z, NEW e
  PROVE  LET s == State(a, r, f, k, z, e)
         IN s.at = a /\ s.regs = r /\ s.flags = f /\ s.stack = k /\ s.seen = z /\ s.end = e
BY DEF State

-----------------------------------------------------------------------------
(* The invariant of the code writer *)

\* Where statement n starts, or the next one will.
From(n) == IF n \in DOMAIN starts THEN starts[n] ELSE Len(buf)

\* The words of statement w when it starts at address a; a flush or a value may have
\* filled in the ones of one word.
Spells(w, a, ws) ==
  \/ w.op = "label" /\ ws = << >>
  \/ w.op \in {"b", "bl", "test"} /\ Len(ws) = 1
  \/ w.op = "ldr" /\ w.r \in {0, 1} /\ (\E v \in Immediates : w.v = Imm(v)) /\ ws = LdrU64(w.r, w.v)
  \/ w.op = "ldr_ref" /\ w.r = 1 /\ Len(ws) = 1
  \/ w.op = "value" /\ ws = Lit(Imm(9))
  \/ w.op = "push" /\ w.a = 0 /\ w.b = 1 /\ ws = <<Pair("push", 0, 1)>>
  \/ w.op = "pop" /\ w.a \in {0, 1} /\ w.b = w.a + 1 /\ ws = <<Pair("pop", w.a, w.b)>>
  \/ w.op = "push_all" /\ ws = PushAll
  \/ w.op = "pop_all" /\ ws = PopAll
  \/ w.op = "ret" /\ ws = <<OnReg("br", 30)>>
  \/ /\ w.op = "call" /\ w.f \in Functions /\ w.args \in ArgLists /\ Len(w.args) = Arity[w.f]
     /\ ws = CallAddress(w.f, w.args, a)
  \/ w.op = "call_reg" /\ w.r = 2 /\ w.args \in ArgLists /\ ws = CallReg(2, w.args)
  \/ /\ w.op = "exit" /\ w.to \in Functions
     /\ ws = <<Jump("b", w.to - a)>> \/ ws = AbsBranch(w.to)
  \/ w.op = "orig" /\ w.n \in 1 .. Len(Original) /\ ws = Relocated(w.n)

\* Statement i is in the buffer as ws.
Lies(i, ws) ==
  /\ Sequence(ws)
  /\ From(i + 1) = From(i) + Len(ws)
  /\ \A k \in 1 .. Len(ws) : buf[From(i) + k] = ws[k]
Spelled(i) == \E ws : Spells(script[i], pc + From(i), ws) /\ Lies(i, ws)

IsBranch(i) == script[i].op \in {"b", "bl", "test"}
Fixup(i) == [at |-> From(i), label |-> script[i].label, op |-> script[i].op]
\* A branch to a label is to be filled in, or was.
Branches(i) ==
  IsBranch(i) =>
    \/ failed
    \/ \E n \in DOMAIN fixups : fixups[n] = Fixup(i)
    \/ /\ script[i].label \in DOMAIN labels
       /\ buf[From(i) + 1] = Resolve(Fixup(i))
Places(i) ==
  script[i].op = "label" =>
    script[i].label \in DOMAIN labels /\ labels[script[i].label] = From(i)
\* The literal of statement i, if it has come.
Refers(i) ==
  script[i].op = "ldr_ref" =>
    /\ script[i].at = From(i)
    /\ \/ From(i) \notin Values /\ buf[From(i) + 1] = Ldr(1, 0)
       \/ \E j \in DOMAIN script :
            /\ script[j].op = "value" /\ script[j].ref = From(i)
            /\ buf[From(i) + 1] = Ldr(1, From(j) - From(i))
Answers(i) ==
  script[i].op = "value" =>
    \E j \in DOMAIN script : script[j].op = "ldr_ref" /\ script[i].ref = From(j)

Layout ==
  /\ Sequence(script) /\ Len(starts) = Len(script) /\ starts \in Seq(Nat) /\ Sequence(buf)
  /\ pc \in Pcs /\ From(1) = 0
  /\ \A i, j \in 1 .. Len(script) + 1 : i <= j => From(i) <= From(j)
  /\ \A i \in DOMAIN script : Spelled(i) /\ Branches(i) /\ Places(i) /\ Refers(i) /\ Answers(i)
Pending ==
  /\ Sequence(fixups)
  /\ \A n \in DOMAIN fixups : \E i \in DOMAIN script : IsBranch(i) /\ fixups[n] = Fixup(i)
  /\ flushed => fixups = << >>
Reading ==
  /\ passed \in Nat /\ taken \in passed .. Len(Original)
  /\ ahead = [i \in 1 .. taken - passed |-> passed + i]
  /\ eoi \in BOOLEAN /\ (eoi <=> taken = Len(Original))
CodeInv == Layout /\ Pending /\ Reading

-----------------------------------------------------------------------------
(* Sequences *)

\* A sequence is defined from 1 to its length.
LEMMA Indexed ==
  ASSUME NEW s, Sequence(s)
  PROVE  Len(s) \in Nat /\ DOMAIN s = 1 .. Len(s)
BY DEF Sequence

\* The empty sequence.
LEMMA Empty == Sequence(<< >>) /\ Len(<< >>) = 0
<1>1. << >> \in Seq({})
  OBVIOUS
<1> QED
  BY <1>1 DEF Sequence

\* u is s followed by t.
IsCat(u, s, t) ==
  /\ Sequence(u) /\ Len(u) = Len(s) + Len(t)
  /\ \A k \in 1 .. Len(s) : u[k] = s[k]
  /\ \A k \in 1 .. Len(t) : u[Len(s) + k] = t[k]

\* One sequence behind another.
LEMMA Cat ==
  ASSUME NEW s, NEW t, Sequence(s), Sequence(t), NEW u, u = s \o t
  PROVE  IsCat(u, s, t)
<1> PICK S : s \in Seq(S)
  BY DEF Sequence
<1> PICK T : t \in Seq(T)
  BY DEF Sequence
<1>1. s \in Seq(S \cup T) /\ t \in Seq(S \cup T)
  OBVIOUS
<1> DEFINE U == S \cup T
<1> HIDE DEF U
<1>2. s \in Seq(U) /\ t \in Seq(U)
  BY <1>1 DEF U
<1>3. /\ s \o t \in Seq(U)
      /\ Len(s \o t) = Len(s) + Len(t)
      /\ \A k \in 1 .. Len(s) : (s \o t)[k] = s[k]
      /\ \A k \in 1 .. Len(t) : (s \o t)[Len(s) + k] = t[k]
  BY <1>2
<1>4. Sequence(u)
  BY <1>3 DEF Sequence
<1>5. Len(u) = Len(s) + Len(t)
  BY <1>3
<1>6. \A k \in 1 .. Len(s) : u[k] = s[k]
  BY <1>3
<1>7. \A k \in 1 .. Len(t) : u[Len(s) + k] = t[k]
  BY <1>3
<1> QED
  BY <1>4, <1>5, <1>6, <1>7 DEF IsCat

\* It is a sequence.
LEMMA CatSequence ==
  ASSUME NEW s, NEW t, Sequence(s), Sequence(t)
  PROVE  Sequence(s \o t)
<1>1. PICK u : u = s \o t
  OBVIOUS
<1>2. IsCat(u, s, t)
  BY <1>1, Cat
<1> QED
  BY <1>1, <1>2 DEF IsCat

\* Append adds one at the end.
LEMMA Added ==
  ASSUME NEW s, NEW x, Sequence(s)
  PROVE  /\ Sequence(Append(s, x)) /\ Len(Append(s, x)) = Len(s) + 1
         /\ \A k \in 1 .. Len(s) : Append(s, x)[k] = s[k]
         /\ Append(s, x)[Len(s) + 1] = x
<1> PICK S : s \in Seq(S)
  BY DEF Sequence
<1> DEFINE U == S \cup {x}
<1>1. s \in Seq(U) /\ x \in U
  OBVIOUS
<1> HIDE DEF U
<1>2. Append(s, x) \in Seq(U) /\ Len(Append(s, x)) = Len(s) + 1
      /\ \A k \in 1 .. Len(s) : Append(s, x)[k] = s[k]
      /\ Append(s, x)[Len(s) + 1] = x
  BY <1>1
<1> QED
  BY <1>2 DEF Sequence

\* A function on 1 .. n is a sequence.
LEMMA Listed ==
  ASSUME NEW n \in Nat, NEW f, DOMAIN f = 1 .. n, f = [k \in 1 .. n |-> f[k]]
  PROVE  Sequence(f) /\ Len(f) = n
<1> DEFINE S == {f[k] : k \in 1 .. n}
<1>1. f \in [1 .. n -> S]
  OBVIOUS
<1>2. f \in Seq(S)
  BY <1>1
<1>3. Len(f) = n
  BY <1>2
<1> QED
  BY <1>2, <1>3 DEF Sequence

-----------------------------------------------------------------------------
(* What putting a statement keeps *)

\* The script goes on: what it has stays where it is.
Keeps ==
  /\ Sequence(script') /\ Sequence(buf') /\ starts' \in Seq(Nat)
  /\ Len(starts') = Len(script') /\ Len(script) <= Len(script')
  /\ \A i \in DOMAIN script : script'[i] = script[i]
  /\ \A i \in 1 .. Len(script) + 1 : From(i)' = From(i)
  /\ pc' = pc
Extends ==
  /\ Keeps /\ failed' = failed
  /\ \A l \in DOMAIN labels : l \in DOMAIN labels' /\ labels'[l] = labels[l]
  /\ \A n \in DOMAIN fixups : n \in DOMAIN fixups' /\ fixups'[n] = fixups[n]

\* Where the statements start lies within the buffer; the end of the last is the end of
\* it.
LEMMA Positions ==
  ASSUME Layout
  PROVE  /\ Len(script) \in Nat /\ DOMAIN script = 1 .. Len(script)
         /\ DOMAIN starts = 1 .. Len(script) /\ Len(buf) \in Nat /\ DOMAIN buf = 1 .. Len(buf)
         /\ \A i \in 1 .. Len(script) + 1 : From(i) \in Nat /\ From(i) <= Len(buf)
         /\ From(Len(script) + 1) = Len(buf)
<1>1. Len(script) \in Nat /\ DOMAIN script = 1 .. Len(script) /\ Len(buf) \in Nat
      /\ DOMAIN buf = 1 .. Len(buf)
  BY Indexed DEF Layout
<1>2. DOMAIN starts = 1 .. Len(script) /\ \A i \in 1 .. Len(script) : starts[i] \in Nat
  BY <1>1 DEF Layout
<1>3. \A i \in 1 .. Len(script) + 1 : From(i) \in Nat
  BY <1>1, <1>2 DEF From
<1>4. From(Len(script) + 1) = Len(buf)
  BY <1>1, <1>2 DEF From
<1>5. \A i \in 1 .. Len(script) + 1 : From(i) <= Len(buf)
  BY <1>1, <1>4 DEF Layout
<1> QED
  BY <1>1, <1>2, <1>3, <1>4, <1>5

\* The statements that are filled in later have one word, whichever it is.
LEMMA OneWord ==
  ASSUME NEW w, w.op \in {"b", "bl", "test", "ldr_ref"}, NEW a, NEW ws
  PROVE  Spells(w, a, ws) <=> Len(ws) = 1 /\ (w.op = "ldr_ref" => w.r = 1)
BY DEF Spells

\* A statement whose words are kept, or that is one word.
LEMMA SpelledKept ==
  ASSUME Layout, Keeps, NEW i \in DOMAIN script,
         \/ \A k \in From(i) + 1 .. From(i + 1) : buf'[k] = buf[k]
         \/ script[i].op \in {"b", "bl", "test", "ldr_ref"}
  PROVE  Spelled(i)'
<1>0. /\ i \in 1 .. Len(script) /\ Len(script) \in Nat /\ i + 1 \in 1 .. Len(script) + 1
      /\ From(i) \in Nat
  BY Positions
<1>1. From(i)' = From(i) /\ From(i + 1)' = From(i + 1) /\ script'[i] = script[i]
  <2>1. i \in 1 .. Len(script) + 1
    BY <1>0
  <2> QED
    BY <1>0, <2>1 DEF Keeps
<1>2. PICK ws : Spells(script[i], pc + From(i), ws) /\ Lies(i, ws)
  BY DEF Layout, Spelled
<1>3. Len(ws) \in Nat
  BY <1>2, Indexed DEF Lies
<1>4. CASE \A k \in From(i) + 1 .. From(i + 1) : buf'[k] = buf[k]
  <2>1. Lies(i, ws)'
    <3>1. \A k \in 1 .. Len(ws) : buf'[From(i) + k] = buf[From(i) + k]
      <4>1. \A k \in 1 .. Len(ws) : From(i) + k \in From(i) + 1 .. From(i + 1)
        BY <1>0, <1>2, <1>3 DEF Lies
      <4> QED
        BY <1>4, <4>1
    <3> QED
      BY <1>1, <1>2, <3>1 DEF Lies
  <2>2. Spells(script[i], pc + From(i), ws)'
    <3>1. pc' = pc
      BY DEF Keeps
    <3> QED
      BY <1>1, <1>2, <3>1
  <2> QED
    BY <2>1, <2>2 DEF Spelled
<1>5. CASE script[i].op \in {"b", "bl", "test", "ldr_ref"}
  <2>2. Len(ws) = 1 /\ (script[i].op = "ldr_ref" => script[i].r = 1)
    <3>1. Spells(script[i], pc + From(i), ws)
      BY <1>2
    <3> QED
      BY <1>5, <3>1, OneWord
  <2>1. PICK vs : Sequence(vs) /\ Len(vs) = 1 /\ vs[1] = buf'[From(i) + 1]
    BY One
  <2>3. Spells(script[i], pc + From(i), vs)'
    <3>1. Spells(script[i], pc' + From(i), vs)
      BY <1>5, <2>1, <2>2, OneWord
    <3> QED
      BY <1>1, <3>1
  <2>4. Lies(i, vs)'
    BY <1>1, <1>2, <2>1, <2>2 DEF Lies
  <2> QED
    BY <2>3, <2>4 DEF Spelled
<1> QED
  BY <1>4, <1>5

\* A branch whose word is kept is still to be filled in, or filled in right, and labels
\* stay.
LEMMA BranchesKept ==
  ASSUME Layout, Extends, NEW i \in DOMAIN script, buf'[From(i) + 1] = buf[From(i) + 1]
  PROVE  Branches(i)' /\ Places(i)'
<1>1. From(i)' = From(i) /\ script'[i] = script[i]
  <2>1. i \in 1 .. Len(script) + 1
    BY Positions
  <2> QED
    BY <2>1 DEF Keeps, Extends
<1>2. Fixup(i)' = Fixup(i) /\ IsBranch(i)' = IsBranch(i)
  BY <1>1 DEF Fixup, IsBranch
<1>3. Places(i)'
  BY <1>1 DEF Layout, Places, Keeps, Extends
<1>4. ASSUME IsBranch(i) PROVE Branches(i)'
  <2>1. CASE failed
    BY <2>1 DEF Branches, Keeps, Extends
  <2>2. CASE \E n \in DOMAIN fixups : fixups[n] = Fixup(i)
    BY <1>2, <2>2 DEF Branches, Keeps, Extends
  <2>3. CASE script[i].label \in DOMAIN labels /\ buf[From(i) + 1] = Resolve(Fixup(i))
    <3>1. Fixup(i).label = script[i].label
      BY DEF Fixup
    <3>2. script[i].label \in DOMAIN labels' /\ labels'[script[i].label] = labels[script[i].label]
      BY <2>3 DEF Keeps, Extends
    <3>3. Resolve(Fixup(i))' = Resolve(Fixup(i))
      BY <1>2, <3>1, <3>2 DEF Resolve
    <3> QED
      BY <1>1, <2>3, <3>2, <3>3 DEF Branches
  <2> QED
    BY <1>4, <2>1, <2>2, <2>3 DEF Branches, Layout
<1> QED
  BY <1>2, <1>3, <1>4 DEF Branches

\* A load of a literal stays what it is, as long as no literal for it comes.
LEMMA RefersKept ==
  ASSUME Layout, Keeps, NEW i \in DOMAIN script, buf'[From(i) + 1] = buf[From(i) + 1],
         \A j \in DOMAIN script' :
           j \notin DOMAIN script /\ script'[j].op = "value" => script'[j].ref # From(i)
  PROVE  Refers(i)'
<1>0. /\ i \in 1 .. Len(script) + 1 /\ DOMAIN script = 1 .. Len(script) /\ Len(script) \in Nat
  BY Positions
<1>1. From(i)' = From(i) /\ script'[i] = script[i]
  BY <1>0 DEF Keeps
<1>2. DOMAIN script \subseteq DOMAIN script' /\ \A j \in DOMAIN script : From(j)' = From(j)
  BY <1>0, Indexed DEF Keeps
<1>3. ASSUME script[i].op = "ldr_ref" PROVE Refers(i)'
  <2>1. script[i].at = From(i)
    BY <1>3 DEF Layout, Refers
  <2>2. CASE From(i) \notin Values /\ buf[From(i) + 1] = Ldr(1, 0)
    <3>1. From(i) \notin Values'
      <4>1. ASSUME NEW j \in DOMAIN script', script'[j].op = "value" PROVE script'[j].ref # From(i)
        <5>1. CASE j \in DOMAIN script
          BY <2>2, <4>1, <5>1 DEF Values, Keeps
        <5> QED
          BY <4>1, <5>1
      <4> QED
        BY <4>1 DEF Values
    <3> QED
      BY <1>1, <2>1, <2>2, <3>1 DEF Refers
  <2>3. CASE \E j \in DOMAIN script :
                /\ script[j].op = "value" /\ script[j].ref = From(i)
                /\ buf[From(i) + 1] = Ldr(1, From(j) - From(i))
    BY <1>1, <1>2, <2>1, <2>3 DEF Refers, Keeps
  <2> QED
    BY <1>3, <2>2, <2>3 DEF Layout, Refers
<1> QED
  BY <1>1, <1>3 DEF Refers

\* A literal still has its load.
LEMMA AnswersKept ==
  ASSUME Layout, Keeps, NEW i \in DOMAIN script
  PROVE  Answers(i)'
<1>1. DOMAIN script = 1 .. Len(script) /\ Len(script) \in Nat
  BY Positions
<1>2. DOMAIN script \subseteq DOMAIN script' /\ \A j \in DOMAIN script : From(j)' = From(j)
  BY <1>1, Indexed DEF Keeps
<1>3. Answers(i) /\ \A j \in DOMAIN script : script'[j] = script[j]
  BY DEF Layout, Keeps
<1> QED
  BY <1>2, <1>3 DEF Answers

\* A word of its own is not one of another statement.
LEMMA Apart ==
  ASSUME Layout, NEW i \in DOMAIN script, NEW j \in DOMAIN script, i # j,
         script[j].op \in {"b", "bl", "test", "ldr_ref"}
  PROVE  /\ From(j + 1) = From(j) + 1
         /\ From(j) + 1 \notin From(i) + 1 .. From(i + 1)
<1>1. PICK ws : Spells(script[j], pc + From(j), ws) /\ Lies(j, ws)
  BY DEF Layout, Spelled
<1>2. From(j + 1) = From(j) + 1
  <2>1. Spells(script[j], pc + From(j), ws) /\ From(j + 1) = From(j) + Len(ws)
    BY <1>1 DEF Lies
  <2>2. Len(ws) = 1
    BY <2>1, OneWord
  <2> QED
    BY <2>1, <2>2
<1>3. /\ i \in 1 .. Len(script) /\ j \in 1 .. Len(script) /\ Len(script) \in Nat
      /\ i + 1 \in 1 .. Len(script) + 1 /\ j + 1 \in 1 .. Len(script) + 1
      /\ i \in 1 .. Len(script) + 1 /\ j \in 1 .. Len(script) + 1
  BY Positions
<1>4. From(i) \in Nat /\ From(i + 1) \in Nat /\ From(j) \in Nat /\ From(j + 1) \in Nat
  BY <1>3, Positions
<1>5. CASE i < j
  <2>1. i + 1 <= j
    BY <1>3, <1>5
  <2>2. From(i + 1) <= From(j)
    BY <1>3, <2>1 DEF Layout
  <2> QED
    BY <1>2, <1>4, <2>2
<1>6. CASE j < i
  <2>1. j + 1 <= i
    BY <1>3, <1>6
  <2>2. From(j + 1) <= From(i)
    BY <1>3, <2>1 DEF Layout
  <2> QED
    BY <1>2, <1>4, <2>2
<1> QED
  BY <1>3, <1>5, <1>6

\* The statements stay in order when others come behind them.
LEMMA OrderExtends ==
  ASSUME Layout, Keeps,
         \A i, j \in Len(script) + 1 .. Len(script') + 1 : i <= j => From(i)' <= From(j)'
  PROVE  /\ From(1)' = 0 /\ pc' \in Pcs
         /\ \A i, j \in 1 .. Len(script') + 1 : i <= j => From(i)' <= From(j)'
<1>0. /\ Len(script) \in Nat /\ DOMAIN script = 1 .. Len(script) /\ Len(buf) \in Nat
      /\ Len(script') \in Nat /\ DOMAIN script' = 1 .. Len(script') /\ Len(buf') \in Nat
      /\ Len(script) <= Len(script')
  BY Positions, Indexed DEF Keeps
<1>1. From(1)' = 0 /\ pc' \in Pcs
  BY <1>0 DEF Layout, Keeps
<1>2. ASSUME NEW i \in 1 .. Len(script') + 1, NEW j \in 1 .. Len(script') + 1, i <= j
      PROVE  From(i)' <= From(j)'
  <2>1. CASE j <= Len(script) + 1
    <3>1. i \in 1 .. Len(script) + 1 /\ j \in 1 .. Len(script) + 1
      BY <1>0, <1>2, <2>1
    <3> QED
      BY <1>2, <3>1 DEF Keeps, Layout
  <2>2. CASE i > Len(script)
    <3>1. i \in Len(script) + 1 .. Len(script') + 1 /\ j \in Len(script) + 1 .. Len(script') + 1
      BY <1>0, <1>2, <2>2
    <3> QED
      BY <1>2, <3>1
  <2>3. CASE i <= Len(script) /\ j > Len(script) + 1
    <3>0. PICK m \in Nat : m = Len(script) + 1
      BY <1>0
    <3>1. /\ i \in 1 .. m /\ m \in 1 .. m /\ i <= m /\ m <= j
          /\ m \in Len(script) + 1 .. Len(script') + 1 /\ j \in Len(script) + 1 .. Len(script') + 1
      BY <1>0, <1>2, <2>3, <3>0
    <3>2. From(i)' = From(i) /\ From(m)' = From(m) /\ From(i) <= From(m) /\ From(m)' <= From(j)'
      <4>1. From(i)' = From(i) /\ From(m)' = From(m)
        <5>1. \A n \in 1 .. m : From(n)' = From(n)
          BY <3>0 DEF Keeps
        <5> QED
          BY <3>1, <5>1
      <4>2. From(i) <= From(m)
        <5>1. \A n, k \in 1 .. m : n <= k => From(n) <= From(k)
          BY <3>0 DEF Layout
        <5> QED
          BY <3>1, <5>1
      <4>3. From(m)' <= From(j)'
        BY <3>1
      <4> QED
        BY <4>1, <4>2, <4>3
    <3>3. From(i) \in Nat /\ From(m) \in Nat /\ From(j)' \in Nat
      <4>1. From(i) \in Nat /\ From(m) \in Nat
        BY <3>0, <3>1, Positions
      <4>2. From(j)' \in Nat
        BY <1>0, <1>2, <2>3 DEF From, Keeps
      <4> QED
        BY <4>1, <4>2
    <3> QED
      BY <3>2, <3>3
  <2> QED
    BY <1>0, <1>2, <2>1, <2>2, <2>3
<1> QED
  BY <1>1, <1>2

\* A step that leaves the words there are.
LEMMA LayoutExtends ==
  ASSUME Layout, Extends, \A k \in 1 .. Len(buf) : buf'[k] = buf[k],
         \A i \in Len(script) + 1 .. Len(script') :
           /\ From(i)' <= From(i + 1)'
           /\ Spelled(i)' /\ Branches(i)' /\ Places(i)' /\ Refers(i)'
           /\ script'[i].op # "value",
         \A i, j \in Len(script) + 1 .. Len(script') + 1 : i <= j => From(i)' <= From(j)'
  PROVE  Layout'
<1>0. /\ Len(script) \in Nat /\ DOMAIN script = 1 .. Len(script) /\ Len(buf) \in Nat
      /\ Len(script') \in Nat /\ DOMAIN script' = 1 .. Len(script') /\ Len(buf') \in Nat
      /\ Len(script) <= Len(script')
  BY Positions, Indexed DEF Keeps, Extends
<1>1. /\ From(1)' = 0 /\ pc' \in Pcs
      /\ \A i, j \in 1 .. Len(script') + 1 : i <= j => From(i)' <= From(j)'
  BY OrderExtends DEF Extends
<1>3. ASSUME NEW i \in DOMAIN script'
      PROVE  Spelled(i)' /\ Branches(i)' /\ Places(i)' /\ Refers(i)' /\ Answers(i)'
  <2>1. CASE i \in DOMAIN script
    <3>1. /\ From(i) \in Nat /\ From(i + 1) \in Nat /\ From(i + 1) <= Len(buf)
          /\ From(i) <= From(i + 1)
      <4>1. i \in 1 .. Len(script) + 1 /\ i + 1 \in 1 .. Len(script) + 1 /\ i <= i + 1
        BY <1>0, <2>1
      <4> QED
        BY <4>1, Positions DEF Layout
    <3>2. \A k \in From(i) + 1 .. From(i + 1) : buf'[k] = buf[k]
      <4>1. \A k \in From(i) + 1 .. From(i + 1) : k \in 1 .. Len(buf)
        BY <1>0, <3>1
      <4> QED
        BY <4>1
    <3>3. Spelled(i)'
      BY <2>1, <3>2, SpelledKept DEF Extends
    <3>4. ASSUME script[i].op \in {"b", "bl", "test", "ldr_ref"}
          PROVE  buf'[From(i) + 1] = buf[From(i) + 1]
      <4>1. PICK ws : Spells(script[i], pc + From(i), ws) /\ Lies(i, ws)
        BY <2>1 DEF Layout, Spelled
      <4>2. From(i + 1) = From(i) + 1
        <5>1. Spells(script[i], pc + From(i), ws) /\ From(i + 1) = From(i) + Len(ws)
          BY <4>1 DEF Lies
        <5>2. Len(ws) = 1
          BY <3>4, <5>1, OneWord
        <5> QED
          BY <5>1, <5>2
      <4>3. From(i) + 1 \in From(i) + 1 .. From(i + 1)
        BY <3>1, <4>2
      <4> QED
        BY <3>2, <4>3
    <3>5. script'[i] = script[i]
      BY <2>1 DEF Keeps, Extends
    <3>6. Branches(i)' /\ Places(i)'
      <4>1. CASE IsBranch(i)
        BY <2>1, <3>4, <4>1, BranchesKept DEF IsBranch
      <4>2. CASE ~ IsBranch(i)
        <5>1. Branches(i)'
          BY <3>5, <4>2 DEF IsBranch, Branches
        <5>2. From(i)' = From(i)
          BY <1>0, <2>1 DEF Keeps, Extends
        <5>3. Places(i)'
          BY <2>1, <3>5, <5>2 DEF Places, Layout, Keeps, Extends
        <5> QED
          BY <5>1, <5>3
      <4> QED
        BY <4>1, <4>2
    <3>7. Refers(i)'
      <4>1. CASE script[i].op = "ldr_ref"
        <5>1. \A j \in DOMAIN script' : j \notin DOMAIN script => script'[j].op # "value"
          BY <1>0
        <5> QED
          BY <2>1, <3>4, <4>1, <5>1, RefersKept DEF Extends
      <4>2. CASE script[i].op # "ldr_ref"
        BY <3>5, <4>2 DEF Refers
      <4> QED
        BY <4>1, <4>2
    <3> QED
      BY <2>1, <3>3, <3>6, <3>7, AnswersKept DEF Extends
  <2>2. CASE i \notin DOMAIN script
    <3>1. i \in Len(script) + 1 .. Len(script')
      BY <1>0, <2>2
    <3> QED
      BY <3>1 DEF Answers
  <2> QED
    BY <2>1, <2>2
<1> QED
  BY <1>1, <1>3 DEF Layout, Keeps, Extends

\* Statement s came behind n others, its words ws behind b others.
Grew(n, b, s, ws) ==
  /\ Extends /\ Len(script') = n + 1 /\ script'[n + 1] = s
  /\ From(n + 1)' = b /\ From(n + 2)' = b + Len(ws) /\ Spelled(n + 1)'

\* What changes when a statement is put.
LEMMA OneMore ==
  ASSUME Layout, NEW n \in Nat, n = Len(script), NEW b \in Nat, b = Len(buf),
         NEW s, NEW ws, Says(s), Sequence(ws), Sequence(buf'), Len(buf') = b + Len(ws),
         \A k \in 1 .. Len(ws) : buf'[b + k] = ws[k],
         Spells(s, pc + b, ws), pc' = pc, failed' = failed,
         \A l \in DOMAIN labels : l \in DOMAIN labels' /\ labels'[l] = labels[l],
         \A i \in DOMAIN fixups : i \in DOMAIN fixups' /\ fixups'[i] = fixups[i]
  PROVE  Grew(n, b, s, ws)
<1>0. /\ DOMAIN script = 1 .. n /\ DOMAIN starts = 1 .. n /\ starts \in Seq(Nat) /\ Sequence(script)
      /\ Len(starts) = n
  BY Positions DEF Layout
<1>1. /\ Sequence(script') /\ Len(script') = n + 1 /\ script'[n + 1] = s
      /\ \A i \in 1 .. n : script'[i] = script[i]
  <2>1. script' = Append(script, s)
    BY DEF Says
  <2> QED
    BY <1>0, <2>1, Added
<1>2. /\ starts' \in Seq(Nat) /\ Len(starts') = n + 1 /\ starts'[n + 1] = b
      /\ \A i \in 1 .. n : starts'[i] = starts[i]
  <2>1. starts' = Append(starts, b)
    BY DEF Says
  <2> QED
    BY <1>0, <2>1
<1>3. DOMAIN starts' = 1 .. n + 1
  BY <1>2
<1>4. From(n + 1)' = b /\ From(n + 2)' = b + Len(ws)
  <2>1. n + 1 \in DOMAIN starts' /\ n + 2 \notin DOMAIN starts'
    BY <1>3
  <2> QED
    BY <1>2, <2>1 DEF From
<1>5. \A i \in 1 .. Len(script) + 1 : From(i)' = From(i)
  <2>1. ASSUME NEW i \in 1 .. n PROVE From(i)' = From(i)
    <3>1. i \in DOMAIN starts /\ i \in DOMAIN starts' /\ starts'[i] = starts[i]
      BY <1>0, <1>2, <1>3
    <3> QED
      BY <3>1 DEF From
  <2>2. From(n + 1) = b
    BY Positions
  <2> QED
    BY <1>4, <2>1, <2>2
<1>6. Extends
  BY <1>0, <1>1, <1>2, <1>5 DEF Keeps, Extends
<1>7. Spelled(n + 1)'
  <2>1. Lies(n + 1, ws)'
    <3>1. (n + 1) + 1 = n + 2
      OBVIOUS
    <3> QED
      BY <1>4, <3>1 DEF Lies
  <2> QED
    BY <1>1, <1>4, <2>1 DEF Spelled
<1> QED
  BY <1>1, <1>4, <1>6, <1>7 DEF Grew

\* Emitting words leaves those before them.
LEMMA Appended ==
  ASSUME Layout, NEW ws, Sequence(ws), NEW b \in Nat, b = Len(buf), buf' = buf \o ws
  PROVE  /\ Sequence(buf') /\ Len(buf') = b + Len(ws)
         /\ \A k \in 1 .. b : buf'[k] = buf[k]
         /\ \A k \in 1 .. Len(ws) : buf'[b + k] = ws[k]
<1>1. IsCat(buf', buf, ws)
  BY Cat DEF Layout
<1> QED
  BY <1>1 DEF IsCat

\* A statement that ends the script, and is not the value of a reference.
LEMMA LayoutGrows ==
  ASSUME Layout, NEW n \in Nat, n = Len(script), NEW b \in Nat, b = Len(buf),
         NEW s, NEW ws, Says(s), Sequence(ws), buf' = buf \o ws,
         Spells(s, pc + b, ws), pc' = pc, failed' = failed, s.op # "value",
         \A l \in DOMAIN labels : l \in DOMAIN labels' /\ labels'[l] = labels[l],
         \A i \in DOMAIN fixups : i \in DOMAIN fixups' /\ fixups'[i] = fixups[i],
         s.op \in {"b", "bl", "test"} =>
           \E i \in DOMAIN fixups' : fixups'[i] = [at |-> b, label |-> s.label, op |-> s.op],
         s.op = "label" => s.label \in DOMAIN labels' /\ labels'[s.label] = b,
         s.op = "ldr_ref" => b \notin Values /\ s.at = b /\ ws[1] = Ldr(1, 0)
  PROVE  Layout' /\ Extends
<1>1. /\ Sequence(buf') /\ Len(buf') = b + Len(ws)
      /\ \A k \in 1 .. b : buf'[k] = buf[k]
      /\ \A k \in 1 .. Len(ws) : buf'[b + k] = ws[k]
  BY Appended
<1>2. /\ Extends /\ Len(script') = n + 1 /\ script'[n + 1] = s
      /\ From(n + 1)' = b /\ From(n + 2)' = b + Len(ws) /\ Spelled(n + 1)'
  <2>1. Grew(n, b, s, ws)
    BY <1>1, OneMore
  <2> QED
    BY <2>1 DEF Grew
<1>3. Branches(n + 1)'
  BY <1>2 DEF Branches, IsBranch, Fixup
<1>4. Places(n + 1)'
  BY <1>2 DEF Places
<1>5. Refers(n + 1)'
  <2>1. ASSUME s.op = "ldr_ref" PROVE Refers(n + 1)'
    <3>1. Len(ws) = 1
      BY <2>1, OneWord
    <3>2. buf'[b + 1] = Ldr(1, 0)
      BY <1>1, <2>1, <3>1
    <3>3. b \notin Values'
      <4>1. ASSUME NEW j \in DOMAIN script', script'[j].op = "value" PROVE script'[j].ref # b
        <5>1. j \in DOMAIN script
          <6>1. DOMAIN script' = 1 .. n + 1 /\ DOMAIN script = 1 .. n
            BY <1>2, Indexed, Positions DEF Keeps, Extends
          <6>2. j # n + 1
            BY <1>2, <4>1
          <6> QED
            BY <6>1, <6>2
        <5> QED
          BY <1>2, <2>1, <4>1, <5>1 DEF Values, Keeps, Extends
      <4> QED
        BY <4>1 DEF Values
    <3> QED
      BY <1>2, <2>1, <3>2, <3>3 DEF Refers
  <2> QED
    BY <1>2, <2>1 DEF Refers
<1>6. \A i \in Len(script) + 1 .. Len(script') : i = n + 1 /\ i + 1 = n + 2
  BY <1>2
<1>7. \A i, j \in Len(script) + 1 .. Len(script') + 1 : i <= j => From(i)' <= From(j)'
  <2>1. Len(ws) \in Nat
    BY Indexed
  <2>2. \A i \in Len(script) + 1 .. Len(script') + 1 : i = n + 1 \/ i = n + 2
    <3>1. Len(script') = n + 1 /\ Len(script) = n
      BY <1>2
    <3> QED
      BY <3>1
  <2>3. From(n + 1)' <= From(n + 1)' /\ From(n + 1)' <= From(n + 2)' /\ From(n + 2)' <= From(n + 2)'
    BY <1>2, <2>1
  <2>4. ASSUME NEW i \in Len(script) + 1 .. Len(script') + 1,
               NEW j \in Len(script) + 1 .. Len(script') + 1, i <= j
        PROVE  From(i)' <= From(j)'
    <3>1. (i = n + 1 /\ j = n + 1) \/ (i = n + 1 /\ j = n + 2) \/ (i = n + 2 /\ j = n + 2)
      <4>1. (i = n + 1 \/ i = n + 2) /\ (j = n + 1 \/ j = n + 2)
        BY <2>2
      <4>2. ~ (i = n + 2 /\ j = n + 1)
        <5>1. ~ n + 2 <= n + 1
          OBVIOUS
        <5> QED
          BY <2>4, <5>1
      <4> QED
        BY <4>1, <4>2
    <3> QED
      BY <2>3, <3>1
  <2> QED
    BY <2>4
<1>8. \A i \in Len(script) + 1 .. Len(script') :
        /\ From(i)' <= From(i + 1)'
        /\ Spelled(i)' /\ Branches(i)' /\ Places(i)' /\ Refers(i)'
        /\ script'[i].op # "value"
  <2>1. Len(ws) \in Nat
    BY Indexed
  <2>2. From(n + 1)' <= From(n + 2)'
    BY <1>2, <2>1
  <2> QED
    BY <1>2, <1>3, <1>4, <1>5, <1>6, <2>2
<1> QED
  BY <1>1, <1>2, <1>7, <1>8, LayoutExtends

\* The fixups stay fixups of their branches.
LEMMA PendingExtends ==
  ASSUME Layout, Pending, Extends, flushed' = FALSE, Sequence(fixups'),
         \A n \in DOMAIN fixups' : n \in DOMAIN fixups
           \/ \E i \in DOMAIN script' : IsBranch(i)' /\ fixups'[n] = Fixup(i)'
  PROVE  Pending'
<1>1. ASSUME NEW n \in DOMAIN fixups'
      PROVE  \E i \in DOMAIN script' : IsBranch(i)' /\ fixups'[n] = Fixup(i)'
  <2>1. CASE n \in DOMAIN fixups
    <3>1. PICK i \in DOMAIN script : IsBranch(i) /\ fixups[n] = Fixup(i)
      BY <2>1 DEF Pending
    <3>2. i \in DOMAIN script' /\ script'[i] = script[i] /\ From(i)' = From(i)
      <4>1. i \in 1 .. Len(script) /\ Len(script) \in Nat
        BY Positions
      <4>2. DOMAIN script' = 1 .. Len(script') /\ Len(script') \in Nat
        BY Indexed DEF Keeps, Extends
      <4> QED
        BY <4>1, <4>2 DEF Keeps, Extends
    <3> QED
      BY <2>1, <3>1, <3>2 DEF IsBranch, Fixup, Keeps, Extends
  <2> QED
    BY <1>1, <2>1
<1> QED
  BY <1>1 DEF Pending

-----------------------------------------------------------------------------
(* The words of statements *)

\* FlattenSeq of one, two or three sequences.
LEMMA FlattenFew ==
  ASSUME NEW S, NEW ss \in Seq(Seq(S))
  PROVE  /\ Len(ss) = 1 => FlattenSeq(ss) = ss[1]
         /\ Len(ss) = 2 => FlattenSeq(ss) = ss[1] \o ss[2]
         /\ Len(ss) = 3 => FlattenSeq(ss) = ss[1] \o ss[2] \o ss[3]
<1>1. ASSUME Len(ss) \in 1 .. 3
      PROVE  \E g : Joins(g, ss, Len(ss)) /\ FlattenSeq(ss) = g[Len(ss)]
  <2>1. Len(ss) # 0
    <3>1. 0 \notin 1 .. 3
      OBVIOUS
    <3> QED
      BY <1>1, <3>1, Zenon
  <2>2. PICK g \in [1 .. Len(ss) -> Seq(S)] : Joins(g, ss, Len(ss)) /\ FlattenSeq(ss) = g[Len(ss)]
    BY <2>1, FlattenJoins
  <2> QED
    BY <2>2
<1>2. CASE Len(ss) = 1
  <2>1. PICK g : Joins(g, ss, 1) /\ FlattenSeq(ss) = g[1]
    BY <1>1, <1>2
  <2>2. g[1] = ss[1]
    BY <2>1 DEF Joins
  <2> QED
    BY <1>2, <2>1, <2>2
<1>3. CASE Len(ss) = 2
  <2>1. PICK g : Joins(g, ss, 2) /\ FlattenSeq(ss) = g[2]
    BY <1>1, <1>3
  <2>2. g[1] = ss[1]
    BY <2>1 DEF Joins
  <2>3. g[2] = g[1] \o ss[2]
    BY <2>1 DEF Joins
  <2> QED
    BY <1>3, <2>1, <2>2, <2>3
<1>4. CASE Len(ss) = 3
  <2>1. PICK g : Joins(g, ss, 3) /\ FlattenSeq(ss) = g[3]
    BY <1>1, <1>4
  <2>2. g[1] = ss[1]
    BY <2>1 DEF Joins
  <2>3. g[2] = g[1] \o ss[2]
    BY <2>1 DEF Joins
  <2>4. g[3] = g[2] \o ss[3]
    BY <2>1 DEF Joins
  <2> QED
    BY <1>4, <2>1, <2>2, <2>3, <2>4
<1> QED
  BY <1>2, <1>3, <1>4

\* The words of LdrU64.
LEMMA LdrWords ==
  ASSUME NEW r, NEW v
  PROVE  LET w == LdrU64(r, v) IN
         /\ Sequence(w) /\ Len(w) = 4
         /\ w[1] = Ldr(r, 2) /\ w[2] = Jump("b", 3) /\ w[3] = [op |-> "lit", v |-> v]
         /\ w[4] = [op |-> "upper"]
<1> DEFINE s == <<Ldr(r, 2), Jump("b", 3)>>  t == <<[op |-> "lit", v |-> v], [op |-> "upper"]>>
<1>1. Sequence(s) /\ Len(s) = 2 /\ s[1] = Ldr(r, 2) /\ s[2] = Jump("b", 3)
  BY Two
<1>2. Sequence(t) /\ Len(t) = 2 /\ t[1] = [op |-> "lit", v |-> v] /\ t[2] = [op |-> "upper"]
  BY Two
<1>3. LdrU64(r, v) = s \o t
  BY DEF LdrU64, Lit
<1> DEFINE w == LdrU64(r, v)
<1> HIDE DEF s, t, w
<1>4. IsCat(w, s, t)
  <2>1. w = s \o t
    BY <1>3 DEF w
  <2> QED
    BY <1>1, <1>2, <2>1, Cat
<1>5. Sequence(w) /\ Len(w) = 2 + 2 /\ \A k \in 1 .. 2 : w[k] = s[k] /\ w[2 + k] = t[k]
  BY <1>1, <1>2, <1>4 DEF IsCat
<1>6. w[2 + 1] = t[1] /\ w[2 + 2] = t[2]
  BY <1>5
<1> QED
  BY <1>1, <1>2, <1>5, <1>6 DEF w

\* The words of AbsBranch.
LEMMA AbsWords ==
  ASSUME NEW t
  PROVE  LET w == AbsBranch(t) IN
         /\ Sequence(w) /\ Len(w) = 4
         /\ w[1] = Ldr(17, 2) /\ w[2] = OnReg("br", 17) /\ w[3] = [op |-> "lit", v |-> Address(t)]
<1> DEFINE s == <<Ldr(17, 2), OnReg("br", 17)>>
           u == <<[op |-> "lit", v |-> Address(t)], [op |-> "upper"]>>
<1>1. Sequence(s) /\ Len(s) = 2 /\ s[1] = Ldr(17, 2) /\ s[2] = OnReg("br", 17)
  BY Two
<1>2. Sequence(u) /\ Len(u) = 2 /\ u[1] = [op |-> "lit", v |-> Address(t)]
  BY Two
<1>3. AbsBranch(t) = s \o u
  BY DEF AbsBranch, Lit
<1> DEFINE w == AbsBranch(t)
<1> HIDE DEF s, u, w
<1>4. IsCat(w, s, u)
  <2>1. w = s \o u
    BY <1>3 DEF w
  <2> QED
    BY <1>1, <1>2, <2>1, Cat
<1>5. Sequence(w) /\ Len(w) = 2 + 2 /\ \A k \in 1 .. 2 : w[k] = s[k] /\ w[2 + k] = u[k]
  BY <1>1, <1>2, <1>4 DEF IsCat
<1>6. w[2 + 1] = u[1] /\ w[2 + 2] = u[2]
  BY <1>5
<1> QED
  BY <1>1, <1>2, <1>5, <1>6 DEF w

\* One word before an absolute branch.
IsBehind(w, x, t) == w = <<x>> \o AbsBranch(t)

\* A word and AbsBranch behind it.
LEMMA BeforeAbs ==
  ASSUME NEW x, NEW t, NEW w, IsBehind(w, x, t)
  PROVE  /\ Sequence(w) /\ Len(w) = 5
         /\ w[1] = x /\ w[2] = Ldr(17, 2) /\ w[3] = OnReg("br", 17)
         /\ w[4] = [op |-> "lit", v |-> Address(t)]
<1> DEFINE s == <<x>>  u == AbsBranch(t)
<1>1. Sequence(s) /\ Len(s) = 1 /\ s[1] = x
  BY One
<1>2. /\ Sequence(u) /\ Len(u) = 4
      /\ u[1] = Ldr(17, 2) /\ u[2] = OnReg("br", 17) /\ u[3] = [op |-> "lit", v |-> Address(t)]
  BY AbsWords
<1>3. w = s \o u
  BY DEF IsBehind
<1> HIDE DEF s, u
<1>4. IsCat(w, s, u)
  BY <1>1, <1>2, <1>3, Cat
<1>5. /\ Sequence(w) /\ Len(w) = 1 + 4 /\ \A k \in 1 .. 1 : w[k] = s[k]
      /\ \A k \in 1 .. 4 : w[1 + k] = u[k]
  BY <1>1, <1>2, <1>4 DEF IsCat
<1>6. w[1 + 1] = u[1] /\ w[1 + 2] = u[2] /\ w[1 + 3] = u[3]
  BY <1>5
<1> QED
  BY <1>1, <1>2, <1>5, <1>6

\* Setup makes a sequence of words.
LEMMA SetupWords ==
  ASSUME NEW arg, NEW d
  PROVE  Sequence(Setup(arg, d))
<1>1. CASE arg[1] = "imm"
  BY <1>1, LdrWords DEF Setup
<1>2. CASE arg[1] # "imm" /\ arg[2] = d
  BY <1>2, Empty DEF Setup
<1>3. CASE arg[1] # "imm" /\ arg[2] # d
  BY <1>3, One DEF Setup
<1> QED
  BY <1>1, <1>2, <1>3

\* The setup of the arguments, from the last to the first.
LEMMA ArgumentWords ==
  ASSUME NEW args
  PROVE  /\ Len(args) = 0 => Arguments(args) = << >>
         /\ Len(args) = 1 => Arguments(args) = Setup(args[1], 0)
         /\ Len(args) = 2 => Arguments(args) = Setup(args[2], 1) \o Setup(args[1], 0)
         /\ Len(args) = 3 =>
              Arguments(args) = Setup(args[3], 2) \o Setup(args[2], 1) \o Setup(args[1], 0)
<1> DEFINE n == Len(args)
           word(i) == Setup(args[n + 1 - i], n - i)
           ss == [i \in 1 .. n |-> word(i)]
<1>1. CASE n = 0
  <2>1. ss = << >>
    BY <1>1
  <2>2. Arguments(args) = << >>
    BY <2>1, FlattenEmpty DEF Arguments
  <2> QED
    BY <1>1, <2>2
<1>2. PICK S : Setup(args[1], 0) \in Seq(S) /\ Setup(args[2], 1) \in Seq(S) /\ Setup(args[3], 2) \in Seq(S)
  <2>1. PICK A : Setup(args[1], 0) \in Seq(A)
    BY SetupWords DEF Sequence
  <2>2. PICK B : Setup(args[2], 1) \in Seq(B)
    BY SetupWords DEF Sequence
  <2>3. PICK C : Setup(args[3], 2) \in Seq(C)
    BY SetupWords DEF Sequence
  <2>4. Seq(A) \subseteq Seq(A \cup B \cup C) /\ Seq(B) \subseteq Seq(A \cup B \cup C)
        /\ Seq(C) \subseteq Seq(A \cup B \cup C)
    OBVIOUS
  <2> QED
    BY <2>1, <2>2, <2>3, <2>4
<1>3. CASE n = 1
  <2>1. word(1) = Setup(args[1], 0)
    BY <1>3
  <2>2. \A i \in 1 .. n : word(i) \in Seq(S)
    <3>1. \A i \in 1 .. n : i = 1
      BY <1>3
    <3> HIDE DEF word
    <3> QED
      BY <1>2, <2>1, <3>1
  <2>3. ss \in Seq(Seq(S)) /\ Len(ss) = n /\ ss[1] = word(1)
    <3> HIDE DEF word
    <3> QED
      BY <1>3, <2>2
  <2>4. FlattenSeq(ss) = Setup(args[1], 0)
    <3> HIDE DEF ss, word
    <3> QED
      BY <1>3, <2>1, <2>3, FlattenFew
  <2> QED
    BY <1>3, <2>4 DEF Arguments
<1>4. CASE n = 2
  <2>1. word(1) = Setup(args[2], 1) /\ word(2) = Setup(args[1], 0)
    BY <1>4
  <2>2. \A i \in 1 .. n : word(i) \in Seq(S)
    <3>1. \A i \in 1 .. n : i = 1 \/ i = 2
      BY <1>4
    <3> HIDE DEF word
    <3> QED
      BY <1>2, <2>1, <3>1
  <2>3. ss \in Seq(Seq(S)) /\ Len(ss) = n /\ ss[1] = word(1) /\ ss[2] = word(2)
    <3> HIDE DEF word
    <3> QED
      BY <1>4, <2>2
  <2>4. FlattenSeq(ss) = Setup(args[2], 1) \o Setup(args[1], 0)
    <3> HIDE DEF ss, word
    <3> QED
      BY <1>4, <2>1, <2>3, FlattenFew
  <2> QED
    BY <1>4, <2>4 DEF Arguments
<1>5. CASE n = 3
  <2>1. word(1) = Setup(args[3], 2) /\ word(2) = Setup(args[2], 1) /\ word(3) = Setup(args[1], 0)
    BY <1>5
  <2>2. \A i \in 1 .. n : word(i) \in Seq(S)
    <3>1. \A i \in 1 .. n : i = 1 \/ i = 2 \/ i = 3
      BY <1>5
    <3> HIDE DEF word
    <3> QED
      BY <1>2, <2>1, <3>1
  <2>3. ss \in Seq(Seq(S)) /\ Len(ss) = n /\ ss[1] = word(1) /\ ss[2] = word(2) /\ ss[3] = word(3)
    <3> HIDE DEF word
    <3> QED
      BY <1>5, <2>2
  <2>4. FlattenSeq(ss) = Setup(args[3], 2) \o Setup(args[2], 1) \o Setup(args[1], 0)
    <3> HIDE DEF ss, word
    <3> QED
      BY <1>5, <2>1, <2>3, FlattenFew
  <2> QED
    BY <1>5, <2>4 DEF Arguments
<1> QED
  BY <1>1, <1>3, <1>4, <1>5

\* Arguments are at most three, registers of the model or immediate values.
LEMMA ArgumentLists ==
  ASSUME NEW args \in ArgLists
  PROVE  /\ Len(args) \in 0 .. 3 /\ DOMAIN args = 1 .. Len(args)
         /\ \A i \in DOMAIN args : args[i] \in {Reg(r) : r \in X} \cup {Imm(v) : v \in Immediates}
<1>1. PICK n \in 0 .. 3 : args \in [1 .. n -> {Reg(r) : r \in X} \cup {Imm(v) : v \in Immediates}]
  BY CodeAssumption
<1>2. args \in Seq({Reg(r) : r \in X} \cup {Imm(v) : v \in Immediates})
  BY <1>1
<1>3. Len(args) = n
  BY <1>1, <1>2
<1> QED
  BY <1>1, <1>3

\* Calls are sequences of words.
LEMMA CallWords ==
  ASSUME NEW args \in ArgLists
  PROVE  /\ Sequence(Arguments(args))
         /\ \A f, a : Sequence(CallAddress(f, args, a))
         /\ \A r : Sequence(CallReg(r, args))
<1>1. Sequence(Arguments(args))
  <2>1. Sequence(Setup(args[3], 2)) /\ Sequence(Setup(args[2], 1)) /\ Sequence(Setup(args[1], 0))
    BY SetupWords
  <2>2. /\ Sequence(Setup(args[2], 1) \o Setup(args[1], 0))
        /\ Sequence(Setup(args[3], 2) \o Setup(args[2], 1))
    BY <2>1, CatSequence
  <2>3. Sequence(Setup(args[3], 2) \o Setup(args[2], 1) \o Setup(args[1], 0))
    BY <2>1, <2>2, CatSequence
  <2>4. Len(args) = 0 \/ Len(args) = 1 \/ Len(args) = 2 \/ Len(args) = 3
    BY ArgumentLists
  <2>5. Arguments(args) \in {<< >>, Setup(args[1], 0), Setup(args[2], 1) \o Setup(args[1], 0),
                            Setup(args[3], 2) \o Setup(args[2], 1) \o Setup(args[1], 0)}
    BY <2>4, ArgumentWords
  <2> QED
    BY <2>1, <2>2, <2>3, <2>5, Empty
<1>2. ASSUME NEW f, NEW a PROVE Sequence(CallAddress(f, args, a))
  <2> DEFINE at == a + Len(Arguments(args))
  <2>1. CASE CanBranch(at, f)
    <3>1. CallAddress(f, args, a) = Arguments(args) \o <<Jump("bl", f - a - Len(Arguments(args)))>>
      BY <2>1 DEF CallAddress
    <3> QED
      BY <1>1, <3>1, One, CatSequence
  <2>2. CASE ~ CanBranch(at, f)
    <3>1. CallAddress(f, args, a) =
            Arguments(args) \o (LdrU64(Len(args), Address(f)) \o <<OnReg("blr", Len(args))>>)
      BY <2>2 DEF CallAddress
    <3>2. Sequence(LdrU64(Len(args), Address(f)) \o <<OnReg("blr", Len(args))>>)
      BY LdrWords, One, CatSequence
    <3> QED
      BY <1>1, <3>1, <3>2, CatSequence
  <2> QED
    BY <2>1, <2>2
<1>3. ASSUME NEW r PROVE Sequence(CallReg(r, args))
  BY <1>1, One, CatSequence DEF CallReg
<1> QED
  BY <1>1, <1>2, <1>3

\* So is each instruction relocated; other than plain ones go to functions.
LEMMA RelocatedWords ==
  ASSUME NEW i \in 1 .. Len(Original)
  PROVE  /\ Sequence(Relocated(i))
         /\ Original[i].op \in {"plain", "test", "bl", "b"}
         /\ Original[i].op # "plain" => Original[i].to \in Functions
<1>0. /\ Original[i].op \in {"plain", "test", "bl", "b"}
      /\ Original[i].op # "plain" => Original[i].to \in Functions
  BY CodeAssumption
<1>1. CASE Original[i].op = "plain"
  <2>1. Relocated(i) = <<[op |-> "plain", n |-> i]>>
    BY <1>1 DEF Relocated
  <2> QED
    BY <1>0, <2>1, One
<1>2. CASE Original[i].op # "plain"
  <2>1. Relocated(i) \in {AbsBranch(Original[i].to), AbsCall(Original[i].to), SkipTest(Original[i].to)}
    BY <1>0, <1>2 DEF Relocated
  <2>2. Sequence(AbsBranch(Original[i].to))
    BY AbsWords
  <2>3. Sequence(AbsCall(Original[i].to))
    <3>1. PICK w, x : w = AbsCall(Original[i].to) /\ x = [op |-> "adr", r |-> 30, by |-> 5]
      OBVIOUS
    <3>2. IsBehind(w, x, Original[i].to)
      BY <3>1 DEF AbsCall, IsBehind
    <3>3. Sequence(w)
      BY <3>2, BeforeAbs
    <3> QED
      BY <3>1, <3>3
  <2>4. Sequence(SkipTest(Original[i].to))
    <3>1. PICK w, x : w = SkipTest(Original[i].to) /\ x = [op |-> "skip", by |-> 5]
      OBVIOUS
    <3>2. IsBehind(w, x, Original[i].to)
      BY <3>1 DEF SkipTest, IsBehind
    <3>3. Sequence(w)
      BY <3>2, BeforeAbs
    <3> QED
      BY <3>1, <3>3
  <2> QED
    BY <1>0, <2>1, <2>2, <2>3, <2>4
<1> QED
  BY <1>1, <1>2

-----------------------------------------------------------------------------
(* Every step keeps the invariant *)

\* A literal that has come is one of an earlier reference.
LEMMA NewReference ==
  ASSUME Layout
  PROVE  Len(buf) \notin Values
<1>1. ASSUME NEW j \in DOMAIN script, script[j].op = "value", script[j].ref = Len(buf) PROVE FALSE
  <2>1. PICK i \in DOMAIN script : script[i].op = "ldr_ref" /\ From(i) = Len(buf)
    BY <1>1 DEF Layout, Answers
  <2>2. PICK ws : Spells(script[i], pc + From(i), ws) /\ Lies(i, ws)
    BY DEF Layout, Spelled
  <2>3. From(i + 1) = From(i) + 1
    <3>1. Spells(script[i], pc + From(i), ws) /\ From(i + 1) = From(i) + Len(ws)
      BY <2>2 DEF Lies
    <3>2. script[i].op \in {"b", "bl", "test", "ldr_ref"}
      BY <2>1
    <3>3. Len(ws) = 1
      BY <3>1, <3>2, OneWord
    <3> QED
      BY <3>1, <3>3
  <2>4. i + 1 \in 1 .. Len(script) + 1 /\ Len(buf) \in Nat
    BY Positions
  <2>5. From(i + 1) <= Len(buf)
    BY <2>4, Positions
  <2> QED
    BY <2>1, <2>3, <2>4, <2>5
<1> QED
  BY <1>1 DEF Values

\* What does not touch the relocator keeps what is known of it.
LEMMA ReadingKept ==
  ASSUME Reading, UNCHANGED <<taken, ahead, eoi, passed>>
  PROVE  Reading'
BY DEF Reading

\* Statements of which nothing is filled in later.
LEMMA PutStep ==
  ASSUME CodeInv, NEW s, NEW ws, Put(s, ws), Sequence(ws), Spells(s, pc + Len(buf), ws),
         s.op \notin {"value", "b", "bl", "test", "label"},
         s.op = "ldr_ref" => s.at = Len(buf) /\ ws[1] = Ldr(1, 0)
  PROVE  CodeInv'
<1>1. PICK n \in Nat : n = Len(script)
  BY Positions DEF CodeInv
<1>2. PICK b \in Nat : b = Len(buf)
  BY Positions DEF CodeInv
<1>3. Says(s) /\ buf' = buf \o ws /\ pc' = pc /\ labels' = labels /\ fixups' = fixups
      /\ failed' = failed /\ UNCHANGED <<taken, ahead, eoi, passed>> /\ flushed' = FALSE
  BY DEF Put, Emits, Says, Relocator
<1>4. s.op = "ldr_ref" => b \notin Values
  BY <1>2, NewReference DEF CodeInv
<1>5. Layout' /\ Extends
  BY <1>1, <1>2, <1>3, <1>4, LayoutGrows DEF CodeInv
<1>6. Pending'
  BY <1>3, <1>5, PendingExtends DEF CodeInv, Pending
<1>7. Reading'
  BY <1>3, ReadingKept DEF CodeInv
<1> QED
  BY <1>5, <1>6, <1>7 DEF CodeInv

\* PutOne keeps the invariant.
LEMMA PutOneStep ==
  ASSUME CodeInv, PutOne
  PROVE  CodeInv'
<1>1. ASSUME NEW r \in {0, 1}, NEW v \in Immediates, Put([op |-> "ldr", r |-> r, v |-> Imm(v)], LdrU64(r, Imm(v)))
      PROVE  CodeInv'
  <2> DEFINE s == [op |-> "ldr", r |-> r, v |-> Imm(v)]
  <2>1. s.op = "ldr" /\ s.r = r /\ s.v = Imm(v)
    OBVIOUS
  <2> HIDE DEF s
  <2>2. Spells(s, pc + Len(buf), LdrU64(r, Imm(v)))
    BY <2>1 DEF Spells
  <2>3. Sequence(LdrU64(r, Imm(v)))
    BY LdrWords
  <2>4. Put(s, LdrU64(r, Imm(v)))
    BY <1>1 DEF s
  <2> QED
    BY <2>1, <2>2, <2>3, <2>4, PutStep
<1>2. ASSUME Put([op |-> "push", a |-> 0, b |-> 1], <<Pair("push", 0, 1)>>) PROVE CodeInv'
  <2> DEFINE s == [op |-> "push", a |-> 0, b |-> 1]  ws == <<Pair("push", 0, 1)>>
  <2>1. s.op = "push" /\ s.a = 0 /\ s.b = 1 /\ Put(s, ws)
    BY <1>2
  <2>2. Sequence(ws)
    BY One
  <2> HIDE DEF s
  <2>3. Spells(s, pc + Len(buf), ws)
    BY <2>1 DEF Spells
  <2> QED
    BY <2>1, <2>2, <2>3, PutStep
<1>3. ASSUME NEW r \in {0, 1}, Put([op |-> "pop", a |-> r, b |-> r + 1], <<Pair("pop", r, r + 1)>>)
      PROVE  CodeInv'
  <2> DEFINE s == [op |-> "pop", a |-> r, b |-> r + 1]  ws == <<Pair("pop", r, r + 1)>>
  <2>1. s.op = "pop" /\ s.a = r /\ s.b = r + 1 /\ Put(s, ws)
    BY <1>3
  <2>2. Sequence(ws)
    BY One
  <2> HIDE DEF s
  <2>3. Spells(s, pc + Len(buf), ws)
    BY <2>1 DEF Spells
  <2> QED
    BY <2>1, <2>2, <2>3, PutStep
<1>4. ASSUME Put([op |-> "push_all"], PushAll) PROVE CodeInv'
  <2> DEFINE s == [op |-> "push_all"]
  <2>1. s.op = "push_all" /\ Put(s, PushAll)
    BY <1>4
  <2>2. Sequence(PushAll)
    BY Four DEF PushAll
  <2> HIDE DEF s
  <2>3. Spells(s, pc + Len(buf), PushAll)
    BY <2>1 DEF Spells
  <2> QED
    BY <2>1, <2>2, <2>3, PutStep
<1>5. ASSUME Put([op |-> "pop_all"], PopAll) PROVE CodeInv'
  <2> DEFINE s == [op |-> "pop_all"]
  <2>1. s.op = "pop_all" /\ Put(s, PopAll)
    BY <1>5
  <2>2. Sequence(PopAll)
    BY Four DEF PopAll
  <2> HIDE DEF s
  <2>3. Spells(s, pc + Len(buf), PopAll)
    BY <2>1 DEF Spells
  <2> QED
    BY <2>1, <2>2, <2>3, PutStep
<1>6. ASSUME Put([op |-> "ret"], <<OnReg("br", 30)>>) PROVE CodeInv'
  <2> DEFINE s == [op |-> "ret"]  ws == <<OnReg("br", 30)>>
  <2>1. s.op = "ret" /\ Put(s, ws)
    BY <1>6
  <2>2. Sequence(ws)
    BY One
  <2> HIDE DEF s
  <2>3. Spells(s, pc + Len(buf), ws)
    BY <2>1 DEF Spells
  <2> QED
    BY <2>1, <2>2, <2>3, PutStep
<1> QED
  BY <1>1, <1>2, <1>3, <1>4, <1>5, <1>6 DEF PutOne

\* PutCall keeps the invariant.
LEMMA PutCallStep ==
  ASSUME CodeInv, PutCall
  PROVE  CodeInv'
<1>1. ASSUME NEW args \in ArgLists, NEW f \in Functions, Len(args) = Arity[f], PutCallAddress(f, args)
      PROVE  CodeInv'
  <2> DEFINE s == [op |-> "call", f |-> f, args |-> args]  ws == CallAddress(f, args, EmitPc)
  <2>1. s.op = "call" /\ s.f = f /\ s.args = args /\ Put(s, ws)
    BY <1>1 DEF PutCallAddress
  <2>2. Sequence(ws)
    BY CallWords
  <2>3. ws = CallAddress(f, args, pc + Len(buf))
    BY DEF EmitPc
  <2> HIDE DEF s, ws
  <2>4. Spells(s, pc + Len(buf), ws)
    BY <1>1, <2>1, <2>3 DEF Spells
  <2> QED
    BY <2>1, <2>2, <2>4, PutStep
<1>2. ASSUME NEW args \in ArgLists, PutCallReg(2, args) PROVE CodeInv'
  <2> DEFINE s == [op |-> "call_reg", r |-> 2, args |-> args]  ws == CallReg(2, args)
  <2>1. s.op = "call_reg" /\ s.r = 2 /\ s.args = args /\ Put(s, ws)
    BY <1>2 DEF PutCallReg
  <2>2. Sequence(ws)
    BY CallWords
  <2> HIDE DEF s
  <2>3. Spells(s, pc + Len(buf), ws)
    BY <2>1 DEF Spells
  <2> QED
    BY <2>1, <2>2, <2>3, PutStep
<1> QED
  BY <1>1, <1>2 DEF PutCall

\* A branch to a function keeps the invariant.
LEMMA PutExitStep ==
  ASSUME CodeInv, NEW f \in Functions, PutBImm(f) \/ PutBranchAddress(f)
  PROVE  CodeInv'
<1> DEFINE s == [op |-> "exit", to |-> f]
<1>1. s.op = "exit" /\ s.to = f
  OBVIOUS
<1>2. PICK ws : Put(s, ws) /\ Sequence(ws)
                /\ (ws = <<Jump("b", f - (pc + Len(buf)))>> \/ ws = AbsBranch(f))
  <2>1. CASE PutBImm(f)
    <3>1. Put(s, <<Jump("b", f - (pc + Len(buf)))>>)
      BY <2>1 DEF PutBImm, EmitPc
    <3> QED
      BY <3>1, One
  <2>2. CASE PutBranchAddress(f)
    BY <2>2, AbsWords DEF PutBranchAddress
  <2> QED
    BY <2>1, <2>2
<1> HIDE DEF s
<1>3. Spells(s, pc + Len(buf), ws)
  BY <1>1, <1>2 DEF Spells
<1> QED
  BY <1>1, <1>2, <1>3, PutStep

\* PutLabel keeps the invariant.
LEMMA PutLabelStep ==
  ASSUME CodeInv, NEW l, PutLabel(l)
  PROVE  CodeInv'
<1> DEFINE s == [op |-> "label", label |-> l]
<1>0. s.op = "label" /\ s.label = l /\ Says(s)
  BY DEF PutLabel
<1> HIDE DEF s
<1>1. PICK n \in Nat : n = Len(script)
  BY Positions DEF CodeInv
<1>2. PICK b \in Nat : b = Len(buf)
  BY Positions DEF CodeInv
<1>3. pc' = pc /\ buf' = buf /\ fixups' = fixups
      /\ failed' = failed /\ UNCHANGED <<taken, ahead, eoi, passed>> /\ flushed' = FALSE
  BY DEF PutLabel, Says, Relocator
<1>4. /\ l \in DOMAIN labels' /\ labels'[l] = b
      /\ \A k \in DOMAIN labels : k \in DOMAIN labels' /\ labels'[k] = labels[k]
  BY <1>2 DEF PutLabel
<1>5. buf' = buf \o << >>
  <2>1. PICK S : buf \in Seq(S)
    BY DEF CodeInv, Layout, Sequence
  <2>2. buf \o << >> = buf
    BY <2>1, ConcatEmptySeq
  <2> QED
    BY <1>3, <2>2
<1>6. Spells(s, pc + b, << >>)
  BY <1>0 DEF Spells
<1>7. Layout' /\ Extends
  BY <1>0, <1>1, <1>2, <1>3, <1>4, <1>5, <1>6, Empty, LayoutGrows DEF CodeInv
<1>8. Pending'
  BY <1>3, <1>7, PendingExtends DEF CodeInv, Pending
<1>9. Reading'
  BY <1>3, ReadingKept DEF CodeInv
<1> QED
  BY <1>7, <1>8, <1>9 DEF CodeInv

\* PutBranchLabel keeps the invariant: the fixup it leaves is the one of its word.
LEMMA PutBranchLabelStep ==
  ASSUME CodeInv, NEW l, NEW op \in {"b", "bl", "test"}, PutBranchLabel(op, l)
  PROVE  CodeInv'
<1> DEFINE s == [op |-> op, label |-> l]
           w == IF op = "test" THEN Test(0) ELSE Jump(op, 0)
<1>0. s.op = op /\ s.label = l /\ Says(s)
  BY DEF PutBranchLabel
<1>1. PICK n \in Nat : n = Len(script)
  BY Positions DEF CodeInv
<1>2. PICK b \in Nat : b = Len(buf)
  BY Positions DEF CodeInv
<1> DEFINE f == [at |-> b, label |-> l, op |-> op]
<1>3. pc' = pc /\ buf' = buf \o <<w>> /\ labels' = labels
      /\ failed' = failed /\ UNCHANGED <<taken, ahead, eoi, passed>> /\ flushed' = FALSE
  BY DEF PutBranchLabel, Says, Emits, Relocator
<1>4. /\ Sequence(fixups') /\ Len(fixups') = Len(fixups) + 1 /\ fixups'[Len(fixups) + 1] = f
      /\ \A k \in 1 .. Len(fixups) : fixups'[k] = fixups[k]
      /\ Len(fixups) \in Nat /\ DOMAIN fixups = 1 .. Len(fixups)
  <2>1. fixups' = Append(fixups, f)
    BY <1>2 DEF PutBranchLabel
  <2>2. Sequence(fixups)
    BY DEF CodeInv, Pending
  <2> HIDE DEF f
  <2> QED
    BY <2>1, <2>2, Added, Indexed
<1>5. DOMAIN fixups' = 1 .. Len(fixups) + 1
  BY <1>4, Indexed
<1> HIDE DEF s, w
<1>6. Sequence(<<w>>) /\ Len(<<w>>) = 1
  BY One
<1>7. Spells(s, pc + b, <<w>>)
  BY <1>0, <1>6, OneWord
<1>8. \A i \in DOMAIN fixups : i \in DOMAIN fixups' /\ fixups'[i] = fixups[i]
  BY <1>4, <1>5
<1>9. \E i \in DOMAIN fixups' : fixups'[i] = [at |-> b, label |-> s.label, op |-> s.op]
  BY <1>0, <1>4, <1>5
<1>10. Layout' /\ Extends
  BY <1>0, <1>1, <1>2, <1>3, <1>6, <1>7, <1>8, <1>9, LayoutGrows DEF CodeInv
<1>11. Pending'
  <2>1. PICK j : j = n + 1
    OBVIOUS
  <2>2. j \in DOMAIN script' /\ script'[j] = s /\ From(j)' = b
    <3>1. script' = Append(script, s) /\ starts' = Append(starts, b)
      BY <1>0, <1>2 DEF Says
    <3>2. Sequence(script) /\ starts \in Seq(Nat) /\ Len(starts) = n
      BY <1>1 DEF CodeInv, Layout
    <3>3. script'[j] = s /\ Sequence(script') /\ Len(script') = n + 1
      BY <1>1, <2>1, <3>1, <3>2, Added
    <3>4. j \in DOMAIN script'
      BY <1>1, <2>1, <3>3, Indexed
    <3>5. starts'[j] = b /\ j \in DOMAIN starts'
      BY <2>1, <3>1, <3>2
    <3> QED
      BY <3>3, <3>4, <3>5 DEF From
  <2>3. IsBranch(j)' /\ Fixup(j)' = f
    BY <1>0, <2>2 DEF IsBranch, Fixup
  <2>4. \A k \in DOMAIN fixups' : k \in DOMAIN fixups \/ fixups'[k] = f
    BY <1>4, <1>5
  <2> HIDE DEF f
  <2>5. \A k \in DOMAIN fixups' : k \in DOMAIN fixups
          \/ \E i \in DOMAIN script' : IsBranch(i)' /\ fixups'[k] = Fixup(i)'
    BY <2>2, <2>3, <2>4
  <2> QED
    BY <1>3, <1>4, <1>10, <2>5, PendingExtends DEF CodeInv
<1>12. Reading'
  BY <1>3, ReadingKept DEF CodeInv
<1> QED
  BY <1>10, <1>11, <1>12 DEF CodeInv

\* PutLdrRegRef keeps the invariant.
LEMMA PutLdrRegRefStep ==
  ASSUME CodeInv, PutLdrRegRef(1)
  PROVE  CodeInv'
<1> DEFINE s == [op |-> "ldr_ref", r |-> 1, at |-> Len(buf)]  ws == <<Ldr(1, 0)>>
<1>1. s.op = "ldr_ref" /\ s.r = 1 /\ s.at = Len(buf) /\ Put(s, ws)
  BY DEF PutLdrRegRef
<1>2. Sequence(ws) /\ Len(ws) = 1 /\ ws[1] = Ldr(1, 0)
  BY One
<1> HIDE DEF s, ws
<1>3. Spells(s, pc + Len(buf), ws)
  BY <1>1, <1>2, OneWord
<1> QED
  BY <1>1, <1>2, <1>3, PutStep

\* The words of a literal.
LEMMA LitWords ==
  ASSUME NEW v
  PROVE  /\ Sequence(Lit(v)) /\ Len(Lit(v)) = 2 /\ Lit(v)[1] = [op |-> "lit", v |-> v]
BY Two DEF Lit

\* PutLdrRegValue keeps the invariant: it fills in the word of its load and no other.
LEMMA PutLdrRegValueStep ==
  ASSUME CodeInv, NEW at \in OpenRefs, PutLdrRegValue(at, Imm(9))
  PROVE  CodeInv'
<1>1. PICK n \in Nat : n = Len(script)
  BY Positions DEF CodeInv
<1>2. PICK b \in Nat : b = Len(buf)
  BY Positions DEF CodeInv
<1>3. /\ DOMAIN script = 1 .. n /\ DOMAIN buf = 1 .. b /\ Layout
      /\ \A k \in 1 .. n + 1 : From(k) \in Nat /\ From(k) <= b
      /\ From(n + 1) = b
  BY <1>1, <1>2, Positions DEF CodeInv
<1>4. PICK i \in 1 .. n : script[i].op = "ldr_ref" /\ script[i].at = at /\ at \notin Values
  BY <1>3 DEF OpenRefs
<1>5. /\ From(i) = at /\ buf[at + 1] = Ldr(1, 0)
      /\ \A j \in 1 .. n : script[j].op = "value" => script[j].ref # at
  <2>1. \A j \in 1 .. n : script[j].op = "value" => script[j].ref # at
    BY <1>3, <1>4 DEF Values
  <2>2. Refers(i)
    BY <1>3, <1>4 DEF Layout
  <2> QED
    BY <1>3, <1>4, <2>1, <2>2 DEF Refers
<1>6. at \in Nat /\ at + 1 \in 1 .. b
  <2>1. From(i + 1) = at + 1
    <3>1. PICK ws : Spells(script[i], pc + From(i), ws) /\ Lies(i, ws)
      BY <1>3 DEF Layout, Spelled
    <3>2. script[i].op \in {"b", "bl", "test", "ldr_ref"}
      BY <1>4
    <3>3. Len(ws) = 1
      BY <3>1, <3>2, OneWord
    <3> QED
      BY <1>5, <3>1, <3>3 DEF Lies
  <2>2. i \in 1 .. n + 1 /\ i + 1 \in 1 .. n + 1
    OBVIOUS
  <2> QED
    BY <1>3, <1>5, <2>1, <2>2
<1> DEFINE s == [op |-> "value", ref |-> at, v |-> Imm(9)]
<1>7. s.op = "value" /\ s.ref = at /\ s.v = Imm(9) /\ Says(s)
  BY DEF PutLdrRegValue
<1> HIDE DEF s
<1>8. PICK mid : mid = [buf EXCEPT ![at + 1].by = b - at]
  OBVIOUS
<1>9. Sequence(mid) /\ Len(mid) = b /\ mid[at + 1] = Ldr(1, b - at)
      /\ \A k \in 1 .. b : k # at + 1 => mid[k] = buf[k]
  <2>1. DOMAIN mid = 1 .. b /\ mid = [k \in 1 .. b |-> mid[k]]
    BY <1>3, <1>8
  <2>2. Sequence(mid) /\ Len(mid) = b
    BY <2>1, Listed
  <2>3. mid[at + 1] = [buf[at + 1] EXCEPT !.by = b - at]
    BY <1>3, <1>6, <1>8
  <2>4. mid[at + 1] = Ldr(1, b - at)
    BY <1>5, <2>3 DEF Ldr
  <2>5. \A k \in 1 .. b : k # at + 1 => mid[k] = buf[k]
    BY <1>3, <1>8
  <2> QED
    BY <2>2, <2>4, <2>5
<1>10. PICK ws : ws = Lit(Imm(9)) /\ Sequence(ws) /\ Len(ws) = 2
  BY LitWords
<1>11. IsCat(buf', mid, ws)
  <2>1. buf' = mid \o ws
    BY <1>2, <1>8, <1>10 DEF PutLdrRegValue
  <2> QED
    BY <1>9, <1>10, <2>1, Cat
<1>12. /\ Sequence(buf') /\ Len(buf') = b + 2 /\ buf'[at + 1] = Ldr(1, b - at)
       /\ \A k \in 1 .. b : k # at + 1 => buf'[k] = buf[k]
       /\ \A k \in 1 .. 2 : buf'[b + k] = ws[k]
  BY <1>6, <1>9, <1>10, <1>11 DEF IsCat
<1>13. pc' = pc /\ labels' = labels /\ fixups' = fixups
       /\ failed' = failed /\ UNCHANGED <<taken, ahead, eoi, passed>> /\ flushed' = FALSE
  BY DEF PutLdrRegValue, Says, Relocator
<1>14. Spells(s, pc + b, ws)
  BY <1>7, <1>10 DEF Spells
<1>15. /\ Extends /\ Len(script') = n + 1 /\ script'[n + 1] = s
       /\ From(n + 1)' = b /\ From(n + 2)' = b + 2 /\ Spelled(n + 1)'
  <2>1. Len(buf') = b + Len(ws) /\ \A k \in 1 .. Len(ws) : buf'[b + k] = ws[k]
    BY <1>10, <1>12
  <2>2. /\ \A l \in DOMAIN labels : l \in DOMAIN labels' /\ labels'[l] = labels[l]
        /\ \A k \in DOMAIN fixups : k \in DOMAIN fixups' /\ fixups'[k] = fixups[k]
    BY <1>13
  <2>3. Grew(n, b, s, ws)
    <3>1. Layout /\ Says(s) /\ Sequence(ws) /\ Sequence(buf') /\ pc' = pc /\ failed' = failed
      <4>1. Layout /\ Says(s) /\ Sequence(ws)
        BY <1>3, <1>7, <1>10
      <4>2. Sequence(buf')
        BY <1>12
      <4> QED
        BY <1>13, <4>1, <4>2, Zenon
    <3> QED
      BY <1>1, <1>2, <1>14, <2>1, <2>2, <3>1, OneMore
  <2> QED
    BY <1>10, <2>3 DEF Grew
<1>16. /\ Keeps /\ DOMAIN script' = 1 .. n + 1 /\ \A k \in 1 .. n + 1 : From(k)' = From(k)
       /\ \A k \in 1 .. n : script'[k] = script[k]
  BY <1>1, <1>3, <1>15, Indexed DEF Keeps, Extends
<1>17. ASSUME NEW j \in 1 .. n PROVE Spelled(j)'
  <2>1. CASE j = i
    <3>1. script[i].op \in {"b", "bl", "test", "ldr_ref"}
      BY <1>4
    <3> QED
      BY <1>3, <1>16, <2>1, <3>1, SpelledKept
  <2>2. CASE j # i
    <3>1. at + 1 \notin From(j) + 1 .. From(j + 1)
      <4>1. script[i].op \in {"b", "bl", "test", "ldr_ref"}
        BY <1>4
      <4> QED
        BY <1>3, <1>5, <2>2, <4>1, Apart
    <3>2. \A k \in From(j) + 1 .. From(j + 1) : k \in 1 .. b
      <4>1. j \in 1 .. n + 1 /\ j + 1 \in 1 .. n + 1
        OBVIOUS
      <4> QED
        BY <1>3, <4>1
    <3>3. \A k \in From(j) + 1 .. From(j + 1) : buf'[k] = buf[k]
      BY <1>12, <3>1, <3>2
    <3> QED
      BY <1>3, <1>16, <3>3, SpelledKept
  <2> QED
    BY <2>1, <2>2
<1>18. ASSUME NEW j \in 1 .. n, j # i, script[j].op \in {"b", "bl", "test", "ldr_ref"}
       PROVE  buf'[From(j) + 1] = buf[From(j) + 1]
  <2>1. /\ From(j + 1) = From(j) + 1
        /\ From(j) + 1 \notin From(i) + 1 .. From(i + 1)
    BY <1>3, <1>18, Apart
  <2>2. From(i + 1) = From(i) + 1
    <3>1. script[i].op \in {"b", "bl", "test", "ldr_ref"}
      BY <1>4
    <3> QED
      BY <1>3, <1>18, <3>1, Apart
  <2>3. j \in 1 .. n + 1 /\ j + 1 \in 1 .. n + 1
    OBVIOUS
  <2>4. From(j) \in Nat /\ From(j + 1) <= b
    BY <1>3, <2>3
  <2>5. From(j) + 1 # at + 1 /\ From(j) + 1 \in 1 .. b
    BY <1>5, <1>6, <2>1, <2>2, <2>4
  <2> QED
    BY <1>12, <2>5
<1>19. ASSUME NEW j \in 1 .. n PROVE Branches(j)' /\ Places(j)'
  <2>1. CASE IsBranch(j)
    <3>1. script[j].op \in {"b", "bl", "test", "ldr_ref"} /\ j # i
      BY <1>4, <2>1 DEF IsBranch
    <3> QED
      BY <1>3, <1>15, <1>18, <3>1, BranchesKept
  <2>2. CASE ~ IsBranch(j)
    <3>1. Branches(j)'
      BY <1>16, <2>2 DEF IsBranch, Branches
    <3>2. From(j)' = From(j) /\ script'[j] = script[j]
      BY <1>16
    <3>3. Places(j)'
      BY <1>3, <1>13, <3>2 DEF Places, Layout
    <3> QED
      BY <3>1, <3>3
  <2> QED
    BY <2>1, <2>2
<1>20. ASSUME NEW j \in 1 .. n PROVE Refers(j)'
  <2>1. CASE j = i
    <3>1. From(i)' = at /\ script'[i] = script[i]
      BY <1>5, <1>16
    <3>2. PICK m : m = n + 1
      OBVIOUS
    <3>3. m \in DOMAIN script' /\ script'[m].op = "value" /\ script'[m].ref = at /\ From(m)' = b
      BY <1>7, <1>15, <1>16, <3>2
    <3> QED
      BY <1>4, <1>12, <2>1, <3>1, <3>3 DEF Refers
  <2>2. CASE j # i /\ script[j].op = "ldr_ref"
    <3>1. script[j].op \in {"b", "bl", "test", "ldr_ref"}
      BY <2>2
    <3>2. buf'[From(j) + 1] = buf[From(j) + 1]
      BY <1>18, <2>2, <3>1
    <3>3. From(j) # at
      <4>1. From(j) + 1 \notin From(i) + 1 .. From(i + 1)
        BY <1>3, <2>2, <3>1, Apart
      <4>2. From(i + 1) = From(i) + 1
        <5>1. script[i].op \in {"b", "bl", "test", "ldr_ref"}
          BY <1>4
        <5> QED
          BY <1>3, <2>2, <5>1, Apart
      <4>3. j \in 1 .. n + 1
        OBVIOUS
      <4> QED
        BY <1>3, <1>5, <1>6, <4>1, <4>2, <4>3
    <3>4. \A k \in DOMAIN script' :
            k \notin DOMAIN script /\ script'[k].op = "value" => script'[k].ref # From(j)
      <4>1. \A k \in DOMAIN script' : k \notin DOMAIN script => k = n + 1
        BY <1>3, <1>16
      <4> QED
        BY <1>7, <1>15, <3>3, <4>1
    <3> QED
      BY <1>3, <1>16, <3>2, <3>4, RefersKept
  <2>3. CASE script[j].op # "ldr_ref"
    BY <1>16, <2>3 DEF Refers
  <2> QED
    BY <2>1, <2>2, <2>3
<1>21. Branches(n + 1)' /\ Places(n + 1)' /\ Refers(n + 1)'
  BY <1>7, <1>15 DEF Branches, IsBranch, Places, Refers
<1>22. ASSUME NEW j \in 1 .. n PROVE Answers(j)'
  BY <1>3, <1>16, AnswersKept
<1>23. Answers(n + 1)'
  <2>1. i \in DOMAIN script' /\ script'[i].op = "ldr_ref" /\ From(i)' = at
    BY <1>4, <1>5, <1>16
  <2> QED
    BY <1>7, <1>15, <2>1 DEF Answers
<1>24. /\ From(1)' = 0 /\ pc' \in Pcs
       /\ \A k, j \in 1 .. Len(script') + 1 : k <= j => From(k)' <= From(j)'
  <2>1. \A k \in Len(script) + 1 .. Len(script') + 1 : k = n + 1 \/ k = n + 2
    BY <1>1, <1>15
  <2>2. From(n + 1)' <= From(n + 1)' /\ From(n + 1)' <= From(n + 2)' /\ From(n + 2)' <= From(n + 2)'
    BY <1>15
  <2>3. ~ n + 2 <= n + 1
    OBVIOUS
  <2>4. \A k, j \in Len(script) + 1 .. Len(script') + 1 : k <= j => From(k)' <= From(j)'
    BY <2>1, <2>2, <2>3
  <2> QED
    BY <1>3, <1>16, <2>4, OrderExtends
<1>25. \A j \in DOMAIN script' : Spelled(j)' /\ Branches(j)' /\ Places(j)' /\ Refers(j)' /\ Answers(j)'
  <2>1. \A j \in DOMAIN script' : j \in 1 .. n \/ j = n + 1
    BY <1>16
  <2> QED
    BY <1>15, <1>17, <1>19, <1>20, <1>21, <1>22, <1>23, <2>1
<1>26. Layout'
  BY <1>16, <1>24, <1>25 DEF Layout, Keeps
<1>27. Pending'
  BY <1>3, <1>13, <1>15, PendingExtends DEF CodeInv, Pending
<1>28. Reading'
  BY <1>13, ReadingKept DEF CodeInv
<1> QED
  BY <1>26, <1>27, <1>28 DEF CodeInv

\* Flush keeps the invariant: what it fills in are the words of branches, each with the
\* offset of its label, and where it cannot the failure is on record.
LEMMA FlushStep ==
  ASSUME CodeInv, Flush
  PROVE  CodeInv'
<1>1. PICK n \in Nat : n = Len(script)
  BY Positions DEF CodeInv
<1>2. PICK b \in Nat : b = Len(buf)
  BY Positions DEF CodeInv
<1>3. /\ DOMAIN script = 1 .. n /\ DOMAIN buf = 1 .. b /\ Layout
      /\ \A k \in 1 .. n + 1 : From(k) \in Nat /\ From(k) <= b
  BY <1>1, <1>2, Positions DEF CodeInv
<1> DEFINE of(k) == {m \in Resolved : fixups[m].at + 1 = k}
<1>4. buf' = [k \in 1 .. b |->
                IF of(k) = {} THEN buf[k] ELSE Resolve(fixups[CHOOSE m \in of(k) : TRUE])]
  BY <1>3 DEF Flush
<1>5. /\ pc' = pc /\ labels' = labels /\ script' = script /\ starts' = starts /\ fixups' = << >>
      /\ flushed' = (Resolved = DOMAIN fixups) /\ failed' = (failed \/ Resolved # DOMAIN fixups)
      /\ UNCHANGED <<taken, ahead, eoi, passed>>
  BY DEF Flush, Relocator
<1>6. Sequence(buf') /\ Len(buf') = b
  <2>1. DOMAIN buf' = 1 .. b /\ buf' = [k \in 1 .. b |-> buf'[k]]
    BY <1>4
  <2> QED
    BY <2>1, Listed
<1>7. Keeps /\ \A k \in 1 .. n + 1 : From(k)' = From(k)
  <2>1. \A k : From(k)' = From(k)
    BY <1>2, <1>5, <1>6 DEF From
  <2> QED
    BY <1>3, <1>5, <1>6, <2>1 DEF Keeps, Layout
\* Every fixup is the one of the branch where it lies.
<1>8. ASSUME NEW k \in 1 .. b, of(k) # {}
      PROVE  \E i \in 1 .. n :
               /\ IsBranch(i) /\ k = From(i) + 1
               /\ buf'[k] = Resolve(Fixup(i)) /\ ~ CannotResolve(Fixup(i))
  <2>1. PICK m \in of(k) : buf'[k] = Resolve(fixups[m])
    BY <1>4, <1>8
  <2>2. m \in DOMAIN fixups /\ m \in Resolved /\ fixups[m].at + 1 = k
    BY DEF Resolved
  <2>3. PICK i \in DOMAIN script : IsBranch(i) /\ fixups[m] = Fixup(i)
    BY <2>2 DEF CodeInv, Pending
  <2>4. ~ CannotResolve(fixups[m])
    <3>1. m \in 1 .. m
      <4>1. m \in Nat \ {0}
        BY <2>2, Indexed DEF CodeInv, Pending
      <4> QED
        BY <4>1
    <3> QED
      BY <2>2, <3>1 DEF Resolved
  <2>5. k = From(i) + 1
    BY <2>2, <2>3 DEF Fixup
  <2> QED
    BY <1>3, <2>1, <2>3, <2>4, <2>5
<1>9. \A k \in 1 .. b : of(k) = {} => buf'[k] = buf[k]
  BY <1>4
<1>10. ASSUME NEW i \in 1 .. n, NEW k \in From(i) + 1 .. From(i + 1), ~ IsBranch(i)
       PROVE  buf'[k] = buf[k]
  <2>1. k \in 1 .. b
    <3>1. i \in 1 .. n + 1 /\ i + 1 \in 1 .. n + 1
      OBVIOUS
    <3> QED
      BY <1>3, <3>1
  <2>2. ASSUME of(k) # {} PROVE FALSE
    <3>1. PICK j \in 1 .. n : IsBranch(j) /\ k = From(j) + 1
      BY <1>8, <2>1, <2>2
    <3>2. i # j /\ script[j].op \in {"b", "bl", "test", "ldr_ref"}
      BY <1>10, <3>1 DEF IsBranch
    <3> QED
      BY <1>3, <1>10, <3>1, <3>2, Apart
  <2> QED
    BY <1>9, <2>1, <2>2
<1>11. ASSUME NEW i \in 1 .. n PROVE Spelled(i)'
  <2>1. CASE IsBranch(i)
    <3>1. script[i].op \in {"b", "bl", "test", "ldr_ref"}
      BY <2>1 DEF IsBranch
    <3> QED
      BY <1>3, <1>7, <3>1, SpelledKept
  <2>2. CASE ~ IsBranch(i)
    <3>1. \A k \in From(i) + 1 .. From(i + 1) : buf'[k] = buf[k]
      BY <1>10, <2>2
    <3> QED
      BY <1>3, <1>7, <3>1, SpelledKept
  <2> QED
    BY <2>1, <2>2
<1>12. ASSUME NEW i \in 1 .. n, IsBranch(i) PROVE Branches(i)'
  <2>1. CASE failed'
    BY <2>1 DEF Branches
  <2>2. CASE ~ failed'
    <3>1. ~ failed /\ Resolved = DOMAIN fixups
      BY <1>5, <2>2
    <3>2. /\ From(i) + 1 \in 1 .. b
          /\ \A j \in 1 .. n : j # i => From(i) + 1 \notin From(j) + 1 .. From(j + 1)
      <4>1. script[i].op \in {"b", "bl", "test", "ldr_ref"}
        BY <1>12 DEF IsBranch
      <4>2. \A j \in 1 .. n : j # i =>
              /\ From(i + 1) = From(i) + 1
              /\ From(i) + 1 \notin From(j) + 1 .. From(j + 1)
        BY <1>3, <4>1, Apart
      <4>3. From(i + 1) = From(i) + 1
        <5>1. PICK ws : Spells(script[i], pc + From(i), ws) /\ Lies(i, ws)
          BY <1>3 DEF Layout, Spelled
        <5>2. Len(ws) = 1
          BY <4>1, <5>1, OneWord
        <5> QED
          BY <5>1, <5>2 DEF Lies
      <4>4. i \in 1 .. n + 1 /\ i + 1 \in 1 .. n + 1
        OBVIOUS
      <4> QED
        BY <1>3, <4>2, <4>3, <4>4
    <3>3. PICK k \in 1 .. b : k = From(i) + 1
      BY <3>2
    <3>4. ASSUME of(k) # {} PROVE script[i].label \in DOMAIN labels /\ buf'[k] = Resolve(Fixup(i))
      <4>1. PICK j \in 1 .. n :
               /\ IsBranch(j) /\ k = From(j) + 1
               /\ buf'[k] = Resolve(Fixup(j)) /\ ~ CannotResolve(Fixup(j))
        BY <1>8, <3>4
      <4>2. j = i
        <5>1. From(j + 1) = From(j) + 1
          <6>1. script[j].op \in {"b", "bl", "test", "ldr_ref"}
            BY <4>1 DEF IsBranch
          <6>2. PICK ws : Spells(script[j], pc + From(j), ws) /\ Lies(j, ws)
            BY <1>3 DEF Layout, Spelled
          <6>3. Len(ws) = 1
            BY <6>1, <6>2, OneWord
          <6> QED
            BY <6>2, <6>3 DEF Lies
        <5>2. j \in 1 .. n + 1
          OBVIOUS
        <5>3. k \in From(j) + 1 .. From(j + 1)
          BY <1>3, <4>1, <5>1, <5>2
        <5> QED
          BY <3>2, <3>3, <5>3
      <4>3. Fixup(i).label = script[i].label
        BY DEF Fixup
      <4> QED
        BY <4>1, <4>2, <4>3 DEF CannotResolve
    <3>5. script[i].label \in DOMAIN labels /\ buf'[k] = Resolve(Fixup(i))
      <4>1. CASE of(k) # {}
        BY <3>4, <4>1
      <4>2. CASE of(k) = {}
        <5>1. ~ \E m \in DOMAIN fixups : fixups[m] = Fixup(i)
          <6>1. ASSUME NEW m \in DOMAIN fixups, fixups[m] = Fixup(i) PROVE FALSE
            <7>1. fixups[m].at + 1 = k
              BY <3>3, <6>1 DEF Fixup
            <7> QED
              BY <3>1, <4>2, <7>1
          <6> QED
            BY <6>1
        <5>2. Branches(i)
          BY <1>3 DEF Layout
        <5> QED
          BY <1>9, <1>12, <3>1, <3>3, <4>2, <5>1, <5>2 DEF Branches
      <4> QED
        BY <4>1, <4>2
    <3>6. From(i)' = From(i)
      BY <1>7
    <3>7. Resolve(Fixup(i))' = Resolve(Fixup(i))
      BY <1>5, <3>6 DEF Resolve, Fixup
    <3> QED
      BY <1>5, <3>3, <3>5, <3>6, <3>7 DEF Branches
  <2> QED
    BY <2>1, <2>2
<1>13. ASSUME NEW i \in 1 .. n PROVE Branches(i)' /\ Places(i)' /\ Answers(i)'
  <2>1. CASE IsBranch(i)
    BY <1>3, <1>5, <1>7, <1>12, <2>1, AnswersKept DEF IsBranch, Places
  <2>2. CASE ~ IsBranch(i)
    <3>1. Branches(i)'
      BY <1>5, <2>2 DEF IsBranch, Branches
    <3>2. Places(i)
      BY <1>3 DEF Layout
    <3>3. Places(i)'
      BY <1>5, <1>7, <3>2 DEF Places
    <3> QED
      BY <1>3, <1>7, <3>1, <3>3, AnswersKept
  <2> QED
    BY <2>1, <2>2
<1>14. ASSUME NEW i \in 1 .. n PROVE Refers(i)'
  <2>1. CASE script[i].op = "ldr_ref"
    <3>1. ~ IsBranch(i)
      BY <2>1 DEF IsBranch
    <3>2. From(i) + 1 \in From(i) + 1 .. From(i + 1)
      <4>1. PICK ws : Spells(script[i], pc + From(i), ws) /\ Lies(i, ws)
        BY <1>3 DEF Layout, Spelled
      <4>2. script[i].op \in {"b", "bl", "test", "ldr_ref"}
        BY <2>1
      <4>3. Len(ws) = 1
        BY <4>1, <4>2, OneWord
      <4>4. From(i + 1) = From(i) + 1
        BY <4>1, <4>3 DEF Lies
      <4>5. From(i) \in Nat
        BY <1>3
      <4> QED
        BY <4>4, <4>5
    <3>3. buf'[From(i) + 1] = buf[From(i) + 1]
      BY <1>10, <3>1, <3>2
    <3> QED
      BY <1>3, <1>5, <1>7, <3>3, RefersKept
  <2>2. CASE script[i].op # "ldr_ref"
    BY <1>5, <2>2 DEF Refers
  <2> QED
    BY <2>1, <2>2
<1>15. Layout'
  <2>1. \A i \in DOMAIN script' : Spelled(i)' /\ Branches(i)' /\ Places(i)' /\ Refers(i)' /\ Answers(i)'
    BY <1>3, <1>5, <1>11, <1>13, <1>14
  <2>2. /\ pc' \in Pcs /\ From(1)' = 0
        /\ \A i, j \in 1 .. Len(script') + 1 : i <= j => From(i)' <= From(j)'
    <3>1. 1 \in 1 .. n + 1
      OBVIOUS
    <3>2. From(1)' = 0
      BY <1>3, <1>7, <3>1 DEF Layout
    <3>3. \A i, j \in 1 .. n + 1 : i <= j => From(i) <= From(j)
      BY <1>1, <1>3 DEF Layout
    <3>4. \A i, j \in 1 .. Len(script') + 1 : i <= j => From(i)' <= From(j)'
      BY <1>1, <1>5, <1>7, <3>3
    <3> QED
      BY <1>3, <1>5, <3>2, <3>4 DEF Layout
  <2> QED
    BY <1>7, <2>1, <2>2 DEF Layout, Keeps
<1>16. Pending'
  BY <1>5, Empty DEF Pending
<1>17. Reading'
  BY <1>5, ReadingKept DEF CodeInv
<1> QED
  BY <1>15, <1>16, <1>17 DEF CodeInv

\* Reset keeps the invariant.
LEMMA ResetStep ==
  ASSUME CodeInv, NEW p \in Pcs, Reset(p)
  PROVE  CodeInv'
<1>1. Layout' /\ Pending'
  <2>1. pc' \in Pcs /\ buf' = << >> /\ script' = << >> /\ starts' = << >> /\ fixups' = << >>
    BY DEF Reset
  <2>2. /\ Sequence(script') /\ Sequence(buf') /\ Sequence(fixups') /\ starts' \in Seq(Nat)
        /\ Len(script') = 0 /\ Len(buf') = 0 /\ Len(starts') = 0
        /\ DOMAIN script' = {} /\ DOMAIN fixups' = {} /\ DOMAIN starts' = {}
    BY <2>1, Empty
  <2>3. \A i : From(i)' = 0
    BY <2>2 DEF From
  <2> QED
    BY <2>1, <2>2, <2>3 DEF Layout, Pending
<1>2. Reading'
  BY ReadingKept DEF Reset, Relocator, CodeInv
<1> QED
  BY <1>1, <1>2 DEF CodeInv

\* The invariant holds at first.
LEMMA CodeInit ==
  ASSUME WriterInit
  PROVE  CodeInv
<1>1. Layout /\ Pending
  <2>1. Sequence(script) /\ Sequence(buf) /\ Sequence(fixups) /\ starts \in Seq(Nat)
        /\ Len(script) = 0 /\ Len(buf) = 0 /\ Len(starts) = 0
        /\ DOMAIN script = {} /\ DOMAIN fixups = {} /\ DOMAIN starts = {}
    BY Empty DEF WriterInit
  <2>2. \A i : From(i) = 0
    BY <2>1 DEF From
  <2> QED
    BY <2>1, <2>2 DEF Layout, Pending, WriterInit
<1>2. Reading
  <2>1. [i \in 1 .. 0 - 0 |-> 0 + i] = << >>
    OBVIOUS
  <2>2. passed = 0 /\ taken = 0 /\ ahead = << >> /\ eoi = FALSE
    BY DEF WriterInit
  <2>3. Len(Original) \in Nat \ {0}
    BY CodeAssumption
  <2>4. ahead = [i \in 1 .. taken - passed |-> passed + i]
    BY <2>1, <2>2
  <2>5. passed \in Nat /\ taken \in passed .. Len(Original)
    BY <2>2, <2>3
  <2>6. taken # Len(Original)
    BY <2>2, <2>3
  <2>7. eoi \in BOOLEAN /\ (eoi <=> taken = Len(Original))
    BY <2>2, <2>6, Zenon
  <2> QED
    BY <2>4, <2>5, <2>7 DEF Reading
<1> QED
  BY <1>1, <1>2 DEF CodeInv

-----------------------------------------------------------------------------
(* The relocator *)

\* The queue, with m more instructions read.
LEMMA Queue ==
  ASSUME Reading, NEW m \in Nat
  PROVE  /\ taken \in Nat /\ passed \in Nat /\ passed <= taken /\ Len(ahead) = taken - passed
         /\ ahead \o ReadMore(m) \in Seq(Nat) /\ Len(ahead \o ReadMore(m)) = taken - passed + m
         /\ \A u : u = ahead \o ReadMore(m) => \A i \in 1 .. taken - passed + m : u[i] = passed + i
<1>1. taken \in Nat /\ passed \in Nat /\ passed <= taken
  <2>1. Len(Original) \in Nat
    BY CodeAssumption
  <2> QED
    BY <2>1 DEF Reading
<1>2. PICK n \in Nat : n = taken - passed
  BY <1>1
<1>3. ahead = [i \in 1 .. n |-> passed + i]
  BY <1>2 DEF Reading
<1>4. ahead \in Seq(Nat) /\ Len(ahead) = n
  BY <1>1, <1>3
<1>5. PICK t : t = ReadMore(m)
  OBVIOUS
<1>6. t \in Seq(Nat) /\ Len(t) = m /\ \A i \in 1 .. m : t[i] = taken + i
  BY <1>1, <1>5 DEF ReadMore
<1>7. ASSUME NEW u, u = ahead \o t
      PROVE  \A i \in 1 .. n + m : u[i] = passed + i
  <2>1. Sequence(ahead) /\ Sequence(t)
    BY <1>4, <1>6 DEF Sequence
  <2>2. IsCat(u, ahead, t)
    BY <1>7, <2>1, Cat
  <2>3. \A i \in 1 .. n : u[i] = ahead[i]
    BY <1>4, <2>2 DEF IsCat
  <2>4. \A i \in 1 .. m : u[n + i] = t[i]
    BY <1>4, <1>6, <2>2 DEF IsCat
  <2>5. ASSUME NEW i \in 1 .. n + m PROVE u[i] = passed + i
    <3>1. CASE i <= n
      BY <1>3, <2>3, <3>1
    <3>2. CASE i > n
      <4>1. i - n \in 1 .. m /\ n + (i - n) = i
        BY <3>2
      <4>2. u[i] = taken + (i - n)
        BY <1>6, <2>4, <4>1
      <4> QED
        BY <1>1, <1>2, <4>2
    <3> QED
      BY <3>1, <3>2
  <2> QED
    BY <2>5
<1>8. ahead \o t \in Seq(Nat) /\ Len(ahead \o t) = n + m
  BY <1>4, <1>6
<1> QED
  BY <1>1, <1>2, <1>4, <1>5, <1>7, <1>8

\* The relocator ends with the last instruction of the function.
LEMMA EndsWhen ==
  ASSUME Reading, NEW k \in Nat, taken + k <= Len(Original)
  PROVE  Ends(k) \in BOOLEAN /\ (Ends(k) <=> taken + k = Len(Original))
<1>1. Len(Original) \in Nat \ {0} /\ taken \in Nat
  <2>1. Len(Original) \in Nat \ {0}
    BY CodeAssumption
  <2> QED
    BY <2>1, Queue
<1>2. \A i \in 1 .. taken + k : i \in 1 .. Len(Original) /\ (Original[i].op = "b" <=> i = Len(Original))
  BY <1>1, CodeAssumption
<1>3. ASSUME Ends(k) PROVE taken + k = Len(Original)
  <2>1. PICK i \in 1 .. taken + k : Original[i].op = "b"
    BY <1>3 DEF Ends
  <2>2. i = Len(Original)
    BY <1>2, <2>1
  <2> QED
    BY <1>1, <2>2
<1>4. ASSUME taken + k = Len(Original) PROVE Ends(k)
  <2>1. taken + k \in 1 .. taken + k
    BY <1>1, <1>4
  <2>2. Original[taken + k].op = "b"
    BY <1>2, <1>4, <2>1
  <2> QED
    BY <2>1, <2>2 DEF Ends
<1>5. Ends(k) \in BOOLEAN
  BY DEF Ends
<1> QED
  BY <1>3, <1>4, <1>5

\* Taking from the queue keeps it the instructions between passed and taken.
LEMMA TakeStep ==
  ASSUME Reading, NEW n \in Nat, n <= Len(Original) - passed, Take(n)
  PROVE  Reading'
<1>1. /\ taken \in Nat /\ passed \in Nat /\ passed <= taken /\ Len(ahead) = taken - passed
      /\ taken <= Len(Original) /\ Len(Original) \in Nat
  <2>1. Len(Original) \in Nat
    BY CodeAssumption
  <2> QED
    BY <2>1, Queue DEF Reading
<1>2. PICK k \in Nat : k = IF n > Len(ahead) THEN n - Len(ahead) ELSE 0
  BY <1>1
<1>3. /\ n \in Nat \ {0} /\ passed' = passed + n /\ taken' = taken + k /\ eoi' = Ends(k)
      /\ ahead' = SubSeq(ahead \o ReadMore(k), n + 1, Len(ahead) + k)
  BY <1>2 DEF Take
<1>4. taken + k <= Len(Original) /\ n <= Len(ahead) + k
  BY <1>1, <1>2
<1>5. eoi' \in BOOLEAN /\ (eoi' <=> taken' = Len(Original))
  BY <1>3, <1>4, EndsWhen
<1>6. PICK u : u = ahead \o ReadMore(k)
  OBVIOUS
<1>7. PICK m \in Nat : m = Len(ahead) + k
  BY <1>1
<1>8. u \in Seq(Nat) /\ Len(u) = m /\ \A i \in 1 .. m : u[i] = passed + i
  <2>1. m = taken - passed + k
    BY <1>1, <1>7
  <2>2. ahead \o ReadMore(k) \in Seq(Nat) /\ Len(ahead \o ReadMore(k)) = taken - passed + k
        /\ \A v : v = ahead \o ReadMore(k) => \A i \in 1 .. taken - passed + k : v[i] = passed + i
    BY Queue
  <2> QED
    BY <1>6, <2>1, <2>2
<1>9. ahead' = [i \in 1 .. m - n |-> passed + n + i]
  <2>1. ahead' = SubSeq(u, n + 1, m)
    BY <1>3, <1>6, <1>7
  <2>2. SubSeq(u, n + 1, m) = [i \in 1 .. m - n |-> u[n + i]]
    BY <1>3, <1>8
  <2>3. \A i \in 1 .. m - n : u[n + i] = passed + n + i
    <3>1. ASSUME NEW i \in 1 .. m - n PROVE u[n + i] = passed + n + i
      <4>1. n + i \in 1 .. m
        BY <1>3
      <4> QED
        BY <1>1, <1>8, <4>1
    <3> QED
      BY <3>1
  <2> QED
    BY <2>1, <2>2, <2>3
<1>10. taken' - passed' = m - n
  BY <1>1, <1>3, <1>7
<1>11. passed' \in Nat /\ taken' \in passed' .. Len(Original)
  BY <1>1, <1>3, <1>4
<1>12. ahead' = [i \in 1 .. taken' - passed' |-> passed' + i]
  BY <1>3, <1>9, <1>10
<1> QED
  BY <1>5, <1>11, <1>12 DEF Reading

\* So does reading one.
LEMMA ReadOneStep ==
  ASSUME Reading, ReadOne
  PROVE  Reading'
<1>1. /\ taken \in Nat /\ passed \in Nat /\ passed <= taken
      /\ taken + 1 <= Len(Original) /\ Len(Original) \in Nat
  <2>1. Len(Original) \in Nat
    BY CodeAssumption
  <2>2. taken # Len(Original)
    BY DEF Reading, ReadOne
  <2> QED
    BY <2>1, <2>2, Queue DEF Reading
<1>2. taken' = taken + 1 /\ passed' = passed /\ eoi' = Ends(1) /\ ahead' = ahead \o ReadMore(1)
  BY DEF ReadOne
<1>3. eoi' \in BOOLEAN /\ (eoi' <=> taken' = Len(Original))
  BY <1>1, <1>2, EndsWhen
<1>4. PICK m \in Nat : m = taken - passed + 1
  BY <1>1
<1>5. ahead' \in Seq(Nat) /\ Len(ahead') = m /\ \A i \in 1 .. m : ahead'[i] = passed + i
  <2>2. ahead \o ReadMore(1) \in Seq(Nat) /\ Len(ahead \o ReadMore(1)) = taken - passed + 1
        /\ \A v : v = ahead \o ReadMore(1) => \A i \in 1 .. taken - passed + 1 : v[i] = passed + i
    BY Queue
  <2> QED
    BY <1>2, <1>4, <2>2
<1>6. ahead' = [i \in 1 .. m |-> passed + i]
  BY <1>5
<1>7. taken' - passed' = m
  BY <1>1, <1>2, <1>4
<1>8. passed' \in Nat /\ taken' \in passed' .. Len(Original)
  BY <1>1, <1>2
<1> QED
  BY <1>2, <1>3, <1>6, <1>7, <1>8 DEF Reading

-----------------------------------------------------------------------------
(* The copies of relocated instructions *)

\* The words of one instruction more come behind those of the others.
LEMMA CopiesStep ==
  ASSUME NEW q, NEW n \in Nat, \A i \in 1 .. n + 1 : q[i] \in 1 .. Len(Original)
  PROVE  /\ Sequence(Copies(q, n))
         /\ Copies(q, n + 1) = Copies(q, n) \o Relocated(q[n + 1])
<1> DEFINE W == UNION {{Relocated(j)[k] : k \in 1 .. Len(Relocated(j))} : j \in 1 .. Len(Original)}
<1>1. ASSUME NEW j \in 1 .. Len(Original) PROVE Relocated(j) \in Seq(W)
  <2>1. Sequence(Relocated(j))
    BY RelocatedWords
  <2>2. PICK S : Relocated(j) \in Seq(S)
    BY <2>1 DEF Sequence
  <2>3. \A k \in 1 .. Len(Relocated(j)) : Relocated(j)[k] \in W
    OBVIOUS
  <2> HIDE DEF W
  <2> QED
    BY <2>2, <2>3
<1> HIDE DEF W
<1> DEFINE ss == [i \in 1 .. n |-> Relocated(q[i])]
           tt == [i \in 1 .. n + 1 |-> Relocated(q[i])]
<1>2. \A i \in 1 .. n + 1 : Relocated(q[i]) \in Seq(W)
  BY <1>1
<1>3. ss \in Seq(Seq(W))
  BY <1>2
<1>4. tt = Append(ss, Relocated(q[n + 1]))
  <2>1. Len(ss) = n /\ Relocated(q[n + 1]) \in Seq(W)
    BY <1>2
  <2>2. tt \in Seq(Seq(W)) /\ Len(tt) = n + 1
    BY <1>2
  <2>3. PICK x : x = Append(ss, Relocated(q[n + 1]))
    OBVIOUS
  <2>4. x \in Seq(Seq(W)) /\ Len(x) = n + 1 /\ x[n + 1] = Relocated(q[n + 1])
        /\ \A i \in 1 .. n : x[i] = ss[i]
    <3> HIDE DEF ss
    <3> QED
      BY <1>3, <2>1, <2>3
  <2>5. \A i \in 1 .. n + 1 : tt[i] = Relocated(q[i])
    OBVIOUS
  <2>6. \A i \in 1 .. n : ss[i] = Relocated(q[i])
    OBVIOUS
  <2>7. \A i \in 1 .. n + 1 : tt[i] = x[i]
    <3> HIDE DEF ss, tt
    <3> QED
      BY <2>4, <2>5, <2>6
  <2> HIDE DEF ss, tt
  <2>8. tt = x
    BY <2>2, <2>4, <2>7, SeqEqual
  <2> QED
    BY <2>3, <2>8
<1>5. FlattenSeq(ss) \in Seq(W) /\ FlattenSeq(Append(ss, Relocated(q[n + 1]))) = FlattenSeq(ss) \o Relocated(q[n + 1])
  <2>1. Relocated(q[n + 1]) \in Seq(W)
    BY <1>2
  <2> HIDE DEF ss
  <2> QED
    BY <1>3, <2>1, FlattenAppend
<1>6. Copies(q, n) = FlattenSeq(ss) /\ Copies(q, n + 1) = FlattenSeq(tt)
  BY DEF Copies
<1> HIDE DEF ss, tt
<1> QED
  BY <1>4, <1>5, <1>6 DEF Sequence

\* No instruction has no words.
LEMMA CopiesNone ==
  ASSUME NEW q
  PROVE  Copies(q, 0) = << >>
<1>1. [i \in 1 .. 0 |-> Relocated(q[i])] = << >>
  OBVIOUS
<1> QED
  BY <1>1, FlattenEmpty DEF Copies

\* The words of instructions are a sequence.
LEMMA CopiesSequence ==
  ASSUME NEW q, NEW n \in Nat, \A i \in 1 .. n : q[i] \in 1 .. Len(Original)
  PROVE  Sequence(Copies(q, n))
<1>1. CASE n = 0
  BY <1>1, CopiesNone, Empty
<1>2. CASE n # 0
  <2>1. PICK m \in Nat : n = m + 1
    BY <1>2
  <2>2. Sequence(Copies(q, m)) /\ Copies(q, m + 1) = Copies(q, m) \o Relocated(q[m + 1])
    BY <2>1, CopiesStep
  <2>3. Sequence(Relocated(q[m + 1]))
    <3>1. q[m + 1] \in 1 .. Len(Original)
      BY <2>1
    <3> QED
      BY <3>1, RelocatedWords
  <2> QED
    BY <2>1, <2>2, <2>3, CatSequence
<1> QED
  BY <1>1, <1>2

\* What the first k give is a prefix of what more of them give.
Begins(s, t) == Len(s) <= Len(t) /\ \A k \in 1 .. Len(s) : t[k] = s[k]

\* The words of the first few instructions come first.
LEMMA CopiesPrefix ==
  ASSUME NEW q, NEW n \in Nat, \A i \in 1 .. n : q[i] \in 1 .. Len(Original), NEW j \in 0 .. n
  PROVE  Begins(Copies(q, j), Copies(q, n))
<1> DEFINE Bad == {k \in j .. n : ~ Begins(Copies(q, j), Copies(q, k))}
<1>1. SUFFICES ASSUME Bad # {} PROVE FALSE
  BY n \in j .. n
<1>2. PICK m \in Bad : \A k \in Bad : m <= k
  <2>1. Bad \in SUBSET Nat
    OBVIOUS
  <2> HIDE DEF Bad
  <2> QED
    BY <1>1, <2>1, Least
<1>3. m \in j .. n /\ ~ Begins(Copies(q, j), Copies(q, m))
  OBVIOUS
<1>4. Len(Copies(q, j)) \in Nat
  BY CopiesSequence, Indexed
<1>5. m # j
  BY <1>3, <1>4 DEF Begins
<1>6. PICK p \in Nat : m = p + 1 /\ p \in j .. n
  BY <1>3, <1>5
<1>7. Begins(Copies(q, j), Copies(q, p))
  <2>1. p \notin Bad
    <3>1. ~ m <= p
      BY <1>6
    <3> QED
      BY <1>2, <3>1
  <2> QED
    BY <1>6, <2>1
<1>8. \A i \in 1 .. p + 1 : q[i] \in 1 .. Len(Original)
  BY <1>3, <1>6
<1>9. Sequence(Copies(q, p)) /\ Copies(q, m) = Copies(q, p) \o Relocated(q[m])
  BY <1>6, <1>8, CopiesStep
<1>10. Sequence(Relocated(q[m]))
  BY <1>3, <1>6, <1>8, RelocatedWords
<1>11. IsCat(Copies(q, m), Copies(q, p), Relocated(q[m]))
  BY <1>9, <1>10, Cat
<1>12. Len(Copies(q, p)) \in Nat /\ Len(Relocated(q[m])) \in Nat
  BY <1>9, <1>10, Indexed
<1>13. Begins(Copies(q, j), Copies(q, m))
  <2>1. Len(Copies(q, j)) <= Len(Copies(q, m))
    BY <1>4, <1>7, <1>11, <1>12 DEF IsCat, Begins
  <2>2. \A k \in 1 .. Len(Copies(q, j)) : Copies(q, m)[k] = Copies(q, j)[k]
    <3>1. \A k \in 1 .. Len(Copies(q, j)) : k \in 1 .. Len(Copies(q, p))
      BY <1>4, <1>7, <1>12 DEF Begins
    <3> QED
      BY <1>7, <1>11, <3>1 DEF IsCat, Begins
  <2> QED
    BY <2>1, <2>2 DEF Begins
<1> QED
  BY <1>3, <1>13

\* The oldest n in the queue are those behind the ones passed on.
LEMMA OldestOnes ==
  ASSUME Reading, NEW n \in Nat, n <= Len(Original) - passed
  PROVE  \A i \in 1 .. n : Oldest(n)[i] = passed + i /\ Oldest(n)[i] \in 1 .. Len(Original)
<1>1. /\ taken \in Nat /\ passed \in Nat /\ passed <= taken /\ Len(Original) \in Nat
      /\ ahead \o ReadMore(n) \in Seq(Nat) /\ Len(ahead \o ReadMore(n)) = taken - passed + n
      /\ \A u : u = ahead \o ReadMore(n) => \A i \in 1 .. taken - passed + n : u[i] = passed + i
  <2>1. Len(Original) \in Nat
    BY CodeAssumption
  <2> QED
    BY <2>1, Queue
<1>2. PICK u : u = ahead \o ReadMore(n)
  OBVIOUS
<1>3. u \in Seq(Nat) /\ n <= Len(u) /\ \A i \in 1 .. n : u[i] = passed + i
  <2>1. u \in Seq(Nat) /\ Len(u) = taken - passed + n
    BY <1>1, <1>2
  <2>2. \A i \in 1 .. taken - passed + n : u[i] = passed + i
    BY <1>1, <1>2
  <2>3. n <= taken - passed + n
    BY <1>1
  <2>4. \A i \in 1 .. n : i \in 1 .. taken - passed + n
    BY <1>1
  <2> QED
    BY <2>1, <2>2, <2>3, <2>4
<1>4. Oldest(n) = SubSeq(u, 1, n)
  BY <1>2 DEF Oldest
<1>5. \A i \in 1 .. n : SubSeq(u, 1, n)[i] = u[i]
  BY <1>3
<1> QED
  BY <1>1, <1>3, <1>4, <1>5

\* Writing keeps the invariant: each instruction is a statement of its own and starts
\* where its words do.
LEMMA WriteStep ==
  ASSUME CodeInv, NEW n \in Nat, n <= Len(Original) - passed, Write(n)
  PROVE  CodeInv'
<1>1. PICK m \in Nat : m = Len(script)
  BY Positions DEF CodeInv
<1>2. PICK b \in Nat : b = Len(buf)
  BY Positions DEF CodeInv
<1>3. /\ DOMAIN script = 1 .. m /\ Layout /\ DOMAIN starts = 1 .. m
      /\ \A k \in 1 .. m + 1 : From(k) \in Nat /\ From(k) <= b
      /\ From(m + 1) = b /\ starts \in Seq(Nat) /\ Len(starts) = m
  BY <1>1, <1>2, Positions DEF CodeInv, Layout
<1>4. PICK q : q = Oldest(n)
  OBVIOUS
<1>5. \A i \in 1 .. n : q[i] = passed + i /\ q[i] \in 1 .. Len(Original)
  BY <1>4, OldestOnes DEF CodeInv
<1>6. PICK st : st = [i \in 1 .. n |-> [op |-> "orig", n |-> passed + i]]
  OBVIOUS
<1>7. PICK at : at = [i \in 1 .. n |-> b + Len(Copies(q, i - 1))]
  OBVIOUS
<1>8. /\ script' = script \o st /\ starts' = starts \o at /\ buf' = buf \o Copies(q, n)
      /\ pc' = pc /\ labels' = labels /\ fixups' = fixups /\ failed' = failed /\ flushed' = FALSE
      /\ Take(n)
  BY <1>2, <1>4, <1>6, <1>7 DEF Write, Emits
<1>9. ASSUME NEW i \in 0 .. n
      PROVE  Sequence(Copies(q, i)) /\ Len(Copies(q, i)) \in Nat
  BY <1>5, CopiesSequence, Indexed
<1>10. Sequence(st) /\ Len(st) = n /\ DOMAIN st = 1 .. n /\ at \in Seq(Nat) /\ Len(at) = n
  <2>1. Sequence(st) /\ Len(st) = n
    BY <1>6, Listed
  <2>2. \A i \in 1 .. n : b + Len(Copies(q, i - 1)) \in Nat
    BY <1>9
  <2> QED
    BY <1>6, <1>7, <2>1, <2>2
<1>11. IsCat(script', script, st) /\ IsCat(buf', buf, Copies(q, n))
  <2>1. Sequence(script) /\ Sequence(buf) /\ Sequence(st)
    BY <1>3, <1>10 DEF Layout
  <2>2. PICK ws : ws = Copies(q, n)
    OBVIOUS
  <2>3. Sequence(ws)
    BY <1>9, <2>2
  <2>4. PICK sc : sc = script'
    OBVIOUS
  <2>5. IsCat(sc, script, st)
    BY <1>8, <2>1, <2>4, Cat
  <2>6. PICK bu : bu = buf'
    OBVIOUS
  <2>7. IsCat(bu, buf, ws)
    BY <1>8, <2>1, <2>2, <2>3, <2>6, Cat
  <2> QED
    BY <2>2, <2>4, <2>5, <2>6, <2>7
<1>12. /\ Sequence(script') /\ Len(script') = m + n /\ DOMAIN script' = 1 .. m + n
       /\ \A i \in 1 .. m : script'[i] = script[i]
       /\ \A i \in 1 .. n : script'[m + i] = [op |-> "orig", n |-> passed + i]
  <2>1. /\ Sequence(script') /\ Len(script') = m + n
        /\ \A i \in 1 .. m : script'[i] = script[i]
        /\ \A i \in 1 .. n : script'[m + i] = st[i]
    BY <1>1, <1>10, <1>11 DEF IsCat
  <2> QED
    BY <1>6, <2>1, Indexed
<1>13. /\ starts' \in Seq(Nat) /\ Len(starts') = m + n /\ DOMAIN starts' = 1 .. m + n
       /\ \A i \in 1 .. m : starts'[i] = starts[i]
       /\ \A i \in 1 .. n : starts'[m + i] = b + Len(Copies(q, i - 1))
  <2>1. starts' \in Seq(Nat) /\ Len(starts') = m + n /\ DOMAIN starts' = 1 .. m + n
    <3>1. PICK u : u = starts \o at
      OBVIOUS
    <3>2. u \in Seq(Nat) /\ Len(u) = m + n
      BY <1>3, <1>10, <3>1
    <3>3. DOMAIN u = 1 .. m + n
      BY <3>2
    <3> QED
      BY <1>8, <3>1, <3>2, <3>3
  <2>2. IsCat(starts', starts, at)
    <3>1. Sequence(starts) /\ Sequence(at)
      BY <1>3, <1>10 DEF Sequence
    <3> QED
      BY <1>8, <3>1, Cat
  <2>3. /\ \A i \in 1 .. m : starts'[i] = starts[i]
        /\ \A i \in 1 .. n : starts'[m + i] = at[i]
    BY <1>3, <1>10, <2>2 DEF IsCat
  <2> QED
    BY <1>7, <2>1, <2>3
<1>14. /\ Sequence(buf') /\ Len(buf') = b + Len(Copies(q, n))
       /\ \A k \in 1 .. b : buf'[k] = buf[k]
       /\ \A k \in 1 .. Len(Copies(q, n)) : buf'[b + k] = Copies(q, n)[k]
  BY <1>2, <1>11 DEF IsCat
<1>15. \A i \in 1 .. n + 1 : From(m + i)' = b + Len(Copies(q, i - 1))
  <2>1. ASSUME NEW i \in 1 .. n + 1 PROVE From(m + i)' = b + Len(Copies(q, i - 1))
    <3>1. CASE i \in 1 .. n
      <4>1. m + i \in DOMAIN starts'
        BY <1>13, <3>1
      <4> QED
        BY <1>13, <3>1, <4>1 DEF From
    <3>2. CASE i = n + 1
      <4>1. m + i \notin DOMAIN starts' /\ i - 1 = n
        BY <1>13, <3>2
      <4> QED
        BY <1>14, <4>1 DEF From
    <3> QED
      BY <3>1, <3>2
  <2> QED
    BY <2>1
<1>16. \A i \in 1 .. m + 1 : From(i)' = From(i)
  <2>1. ASSUME NEW i \in 1 .. m PROVE From(i)' = From(i)
    <3>1. i \in DOMAIN starts /\ i \in DOMAIN starts' /\ starts'[i] = starts[i]
      BY <1>3, <1>13
    <3> QED
      BY <3>1 DEF From
  <2>2. From(m + 1)' = b
    <3>1. 1 \in 1 .. n + 1 /\ 1 - 1 = 0
      OBVIOUS
    <3>2. From(m + 1)' = b + Len(Copies(q, 0))
      BY <1>15, <3>1
    <3>3. Len(Copies(q, 0)) = 0
      BY CopiesNone, Empty
    <3> QED
      BY <3>2, <3>3
  <2> QED
    BY <1>3, <2>1, <2>2
<1>17. Extends
  BY <1>1, <1>3, <1>8, <1>12, <1>13, <1>14, <1>16 DEF Extends, Keeps
<1>18. ASSUME NEW i \in 1 .. n
       PROVE  /\ Spelled(m + i)' /\ Branches(m + i)' /\ Places(m + i)' /\ Refers(m + i)'
              /\ script'[m + i].op # "value"
  <2>1. PICK j \in 1 .. m + n : j = m + i
    OBVIOUS
  <2>2. script'[j].op = "orig" /\ script'[j].n = passed + i /\ passed + i \in 1 .. Len(Original)
    <3>1. script'[j] = [op |-> "orig", n |-> passed + i]
      BY <1>12, <2>1
    <3>2. passed + i \in 1 .. Len(Original)
      BY <1>5
    <3> QED
      BY <3>1, <3>2
  <2>3. From(j)' = b + Len(Copies(q, i - 1)) /\ From(j + 1)' = b + Len(Copies(q, i))
    <3>1. i \in 1 .. n + 1 /\ i + 1 \in 1 .. n + 1 /\ m + (i + 1) = j + 1 /\ (i + 1) - 1 = i
      BY <2>1
    <3> QED
      BY <1>15, <2>1, <3>1
  <2>4. PICK p \in 0 .. n : p = i - 1
    OBVIOUS
  <2>5. PICK ws : ws = Relocated(passed + i)
    OBVIOUS
  <2>6. Sequence(ws) /\ Len(ws) \in Nat
    BY <2>2, <2>5, RelocatedWords, Indexed
  <2>7. IsCat(Copies(q, i), Copies(q, p), ws)
    <3>1. p \in Nat /\ p + 1 = i /\ \A k \in 1 .. p + 1 : q[k] \in 1 .. Len(Original)
      BY <1>5, <2>4
    <3>2. Copies(q, i) = Copies(q, p) \o Relocated(q[i])
      BY <3>1, CopiesStep
    <3>3. q[i] = passed + i
      BY <1>5
    <3> QED
      BY <1>9, <2>5, <2>6, <3>2, <3>3, Cat
  <2>8. Begins(Copies(q, i), Copies(q, n))
    BY <1>5, CopiesPrefix
  <2>9. /\ Len(Copies(q, i)) = Len(Copies(q, p)) + Len(ws)
        /\ Len(Copies(q, p)) \in Nat /\ Len(Copies(q, i)) \in Nat /\ Len(Copies(q, n)) \in Nat
        /\ Len(Copies(q, i)) <= Len(Copies(q, n))
    <3>1. Len(Copies(q, p)) \in Nat /\ Len(Copies(q, i)) \in Nat /\ Len(Copies(q, n)) \in Nat
      BY <1>9
    <3>2. Len(Copies(q, i)) = Len(Copies(q, p)) + Len(ws)
      BY <2>7 DEF IsCat
    <3>3. Len(Copies(q, i)) <= Len(Copies(q, n))
      BY <2>8 DEF Begins
    <3> QED
      BY <3>1, <3>2, <3>3
  <2>10. ASSUME NEW k \in 1 .. Len(ws) PROVE buf'[b + Len(Copies(q, p)) + k] = ws[k]
    <3>1. PICK x : x = Len(Copies(q, p)) + k
      OBVIOUS
    <3>2. x \in 1 .. Len(Copies(q, i)) /\ x \in 1 .. Len(Copies(q, n))
      BY <2>6, <2>9, <3>1
    <3>3. buf'[b + x] = Copies(q, n)[x]
      BY <1>14, <3>2
    <3>4. Copies(q, n)[x] = Copies(q, i)[x]
      BY <2>8, <3>2 DEF Begins
    <3>5. Copies(q, i)[x] = ws[k]
      BY <2>7, <3>1 DEF IsCat
    <3>6. b + Len(Copies(q, p)) + k = b + x
      BY <2>6, <2>9, <3>1
    <3> QED
      BY <3>3, <3>4, <3>5, <3>6
  <2>11. Lies(j, ws)'
    BY <2>3, <2>4, <2>6, <2>9, <2>10 DEF Lies
  <2>12. Spells(script'[j], pc' + b + Len(Copies(q, p)), ws)
    BY <2>2, <2>5 DEF Spells
  <2>13. Spelled(j)'
    <3>1. \A a : Spells(script'[j], a, ws)
      BY <2>2, <2>5 DEF Spells
    <3> QED
      BY <2>11, <3>1 DEF Spelled
  <2>14. Branches(j)' /\ Places(j)' /\ Refers(j)' /\ script'[j].op # "value"
    BY <2>2 DEF Branches, IsBranch, Places, Refers
  <2> QED
    BY <2>1, <2>13, <2>14
<1>19. ASSUME NEW i \in Len(script) + 1 .. Len(script') + 1, NEW j \in Len(script) + 1 .. Len(script') + 1,
              i <= j
       PROVE  From(i)' <= From(j)'
  <2>1. PICK x \in 1 .. n + 1 : i = m + x
    <3>1. i - m \in 1 .. n + 1 /\ i = m + (i - m)
      BY <1>1, <1>12
    <3> QED
      BY <3>1
  <2>2. PICK y \in 1 .. n + 1 : j = m + y
    <3>1. j - m \in 1 .. n + 1 /\ j = m + (j - m)
      BY <1>1, <1>12
    <3> QED
      BY <3>1
  <2>3. PICK c \in 0 .. n : c = x - 1
    OBVIOUS
  <2>4. PICK d \in 0 .. n : d = y - 1 /\ c \in 0 .. d
    BY <1>19, <2>1, <2>2, <2>3
  <2>5. Begins(Copies(q, c), Copies(q, d))
    <3>1. \A k \in 1 .. d : q[k] \in 1 .. Len(Original)
      BY <1>5
    <3> QED
      BY <2>4, <3>1, CopiesPrefix
  <2>6. Len(Copies(q, c)) <= Len(Copies(q, d)) /\ Len(Copies(q, c)) \in Nat /\ Len(Copies(q, d)) \in Nat
    BY <1>9, <2>5 DEF Begins
  <2>7. From(i)' = b + Len(Copies(q, c)) /\ From(j)' = b + Len(Copies(q, d))
    BY <1>15, <2>1, <2>2, <2>3, <2>4
  <2> QED
    BY <2>6, <2>7
<1>20. ASSUME NEW i \in Len(script) + 1 .. Len(script')
       PROVE  /\ From(i)' <= From(i + 1)'
              /\ Spelled(i)' /\ Branches(i)' /\ Places(i)' /\ Refers(i)'
              /\ script'[i].op # "value"
  <2>1. PICK x \in 1 .. n : i = m + x
    <3>1. i - m \in 1 .. n /\ i = m + (i - m)
      BY <1>1, <1>12
    <3> QED
      BY <3>1
  <2>2. i \in Len(script) + 1 .. Len(script') + 1 /\ i + 1 \in Len(script) + 1 .. Len(script') + 1 /\ i <= i + 1
    BY <1>1, <1>12
  <2>3. From(i)' <= From(i + 1)'
    BY <1>19, <2>2
  <2> QED
    BY <1>18, <2>1, <2>3
<1>21. Layout'
  <2>1. \A k \in 1 .. Len(buf) : buf'[k] = buf[k]
    BY <1>2, <1>14
  <2> QED
    BY <1>3, <1>17, <1>19, <1>20, <2>1, LayoutExtends
<1>22. Pending'
  BY <1>3, <1>8, <1>17, PendingExtends DEF CodeInv, Pending
<1>23. Reading'
  BY <1>8, TakeStep DEF CodeInv
<1> QED
  BY <1>21, <1>22, <1>23 DEF CodeInv

\* What puts nothing keeps the invariant.
LEMMA NothingPut ==
  ASSUME CodeInv, Reading', UNCHANGED <<pc, buf, labels, fixups, script, starts, failed>>,
         flushed' = flushed
  PROVE  CodeInv'
<1>1. \A i : From(i)' = From(i)
  BY DEF From
<1>2. \A i : /\ Spelled(i)' = Spelled(i) /\ Branches(i)' = Branches(i) /\ Places(i)' = Places(i)
             /\ Refers(i)' = Refers(i) /\ Answers(i)' = Answers(i)
             /\ IsBranch(i)' = IsBranch(i) /\ Fixup(i)' = Fixup(i)
  BY <1>1 DEF Spelled, Lies, Branches, IsBranch, Fixup, Resolve, Places, Refers, Answers, Values
<1>3. Layout'
  BY <1>1, <1>2 DEF Layout, CodeInv
<1>4. Pending'
  BY <1>2 DEF Pending, CodeInv
<1> QED
  BY <1>3, <1>4 DEF CodeInv

\* Every step of the relocator keeps the invariant.
LEMMA RelocatorStep ==
  ASSUME CodeInv, RelocatorNext
  PROVE  CodeInv'
<1>0. /\ taken \in Nat /\ passed \in Nat /\ passed <= taken /\ taken <= Len(Original)
      /\ Len(ahead) = taken - passed /\ Len(Original) \in Nat \ {0}
  <2>1. Len(Original) \in Nat \ {0}
    BY CodeAssumption
  <2> QED
    BY <2>1, Queue DEF CodeInv, Reading
<1>1. ASSUME ~ (eoi /\ ahead = << >>) PROVE 1 <= Len(Original) - passed
  <2>1. CASE ~ eoi
    <3>1. taken # Len(Original)
      BY <2>1 DEF CodeInv, Reading
    <3> QED
      BY <1>0, <3>1
  <2>2. CASE ahead # << >>
    <3>1. taken # passed
      <4>1. ASSUME taken = passed PROVE FALSE
        <5>1. taken - passed = 0
          BY <1>0, <4>1
        <5>2. ahead = [i \in 1 .. 0 |-> passed + i]
          BY <5>1 DEF CodeInv, Reading
        <5>3. ahead = << >>
          BY <5>2
        <5> QED
          BY <2>2, <5>3
      <4> QED
        BY <4>1
    <3> QED
      BY <1>0, <3>1
  <2> QED
    BY <1>1, <2>1, <2>2
<1>2. CASE ReadOne
  BY <1>2, ReadOneStep, NothingPut DEF CodeInv, ReadOne
<1>3. CASE WriteOne
  <2>1. 1 <= Len(Original) - passed /\ Write(1)
    BY <1>1, <1>3 DEF WriteOne
  <2> QED
    BY <2>1, WriteStep
<1>4. CASE WriteAll
  <2>1. PICK n : n = Len(Original) - taken + Len(ahead)
    OBVIOUS
  <2>2. n \in Nat /\ n <= Len(Original) - passed
    BY <1>0, <2>1
  <2>3. Write(n)
    BY <1>4, <2>1 DEF WriteAll
  <2> QED
    BY <2>2, <2>3, WriteStep
<1>5. CASE SkipOne
  <2>1. 1 <= Len(Original) - passed /\ Take(1)
    BY <1>1, <1>5 DEF SkipOne
  <2>2. Reading'
    BY <2>1, TakeStep DEF CodeInv
  <2> QED
    BY <1>5, <2>2, NothingPut DEF SkipOne
<1>6. CASE ResetRelocator
  <2>1. passed' = 0 /\ taken' = 0 /\ ahead' = << >> /\ eoi' = FALSE
    BY <1>6 DEF ResetRelocator
  <2>2. [i \in 1 .. 0 - 0 |-> 0 + i] = << >>
    OBVIOUS
  <2>3. ahead' = [i \in 1 .. taken' - passed' |-> passed' + i]
    BY <2>1, <2>2
  <2>4. passed' \in Nat /\ taken' \in passed' .. Len(Original) /\ taken' # Len(Original)
    BY <1>0, <2>1
  <2>5. eoi' \in BOOLEAN /\ (eoi' <=> taken' = Len(Original))
    BY <2>1, <2>4, Zenon
  <2>6. Reading'
    BY <2>3, <2>4, <2>5 DEF Reading
  <2> QED
    BY <1>6, <2>6, NothingPut DEF ResetRelocator
<1> QED
  BY <1>2, <1>3, <1>4, <1>5, <1>6 DEF RelocatorNext

\* In every reachable state the buffer is, statement by statement, what the statements
\* say: each starts where starts says and has its own words, a branch to a label is
\* waiting in fixups or has its label's offset, a load has its literal's, and the
\* relocator's queue is the instructions between those passed on and those read.
THEOREM CodeInvariance == CodeSpec => []CodeInv
<1>1. WriterInit => CodeInv
  BY CodeInit
<1>2. CodeInv /\ [CodeNext]_wvars => CodeInv'
  <2> SUFFICES ASSUME CodeInv, [CodeNext]_wvars PROVE CodeInv'
    OBVIOUS
  <2>1. CASE WriterNext
    BY <2>1, PutOneStep, PutCallStep, PutLdrRegRefStep, PutLdrRegValueStep DEF WriterNext
  <2>2. CASE RelocatorNext
    BY <2>2, RelocatorStep
  <2>3. CASE PutBranch
    BY <2>3, PutLabelStep, PutBranchLabelStep, PutExitStep DEF PutBranch
  <2>4. CASE Flush
    BY <2>4, FlushStep
  <2>5. CASE \E p \in Pcs : Reset(p)
    BY <2>5, ResetStep
  <2>6. CASE UNCHANGED wvars
    <3>1. Reading'
      BY <2>6, ReadingKept DEF CodeInv, wvars
    <3> QED
      BY <2>6, <3>1, NothingPut DEF wvars
  <2> QED
    BY <2>1, <2>2, <2>3, <2>4, <2>5, <2>6 DEF CodeNext, BothNext
<1> QED
  BY <1>1, <1>2, PTL DEF CodeSpec

-----------------------------------------------------------------------------
(* Single words *)

\* The registers, and one of them changed.
AllRegs == X \cup {17, 30}
Set(q, c, v) == [q EXCEPT ![c] = v]

\* A register changed.
LEMMA WithState ==
  ASSUME NEW a, NEW r, NEW f, NEW k, NEW z, NEW e, NEW c, NEW v
  PROVE  With(State(a, r, f, k, z, e), c, v) = State(a, Set(r, c, v), f, k, z, e)
BY DEF With, State, Set

\* One word or statement further.
LEMMA StepState ==
  ASSUME NEW a, NEW r, NEW f, NEW k, NEW z, NEW e
  PROVE  Step(State(a, r, f, k, z, e)) = State(a + 1, r, f, k, z, e)
BY DEF Step, State

\* Something more seen.
LEMMA SeeState ==
  ASSUME NEW a, NEW r, NEW f, NEW k, NEW z, NEW e, NEW v
  PROVE  See(State(a, r, f, k, z, e), v) = State(a, r, f, k, Append(z, v), e)
BY DEF See, State

\* The end.
LEMMA StopState ==
  ASSUME NEW a, NEW r, NEW f, NEW k, NEW z, NEW e, NEW v
  PROVE  Stop(State(a, r, f, k, z, e), v) = State(a, r, f, k, z, v)
BY DEF Stop, State

\* Something more on the stack.
LEMMA PushedState ==
  ASSUME NEW a, NEW r, NEW f, NEW k, NEW z, NEW e, NEW v
  PROVE  Pushed(State(a, r, f, k, z, e), v) = State(a + 1, r, f, Append(k, v), z, e)
<1>1. [State(a, r, f, k, z, e) EXCEPT !.stack = Append(@, v)] = State(a, r, f, Append(k, v), z, e)
  BY DEF State
<1> QED
  BY <1>1, StepState DEF Pushed

\* Something less.
LEMMA PoppedState ==
  ASSUME NEW a, NEW r, NEW f, NEW k, NEW z, NEW e
  PROVE  Popped(State(a, r, f, k, z, e)) = State(a, r, f, Front(k), z, e)
BY DEF Popped, State

\* The flags changed.
LEMMA FlagsState ==
  ASSUME NEW a, NEW r, NEW f, NEW k, NEW z, NEW e, NEW v
  PROVE  [State(a, r, f, k, z, e) EXCEPT !.flags = v] = State(a, r, v, k, z, e)
BY DEF State

\* The processor at a word of the buffer executes it.
LEMMA AtWord ==
  ASSUME NEW p \in Nat, NEW q, NEW f, NEW j, NEW z, Len(buf) \in Nat, p < Len(buf)
  PROVE  NextWord(State(p, q, f, j, z, "no")) = Execute(State(p, q, f, j, z, "no"))
<1>1. p # Len(buf)
  OBVIOUS
<1> QED
  BY <1>1 DEF NextWord, State

\* A literal is loaded.
LEMMA LdrStep ==
  ASSUME NEW p \in Nat, NEW q, NEW f, NEW j, NEW z, Len(buf) \in Nat, p < Len(buf),
         NEW d \in Int, NEW c, NEW v, buf[p + 1] = Ldr(c, d),
         p + d + 1 \in DOMAIN buf, buf[p + d + 1] = [op |-> "lit", v |-> v]
  PROVE  NextWord(State(p, q, f, j, z, "no")) = State(p + 1, Set(q, c, v), f, j, z, "no")
<1> DEFINE s == State(p, q, f, j, z, "no")
<1>1. s.at = p
  BY Fields
<1>2. buf[s.at + 1].op = "ldr" /\ buf[s.at + 1].r = c /\ buf[s.at + 1].by = d
  BY <1>1 DEF Ldr
<1>3. buf[p + d + 1].op = "lit" /\ buf[p + d + 1].v = v
  OBVIOUS
<1> HIDE DEF s
<1>4. Execute(s) = LET at == s.at + d + 1
                   IN IF at \in DOMAIN buf /\ buf[at].op = "lit"
                      THEN Step(With(s, c, buf[at].v)) ELSE Stop(s, "data")
  BY <1>2 DEF Execute
<1>5. Execute(s) = Step(With(s, c, v))
  BY <1>1, <1>3, <1>4
<1>6. With(s, c, v) = State(p, Set(q, c, v), f, j, z, "no")
  BY WithState DEF s
<1>7. Step(With(s, c, v)) = State(p + 1, Set(q, c, v), f, j, z, "no")
  BY <1>6, StepState
<1> QED
  BY <1>5, <1>7, AtWord DEF s

\* A branch goes where its offset says.
LEMMA JumpStep ==
  ASSUME NEW p \in Nat, NEW q, NEW f, NEW j, NEW z, Len(buf) \in Nat, p < Len(buf),
         NEW d, buf[p + 1] = Jump("b", d)
  PROVE  NextWord(State(p, q, f, j, z, "no")) =
           Transfer(State(p, q, f, j, z, "no"), Address(pc + p + d))
<1> DEFINE s == State(p, q, f, j, z, "no")
<1>1. s.at = p /\ s.regs = q /\ s.flags = f /\ s.stack = j
  BY Fields
<1>2. buf[s.at + 1].op = "b" /\ buf[s.at + 1].by = d
  BY <1>1 DEF Jump
<1> HIDE DEF s
<1>3. Execute(s) = Near(s, d)
  BY <1>1, <1>2 DEF Execute
<1>4. Near(s, d) = Transfer(s, Address(pc + p + d))
  BY <1>1 DEF Near
<1> QED
  BY <1>3, <1>4, AtWord DEF s

\* A call leaves the word behind it in X30.
LEMMA JumpLinkStep ==
  ASSUME NEW p \in Nat, NEW q, NEW f, NEW j, NEW z, Len(buf) \in Nat, p < Len(buf),
         NEW d, buf[p + 1] = Jump("bl", d)
  PROVE  NextWord(State(p, q, f, j, z, "no")) =
           Transfer(State(p, Set(q, 30, Address(pc + p + 1)), f, j, z, "no"), Address(pc + p + d))
<1> DEFINE s == State(p, q, f, j, z, "no")
<1>1. s.at = p /\ s.regs = q /\ s.flags = f /\ s.stack = j
  BY Fields
<1>2. buf[s.at + 1].op = "bl" /\ buf[s.at + 1].by = d
  BY <1>1 DEF Jump
<1> HIDE DEF s
<1>3. Execute(s) = Near(With(s, 30, Address(pc + p + 1)), d)
  BY <1>1, <1>2 DEF Execute
<1>4. With(s, 30, Address(pc + p + 1)) = State(p, Set(q, 30, Address(pc + p + 1)), f, j, z, "no")
  BY WithState DEF s
<1>5. State(p, Set(q, 30, Address(pc + p + 1)), f, j, z, "no").at = p
  BY Fields
<1>6. Near(With(s, 30, Address(pc + p + 1)), d) = Transfer(With(s, 30, Address(pc + p + 1)), Address(pc + p + d))
  BY <1>4, <1>5 DEF Near
<1> QED
  BY <1>3, <1>4, <1>6, AtWord DEF s

\* A test branches when the flags say so.
LEMMA TestStep ==
  ASSUME NEW p \in Nat, NEW q, NEW f, NEW j, NEW z, Len(buf) \in Nat, p < Len(buf),
         NEW d, buf[p + 1] = [op |-> "test", by |-> d, cut |-> FALSE]
  PROVE  NextWord(State(p, q, f, j, z, "no")) =
           IF f = Flags("eq") THEN Transfer(State(p, q, f, j, z, "no"), Address(pc + p + d))
           ELSE State(p + 1, q, f, j, z, "no")
<1> DEFINE s == State(p, q, f, j, z, "no")
<1>1. s.at = p /\ s.regs = q /\ s.flags = f /\ s.stack = j
  BY Fields
<1>2. buf[s.at + 1].op = "test" /\ buf[s.at + 1].by = d
  BY <1>1 DEF Jump
<1> HIDE DEF s
<1>3. Execute(s) = IF Taken(s) THEN Near(s, d) ELSE Step(s)
  BY <1>1, <1>2 DEF Execute
<1>4. Near(s, d) = Transfer(s, Address(pc + p + d)) /\ (Taken(s) <=> f = Flags("eq"))
  BY <1>1 DEF Near, Taken
<1>5. Step(s) = State(p + 1, q, f, j, z, "no")
  BY StepState DEF s
<1> QED
  BY <1>3, <1>4, <1>5, AtWord DEF s

\* An inverted test branches when the flags do not say so.
LEMMA SkipStep ==
  ASSUME NEW p \in Nat, NEW q, NEW f, NEW j, NEW z, Len(buf) \in Nat, p < Len(buf),
         NEW d, buf[p + 1] = [op |-> "skip", by |-> d]
  PROVE  NextWord(State(p, q, f, j, z, "no")) =
           IF f = Flags("eq") THEN State(p + 1, q, f, j, z, "no")
           ELSE Transfer(State(p, q, f, j, z, "no"), Address(pc + p + d))
<1> DEFINE s == State(p, q, f, j, z, "no")
<1>1. s.at = p /\ s.regs = q /\ s.flags = f /\ s.stack = j
  BY Fields
<1>2. buf[s.at + 1].op = "skip" /\ buf[s.at + 1].by = d
  BY <1>1 DEF Jump
<1> HIDE DEF s
<1>3. Execute(s) = IF Taken(s) THEN Step(s) ELSE Near(s, d)
  BY <1>1, <1>2 DEF Execute
<1>4. Near(s, d) = Transfer(s, Address(pc + p + d)) /\ (Taken(s) <=> f = Flags("eq"))
  BY <1>1 DEF Near, Taken
<1>5. Step(s) = State(p + 1, q, f, j, z, "no")
  BY StepState DEF s
<1> QED
  BY <1>3, <1>4, <1>5, AtWord DEF s

\* An address of the code is taken.
LEMMA AdrStep ==
  ASSUME NEW p \in Nat, NEW q, NEW f, NEW j, NEW z, Len(buf) \in Nat, p < Len(buf),
         NEW c, NEW d, buf[p + 1] = [op |-> "adr", r |-> c, by |-> d]
  PROVE  NextWord(State(p, q, f, j, z, "no")) =
           State(p + 1, Set(q, c, Address(pc + p + d)), f, j, z, "no")
<1> DEFINE s == State(p, q, f, j, z, "no")
<1>1. s.at = p /\ s.regs = q /\ s.flags = f /\ s.stack = j
  BY Fields
<1>2. buf[s.at + 1].op = "adr" /\ buf[s.at + 1].r = c /\ buf[s.at + 1].by = d
  BY <1>1 DEF Jump
<1> HIDE DEF s
<1>3. Execute(s) = Step(With(s, c, Address(pc + p + d)))
  BY <1>1, <1>2 DEF Execute
<1>4. With(s, c, Address(pc + p + d)) = State(p, Set(q, c, Address(pc + p + d)), f, j, z, "no")
  BY WithState DEF s
<1>5. Step(With(s, c, Address(pc + p + d))) = State(p + 1, Set(q, c, Address(pc + p + d)), f, j, z, "no")
  BY <1>4, StepState
<1> QED
  BY <1>3, <1>5, AtWord DEF s

\* A register is copied.
LEMMA MovStep ==
  ASSUME NEW p \in Nat, NEW q, NEW f, NEW j, NEW z, Len(buf) \in Nat, p < Len(buf),
         NEW a, NEW b, buf[p + 1] = Pair("mov", a, b)
  PROVE  NextWord(State(p, q, f, j, z, "no")) =
           State(p + 1, Set(q, a, q[b]), f, j, z, "no")
<1> DEFINE s == State(p, q, f, j, z, "no")
<1>1. s.at = p /\ s.regs = q /\ s.flags = f /\ s.stack = j
  BY Fields
<1>2. buf[s.at + 1].op = "mov" /\ buf[s.at + 1].a = a /\ buf[s.at + 1].b = b
  BY <1>1 DEF Pair
<1> HIDE DEF s
<1>3. Execute(s) = Step(With(s, a, q[b]))
  BY <1>1, <1>2 DEF Execute
<1>4. With(s, a, q[b]) = State(p, Set(q, a, q[b]), f, j, z, "no")
  BY WithState DEF s
<1>5. Step(With(s, a, q[b])) = State(p + 1, Set(q, a, q[b]), f, j, z, "no")
  BY <1>4, StepState
<1> QED
  BY <1>3, <1>5, AtWord DEF s

\* The flags are read.
LEMMA MrsStep ==
  ASSUME NEW p \in Nat, NEW q, NEW f, NEW j, NEW z, Len(buf) \in Nat, p < Len(buf),
         NEW c, buf[p + 1] = OnReg("mrs", c)
  PROVE  NextWord(State(p, q, f, j, z, "no")) =
           State(p + 1, Set(q, c, f), f, j, z, "no")
<1> DEFINE s == State(p, q, f, j, z, "no")
<1>1. s.at = p /\ s.regs = q /\ s.flags = f /\ s.stack = j
  BY Fields
<1>2. buf[s.at + 1].op = "mrs" /\ buf[s.at + 1].r = c
  BY <1>1 DEF OnReg
<1> HIDE DEF s
<1>3. Execute(s) = Step(With(s, c, f))
  BY <1>1, <1>2 DEF Execute
<1>4. With(s, c, f) = State(p, Set(q, c, f), f, j, z, "no")
  BY WithState DEF s
<1>5. Step(With(s, c, f)) = State(p + 1, Set(q, c, f), f, j, z, "no")
  BY <1>4, StepState
<1> QED
  BY <1>3, <1>5, AtWord DEF s

\* The flags are written.
LEMMA MsrStep ==
  ASSUME NEW p \in Nat, NEW q, NEW f, NEW j, NEW z, Len(buf) \in Nat, p < Len(buf),
         NEW c, buf[p + 1] = OnReg("msr", c)
  PROVE  NextWord(State(p, q, f, j, z, "no")) =
           State(p + 1, q, q[c], j, z, "no")
<1> DEFINE s == State(p, q, f, j, z, "no")
<1>1. s.at = p /\ s.regs = q /\ s.flags = f /\ s.stack = j
  BY Fields
<1>2. buf[s.at + 1].op = "msr" /\ buf[s.at + 1].r = c
  BY <1>1 DEF OnReg
<1> HIDE DEF s
<1>3. Execute(s) = Step([s EXCEPT !.flags = q[c]])
  BY <1>1, <1>2 DEF Execute
<1>4. [s EXCEPT !.flags = q[c]] = State(p, q, q[c], j, z, "no")
  BY FlagsState DEF s
<1>5. Step([s EXCEPT !.flags = q[c]]) = State(p + 1, q, q[c], j, z, "no")
  BY <1>4, StepState
<1> QED
  BY <1>3, <1>5, AtWord DEF s

\* Two registers are pushed.
LEMMA PushStep ==
  ASSUME NEW p \in Nat, NEW q, NEW f, NEW j, NEW z, Len(buf) \in Nat, p < Len(buf),
         NEW a, NEW b, buf[p + 1] = Pair("push", a, b)
  PROVE  NextWord(State(p, q, f, j, z, "no")) =
           State(p + 1, q, f, Append(j, <<q[a], q[b]>>), z, "no")
<1> DEFINE s == State(p, q, f, j, z, "no")
<1>1. s.at = p /\ s.regs = q /\ s.flags = f /\ s.stack = j
  BY Fields
<1>2. buf[s.at + 1].op = "push" /\ buf[s.at + 1].a = a /\ buf[s.at + 1].b = b
  BY <1>1 DEF Pair
<1> HIDE DEF s
<1>3. Execute(s) = Pushed(s, <<q[a], q[b]>>)
  BY <1>1, <1>2 DEF Execute
<1>5. Pushed(s, <<q[a], q[b]>>) = State(p + 1, q, f, Append(j, <<q[a], q[b]>>), z, "no")
  BY PushedState DEF s
<1> QED
  BY <1>3, <1>5, AtWord DEF s

\* What a pop leaves, field by field.
LEMMA PopState ==
  ASSUME NEW p, NEW q, NEW f, NEW j, NEW z, NEW a, NEW b
  PROVE  Pop(State(p, q, f, j, z, "no"), a, b) =
           State(p + 1, Set(Set(q, a, Last(j)[1]), b, Last(j)[2]), f, Front(j), z, "no")
<1> DEFINE s == State(p, q, f, j, z, "no")
<1>1. s.stack = j
  BY Fields
<1>2. PICK x, y, k : x = Last(j)[1] /\ y = Last(j)[2] /\ k = Front(j)
  OBVIOUS
<1>3. Popped(s) = State(p, q, f, k, z, "no")
  BY <1>2, PoppedState
<1> HIDE DEF s
<1>4. Pop(s, a, b) = Step(With(With(Popped(s), a, x), b, y))
  BY <1>1, <1>2 DEF Pop
<1>5. With(Popped(s), a, x) = State(p, Set(q, a, x), f, k, z, "no")
  BY <1>3, WithState
<1>6. PICK q1, q2 : q1 = Set(q, a, x) /\ q2 = Set(q1, b, y)
  OBVIOUS
<1>7. With(Popped(s), a, x) = State(p, q1, f, k, z, "no")
  BY <1>5, <1>6
<1>8. With(State(p, q1, f, k, z, "no"), b, y) = State(p, Set(q1, b, y), f, k, z, "no")
  BY WithState
<1>9. With(With(Popped(s), a, x), b, y) = State(p, q2, f, k, z, "no")
  BY <1>6, <1>7, <1>8
<1>10. Step(With(With(Popped(s), a, x), b, y)) = State(p + 1, q2, f, k, z, "no")
  BY <1>9, StepState
<1> QED
  BY <1>2, <1>4, <1>6, <1>10 DEF s

\* Two registers are popped.
LEMMA PopStep ==
  ASSUME NEW p \in Nat, NEW q, NEW f, NEW j, NEW z, Len(buf) \in Nat, p < Len(buf),
         NEW a, NEW b, buf[p + 1] = Pair("pop", a, b), j # << >>
  PROVE  NextWord(State(p, q, f, j, z, "no")) = Pop(State(p, q, f, j, z, "no"), a, b)
<1> DEFINE s == State(p, q, f, j, z, "no")
<1>1. s.at = p /\ s.stack = j
  BY Fields
<1>2. buf[s.at + 1].op = "pop" /\ buf[s.at + 1].a = a /\ buf[s.at + 1].b = b
  BY <1>1 DEF Pair
<1> HIDE DEF s
<1>3. Execute(s) = Pop(s, a, b)
  BY <1>1, <1>2 DEF Execute
<1> QED
  BY <1>3, AtWord DEF s

\* A branch to a register.
LEMMA BrStep ==
  ASSUME NEW p \in Nat, NEW q, NEW f, NEW j, NEW z, Len(buf) \in Nat, p < Len(buf),
         NEW c, buf[p + 1] = OnReg("br", c)
  PROVE  NextWord(State(p, q, f, j, z, "no")) =
           Transfer(State(p, q, f, j, z, "no"), q[c])
<1> DEFINE s == State(p, q, f, j, z, "no")
<1>1. s.at = p /\ s.regs = q /\ s.flags = f /\ s.stack = j
  BY Fields
<1>2. buf[s.at + 1].op = "br" /\ buf[s.at + 1].r = c
  BY <1>1 DEF OnReg
<1> HIDE DEF s
<1>3. Execute(s) = Transfer(s, q[c])
  BY <1>1, <1>2 DEF Execute
<1> QED
  BY <1>3, <1>1, AtWord DEF s

\* A call of a register leaves the word behind it in X30.
LEMMA BlrStep ==
  ASSUME NEW p \in Nat, NEW q, NEW f, NEW j, NEW z, Len(buf) \in Nat, p < Len(buf),
         NEW c, buf[p + 1] = OnReg("blr", c)
  PROVE  NextWord(State(p, q, f, j, z, "no")) =
           Transfer(State(p, Set(q, 30, Address(pc + p + 1)), f, j, z, "no"), q[c])
<1> DEFINE s == State(p, q, f, j, z, "no")
<1>1. s.at = p /\ s.regs = q /\ s.flags = f /\ s.stack = j
  BY Fields
<1>2. buf[s.at + 1].op = "blr" /\ buf[s.at + 1].r = c
  BY <1>1 DEF OnReg
<1> HIDE DEF s
<1>3. Execute(s) = Transfer(With(s, 30, Address(pc + p + 1)), q[c])
  BY <1>1, <1>2 DEF Execute
<1>4. With(s, 30, Address(pc + p + 1)) = State(p, Set(q, 30, Address(pc + p + 1)), f, j, z, "no")
  BY WithState DEF s
<1> QED
  BY <1>3, <1>4, AtWord DEF s

\* An instruction of the function is executed.
LEMMA PlainStep ==
  ASSUME NEW p \in Nat, NEW q, NEW f, NEW j, NEW z, Len(buf) \in Nat, p < Len(buf),
         NEW n, buf[p + 1] = [op |-> "plain", n |-> n]
  PROVE  NextWord(State(p, q, f, j, z, "no")) =
           State(p + 1, q, f, j, Append(z, [op |-> "plain", n |-> n]), "no")
<1> DEFINE s == State(p, q, f, j, z, "no")
<1>1. s.at = p /\ s.regs = q /\ s.flags = f /\ s.stack = j
  BY Fields
<1>2. buf[s.at + 1].op = "plain"
  BY <1>1 DEF Pair
<1> HIDE DEF s
<1>3. Execute(s) = Step(See(s, buf[p + 1]))
  BY <1>1, <1>2 DEF Execute
<1>4. See(s, [op |-> "plain", n |-> n]) = State(p, q, f, j, Append(z, [op |-> "plain", n |-> n]), "no")
  BY SeeState DEF s
<1>5. Step(See(s, [op |-> "plain", n |-> n])) = State(p + 1, q, f, j, Append(z, [op |-> "plain", n |-> n]), "no")
  BY <1>4, StepState
<1> QED
  BY <1>3, <1>5, AtWord DEF s

-----------------------------------------------------------------------------
(* Alike: the state of the words and the state of the statements *)

Plain(v) == v # Held(30) /\ v[1] \notin {"stmt", "address"}
\* What X30 holds in the statements and in the words.
Links(v, a) ==
  \/ v = Held(30) /\ a = Held(30)
  \/ \E i \in 0 .. Len(script) : v = <<"stmt", i>> /\ a = Address(pc + From(i + 1))
SameRegs(r, q) ==
  /\ DOMAIN r = AllRegs /\ DOMAIN q = AllRegs
  /\ \A x \in X : r[x] = q[x] /\ Plain(r[x])
  /\ Links(r[30], q[30])

\* What lies on the stack of the words from a to b for x, on the stack of the statements.
Saves(x, j, a) ==
  /\ DOMAIN x[1] = AllRegs /\ Plain(x[2])
  /\ \A i \in X : Plain(x[1][i])
  /\ j[a + 1][1] = x[1][0] /\ j[a + 1][2] = x[1][1]
  /\ j[a + 2][1] = x[1][2] /\ j[a + 2][2] = x[1][3]
  /\ Links(x[1][30], j[a + 3][1]) /\ j[a + 3][2] = x[2]
Frame(x, j, a, b) ==
  \/ /\ Len(x) = 2 /\ b = a + 1 /\ Plain(x[1]) /\ Plain(x[2])
     /\ j[b][1] = x[1] /\ j[b][2] = x[2]
  \/ Len(x) = 3 /\ b = a + 3 /\ Saves(x, j, a)
Heights(h, k, j) ==
  /\ h \in [0 .. Len(k) -> Nat] /\ h[0] = 0 /\ h[Len(k)] = Len(j)
  /\ \A a, b \in 0 .. Len(k) : a <= b => h[a] <= h[b]
  /\ \A n \in 1 .. Len(k) : Frame(k[n], j, h[n - 1], h[n])
Stands(k, j) == Sequence(k) /\ Sequence(j) /\ \E h : Heights(h, k, j)

Alike(s, w) ==
  \E a \in 0 .. Len(script) : \E r, q, f, k, j, z :
    /\ s = State(a, r, f, k, z, "no") /\ w = State(From(a + 1), q, f, j, z, "no")
    /\ SameRegs(r, q) /\ Plain(f) /\ Stands(k, j)
Done(s, w) ==
  \E e \in {"off", "returned"} : \E a, b, r, q, f, k, j, z :
    /\ s = State(a, r, f, k, z, e) /\ w = State(b, q, f, j, z, e)
    /\ \A x \in X : r[x] = q[x]
Wrong(s) == s.end \in {"undefined", "data", "fault"}
Matches(s, w) == Wrong(s) \/ Alike(s, w) \/ Done(s, w)

\* Where a statement starts, and where the next one does, lies within the buffer.
LEMMA WithinBuffer ==
  ASSUME Layout
  PROVE  /\ Len(buf) \in Nat /\ DOMAIN buf = 1 .. Len(buf) /\ Len(script) \in Nat
         /\ DOMAIN script = 1 .. Len(script) /\ pc \in Nat
         /\ \A i \in 1 .. Len(script) + 1 : From(i) \in 0 .. Len(buf)
         /\ From(Len(script) + 1) = Len(buf)
<1>1. pc \in Nat
  BY CodeAssumption DEF Layout
<1>2. /\ Len(script) \in Nat /\ DOMAIN script = 1 .. Len(script)
      /\ Len(buf) \in Nat /\ DOMAIN buf = 1 .. Len(buf)
  BY Indexed DEF Layout
<1>3. \A i \in 1 .. Len(script) + 1 : From(i) \in 0 .. Len(buf)
  BY <1>2, Positions
<1>4. From(Len(script) + 1) = Len(buf)
  BY <1>2, Positions
<1> QED
  BY <1>1, <1>2, <1>3, <1>4

\* A jump to an address within the buffer goes there.
LEMMA TransferHere ==
  ASSUME Layout, NEW p, NEW q, NEW f, NEW j, NEW z, NEW x \in 0 .. Len(buf), NEW v, v = Address(pc + x)
  PROVE  Transfer(State(p, q, f, j, z, "no"), v) = State(x, q, f, j, z, "no")
<1>1. pc \in Nat /\ x \in Nat
  BY WithinBuffer
<1>2. v # Held(30) /\ v[1] = "address" /\ v[2] = pc + x
  BY DEF Address, Held
<1>3. Within(v) /\ Position(v) = x
  BY <1>1, <1>2 DEF Within, Position
<1>4. Transfer(State(p, q, f, j, z, "no"), v) = [State(p, q, f, j, z, "no") EXCEPT !.at = x]
  BY <1>2, <1>3 DEF Transfer, Here
<1> QED
  BY <1>4 DEF State

\* A plain value is called outside, and so is a function.
LEMMA TransferOut ==
  ASSUME NEW s, NEW v, \/ Plain(v)
                       \/ OwnMemory /\ \E t \in Functions : v = Address(t)
  PROVE  Transfer(s, v) = Outside(s, v)
<1>1. v # Held(30) /\ ~ Within(v)
  <2>1. CASE Plain(v)
    BY <2>1 DEF Plain, Within
  <2>2. CASE OwnMemory /\ \E t \in Functions : v = Address(t)
    <3>1. v[1] = "address" /\ v[2] \in Functions /\ v # Held(30)
      BY <2>2 DEF Address, Held
    <3> QED
      BY <2>2, <3>1 DEF OwnMemory, Within
  <2> QED
    BY <2>1, <2>2
<1> QED
  BY <1>1 DEF Transfer

\* Both sides return to what X30 holds, alike or together.
LEMMA HereMatches ==
  ASSUME Layout, NEW a, NEW b, NEW r, NEW q, NEW f, NEW k, NEW j, NEW z,
         SameRegs(r, q), Plain(f), Stands(k, j)
  PROVE  Matches(Here(State(a, r, f, k, z, "no"), r[30]), Here(State(b, q, f, j, z, "no"), q[30]))
<1>1. CASE r[30] = Held(30) /\ q[30] = Held(30)
  <2>1. /\ Here(State(a, r, f, k, z, "no"), r[30]) = State(a, r, f, k, z, "returned")
        /\ Here(State(b, q, f, j, z, "no"), q[30]) = State(b, q, f, j, z, "returned")
    BY <1>1, StopState DEF Here
  <2>2. \A x \in X : r[x] = q[x]
    BY DEF SameRegs
  <2>3. Done(State(a, r, f, k, z, "returned"), State(b, q, f, j, z, "returned"))
    BY <2>2 DEF Done
  <2> QED
    BY <2>1, <2>3 DEF Matches
<1>2. ASSUME NEW i \in 0 .. Len(script), r[30] = <<"stmt", i>>, q[30] = Address(pc + From(i + 1))
      PROVE  Matches(Here(State(a, r, f, k, z, "no"), r[30]), Here(State(b, q, f, j, z, "no"), q[30]))
  <2>1. pc \in Nat /\ From(i + 1) \in 0 .. Len(buf)
    BY WithinBuffer
  <2>2. r[30] # Held(30) /\ Position(r[30]) = i
    BY <1>2 DEF Held, Position
  <2>3. q[30] # Held(30) /\ Position(q[30]) = From(i + 1)
    <3>1. q[30][1] = "address" /\ q[30][2] = pc + From(i + 1) /\ q[30] # Held(30)
      BY <1>2 DEF Address, Held
    <3> QED
      BY <2>1, <3>1 DEF Position
  <2>4. /\ Here(State(a, r, f, k, z, "no"), r[30]) = [State(a, r, f, k, z, "no") EXCEPT !.at = i]
        /\ Here(State(b, q, f, j, z, "no"), q[30]) = [State(b, q, f, j, z, "no") EXCEPT !.at = From(i + 1)]
    BY <2>2, <2>3 DEF Here
  <2>5. /\ Here(State(a, r, f, k, z, "no"), r[30]) = State(i, r, f, k, z, "no")
        /\ Here(State(b, q, f, j, z, "no"), q[30]) = State(From(i + 1), q, f, j, z, "no")
    BY <2>4 DEF State
  <2>6. Alike(State(i, r, f, k, z, "no"), State(From(i + 1), q, f, j, z, "no"))
    BY DEF Alike
  <2> QED
    BY <2>5, <2>6 DEF Matches
<1> QED
  BY <1>1, <1>2 DEF SameRegs, Links

\* How many arguments the function at v sees.
Count(v) == IF v[1] = "address" /\ v[2] \in Functions THEN Arity[v[2]] ELSE 2
Sees(q, v) == <<v, [x \in 0 .. Count(v) - 1 |-> q[x]]>>

\* What a function leaves.
LEMMA LeftState ==
  ASSUME NEW a, NEW r, NEW f, NEW k, NEW z, NEW e
  PROVE  Left(State(a, r, f, k, z, e)) = State(a, Forgets(r), Junk, k, z, e)
<1>1. PICK s, u, x : s = State(a, r, f, k, z, e) /\ u = Junk /\ x = Forgets(r)
  OBVIOUS
<1>2. s.regs = r
  BY <1>1, Fields
<1>3. Left(s) = [[s EXCEPT !.flags = u] EXCEPT !.regs = x]
  BY <1>1, <1>2 DEF Left
<1>4. [s EXCEPT !.flags = u] = State(a, r, u, k, z, e)
  BY <1>1 DEF State
<1>5. [State(a, r, u, k, z, e) EXCEPT !.regs = x] = State(a, x, u, k, z, e)
  BY DEF State
<1> QED
  BY <1>1, <1>3, <1>4, <1>5

\* A function outside has seen its arguments, forgets the rest and returns.
LEMMA OutsideState ==
  ASSUME NEW p, NEW q, NEW f, NEW j, NEW z, NEW v
  PROVE  Outside(State(p, q, f, j, z, "no"), v)
           = Here(State(p, Forgets(q), Junk, j, Append(z, Sees(q, v)), "no"), q[30])
<1>1. PICK s : s = State(p, q, f, j, z, "no")
  OBVIOUS
<1>2. PICK y : y = Append(z, Sees(q, v))
  OBVIOUS
<1>3. s.regs = q
  BY <1>1, Fields
<1>4. See(s, Sees(q, v)) = State(p, q, f, j, y, "no")
  BY <1>1, <1>2, SeeState
<1>5. Left(State(p, q, f, j, y, "no")) = State(p, Forgets(q), Junk, j, y, "no")
  BY LeftState
<1>6. Outside(s, v) = Here(Left(See(s, Sees(q, v))), q[30])
  BY <1>3 DEF Outside, Sees, Count
<1> QED
  BY <1>1, <1>2, <1>4, <1>5, <1>6

\* What it leaves is alike when what it got was.
LEMMA ForgetsAlike ==
  ASSUME NEW r, NEW q, DOMAIN r = AllRegs, DOMAIN q = AllRegs, Links(r[30], q[30])
  PROVE  SameRegs(Forgets(r), Forgets(q)) /\ Forgets(r)[30] = r[30] /\ Forgets(q)[30] = q[30]
         /\ Plain(Junk)
<1>1. 30 \in AllRegs /\ X \subseteq AllRegs /\ 30 \notin X
  BY DEF AllRegs, X
<1>2. Plain(Junk)
  BY DEF Plain, Junk, Held
<1>3. Forgets(r)[30] = r[30] /\ Forgets(q)[30] = q[30] /\ DOMAIN Forgets(r) = AllRegs /\ DOMAIN Forgets(q) = AllRegs
  BY <1>1 DEF Forgets
<1>4. \A x \in X : Forgets(r)[x] = Junk /\ Forgets(q)[x] = Junk
  BY <1>1 DEF Forgets
<1> QED
  BY <1>2, <1>3, <1>4 DEF SameRegs

\* Called alike, it leaves both sides alike.
LEMMA OutsideMatches ==
  ASSUME Layout, NEW a, NEW b, NEW r, NEW q, NEW f, NEW g, NEW k, NEW j, NEW z, NEW v,
         DOMAIN r = AllRegs, DOMAIN q = AllRegs, Links(r[30], q[30]), Stands(k, j),
         \A x \in 0 .. Count(v) - 1 : r[x] = q[x]
  PROVE  Matches(Outside(State(a, r, f, k, z, "no"), v), Outside(State(b, q, g, j, z, "no"), v))
<1>1. Sees(r, v) = Sees(q, v)
  BY DEF Sees
<1>2. PICK y : y = Append(z, Sees(r, v))
  OBVIOUS
<1>3. PICK r1, q1 : r1 = Forgets(r) /\ q1 = Forgets(q)
  OBVIOUS
<1>4. SameRegs(r1, q1) /\ r1[30] = r[30] /\ q1[30] = q[30] /\ Plain(Junk)
  BY <1>3, ForgetsAlike
<1>5. Matches(Here(State(a, r1, Junk, k, y, "no"), r1[30]), Here(State(b, q1, Junk, j, y, "no"), q1[30]))
  BY <1>4, HereMatches
<1>6. Outside(State(a, r, f, k, z, "no"), v) = Here(State(a, r1, Junk, k, y, "no"), r1[30])
  BY <1>2, <1>3, <1>4, OutsideState
<1>7. Outside(State(b, q, g, j, z, "no"), v) = Here(State(b, q1, Junk, j, y, "no"), q1[30])
  BY <1>1, <1>2, <1>3, <1>4, OutsideState
<1> QED
  BY <1>5, <1>6, <1>7

-----------------------------------------------------------------------------
(* The stacks *)

\* What lies on the stack lies there still when more is pushed.
LEMMA FrameKept ==
  ASSUME NEW x, NEW j, NEW i, NEW a \in Nat, NEW b \in Nat, Frame(x, j, a, b),
         \A m \in 1 .. b : i[m] = j[m]
  PROVE  Frame(x, i, a, b)
<1>1. CASE Len(x) = 2 /\ b = a + 1
  <2>1. i[b] = j[b]
    BY <1>1
  <2> QED
    BY <1>1, <2>1 DEF Frame
<1>2. CASE Len(x) = 3 /\ b = a + 3
  <2>1. i[a + 1] = j[a + 1] /\ i[a + 2] = j[a + 2] /\ i[a + 3] = j[a + 3]
    BY <1>2
  <2>2. Saves(x, j, a)
    BY <1>2 DEF Frame
  <2>3. Saves(x, i, a)
    BY <2>1, <2>2 DEF Saves
  <2> QED
    BY <1>2, <2>3 DEF Frame
<1> QED
  BY <1>1, <1>2 DEF Frame

\* Pushing on both sides keeps the stacks alike.
LEMMA StandsMore ==
  ASSUME NEW k, NEW j, Stands(k, j), NEW x, NEW i, Sequence(i), Len(i) >= Len(j),
         \A m \in 1 .. Len(j) : i[m] = j[m], Frame(x, i, Len(j), Len(i))
  PROVE  Stands(Append(k, x), i)
<1>1. PICK h : Heights(h, k, j)
  BY DEF Stands
<1>2. PICK n \in Nat : n = Len(k)
  BY Indexed DEF Stands
<1>3. Len(j) \in Nat /\ Len(i) \in Nat
  BY Indexed DEF Stands
<1>4. PICK l : l = Append(k, x)
  OBVIOUS
<1>5. Sequence(l) /\ Len(l) = n + 1 /\ (\A m \in 1 .. n : l[m] = k[m]) /\ l[n + 1] = x
  BY <1>2, <1>4, Added DEF Stands
<1>6. PICK g : g = [m \in 0 .. n + 1 |-> IF m = n + 1 THEN Len(i) ELSE h[m]]
  OBVIOUS
<1>7. /\ h \in [0 .. n -> Nat] /\ h[0] = 0 /\ h[n] = Len(j)
      /\ \A a, b \in 0 .. n : a <= b => h[a] <= h[b]
      /\ \A m \in 1 .. n : Frame(k[m], j, h[m - 1], h[m])
  BY <1>1, <1>2 DEF Heights
<1>8. g \in [0 .. n + 1 -> Nat] /\ g[0] = 0 /\ g[n + 1] = Len(i) /\ \A m \in 0 .. n : g[m] = h[m]
  BY <1>3, <1>6, <1>7
<1>9. ASSUME NEW a \in 0 .. n + 1, NEW b \in 0 .. n + 1, a <= b
      PROVE  g[a] <= g[b]
  <2>1. CASE b \in 0 .. n
    <3>1. a \in 0 .. n
      BY <1>9, <2>1
    <3> QED
      BY <1>7, <1>8, <1>9, <2>1, <3>1
  <2>2. CASE b = n + 1 /\ a \in 0 .. n
    <3>1. h[a] <= h[n] /\ h[a] \in Nat
      BY <1>7, <2>2
    <3> QED
      BY <1>3, <1>7, <1>8, <2>2, <3>1
  <2>3. CASE b = n + 1 /\ a = n + 1
    BY <1>3, <1>8, <2>3
  <2> QED
    BY <2>1, <2>2, <2>3
<1>10. ASSUME NEW m \in 1 .. n + 1
       PROVE  Frame(l[m], i, g[m - 1], g[m])
  <2>1. CASE m \in 1 .. n
    <3>1. m - 1 \in 0 .. n /\ m \in 0 .. n /\ n \in 0 .. n /\ m <= n
      BY <2>1
    <3>2. h[m] <= Len(j) /\ h[m] \in Nat /\ h[m - 1] \in Nat
      BY <1>7, <3>1
    <3>3. \A c \in 1 .. h[m] : i[c] = j[c]
      BY <1>3, <3>2
    <3>4. Frame(k[m], i, h[m - 1], h[m])
      BY <1>7, <2>1, <3>2, <3>3, FrameKept
    <3> QED
      BY <1>5, <1>8, <2>1, <3>1, <3>4
  <2>2. CASE m = n + 1
    <3>1. l[m] = x /\ m - 1 = n /\ g[m - 1] = Len(j) /\ g[m] = Len(i)
      BY <1>5, <1>7, <1>8, <2>2
    <3> QED
      BY <3>1
  <2> QED
    BY <2>1, <2>2
<1>11. Heights(g, l, i)
  BY <1>5, <1>8, <1>9, <1>10 DEF Heights
<1> QED
  BY <1>4, <1>5, <1>11 DEF Stands

\* All but the last.
LEMMA FrontOf ==
  ASSUME NEW s, Sequence(s), s # << >>
  PROVE  /\ Len(s) \in Nat \ {0} /\ Last(s) = s[Len(s)]
         /\ Sequence(Front(s)) /\ Len(Front(s)) = Len(s) - 1
         /\ \A m \in 1 .. Len(s) - 1 : Front(s)[m] = s[m]
<1> PICK S : s \in Seq(S)
  BY DEF Sequence
<1>1. Len(s) \in Nat \ {0}
  OBVIOUS
<1>2. Front(s) \in Seq(S) /\ Len(Front(s)) = Len(s) - 1
      /\ \A m \in 1 .. Len(s) - 1 : Front(s)[m] = s[m]
  <2>1. PICK n \in Nat : n = Len(s) - 1
    BY <1>1
  <2>2. SubSeq(s, 1, n) \in Seq(S)
    BY <1>1, <2>1
  <2>3. Len(SubSeq(s, 1, n)) = n
    BY <1>1, <2>1
  <2>4. \A m \in 1 .. n : SubSeq(s, 1, n)[m] = s[m]
    BY <1>1, <2>1
  <2>5. Front(s) = SubSeq(s, 1, n)
    BY <2>1 DEF Front
  <2> QED
    BY <2>1, <2>2, <2>3, <2>4, <2>5
<1>3. Last(s) = s[Len(s)]
  BY DEF Last
<1> QED
  BY <1>1, <1>2, <1>3 DEF Sequence

\* Popping on both sides keeps the stacks alike, as long as the words pop what the
\* statement does.
LEMMA StandsLess ==
  ASSUME NEW k, NEW j, Stands(k, j), k # << >>
  PROVE  \E c \in Nat :
           /\ Frame(Last(k), j, c, Len(j)) /\ c <= Len(j) /\ Len(j) \in Nat
           /\ \A i : Sequence(i) /\ Len(i) = c /\ (\A m \in 1 .. c : i[m] = j[m]) => Stands(Front(k), i)
<1>1. PICK h : Heights(h, k, j)
  BY DEF Stands
<1>2. /\ Len(k) \in Nat \ {0} /\ Last(k) = k[Len(k)]
      /\ Sequence(Front(k)) /\ Len(Front(k)) = Len(k) - 1
      /\ \A m \in 1 .. Len(k) - 1 : Front(k)[m] = k[m]
  BY FrontOf DEF Stands
<1>3. PICK n \in Nat : n = Len(k) - 1
  BY <1>2
<1>4. PICK l : l = Front(k)
  OBVIOUS
<1>5. Sequence(l) /\ Len(l) = n /\ (\A m \in 1 .. n : l[m] = k[m]) /\ Last(k) = k[n + 1] /\ Len(k) = n + 1
  BY <1>2, <1>3, <1>4
<1>6. /\ h \in [0 .. n + 1 -> Nat] /\ h[0] = 0 /\ h[n + 1] = Len(j)
      /\ \A a, b \in 0 .. n + 1 : a <= b => h[a] <= h[b]
      /\ \A m \in 1 .. n + 1 : Frame(k[m], j, h[m - 1], h[m])
  BY <1>1, <1>5 DEF Heights
<1>7. PICK c \in Nat : c = h[n]
  BY <1>6
<1>8. Frame(Last(k), j, c, Len(j)) /\ c <= Len(j) /\ Len(j) \in Nat
  <2>1. n + 1 \in 1 .. n + 1 /\ (n + 1) - 1 = n /\ n \in 0 .. n + 1 /\ n + 1 \in 0 .. n + 1 /\ n <= n + 1
    BY <1>3
  <2>2. Frame(k[n + 1], j, h[n], h[n + 1])
    BY <1>6, <2>1
  <2>3. h[n] <= h[n + 1]
    BY <1>6, <2>1
  <2> QED
    BY <1>5, <1>6, <1>7, <2>2, <2>3
<1>9. ASSUME NEW i, Sequence(i), Len(i) = c, \A m \in 1 .. c : i[m] = j[m]
      PROVE  Stands(l, i)
  <2>1. PICK g : g = [m \in 0 .. n |-> h[m]]
    OBVIOUS
  <2>2. g \in [0 .. n -> Nat] /\ g[0] = 0 /\ g[n] = c /\ \A m \in 0 .. n : g[m] = h[m]
    BY <1>6, <1>7, <2>1
  <2>3. \A a, b \in 0 .. n : a <= b => g[a] <= g[b]
    BY <1>6, <2>2
  <2>4. ASSUME NEW m \in 1 .. n PROVE Frame(l[m], i, g[m - 1], g[m])
    <3>1. m - 1 \in 0 .. n /\ m \in 0 .. n /\ n \in 0 .. n /\ m <= n /\ m \in 1 .. n + 1
      OBVIOUS
    <3>2. g[m] <= c /\ g[m] \in Nat /\ g[m - 1] \in Nat
      BY <2>2, <2>3, <3>1
    <3>3. \A e \in 1 .. g[m] : i[e] = j[e]
      BY <1>9, <3>2
    <3>4. Frame(k[m], j, g[m - 1], g[m])
      BY <1>6, <2>2, <3>1
    <3>5. Frame(k[m], i, g[m - 1], g[m])
      BY <3>2, <3>3, <3>4, FrameKept
    <3> QED
      BY <1>5, <3>5
  <2>5. Heights(g, l, i)
    BY <1>5, <1>9, <2>2, <2>3, <2>4 DEF Heights
  <2> QED
    BY <1>5, <1>9, <2>5 DEF Stands
<1> QED
  BY <1>4, <1>8, <1>9

-----------------------------------------------------------------------------
(* One statement and its words *)

\* The words of ws are at p.
Code(p, ws) ==
  /\ Sequence(ws) /\ p \in Nat /\ Len(ws) \in Nat /\ Len(buf) \in Nat /\ p + Len(ws) <= Len(buf)
  /\ DOMAIN buf = 1 .. Len(buf)
  /\ \A i \in 1 .. Len(ws) : buf[p + i] = ws[i]

\* What DoesWhatItSays requires of the script.
Sound ==
  /\ CodeInv /\ flushed /\ ~ failed /\ OwnMemory
  /\ ~ FarTest /\ \A i \in DOMAIN script : ~ Overwrites(script[i])

\* A run of the words W is at statement a, alike.
Ready(W, n, a, r, q, f, k, j, z) ==
  /\ n \in Nat /\ \A i \in n .. n + 8 : W[i + 1] = NextWord(W[i])
  /\ a \in Nat /\ a < Len(script)
  /\ W[n] = State(From(a + 1), q, f, j, z, "no")
  /\ SameRegs(r, q) /\ Plain(f) /\ Stands(k, j)
Reaches(W, n, s) == \E m \in 0 .. 9 : Matches(s, W[n + m])

\* The words of the statement at a are in the buffer.
LEMMA StatementWords ==
  ASSUME Layout, NEW a \in Nat, a < Len(script)
  PROVE  \E ws : /\ Spells(script[a + 1], pc + From(a + 1), ws)
                 /\ Code(From(a + 1), ws) /\ From(a + 2) = From(a + 1) + Len(ws)
                 /\ From(a + 2) <= Len(buf)
<1>1. /\ Len(script) \in Nat /\ DOMAIN script = 1 .. Len(script) /\ Len(buf) \in Nat
      /\ DOMAIN buf = 1 .. Len(buf) /\ \A i \in 1 .. Len(script) + 1 : From(i) \in 0 .. Len(buf)
  BY WithinBuffer
<1>2. PICK i \in DOMAIN script : i = a + 1
  BY <1>1
<1>3. PICK ws : Spells(script[i], pc + From(i), ws) /\ Lies(i, ws)
  BY <1>2 DEF Layout, Spelled
<1>4. From(i) \in 0 .. Len(buf) /\ From(i + 1) \in 0 .. Len(buf) /\ i + 1 = a + 2
  BY <1>1, <1>2
<1>5. Sequence(ws) /\ Len(ws) \in Nat /\ From(i + 1) = From(i) + Len(ws)
      /\ \A m \in 1 .. Len(ws) : buf[From(i) + m] = ws[m]
  BY <1>3, Indexed DEF Lies
<1>6. Code(From(i), ws)
  BY <1>1, <1>4, <1>5 DEF Code
<1> QED
  BY <1>2, <1>3, <1>4, <1>5, <1>6

\* The words at p.
LEMMA Fetched ==
  ASSUME NEW p, NEW ws, Code(p, ws), NEW c \in Nat, c < Len(ws)
  PROVE  /\ p + c \in Nat /\ p + c < Len(buf) /\ Len(buf) \in Nat
         /\ p + c + 1 \in DOMAIN buf /\ buf[p + c + 1] = ws[c + 1]
<1>1. p + (c + 1) = p + c + 1 /\ c + 1 \in 1 .. Len(ws)
  BY DEF Code
<1> QED
  BY <1>1 DEF Code

\* The first word of some code.
LEMMA FetchedFirst ==
  ASSUME NEW p, NEW ws, Code(p, ws), Len(ws) > 0
  PROVE  /\ p \in Nat /\ p < Len(buf) /\ Len(buf) \in Nat
         /\ p + 1 \in DOMAIN buf /\ buf[p + 1] = ws[1]
BY DEF Code

\* The second, third and fourth.
LEMMA FetchedFew ==
  ASSUME NEW p, NEW ws, Code(p, ws)
  PROVE  /\ p \in Nat /\ Len(buf) \in Nat
         /\ Len(ws) > 1 => /\ p + 1 \in Nat /\ p + 1 < Len(buf)
                          /\ p + 1 + 1 \in DOMAIN buf /\ buf[p + 1 + 1] = ws[2]
         /\ Len(ws) > 2 => /\ p + 2 \in Nat /\ p + 2 < Len(buf)
                          /\ p + 2 + 1 \in DOMAIN buf /\ buf[p + 2 + 1] = ws[3]
         /\ Len(ws) > 3 => /\ p + 3 \in Nat /\ p + 3 < Len(buf)
                          /\ p + 3 + 1 \in DOMAIN buf /\ buf[p + 3 + 1] = ws[4]
<1>1. p \in Nat /\ Len(buf) \in Nat /\ Len(ws) \in Nat
  BY DEF Code
<1>2. Len(ws) > 1 => /\ p + 1 \in Nat /\ p + 1 < Len(buf)
                     /\ p + 1 + 1 \in DOMAIN buf /\ buf[p + 1 + 1] = ws[2]
  <2>1. SUFFICES ASSUME Len(ws) > 1
                 PROVE  /\ p + 1 \in Nat /\ p + 1 < Len(buf)
                        /\ p + 1 + 1 \in DOMAIN buf /\ buf[p + 1 + 1] = ws[2]
    OBVIOUS
  <2>2. 2 \in 1 .. Len(ws) /\ p + 2 = p + 1 + 1
    BY <1>1, <2>1
  <2> QED
    BY <1>1, <2>1, <2>2 DEF Code
<1>3. Len(ws) > 2 => /\ p + 2 \in Nat /\ p + 2 < Len(buf)
                     /\ p + 2 + 1 \in DOMAIN buf /\ buf[p + 2 + 1] = ws[3]
  <2>1. SUFFICES ASSUME Len(ws) > 2
                 PROVE  /\ p + 2 \in Nat /\ p + 2 < Len(buf)
                        /\ p + 2 + 1 \in DOMAIN buf /\ buf[p + 2 + 1] = ws[3]
    OBVIOUS
  <2>2. 3 \in 1 .. Len(ws) /\ p + 3 = p + 2 + 1
    BY <1>1, <2>1
  <2> QED
    BY <1>1, <2>1, <2>2 DEF Code
<1>4. Len(ws) > 3 => /\ p + 3 \in Nat /\ p + 3 < Len(buf)
                     /\ p + 3 + 1 \in DOMAIN buf /\ buf[p + 3 + 1] = ws[4]
  <2>1. SUFFICES ASSUME Len(ws) > 3
                 PROVE  /\ p + 3 \in Nat /\ p + 3 < Len(buf)
                        /\ p + 3 + 1 \in DOMAIN buf /\ buf[p + 3 + 1] = ws[4]
    OBVIOUS
  <2>2. 4 \in 1 .. Len(ws) /\ p + 4 = p + 3 + 1
    BY <1>1, <2>1
  <2> QED
    BY <1>1, <2>1, <2>2 DEF Code
<1> QED
  BY <1>1, <1>2, <1>3, <1>4

\* A label has no words and does nothing.
LEMMA LabelDoes ==
  ASSUME Sound, NEW W, NEW n, NEW a, NEW r, NEW q, NEW f, NEW k, NEW j, NEW z,
         Ready(W, n, a, r, q, f, k, j, z), script[a + 1].op = "label"
  PROVE  Reaches(W, n, Perform(State(a, r, f, k, z, "no")))
<1>1. /\ n \in Nat /\ a \in Nat /\ a < Len(script) /\ W[n] = State(From(a + 1), q, f, j, z, "no")
      /\ SameRegs(r, q) /\ Plain(f) /\ Stands(k, j) /\ Layout
  BY DEF Ready, Sound, CodeInv
<1>2. PICK ws : /\ Spells(script[a + 1], pc + From(a + 1), ws)
                /\ Code(From(a + 1), ws) /\ From(a + 2) = From(a + 1) + Len(ws)
  BY <1>1, StatementWords
<1>3. Len(ws) = 0
  BY <1>2, Empty DEF Spells
<1>4. From(a + 2) = From(a + 1)
  BY <1>2, <1>3 DEF Code
<1>5. Perform(State(a, r, f, k, z, "no")) = State(a + 1, r, f, k, z, "no")
  <2>1. PICK s : s = State(a, r, f, k, z, "no")
    OBVIOUS
  <2>2. s.at = a
    BY <2>1, Fields
  <2>3. Perform(s) = Step(s)
    BY <2>2 DEF Perform
  <2> QED
    BY <2>1, <2>3, StepState
<1>6. a + 1 \in 0 .. Len(script) /\ (a + 1) + 1 = a + 2
  BY <1>1, WithinBuffer
<1>7. Alike(State(a + 1, r, f, k, z, "no"), W[n])
  BY <1>1, <1>4, <1>6 DEF Alike
<1>8. n + 0 = n /\ 0 \in 0 .. 9
  BY <1>1
<1> QED
  BY <1>5, <1>7, <1>8 DEF Reaches, Matches

\* What is known at the start of a statement.
LEMMA Begun ==
  ASSUME Sound, NEW W, NEW n, NEW a, NEW r, NEW q, NEW f, NEW k, NEW j, NEW z,
         Ready(W, n, a, r, q, f, k, j, z)
  PROVE  /\ n \in Nat /\ a \in Nat /\ a < Len(script) /\ Layout /\ pc \in Nat
         /\ \A m \in 0 .. 8 : W[n + m + 1] = NextWord(W[n + m])
         /\ a + 1 \in 0 .. Len(script) /\ (a + 1) + 1 = a + 2 /\ From(a + 2) \in 0 .. Len(buf)
         /\ From(a + 1) \in 0 .. Len(buf) /\ Len(buf) \in Nat
         /\ SameRegs(r, q) /\ Plain(f) /\ Stands(k, j)
         /\ W[n] = State(From(a + 1), q, f, j, z, "no")
         /\ \E ws : /\ Spells(script[a + 1], pc + From(a + 1), ws)
                    /\ Code(From(a + 1), ws) /\ From(a + 2) = From(a + 1) + Len(ws)
<1>1. /\ n \in Nat /\ a \in Nat /\ a < Len(script) /\ Layout
      /\ SameRegs(r, q) /\ Plain(f) /\ Stands(k, j)
      /\ W[n] = State(From(a + 1), q, f, j, z, "no")
  BY DEF Ready, Sound, CodeInv
<1>2. \A m \in 0 .. 8 : W[n + m + 1] = NextWord(W[n + m])
  <2>1. \A m \in 0 .. 8 : n + m \in n .. n + 8
    BY <1>1
  <2> QED
    BY <2>1 DEF Ready
<1>3. /\ Len(script) \in Nat /\ pc \in Nat /\ Len(buf) \in Nat
      /\ \A i \in 1 .. Len(script) + 1 : From(i) \in 0 .. Len(buf)
  BY <1>1, WithinBuffer
<1>4. a + 1 \in 0 .. Len(script) /\ (a + 1) + 1 = a + 2 /\ From(a + 2) \in 0 .. Len(buf)
      /\ From(a + 1) \in 0 .. Len(buf)
  BY <1>1, <1>3
<1>5. \E ws : /\ Spells(script[a + 1], pc + From(a + 1), ws)
              /\ Code(From(a + 1), ws) /\ From(a + 2) = From(a + 1) + Len(ws)
  BY <1>1, StatementWords
<1> QED
  BY <1>1, <1>2, <1>3, <1>4, <1>5

\* At the start of the next statement, alike.
LEMMA Arrives ==
  ASSUME Sound, NEW W, NEW n, NEW a, NEW r, NEW q, NEW f, NEW k, NEW j, NEW z,
         Ready(W, n, a, r, q, f, k, j, z), NEW m \in 0 .. 9,
         NEW r1, NEW q1, NEW f1, NEW k1, NEW j1, NEW z1,
         W[n + m] = State(From(a + 2), q1, f1, j1, z1, "no"),
         SameRegs(r1, q1), Plain(f1), Stands(k1, j1)
  PROVE  Reaches(W, n, State(a + 1, r1, f1, k1, z1, "no"))
<1>1. a + 1 \in 0 .. Len(script) /\ (a + 1) + 1 = a + 2
  BY Begun
<1>2. Alike(State(a + 1, r1, f1, k1, z1, "no"), W[n + m])
  BY <1>1 DEF Alike
<1> QED
  BY <1>2 DEF Reaches, Matches

\* One more word.
LEMMA Onward ==
  ASSUME Sound, NEW W, NEW n, NEW a, NEW r, NEW q, NEW f, NEW k, NEW j, NEW z,
         Ready(W, n, a, r, q, f, k, j, z)
  PROVE  /\ W[n + 1] = NextWord(W[n])
         /\ \A m \in 0 .. 8 : W[n + (m + 1)] = NextWord(W[n + m])
<1>1. n \in Nat /\ \A m \in 0 .. 8 : W[n + m + 1] = NextWord(W[n + m])
  BY Begun
<1>2. \A m \in 0 .. 8 : n + (m + 1) = n + m + 1
  BY <1>1
<1>3. n + 0 = n /\ n + 0 + 1 = n + 1 /\ 0 \in 0 .. 8
  BY <1>1
<1> QED
  BY <1>1, <1>2, <1>3

\* A pair pushed on both sides.
LEMMA PushStands ==
  ASSUME NEW k, NEW j, Stands(k, j), NEW a, NEW b, Plain(a), Plain(b)
  PROVE  Stands(Append(k, <<a, b>>), Append(j, <<a, b>>))
<1>1. PICK x, i : x = <<a, b>> /\ i = Append(j, x)
  OBVIOUS
<1>2. Len(j) \in Nat
  BY Indexed DEF Stands
<1>3. Sequence(i) /\ Len(i) = Len(j) + 1 /\ (\A m \in 1 .. Len(j) : i[m] = j[m]) /\ i[Len(j) + 1] = x
  BY <1>1, Added DEF Stands
<1>4. Len(x) = 2 /\ x[1] = a /\ x[2] = b
  BY <1>1
<1>5. Frame(x, i, Len(j), Len(i))
  BY <1>3, <1>4 DEF Frame
<1>6. Len(i) >= Len(j)
  BY <1>2, <1>3
<1>7. Stands(Append(k, x), i)
  BY <1>3, <1>5, <1>6, StandsMore
<1> QED
  BY <1>1, <1>7

\* The word of a push does it.
LEMMA PushDoes ==
  ASSUME Sound, NEW W, NEW n, NEW a, NEW r, NEW q, NEW f, NEW k, NEW j, NEW z,
         Ready(W, n, a, r, q, f, k, j, z), script[a + 1].op = "push"
  PROVE  Reaches(W, n, Perform(State(a, r, f, k, z, "no")))
<1>1. /\ W[n] = State(From(a + 1), q, f, j, z, "no") /\ W[n + 1] = NextWord(W[n]) /\ n \in Nat
      /\ SameRegs(r, q) /\ Plain(f) /\ Stands(k, j)
  BY Begun, Onward
<1>2. PICK ws : /\ Spells(script[a + 1], pc + From(a + 1), ws)
                /\ Code(From(a + 1), ws) /\ From(a + 2) = From(a + 1) + Len(ws)
  BY Begun
<1>3. PICK p : p = From(a + 1)
  OBVIOUS
<1>4. script[a + 1].a = 0 /\ script[a + 1].b = 1 /\ ws = <<Pair("push", 0, 1)>>
  BY <1>2 DEF Spells
<1>5. Len(ws) = 1 /\ ws[1] = Pair("push", 0, 1)
  BY <1>4, One
<1>6. p \in Nat /\ p < Len(buf) /\ Len(buf) \in Nat /\ buf[p + 1] = Pair("push", 0, 1)
  <2>1. Code(p, ws) /\ Len(ws) > 0
    BY <1>2, <1>3, <1>5
  <2> QED
    BY <1>5, <2>1, FetchedFirst
<1>7. NextWord(State(p, q, f, j, z, "no")) = State(p + 1, q, f, Append(j, <<q[0], q[1]>>), z, "no")
  BY <1>6, PushStep
<1>8. W[n + 1] = State(From(a + 2), q, f, Append(j, <<q[0], q[1]>>), z, "no")
  BY <1>1, <1>2, <1>3, <1>5, <1>7
<1>9. Perform(State(a, r, f, k, z, "no")) = State(a + 1, r, f, Append(k, <<r[0], r[1]>>), z, "no")
  <2>1. PICK s : s = State(a, r, f, k, z, "no")
    OBVIOUS
  <2>2. s.at = a /\ s.regs = r
    BY <2>1, Fields
  <2>3. Perform(s) = Pushed(s, <<r[0], r[1]>>)
    BY <1>4, <2>2 DEF Perform
  <2> QED
    BY <2>1, <2>3, PushedState
<1>10. r[0] = q[0] /\ r[1] = q[1] /\ Plain(r[0]) /\ Plain(r[1])
  BY <1>1 DEF SameRegs, X
<1>11. Stands(Append(k, <<r[0], r[1]>>), Append(j, <<q[0], q[1]>>))
  BY <1>1, <1>10, PushStands
<1>12. 1 \in 0 .. 9
  OBVIOUS
<1> QED
  BY <1>1, <1>8, <1>9, <1>11, <1>12, Arrives

\* A return to X30 on both sides.
LEMMA BackMatches ==
  ASSUME Layout, NEW a, NEW b, NEW r, NEW q, NEW f, NEW k, NEW j, NEW z,
         SameRegs(r, q), Plain(f), Stands(k, j)
  PROVE  Matches(Transfer(State(a, r, f, k, z, "no"), r[30]), Transfer(State(b, q, f, j, z, "no"), q[30]))
<1>1. r[30] = Held(30) \/ Within(r[30])
  BY DEF SameRegs, Links, Within
<1>2. q[30] = Held(30) \/ Within(q[30])
  <2>1. ASSUME NEW i \in 0 .. Len(script), q[30] = Address(pc + From(i + 1)) PROVE Within(q[30])
    <3>1. pc \in Nat /\ From(i + 1) \in 0 .. Len(buf)
      BY WithinBuffer
    <3>2. q[30][1] = "address" /\ q[30][2] = pc + From(i + 1)
      BY <2>1 DEF Address
    <3> QED
      BY <3>1, <3>2 DEF Within
  <2> QED
    BY <2>1 DEF SameRegs, Links
<1>3. /\ Transfer(State(a, r, f, k, z, "no"), r[30]) = Here(State(a, r, f, k, z, "no"), r[30])
      /\ Transfer(State(b, q, f, j, z, "no"), q[30]) = Here(State(b, q, f, j, z, "no"), q[30])
  BY <1>1, <1>2 DEF Transfer
<1> QED
  BY <1>3, HereMatches

\* A register set alike on both sides.
LEMMA SameWith ==
  ASSUME NEW r, NEW q, SameRegs(r, q), NEW c \in X, NEW v, Plain(v)
  PROVE  SameRegs(Set(r, c, v), Set(q, c, v))
<1>1. X \subseteq AllRegs /\ 30 \in AllRegs /\ 30 # c
  BY DEF X, AllRegs
<1> QED
  BY <1>1 DEF SameRegs, Set

\* A pair popped on both sides.
LEMMA PopStands ==
  ASSUME NEW k, NEW j, Stands(k, j), k # << >>, Len(Last(k)) = 2
  PROVE  /\ j # << >> /\ Last(j)[1] = Last(k)[1] /\ Last(j)[2] = Last(k)[2]
         /\ Plain(Last(k)[1]) /\ Plain(Last(k)[2]) /\ Stands(Front(k), Front(j))
<1>1. PICK c \in Nat :
           /\ Frame(Last(k), j, c, Len(j)) /\ c <= Len(j) /\ Len(j) \in Nat
           /\ \A i : Sequence(i) /\ Len(i) = c /\ (\A m \in 1 .. c : i[m] = j[m]) => Stands(Front(k), i)
  BY StandsLess
<1>2. PICK x : x = Last(k)
  OBVIOUS
<1>3. Len(j) = c + 1 /\ Plain(x[1]) /\ Plain(x[2]) /\ j[Len(j)][1] = x[1] /\ j[Len(j)][2] = x[2]
  BY <1>1, <1>2 DEF Frame
<1>4. j # << >> /\ Sequence(j)
  BY <1>1, <1>3, Empty DEF Stands
<1>5. /\ Last(j) = j[Len(j)] /\ Sequence(Front(j)) /\ Len(Front(j)) = Len(j) - 1
      /\ \A m \in 1 .. Len(j) - 1 : Front(j)[m] = j[m]
  BY <1>4, FrontOf
<1>6. PICK i : i = Front(j)
  OBVIOUS
<1>7. Sequence(i) /\ Len(i) = c /\ \A m \in 1 .. c : i[m] = j[m]
  BY <1>1, <1>3, <1>5, <1>6
<1>8. Stands(Front(k), i)
  BY <1>1, <1>7
<1> QED
  BY <1>2, <1>3, <1>4, <1>5, <1>6, <1>8

\* LdrU64 loads its literal and jumps over it.
LEMMA LoadRuns ==
  ASSUME Layout, NEW p, NEW c, NEW v, NEW ws, ws = LdrU64(c, v), Code(p, ws), NEW q, NEW f, NEW j, NEW z
  PROVE  /\ NextWord(NextWord(State(p, q, f, j, z, "no")))
              = State(p + 4, Set(q, c, v), f, j, z, "no")
         /\ Len(ws) = 4 /\ p + 4 \in 0 .. Len(buf)
<1>1. /\ Len(ws) = 4 /\ ws[1] = Ldr(c, 2) /\ ws[2] = Jump("b", 3) /\ ws[3] = [op |-> "lit", v |-> v]
  BY LdrWords
<1>2. p \in Nat /\ Len(buf) \in Nat /\ p + 4 <= Len(buf)
  BY <1>1 DEF Code
<1>3. buf[p + 1] = Ldr(c, 2) /\ p < Len(buf)
  <2>1. Len(ws) > 0
    BY <1>1
  <2> QED
    BY <1>1, <2>1, FetchedFirst
<1>4. buf[p + 1 + 1] = Jump("b", 3) /\ p + 1 < Len(buf) /\ p + 1 \in Nat
  <2>1. 1 \in Nat /\ 1 < Len(ws) /\ 1 + 1 = 2
    BY <1>1
  <2> QED
    BY <1>1, <2>1, Fetched
<1>5. p + 2 + 1 \in DOMAIN buf /\ buf[p + 2 + 1] = [op |-> "lit", v |-> v]
  <2>1. 2 \in Nat /\ 2 < Len(ws) /\ 2 + 1 = 3
    BY <1>1
  <2> QED
    BY <1>1, <2>1, Fetched
<1>6. PICK q1 : q1 = Set(q, c, v)
  OBVIOUS
<1>7. NextWord(State(p, q, f, j, z, "no")) = State(p + 1, q1, f, j, z, "no")
  <2>1. NextWord(State(p, q, f, j, z, "no")) = State(p + 1, Set(q, c, v), f, j, z, "no")
    BY <1>2, <1>3, <1>5, LdrStep
  <2> QED
    BY <1>6, <2>1
<1>8. NextWord(State(p + 1, q1, f, j, z, "no"))
        = Transfer(State(p + 1, q1, f, j, z, "no"), Address(pc + (p + 1) + 3))
  BY <1>2, <1>4, JumpStep
<1>9. pc + (p + 1) + 3 = pc + (p + 4) /\ p + 4 \in 0 .. Len(buf)
  BY <1>2, WithinBuffer
<1>10. Transfer(State(p + 1, q1, f, j, z, "no"), Address(pc + (p + 4))) = State(p + 4, q1, f, j, z, "no")
  BY <1>9, TransferHere
<1> QED
  BY <1>1, <1>6, <1>7, <1>8, <1>9, <1>10

\* The word of a return does it.
LEMMA RetDoes ==
  ASSUME Sound, NEW W, NEW n, NEW a, NEW r, NEW q, NEW f, NEW k, NEW j, NEW z,
         Ready(W, n, a, r, q, f, k, j, z), script[a + 1].op = "ret"
  PROVE  Reaches(W, n, Perform(State(a, r, f, k, z, "no")))
<1>p. PICK p : p = From(a + 1)
  OBVIOUS
<1>s0. PICK s : s = State(a, r, f, k, z, "no")
  OBVIOUS
<1>1. /\ W[n] = State(p, q, f, j, z, "no") /\ n \in Nat /\ a \in Nat /\ a < Len(script)
      /\ SameRegs(r, q) /\ Plain(f) /\ Stands(k, j) /\ Layout /\ p \in 0 .. Len(buf)
      /\ pc \in Nat /\ Len(buf) \in Nat /\ From(a + 2) \in 0 .. Len(buf)
  BY <1>p, Begun
<1>2. /\ W[n + 1] = NextWord(W[n])
      /\ \A m \in 0 .. 8 : W[n + (m + 1)] = NextWord(W[n + m])
  BY Onward
<1>3. PICK ws : Spells(script[a + 1], pc + p, ws) /\ Code(p, ws) /\ From(a + 2) = p + Len(ws)
  BY <1>p, Begun
<1>c. Code(p, ws)
  BY <1>3
<1>s. s.at = a /\ s.regs = r /\ s.flags = f /\ s.stack = k /\ s = State(a, r, f, k, z, "no")
  BY <1>s0, Fields
<1>4. ws = <<OnReg("br", 30)>>
  BY <1>3 DEF Spells
<1>5. Len(ws) = 1 /\ ws[1] = OnReg("br", 30)
  BY <1>4, One
<1>6. p \in Nat /\ p < Len(buf) /\ buf[p + 1] = OnReg("br", 30)
  <2>1. Len(ws) > 0
    BY <1>5
  <2> QED
    BY <1>c, <1>5, <2>1, FetchedFirst
<1>7. W[n + 1] = Transfer(State(p, q, f, j, z, "no"), q[30])
  <2>1. Len(buf) \in Nat
    BY <1>1
  <2>2. NextWord(State(p, q, f, j, z, "no")) = Transfer(State(p, q, f, j, z, "no"), q[30])
    BY <1>6, <2>1, BrStep
  <2> QED
    BY <1>1, <1>2, <2>2
<1>8. Perform(s) = Transfer(s, r[30])
  BY <1>s DEF Perform
<1>9. Matches(Perform(s), W[n + 1])
  BY <1>1, <1>7, <1>8, <1>s, BackMatches
<1> QED
  BY <1>9, <1>s, 1 \in 0 .. 9 DEF Reaches

\* Statements that run into a literal are wrong: nothing is said of the words.
LEMMA ValueDoes ==
  ASSUME Sound, NEW W, NEW n, NEW a, NEW r, NEW q, NEW f, NEW k, NEW j, NEW z,
         Ready(W, n, a, r, q, f, k, j, z), script[a + 1].op = "value"
  PROVE  Reaches(W, n, Perform(State(a, r, f, k, z, "no")))
<1>p. PICK p : p = From(a + 1)
  OBVIOUS
<1>s0. PICK s : s = State(a, r, f, k, z, "no")
  OBVIOUS
<1>1. /\ W[n] = State(p, q, f, j, z, "no") /\ n \in Nat /\ a \in Nat /\ a < Len(script)
      /\ SameRegs(r, q) /\ Plain(f) /\ Stands(k, j) /\ Layout /\ p \in 0 .. Len(buf)
      /\ pc \in Nat /\ Len(buf) \in Nat /\ From(a + 2) \in 0 .. Len(buf)
  BY <1>p, Begun
<1>2. /\ W[n + 1] = NextWord(W[n])
      /\ \A m \in 0 .. 8 : W[n + (m + 1)] = NextWord(W[n + m])
  BY Onward
<1>3. PICK ws : Spells(script[a + 1], pc + p, ws) /\ Code(p, ws) /\ From(a + 2) = p + Len(ws)
  BY <1>p, Begun
<1>c. Code(p, ws)
  BY <1>3
<1>s. s.at = a /\ s.regs = r /\ s.flags = f /\ s.stack = k /\ s = State(a, r, f, k, z, "no")
  BY <1>s0, Fields
<1>8. Perform(s) = Stop(s, "data")
  BY <1>s DEF Perform
<1>9. Stop(s, "data") = State(a, r, f, k, z, "data")
  BY <1>s, StopState
<1>10. State(a, r, f, k, z, "data").end = "data"
  BY Fields
<1>11. Matches(Perform(s), W[n + 0])
  BY <1>8, <1>9, <1>10 DEF Matches, Wrong
<1> QED
  BY <1>11, <1>s, 0 \in 0 .. 9 DEF Reaches

\* The words of a load do it.
LEMMA LdrDoes ==
  ASSUME Sound, NEW W, NEW n, NEW a, NEW r, NEW q, NEW f, NEW k, NEW j, NEW z,
         Ready(W, n, a, r, q, f, k, j, z), script[a + 1].op = "ldr"
  PROVE  Reaches(W, n, Perform(State(a, r, f, k, z, "no")))
<1>p. PICK p : p = From(a + 1)
  OBVIOUS
<1>s0. PICK s : s = State(a, r, f, k, z, "no")
  OBVIOUS
<1>1. /\ W[n] = State(p, q, f, j, z, "no") /\ n \in Nat /\ a \in Nat /\ a < Len(script)
      /\ SameRegs(r, q) /\ Plain(f) /\ Stands(k, j) /\ Layout /\ p \in 0 .. Len(buf)
      /\ pc \in Nat /\ Len(buf) \in Nat /\ From(a + 2) \in 0 .. Len(buf)
  BY <1>p, Begun
<1>2. /\ W[n + 1] = NextWord(W[n])
      /\ \A m \in 0 .. 8 : W[n + (m + 1)] = NextWord(W[n + m])
  BY Onward
<1>3. PICK ws : Spells(script[a + 1], pc + p, ws) /\ Code(p, ws) /\ From(a + 2) = p + Len(ws)
  BY <1>p, Begun
<1>c. Code(p, ws)
  BY <1>3
<1>s. s.at = a /\ s.regs = r /\ s.flags = f /\ s.stack = k /\ s = State(a, r, f, k, z, "no")
  BY <1>s0, Fields
<1>4. /\ script[a + 1].r \in {0, 1} /\ ws = LdrU64(script[a + 1].r, script[a + 1].v)
      /\ \E v \in Immediates : script[a + 1].v = Imm(v)
  BY <1>3 DEF Spells
<1>5a. PICK c \in {0, 1} : \E v : c = script[a + 1].r /\ v = script[a + 1].v
  BY <1>4
<1>5. PICK v : c = script[a + 1].r /\ v = script[a + 1].v
  BY <1>5a
<1>6. ws = LdrU64(c, v) /\ Plain(v) /\ c \in X
  <2>1. v[1] = "imm" /\ v # Held(30)
    BY <1>4, <1>5 DEF Imm, Held
  <2> QED
    BY <1>4, <1>5, <2>1 DEF Plain, X
<1>7. NextWord(NextWord(State(p, q, f, j, z, "no"))) = State(p + 4, Set(q, c, v), f, j, z, "no")
      /\ Len(ws) = 4
  BY <1>1, <1>3, <1>6, LoadRuns
<1>8. W[n + 2] = State(From(a + 2), Set(q, c, v), f, j, z, "no")
  <2>1. 1 \in 0 .. 8 /\ 1 + 1 = 2
    OBVIOUS
  <2> QED
    BY <1>1, <1>2, <1>3, <1>7, <2>1
<1>9. Perform(s) = State(a + 1, Set(r, c, v), f, k, z, "no")
  <2>1. Perform(s) = Step(With(s, c, v))
    BY <1>5, <1>s DEF Perform
  <2>2. PICK r1 : r1 = Set(r, c, v)
    OBVIOUS
  <2>3. With(s, c, v) = State(a, Set(r, c, v), f, k, z, "no")
    BY <1>s, WithState
  <2>4. With(s, c, v) = State(a, r1, f, k, z, "no")
    BY <2>2, <2>3
  <2> QED
    BY <2>1, <2>2, <2>4, StepState
<1>10. PICK r1, q1 : r1 = Set(r, c, v) /\ q1 = Set(q, c, v)
  OBVIOUS
<1>11. SameRegs(r1, q1)
  BY <1>1, <1>6, <1>10, SameWith
<1>12. Reaches(W, n, State(a + 1, r1, f, k, z, "no"))
  BY <1>1, <1>8, <1>10, <1>11, 2 \in 0 .. 9, Arrives
<1> QED
  BY <1>9, <1>10, <1>12, <1>s

\* The word of a pop does it.
LEMMA PopDoes ==
  ASSUME Sound, NEW W, NEW n, NEW a, NEW r, NEW q, NEW f, NEW k, NEW j, NEW z,
         Ready(W, n, a, r, q, f, k, j, z), script[a + 1].op = "pop"
  PROVE  Reaches(W, n, Perform(State(a, r, f, k, z, "no")))
<1>p. PICK p : p = From(a + 1)
  OBVIOUS
<1>s0. PICK s : s = State(a, r, f, k, z, "no")
  OBVIOUS
<1>1. /\ W[n] = State(p, q, f, j, z, "no") /\ n \in Nat /\ a \in Nat /\ a < Len(script)
      /\ SameRegs(r, q) /\ Plain(f) /\ Stands(k, j) /\ Layout /\ p \in 0 .. Len(buf)
      /\ pc \in Nat /\ Len(buf) \in Nat /\ From(a + 2) \in 0 .. Len(buf)
  BY <1>p, Begun
<1>2. /\ W[n + 1] = NextWord(W[n])
      /\ \A m \in 0 .. 8 : W[n + (m + 1)] = NextWord(W[n + m])
  BY Onward
<1>3. PICK ws : Spells(script[a + 1], pc + p, ws) /\ Code(p, ws) /\ From(a + 2) = p + Len(ws)
  BY <1>p, Begun
<1>c. Code(p, ws)
  BY <1>3
<1>s. s.at = a /\ s.regs = r /\ s.flags = f /\ s.stack = k /\ s = State(a, r, f, k, z, "no")
  BY <1>s0, Fields
<1>4. /\ script[a + 1].a \in {0, 1} /\ script[a + 1].b = script[a + 1].a + 1
      /\ ws = <<Pair("pop", script[a + 1].a, script[a + 1].b)>>
  BY <1>3 DEF Spells
<1>5. PICK c \in X, d \in X : c = script[a + 1].a /\ d = script[a + 1].b
  BY <1>4 DEF X
<1>6. Len(ws) = 1 /\ ws[1] = Pair("pop", c, d)
  BY <1>4, <1>5, One
<1>7. p \in Nat /\ p < Len(buf) /\ buf[p + 1] = Pair("pop", c, d)
  <2>1. Len(ws) > 0
    BY <1>6
  <2> QED
    BY <1>c, <1>6, <2>1, FetchedFirst
<1>8. CASE k = << >> \/ Len(Last(k)) # 2
  <2>1. Perform(s) = Stop(s, "fault")
    BY <1>8, <1>s DEF Perform
  <2>2. Stop(s, "fault") = State(a, r, f, k, z, "fault")
    BY <1>s, StopState
  <2>3. State(a, r, f, k, z, "fault").end = "fault"
    BY Fields
  <2>4. Matches(Perform(s), W[n + 0])
    BY <2>1, <2>2, <2>3 DEF Matches, Wrong
  <2> QED
    BY <2>4, <1>s, 0 \in 0 .. 9 DEF Reaches
<1>9. CASE k # << >> /\ Len(Last(k)) = 2
  <2>1. /\ j # << >> /\ Last(j)[1] = Last(k)[1] /\ Last(j)[2] = Last(k)[2]
        /\ Plain(Last(k)[1]) /\ Plain(Last(k)[2]) /\ Stands(Front(k), Front(j))
    BY <1>1, <1>9, PopStands
  <2>2. PICK x, y : x = Last(k)[1] /\ y = Last(k)[2]
    OBVIOUS
  <2>3. Perform(s) = Pop(s, c, d)
    BY <1>5, <1>9, <1>s DEF Perform
  <2>4. PICK r1, q1 : r1 = Set(r, c, x) /\ q1 = Set(q, c, x)
    OBVIOUS
  <2>5. PICK r2, q2 : r2 = Set(r1, d, y) /\ q2 = Set(q1, d, y)
    OBVIOUS
  <2>6. SameRegs(r1, q1)
    BY <1>1, <2>1, <2>2, <2>4, SameWith
  <2>7. SameRegs(r2, q2)
    BY <2>1, <2>2, <2>5, <2>6, SameWith
  <2>8. Perform(s) = State(a + 1, r2, f, Front(k), z, "no")
    <3>1. Pop(State(a, r, f, k, z, "no"), c, d) =
            State(a + 1, Set(Set(r, c, Last(k)[1]), d, Last(k)[2]), f, Front(k), z, "no")
      BY PopState
    <3> QED
      BY <1>s, <2>2, <2>3, <2>4, <2>5, <3>1
  <2>9. W[n + 1] = Pop(State(p, q, f, j, z, "no"), c, d)
    <3>1. Len(buf) \in Nat
      BY <1>1
    <3>2. NextWord(State(p, q, f, j, z, "no")) = Pop(State(p, q, f, j, z, "no"), c, d)
      BY <1>7, <2>1, <3>1, PopStep
    <3> QED
      BY <1>1, <1>2, <3>2
  <2>10. Pop(State(p, q, f, j, z, "no"), c, d) = State(p + 1, q2, f, Front(j), z, "no")
    <3>1. Pop(State(p, q, f, j, z, "no"), c, d) =
            State(p + 1, Set(Set(q, c, Last(j)[1]), d, Last(j)[2]), f, Front(j), z, "no")
      BY PopState
    <3> QED
      BY <2>1, <2>2, <2>4, <2>5, <3>1
  <2>11. W[n + 1] = State(From(a + 2), q2, f, Front(j), z, "no")
    BY <1>3, <1>6, <2>9, <2>10
  <2>12. PICK k1, j1 : k1 = Front(k) /\ j1 = Front(j)
    OBVIOUS
  <2>13. Reaches(W, n, State(a + 1, r2, f, k1, z, "no"))
    BY <1>1, <2>1, <2>7, <2>11, <2>12, 1 \in 0 .. 9, Arrives
  <2> QED
    BY <1>s, <2>8, <2>12, <2>13
<1> QED
  BY <1>8, <1>9

\* What push_all saved is back.
LEMMA RestoredState ==
  ASSUME NEW a, NEW r, NEW f, NEW k, NEW z, NEW e, NEW x
  PROVE  Restored(State(a, r, f, k, z, e), x) = State(a, Set(x[1], 17, r[17]), x[2], k, z, e)
<1>1. PICK s, u, y : s = State(a, r, f, k, z, e) /\ u = x[2] /\ y = Set(x[1], 17, r[17])
  OBVIOUS
<1>2. s.regs = r
  BY <1>1, Fields
<1>3. Restored(s, x) = [[s EXCEPT !.regs = y] EXCEPT !.flags = u]
  BY <1>1, <1>2 DEF Restored, Set
<1>4. [s EXCEPT !.regs = y] = State(a, y, f, k, z, e)
  BY <1>1 DEF State
<1>5. [State(a, y, f, k, z, e) EXCEPT !.flags = u] = State(a, y, u, k, z, e)
  BY DEF State
<1> QED
  BY <1>1, <1>3, <1>4, <1>5

\* One register set.
LEMMA SetAt ==
  ASSUME NEW q, DOMAIN q = AllRegs, NEW c \in AllRegs, NEW v
  PROVE  DOMAIN Set(q, c, v) = AllRegs /\ \A x \in AllRegs : Set(q, c, v)[x] = IF x = c THEN v ELSE q[x]
BY DEF Set

\* What push_all pushes is three pairs for the words and one record for the statements.
LEMMA PushAllStands ==
  ASSUME NEW r, NEW q, SameRegs(r, q), NEW f, Plain(f), NEW k, NEW j, Stands(k, j),
         NEW i, NEW x, NEW y, NEW v,
         x = <<q[0], q[1]>>, y = <<q[2], q[3]>>, v = <<q[30], f>>,
         i = Append(Append(Append(j, x), y), v)
  PROVE  Stands(Append(k, <<r, f, "all">>), i)
<1>1. PICK c \in Nat : c = Len(j)
  BY Indexed DEF Stands
<1>2. PICK j1 : j1 = Append(j, x)
  OBVIOUS
<1>3. PICK j2 : j2 = Append(j1, y)
  OBVIOUS
<1>4. Sequence(j1) /\ Len(j1) = c + 1 /\ (\A m \in 1 .. c : j1[m] = j[m]) /\ j1[c + 1] = x
  BY <1>1, <1>2, Added DEF Stands
<1>5. Sequence(j2) /\ Len(j2) = c + 1 + 1 /\ (\A m \in 1 .. c + 1 : j2[m] = j1[m]) /\ j2[c + 1 + 1] = y
  BY <1>3, <1>4, Added
<1>6. /\ Sequence(i) /\ Len(i) = c + 1 + 1 + 1 /\ (\A m \in 1 .. c + 1 + 1 : i[m] = j2[m])
      /\ i[c + 1 + 1 + 1] = v
  BY <1>2, <1>3, <1>5, Added
<1>7. i[c + 1] = x /\ i[c + 2] = y /\ i[c + 3] = v /\ Len(i) = c + 3 /\ \A m \in 1 .. c : i[m] = j[m]
  BY <1>4, <1>5, <1>6
<1>8. PICK s : s = <<r, f, "all">>
  OBVIOUS
<1>9. Len(s) = 3 /\ s[1] = r /\ s[2] = f
  BY <1>8
<1>10. 0 \in X /\ 1 \in X /\ 2 \in X /\ 3 \in X
  BY DEF X
<1>11. /\ x[1] = r[0] /\ x[2] = r[1] /\ y[1] = r[2] /\ y[2] = r[3]
       /\ v[1] = q[30] /\ v[2] = f
  BY <1>10 DEF SameRegs
<1>12. Saves(s, i, c)
  BY <1>7, <1>9, <1>11 DEF Saves, SameRegs
<1>13. Frame(s, i, Len(j), Len(i))
  BY <1>1, <1>7, <1>9, <1>12 DEF Frame
<1>14. Len(i) >= Len(j) /\ \A m \in 1 .. Len(j) : i[m] = j[m]
  BY <1>1, <1>7
<1>15. Stands(Append(k, s), i)
  BY <1>6, <1>13, <1>14, StandsMore
<1> QED
  BY <1>8, <1>15

\* The words of push_all do it.
LEMMA PushAllDoes ==
  ASSUME Sound, NEW W, NEW n, NEW a, NEW r, NEW q, NEW f, NEW k, NEW j, NEW z,
         Ready(W, n, a, r, q, f, k, j, z), script[a + 1].op = "push_all"
  PROVE  Reaches(W, n, Perform(State(a, r, f, k, z, "no")))
<1>p. PICK p : p = From(a + 1)
  OBVIOUS
<1>s0. PICK s : s = State(a, r, f, k, z, "no")
  OBVIOUS
<1>1. /\ W[n] = State(p, q, f, j, z, "no") /\ n \in Nat /\ a \in Nat /\ a < Len(script)
      /\ SameRegs(r, q) /\ Plain(f) /\ Stands(k, j) /\ Layout /\ p \in 0 .. Len(buf)
      /\ pc \in Nat /\ Len(buf) \in Nat /\ From(a + 2) \in 0 .. Len(buf)
  BY <1>p, Begun
<1>2. /\ W[n + 1] = NextWord(W[n])
      /\ \A m \in 0 .. 8 : W[n + (m + 1)] = NextWord(W[n + m])
  BY Onward
<1>3. PICK ws : Spells(script[a + 1], pc + p, ws) /\ Code(p, ws) /\ From(a + 2) = p + Len(ws)
  BY <1>p, Begun
<1>c. Code(p, ws)
  BY <1>3
<1>s. s.at = a /\ s.regs = r /\ s.flags = f /\ s.stack = k /\ s = State(a, r, f, k, z, "no")
  BY <1>s0, Fields
<1>4. ws = PushAll
  BY <1>3 DEF Spells
<1>5. /\ Len(ws) = 4 /\ ws[1] = Pair("push", 0, 1) /\ ws[2] = Pair("push", 2, 3)
      /\ ws[3] = OnReg("mrs", 3) /\ ws[4] = Pair("push", 30, 3)
  BY <1>4, Four DEF PushAll
<1>6. p \in Nat /\ p < Len(buf) /\ buf[p + 1] = Pair("push", 0, 1)
  <2>1. Len(ws) > 0
    BY <1>5
  <2> QED
    BY <1>c, <1>5, <2>1, FetchedFirst
<1>7. p + 1 \in Nat /\ p + 1 < Len(buf) /\ buf[p + 1 + 1] = Pair("push", 2, 3)
  <2>1. Len(ws) > 1
    BY <1>5
  <2> QED
    BY <1>c, <1>5, <2>1, FetchedFew
<1>8. p + 2 \in Nat /\ p + 2 < Len(buf) /\ buf[p + 2 + 1] = OnReg("mrs", 3)
  <2>1. Len(ws) > 2
    BY <1>5
  <2> QED
    BY <1>c, <1>5, <2>1, FetchedFew
<1>9. p + 3 \in Nat /\ p + 3 < Len(buf) /\ buf[p + 3 + 1] = Pair("push", 30, 3)
  <2>1. Len(ws) > 3
    BY <1>5
  <2> QED
    BY <1>c, <1>5, <2>1, FetchedFew
<1>10. /\ W[n + 1] = NextWord(W[n]) /\ W[n + 2] = NextWord(W[n + 1])
       /\ W[n + 3] = NextWord(W[n + 2]) /\ W[n + 4] = NextWord(W[n + 3])
  <2>1. 1 \in 0 .. 8 /\ 1 + 1 = 2 /\ 2 \in 0 .. 8 /\ 2 + 1 = 3 /\ 3 \in 0 .. 8 /\ 3 + 1 = 4
    OBVIOUS
  <2> QED
    BY <1>2, <2>1
<1>11. PICK x, y, q1 : x = <<q[0], q[1]>> /\ y = <<q[2], q[3]>> /\ q1 = Set(q, 3, f)
  OBVIOUS
<1>12. PICK v : v = <<q1[30], q1[3]>>
  OBVIOUS
<1>13. PICK j1 : j1 = Append(j, x)
  OBVIOUS
<1>14. PICK j2 : j2 = Append(j1, y)
  OBVIOUS
<1>15. PICK j3 : j3 = Append(j2, v)
  OBVIOUS
<1>16. Len(buf) \in Nat
  BY <1>1
<1>17. W[n + 1] = State(p + 1, q, f, j1, z, "no")
  <2>1. NextWord(State(p, q, f, j, z, "no")) = State(p + 1, q, f, Append(j, <<q[0], q[1]>>), z, "no")
    BY <1>6, <1>16, PushStep
  <2> QED
    BY <1>1, <1>10, <1>11, <1>13, <2>1
<1>18. W[n + 2] = State(p + 2, q, f, j2, z, "no")
  <2>1. NextWord(State(p + 1, q, f, j1, z, "no"))
          = State(p + 1 + 1, q, f, Append(j1, <<q[2], q[3]>>), z, "no")
    BY <1>7, <1>16, PushStep
  <2>2. p + 1 + 1 = p + 2
    BY <1>6
  <2> QED
    BY <1>10, <1>11, <1>14, <1>17, <2>1, <2>2
<1>19. W[n + 3] = State(p + 3, q1, f, j2, z, "no")
  <2>1. NextWord(State(p + 2, q, f, j2, z, "no")) = State(p + 2 + 1, Set(q, 3, f), f, j2, z, "no")
    BY <1>8, <1>16, MrsStep
  <2>2. p + 2 + 1 = p + 3
    BY <1>6
  <2> QED
    BY <1>10, <1>11, <1>18, <2>1, <2>2
<1>20. W[n + 4] = State(p + 4, q1, f, j3, z, "no")
  <2>1. NextWord(State(p + 3, q1, f, j2, z, "no"))
          = State(p + 3 + 1, q1, f, Append(j2, <<q1[30], q1[3]>>), z, "no")
    BY <1>9, <1>16, PushStep
  <2>2. p + 3 + 1 = p + 4
    BY <1>6
  <2> QED
    BY <1>10, <1>12, <1>15, <1>19, <2>1, <2>2
<1>21. v = <<q[30], f>>
  <2>1. DOMAIN q = AllRegs /\ 3 \in AllRegs /\ 30 \in AllRegs
    BY <1>1 DEF SameRegs, AllRegs, X
  <2>2. q1[30] = q[30] /\ q1[3] = f
    BY <1>11, <2>1, SetAt
  <2> QED
    BY <1>12, <2>2
<1>22. PICK t, r1, k1 : t = <<r, f, "all">> /\ r1 = Set(r, 3, f) /\ k1 = Append(k, t)
  OBVIOUS
<1>23. Stands(k1, j3)
  BY <1>1, <1>11, <1>13, <1>14, <1>15, <1>21, <1>22, PushAllStands
<1>24. SameRegs(r1, q1)
  <2>1. 3 \in X
    BY DEF X
  <2> QED
    BY <1>1, <1>11, <1>22, <2>1, SameWith
<1>25. Perform(s) = State(a + 1, r1, f, k1, z, "no")
  <2>1. Perform(s) = With(Pushed(s, t), 3, f)
    BY <1>s, <1>22 DEF Perform
  <2>2. Pushed(s, t) = State(a + 1, r, f, k1, z, "no")
    BY <1>s, <1>22, PushedState
  <2>3. With(State(a + 1, r, f, k1, z, "no"), 3, f) = State(a + 1, Set(r, 3, f), f, k1, z, "no")
    BY WithState
  <2> QED
    BY <1>22, <2>1, <2>2, <2>3
<1>26. From(a + 2) = p + 4
  BY <1>3, <1>5
<1>27. Reaches(W, n, State(a + 1, r1, f, k1, z, "no"))
  BY <1>1, <1>20, <1>23, <1>24, <1>26, 4 \in 0 .. 9, Arrives
<1> QED
  BY <1>25, <1>27, <1>s

\* What pop_all finds: the three pairs push_all left.
Three(k, j) ==
  \E j1, j2, j3, c :
    /\ Len(Last(k)) = 3 /\ Saves(Last(k), j, c)
    /\ j # << >> /\ Last(j) = j[c + 3] /\ j1 = Front(j)
    /\ j1 # << >> /\ Last(j1) = j[c + 2] /\ j2 = Front(j1)
    /\ j2 # << >> /\ Last(j2) = j[c + 1] /\ j3 = Front(j2)
    /\ Stands(Front(k), j3)

\* What pop_all pops is what push_all pushed.
LEMMA PopAllStands ==
  ASSUME NEW k, NEW j, Stands(k, j), k # << >>, Len(Last(k)) # 2
  PROVE  Three(k, j)
<1>1. PICK c \in Nat :
           /\ Frame(Last(k), j, c, Len(j)) /\ c <= Len(j) /\ Len(j) \in Nat
           /\ \A i : Sequence(i) /\ Len(i) = c /\ (\A m \in 1 .. c : i[m] = j[m]) => Stands(Front(k), i)
  BY StandsLess
<1>2. Len(Last(k)) = 3 /\ Saves(Last(k), j, c) /\ Len(j) = c + 3
  BY <1>1 DEF Frame
<1>3. Sequence(j) /\ j # << >>
  BY <1>1, <1>2, Empty DEF Stands
<1>4. PICK j1 : j1 = Front(j)
  OBVIOUS
<1>5. Sequence(j1) /\ Len(j1) = c + 2 /\ Last(j) = j[c + 3] /\ \A m \in 1 .. c + 2 : j1[m] = j[m]
  <2>1. /\ Last(j) = j[Len(j)] /\ Sequence(Front(j)) /\ Len(Front(j)) = Len(j) - 1
        /\ \A m \in 1 .. Len(j) - 1 : Front(j)[m] = j[m]
    BY <1>3, FrontOf
  <2>2. Len(j) - 1 = c + 2
    BY <1>1, <1>2
  <2> QED
    BY <1>2, <1>4, <2>1, <2>2
<1>6. j1 # << >>
  BY <1>1, <1>5, Empty
<1>7. PICK j2 : j2 = Front(j1)
  OBVIOUS
<1>8. Sequence(j2) /\ Len(j2) = c + 1 /\ Last(j1) = j[c + 2] /\ \A m \in 1 .. c + 1 : j2[m] = j[m]
  <2>1. /\ Last(j1) = j1[Len(j1)] /\ Sequence(Front(j1)) /\ Len(Front(j1)) = Len(j1) - 1
        /\ \A m \in 1 .. Len(j1) - 1 : Front(j1)[m] = j1[m]
    BY <1>5, <1>6, FrontOf
  <2>2. Len(j1) - 1 = c + 1
    BY <1>1, <1>5
  <2> QED
    BY <1>5, <1>7, <2>1, <2>2
<1>9. j2 # << >>
  BY <1>1, <1>8, Empty
<1>10. PICK j3 : j3 = Front(j2)
  OBVIOUS
<1>11. Sequence(j3) /\ Len(j3) = c /\ Last(j2) = j[c + 1] /\ \A m \in 1 .. c : j3[m] = j[m]
  <2>1. /\ Last(j2) = j2[Len(j2)] /\ Sequence(Front(j2)) /\ Len(Front(j2)) = Len(j2) - 1
        /\ \A m \in 1 .. Len(j2) - 1 : Front(j2)[m] = j2[m]
    BY <1>8, <1>9, FrontOf
  <2>2. Len(j2) - 1 = c
    BY <1>1, <1>8
  <2> QED
    BY <1>8, <1>10, <2>1, <2>2
<1>12. Stands(Front(k), j3)
  BY <1>1, <1>11
<1> QED
  BY <1>2, <1>3, <1>4, <1>5, <1>6, <1>7, <1>8, <1>9, <1>10, <1>11, <1>12 DEF Three

\* The words of pop_all do it.
LEMMA PopAllDoes ==
  ASSUME Sound, NEW W, NEW n, NEW a, NEW r, NEW q, NEW f, NEW k, NEW j, NEW z,
         Ready(W, n, a, r, q, f, k, j, z), script[a + 1].op = "pop_all"
  PROVE  Reaches(W, n, Perform(State(a, r, f, k, z, "no")))
<1>p. PICK p : p = From(a + 1)
  OBVIOUS
<1>s0. PICK s : s = State(a, r, f, k, z, "no")
  OBVIOUS
<1>1. /\ W[n] = State(p, q, f, j, z, "no") /\ n \in Nat /\ a \in Nat /\ a < Len(script)
      /\ SameRegs(r, q) /\ Plain(f) /\ Stands(k, j) /\ Layout /\ p \in 0 .. Len(buf)
      /\ pc \in Nat /\ Len(buf) \in Nat /\ From(a + 2) \in 0 .. Len(buf)
  BY <1>p, Begun
<1>2. /\ W[n + 1] = NextWord(W[n])
      /\ \A m \in 0 .. 8 : W[n + (m + 1)] = NextWord(W[n + m])
  BY Onward
<1>3. PICK ws : Spells(script[a + 1], pc + p, ws) /\ Code(p, ws) /\ From(a + 2) = p + Len(ws)
  BY <1>p, Begun
<1>c. Code(p, ws)
  BY <1>3
<1>s. s.at = a /\ s.regs = r /\ s.flags = f /\ s.stack = k /\ s = State(a, r, f, k, z, "no")
  BY <1>s0, Fields
<1>4. ws = PopAll
  BY <1>3 DEF Spells
<1>5. /\ Len(ws) = 4 /\ ws[1] = Pair("pop", 30, 3) /\ ws[2] = OnReg("msr", 3)
      /\ ws[3] = Pair("pop", 2, 3) /\ ws[4] = Pair("pop", 0, 1)
  BY <1>4, Four DEF PopAll
<1>6. p \in Nat /\ p < Len(buf) /\ buf[p + 1] = Pair("pop", 30, 3)
  <2>1. Len(ws) > 0
    BY <1>5
  <2> QED
    BY <1>c, <1>5, <2>1, FetchedFirst
<1>7. p + 1 \in Nat /\ p + 1 < Len(buf) /\ buf[p + 1 + 1] = OnReg("msr", 3)
  <2>1. Len(ws) > 1
    BY <1>5
  <2> QED
    BY <1>c, <1>5, <2>1, FetchedFew
<1>8. p + 2 \in Nat /\ p + 2 < Len(buf) /\ buf[p + 2 + 1] = Pair("pop", 2, 3)
  <2>1. Len(ws) > 2
    BY <1>5
  <2> QED
    BY <1>c, <1>5, <2>1, FetchedFew
<1>9. p + 3 \in Nat /\ p + 3 < Len(buf) /\ buf[p + 3 + 1] = Pair("pop", 0, 1)
  <2>1. Len(ws) > 3
    BY <1>5
  <2> QED
    BY <1>c, <1>5, <2>1, FetchedFew
<1>10. /\ W[n + 1] = NextWord(W[n]) /\ W[n + 2] = NextWord(W[n + 1])
       /\ W[n + 3] = NextWord(W[n + 2]) /\ W[n + 4] = NextWord(W[n + 3])
  <2>1. 1 \in 0 .. 8 /\ 1 + 1 = 2 /\ 2 \in 0 .. 8 /\ 2 + 1 = 3 /\ 3 \in 0 .. 8 /\ 3 + 1 = 4
    OBVIOUS
  <2> QED
    BY <1>2, <2>1
<1>11. CASE k = << >> \/ Len(Last(k)) # 3
  <2>1. Perform(s) = Stop(s, "fault")
    BY <1>11, <1>s DEF Perform
  <2>2. Stop(s, "fault") = State(a, r, f, k, z, "fault")
    BY <1>s, StopState
  <2>3. State(a, r, f, k, z, "fault").end = "fault"
    BY Fields
  <2>4. Matches(Perform(s), W[n + 0])
    BY <2>1, <2>2, <2>3 DEF Matches, Wrong
  <2> QED
    BY <2>4, <1>s, 0 \in 0 .. 9 DEF Reaches
<1>12. CASE k # << >> /\ Len(Last(k)) = 3
  <2>1. PICK t : t = Last(k)
    OBVIOUS
  <2>2. PICK j1, j2, j3, c :
           /\ Saves(t, j, c)
           /\ j # << >> /\ Last(j) = j[c + 3] /\ j1 = Front(j)
           /\ j1 # << >> /\ Last(j1) = j[c + 2] /\ j2 = Front(j1)
           /\ j2 # << >> /\ Last(j2) = j[c + 1] /\ j3 = Front(j2)
           /\ Stands(Front(k), j3)
    <3>1. Len(Last(k)) # 2
      BY <1>12
    <3>2. Three(k, j)
      BY <1>1, <1>12, <3>1, PopAllStands
    <3> QED
      BY <2>1, <3>2 DEF Three
  <2>3. Len(buf) \in Nat
    BY <1>1
  <2>4. PICK x, y, v : x = Last(j) /\ y = Last(j1) /\ v = Last(j2)
    OBVIOUS
  <2>5. PICK q1 : q1 = Set(Set(q, 30, x[1]), 3, x[2])
    OBVIOUS
  <2>6. PICK g : g = q1[3]
    OBVIOUS
  <2>7. PICK q2 : q2 = Set(Set(q1, 2, y[1]), 3, y[2])
    OBVIOUS
  <2>8. PICK q3 : q3 = Set(Set(q2, 0, v[1]), 1, v[2])
    OBVIOUS
  <2>9. W[n + 1] = State(p + 1, q1, f, j1, z, "no")
    <3>1. NextWord(State(p, q, f, j, z, "no")) = Pop(State(p, q, f, j, z, "no"), 30, 3)
      BY <1>6, <2>2, <2>3, PopStep
    <3>2. Pop(State(p, q, f, j, z, "no"), 30, 3)
            = State(p + 1, Set(Set(q, 30, Last(j)[1]), 3, Last(j)[2]), f, Front(j), z, "no")
      BY PopState
    <3> QED
      BY <1>1, <1>10, <2>2, <2>4, <2>5, <3>1, <3>2
  <2>10. W[n + 2] = State(p + 2, q1, g, j1, z, "no")
    <3>1. NextWord(State(p + 1, q1, f, j1, z, "no")) = State(p + 1 + 1, q1, q1[3], j1, z, "no")
      BY <1>7, <2>3, MsrStep
    <3>2. p + 1 + 1 = p + 2
      BY <1>6
    <3> QED
      BY <1>10, <2>6, <2>9, <3>1, <3>2
  <2>11. W[n + 3] = State(p + 3, q2, g, j2, z, "no")
    <3>1. NextWord(State(p + 2, q1, g, j1, z, "no")) = Pop(State(p + 2, q1, g, j1, z, "no"), 2, 3)
      BY <1>8, <2>2, <2>3, PopStep
    <3>2. Pop(State(p + 2, q1, g, j1, z, "no"), 2, 3)
            = State(p + 2 + 1, Set(Set(q1, 2, Last(j1)[1]), 3, Last(j1)[2]), g, Front(j1), z, "no")
      BY PopState
    <3>3. p + 2 + 1 = p + 3
      BY <1>6
    <3> QED
      BY <1>10, <2>2, <2>4, <2>7, <2>10, <3>1, <3>2, <3>3
  <2>12. W[n + 4] = State(p + 4, q3, g, j3, z, "no")
    <3>1. NextWord(State(p + 3, q2, g, j2, z, "no")) = Pop(State(p + 3, q2, g, j2, z, "no"), 0, 1)
      BY <1>9, <2>2, <2>3, PopStep
    <3>2. Pop(State(p + 3, q2, g, j2, z, "no"), 0, 1)
            = State(p + 3 + 1, Set(Set(q2, 0, Last(j2)[1]), 1, Last(j2)[2]), g, Front(j2), z, "no")
      BY PopState
    <3>3. p + 3 + 1 = p + 4
      BY <1>6
    <3> QED
      BY <1>10, <2>2, <2>4, <2>8, <2>11, <3>1, <3>2, <3>3
  <2>13. PICK r1, k1 : r1 = Set(t[1], 17, r[17]) /\ k1 = Front(k)
    OBVIOUS
  <2>14. Perform(s) = State(a + 1, r1, t[2], k1, z, "no")
    <3>1. Perform(s) = Step(Restored(Popped(s), t))
      BY <1>12, <1>s, <2>1 DEF Perform
    <3>2. Popped(s) = State(a, r, f, k1, z, "no")
      BY <1>s, <2>13, PoppedState
    <3>3. Restored(State(a, r, f, k1, z, "no"), t) = State(a, r1, t[2], k1, z, "no")
      BY <2>13, RestoredState
    <3> QED
      BY <3>1, <3>2, <3>3, StepState
  <2>15. /\ DOMAIN t[1] = AllRegs /\ Plain(t[2]) /\ (\A i \in X : Plain(t[1][i]))
         /\ v[1] = t[1][0] /\ v[2] = t[1][1] /\ y[1] = t[1][2] /\ y[2] = t[1][3]
         /\ Links(t[1][30], x[1]) /\ x[2] = t[2]
    BY <2>2, <2>4 DEF Saves
  <2>16. /\ DOMAIN q = AllRegs /\ 0 \in AllRegs /\ 1 \in AllRegs /\ 2 \in AllRegs
         /\ 3 \in AllRegs /\ 17 \in AllRegs /\ 30 \in AllRegs
         /\ X = {0, 1, 2, 3}
    BY <1>1 DEF SameRegs, AllRegs, X
  <2>17. DOMAIN q1 = AllRegs /\ q1[30] = x[1] /\ q1[3] = x[2]
    <3>1. PICK i : i = Set(q, 30, x[1])
      OBVIOUS
    <3>2. DOMAIN i = AllRegs /\ i[30] = x[1]
      BY <2>16, <3>1, SetAt
    <3>3. q1 = Set(i, 3, x[2])
      BY <2>5, <3>1
    <3> QED
      BY <2>16, <3>2, <3>3, SetAt
  <2>18. DOMAIN q2 = AllRegs /\ q2[30] = x[1] /\ q2[2] = y[1] /\ q2[3] = y[2]
    <3>1. PICK i : i = Set(q1, 2, y[1])
      OBVIOUS
    <3>2. DOMAIN i = AllRegs /\ i[30] = x[1] /\ i[2] = y[1]
      BY <2>16, <2>17, <3>1, SetAt
    <3>3. q2 = Set(i, 3, y[2])
      BY <2>7, <3>1
    <3> QED
      BY <2>16, <3>2, <3>3, SetAt
  <2>19. DOMAIN q3 = AllRegs /\ q3[30] = x[1] /\ q3[2] = y[1] /\ q3[3] = y[2] /\ q3[0] = v[1] /\ q3[1] = v[2]
    <3>1. PICK i : i = Set(q2, 0, v[1])
      OBVIOUS
    <3>2. DOMAIN i = AllRegs /\ i[30] = x[1] /\ i[2] = y[1] /\ i[3] = y[2] /\ i[0] = v[1]
      BY <2>16, <2>18, <3>1, SetAt
    <3>3. q3 = Set(i, 1, v[2])
      BY <2>8, <3>1
    <3> QED
      BY <2>16, <3>2, <3>3, SetAt
  <2>20. DOMAIN r1 = AllRegs /\ r1[30] = t[1][30] /\ \A i \in X : r1[i] = t[1][i]
    BY <2>13, <2>15, <2>16, SetAt
  <2>21. SameRegs(r1, q3)
    BY <2>15, <2>16, <2>19, <2>20 DEF SameRegs
  <2>22. g = t[2] /\ Plain(t[2])
    BY <2>6, <2>15, <2>17
  <2>23. From(a + 2) = p + 4
    BY <1>3, <1>5
  <2>24. PICK u : u = t[2]
    OBVIOUS
  <2>25. Stands(k1, j3)
    BY <2>2, <2>13
  <2>26. Reaches(W, n, State(a + 1, r1, u, k1, z, "no"))
    BY <1>1, <2>12, <2>21, <2>22, <2>23, <2>24, <2>25, 4 \in 0 .. 9, Arrives
  <2> QED
    BY <1>s, <2>14, <2>24, <2>26
<1> QED
  BY <1>11, <1>12

\* A load whose literal came loads it; without one nothing is said.
LEMMA LdrRefDoes ==
  ASSUME Sound, NEW W, NEW n, NEW a, NEW r, NEW q, NEW f, NEW k, NEW j, NEW z,
         Ready(W, n, a, r, q, f, k, j, z), script[a + 1].op = "ldr_ref"
  PROVE  Reaches(W, n, Perform(State(a, r, f, k, z, "no")))
<1>p. PICK p : p = From(a + 1)
  OBVIOUS
<1>s0. PICK s : s = State(a, r, f, k, z, "no")
  OBVIOUS
<1>1. /\ W[n] = State(p, q, f, j, z, "no") /\ n \in Nat /\ a \in Nat /\ a < Len(script)
      /\ SameRegs(r, q) /\ Plain(f) /\ Stands(k, j) /\ Layout /\ p \in 0 .. Len(buf)
      /\ pc \in Nat /\ Len(buf) \in Nat /\ From(a + 2) \in 0 .. Len(buf)
  BY <1>p, Begun
<1>2. /\ W[n + 1] = NextWord(W[n])
      /\ \A m \in 0 .. 8 : W[n + (m + 1)] = NextWord(W[n + m])
  BY Onward
<1>3. PICK ws : Spells(script[a + 1], pc + p, ws) /\ Code(p, ws) /\ From(a + 2) = p + Len(ws)
  BY <1>p, Begun
<1>c. Code(p, ws)
  BY <1>3
<1>s. s.at = a /\ s.regs = r /\ s.flags = f /\ s.stack = k /\ s = State(a, r, f, k, z, "no")
  BY <1>s0, Fields
<1>4. script[a + 1].r = 1 /\ Len(ws) = 1
  BY <1>3 DEF Spells
<1>5. a + 1 \in DOMAIN script /\ DOMAIN script = 1 .. Len(script)
  BY <1>1, WithinBuffer
<1>6. /\ script[a + 1].at = p
      /\ \/ p \notin Values
         \/ \E i \in DOMAIN script : /\ script[i].op = "value"
                                     /\ buf[p + 1] = Ldr(1, From(i) - p)
  BY <1>1, <1>5, <1>p DEF Layout, Refers
<1>7. CASE p \notin Values
  <2>1. Perform(s) = Stop(s, "undefined")
    BY <1>6, <1>7, <1>s DEF Perform
  <2>2. Stop(s, "undefined") = State(a, r, f, k, z, "undefined")
    BY <1>s, StopState
  <2>3. State(a, r, f, k, z, "undefined").end = "undefined"
    BY Fields
  <2>4. Matches(Perform(s), W[n + 0])
    BY <2>1, <2>2, <2>3 DEF Matches, Wrong
  <2> QED
    BY <2>4, <1>s, 0 \in 0 .. 9 DEF Reaches
<1>8. CASE p \in Values
  <2>1. PICK i \in DOMAIN script : script[i].op = "value" /\ buf[p + 1] = Ldr(1, From(i) - p)
    BY <1>6, <1>8
  <2>2. PICK b \in Nat : b < Len(script) /\ i = b + 1
    <3>1. i - 1 \in Nat /\ i - 1 < Len(script) /\ i = (i - 1) + 1
      BY <1>1, <1>5, WithinBuffer
    <3> QED
      BY <3>1
  <2>3. PICK us : Spells(script[b + 1], pc + From(b + 1), us) /\ Code(From(b + 1), us)
    BY <1>1, <2>2, StatementWords
  <2>4. us = Lit(Imm(9))
    BY <2>1, <2>2, <2>3 DEF Spells
  <2>5. Len(us) = 2 /\ us[1] = [op |-> "lit", v |-> Imm(9)]
    BY <2>4, Two DEF Lit
  <2>6. PICK o : o = From(b + 1)
    OBVIOUS
  <2>7. o \in Nat /\ o + 1 \in DOMAIN buf /\ buf[o + 1] = [op |-> "lit", v |-> Imm(9)]
    <3>1. Len(us) > 0 /\ Code(o, us)
      BY <2>3, <2>5, <2>6
    <3> QED
      BY <2>5, <3>1, FetchedFirst
  <2>8. PICK d \in Int : d = o - p
    BY <1>1, <2>7
  <2>9. p + d + 1 = o + 1 /\ p \in Nat /\ p < Len(buf) /\ Len(buf) \in Nat
    <3>1. Len(ws) > 0
      BY <1>4
    <3>2. p \in Nat /\ p < Len(buf) /\ Len(buf) \in Nat
      BY <1>c, <3>1, FetchedFirst
    <3> QED
      BY <2>7, <2>8, <3>2
  <2>10. buf[p + 1] = Ldr(1, d)
    BY <2>1, <2>2, <2>6, <2>8
  <2>11. PICK v : v = Imm(9)
    OBVIOUS
  <2>12. NextWord(State(p, q, f, j, z, "no")) = State(p + 1, Set(q, 1, v), f, j, z, "no")
    BY <2>7, <2>9, <2>10, <2>11, LdrStep
  <2>13. W[n + 1] = State(From(a + 2), Set(q, 1, v), f, j, z, "no")
    BY <1>1, <1>2, <1>3, <1>4, <2>12
  <2>14. Perform(s) = State(a + 1, Set(r, 1, v), f, k, z, "no")
    <3>1. Perform(s) = Step(With(s, 1, v))
      BY <1>4, <1>6, <1>8, <1>s, <2>11 DEF Perform
    <3>2. With(s, 1, v) = State(a, Set(r, 1, v), f, k, z, "no")
      BY <1>s, WithState
    <3> QED
      BY <3>1, <3>2, StepState
  <2>15. Plain(v) /\ 1 \in X
    BY <2>11 DEF Plain, Imm, Held, X
  <2>16. SameRegs(Set(r, 1, v), Set(q, 1, v))
    BY <1>1, <2>15, SameWith
  <2>17. Reaches(W, n, State(a + 1, Set(r, 1, v), f, k, z, "no"))
    BY <1>1, <2>13, <2>16, 1 \in 0 .. 9, Arrives
  <2> QED
    BY <1>s, <2>14, <2>17
<1> QED
  BY <1>7, <1>8

\* After a successful flush a branch has the offset of its label.
LEMMA Resolves ==
  ASSUME Sound, NEW a \in Nat, a < Len(script), script[a + 1].op \in {"b", "bl", "test"}
  PROVE  LET l == script[a + 1].label
             d == labels[l] - From(a + 1)
         IN buf[From(a + 1) + 1] = IF script[a + 1].op = "test" THEN Test(d) ELSE Jump(script[a + 1].op, d)
<1>1. /\ Layout /\ Pending /\ flushed /\ ~ failed
  BY DEF Sound, CodeInv
<1>2. PICK i \in DOMAIN script : i = a + 1
  BY <1>1, WithinBuffer
<1>3. fixups = << >>
  BY <1>1 DEF Pending
<1>4. DOMAIN fixups = {}
  BY <1>3
<1>5. IsBranch(i) /\ Branches(i)
  BY <1>1, <1>2 DEF Layout, IsBranch
<1>6. buf[From(i) + 1] = Resolve(Fixup(i))
  BY <1>1, <1>4, <1>5 DEF Branches
<1>7. Fixup(i).at = From(i) /\ Fixup(i).label = script[i].label /\ Fixup(i).op = script[i].op
  BY DEF Fixup
<1> QED
  BY <1>2, <1>6, <1>7 DEF Resolve

\* A label is placed once, and is where it was placed.
LEMMA LabelFound ==
  ASSUME Sound, NEW l, LabelAt(l) # {}
  PROVE  \E i \in 0 .. Len(script) :
           /\ i = (CHOOSE x \in LabelAt(l) : TRUE)
           /\ From(i + 1) = labels[l] /\ labels[l] \in 0 .. Len(buf)
<1>1. Layout
  BY DEF Sound, CodeInv
<1>2. PICK i : i = (CHOOSE x \in LabelAt(l) : TRUE)
  OBVIOUS
<1>3. i \in DOMAIN script /\ script[i].op = "label" /\ script[i].label = l
  BY <1>2 DEF LabelAt
<1>4. /\ DOMAIN script = 1 .. Len(script) /\ Len(script) \in Nat
      /\ From(i) \in 0 .. Len(buf) /\ Len(buf) \in Nat
  BY <1>1, <1>3, WithinBuffer
<1>5. labels[l] = From(i)
  BY <1>1, <1>3 DEF Layout, Places
<1>6. PICK a \in Nat : a < Len(script) /\ i = a + 1
  <2>1. i - 1 \in Nat /\ i - 1 < Len(script) /\ i = (i - 1) + 1
    BY <1>3, <1>4
  <2> QED
    BY <2>1
<1>7. PICK ws : /\ Spells(script[a + 1], pc + From(a + 1), ws)
                /\ Code(From(a + 1), ws) /\ From(a + 2) = From(a + 1) + Len(ws)
  BY <1>1, <1>6, StatementWords
<1>8. Len(ws) = 0
  BY <1>3, <1>6, <1>7, Empty DEF Spells
<1>9. From(i + 1) = From(i)
  <2>1. a + 2 = i + 1
    BY <1>6
  <2> QED
    BY <1>4, <1>6, <1>7, <1>8, <2>1
<1>10. i \in 0 .. Len(script)
  BY <1>3, <1>4
<1>11. From(i + 1) = labels[l] /\ labels[l] \in 0 .. Len(buf)
  BY <1>4, <1>5, <1>9
<1> QED
  BY <1>2, <1>10, <1>11

\* A jump with that offset goes to the label.
LEMMA GoesTo ==
  ASSUME Sound, NEW a, NEW p, NEW r, NEW q, NEW f, NEW k, NEW j, NEW z,
         SameRegs(r, q), Plain(f), Stands(k, j), NEW l,
         NEW d, d = labels[l] - p, p \in Nat
  PROVE  Matches(GoTo(State(a, r, f, k, z, "no"), l), Transfer(State(p, q, f, j, z, "no"), Address(pc + p + d)))
<1>1. Layout /\ pc \in Nat
  BY WithinBuffer DEF Sound, CodeInv
<1>2. CASE LabelAt(l) = {}
  <2>1. GoTo(State(a, r, f, k, z, "no"), l) = State(a, r, f, k, z, "undefined")
    BY <1>2, StopState DEF GoTo
  <2>2. State(a, r, f, k, z, "undefined").end = "undefined"
    BY Fields
  <2> QED
    BY <2>1, <2>2 DEF Matches, Wrong
<1>3. CASE LabelAt(l) # {}
  <2>1. PICK i \in 0 .. Len(script) :
           /\ i = (CHOOSE x \in LabelAt(l) : TRUE)
           /\ From(i + 1) = labels[l] /\ labels[l] \in 0 .. Len(buf)
    BY <1>3, LabelFound
  <2>2. PICK x \in 0 .. Len(buf) : x = labels[l]
    BY <2>1
  <2>3. pc + p + d = pc + x
    BY <1>1, <2>2
  <2>4. Transfer(State(p, q, f, j, z, "no"), Address(pc + p + d)) = State(x, q, f, j, z, "no")
    BY <1>1, <2>3, TransferHere
  <2>5. GoTo(State(a, r, f, k, z, "no"), l) = [State(a, r, f, k, z, "no") EXCEPT !.at = i]
    BY <1>3, <2>1 DEF GoTo
  <2>6. GoTo(State(a, r, f, k, z, "no"), l) = State(i, r, f, k, z, "no")
    BY <2>5 DEF State
  <2>7. Alike(State(i, r, f, k, z, "no"), State(x, q, f, j, z, "no"))
    BY <2>1, <2>2 DEF Alike
  <2> QED
    BY <2>4, <2>6, <2>7 DEF Matches
<1> QED
  BY <1>2, <1>3

\* X30 when a call comes back to the next statement.
LEMMA Linked ==
  ASSUME Layout, NEW r, NEW q, DOMAIN r = AllRegs, DOMAIN q = AllRegs, \A x \in X : r[x] = q[x] /\ Plain(r[x]),
         NEW i \in 0 .. Len(script), NEW v, v = Address(pc + From(i + 1))
  PROVE  SameRegs(Set(r, 30, <<"stmt", i>>), Set(q, 30, v))
<1>1. X \subseteq AllRegs /\ 30 \in AllRegs /\ 30 \notin X
  BY DEF X, AllRegs
<1>2. PICK r1, q1 : r1 = Set(r, 30, <<"stmt", i>>) /\ q1 = Set(q, 30, v)
  OBVIOUS
<1>3. /\ DOMAIN r1 = AllRegs /\ r1[30] = <<"stmt", i>> /\ \A x \in X : r1[x] = r[x]
      /\ DOMAIN q1 = AllRegs /\ q1[30] = v /\ \A x \in X : q1[x] = q[x]
  BY <1>1, <1>2, SetAt
<1>4. Links(r1[30], q1[30])
  BY <1>3 DEF Links
<1> QED
  BY <1>2, <1>3, <1>4 DEF SameRegs

\* The word of a branch to a label does it.
LEMMA BranchDoes ==
  ASSUME Sound, NEW W, NEW n, NEW a, NEW r, NEW q, NEW f, NEW k, NEW j, NEW z,
         Ready(W, n, a, r, q, f, k, j, z), script[a + 1].op = "b"
  PROVE  Reaches(W, n, Perform(State(a, r, f, k, z, "no")))
<1>p. PICK p : p = From(a + 1)
  OBVIOUS
<1>s0. PICK s : s = State(a, r, f, k, z, "no")
  OBVIOUS
<1>1. /\ W[n] = State(p, q, f, j, z, "no") /\ n \in Nat /\ a \in Nat /\ a < Len(script)
      /\ SameRegs(r, q) /\ Plain(f) /\ Stands(k, j) /\ Layout /\ p \in 0 .. Len(buf)
      /\ pc \in Nat /\ Len(buf) \in Nat /\ From(a + 2) \in 0 .. Len(buf)
  BY <1>p, Begun
<1>2. /\ W[n + 1] = NextWord(W[n])
      /\ \A m \in 0 .. 8 : W[n + (m + 1)] = NextWord(W[n + m])
  BY Onward
<1>3. PICK ws : Spells(script[a + 1], pc + p, ws) /\ Code(p, ws) /\ From(a + 2) = p + Len(ws)
  BY <1>p, Begun
<1>c. Code(p, ws)
  BY <1>3
<1>s. s.at = a /\ s.regs = r /\ s.flags = f /\ s.stack = k /\ s = State(a, r, f, k, z, "no")
  BY <1>s0, Fields
<1>4. Len(ws) = 1
  BY <1>3 DEF Spells
<1>5. p \in Nat /\ p < Len(buf) /\ Len(buf) \in Nat
  <2>1. Len(ws) > 0
    BY <1>4
  <2> QED
    BY <1>c, <2>1, FetchedFirst
<1>6. PICK l, d : l = script[a + 1].label /\ d = labels[l] - p
  OBVIOUS

<1>7. buf[p + 1] = Jump("b", d)
  BY <1>1, <1>6, <1>p, Resolves
<1>8. W[n + 1] = Transfer(State(p, q, f, j, z, "no"), Address(pc + p + d))
  <2>1. NextWord(State(p, q, f, j, z, "no")) = Transfer(State(p, q, f, j, z, "no"), Address(pc + p + d))
    BY <1>5, <1>7, JumpStep
  <2> QED
    BY <1>1, <1>2, <2>1
<1>9. Perform(s) = GoTo(s, l)
  BY <1>6, <1>s DEF Perform
<1>10. Matches(GoTo(s, l), W[n + 1])
  BY <1>1, <1>5, <1>6, <1>8, <1>s, GoesTo
<1> QED
  BY <1>9, <1>10, <1>s, 1 \in 0 .. 9 DEF Reaches

\* The word of a branch with link does it, and X30 is the statement behind it.
LEMMA BranchLinkDoes ==
  ASSUME Sound, NEW W, NEW n, NEW a, NEW r, NEW q, NEW f, NEW k, NEW j, NEW z,
         Ready(W, n, a, r, q, f, k, j, z), script[a + 1].op = "bl"
  PROVE  Reaches(W, n, Perform(State(a, r, f, k, z, "no")))
<1>p. PICK p : p = From(a + 1)
  OBVIOUS
<1>s0. PICK s : s = State(a, r, f, k, z, "no")
  OBVIOUS
<1>1. /\ W[n] = State(p, q, f, j, z, "no") /\ n \in Nat /\ a \in Nat /\ a < Len(script)
      /\ SameRegs(r, q) /\ Plain(f) /\ Stands(k, j) /\ Layout /\ p \in 0 .. Len(buf)
      /\ pc \in Nat /\ Len(buf) \in Nat /\ From(a + 2) \in 0 .. Len(buf)
  BY <1>p, Begun
<1>2. /\ W[n + 1] = NextWord(W[n])
      /\ \A m \in 0 .. 8 : W[n + (m + 1)] = NextWord(W[n + m])
  BY Onward
<1>3. PICK ws : Spells(script[a + 1], pc + p, ws) /\ Code(p, ws) /\ From(a + 2) = p + Len(ws)
  BY <1>p, Begun
<1>c. Code(p, ws)
  BY <1>3
<1>s. s.at = a /\ s.regs = r /\ s.flags = f /\ s.stack = k /\ s = State(a, r, f, k, z, "no")
  BY <1>s0, Fields
<1>4. Len(ws) = 1
  BY <1>3 DEF Spells
<1>5. p \in Nat /\ p < Len(buf) /\ Len(buf) \in Nat
  <2>1. Len(ws) > 0
    BY <1>4
  <2> QED
    BY <1>c, <2>1, FetchedFirst
<1>6. PICK l, d : l = script[a + 1].label /\ d = labels[l] - p
  OBVIOUS

<1>7. buf[p + 1] = Jump("bl", d)
  BY <1>1, <1>6, <1>p, Resolves
<1>8. PICK q1, r1 : q1 = Set(q, 30, Address(pc + p + 1)) /\ r1 = Set(r, 30, <<"stmt", a + 1>>)
  OBVIOUS
<1>9. W[n + 1] = Transfer(State(p, q1, f, j, z, "no"), Address(pc + p + d))
  <2>1. NextWord(State(p, q, f, j, z, "no"))
          = Transfer(State(p, Set(q, 30, Address(pc + p + 1)), f, j, z, "no"), Address(pc + p + d))
    BY <1>5, <1>7, JumpLinkStep
  <2> QED
    BY <1>1, <1>2, <1>8, <2>1
<1>10. Perform(s) = GoTo(State(a, r1, f, k, z, "no"), l)
  <2>1. Perform(s) = GoTo(With(s, 30, <<"stmt", a + 1>>), l)
    BY <1>6, <1>s DEF Perform, Next1
  <2>2. With(s, 30, <<"stmt", a + 1>>) = State(a, r1, f, k, z, "no")
    BY <1>8, <1>s, WithState
  <2> QED
    BY <2>1, <2>2
<1>11. SameRegs(r1, q1)
  <2>1. a + 1 \in 0 .. Len(script) /\ (a + 1) + 1 = a + 2
    BY Begun
  <2>2. PICK v : v = Address(pc + p + 1)
    OBVIOUS
  <2>3. From((a + 1) + 1) = p + 1 /\ pc + (p + 1) = pc + p + 1
    BY <1>1, <1>3, <1>4, <1>5, <2>1
  <2>4. v = Address(pc + From((a + 1) + 1))
    BY <2>2, <2>3
  <2>5. DOMAIN r = AllRegs /\ DOMAIN q = AllRegs /\ \A x \in X : r[x] = q[x] /\ Plain(r[x])
    BY <1>1 DEF SameRegs
  <2> QED
    BY <1>1, <1>8, <2>1, <2>2, <2>4, <2>5, Linked
<1>12. Matches(GoTo(State(a, r1, f, k, z, "no"), l), W[n + 1])
  BY <1>1, <1>5, <1>6, <1>9, <1>11, GoesTo
<1> QED
  BY <1>10, <1>12, <1>s, 1 \in 0 .. 9 DEF Reaches

\* The word of a test does it: no offset was cut off.
LEMMA TestDoes ==
  ASSUME Sound, NEW W, NEW n, NEW a, NEW r, NEW q, NEW f, NEW k, NEW j, NEW z,
         Ready(W, n, a, r, q, f, k, j, z), script[a + 1].op = "test"
  PROVE  Reaches(W, n, Perform(State(a, r, f, k, z, "no")))
<1>p. PICK p : p = From(a + 1)
  OBVIOUS
<1>s0. PICK s : s = State(a, r, f, k, z, "no")
  OBVIOUS
<1>1. /\ W[n] = State(p, q, f, j, z, "no") /\ n \in Nat /\ a \in Nat /\ a < Len(script)
      /\ SameRegs(r, q) /\ Plain(f) /\ Stands(k, j) /\ Layout /\ p \in 0 .. Len(buf)
      /\ pc \in Nat /\ Len(buf) \in Nat /\ From(a + 2) \in 0 .. Len(buf)
  BY <1>p, Begun
<1>2. /\ W[n + 1] = NextWord(W[n])
      /\ \A m \in 0 .. 8 : W[n + (m + 1)] = NextWord(W[n + m])
  BY Onward
<1>3. PICK ws : Spells(script[a + 1], pc + p, ws) /\ Code(p, ws) /\ From(a + 2) = p + Len(ws)
  BY <1>p, Begun
<1>c. Code(p, ws)
  BY <1>3
<1>s. s.at = a /\ s.regs = r /\ s.flags = f /\ s.stack = k /\ s = State(a, r, f, k, z, "no")
  BY <1>s0, Fields
<1>4. Len(ws) = 1
  BY <1>3 DEF Spells
<1>5. p \in Nat /\ p < Len(buf) /\ Len(buf) \in Nat
  <2>1. Len(ws) > 0
    BY <1>4
  <2> QED
    BY <1>c, <2>1, FetchedFirst
<1>6. PICK l, d : l = script[a + 1].label /\ d = labels[l] - p
  OBVIOUS

<1>7. buf[p + 1] = Test(d)
  BY <1>1, <1>6, <1>p, Resolves
<1>8. Fits(d, TestReach)
  <2>1. p + 1 \in DOMAIN buf
    BY <1>1, <1>5, WithinBuffer
  <2>2. buf[p + 1].op = "test" /\ buf[p + 1].cut = ~ Fits(d, TestReach)
    BY <1>7 DEF Test
  <2>3. ~ FarTest
    BY DEF Sound
  <2>4. ~ buf[p + 1].cut
    BY <2>1, <2>2, <2>3 DEF FarTest
  <2> QED
    BY <2>2, <2>4
<1>9. buf[p + 1] = [op |-> "test", by |-> d, cut |-> FALSE]
  <2>1. TestReach \in Nat \ {0}
    BY CodeAssumption
  <2>2. d \in Int /\ d >= - TestReach /\ d < TestReach
    BY <1>8, <2>1 DEF Fits
  <2>3. PICK m : m = d % (2 * TestReach)
    OBVIOUS
  <2>4. IF d >= 0 THEN m = d ELSE m = d + 2 * TestReach
    BY <2>1, <2>2, <2>3
  <2>5. Field(d, TestReach) = d
    BY <2>1, <2>2, <2>3, <2>4 DEF Field
  <2> QED
    BY <1>7, <1>8, <2>5 DEF Test
<1>10. W[n + 1] = IF f = Flags("eq") THEN Transfer(State(p, q, f, j, z, "no"), Address(pc + p + d))
                  ELSE State(p + 1, q, f, j, z, "no")
  <2>1. NextWord(State(p, q, f, j, z, "no")) =
          IF f = Flags("eq") THEN Transfer(State(p, q, f, j, z, "no"), Address(pc + p + d))
          ELSE State(p + 1, q, f, j, z, "no")
    BY <1>5, <1>9, TestStep
  <2> QED
    BY <1>1, <1>2, <2>1
<1>11. CASE f = Flags("eq")
  <2>1. Perform(s) = GoTo(s, l)
    BY <1>6, <1>11, <1>s DEF Perform, Taken
  <2>3. W[n + 1] = Transfer(State(p, q, f, j, z, "no"), Address(pc + p + d))
    BY <1>10, <1>11
  <2>2. Matches(GoTo(s, l), W[n + 1])
    BY <1>1, <1>5, <1>6, <1>s, <2>3, GoesTo
  <2> QED
    BY <2>1, <2>2, <1>s, 1 \in 0 .. 9 DEF Reaches
<1>12. CASE f # Flags("eq")
  <2>1. Perform(s) = Step(s)
    BY <1>12, <1>s DEF Perform, Taken
  <2>2. Perform(s) = State(a + 1, r, f, k, z, "no")
    BY <1>s, <2>1, StepState
  <2>3. W[n + 1] = State(From(a + 2), q, f, j, z, "no")
    BY <1>3, <1>4, <1>10, <1>12
  <2>4. Reaches(W, n, State(a + 1, r, f, k, z, "no"))
    BY <1>1, <2>3, 1 \in 0 .. 9, Arrives
  <2> QED
    BY <1>s, <2>2, <2>4
<1> QED
  BY <1>11, <1>12

\* A function sees registers that both sides have.
LEMMA CountFew ==
  ASSUME NEW v
  PROVE  \A x \in 0 .. Count(v) - 1 : x \in X
<1>1. Count(v) \in 0 .. 3
  BY CodeAssumption DEF Count
<1> QED
  BY <1>1 DEF X

\* A function is left alike whether the words used X17 to go there or not.
LEMMA LeavesMatch ==
  ASSUME Sound, NEW t \in Functions, NEW a, NEW b, NEW r, NEW q, NEW f, NEW g, NEW k, NEW j, NEW z,
         NEW v, v = Address(t),
         SameRegs(r, q), Stands(k, j), NEW y, NEW q1, q1 = q \/ q1 = Set(q, 17, y)
  PROVE  Matches(Transfer(State(a, r, f, k, z, "no"), v), Outside(State(b, q1, g, j, z, "no"), v))
<1>1. Layout /\ OwnMemory
  BY DEF Sound, CodeInv
<1>2. Transfer(State(a, r, f, k, z, "no"), v) = Outside(State(a, r, f, k, z, "no"), v)
  BY <1>1, TransferOut
<1>3. DOMAIN r = AllRegs /\ DOMAIN q = AllRegs /\ Links(r[30], q[30]) /\ \A x \in X : r[x] = q[x]
  BY DEF SameRegs
<1>4. 17 \in AllRegs /\ 30 \in AllRegs /\ X \subseteq AllRegs /\ 17 \notin X
  BY DEF AllRegs, X
<1>5. DOMAIN q1 = AllRegs /\ q1[30] = q[30] /\ \A x \in X : q1[x] = q[x]
  BY <1>3, <1>4, SetAt
<1>6. \A x \in 0 .. Count(v) - 1 : r[x] = q1[x]
  BY <1>3, <1>5, CountFew
<1>7. Links(r[30], q1[30])
  BY <1>3, <1>5
<1>8. Matches(Outside(State(a, r, f, k, z, "no"), v), Outside(State(b, q1, g, j, z, "no"), v))
  BY <1>1, <1>3, <1>5, <1>6, <1>7, OutsideMatches
<1> QED
  BY <1>2, <1>8

\* AbsBranch goes to its function.
LEMMA AbsRuns ==
  ASSUME Sound, NEW t \in Functions, NEW p \in Nat, NEW q, NEW f, NEW j, NEW z, DOMAIN q = AllRegs,
         NEW v, v = Address(t), Len(buf) \in Nat, p < Len(buf), p + 1 < Len(buf), p + 2 + 1 \in DOMAIN buf,
         buf[p + 1] = Ldr(17, 2), buf[p + 1 + 1] = OnReg("br", 17),
         buf[p + 2 + 1] = [op |-> "lit", v |-> v]
  PROVE  NextWord(NextWord(State(p, q, f, j, z, "no"))) = Outside(State(p + 1, Set(q, 17, v), f, j, z, "no"), v)
<1>1. NextWord(State(p, q, f, j, z, "no")) = State(p + 1, Set(q, 17, v), f, j, z, "no")
  BY LdrStep
<1>2. PICK q1 : q1 = Set(q, 17, v)
  OBVIOUS
<1>3. 17 \in AllRegs
  BY DEF AllRegs
<1>4. q1[17] = v
  BY <1>2, <1>3, SetAt
<1>5. p + 1 \in Nat
  OBVIOUS
<1>6. NextWord(State(p + 1, q1, f, j, z, "no")) = Transfer(State(p + 1, q1, f, j, z, "no"), q1[17])
  BY <1>5, BrStep
<1>7. Transfer(State(p + 1, q1, f, j, z, "no"), v) = Outside(State(p + 1, q1, f, j, z, "no"), v)
  <2>1. OwnMemory
    BY DEF Sound
  <2> QED
    BY <2>1, TransferOut
<1> QED
  BY <1>1, <1>2, <1>4, <1>6, <1>7

\* AbsBranch to v is at p.
AbsAt(p, v) ==
  /\ p \in Nat /\ Len(buf) \in Nat /\ p < Len(buf) /\ p + 1 < Len(buf) /\ p + 2 + 1 \in DOMAIN buf
  /\ buf[p + 1] = Ldr(17, 2) /\ buf[p + 1 + 1] = OnReg("br", 17)
  /\ buf[p + 2 + 1] = [op |-> "lit", v |-> v]

\* AbsBranch at p, or one word behind it.
LEMMA AbsFetched ==
  ASSUME NEW p, NEW ws, Code(p, ws), NEW t, ws = AbsBranch(t)
  PROVE  AbsAt(p, Address(t))
<1>1. Len(ws) = 4 /\ ws[1] = Ldr(17, 2) /\ ws[2] = OnReg("br", 17)
      /\ ws[3] = [op |-> "lit", v |-> Address(t)]
  BY AbsWords
<1>2. Len(ws) > 0 /\ Len(ws) > 1 /\ Len(ws) > 2
  BY <1>1
<1>3. p \in Nat /\ p < Len(buf) /\ Len(buf) \in Nat /\ buf[p + 1] = ws[1]
  BY <1>2, FetchedFirst
<1>4. p + 1 < Len(buf) /\ buf[p + 1 + 1] = ws[2]
  BY <1>2, FetchedFew
<1>5. p + 2 + 1 \in DOMAIN buf /\ buf[p + 2 + 1] = ws[3]
  BY <1>2, FetchedFew
<1> QED
  BY <1>1, <1>3, <1>4, <1>5 DEF AbsAt

\* The words of a branch behind one other word.
LEMMA AbsBehind ==
  ASSUME NEW p, NEW ws, Code(p, ws), NEW x, NEW t, IsBehind(ws, x, t), NEW o, o = p + 1
  PROVE  /\ p \in Nat /\ Len(buf) \in Nat /\ p < Len(buf) /\ buf[p + 1] = x
         /\ AbsAt(o, Address(t))
         /\ Len(ws) = 5
<1>1. Len(ws) = 5 /\ ws[1] = x /\ ws[2] = Ldr(17, 2) /\ ws[3] = OnReg("br", 17)
      /\ ws[4] = [op |-> "lit", v |-> Address(t)]
  BY BeforeAbs
<1>2. Len(ws) > 0 /\ Len(ws) > 1 /\ Len(ws) > 2 /\ Len(ws) > 3
  BY <1>1
<1>3. p \in Nat /\ p < Len(buf) /\ Len(buf) \in Nat /\ buf[p + 1] = ws[1]
  BY <1>2, FetchedFirst
<1>4. p + 1 \in Nat /\ p + 1 < Len(buf) /\ buf[p + 1 + 1] = ws[2]
  BY <1>2, FetchedFew
<1>5. p + 2 < Len(buf) /\ buf[p + 2 + 1] = ws[3]
  BY <1>2, FetchedFew
<1>6. p + 3 + 1 \in DOMAIN buf /\ buf[p + 3 + 1] = ws[4]
  BY <1>2, FetchedFew
<1>7. o + 1 = p + 2 /\ o + 2 = p + 3 /\ o = p + 1
  BY <1>3
<1>8. AbsAt(o, Address(t))
  BY <1>1, <1>3, <1>4, <1>5, <1>6, <1>7 DEF AbsAt
<1> QED
  BY <1>1, <1>3, <1>8

\* AbsBranch and a jump of the statements match.
LEMMA AbsMatches ==
  ASSUME Sound, NEW t \in Functions, NEW W, NEW n \in Nat, NEW a, NEW p, NEW r, NEW q, NEW f, NEW k, NEW j,
         NEW z, NEW v, v = Address(t), SameRegs(r, q), Stands(k, j), AbsAt(p, v),
         NEW g, NEW u, u = NextWord(NextWord(State(p, q, g, j, z, "no")))
  PROVE  Matches(Transfer(State(a, r, f, k, z, "no"), v), u)
<1>1. DOMAIN q = AllRegs
  BY DEF SameRegs
<1>2. PICK b, q1 : b = p + 1 /\ q1 = Set(q, 17, v)
  OBVIOUS
<1>3. u = Outside(State(b, q1, g, j, z, "no"), v)
  <2>1. NextWord(NextWord(State(p, q, g, j, z, "no"))) = Outside(State(p + 1, Set(q, 17, v), g, j, z, "no"), v)
    BY <1>1, AbsRuns DEF AbsAt
  <2> QED
    BY <1>2, <2>1
<1> QED
  BY <1>2, <1>3, LeavesMatch

\* The words of a branch to a function do it, near or far.
LEMMA ExitDoes ==
  ASSUME Sound, NEW W, NEW n, NEW a, NEW r, NEW q, NEW f, NEW k, NEW j, NEW z,
         Ready(W, n, a, r, q, f, k, j, z), script[a + 1].op = "exit"
  PROVE  Reaches(W, n, Perform(State(a, r, f, k, z, "no")))
<1>p. PICK p : p = From(a + 1)
  OBVIOUS
<1>s0. PICK s : s = State(a, r, f, k, z, "no")
  OBVIOUS
<1>1. /\ W[n] = State(p, q, f, j, z, "no") /\ n \in Nat /\ a \in Nat /\ a < Len(script)
      /\ SameRegs(r, q) /\ Plain(f) /\ Stands(k, j) /\ Layout /\ p \in 0 .. Len(buf)
      /\ pc \in Nat /\ Len(buf) \in Nat /\ From(a + 2) \in 0 .. Len(buf)
  BY <1>p, Begun
<1>2. /\ W[n + 1] = NextWord(W[n])
      /\ \A m \in 0 .. 8 : W[n + (m + 1)] = NextWord(W[n + m])
  BY Onward
<1>3. PICK ws : Spells(script[a + 1], pc + p, ws) /\ Code(p, ws) /\ From(a + 2) = p + Len(ws)
  BY <1>p, Begun
<1>c. Code(p, ws)
  BY <1>3
<1>s. s.at = a /\ s.regs = r /\ s.flags = f /\ s.stack = k /\ s = State(a, r, f, k, z, "no")
  BY <1>s0, Fields
<1>4. /\ script[a + 1].to \in Functions
      /\ ws = <<Jump("b", script[a + 1].to - (pc + p))>> \/ ws = AbsBranch(script[a + 1].to)
  BY <1>3 DEF Spells
<1>5. PICK t \in Functions : t = script[a + 1].to
  BY <1>4
<1>6. PICK v : v = Address(t)
  OBVIOUS
<1>7. t \in Nat
  BY CodeAssumption
<1>8. Perform(s) = Transfer(s, v)
  BY <1>5, <1>6, <1>s DEF Perform
<1>9. CASE ws = <<Jump("b", t - (pc + p))>>
  <2>1. PICK d : d = t - (pc + p)
    OBVIOUS
  <2>2. Len(ws) = 1 /\ ws[1] = Jump("b", d)
    BY <1>9, <2>1, One
  <2>3. p \in Nat /\ p < Len(buf) /\ Len(buf) \in Nat /\ buf[p + 1] = Jump("b", d)
    <3>1. Len(ws) > 0
      BY <2>2
    <3> QED
      BY <1>c, <2>2, <3>1, FetchedFirst
  <2>4. pc + p + d = t
    BY <1>1, <1>7, <2>1, <2>3
  <2>5. W[n + 1] = Transfer(State(p, q, f, j, z, "no"), v)
    <3>1. NextWord(State(p, q, f, j, z, "no")) = Transfer(State(p, q, f, j, z, "no"), Address(pc + p + d))
      BY <2>3, JumpStep
    <3> QED
      BY <1>1, <1>2, <1>6, <2>4, <3>1
  <2>6. Transfer(State(p, q, f, j, z, "no"), v) = Outside(State(p, q, f, j, z, "no"), v)
    <3>1. OwnMemory
      BY DEF Sound
    <3> QED
      BY <1>6, <3>1, TransferOut
  <2>7. Matches(Transfer(State(a, r, f, k, z, "no"), v), Outside(State(p, q, f, j, z, "no"), v))
    BY <1>1, <1>6, LeavesMatch
  <2> QED
    BY <1>8, <1>s, <2>5, <2>6, <2>7, 1 \in 0 .. 9 DEF Reaches
<1>10. CASE ws = AbsBranch(t)
  <2>1. AbsAt(p, v)
    BY <1>c, <1>6, <1>10, AbsFetched
  <2>2. W[n + 2] = NextWord(NextWord(State(p, q, f, j, z, "no")))
    <3>1. 1 \in 0 .. 8 /\ 1 + 1 = 2
      OBVIOUS
    <3> QED
      BY <1>1, <1>2, <3>1
  <2>3. Matches(Transfer(State(a, r, f, k, z, "no"), v), W[n + 2])
    BY <1>1, <1>6, <2>1, <2>2, AbsMatches
  <2> QED
    BY <1>8, <1>s, <2>3, 2 \in 0 .. 9 DEF Reaches
<1> QED
  BY <1>4, <1>5, <1>9, <1>10

\* The words of a relocated instruction do what it does: plain ones are seen, calls
\* return behind it, a test goes to its function or on.
LEMMA OriginalDoes ==
  ASSUME Sound, NEW W, NEW n, NEW a, NEW r, NEW q, NEW f, NEW k, NEW j, NEW z,
         Ready(W, n, a, r, q, f, k, j, z), script[a + 1].op = "orig"
  PROVE  Reaches(W, n, Perform(State(a, r, f, k, z, "no")))
<1>p. PICK p : p = From(a + 1)
  OBVIOUS
<1>s0. PICK s : s = State(a, r, f, k, z, "no")
  OBVIOUS
<1>1. /\ W[n] = State(p, q, f, j, z, "no") /\ n \in Nat /\ a \in Nat /\ a < Len(script)
      /\ SameRegs(r, q) /\ Plain(f) /\ Stands(k, j) /\ Layout /\ p \in 0 .. Len(buf)
      /\ pc \in Nat /\ Len(buf) \in Nat /\ From(a + 2) \in 0 .. Len(buf)
  BY <1>p, Begun
<1>2. /\ W[n + 1] = NextWord(W[n])
      /\ \A m \in 0 .. 8 : W[n + (m + 1)] = NextWord(W[n + m])
  BY Onward
<1>3. PICK ws : Spells(script[a + 1], pc + p, ws) /\ Code(p, ws) /\ From(a + 2) = p + Len(ws)
  BY <1>p, Begun
<1>c. Code(p, ws)
  BY <1>3
<1>s. s.at = a /\ s.regs = r /\ s.flags = f /\ s.stack = k /\ s = State(a, r, f, k, z, "no")
  BY <1>s0, Fields
<1>4. script[a + 1].n \in 1 .. Len(Original) /\ ws = Relocated(script[a + 1].n)
  BY <1>3 DEF Spells
<1>5. PICK i \in 1 .. Len(Original) : i = script[a + 1].n
  BY <1>4
<1>6. /\ Original[i].op \in {"plain", "test", "bl", "b"}
      /\ Original[i].op # "plain" => Original[i].to \in Functions
  BY RelocatedWords
<1>7. CASE Original[i].op = "plain"
  <2>1. PICK x : x = [op |-> "plain", n |-> i]
    OBVIOUS
  <2>2. ws = <<x>>
    BY <1>4, <1>5, <1>7, <2>1 DEF Relocated
  <2>3. Len(ws) = 1 /\ ws[1] = x
    BY <2>2, One
  <2>4. p \in Nat /\ p < Len(buf) /\ Len(buf) \in Nat /\ buf[p + 1] = x
    <3>1. Len(ws) > 0
      BY <2>3
    <3> QED
      BY <1>c, <2>3, <3>1, FetchedFirst
  <2>5. W[n + 1] = State(From(a + 2), q, f, j, Append(z, x), "no")
    <3>1. NextWord(State(p, q, f, j, z, "no"))
            = State(p + 1, q, f, j, Append(z, [op |-> "plain", n |-> i]), "no")
      BY <2>1, <2>4, PlainStep
    <3> QED
      BY <1>1, <1>2, <1>3, <2>1, <2>3, <3>1
  <2>6. Perform(s) = State(a + 1, r, f, k, Append(z, x), "no")
    <3>1. Perform(s) = Step(See(s, x))
      BY <1>5, <1>7, <1>s, <2>1 DEF Perform
    <3>2. PICK y : y = Append(z, x)
      OBVIOUS
    <3>3. See(s, x) = State(a, r, f, k, y, "no")
      BY <1>s, <3>2, SeeState
    <3> QED
      BY <3>1, <3>2, <3>3, StepState
  <2>7. PICK y : y = Append(z, x)
    OBVIOUS
  <2>8. Reaches(W, n, State(a + 1, r, f, k, y, "no"))
    BY <1>1, <2>5, <2>7, 1 \in 0 .. 9, Arrives
  <2> QED
    BY <1>s, <2>6, <2>7, <2>8
<1>8. ASSUME Original[i].op # "plain"
      PROVE  \E t \in Functions : t = Original[i].to
  BY <1>6, <1>8
<1>9. CASE Original[i].op = "b"
  <2>1a. PICK t \in Functions : \E v : t = Original[i].to /\ v = Address(t)
    BY <1>8, <1>9
  <2>1. PICK v : t = Original[i].to /\ v = Address(t)
    BY <2>1a
  <2>2. ws = AbsBranch(t)
    BY <1>4, <1>5, <1>9, <2>1 DEF Relocated
  <2>3. AbsAt(p, v)
    BY <1>c, <2>1, <2>2, AbsFetched
  <2>4. W[n + 2] = NextWord(NextWord(State(p, q, f, j, z, "no")))
    <3>1. 1 \in 0 .. 8 /\ 1 + 1 = 2
      OBVIOUS
    <3> QED
      BY <1>1, <1>2, <3>1
  <2>5. Matches(Transfer(State(a, r, f, k, z, "no"), v), W[n + 2])
    BY <1>1, <2>1, <2>3, <2>4, AbsMatches
  <2>6. Perform(s) = Transfer(s, v)
    BY <1>5, <1>9, <1>s, <2>1 DEF Perform
  <2> QED
    BY <1>s, <2>5, <2>6, 2 \in 0 .. 9 DEF Reaches
<1>10. CASE Original[i].op = "bl"
  <2>1a. PICK t \in Functions : \E v : t = Original[i].to /\ v = Address(t)
    BY <1>8, <1>10
  <2>1. PICK v : t = Original[i].to /\ v = Address(t)
    BY <2>1a
  <2>2. PICK x, o : x = [op |-> "adr", r |-> 30, by |-> 5] /\ o = p + 1
    OBVIOUS
  <2>3. IsBehind(ws, x, t)
    BY <1>4, <1>5, <1>10, <2>1, <2>2 DEF Relocated, AbsCall, IsBehind
  <2>4. /\ p \in Nat /\ Len(buf) \in Nat /\ p < Len(buf) /\ buf[p + 1] = x
        /\ AbsAt(o, v)
        /\ Len(ws) = 5
    BY <1>c, <2>1, <2>2, <2>3, AbsBehind
  <2>5. PICK q1, r1, y : /\ q1 = Set(q, 30, y) /\ r1 = Set(r, 30, <<"stmt", a + 1>>)
                         /\ y = Address(pc + p + 5)
    OBVIOUS
  <2>6. W[n + 1] = State(o, q1, f, j, z, "no")
    <3>1. NextWord(State(p, q, f, j, z, "no")) = State(p + 1, Set(q, 30, Address(pc + p + 5)), f, j, z, "no")
      BY <2>2, <2>4, AdrStep
    <3> QED
      BY <1>1, <1>2, <2>2, <2>5, <3>1
  <2>7. W[n + 3] = NextWord(NextWord(State(o, q1, f, j, z, "no")))
    <3>1. 1 \in 0 .. 8 /\ 1 + 1 = 2 /\ 2 \in 0 .. 8 /\ 2 + 1 = 3
      OBVIOUS
    <3> QED
      BY <1>2, <2>6, <3>1
  <2>8. SameRegs(r1, q1)
    <3>1. a + 1 \in 0 .. Len(script) /\ (a + 1) + 1 = a + 2
      BY Begun
    <3>2. From((a + 1) + 1) = p + 5 /\ pc + (p + 5) = pc + p + 5
      BY <1>1, <1>3, <2>4, <3>1
    <3>3. y = Address(pc + From((a + 1) + 1))
      BY <2>5, <3>2
    <3>4. DOMAIN r = AllRegs /\ DOMAIN q = AllRegs /\ \A u \in X : r[u] = q[u] /\ Plain(r[u])
      BY <1>1 DEF SameRegs
    <3> QED
      BY <1>1, <2>5, <3>1, <3>3, <3>4, Linked
  <2>9. Matches(Transfer(State(a, r1, f, k, z, "no"), v), W[n + 3])
    BY <1>1, <2>1, <2>4, <2>7, <2>8, AbsMatches
  <2>10. Perform(s) = Transfer(State(a, r1, f, k, z, "no"), v)
    <3>1. Perform(s) = Transfer(With(s, 30, <<"stmt", a + 1>>), v)
      BY <1>5, <1>10, <1>s, <2>1 DEF Perform, Calls, Next1
    <3>2. With(s, 30, <<"stmt", a + 1>>) = State(a, r1, f, k, z, "no")
      BY <1>s, <2>5, WithState
    <3> QED
      BY <3>1, <3>2
  <2> QED
    BY <1>s, <2>9, <2>10, 3 \in 0 .. 9 DEF Reaches
<1>11. CASE Original[i].op = "test"
  <2>1a. PICK t \in Functions : \E v : t = Original[i].to /\ v = Address(t)
    BY <1>8, <1>11
  <2>1. PICK v : t = Original[i].to /\ v = Address(t)
    BY <2>1a
  <2>2. PICK x, o : x = [op |-> "skip", by |-> 5] /\ o = p + 1
    OBVIOUS
  <2>3. IsBehind(ws, x, t)
    BY <1>4, <1>5, <1>11, <2>1, <2>2 DEF Relocated, SkipTest, IsBehind
  <2>4. /\ p \in Nat /\ Len(buf) \in Nat /\ p < Len(buf) /\ buf[p + 1] = x
        /\ AbsAt(o, v)
        /\ Len(ws) = 5
    BY <1>c, <2>1, <2>2, <2>3, AbsBehind
  <2>5. NextWord(State(p, q, f, j, z, "no")) =
          IF f = Flags("eq") THEN State(p + 1, q, f, j, z, "no")
          ELSE Transfer(State(p, q, f, j, z, "no"), Address(pc + p + 5))
    <3>1. p \in Nat /\ Len(buf) \in Nat /\ p < Len(buf) /\ buf[p + 1] = [op |-> "skip", by |-> 5]
      BY <2>2, <2>4
    <3> QED
      BY <3>1, SkipStep
  <2>6. CASE f = Flags("eq")
    <3>1. W[n + 1] = State(o, q, f, j, z, "no")
      BY <1>1, <1>2, <2>2, <2>5, <2>6
    <3>2. W[n + 3] = NextWord(NextWord(State(o, q, f, j, z, "no")))
      <4>1. 1 \in 0 .. 8 /\ 1 + 1 = 2 /\ 2 \in 0 .. 8 /\ 2 + 1 = 3
        OBVIOUS
      <4> QED
        BY <1>2, <3>1, <4>1
    <3>3. Matches(Transfer(State(a, r, f, k, z, "no"), v), W[n + 3])
      BY <1>1, <2>1, <2>4, <3>2, AbsMatches
    <3>4. Perform(s) = Transfer(s, v)
      BY <1>5, <1>11, <1>s, <2>1, <2>6 DEF Perform, Taken
    <3> QED
      BY <1>s, <3>3, <3>4, 3 \in 0 .. 9 DEF Reaches
  <2>7. CASE f # Flags("eq")
    <3>1. From(a + 2) = p + 5 /\ pc + (p + 5) = pc + p + 5
      BY <1>1, <1>3, <2>4
    <3>2. PICK y : y = p + 5
      OBVIOUS
    <3>3. y \in 0 .. Len(buf) /\ Address(pc + p + 5) = Address(pc + y)
      BY <1>1, <3>1, <3>2
    <3>4. Transfer(State(p, q, f, j, z, "no"), Address(pc + p + 5)) = State(y, q, f, j, z, "no")
      BY <1>1, <3>3, TransferHere
    <3>5. W[n + 1] = State(From(a + 2), q, f, j, z, "no")
      BY <1>1, <1>2, <2>5, <2>7, <3>1, <3>2, <3>4
    <3>6. Perform(s) = Step(s)
      BY <1>5, <1>11, <1>s, <2>7 DEF Perform, Taken
    <3>7. Perform(s) = State(a + 1, r, f, k, z, "no")
      BY <1>s, <3>6, StepState
    <3>8. Reaches(W, n, State(a + 1, r, f, k, z, "no"))
      BY <1>1, <3>5, 1 \in 0 .. 9, Arrives
    <3> QED
      BY <1>s, <3>7, <3>8
  <2> QED
    BY <2>6, <2>7
<1> QED
  BY <1>6, <1>7, <1>9, <1>10, <1>11

-----------------------------------------------------------------------------
(* Calls *)

\* What argument arg is when the registers are q; q1 is q with v in register d.
Given(q, arg) == IF arg[1] = "imm" THEN arg ELSE q[arg[2]]
Loaded(q, q1, d, v) == DOMAIN q1 = AllRegs /\ q1[d] = v /\ \A x \in AllRegs : x # d => q1[x] = q[x]
\* q1 is q with the arguments behind the first c set up.
Passing(q, q1, args, c) ==
  /\ DOMAIN q1 = AllRegs
  /\ \A i \in DOMAIN args : i > c => q1[i - 1] = Given(q, args[i])
  /\ \A x \in AllRegs : (\A i \in DOMAIN args : i > c => x # i - 1) => q1[x] = q[x]
Unspoiled(args) == \A i \in DOMAIN args : args[i][1] = "reg" => ~ Overwritten(args[i][2], args, i)

\* An argument is a plain immediate value or a register of the model.
LEMMA ArgumentKinds ==
  ASSUME NEW args \in ArgLists, NEW i \in DOMAIN args
  PROVE  \/ args[i][1] = "imm" /\ Plain(args[i])
         \/ args[i][1] = "reg" /\ args[i][2] \in X /\ args[i] = Reg(args[i][2])
<1>1. args[i] \in {Reg(x) : x \in X} \cup {Imm(v) : v \in Immediates}
  BY ArgumentLists
<1>2. CASE args[i] \in {Reg(x) : x \in X}
  <2>1. PICK x \in X : args[i] = Reg(x)
    BY <1>2
  <2>2. args[i][1] = "reg" /\ args[i][2] = x
    BY <2>1 DEF Reg
  <2> QED
    BY <2>1, <2>2
<1>3. CASE args[i] \in {Imm(v) : v \in Immediates}
  <2>1. PICK v : args[i] = Imm(v)
    BY <1>3
  <2>2. args[i][1] = "imm" /\ args[i] # Held(30)
    BY <2>1 DEF Imm, Held
  <2> QED
    BY <2>2 DEF Plain
<1> QED
  BY <1>1, <1>2, <1>3

\* At first no argument is set up.
LEMMA PassNone ==
  ASSUME NEW q, DOMAIN q = AllRegs, NEW args \in ArgLists, NEW c, c = Len(args)
  PROVE  Passing(q, q, args, c)
<1>1. \A i \in DOMAIN args : ~ i > c
  BY ArgumentLists
<1> QED
  BY <1>1 DEF Passing

\* One argument more is set up, from a register that none behind it has overwritten.
LEMMA PassStep ==
  ASSUME NEW args \in ArgLists, Unspoiled(args), NEW c \in DOMAIN args, NEW b, b = c - 1,
         NEW q, DOMAIN q = AllRegs, NEW q1, Passing(q, q1, args, c), NEW q2, Loaded(q1, q2, b, Given(q1, args[c]))
  PROVE  Passing(q, q2, args, b)
<1>1. DOMAIN args = 1 .. Len(args) /\ Len(args) \in 0 .. 3
  BY ArgumentLists
<1>2. c \in Nat /\ b \in Nat
  BY <1>1
<1>3. Given(q1, args[c]) = Given(q, args[c])
  <2>1. CASE args[c][1] = "imm"
    BY <2>1 DEF Given
  <2>2. CASE args[c][1] = "reg" /\ args[c][2] \in X
    <3>1. PICK x \in X : x = args[c][2]
      BY <2>2
    <3>2. ~ Overwritten(x, args, c)
      BY <2>2, <3>1 DEF Unspoiled
    <3>3. x \in AllRegs
      BY DEF AllRegs
    <3>4. q1[x] = q[x]
      <4>1. CASE \A i \in DOMAIN args : i > c => x # i - 1
        BY <3>3, <4>1 DEF Passing
      <4>2. CASE \E i \in DOMAIN args : i > c /\ x = i - 1
        <5>1. PICK i \in DOMAIN args : i > c /\ x = i - 1
          BY <4>2
        <5>2. args[i] = Reg(x)
          BY <3>2, <5>1 DEF Overwritten
        <5>3. args[i][1] = "reg" /\ args[i][2] = x
          BY <5>2 DEF Reg
        <5>4. Given(q, args[i]) = q[x]
          BY <5>3 DEF Given
        <5> QED
          BY <5>1, <5>4 DEF Passing
      <4> QED
        BY <4>1, <4>2
    <3>5. args[c][1] # "imm"
      BY <2>2
    <3> QED
      BY <3>1, <3>4, <3>5 DEF Given
  <2> QED
    BY <2>1, <2>2, ArgumentKinds
<1>4. ASSUME NEW i \in DOMAIN args, i > b PROVE q2[i - 1] = Given(q, args[i])
  <2>1. CASE i = c
    BY <1>3, <2>1 DEF Loaded
  <2>2. CASE i # c
    <3>1. i > c /\ i - 1 # b
      BY <1>1, <1>2, <1>4, <2>2
    <3>2. i - 1 \in AllRegs
      BY <1>1 DEF AllRegs, X
    <3>3. q2[i - 1] = q1[i - 1]
      BY <3>1, <3>2 DEF Loaded
    <3>4. q1[i - 1] = Given(q, args[i])
      BY <3>1 DEF Passing
    <3> QED
      BY <3>3, <3>4
  <2> QED
    BY <2>1, <2>2
<1>5. ASSUME NEW x \in AllRegs, \A i \in DOMAIN args : i > b => x # i - 1 PROVE q2[x] = q[x]
  <2>1. x # b
    BY <1>2, <1>5
  <2>2. \A i \in DOMAIN args : i > c => x # i - 1
    <3>1. \A i \in DOMAIN args : i > c => i > b
      BY <1>1, <1>2
    <3> QED
      BY <1>5, <3>1
  <2>3. q2[x] = q1[x]
    BY <2>1 DEF Loaded
  <2>4. q1[x] = q[x]
    BY <2>2 DEF Passing
  <2> QED
    BY <2>3, <2>4
<1>6. DOMAIN q2 = AllRegs
  BY DEF Loaded
<1> QED
  BY <1>4, <1>5, <1>6 DEF Passing

\* One register loaded.
LEMMA SetLoaded ==
  ASSUME NEW q, DOMAIN q = AllRegs, NEW d \in AllRegs, NEW v
  PROVE  Loaded(q, Set(q, d, v), d, v)
BY SetAt DEF Loaded

\* Some words further the registers are as P would have them.
Sets(W, i, o, q, d, v, f, j, z) ==
  \E m \in 0 .. 2 : \E q1 : W[i + m] = State(o, q1, f, j, z, "no") /\ Loaded(q, q1, d, v)

\* The words of Setup load one argument.
LEMMA SetupRuns ==
  ASSUME Layout, NEW args \in ArgLists, NEW c \in DOMAIN args, NEW arg, arg = args[c],
         NEW d \in X, NEW ws, ws = Setup(arg, d), NEW p, Code(p, ws),
         NEW W, NEW i \in Nat, W[i + 1] = NextWord(W[i]), W[i + 2] = NextWord(W[i + 1]),
         NEW q, NEW f, NEW j, NEW z, W[i] = State(p, q, f, j, z, "no"), DOMAIN q = AllRegs
  PROVE  Sets(W, i, p + Len(ws), q, d, Given(q, arg), f, j, z)
<1>0. d \in AllRegs /\ p \in Nat
  BY DEF AllRegs, Code
<1>1. CASE arg[1] = "imm"
  <2>1. ws = LdrU64(d, arg) /\ Given(q, arg) = arg
    BY <1>1 DEF Setup, Given
  <2>2. /\ NextWord(NextWord(State(p, q, f, j, z, "no"))) = State(p + 4, Set(q, d, arg), f, j, z, "no")
        /\ Len(ws) = 4
    BY <2>1, LoadRuns
  <2>3. W[i + 2] = State(p + Len(ws), Set(q, d, arg), f, j, z, "no")
    BY <2>2
  <2>4. Loaded(q, Set(q, d, arg), d, arg)
    BY <1>0, SetLoaded
  <2>5. 2 \in 0 .. 2
    OBVIOUS
  <2> QED
    BY <2>1, <2>3, <2>4, <2>5 DEF Sets
<1>2. CASE arg[1] # "imm" /\ arg[2] = d
  <2>1. ws = << >> /\ Given(q, arg) = q[d]
    BY <1>2 DEF Setup, Given
  <2>2. Len(ws) = 0 /\ p + 0 = p /\ i + 0 = i /\ 0 \in 0 .. 2
    BY <1>0, <2>1, Empty
  <2>3. Loaded(q, q, d, q[d])
    BY DEF Loaded
  <2>4. W[i + 0] = State(p + Len(ws), q, f, j, z, "no")
    BY <2>2
  <2> QED
    BY <2>1, <2>2, <2>3, <2>4 DEF Sets
<1>3. CASE arg[1] # "imm" /\ arg[2] # d
  <2>1. PICK x : x = arg[2]
    OBVIOUS
  <2>2. ws = <<Pair("mov", d, x)>> /\ Given(q, arg) = q[x]
    BY <1>3, <2>1 DEF Setup, Given
  <2>3. Len(ws) = 1 /\ ws[1] = Pair("mov", d, x)
    BY <2>2, One
  <2>4. p < Len(buf) /\ Len(buf) \in Nat /\ buf[p + 1] = Pair("mov", d, x)
    <3>1. Len(ws) > 0
      BY <2>3
    <3> QED
      BY <2>3, <3>1, FetchedFirst
  <2>5. NextWord(State(p, q, f, j, z, "no")) = State(p + 1, Set(q, d, q[x]), f, j, z, "no")
    BY <1>0, <2>4, MovStep
  <2>6. W[i + 1] = State(p + Len(ws), Set(q, d, q[x]), f, j, z, "no")
    BY <2>3, <2>5
  <2>7. Loaded(q, Set(q, d, q[x]), d, q[x])
    BY <1>0, SetLoaded
  <2>8. 1 \in 0 .. 2
    OBVIOUS
  <2> QED
    BY <2>2, <2>6, <2>7, <2>8 DEF Sets
<1> QED
  BY <1>1, <1>2, <1>3

\* Code of two parts.
LEMMA CodeCat ==
  ASSUME NEW p, NEW ws, Code(p, ws), NEW us, NEW vs, IsCat(ws, us, vs), Sequence(us), Sequence(vs), NEW o, o = p + Len(us)
  PROVE  Code(p, us) /\ Code(o, vs) /\ p + Len(ws) = o + Len(vs)
<1>1. /\ Sequence(ws) /\ p \in Nat /\ Len(ws) \in Nat /\ Len(buf) \in Nat /\ p + Len(ws) <= Len(buf)
      /\ DOMAIN buf = 1 .. Len(buf) /\ \A i \in 1 .. Len(ws) : buf[p + i] = ws[i]
  BY DEF Code
<1>2. Len(us) \in Nat /\ Len(vs) \in Nat
  BY Indexed
<1>3. /\ Len(ws) = Len(us) + Len(vs) /\ \A i \in 1 .. Len(us) : ws[i] = us[i]
      /\ \A i \in 1 .. Len(vs) : ws[Len(us) + i] = vs[i]
  BY DEF IsCat
<1>4. \A i \in 1 .. Len(us) : buf[p + i] = us[i]
  <2>1. \A i \in 1 .. Len(us) : i \in 1 .. Len(ws)
    BY <1>2, <1>3
  <2> QED
    BY <1>1, <1>3, <2>1
<1>5. ASSUME NEW i \in 1 .. Len(vs) PROVE buf[o + i] = vs[i]
  <2>1. PICK m : m = Len(us) + i
    OBVIOUS
  <2>2. m \in 1 .. Len(ws) /\ o + i = p + m
    BY <1>1, <1>2, <1>3, <2>1
  <2>3. buf[p + m] = ws[m]
    BY <1>1, <2>2
  <2>4. ws[m] = vs[i]
    BY <1>3, <2>1
  <2> QED
    BY <2>2, <2>3, <2>4
<1>6. o \in Nat /\ p + Len(us) <= Len(buf) /\ o + Len(vs) <= Len(buf) /\ p + Len(ws) = o + Len(vs)
  BY <1>1, <1>2, <1>3
<1> QED
  BY <1>1, <1>2, <1>4, <1>5, <1>6 DEF Code

\* At most m words behind n the arguments behind the first c are set up.
Arranged(W, n, m, p, q, args, c, f, j, z) ==
  \E i \in 0 .. m : \E q1 : W[n + i] = State(p, q1, f, j, z, "no") /\ Passing(q, q1, args, c)

\* One argument more is set up by at most two words.
LEMMA ArrangeStep ==
  ASSUME Layout, NEW args \in ArgLists, Unspoiled(args), NEW c \in DOMAIN args, NEW b, b = c - 1,
         NEW W, NEW n \in Nat, \A m \in 0 .. 8 : W[n + (m + 1)] = NextWord(W[n + m]),
         NEW m1 \in 0 .. 4, NEW m2, m2 = m1 + 2, NEW p, NEW ws, ws = Setup(args[c], b), Code(p, ws),
         NEW q, DOMAIN q = AllRegs, NEW f, NEW j, NEW z, Arranged(W, n, m1, p, q, args, c, f, j, z)
  PROVE  Arranged(W, n, m2, p + Len(ws), q, args, b, f, j, z)
<1>1a. PICK i \in 0 .. m1 : \E q1 : W[n + i] = State(p, q1, f, j, z, "no") /\ Passing(q, q1, args, c)
  BY DEF Arranged
<1>1. PICK q1 : W[n + i] = State(p, q1, f, j, z, "no") /\ Passing(q, q1, args, c)
  BY <1>1a
<1>2. PICK k : k = n + i
  OBVIOUS
<1>3. k \in Nat /\ k + 1 = n + (i + 1) /\ k + 2 = n + ((i + 1) + 1) /\ i \in 0 .. 8 /\ i + 1 \in 0 .. 8
  BY <1>2
<1>4. W[k + 1] = NextWord(W[k])
  BY <1>2, <1>3
<1>5. W[k + 2] = NextWord(W[k + 1])
  BY <1>3
<1>6. b \in X
  BY ArgumentLists DEF X
<1>7. DOMAIN q1 = AllRegs
  BY <1>1 DEF Passing
<1>8. PICK arg : arg = args[c]
  OBVIOUS
<1>9. W[k] = State(p, q1, f, j, z, "no") /\ ws = Setup(arg, b)
  BY <1>1, <1>2, <1>8
<1>10. Sets(W, k, p + Len(ws), q1, b, Given(q1, arg), f, j, z)
  BY <1>3, <1>4, <1>5, <1>6, <1>7, <1>8, <1>9, SetupRuns
<1>11a. PICK m \in 0 .. 2 : \E q2 : W[k + m] = State(p + Len(ws), q2, f, j, z, "no") /\ Loaded(q1, q2, b, Given(q1, arg))
  BY <1>10 DEF Sets
<1>11. PICK q2 : W[k + m] = State(p + Len(ws), q2, f, j, z, "no") /\ Loaded(q1, q2, b, Given(q1, arg))
  BY <1>11a
<1>12. Passing(q, q2, args, b)
  BY <1>1, <1>8, <1>11, PassStep
<1>13. i + m \in 0 .. m2 /\ n + (i + m) = k + m
  BY <1>2
<1>14. W[n + (i + m)] = State(p + Len(ws), q2, f, j, z, "no")
  BY <1>11, <1>13
<1> QED
  BY <1>12, <1>13, <1>14 DEF Arranged

\* Fewer words are within any bound.
LEMMA ArrangeMore ==
  ASSUME NEW W, NEW n, NEW m1 \in 0 .. 6, NEW p, NEW q, NEW args, NEW c, NEW f, NEW j, NEW z,
         Arranged(W, n, m1, p, q, args, c, f, j, z)
  PROVE  Arranged(W, n, 6, p, q, args, c, f, j, z)
<1>1a. PICK i \in 0 .. m1 : \E q1 : W[n + i] = State(p, q1, f, j, z, "no") /\ Passing(q, q1, args, c)
  BY DEF Arranged
<1>1. PICK q1 : W[n + i] = State(p, q1, f, j, z, "no") /\ Passing(q, q1, args, c)
  BY <1>1a
<1>2. i \in 0 .. 6
  OBVIOUS
<1> QED
  BY <1>1, <1>2 DEF Arranged

\* The arguments of a call arrive, the last one first.
LEMMA ArgumentsRun ==
  ASSUME Layout, NEW args \in ArgLists, Unspoiled(args),
         NEW W, NEW n \in Nat, \A m \in 0 .. 8 : W[n + (m + 1)] = NextWord(W[n + m]),
         NEW p, NEW ws, ws = Arguments(args), Code(p, ws),
         NEW q, DOMAIN q = AllRegs, NEW f, NEW j, NEW z, W[n] = State(p, q, f, j, z, "no")
  PROVE  Arranged(W, n, 6, p + Len(ws), q, args, 0, f, j, z)
<1>0. p \in Nat /\ Len(args) \in 0 .. 3 /\ DOMAIN args = 1 .. Len(args)
  BY ArgumentLists DEF Code
<1>1. Arranged(W, n, 0, p, q, args, Len(args), f, j, z)
  <2>1. Passing(q, q, args, Len(args))
    BY PassNone
  <2>2. 0 \in 0 .. 0 /\ W[n + 0] = State(p, q, f, j, z, "no")
    OBVIOUS
  <2> QED
    BY <2>1, <2>2 DEF Arranged
<1>2. CASE Len(args) = 0
  <2>1. ws = << >> /\ p + Len(ws) = p
    BY <1>0, <1>2, ArgumentWords, Empty
  <2>2. Arranged(W, n, 0, p + Len(ws), q, args, 0, f, j, z)
    BY <1>1, <1>2, <2>1
  <2> QED
    BY <2>2, 0 \in 0 .. 6, ArrangeMore
<1>3. CASE Len(args) = 1
  <2>1. ws = Setup(args[1], 0) /\ 1 \in DOMAIN args /\ 0 = 1 - 1
    BY <1>0, <1>3, ArgumentWords
  <2>2. Arranged(W, n, 0, p, q, args, 1, f, j, z)
    BY <1>1, <1>3
  <2>3. Arranged(W, n, 2, p + Len(ws), q, args, 0, f, j, z)
    BY <2>1, <2>2, 0 \in 0 .. 4, 2 = 0 + 2, ArrangeStep
  <2> QED
    BY <2>3, 2 \in 0 .. 6, ArrangeMore
<1>4. CASE Len(args) = 2
  <2>1. PICK us, vs : us = Setup(args[2], 1) /\ vs = Setup(args[1], 0)
    OBVIOUS
  <2>2. Sequence(us) /\ Sequence(vs)
    BY <2>1, SetupWords
  <2>3. IsCat(ws, us, vs)
    BY <1>4, <2>1, <2>2, ArgumentWords, Cat
  <2>4. PICK o : o = p + Len(us)
    OBVIOUS
  <2>5. Code(p, us) /\ Code(o, vs) /\ p + Len(ws) = o + Len(vs)
    BY <2>2, <2>3, <2>4, CodeCat
  <2>6. 1 \in DOMAIN args /\ 2 \in DOMAIN args /\ 1 = 2 - 1 /\ 0 = 1 - 1
    BY <1>0, <1>4
  <2>7. Arranged(W, n, 0, p, q, args, 2, f, j, z)
    BY <1>1, <1>4
  <2>8. Arranged(W, n, 2, p + Len(us), q, args, 1, f, j, z)
    BY <2>1, <2>5, <2>6, <2>7, 0 \in 0 .. 4, 2 = 0 + 2, ArrangeStep
  <2>9. Arranged(W, n, 2, o, q, args, 1, f, j, z)
    BY <2>4, <2>8
  <2>10. Arranged(W, n, 4, o + Len(vs), q, args, 0, f, j, z)
    BY <2>1, <2>5, <2>6, <2>9, 2 \in 0 .. 4, 4 = 2 + 2, ArrangeStep
  <2>11. Arranged(W, n, 4, p + Len(ws), q, args, 0, f, j, z)
    BY <2>5, <2>10
  <2> QED
    BY <2>11, 4 \in 0 .. 6, ArrangeMore
<1>5. CASE Len(args) = 3
  <2>1. PICK us, vs, ts, ys : /\ us = Setup(args[3], 2) /\ vs = Setup(args[2], 1)
                              /\ ts = Setup(args[1], 0) /\ ys = us \o vs
    OBVIOUS
  <2>2. Sequence(us) /\ Sequence(vs) /\ Sequence(ts)
    BY <2>1, SetupWords
  <2>3. IsCat(ys, us, vs)
    BY <2>1, <2>2, Cat
  <2>4. Sequence(ys)
    BY <2>3 DEF IsCat
  <2>5. ws = ys \o ts
    BY <1>5, <2>1, ArgumentWords
  <2>6. IsCat(ws, ys, ts)
    BY <2>2, <2>4, <2>5, Cat
  <2>7. PICK o, o2 : o = p + Len(us) /\ o2 = p + Len(ys)
    OBVIOUS
  <2>8. Code(p, ys) /\ Code(o2, ts) /\ p + Len(ws) = o2 + Len(ts)
    BY <2>2, <2>4, <2>6, <2>7, CodeCat
  <2>9. Code(p, us) /\ Code(o, vs) /\ o2 = o + Len(vs)
    <3>1. Code(p, ys)
      BY <2>8
    <3>2. Code(p, us) /\ Code(o, vs) /\ p + Len(ys) = o + Len(vs)
      BY <2>2, <2>3, <2>7, <3>1, CodeCat
    <3> QED
      BY <2>7, <3>2
  <2>10. 1 \in DOMAIN args /\ 2 \in DOMAIN args /\ 3 \in DOMAIN args /\ 2 = 3 - 1 /\ 1 = 2 - 1 /\ 0 = 1 - 1
    BY <1>0, <1>5
  <2>11. Arranged(W, n, 0, p, q, args, 3, f, j, z)
    BY <1>1, <1>5
  <2>12. Arranged(W, n, 2, p + Len(us), q, args, 2, f, j, z)
    BY <2>1, <2>9, <2>10, <2>11, 0 \in 0 .. 4, 2 = 0 + 2, ArrangeStep
  <2>13. Arranged(W, n, 2, o, q, args, 2, f, j, z)
    BY <2>7, <2>12
  <2>14. Arranged(W, n, 4, o + Len(vs), q, args, 1, f, j, z)
    BY <2>1, <2>9, <2>10, <2>13, 2 \in 0 .. 4, 4 = 2 + 2, ArrangeStep
  <2>15. Arranged(W, n, 4, o2, q, args, 1, f, j, z)
    BY <2>9, <2>14
  <2>16. Arranged(W, n, 6, o2 + Len(ts), q, args, 0, f, j, z)
    BY <2>1, <2>8, <2>10, <2>15, 4 \in 0 .. 4, 6 = 4 + 2, ArrangeStep
  <2> QED
    BY <2>8, <2>16
<1>6. Len(args) = 0 \/ Len(args) = 1 \/ Len(args) = 2 \/ Len(args) = 3
  BY <1>0
<1> QED
  BY <1>2, <1>3, <1>4, <1>5, <1>6

\* The registers of the statements with the arguments in their places.
PassedRegs(r, args) == [x \in AllRegs |-> IF x + 1 \in DOMAIN args THEN Given(r, args[x + 1]) ELSE r[x]]

\* The statement's registers with the arguments in their places.
LEMMA PassedState ==
  ASSUME NEW a, NEW r, NEW f, NEW k, NEW z, NEW args, DOMAIN r = AllRegs
  PROVE  Passed(State(a, r, f, k, z, "no"), args) = State(a, PassedRegs(r, args), f, k, z, "no")
<1>1. PICK s : s = State(a, r, f, k, z, "no")
  OBVIOUS
<1>2. s.regs = r
  BY <1>1, Fields
<1>3. [x \in DOMAIN s.regs |-> IF x + 1 \in DOMAIN args THEN ArgumentOf(s, args[x + 1]) ELSE s.regs[x]]
        = PassedRegs(r, args)
  BY <1>2 DEF PassedRegs, ArgumentOf, Given
<1>4. Passed(s, args) = [s EXCEPT !.regs = PassedRegs(r, args)]
  BY <1>3 DEF Passed
<1>5. PICK r1 : r1 = PassedRegs(r, args)
  OBVIOUS
<1>6. [s EXCEPT !.regs = r1] = State(a, r1, f, k, z, "no")
  BY <1>1 DEF State
<1> QED
  BY <1>1, <1>4, <1>5, <1>6

\* They are the words' registers.
LEMMA PassedSame ==
  ASSUME NEW args \in ArgLists, NEW r, NEW q, SameRegs(r, q), NEW q1, Passing(q, q1, args, 0),
         NEW r1, r1 = PassedRegs(r, args)
  PROVE  SameRegs(r1, q1)
<1>1. Len(args) \in 0 .. 3 /\ DOMAIN args = 1 .. Len(args)
  BY ArgumentLists
<1>2. DOMAIN r = AllRegs /\ DOMAIN q = AllRegs /\ Links(r[30], q[30]) /\ \A x \in X : r[x] = q[x] /\ Plain(r[x])
  BY DEF SameRegs
<1>3. DOMAIN r1 = AllRegs /\ DOMAIN q1 = AllRegs
  BY DEF PassedRegs, Passing
<1>4. ASSUME NEW x \in X PROVE r1[x] = q1[x] /\ Plain(r1[x])
  <2>0. x \in AllRegs /\ x \in Nat
    BY DEF AllRegs, X
  <2>1. CASE x + 1 \in DOMAIN args
    <3>1. PICK i \in DOMAIN args : i = x + 1
      BY <2>1
    <3>2. i > 0 /\ i - 1 = x
      BY <1>1, <2>0, <3>1
    <3>3. r1[x] = Given(r, args[i])
      BY <2>0, <2>1, <3>1 DEF PassedRegs
    <3>4. q1[x] = Given(q, args[i])
      <4>1. q1[i - 1] = Given(q, args[i])
        BY <3>2 DEF Passing
      <4> QED
        BY <3>2, <4>1
    <3>5. Given(r, args[i]) = Given(q, args[i]) /\ Plain(Given(r, args[i]))
      <4>1. CASE args[i][1] = "imm" /\ Plain(args[i])
        BY <4>1 DEF Given
      <4>2. CASE args[i][1] = "reg" /\ args[i][2] \in X
        BY <1>2, <4>2 DEF Given
      <4> QED
        BY <4>1, <4>2, ArgumentKinds
    <3> QED
      BY <3>3, <3>4, <3>5
  <2>2. CASE x + 1 \notin DOMAIN args
    <3>1. \A i \in DOMAIN args : i > 0 => x # i - 1
      BY <1>1, <2>0, <2>2
    <3>2. q1[x] = q[x]
      BY <2>0, <3>1 DEF Passing
    <3>3. r1[x] = r[x]
      BY <2>0, <2>2 DEF PassedRegs
    <3> QED
      BY <1>2, <3>2, <3>3
  <2> QED
    BY <2>1, <2>2
<1>5. 30 \in AllRegs /\ 30 + 1 \notin DOMAIN args /\ \A i \in DOMAIN args : i > 0 => 30 # i - 1
  BY <1>1 DEF AllRegs
<1>6. r1[30] = r[30]
  BY <1>5 DEF PassedRegs
<1>7. q1[30] = q[30]
  BY <1>5 DEF Passing
<1> QED
  BY <1>2, <1>3, <1>4, <1>6, <1>7 DEF SameRegs

\* The register called keeps its value.
LEMMA TargetKept ==
  ASSUME NEW args \in ArgLists, NEW q, NEW q1, Passing(q, q1, args, 0), ~ Overwritten(2, args, 0)
  PROVE  q1[2] = q[2]
<1>1. Len(args) \in 0 .. 3 /\ DOMAIN args = 1 .. Len(args) /\ 2 \in AllRegs
  BY ArgumentLists DEF AllRegs, X
<1>2. CASE \A i \in DOMAIN args : i > 0 => 2 # i - 1
  BY <1>1, <1>2 DEF Passing
<1>3. CASE \E i \in DOMAIN args : i > 0 /\ 2 = i - 1
  <2>1. PICK i \in DOMAIN args : i > 0 /\ 2 = i - 1
    BY <1>3
  <2>2. args[i] = Reg(2)
    BY <2>1 DEF Overwritten
  <2>3. args[i][1] = "reg" /\ args[i][2] = 2
    BY <2>2 DEF Reg
  <2>4. Given(q, args[i]) = q[2]
    BY <2>3 DEF Given
  <2> QED
    BY <2>1, <2>4 DEF Passing
<1> QED
  BY <1>2, <1>3

\* A call of a function or of a plain value, alike on both sides.
LEMMA CallMatches ==
  ASSUME Sound, NEW a \in Nat, a < Len(script), NEW b, NEW r, NEW q, SameRegs(r, q),
         NEW r1, r1 = Set(r, 30, <<"stmt", a + 1>>),
         NEW y, y = Address(pc + From(a + 2)), NEW q1, DOMAIN q1 = AllRegs, q1[30] = y,
         NEW f, NEW g, NEW k, NEW j, NEW z, Stands(k, j),
         NEW v, Plain(v) \/ (\E t \in Functions : v = Address(t)),
         \A x \in 0 .. Count(v) - 1 : q1[x] = q[x]
  PROVE  Matches(Transfer(State(a, r1, f, k, z, "no"), v), Transfer(State(b, q1, g, j, z, "no"), v))
<1>1. Layout /\ OwnMemory
  BY DEF Sound, CodeInv
<1>2. DOMAIN r = AllRegs /\ \A x \in X : r[x] = q[x]
  BY DEF SameRegs
<1>3. 30 \in AllRegs /\ X \subseteq AllRegs /\ 30 \notin X
  BY DEF AllRegs, X
<1>4. DOMAIN r1 = AllRegs /\ r1[30] = <<"stmt", a + 1>> /\ \A x \in X : r1[x] = r[x]
  BY <1>2, <1>3, SetAt
<1>5. PICK c : c = a + 1
  OBVIOUS
<1>6. c \in 0 .. Len(script) /\ c + 1 = a + 2
  <2>1. Len(script) \in Nat
    BY <1>1, WithinBuffer
  <2> QED
    BY <1>5, <2>1
<1>7. Links(r1[30], q1[30])
  BY <1>4, <1>5, <1>6 DEF Links
<1>8. \A x \in 0 .. Count(v) - 1 : r1[x] = q1[x]
  BY <1>2, <1>4, CountFew
<1>9. Transfer(State(a, r1, f, k, z, "no"), v) = Outside(State(a, r1, f, k, z, "no"), v)
  BY <1>1, TransferOut
<1>10. Transfer(State(b, q1, g, j, z, "no"), v) = Outside(State(b, q1, g, j, z, "no"), v)
  BY <1>1, TransferOut
<1>11. Matches(Outside(State(a, r1, f, k, z, "no"), v), Outside(State(b, q1, g, j, z, "no"), v))
  BY <1>1, <1>4, <1>7, <1>8, OutsideMatches
<1> QED
  BY <1>9, <1>10, <1>11

\* The arguments of the call at a are set up on both sides.
Called(W, n, p, r, args, f, j, z) ==
  \E i \in 0 .. 6 : \E q1 : W[n + i] = State(p, q1, f, j, z, "no") /\ SameRegs(PassedRegs(r, args), q1)
                        /\ (~ Overwritten(2, args, 0) => q1[2] = r[2])

\* The words of the arguments do what the statement does to the registers.
LEMMA ArgumentsDo ==
  ASSUME Sound, NEW W, NEW n, NEW a, NEW r, NEW q, NEW f, NEW k, NEW j, NEW z,
         Ready(W, n, a, r, q, f, k, j, z), NEW args \in ArgLists, Unspoiled(args),
         NEW p, p = From(a + 1), NEW us, us = Arguments(args), Code(p, us)
  PROVE  Called(W, n, p + Len(us), r, args, f, j, z)
<1>1. /\ W[n] = State(p, q, f, j, z, "no") /\ n \in Nat /\ SameRegs(r, q) /\ Layout
  BY Begun
<1>2. \A m \in 0 .. 8 : W[n + (m + 1)] = NextWord(W[n + m])
  BY Onward
<1>3. DOMAIN q = AllRegs /\ r[2] = q[2]
  BY <1>1 DEF SameRegs, X
<1>4. Arranged(W, n, 6, p + Len(us), q, args, 0, f, j, z)
  BY <1>1, <1>2, <1>3, ArgumentsRun
<1>5a. PICK i \in 0 .. 6 : \E q1 : /\ W[n + i] = State(p + Len(us), q1, f, j, z, "no")
                                   /\ Passing(q, q1, args, 0)
  BY <1>4 DEF Arranged
<1>5. PICK q1 : /\ W[n + i] = State(p + Len(us), q1, f, j, z, "no")
                /\ Passing(q, q1, args, 0)
  BY <1>5a
<1>6. SameRegs(PassedRegs(r, args), q1)
  BY <1>1, <1>5, PassedSame
<1>7. ~ Overwritten(2, args, 0) => q1[2] = r[2]
  BY <1>3, <1>5, TargetKept
<1> QED
  BY <1>5, <1>6, <1>7 DEF Called

\* One word further.
LEMMA WordOn ==
  ASSUME NEW W, NEW n \in Nat, \A m \in 0 .. 8 : W[n + (m + 1)] = NextWord(W[n + m]),
         NEW i \in 0 .. 8, NEW w, W[n + i] = w
  PROVE  W[n + (i + 1)] = NextWord(w) /\ i + 1 \in 0 .. 9
OBVIOUS

\* What a script must not do, for one call.
LEMMA CallUnspoiled ==
  ASSUME Sound, NEW a \in Nat, a < Len(script), script[a + 1].op \in {"call", "call_reg"}
  PROVE  /\ Unspoiled(script[a + 1].args)
         /\ script[a + 1].op = "call_reg" => ~ Overwritten(script[a + 1].r, script[a + 1].args, 0)
<1>1. a + 1 \in DOMAIN script
  <2>1. Layout
    BY DEF Sound, CodeInv
  <2> QED
    BY <2>1, WithinBuffer
<1>2. PICK w : w = script[a + 1]
  OBVIOUS
<1>3. ~ Overwrites(w)
  BY <1>1, <1>2 DEF Sound
<1> QED
  BY <1>2, <1>3 DEF Overwrites, Unspoiled

\* The words of a call of a register do it.
LEMMA CallRegDoes ==
  ASSUME Sound, NEW W, NEW n, NEW a, NEW r, NEW q, NEW f, NEW k, NEW j, NEW z,
         Ready(W, n, a, r, q, f, k, j, z), script[a + 1].op = "call_reg"
  PROVE  Reaches(W, n, Perform(State(a, r, f, k, z, "no")))
<1>p. PICK p : p = From(a + 1)
  OBVIOUS
<1>s0. PICK s : s = State(a, r, f, k, z, "no")
  OBVIOUS
<1>1. /\ W[n] = State(p, q, f, j, z, "no") /\ n \in Nat /\ a \in Nat /\ a < Len(script)
      /\ SameRegs(r, q) /\ Plain(f) /\ Stands(k, j) /\ Layout /\ p \in 0 .. Len(buf)
      /\ pc \in Nat /\ Len(buf) \in Nat /\ From(a + 2) \in 0 .. Len(buf)
  BY <1>p, Begun
<1>2. /\ W[n + 1] = NextWord(W[n])
      /\ \A m \in 0 .. 8 : W[n + (m + 1)] = NextWord(W[n + m])
  BY Onward
<1>3. PICK ws : Spells(script[a + 1], pc + p, ws) /\ Code(p, ws) /\ From(a + 2) = p + Len(ws)
  BY <1>p, Begun
<1>c. Code(p, ws)
  BY <1>3
<1>s. s.at = a /\ s.regs = r /\ s.flags = f /\ s.stack = k /\ s = State(a, r, f, k, z, "no")
  BY <1>s0, Fields
<1>4. /\ script[a + 1].args \in ArgLists /\ script[a + 1].r = 2 /\ ws = CallReg(2, script[a + 1].args)
  BY <1>3 DEF Spells
<1>5. PICK args : args = script[a + 1].args
  OBVIOUS
<1>6. args \in ArgLists /\ ws = CallReg(2, args) /\ Unspoiled(args) /\ ~ Overwritten(2, args, 0)
  BY <1>1, <1>4, <1>5, CallUnspoiled
<1>7. PICK us, vs : us = Arguments(args) /\ vs = <<OnReg("blr", 2)>>
  OBVIOUS
<1>8. Sequence(us) /\ Sequence(vs) /\ Len(vs) = 1 /\ vs[1] = OnReg("blr", 2)
  BY <1>6, <1>7, CallWords, One
<1>9. IsCat(ws, us, vs)
  <2>1. ws = us \o vs
    BY <1>6, <1>7 DEF CallReg
  <2> QED
    BY <1>8, <2>1, Cat
<1>10. PICK b : b = p + Len(us)
  OBVIOUS
<1>11. Code(p, us) /\ Code(b, vs) /\ From(a + 2) = b + 1
  <2>1. Sequence(us) /\ Sequence(vs)
    BY <1>8
  <2>2. Code(p, us) /\ Code(b, vs) /\ p + Len(ws) = b + Len(vs)
    BY <1>c, <1>9, <1>10, <2>1, CodeCat
  <2> QED
    BY <1>3, <1>8, <2>2
<1>12. Called(W, n, b, r, args, f, j, z)
  BY <1>6, <1>7, <1>10, <1>11, <1>p, ArgumentsDo
<1>13a. PICK i \in 0 .. 6 : \E q1 : /\ W[n + i] = State(b, q1, f, j, z, "no")
                                    /\ SameRegs(PassedRegs(r, args), q1) /\ q1[2] = r[2]
  BY <1>6, <1>12 DEF Called
<1>13. PICK q1 : /\ W[n + i] = State(b, q1, f, j, z, "no")
                 /\ SameRegs(PassedRegs(r, args), q1) /\ q1[2] = r[2]
  BY <1>13a
<1>14. PICK v, y, r1 : v = r[2] /\ y = Address(pc + From(a + 2)) /\ r1 = PassedRegs(r, args)
  OBVIOUS
<1>15. PICK q2 : q2 = Set(q1, 30, y)
  OBVIOUS
<1>16. W[n + (i + 1)] = Transfer(State(b, q2, f, j, z, "no"), v) /\ i + 1 \in 0 .. 9
  <2>1. Code(b, vs) /\ Len(vs) > 0
    BY <1>8, <1>11
  <2>2. b \in Nat /\ b < Len(buf) /\ buf[b + 1] = OnReg("blr", 2)
    BY <1>8, <2>1, FetchedFirst
  <2>3. pc + b + 1 = pc + From(a + 2)
    BY <1>1, <1>11, <2>2
  <2>4. NextWord(State(b, q1, f, j, z, "no"))
          = Transfer(State(b, Set(q1, 30, Address(pc + b + 1)), f, j, z, "no"), q1[2])
    BY <1>1, <2>2, BlrStep
  <2>5. NextWord(State(b, q1, f, j, z, "no")) = Transfer(State(b, q2, f, j, z, "no"), v)
    BY <1>13, <1>14, <1>15, <2>3, <2>4
  <2>6. i \in 0 .. 8
    OBVIOUS
  <2>7. W[n + (i + 1)] = NextWord(State(b, q1, f, j, z, "no")) /\ i + 1 \in 0 .. 9
    BY <1>1, <1>2, <1>13, <2>6, WordOn
  <2> QED
    BY <2>5, <2>7
<1>17. PICK r2 : r2 = Set(r1, 30, <<"stmt", a + 1>>)
  OBVIOUS
<1>18. Perform(s) = Transfer(State(a, r2, f, k, z, "no"), v)
  <2>1. Perform(s) = Calls(Passed(s, args), s.regs[2])
    BY <1>4, <1>5, <1>s DEF Perform
  <2>2. DOMAIN r = AllRegs
    BY <1>1 DEF SameRegs
  <2>3. Passed(s, args) = State(a, r1, f, k, z, "no")
    BY <1>14, <1>s, <2>2, PassedState
  <2>4. Next1(State(a, r1, f, k, z, "no")) = <<"stmt", a + 1>>
    BY Fields DEF Next1
  <2>5. Calls(State(a, r1, f, k, z, "no"), v) = Transfer(With(State(a, r1, f, k, z, "no"), 30, <<"stmt", a + 1>>), v)
    BY <2>4 DEF Calls
  <2>6. With(State(a, r1, f, k, z, "no"), 30, <<"stmt", a + 1>>) = State(a, r2, f, k, z, "no")
    BY <1>17, WithState
  <2> QED
    BY <1>14, <1>s, <2>1, <2>3, <2>5, <2>6
<1>19. DOMAIN q2 = AllRegs /\ q2[30] = y /\ \A x \in X : q2[x] = q1[x]
  <2>1. DOMAIN q1 = AllRegs
    BY <1>13 DEF SameRegs
  <2>2. 30 \in AllRegs /\ X \subseteq AllRegs /\ 30 \notin X
    BY DEF AllRegs, X
  <2> QED
    BY <1>15, <2>1, <2>2, SetAt
<1>20. \A x \in 0 .. Count(v) - 1 : q2[x] = q1[x]
  BY <1>19, CountFew
<1>21. Plain(v)
  <2>1. 2 \in X
    BY DEF X
  <2> QED
    BY <1>1, <1>14, <2>1 DEF SameRegs
<1>22. SameRegs(r1, q1) /\ Stands(k, j) /\ a \in Nat /\ a < Len(script)
  BY <1>1, <1>13, <1>14
<1>23. Matches(Transfer(State(a, r2, f, k, z, "no"), v), Transfer(State(b, q2, f, j, z, "no"), v))
  BY <1>14, <1>17, <1>19, <1>20, <1>21, <1>22, CallMatches
<1>24. Matches(Perform(s), W[n + (i + 1)])
  BY <1>16, <1>18, <1>23
<1> QED
  BY <1>16, <1>24, <1>s DEF Reaches

\* The words of a call of a function do it, near or far.
LEMMA CallDoes ==
  ASSUME Sound, NEW W, NEW n, NEW a, NEW r, NEW q, NEW f, NEW k, NEW j, NEW z,
         Ready(W, n, a, r, q, f, k, j, z), script[a + 1].op = "call"
  PROVE  Reaches(W, n, Perform(State(a, r, f, k, z, "no")))
<1>p. PICK p : p = From(a + 1)
  OBVIOUS
<1>s0. PICK s : s = State(a, r, f, k, z, "no")
  OBVIOUS
<1>1. /\ W[n] = State(p, q, f, j, z, "no") /\ n \in Nat /\ a \in Nat /\ a < Len(script)
      /\ SameRegs(r, q) /\ Plain(f) /\ Stands(k, j) /\ Layout /\ p \in 0 .. Len(buf)
      /\ pc \in Nat /\ Len(buf) \in Nat /\ From(a + 2) \in 0 .. Len(buf)
  BY <1>p, Begun
<1>2. /\ W[n + 1] = NextWord(W[n])
      /\ \A m \in 0 .. 8 : W[n + (m + 1)] = NextWord(W[n + m])
  BY Onward
<1>3. PICK ws : Spells(script[a + 1], pc + p, ws) /\ Code(p, ws) /\ From(a + 2) = p + Len(ws)
  BY <1>p, Begun
<1>c. Code(p, ws)
  BY <1>3
<1>s. s.at = a /\ s.regs = r /\ s.flags = f /\ s.stack = k /\ s = State(a, r, f, k, z, "no")
  BY <1>s0, Fields
<1>4. /\ script[a + 1].args \in ArgLists /\ script[a + 1].f \in Functions
      /\ Len(script[a + 1].args) = Arity[script[a + 1].f]
      /\ ws = CallAddress(script[a + 1].f, script[a + 1].args, pc + p)
  BY <1>3 DEF Spells
<1>g. PICK args : args = script[a + 1].args
  OBVIOUS
<1>5. PICK t \in Functions : args = script[a + 1].args /\ t = script[a + 1].f
  BY <1>4, <1>g
<1>6. args \in ArgLists /\ Len(args) = Arity[t] /\ ws = CallAddress(t, args, pc + p) /\ Unspoiled(args)
  BY <1>1, <1>4, <1>5, CallUnspoiled
<1>7. PICK us, v : us = Arguments(args) /\ v = Address(t)
  OBVIOUS
<1>8. PICK b, d : b = p + Len(us) /\ d = t - (pc + p) - Len(us)
  OBVIOUS
<1>9. PICK vs : /\ ws = us \o vs
                /\ vs = <<Jump("bl", d)>> \/ vs = LdrU64(Len(args), v) \o <<OnReg("blr", Len(args))>>
  BY <1>6, <1>7, <1>8 DEF CallAddress
<1>10. Sequence(us) /\ Sequence(vs)
  <2>1. Sequence(<<Jump("bl", d)>>) /\ Sequence(LdrU64(Len(args), v) \o <<OnReg("blr", Len(args))>>)
    BY One, LdrWords, CatSequence
  <2> QED
    BY <1>6, <1>7, <1>9, <2>1, CallWords
<1>11. IsCat(ws, us, vs)
  BY <1>9, <1>10, Cat
<1>12. Code(p, us) /\ Code(b, vs) /\ From(a + 2) = b + Len(vs) /\ b \in Nat
  <2>1. Code(p, us) /\ Code(b, vs) /\ p + Len(ws) = b + Len(vs)
    BY <1>c, <1>8, <1>10, <1>11, CodeCat
  <2> QED
    BY <1>3, <2>1 DEF Code
<1>13. Called(W, n, b, r, args, f, j, z)
  BY <1>6, <1>7, <1>8, <1>12, <1>p, ArgumentsDo
<1>14a. PICK i \in 0 .. 6 : \E q1 : W[n + i] = State(b, q1, f, j, z, "no") /\ SameRegs(PassedRegs(r, args), q1)
  BY <1>13 DEF Called
<1>14. PICK q1 : W[n + i] = State(b, q1, f, j, z, "no") /\ SameRegs(PassedRegs(r, args), q1)
  BY <1>14a
<1>15. PICK y, r1 : y = Address(pc + From(a + 2)) /\ r1 = PassedRegs(r, args)
  OBVIOUS
<1>16. PICK r2 : r2 = Set(r1, 30, <<"stmt", a + 1>>)
  OBVIOUS
<1>17. Perform(s) = Transfer(State(a, r2, f, k, z, "no"), v)
  <2>1. Perform(s) = Calls(Passed(s, args), v)
    BY <1>5, <1>7, <1>s DEF Perform
  <2>2. DOMAIN r = AllRegs
    BY <1>1 DEF SameRegs
  <2>3. Passed(s, args) = State(a, r1, f, k, z, "no")
    BY <1>15, <1>s, <2>2, PassedState
  <2>4. Next1(State(a, r1, f, k, z, "no")) = <<"stmt", a + 1>>
    BY Fields DEF Next1
  <2>5. Calls(State(a, r1, f, k, z, "no"), v) = Transfer(With(State(a, r1, f, k, z, "no"), 30, <<"stmt", a + 1>>), v)
    BY <2>4 DEF Calls
  <2>6. With(State(a, r1, f, k, z, "no"), 30, <<"stmt", a + 1>>) = State(a, r2, f, k, z, "no")
    BY <1>16, WithState
  <2> QED
    BY <2>1, <2>3, <2>5, <2>6
<1>18. SameRegs(r1, q1) /\ Stands(k, j) /\ a \in Nat /\ a < Len(script) /\ DOMAIN q1 = AllRegs
  BY <1>1, <1>14, <1>15 DEF SameRegs
<1>19. 30 \in AllRegs /\ X \subseteq AllRegs /\ 30 \notin X
  BY DEF AllRegs, X
<1>20. CASE vs = <<Jump("bl", d)>>
  <2>1. Len(vs) = 1 /\ vs[1] = Jump("bl", d)
    BY <1>20, One
  <2>2. b \in Nat /\ b < Len(buf) /\ buf[b + 1] = Jump("bl", d)
    <3>1. Code(b, vs) /\ Len(vs) > 0
      BY <1>12, <2>1
    <3> QED
      BY <2>1, <3>1, FetchedFirst
  <2>3. pc + b + 1 = pc + From(a + 2)
    BY <1>1, <1>12, <2>1
  <2>4. pc + b + d = t
    <3>1. t \in Nat /\ p \in Nat /\ Len(us) \in Nat
      BY <1>10, <1>12, CodeAssumption, Indexed DEF Code
    <3> QED
      BY <1>1, <1>8, <3>1
  <2>5. PICK q2 : q2 = Set(q1, 30, y)
    OBVIOUS
  <2>6. NextWord(State(b, q1, f, j, z, "no")) = Transfer(State(b, q2, f, j, z, "no"), v)
    <3>1. NextWord(State(b, q1, f, j, z, "no"))
            = Transfer(State(b, Set(q1, 30, Address(pc + b + 1)), f, j, z, "no"), Address(pc + b + d))
      BY <1>1, <2>2, JumpLinkStep
    <3> QED
      BY <1>7, <1>15, <2>3, <2>4, <2>5, <3>1
  <2>7. W[n + (i + 1)] = NextWord(State(b, q1, f, j, z, "no")) /\ i + 1 \in 0 .. 9
    <3>1. i \in 0 .. 8
      OBVIOUS
    <3> QED
      BY <1>1, <1>2, <1>14, <3>1, WordOn
  <2>8. DOMAIN q2 = AllRegs /\ q2[30] = y /\ \A x \in X : q2[x] = q1[x]
    BY <1>18, <1>19, <2>5, SetAt
  <2>9. \A x \in 0 .. Count(v) - 1 : q2[x] = q1[x]
    BY <2>8, CountFew
  <2>10. Matches(Transfer(State(a, r2, f, k, z, "no"), v), Transfer(State(b, q2, f, j, z, "no"), v))
    BY <1>7, <1>15, <1>16, <1>18, <2>8, <2>9, CallMatches
  <2>11. Matches(Perform(s), W[n + (i + 1)])
    BY <1>17, <2>6, <2>7, <2>10
  <2> QED
    BY <2>7, <2>11, <1>s DEF Reaches
<1>21. CASE vs = LdrU64(Len(args), v) \o <<OnReg("blr", Len(args))>>
  <2>1. PICK c \in X : c = Len(args)
    BY <1>6, ArgumentLists DEF X
  <2>2. PICK ls, cs : ls = LdrU64(c, v) /\ cs = <<OnReg("blr", c)>>
    OBVIOUS
  <2>3. Sequence(ls) /\ Sequence(cs) /\ Len(ls) = 4
    <3>1. Sequence(ls) /\ Len(ls) = 4
      <4>1. Sequence(LdrU64(c, v)) /\ Len(LdrU64(c, v)) = 4
        BY LdrWords
      <4> QED
        BY <2>2, <4>1
    <3>2. Sequence(cs)
      BY <2>2, One
    <3> QED
      BY <3>1, <3>2
  <2>4. Len(cs) = 1 /\ cs[1] = OnReg("blr", c)
    BY <2>2, One
  <2>5. vs = ls \o cs
    BY <1>21, <2>1, <2>2
  <2>6. IsCat(vs, ls, cs)
    BY <2>3, <2>5, Cat
  <2>7. PICK o : o = b + Len(ls)
    OBVIOUS
  <2>8. Code(b, ls) /\ Code(o, cs) /\ b + Len(vs) = o + Len(cs)
    <3>1. Code(b, vs) /\ Sequence(ls) /\ Sequence(cs)
      BY <1>12, <2>3
    <3> QED
      BY <2>6, <2>7, <3>1, CodeCat
  <2>9. o = b + 4 /\ o \in Nat /\ From(a + 2) = o + 1
    BY <1>12, <2>3, <2>4, <2>7, <2>8
  <2>10. o < Len(buf) /\ buf[o + 1] = OnReg("blr", c)
    <3>1. Code(o, cs) /\ Len(cs) > 0
      BY <2>4, <2>8
    <3> QED
      BY <2>4, <3>1, FetchedFirst
  <2>11. PICK q2, q3 : q2 = Set(q1, c, v) /\ q3 = Set(q2, 30, y)
    OBVIOUS
  <2>12. NextWord(NextWord(State(b, q1, f, j, z, "no"))) = State(o, q2, f, j, z, "no")
    <3>1. NextWord(NextWord(State(b, q1, f, j, z, "no"))) = State(b + 4, Set(q1, c, v), f, j, z, "no")
      BY <1>1, <2>2, <2>8, LoadRuns
    <3> QED
      BY <2>9, <2>11, <3>1
  <2>13. c \in AllRegs /\ c # 30 /\ c \in Nat
    BY DEF AllRegs, X
  <2>14. DOMAIN q2 = AllRegs /\ q2[c] = v /\ \A x \in AllRegs : x # c => q2[x] = q1[x]
    <3>1. DOMAIN q1 = AllRegs /\ c \in AllRegs
      BY <1>18, <2>13
    <3> QED
      BY <2>11, <3>1, SetAt
  <2>15. DOMAIN q3 = AllRegs /\ q3[30] = y /\ \A x \in AllRegs : x # 30 => q3[x] = q2[x]
    BY <1>19, <2>11, <2>14, SetAt
  <2>16. NextWord(State(o, q2, f, j, z, "no")) = Transfer(State(o, q3, f, j, z, "no"), v)
    <3>1. NextWord(State(o, q2, f, j, z, "no"))
            = Transfer(State(o, Set(q2, 30, Address(pc + o + 1)), f, j, z, "no"), q2[c])
      BY <1>1, <2>9, <2>10, BlrStep
    <3>2. pc + o + 1 = pc + From(a + 2)
      BY <1>1, <2>9
    <3> QED
      BY <1>15, <2>11, <2>14, <3>1, <3>2
  <2>17. W[n + (i + 3)] = Transfer(State(o, q3, f, j, z, "no"), v) /\ i + 3 \in 0 .. 9
    <3>1. i \in 0 .. 8 /\ i + 1 \in 0 .. 8 /\ (i + 1) + 1 \in 0 .. 8 /\ ((i + 1) + 1) + 1 = i + 3
      OBVIOUS
    <3>2. W[n + (i + 1)] = NextWord(State(b, q1, f, j, z, "no"))
      BY <1>1, <1>2, <1>14, <3>1, WordOn
    <3>3. W[n + ((i + 1) + 1)] = State(o, q2, f, j, z, "no")
      BY <1>1, <1>2, <2>12, <3>1, <3>2, WordOn
    <3>4. W[n + (((i + 1) + 1) + 1)] = Transfer(State(o, q3, f, j, z, "no"), v)
      BY <1>1, <1>2, <2>16, <3>1, <3>3, WordOn
    <3> QED
      BY <3>1, <3>4
  <2>18. \A x \in 0 .. Count(v) - 1 : q3[x] = q1[x]
    <3>1. Count(v) = c
      BY <1>6, <1>7, <2>1 DEF Count, Address
    <3>2. \A x \in 0 .. Count(v) - 1 : x # c /\ x \in X
      BY <2>13, <3>1, CountFew
    <3>3. \A x \in X : x \in AllRegs /\ x # 30
      BY <1>19
    <3> QED
      BY <2>14, <2>15, <3>2, <3>3
  <2>19. Matches(Transfer(State(a, r2, f, k, z, "no"), v), Transfer(State(o, q3, f, j, z, "no"), v))
    BY <1>7, <1>15, <1>16, <1>18, <2>15, <2>18, CallMatches
  <2>20. Matches(Perform(s), W[n + (i + 3)])
    BY <1>17, <2>17, <2>19
  <2> QED
    BY <2>17, <2>20, <1>s DEF Reaches
<1> QED
  BY <1>9, <1>20, <1>21

-----------------------------------------------------------------------------
(* Whole runs *)

\* Each statement is done by its words.
LEMMA StatementDoes ==
  ASSUME Sound, NEW W, NEW n, NEW a, NEW r, NEW q, NEW f, NEW k, NEW j, NEW z,
         Ready(W, n, a, r, q, f, k, j, z)
  PROVE  Reaches(W, n, Perform(State(a, r, f, k, z, "no")))
<1>1. PICK ws : Spells(script[a + 1], pc + From(a + 1), ws)
  BY Begun
<1>2. PICK op : op = script[a + 1].op
  OBVIOUS
<1>3. op \in {"label", "b", "bl", "test", "ldr", "ldr_ref", "value", "push",
            "pop", "push_all", "pop_all", "ret", "call", "call_reg", "exit", "orig"}
  BY <1>1, <1>2 DEF Spells
<1>4. CASE op = "label"
  BY <1>2, <1>4, LabelDoes
<1>5. CASE op = "b"
  BY <1>2, <1>5, BranchDoes
<1>6. CASE op = "bl"
  BY <1>2, <1>6, BranchLinkDoes
<1>7. CASE op = "test"
  BY <1>2, <1>7, TestDoes
<1>8. CASE op = "ldr"
  BY <1>2, <1>8, LdrDoes
<1>9. CASE op = "ldr_ref"
  BY <1>2, <1>9, LdrRefDoes
<1>10. CASE op = "value"
  BY <1>2, <1>10, ValueDoes
<1>11. CASE op = "push"
  BY <1>2, <1>11, PushDoes
<1>12. CASE op = "pop"
  BY <1>2, <1>12, PopDoes
<1>13. CASE op = "push_all"
  BY <1>2, <1>13, PushAllDoes
<1>14. CASE op = "pop_all"
  BY <1>2, <1>14, PopAllDoes
<1>15. CASE op = "ret"
  BY <1>2, <1>15, RetDoes
<1>16. CASE op = "call"
  BY <1>2, <1>16, CallDoes
<1>17. CASE op = "call_reg"
  BY <1>2, <1>17, CallRegDoes
<1>18. CASE op = "exit"
  BY <1>2, <1>18, ExitDoes
<1>19. CASE op = "orig"
  BY <1>2, <1>19, OriginalDoes
<1> QED
  BY <1>3, <1>4, <1>5, <1>6, <1>7, <1>8, <1>9, <1>10, <1>11, <1>12, <1>13, <1>14, <1>15, <1>16, <1>17, <1>18, <1>19

\* At the end both stop.
LEMMA AtEnd ==
  ASSUME Layout, NEW a, a = Len(script), NEW r, NEW q, SameRegs(r, q), NEW f, NEW k, NEW j, NEW z
  PROVE  Done(NextStatement(State(a, r, f, k, z, "no")), NextWord(State(From(a + 1), q, f, j, z, "no")))
<1>1. From(a + 1) = Len(buf)
  BY WithinBuffer
<1>2. PICK b : b = From(a + 1)
  OBVIOUS
<1>3. NextStatement(State(a, r, f, k, z, "no")) = State(a, r, f, k, z, "off")
  <2>1. NextStatement(State(a, r, f, k, z, "no")) = Stop(State(a, r, f, k, z, "no"), "off")
    BY Fields DEF NextStatement
  <2> QED
    BY <2>1, StopState
<1>4. NextWord(State(b, q, f, j, z, "no")) = State(b, q, f, j, z, "off")
  <2>1. NextWord(State(b, q, f, j, z, "no")) = Stop(State(b, q, f, j, z, "no"), "off")
    BY <1>1, <1>2, Fields DEF NextWord
  <2> QED
    BY <2>1, StopState
<1>5. \A x \in X : r[x] = q[x]
  BY DEF SameRegs
<1>6. Done(State(a, r, f, k, z, "off"), State(b, q, f, j, z, "off"))
  BY <1>5 DEF Done
<1> QED
  BY <1>2, <1>3, <1>4, <1>6

\* Whatever both sides are, after one statement some of the next nine words leave them
\* so.
LEMMA StatementMatches ==
  ASSUME Sound, NEW W, NEW n \in Nat, \A i \in n .. n + 8 : W[i + 1] = NextWord(W[i]),
         NEW s, Matches(s, W[n])
  PROVE  Reaches(W, n, NextStatement(s))
<1>0. n + 0 = n /\ 0 \in 0 .. 9 /\ 1 \in 0 .. 9
  OBVIOUS
<1>1. CASE Wrong(s)
  <2>1. s.end # "no"
    BY <1>1 DEF Wrong
  <2>2. NextStatement(s) = s
    BY <2>1 DEF NextStatement
  <2>3. Matches(s, W[n + 0])
    BY <1>1 DEF Matches
  <2> QED
    BY <1>0, <2>2, <2>3 DEF Reaches
<1>2. CASE Done(s, W[n])
  <2>1a. PICK e \in {"off", "returned"} : \E a, r, f, k, z : s = State(a, r, f, k, z, e)
    BY <1>2 DEF Done
  <2>1. PICK a, r, f, k, z : s = State(a, r, f, k, z, e)
    BY <2>1a
  <2>2. s.end # "no"
    BY <2>1, Fields
  <2>3. NextStatement(s) = s
    BY <2>2 DEF NextStatement
  <2>4. Matches(s, W[n + 0])
    BY <1>0, <1>2 DEF Matches
  <2> QED
    BY <1>0, <2>3, <2>4 DEF Reaches
<1>3. CASE Alike(s, W[n])
  <2>1a. PICK a \in 0 .. Len(script) : \E r, q, f, k, j, z :
          /\ s = State(a, r, f, k, z, "no") /\ W[n] = State(From(a + 1), q, f, j, z, "no")
          /\ SameRegs(r, q) /\ Plain(f) /\ Stands(k, j)
    BY <1>3 DEF Alike
  <2>1. PICK r, q, f, k, j, z :
          /\ s = State(a, r, f, k, z, "no") /\ W[n] = State(From(a + 1), q, f, j, z, "no")
          /\ SameRegs(r, q) /\ Plain(f) /\ Stands(k, j)
    BY <2>1a
  <2>2. Layout
    BY DEF Sound, CodeInv
  <2>3. Len(script) \in Nat
    BY <2>2, WithinBuffer
  <2>4. CASE a = Len(script)
    <3>1. n \in n .. n + 8
      OBVIOUS
    <3>2. W[n + 1] = NextWord(W[n])
      BY <3>1
    <3>3. Done(NextStatement(State(a, r, f, k, z, "no")), NextWord(State(From(a + 1), q, f, j, z, "no")))
      BY <2>1, <2>2, <2>4, AtEnd
    <3>4. Matches(NextStatement(s), W[n + 1])
      BY <2>1, <3>2, <3>3 DEF Matches
    <3> QED
      BY <1>0, <3>4 DEF Reaches
  <2>5. CASE a # Len(script)
    <3>1. a \in Nat /\ a < Len(script)
      BY <2>3, <2>5
    <3>2. Ready(W, n, a, r, q, f, k, j, z)
      BY <2>1, <3>1 DEF Ready
    <3>3. s.end = "no" /\ s.at = a
      BY <2>1, Fields
    <3>4. NextStatement(s) = Perform(s)
      BY <2>5, <3>3 DEF NextStatement
    <3>5. Reaches(W, n, Perform(State(a, r, f, k, z, "no")))
      BY <3>2, StatementDoes
    <3> QED
      BY <2>1, <3>4, <3>5
  <2> QED
    BY <2>4, <2>5
<1> QED
  BY <1>1, <1>2, <1>3 DEF Matches

\* g are the first n steps of the run of the words from f.
RunWords(g, f, n) ==
  g = [i \in 0 .. n |-> IF i = 0 THEN Start(f) ELSE NextWord(g[i - 1])]

\* A run, step by step.
LEMMA WordsRun ==
  ASSUME NEW g, NEW f, NEW n \in Nat, RunWords(g, f, n)
  PROVE  /\ DOMAIN g = 0 .. n
         /\ \A i \in 0 .. n : g[i] = IF i = 0 THEN Start(f) ELSE NextWord(g[i - 1])
<1>1. g = [i \in 0 .. n |-> IF i = 0 THEN Start(f) ELSE NextWord(g[i - 1])]
  BY DEF RunWords
<1>2. PICK e : e = [i \in 0 .. n |-> IF i = 0 THEN Start(f) ELSE NextWord(g[i - 1])]
  OBVIOUS
<1>3. DOMAIN e = 0 .. n /\ \A i \in 0 .. n : e[i] = IF i = 0 THEN Start(f) ELSE NextWord(g[i - 1])
  BY <1>2
<1>4. g = e
  BY <1>1, <1>2
<1> QED
  BY <1>3, <1>4

\* There is a run of any length.
LEMMA WordsExist ==
  ASSUME NEW f, NEW n \in Nat
  PROVE  \E g : RunWords(g, f, n)
<1> DEFINE Bad == {m \in Nat : ~ \E g : RunWords(g, f, m)}
<1>1. SUFFICES ASSUME Bad # {} PROVE FALSE
  OBVIOUS
<1>2. PICK m \in Bad : \A k \in Bad : m <= k
  <2>1. Bad \in SUBSET Nat
    OBVIOUS
  <2> HIDE DEF Bad
  <2> QED
    BY <1>1, <2>1, Least
<1>3. m \in Nat /\ ~ \E g : RunWords(g, f, m)
  OBVIOUS
<1>4. CASE m = 0
  <2>1. PICK g : g = [i \in 0 .. 0 |-> Start(f)]
    OBVIOUS
  <2>2. DOMAIN g = 0 .. 0 /\ \A i \in 0 .. 0 : g[i] = IF i = 0 THEN Start(f) ELSE NextWord(g[i - 1])
    BY <2>1
  <2>3. g = [i \in 0 .. 0 |-> IF i = 0 THEN Start(f) ELSE NextWord(g[i - 1])]
    BY <2>1, <2>2
  <2> QED
    BY <1>3, <1>4, <2>3 DEF RunWords
<1>5. CASE m # 0
  <2>1. PICK k : k = m - 1
    OBVIOUS
  <2>2. k \in Nat /\ ~ m <= k
    BY <1>3, <1>5, <2>1
  <2>3. k \notin Bad
    BY <1>2, <2>2
  <2>4. PICK h : RunWords(h, f, k)
    BY <2>2, <2>3
  <2>5. DOMAIN h = 0 .. k /\ \A i \in 0 .. k : h[i] = IF i = 0 THEN Start(f) ELSE NextWord(h[i - 1])
    BY <2>2, <2>4, WordsRun
  <2>6. PICK v : v = NextWord(h[k])
    OBVIOUS
  <2>7. PICK g : g = [i \in 0 .. m |-> IF i = m THEN v ELSE h[i]]
    OBVIOUS
  <2>8. /\ \A i \in 0 .. k : i \in 0 .. m /\ i # m
        /\ m \in 0 .. m /\ k \in 0 .. k
    BY <1>3, <2>1, <2>2
  <2>9. g[m] = v /\ \A i \in 0 .. k : g[i] = h[i]
    BY <2>7, <2>8
  <2>10. ASSUME NEW i \in 0 .. m PROVE g[i] = IF i = 0 THEN Start(f) ELSE NextWord(g[i - 1])
    <3>1. CASE i = m
      BY <1>5, <2>1, <2>6, <2>8, <2>9, <3>1
    <3>2. CASE i # m
      <4>1. i \in 0 .. k /\ (i # 0 => i - 1 \in 0 .. k)
        BY <1>3, <2>1, <3>2
      <4>2. h[i] = IF i = 0 THEN Start(f) ELSE NextWord(h[i - 1])
        BY <2>5, <4>1
      <4>3. g[i] = h[i] /\ (i # 0 => g[i - 1] = h[i - 1])
        BY <2>9, <4>1
      <4> QED
        BY <4>2, <4>3
    <3> QED
      BY <3>1, <3>2
  <2>11. g = [i \in 0 .. m |-> IF i = 0 THEN Start(f) ELSE NextWord(g[i - 1])]
    BY <2>7, <2>10
  <2> QED
    BY <1>3, <2>11 DEF RunWords
<1> QED
  BY <1>4, <1>5

\* g are the first n steps of the run of the statements from f.
RunStatements(g, f, n) ==
  g = [i \in 0 .. n |-> IF i = 0 THEN Start(f) ELSE NextStatement(g[i - 1])]

\* A run, step by step.
LEMMA StatementsRun ==
  ASSUME NEW g, NEW f, NEW n \in Nat, RunStatements(g, f, n)
  PROVE  /\ DOMAIN g = 0 .. n
         /\ \A i \in 0 .. n : g[i] = IF i = 0 THEN Start(f) ELSE NextStatement(g[i - 1])
<1>1. g = [i \in 0 .. n |-> IF i = 0 THEN Start(f) ELSE NextStatement(g[i - 1])]
  BY DEF RunStatements
<1>2. PICK e : e = [i \in 0 .. n |-> IF i = 0 THEN Start(f) ELSE NextStatement(g[i - 1])]
  OBVIOUS
<1>3. DOMAIN e = 0 .. n /\ \A i \in 0 .. n : e[i] = IF i = 0 THEN Start(f) ELSE NextStatement(g[i - 1])
  BY <1>2
<1>4. g = e
  BY <1>1, <1>2
<1> QED
  BY <1>3, <1>4

\* There is a run of any length.
LEMMA StatementsExist ==
  ASSUME NEW f, NEW n \in Nat
  PROVE  \E g : RunStatements(g, f, n)
<1> DEFINE Bad == {m \in Nat : ~ \E g : RunStatements(g, f, m)}
<1>1. SUFFICES ASSUME Bad # {} PROVE FALSE
  OBVIOUS
<1>2. PICK m \in Bad : \A k \in Bad : m <= k
  <2>1. Bad \in SUBSET Nat
    OBVIOUS
  <2> HIDE DEF Bad
  <2> QED
    BY <1>1, <2>1, Least
<1>3. m \in Nat /\ ~ \E g : RunStatements(g, f, m)
  OBVIOUS
<1>4. CASE m = 0
  <2>1. PICK g : g = [i \in 0 .. 0 |-> Start(f)]
    OBVIOUS
  <2>2. DOMAIN g = 0 .. 0 /\ \A i \in 0 .. 0 : g[i] = IF i = 0 THEN Start(f) ELSE NextStatement(g[i - 1])
    BY <2>1
  <2>3. g = [i \in 0 .. 0 |-> IF i = 0 THEN Start(f) ELSE NextStatement(g[i - 1])]
    BY <2>1, <2>2
  <2> QED
    BY <1>3, <1>4, <2>3 DEF RunStatements
<1>5. CASE m # 0
  <2>1. PICK k : k = m - 1
    OBVIOUS
  <2>2. k \in Nat /\ ~ m <= k
    BY <1>3, <1>5, <2>1
  <2>3. k \notin Bad
    BY <1>2, <2>2
  <2>4. PICK h : RunStatements(h, f, k)
    BY <2>2, <2>3
  <2>5. DOMAIN h = 0 .. k /\ \A i \in 0 .. k : h[i] = IF i = 0 THEN Start(f) ELSE NextStatement(h[i - 1])
    BY <2>2, <2>4, StatementsRun
  <2>6. PICK v : v = NextStatement(h[k])
    OBVIOUS
  <2>7. PICK g : g = [i \in 0 .. m |-> IF i = m THEN v ELSE h[i]]
    OBVIOUS
  <2>8. /\ \A i \in 0 .. k : i \in 0 .. m /\ i # m
        /\ m \in 0 .. m /\ k \in 0 .. k
    BY <1>3, <2>1, <2>2
  <2>9. g[m] = v /\ \A i \in 0 .. k : g[i] = h[i]
    BY <2>7, <2>8
  <2>10. ASSUME NEW i \in 0 .. m PROVE g[i] = IF i = 0 THEN Start(f) ELSE NextStatement(g[i - 1])
    <3>1. CASE i = m
      BY <1>5, <2>1, <2>6, <2>8, <2>9, <3>1
    <3>2. CASE i # m
      <4>1. i \in 0 .. k /\ (i # 0 => i - 1 \in 0 .. k)
        BY <1>3, <2>1, <3>2
      <4>2. h[i] = IF i = 0 THEN Start(f) ELSE NextStatement(h[i - 1])
        BY <2>5, <4>1
      <4>3. g[i] = h[i] /\ (i # 0 => g[i - 1] = h[i - 1])
        BY <2>9, <4>1
      <4> QED
        BY <4>2, <4>3
    <3> QED
      BY <3>1, <3>2
  <2>11. g = [i \in 0 .. m |-> IF i = 0 THEN Start(f) ELSE NextStatement(g[i - 1])]
    BY <2>7, <2>10
  <2> QED
    BY <1>3, <2>11 DEF RunStatements
<1> QED
  BY <1>4, <1>5

\* Words is the end of a run.
LEMMA WordsAre ==
  ASSUME NEW f
  PROVE  \E g : RunWords(g, f, 9 * (MaxRun + 1)) /\ Words(f) = g[9 * (MaxRun + 1)]
<1>1. PICK n \in Nat : n = 9 * (MaxRun + 1)
  BY CodeAssumption
<1>2. \E g : RunWords(g, f, n)
  BY WordsExist
<1> DEFINE run == CHOOSE g : g = [i \in 0 .. n |-> IF i = 0 THEN Start(f) ELSE NextWord(g[i - 1])]
<1>3. RunWords(run, f, n)
  BY <1>2 DEF RunWords
<1>4. Words(f) = run[n]
  BY <1>1 DEF Words, MaxWords
<1> HIDE DEF run
<1> QED
  BY <1>1, <1>3, <1>4

\* Statements is the end of a run.
LEMMA StatementsAre ==
  ASSUME NEW f
  PROVE  \E g : RunStatements(g, f, MaxRun) /\ Statements(f) = g[MaxRun]
<1>1. PICK n \in Nat : n = MaxRun
  BY CodeAssumption
<1>2. \E g : RunStatements(g, f, n)
  BY StatementsExist
<1> DEFINE run == CHOOSE g : g = [i \in 0 .. n |-> IF i = 0 THEN Start(f) ELSE NextStatement(g[i - 1])]
<1>3. RunStatements(run, f, n)
  BY <1>2 DEF RunStatements
<1>4. Statements(f) = run[n]
  BY <1>1 DEF Statements
<1> HIDE DEF run
<1> QED
  BY <1>1, <1>3, <1>4

\* Both sides start alike.
LEMMA Outset ==
  ASSUME Layout, NEW f
  PROVE  Alike(Start(f), Start(f))
<1>1. PICK r : r = [x \in AllRegs |-> Held(x)]
  OBVIOUS
<1>2. Start(f) = State(0, r, Flags(f), << >>, << >>, "no")
  BY <1>1 DEF Start, State, AllRegs
<1>3. X \subseteq AllRegs /\ 30 \in AllRegs /\ 30 \notin X
  BY DEF AllRegs, X
<1>4. ASSUME NEW x \in X PROVE Plain(r[x])
  <2>1. r[x] = Held(x) /\ x # 30
    BY <1>1, <1>3
  <2> QED
    BY <2>1 DEF Plain, Held
<1>5. SameRegs(r, r)
  <2>1. DOMAIN r = AllRegs
    BY <1>1
  <2>2. r[30] = Held(30)
    BY <1>1, <1>3
  <2>3. Links(r[30], r[30])
    BY <2>2 DEF Links
  <2> QED
    BY <1>4, <2>1, <2>3 DEF SameRegs
<1>6. Plain(Flags(f))
  BY DEF Plain, Flags, Held
<1>7. Stands(<< >>, << >>)
  <2>1. PICK e : e = << >>
    OBVIOUS
  <2>2. Sequence(e) /\ Len(e) = 0
    BY <2>1, Empty
  <2>3. PICK h : h = [i \in 0 .. 0 |-> 0]
    OBVIOUS
  <2>4. h \in [0 .. 0 -> Nat] /\ h[0] = 0
    BY <2>3
  <2>5. \A a, b \in 0 .. 0 : a <= b => h[a] <= h[b]
    BY <2>4
  <2>6. \A n \in 1 .. 0 : Frame(e[n], e, h[n - 1], h[n])
    OBVIOUS
  <2>7. Heights(h, e, e)
    BY <2>2, <2>4, <2>5, <2>6 DEF Heights
  <2> QED
    BY <2>1, <2>2, <2>7 DEF Stands
<1>8. From(0 + 1) = 0
  BY DEF Layout
<1>9. 0 \in 0 .. Len(script)
  BY WithinBuffer
<1>10. PICK g, e : g = Flags(f) /\ e = << >>
  OBVIOUS
<1>11. Alike(State(0, r, g, e, e, "no"), State(From(0 + 1), r, g, e, e, "no"))
  BY <1>5, <1>6, <1>7, <1>9, <1>10 DEF Alike
<1> QED
  BY <1>2, <1>8, <1>10, <1>11

\* After n statements, some of the first 9 * n words: the same.
LEMMA RunsMatch ==
  ASSUME Sound, NEW f, NEW M \in Nat, NEW N \in Nat, N = 9 * (M + 1),
         NEW W, RunWords(W, f, N), NEW S, RunStatements(S, f, M), NEW n \in 0 .. M
  PROVE  \E m \in 0 .. 9 * n : Matches(S[n], W[m])
<1>1. DOMAIN W = 0 .. N /\ \A i \in 0 .. N : W[i] = IF i = 0 THEN Start(f) ELSE NextWord(W[i - 1])
  BY WordsRun
<1>2. DOMAIN S = 0 .. M /\ \A i \in 0 .. M : S[i] = IF i = 0 THEN Start(f) ELSE NextStatement(S[i - 1])
  BY StatementsRun
<1> DEFINE Bad == {i \in 0 .. M : ~ \E m \in 0 .. 9 * i : Matches(S[i], W[m])}
<1>3. SUFFICES ASSUME Bad # {} PROVE FALSE
  OBVIOUS
<1>4. PICK i \in Bad : \A k \in Bad : i <= k
  <2>1. Bad \in SUBSET Nat
    OBVIOUS
  <2> HIDE DEF Bad
  <2> QED
    BY <1>3, <2>1, Least
<1>5. i \in 0 .. M /\ ~ \E m \in 0 .. 9 * i : Matches(S[i], W[m])
  OBVIOUS
<1>6. CASE i = 0
  <2>1. 0 \in 0 .. M /\ 0 \in 0 .. N /\ 0 \in 0 .. 9 * 0
    OBVIOUS
  <2>2. S[0] = Start(f) /\ W[0] = Start(f)
    BY <1>1, <1>2, <2>1
  <2>3. Alike(Start(f), Start(f))
    BY Outset DEF Sound, CodeInv
  <2>4. Matches(S[0], W[0])
    BY <2>2, <2>3 DEF Matches
  <2> QED
    BY <1>5, <1>6, <2>1, <2>4
<1>7. CASE i # 0
  <2>1. PICK k : k = i - 1
    OBVIOUS
  <2>2. k \in 0 .. M /\ ~ i <= k /\ i = k + 1
    BY <1>5, <1>7, <2>1
  <2>3. k \notin Bad
    BY <1>4, <2>2
  <2>4. PICK m \in 0 .. 9 * k : Matches(S[k], W[m])
    BY <2>2, <2>3
  <2>5. m \in Nat /\ m + 9 \in 0 .. N
    BY <2>2, <1>5
  <2>6. ASSUME NEW u \in m .. m + 8 PROVE W[u + 1] = NextWord(W[u])
    <3>1. u + 1 \in 0 .. N /\ u + 1 # 0 /\ (u + 1) - 1 = u
      BY <2>5
    <3> QED
      BY <1>1, <3>1
  <2>7. Reaches(W, m, NextStatement(S[k]))
    BY <2>4, <2>5, <2>6, StatementMatches
  <2>8. S[i] = NextStatement(S[k])
    BY <1>2, <1>5, <1>7, <2>1
  <2>9. PICK u \in 0 .. 9 : Matches(S[i], W[m + u])
    BY <2>7, <2>8 DEF Reaches
  <2>10. m + u \in 0 .. 9 * i
    BY <2>2
  <2> QED
    BY <1>5, <2>9, <2>10
<1> QED
  BY <1>6, <1>7

\* A run that has ended stays as it is.
LEMMA StaysEnded ==
  ASSUME NEW f, NEW N \in Nat, NEW W, RunWords(W, f, N), NEW m \in 0 .. N, W[m].end # "no"
  PROVE  W[N] = W[m]
<1>1. DOMAIN W = 0 .. N /\ \A i \in 0 .. N : W[i] = IF i = 0 THEN Start(f) ELSE NextWord(W[i - 1])
  BY WordsRun
<1> DEFINE Bad == {i \in m .. N : W[i] # W[m]}
<1>2. SUFFICES ASSUME Bad # {} PROVE FALSE
  <2>1. N \in m .. N
    OBVIOUS
  <2> QED
    BY <2>1
<1>3. PICK i \in Bad : \A k \in Bad : i <= k
  <2>1. Bad \in SUBSET Nat
    OBVIOUS
  <2> HIDE DEF Bad
  <2> QED
    BY <1>2, <2>1, Least
<1>4. i \in m .. N /\ W[i] # W[m]
  OBVIOUS
<1>5. i # m /\ i \in 0 .. N /\ i # 0
  BY <1>4
<1>6. PICK k : k = i - 1
  OBVIOUS
<1>7. k \in m .. N /\ ~ i <= k
  BY <1>4, <1>5, <1>6
<1>8. W[k] = W[m]
  BY <1>3, <1>7
<1>9. W[i] = NextWord(W[k])
  BY <1>1, <1>5, <1>6
<1>10. NextWord(W[m]) = W[m]
  BY DEF NextWord
<1> QED
  BY <1>4, <1>8, <1>9, <1>10

\* Done together, they have the same result.
LEMMA SameResult ==
  ASSUME NEW s, NEW w, Done(s, w)
  PROVE  Result(w) = Result(s) /\ w.end # "no"
<1>1a. PICK e \in {"off", "returned"} : \E a, b, r, q, f, k, j, z :
        /\ s = State(a, r, f, k, z, e) /\ w = State(b, q, f, j, z, e)
        /\ \A x \in X : r[x] = q[x]
  BY DEF Done
<1>1. PICK a, b, r, q, f, k, j, z :
        /\ s = State(a, r, f, k, z, e) /\ w = State(b, q, f, j, z, e)
        /\ \A x \in X : r[x] = q[x]
  BY <1>1a
<1>2. s.end = e /\ s.seen = z /\ s.flags = f /\ s.regs = r
  BY <1>1, Fields
<1>3. w.end = e /\ w.seen = z /\ w.flags = f /\ w.regs = q
  BY <1>1, Fields
<1>4. [x \in X |-> r[x]] = [x \in X |-> q[x]]
  BY <1>1
<1> QED
  BY <1>2, <1>3, <1>4 DEF Result

\* Where the statements come to an end, the words come to the same.
LEMMA CodeDoes ==
  ASSUME Sound, NEW f, Statements(f).end \in {"off", "returned"}
  PROVE  Result(Words(f)) = Result(Statements(f))
<1>1. PICK M \in Nat, N \in Nat : M = MaxRun /\ N = 9 * (M + 1)
  BY CodeAssumption
<1>2. PICK W : RunWords(W, f, N) /\ Words(f) = W[N]
  BY <1>1, WordsAre
<1>3. PICK S : RunStatements(S, f, M) /\ Statements(f) = S[M]
  BY <1>1, StatementsAre
<1>4. M \in 0 .. M
  OBVIOUS
<1>5. PICK m \in 0 .. 9 * M : Matches(S[M], W[m])
  BY <1>1, <1>2, <1>3, <1>4, RunsMatch
<1>6. ~ Wrong(S[M])
  BY <1>3 DEF Wrong
<1>7. ~ Alike(S[M], W[m])
  <2>1. ASSUME Alike(S[M], W[m]) PROVE FALSE
    <3>1. PICK a, r, g, k, z : S[M] = State(a, r, g, k, z, "no")
      BY <2>1 DEF Alike
    <3>2. S[M].end = "no"
      BY <3>1, Fields
    <3> QED
      BY <1>3, <3>2
  <2> QED
    BY <2>1
<1>8. Done(S[M], W[m])
  BY <1>5, <1>6, <1>7 DEF Matches
<1>9. Result(W[m]) = Result(S[M]) /\ W[m].end # "no"
  BY <1>8, SameResult
<1>10. m \in 0 .. N
  BY <1>1
<1>11. W[N] = W[m]
  BY <1>2, <1>9, <1>10, StaysEnded
<1> QED
  BY <1>2, <1>3, <1>9, <1>11

\* For every program, in every layout of it, and for every length of run: the code
\* a successful flush leaves in memory does what its statements say.
THEOREM CodeCorrect == CodeSpec => []DoesWhatItSays
<1>1. CodeInv => DoesWhatItSays
  <2> SUFFICES ASSUME CodeInv, flushed, ~ failed, OwnMemory, ~ FarTest,
                      \A i \in DOMAIN script : ~ Overwrites(script[i]),
                      NEW f \in {"eq", "ne"}, Statements(f).end \in {"off", "returned"}
               PROVE  Result(Words(f)) = Result(Statements(f))
    BY DEF DoesWhatItSays
  <2>1. Sound
    BY DEF Sound
  <2> QED
    BY <2>1, CodeDoes
<1> QED
  BY <1>1, CodeInvariance, PTL
=============================================================================
