-------------------------------- MODULE Cloak --------------------------------
(***************************************************************************)
(* The address ranges a script hides from what Process.enumerateRanges and *)
(* findRangeByAddress report, and the clipping of a range to what stays    *)
(* visible.  clip_range copies what it needs under the lock and goes on    *)
(* without it, while other threads hide and unhide ranges.  Addresses are  *)
(* those of a machine whose last one is Top, where Range::end saturates.   *)
(***************************************************************************)
EXTENDS Integers, Sequences

CONSTANTS
  Top,    \* u64::MAX
  MaxSize \* bound: the largest range a script hides

ASSUME CloakAssumption == Top \in Nat /\ MaxSize \in Nat

VARIABLES
  ranges,   \* Registry.ranges, a vector whose order no query sees
  clipping, \* clip_range of one thread: "idle", "gaps", or its answer, "none" or "some"
  asked,    \* the range it was called for
  hits,     \* the parts of it that are hidden, those not yet passed
  cursor, visible,
  seen      \* history: the registry when the hits were taken

cvars == <<ranges, clipping, asked, hits, cursor, visible, seen>>

Addresses == 0 .. Top
Span(base, size) == [base |-> base, size |-> size]
Spans == [base : Addresses, size : 0 .. MaxSize]
End(r) == IF r.base + r.size > Top THEN Top ELSE r.base + r.size
Holds(r, a) == a \in r.base .. End(r) - 1
Overlaps(r, s) == r.base < End(s) /\ s.base < End(r)
Adjoins(r, s) == End(r) = s.base \/ End(s) = r.base

CloakInit ==
  /\ ranges = {} /\ clipping = "idle" /\ asked = Span(0, 0)
  /\ hits = {} /\ cursor = 0 /\ visible = << >> /\ seen = {}

-----------------------------------------------------------------------------
(* The registry *)

\* The ranges the new one meets are dropped, not joined to it.
AddRange(r) ==
  /\ r.size # 0
  /\ ranges' = {x \in ranges : ~ Overlaps(x, r) /\ ~ Adjoins(x, r)} \cup {r}
  /\ UNCHANGED <<clipping, asked, hits, cursor, visible, seen>>

RemoveRange(r) ==
  /\ ranges' = ranges \ {r}
  /\ UNCHANGED <<clipping, asked, hits, cursor, visible, seen>>

\* What enumerate_ranges and find_range_by_address ask of the registry rs.
HasRangeContaining(rs, a) == \E x \in rs : Holds(x, a)
RangeOverlapsCloaked(rs, r) == \E x \in rs : Overlaps(x, r)

-----------------------------------------------------------------------------
(* clip_range *)

\* The part of x inside r.
Cut(x, r) ==
  LET lo == IF x.base > r.base THEN x.base ELSE r.base
      hi == IF End(x) < End(r) THEN End(x) ELSE End(r)
  IN Span(lo, hi - lo)
Hits(rs, r) == {h \in {Cut(x, r) : x \in rs} : h.size > 0}

\* Under the lock.  Without a hit the range is entirely visible.
ClipStart(r) ==
  /\ clipping # "gaps"
  /\ asked' = r /\ seen' = ranges /\ hits' = Hits(ranges, r)
  /\ clipping' = IF Hits(ranges, r) = {} THEN "none" ELSE "gaps"
  /\ cursor' = r.base /\ visible' = << >>
  /\ UNCHANGED ranges

Gap(to) == IF cursor < to THEN <<Span(cursor, to - cursor)>> ELSE << >>

\* Mutant: the hits come in the order they were hidden in, that is, any.
AnyOrder(c) == TRUE
\* sort_by_key
Sorted(c) == \A d \in hits : c.base <= d.base

\* The next hit: what lies before it is visible.
ClipHit ==
  /\ clipping = "gaps"
  /\ \E c \in hits :
       /\ Sorted(c)
       /\ visible' = visible \o Gap(c.base)
       /\ cursor' = IF End(c) > cursor THEN End(c) ELSE cursor
       /\ hits' = hits \ {c}
  /\ UNCHANGED <<ranges, clipping, asked, seen>>

\* What lies behind the last.
ClipEnd ==
  /\ clipping = "gaps" /\ hits = {}
  /\ visible' = visible \o Gap(End(asked))
  /\ clipping' = "some"
  /\ UNCHANGED <<ranges, asked, hits, cursor, seen>>

CloakNext ==
  \/ \E r \in Spans : AddRange(r) \/ RemoveRange(r)
  \/ \E base \in Addresses, size \in Addresses : ClipStart(Span(base, size))
  \/ ClipHit \/ ClipEnd

CloakSpec == CloakInit /\ [][CloakNext]_cvars

-----------------------------------------------------------------------------

VisibleAddresses == {a \in Addresses : \E i \in DOMAIN visible : Holds(visible[i], a)}
UncloakedAddresses == {a \in Addresses : Holds(asked, a) /\ ~ HasRangeContaining(seen, a)}

\* clip_range agrees with the two other queries about the registry as it was when
\* the lock was held, whatever was hidden in whatever order and whatever is hidden
\* meanwhile: a range is entirely visible exactly if enumerate_ranges would list
\* it; else the fragments come in order, do not touch, and hold exactly the
\* addresses has_range_containing does not hide.  (range_overlaps_cloaked also finds
\* an empty range inside a hidden one; no mapping is empty.)
ClipExact ==
  /\ clipping = "none" =>
       /\ asked.size > 0 => ~ RangeOverlapsCloaked(seen, asked)
       /\ \A a \in Addresses : Holds(asked, a) => ~ HasRangeContaining(seen, a)
  /\ clipping = "some" =>
       /\ RangeOverlapsCloaked(seen, asked)
       /\ VisibleAddresses = UncloakedAddresses
       /\ \A i \in 1 .. Len(visible) - 1 : End(visible[i]) < visible[i + 1].base
=============================================================================
