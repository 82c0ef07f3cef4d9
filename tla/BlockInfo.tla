----------------------------- MODULE BlockInfo -----------------------------
(***************************************************************************)
(* Intervals of shared memory and the pair of interval sets the barrier     *)
(* analysis carries through a function: the reads and the writes that no    *)
(* barrier has separated from the current operation yet.                    *)
(***************************************************************************)
EXTENDS Naturals, TLAPS

\* The half-open interval [start, end) of byte offsets a buffer was given;
\* the constructor asserts start <= end.
Interval == {iv \in [start : Nat, end : Nat] : iv.start <= iv.end}

\* Interval::contains.
Contains(iv, addr) == iv.start <= addr /\ addr < iv.end

\* Interval::intersects.
Intersects(p, q) == p.start < q.end /\ q.start < p.end

Info == [reads : SUBSET Interval, writes : SUBSET Interval]

NoInfo == [reads |-> {}, writes |-> {}]

\* BlockInfo::join.
Join(a, b) == [reads  |-> a.reads \cup b.reads,
               writes |-> a.writes \cup b.writes]

\* The private isIntersected: some interval of one set meets one of the other.
AnyIntersects(P, Q) == \E p \in P, q \in Q : Intersects(p, q)

\* A test that forgets the write-after-read case.
IsIntersectedNoWAR(a, b) == \/ AnyIntersects(a.writes, b.reads)
                            \/ AnyIntersects(a.writes, b.writes)

\* BlockInfo::isIntersected: read-after-write, write-after-read and
\* write-after-write.
IsIntersected(a, b) == \/ AnyIntersects(a.writes, b.reads)
                       \/ AnyIntersects(a.reads, b.writes)
                       \/ AnyIntersects(a.writes, b.writes)

\* a is contained in b, field by field.
Within(a, b) == a.reads \subseteq b.reads /\ a.writes \subseteq b.writes

-----------------------------------------------------------------------------
(***************************************************************************)
(* What the analysis is for, independently of how it tests intervals: two   *)
(* groups of accesses race when they touch one byte and one of them writes. *)
(***************************************************************************)
ShareByte(P, Q) ==
    \E p \in P, q \in Q : \E addr \in p.start..(p.end - 1) : Contains(q, addr)

Races(a, b) == \/ ShareByte(a.writes, b.reads)
               \/ ShareByte(a.reads, b.writes)
               \/ ShareByte(a.writes, b.writes)

-----------------------------------------------------------------------------
(* Facts about intervals and interval sets, for every set of intervals. *)

LEMMA NoInfoType == NoInfo \in Info
BY DEF NoInfo, Info

LEMMA JoinType ==
    ASSUME NEW a \in Info, NEW b \in Info
    PROVE  Join(a, b) \in Info
BY DEF Join, Info

LEMMA WithinReflexive == ASSUME NEW a PROVE Within(a, a)
BY DEF Within

LEMMA WithinTransitive ==
    ASSUME NEW a, NEW b, NEW c, Within(a, b), Within(b, c)
    PROVE  Within(a, c)
BY DEF Within

LEMMA NoInfoWithin == ASSUME NEW a PROVE Within(NoInfo, a)
BY DEF Within, NoInfo

LEMMA JoinBounds ==
    ASSUME NEW a, NEW b
    PROVE  Within(a, Join(a, b)) /\ Within(b, Join(a, b))
BY DEF Within, Join

LEMMA JoinMonotone ==
    ASSUME NEW a, NEW b, NEW c, Within(a, b)
    PROVE  Within(Join(a, c), Join(b, c))
BY DEF Within, Join

LEMMA NoInfoNeverIntersects ==
    ASSUME NEW a PROVE ~IsIntersected(NoInfo, a)
BY DEF IsIntersected, AnyIntersects, NoInfo

LEMMA IsIntersectedMonotone ==
    ASSUME NEW a, NEW b, NEW c, Within(a, b), ~IsIntersected(b, c)
    PROVE  ~IsIntersected(a, c)
BY DEF IsIntersected, AnyIntersects, Within

\* Two intervals that share a byte pass the comparison the code makes.
LEMMA SharedByteIntersects ==
    ASSUME NEW p \in Interval, NEW q \in Interval,
           NEW addr \in p.start..(p.end - 1), Contains(q, addr)
    PROVE  Intersects(p, q)
BY DEF Interval, Contains, Intersects

\* isIntersected misses no race.
LEMMA RaceIsIntersected ==
    ASSUME NEW a \in Info, NEW b \in Info, Races(a, b)
    PROVE  IsIntersected(a, b)
<1>1. ASSUME NEW P \in SUBSET Interval, NEW Q \in SUBSET Interval, ShareByte(P, Q)
      PROVE  AnyIntersects(P, Q)
  BY <1>1, SharedByteIntersects DEF ShareByte, AnyIntersects
<1>2. /\ a.reads \in SUBSET Interval /\ a.writes \in SUBSET Interval
      /\ b.reads \in SUBSET Interval /\ b.writes \in SUBSET Interval
  BY DEF Info
<1> QED
  BY <1>1, <1>2 DEF Races, IsIntersected

=============================================================================
