-------------------------- MODULE AllocationProofs --------------------------
(***************************************************************************)
(* Proofs about Allocation, for any number of buffers, sizes, alignments    *)
(* and live ranges: the packing of calculateStarts never runs out of        *)
(* triples, every round separates what interfered, offsets only grow, and   *)
(* the offsets the analysis returns with are a correct layout.              *)
(***************************************************************************)
EXTENDS Allocation, FiniteSetTheorems, WellFoundedInduction, TLAPS

-----------------------------------------------------------------------------
(* Arithmetic of alignTo. *)

LEMMA AlignToFacts ==
    ASSUME NEW off \in Nat, NEW al \in Nat \ {0}
    PROVE  /\ AlignTo(off, al) \in Nat
           /\ AlignTo(off, al) >= off
           /\ Layout!Aligned(AlignTo(off, al), al)
<1> DEFINE n == off + al - 1
           q == n \div al
<1>1. n \in Nat /\ al \in Nat /\ al > 0 /\ n = off + al - 1
  OBVIOUS
<1> HIDE DEF n
<1>2. q \in Nat /\ n < (q + 1) * al
  BY <1>1
<1> HIDE DEF q
<1>3. (q + 1) * al = q * al + al
  BY <1>1, <1>2
<1>4. q * al \in Nat /\ q * al >= off
  BY <1>1, <1>2, <1>3
<1>5. q <= q * al
  BY <1>1, <1>2
<1>6. AlignTo(off, al) = q * al
  BY DEF AlignTo, n, q
<1>7. q \in 0..(q * al)
  BY <1>2, <1>4, <1>5
<1>8. Layout!Aligned(q * al, al)
  BY <1>7 DEF Layout!Aligned
<1> QED
  BY <1>4, <1>6, <1>8

-----------------------------------------------------------------------------
(* Inserting into the multimap of triples. *)

Has(s, t) == \E k \in 1..Len(s) : s[k] = t

LEMMA InsertFacts ==
    ASSUME NEW T, NEW s \in Seq(T), NEW t \in T
    PROVE  /\ Insert(s, t) \in Seq(T)
           /\ Has(Insert(s, t), t)
           /\ \A j \in 1..Len(s) : Has(Insert(s, t), s[j])
<1> DEFINE K == {k \in 1..Len(s) : s[k].offset <= t.offset}
           n == Cardinality(K)
<1>1. n \in Nat /\ n <= Len(s) /\ Len(s) \in Nat
  <2>1. Len(s) \in Nat
    OBVIOUS
  <2>2. IsFiniteSet(1..Len(s)) /\ Cardinality(1..Len(s)) = Len(s)
    BY <2>1, FS_Interval
  <2>3. K \subseteq 1..Len(s)
    OBVIOUS
  <2> QED
    BY <2>1, <2>2, <2>3, FS_Subset, FS_CardinalityType
<1>2. Insert(s, t) = [k \in 1..(Len(s) + 1) |->
                        IF k <= n THEN s[k] ELSE IF k = n + 1 THEN t ELSE s[k - 1]]
  BY DEF Insert
<1> HIDE DEF n
<1>3. /\ Insert(s, t) \in Seq(T) /\ Len(Insert(s, t)) = Len(s) + 1
      /\ \A k \in 1..(Len(s) + 1) :
           Insert(s, t)[k] = IF k <= n THEN s[k] ELSE IF k = n + 1 THEN t ELSE s[k - 1]
  BY <1>1, <1>2
<1>4. n + 1 \in 1..Len(Insert(s, t)) /\ Insert(s, t)[n + 1] = t
  BY <1>1, <1>3
<1>5. ASSUME NEW j \in 1..Len(s)
      PROVE  Has(Insert(s, t), s[j])
  <2>1. CASE j <= n
    <3>1. j \in 1..Len(Insert(s, t)) /\ Insert(s, t)[j] = s[j]
      BY <1>1, <1>3, <2>1
    <3> QED  BY <3>1 DEF Has
  <2>2. CASE j > n
    <3>1. j + 1 \in 1..Len(Insert(s, t)) /\ Insert(s, t)[j + 1] = s[j]
      BY <1>1, <1>3, <2>2
    <3> QED  BY <3>1 DEF Has
  <2> QED  BY <1>1, <2>1, <2>2
<1> QED
  BY <1>3, <1>4, <1>5 DEF Has

LEMMA InsertIfFacts ==
    ASSUME NEW T, NEW s \in Seq(T), NEW m \in Nat, NEW n \in Nat, NEW t \in T
    PROVE  /\ InsertIf(m < n, s, t) \in Seq(T)
           /\ m < n => Has(InsertIf(m < n, s, t), t)
           /\ \A j \in 1..Len(s) : Has(InsertIf(m < n, s, t), s[j])
<1>1. CASE m < n
  <2>1. InsertIf(m < n, s, t) = Insert(s, t)
    BY <1>1 DEF InsertIf
  <2>2. Insert(s, t) \in Seq(T) /\ Has(Insert(s, t), t)
    BY InsertFacts
  <2>3. \A j \in 1..Len(s) : Has(Insert(s, t), s[j])
    BY InsertFacts
  <2> QED  BY <2>1, <2>2, <2>3
<1>2. CASE ~(m < n)
  <2>1. InsertIf(m < n, s, t) = s
    BY <1>2 DEF InsertIf
  <2>2. \A j \in 1..Len(s) : Has(s, s[j])
    BY DEF Has
  <2> QED  BY <1>2, <2>1, <2>2
<1> QED  BY <1>1, <1>2

-----------------------------------------------------------------------------
(* calculateStarts. *)

TripleType == [offset : Nat, range : Interval]

LEMMA RequestFacts ==
    ASSUME TypeOK, NEW b \in Buffers
    PROVE  /\ request[b].size \in Nat \ {0}
           /\ request[b].alignment \in Nat \ {0}
           /\ Live(b) \in Interval
           /\ Live(b).start < Live(b).end
           /\ offset[b] \in Nat
           /\ Memory(b) = [start |-> offset[b], end |-> offset[b] + request[b].size]
           /\ Memory(b).start = offset[b]
           /\ Memory(b).end = offset[b] + request[b].size
           /\ Memory(b).end \in Nat
<1>1. /\ request[b] \in Request /\ offset[b] \in Nat
      /\ request[b].live.start < request[b].live.end
  BY DEF TypeOK, RequestOK
<1> QED
  BY <1>1 DEF Request, Live, Memory

LEMMA TripleInType ==
    ASSUME NEW off \in Nat, NEW m \in Nat, NEW n \in Nat
    PROVE  /\ m <= n => Triple(off, m, n) \in TripleType
           /\ Triple(off, m, n).range = [start |-> m, end |-> n]
<1>1. Triple(off, m, n) = [offset |-> off, range |-> [start |-> m, end |-> n]]
  BY DEF Triple
<1>2. m <= n => [start |-> m, end |-> n] \in Interval
  BY DEF Interval
<1> QED
  BY <1>1, <1>2 DEF TripleType

LEMMA HeadTail ==
    ASSUME NEW T, NEW s \in Seq(T), s # <<>>
    PROVE  /\ Head(s) \in T
           /\ Tail(s) \in Seq(T)
           /\ \A k \in 1..Len(s) : \/ s[k] = Head(s)
                                   \/ \E j \in 1..Len(Tail(s)) : Tail(s)[j] = s[k]
<1>1. /\ Len(s) \in Nat /\ Len(s) # 0 /\ s[1] \in T /\ Head(s) = s[1]
      /\ Tail(s) \in Seq(T)
      /\ Len(Tail(s)) = Len(s) - 1
      /\ \A j \in 1..(Len(s) - 1) : Tail(s)[j] = s[j + 1]
  OBVIOUS
<1>2. ASSUME NEW k \in 1..Len(s), k # 1
      PROVE  \E j \in 1..Len(Tail(s)) : Tail(s)[j] = s[k]
  <2>1. /\ k - 1 \in 1..(Len(s) - 1) /\ k - 1 \in 1..Len(Tail(s))
        /\ k - 1 + 1 = k
    BY <1>1, <1>2
  <2> QED
    BY <1>1, <2>1
<1> QED
  BY <1>1, <1>2

\* The three triples that replace a taken one cover its range: what met the
\* range meets one of them.
LEMMA PiecesCover ==
    ASSUME NEW r \in Interval, NEW x \in Interval,
           x.start < x.end, Intersects(x, r),
           NEW v \in Interval, Intersects(r, v)
    PROVE  \/ Intersects([start |-> Larger(r.start, x.start),
                          end |-> Smaller(r.end, x.end)], v)
           \/ r.start < x.start /\ Intersects([start |-> r.start, end |-> x.end], v)
           \/ x.end < r.end /\ Intersects([start |-> x.start, end |-> r.end], v)
<1>1. /\ r.start \in Nat /\ r.end \in Nat /\ x.start \in Nat /\ x.end \in Nat
      /\ v.start \in Nat /\ v.end \in Nat
      /\ r.start <= r.end /\ v.start <= v.end
  BY DEF Interval
<1>2. x.start < r.end /\ r.start < x.end /\ r.start < v.end /\ v.start < r.end
  BY DEF Intersects
<1> DEFINE ls == Larger(r.start, x.start)
           se == Smaller(r.end, x.end)
<1>3. /\ ls = IF r.start < x.start THEN x.start ELSE r.start
      /\ se = IF r.end < x.end THEN r.end ELSE x.end
  BY DEF Larger, Smaller
<1> HIDE DEF ls, se
<1>4. \/ ls < v.end /\ v.start < se
      \/ r.start < x.start /\ r.start < v.end /\ v.start < x.end
      \/ x.end < r.end /\ x.start < v.end /\ v.start < r.end
  BY <1>1, <1>2, <1>3
<1>5. /\ Intersects([start |-> ls, end |-> se], v) <=> ls < v.end /\ v.start < se
      /\ Intersects([start |-> r.start, end |-> x.end], v)
           <=> r.start < v.end /\ v.start < x.end
      /\ Intersects([start |-> x.start, end |-> r.end], v)
           <=> x.start < v.end /\ v.start < r.end
  BY DEF Intersects
<1> QED
  BY <1>4, <1>5 DEF ls, se

\* What PlaceStart does, with names for its parts.
LEMMA PlaceStartFacts ==
    ASSUME TypeOK, PlaceStart
    PROVE  \E b \in xBuffers, off \in Nat, s \in Seq(TripleType) :
             /\ Layout!Aligned(off, request[b].alignment)
             /\ offset' = [offset EXCEPT ![b] = off]
             /\ xBuffers' = xBuffers \ {b}
             /\ tripleMap' = s
             /\ \A v \in Interval :
                  (\E k \in 1..Len(tripleMap) : Intersects(tripleMap[k].range, v))
                    => \E k \in 1..Len(s) : Intersects(s[k].range, v)
<1>1. /\ tripleMap \in Seq(TripleType) /\ tripleMap # <<>>
      /\ Lowest = Head(tripleMap) /\ Others = Tail(tripleMap)
  BY DEF PlaceStart, Starting, TypeOK, Lowest, Others, TripleType
<1>2. Lowest \in TripleType /\ Others \in Seq(TripleType)
  <2>1. Head(tripleMap) \in TripleType
    BY <1>1, HeadTail
  <2>2. Tail(tripleMap) \in Seq(TripleType)
    BY <1>1, HeadTail
  <2> QED
    BY <1>1, <2>1, <2>2
<1>3. \A k \in 1..Len(tripleMap) :
        \/ tripleMap[k] = Lowest
        \/ \E j \in 1..Len(Others) : Others[j] = tripleMap[k]
  <2>1. \A k \in 1..Len(tripleMap) :
          \/ tripleMap[k] = Head(tripleMap)
          \/ \E j \in 1..Len(Tail(tripleMap)) : Tail(tripleMap)[j] = tripleMap[k]
    BY <1>1, HeadTail
  <2> QED
    BY <1>1, <2>1
<1>4. PICK b \in Fitting :
        LET off == AlignTo(Lowest.offset, request[b].alignment)
            r == Lowest.range
            x == Live(b)
            above == Insert(Others,
                       Triple(off + request[b].size, Larger(r.start, x.start),
                                                     Smaller(r.end, x.end)))
            left == InsertIf(r.start < x.start, above,
                             Triple(Lowest.offset, r.start, x.end))
        IN  /\ offset' = [offset EXCEPT ![b] = off]
            /\ tripleMap' = InsertIf(x.end < r.end, left,
                                     Triple(Lowest.offset, x.start, r.end))
            /\ xBuffers' = xBuffers \ {b}
  BY DEF PlaceStart
<1> DEFINE r == Lowest.range
           x == Live(b)
           off == AlignTo(Lowest.offset, request[b].alignment)
           top == Triple(off + request[b].size, Larger(r.start, x.start),
                                                Smaller(r.end, x.end))
           leftOf == Triple(Lowest.offset, r.start, x.end)
           rightOf == Triple(Lowest.offset, x.start, r.end)
           above == Insert(Others, top)
           left == InsertIf(r.start < x.start, above, leftOf)
           new == InsertIf(x.end < r.end, left, rightOf)
<1>5. /\ offset' = [offset EXCEPT ![b] = off]
      /\ tripleMap' = new
      /\ xBuffers' = xBuffers \ {b}
  BY <1>4
<1>6. /\ b \in xBuffers /\ b \in Buffers /\ Intersects(x, r)
      /\ r \in Interval /\ x \in Interval /\ Lowest.offset \in Nat
      /\ x.start < x.end
      /\ request[b].size \in Nat /\ request[b].alignment \in Nat \ {0}
  <2>1. b \in xBuffers /\ b \in Buffers /\ Intersects(x, r)
    BY DEF Fitting, Fits, TypeOK
  <2>2. r \in Interval /\ Lowest.offset \in Nat
    BY <1>2 DEF TripleType
  <2> QED
    BY <2>1, <2>2, RequestFacts
<1>7. off \in Nat
  BY <1>6, AlignToFacts
<1>8. Layout!Aligned(off, request[b].alignment)
  BY <1>6, AlignToFacts
<1>9. /\ r.start \in Nat /\ r.end \in Nat /\ x.start \in Nat /\ x.end \in Nat
      /\ Larger(r.start, x.start) \in Nat /\ Smaller(r.end, x.end) \in Nat
      /\ Larger(r.start, x.start) <= Smaller(r.end, x.end)
      /\ r.start <= x.end /\ x.start <= r.end
      /\ off + request[b].size \in Nat
  BY <1>6, <1>7 DEF Interval, Intersects, Larger, Smaller
<1> HIDE DEF r, x, off
<1>10. /\ top \in TripleType
       /\ top.range = [start |-> Larger(r.start, x.start), end |-> Smaller(r.end, x.end)]
  BY <1>9, TripleInType
<1>11. leftOf \in TripleType /\ leftOf.range = [start |-> r.start, end |-> x.end]
  BY <1>6, <1>9, TripleInType
<1>12. rightOf \in TripleType /\ rightOf.range = [start |-> x.start, end |-> r.end]
  BY <1>6, <1>9, TripleInType
<1> HIDE DEF top, leftOf, rightOf, above, left, new
<1>13. above \in Seq(TripleType)
  BY <1>2, <1>10, InsertFacts DEF above
<1>14. Has(above, top)
  BY <1>2, <1>10, InsertFacts DEF above
<1>15. \A j \in 1..Len(Others) : Has(above, Others[j])
  BY <1>2, <1>10, InsertFacts DEF above
<1>16. left \in Seq(TripleType)
  BY <1>9, <1>11, <1>13, InsertIfFacts DEF left
<1>17. r.start < x.start => Has(left, leftOf)
  BY <1>9, <1>11, <1>13, InsertIfFacts DEF left
<1>18. \A j \in 1..Len(above) : Has(left, above[j])
  BY <1>9, <1>11, <1>13, InsertIfFacts DEF left
<1>19. new \in Seq(TripleType)
  BY <1>9, <1>12, <1>16, InsertIfFacts DEF new
<1>20. x.end < r.end => Has(new, rightOf)
  BY <1>9, <1>12, <1>16, InsertIfFacts DEF new
<1>21. \A j \in 1..Len(left) : Has(new, left[j])
  BY <1>9, <1>12, <1>16, InsertIfFacts DEF new
<1>22. ASSUME NEW v \in Interval, NEW k \in 1..Len(tripleMap),
              Intersects(tripleMap[k].range, v)
       PROVE  \E n \in 1..Len(new) : Intersects(new[n].range, v)
  <2>1. CASE \E j \in 1..Len(Others) : Others[j] = tripleMap[k]
    <3>1. Has(new, tripleMap[k])
      BY <1>15, <1>18, <1>21, <2>1 DEF Has
    <3> QED
      BY <1>22, <3>1 DEF Has
  <2>2. CASE tripleMap[k] = Lowest
    <3>1. Intersects(r, v)
      BY <1>22, <2>2 DEF r
    <3>2. \/ Intersects(top.range, v)
          \/ r.start < x.start /\ Intersects(leftOf.range, v)
          \/ x.end < r.end /\ Intersects(rightOf.range, v)
      BY <1>6, <1>10, <1>11, <1>12, <3>1, PiecesCover
    <3> QED
      BY <3>2, <1>14, <1>17, <1>18, <1>20, <1>21 DEF Has
  <2> QED
    BY <1>3, <2>1, <2>2
<1> QED
  BY <1>5, <1>6, <1>7, <1>8, <1>19, <1>22

-----------------------------------------------------------------------------
(* Least and greatest elements, for the choices of Color and NewOffset. *)

LEMMA LeastExists ==
    ASSUME NEW S, S \subseteq Nat, S # {}
    PROVE  \E m \in S : \A n \in S : m <= n
<1>1. PICK m \in S : \A n \in S : ~ (<<n, m>> \in OpToRel(<, Nat))
  BY NatLessThanWellFounded, WFMin
<1>2. \A n \in S : ~ (n < m)
  BY <1>1 DEF OpToRel
<1> QED
  BY <1>2

LEMMA GreatestExists ==
    ASSUME NEW S, S \subseteq Nat, S # {}, NEW u \in Nat, \A n \in S : n <= u
    PROVE  \E m \in S : \A n \in S : n <= m
<1> DEFINE U == {v \in Nat : \A n \in S : n <= v}
<1>1. U \subseteq Nat /\ U # {}
  OBVIOUS
<1> HIDE DEF U
<1>2. PICK m \in U : \A v \in U : m <= v
  BY <1>1, LeastExists
<1>3. m \in Nat /\ \A n \in S : n <= m
  BY <1>2 DEF U
<1>4. ASSUME m \notin S
      PROVE  FALSE
  <2>1. \A n \in S : n <= m - 1
    BY <1>3, <1>4
  <2>2. m - 1 \in Nat
    <3>1. PICK n \in S : n <= m - 1
      BY <2>1
    <3> QED
      BY <1>3, <3>1
  <2>3. m - 1 \in U
    BY <2>1, <2>2 DEF U
  <2> QED
    BY <1>2, <1>3, <2>3
<1> QED
  BY <1>3, <1>4

LEMMA BoundExists ==
    ASSUME NEW n \in Nat, NEW f \in [1..n -> Nat]
    PROVE  \E u \in Nat : \A k \in 1..n : f[k] <= u
<1> DEFINE S == {m \in 0..n : ~ \E u \in Nat : \A k \in 1..m : f[k] <= u}
<1>1. CASE S = {}
  <2>1. n \in 0..n
    OBVIOUS
  <2> QED
    BY <1>1, <2>1
<1>2. CASE S # {}
  <2>1. S \subseteq Nat
    OBVIOUS
  <2>2. PICK m \in S : \A j \in S : m <= j
    BY <1>2, <2>1, LeastExists
  <2>3. m # 0
    BY <2>2
  <2>4. m \in 1..n /\ m - 1 \in 0..n /\ m - 1 \notin S
    <3>1. m \in 1..n /\ m - 1 \in 0..n /\ ~ (m <= m - 1)
      BY <2>2, <2>3
    <3>2. m - 1 \notin S
      BY <2>2, <3>1
    <3> QED
      BY <3>1, <3>2
  <2>5. PICK u \in Nat : \A k \in 1..(m - 1) : f[k] <= u
    BY <2>4
  <2>6. Larger(u, f[m]) \in Nat /\ u <= Larger(u, f[m]) /\ f[m] <= Larger(u, f[m])
    BY <2>4, <2>5 DEF Larger
  <2>7. \A k \in 1..m : f[k] <= Larger(u, f[m])
    <3>1. ASSUME NEW k \in 1..m PROVE f[k] <= Larger(u, f[m])
      <4>1. f[k] \in Nat /\ (k = m \/ k \in 1..(m - 1))
        BY <2>4
      <4>2. CASE k = m
        BY <4>2, <2>6
      <4>3. CASE k \in 1..(m - 1)
        BY <4>1, <4>3, <2>5, <2>6
      <4> QED
        BY <4>1, <4>2, <4>3
    <3> QED
      BY <3>1
  <2>8. m \notin S
    BY <2>6, <2>7
  <2> QED
    BY <2>2, <2>8
<1> QED
  BY <1>1, <1>2

LEMMA NewOffsetFacts ==
    ASSUME TypeOK, NEW x \in Buffers
    PROVE  /\ NewOffset(x) \in Nat
           /\ \A y \in Neighbors(x) : Memory(y).end <= NewOffset(x)
<1> DEFINE ends == {0} \cup {Memory(y).end : y \in Neighbors(x)}
           f == [y \in 1..N |-> Memory(y).end]
<1>1. \A y \in Buffers : Memory(y).end \in Nat
  BY RequestFacts
<1>2. N \in Nat /\ f \in [1..N -> Nat]
  BY <1>1, NAssumption DEF Buffers
<1>3. PICK u \in Nat : \A y \in 1..N : f[y] <= u
  BY <1>2, BoundExists
<1>4. ends \subseteq Nat /\ ends # {} /\ \A n \in ends : n <= u
  <2>1. \A y \in Neighbors(x) : Memory(y).end \in Nat /\ Memory(y).end <= u
    BY <1>1, <1>3 DEF Neighbors, Buffers
  <2>2. 0 <= u
    OBVIOUS
  <2>3. ASSUME NEW n \in ends
        PROVE  n \in Nat /\ n <= u
    BY <2>1, <2>2
  <2> QED
    BY <2>3
<1>5. NewOffset(x) = CHOOSE m \in ends : \A n \in ends : n <= m
  BY DEF NewOffset
<1> HIDE DEF ends, f
<1>6. \E m \in ends : \A n \in ends : n <= m
  BY <1>3, <1>4, GreatestExists
<1>7. NewOffset(x) \in ends /\ \A n \in ends : n <= NewOffset(x)
  BY <1>5, <1>6
<1> QED
  BY <1>4, <1>7 DEF ends

\* First fit finds a colour: a buffer has fewer neighbours than there are
\* buffers.
LEMMA AvailableExists ==
    ASSUME TypeOK, GraphSound, InRound, NEW x \in Buffers
    PROVE  Available(x) # {}
<1> SUFFICES ASSUME Available(x) = {} PROVE FALSE
  OBVIOUS
<1> DEFINE S == 0..(N - 1)
           T == Buffers \ {x}
           f == [c \in S |-> CHOOSE y \in Neighbors(x) : colors[y] = c]
<1>1. N \in Nat /\ N >= 1
  BY NAssumption DEF Buffers
<1>2. IsFiniteSet(S) /\ Cardinality(S) = N
  BY <1>1, FS_Interval
<1>3. IsFiniteSet(T) /\ Cardinality(T) = N - 1
  <2>1. IsFiniteSet(1..N) /\ Cardinality(1..N) = N
    BY <1>1, FS_Interval
  <2>2. Buffers = 1..N
    BY DEF Buffers
  <2> QED
    BY <2>1, <2>2, FS_RemoveElement
<1>4. ASSUME NEW c \in S
      PROVE  f[c] \in T /\ colors[f[c]] = c
  <2>1. \E y \in Neighbors(x) : colors[y] = c
    BY DEF Available
  <2>2. f[c] \in Neighbors(x) /\ colors[f[c]] = c
    BY <2>1
  <2> QED
    BY <2>2 DEF Neighbors, GraphSound
<1>5. f \in [S -> T]
  <2>1. f = [c \in S |-> f[c]]
    OBVIOUS
  <2> QED
    BY <1>4, <2>1
<1> HIDE DEF f, S, T
<1>6. PICK c, d \in S : c # d /\ f[c] = f[d]
  BY <1>1, <1>2, <1>3, <1>5, FS_PigeonHole
<1> QED
  BY <1>4, <1>6

\* What Color gives a buffer.
FirstFit(x) == CHOOSE c \in Available(x) : \A d \in Available(x) : c <= d

LEMMA FirstFitFacts ==
    ASSUME TypeOK, GraphSound, InRound, NEW x \in Buffers
    PROVE  /\ FirstFit(x) \in 0..(N - 1)
           /\ \A y \in Neighbors(x) : colors[y] # FirstFit(x)
           /\ FirstFit(x) # 0 => Neighbors(x) # {}
<1>1. Available(x) \subseteq Nat /\ Available(x) # {}
  BY AvailableExists DEF Available
<1>2. \E c \in Available(x) : \A d \in Available(x) : c <= d
  BY <1>1, LeastExists
<1>3. FirstFit(x) \in Available(x) /\ \A d \in Available(x) : FirstFit(x) <= d
  BY <1>2 DEF FirstFit
<1>4. Neighbors(x) = {} => 0 \in Available(x)
  BY NAssumption DEF Available, Buffers
<1> QED
  BY <1>1, <1>3, <1>4 DEF Available

-----------------------------------------------------------------------------
(* Type correctness. *)

LEMMA InitTypeOK == Init => TypeOK
<1> SUFFICES ASSUME Init PROVE TypeOK
  OBVIOUS
<1>1. Triple(0, 0, SizeMax) \in TripleType
  <2>1. 0 \in Nat /\ SizeMax \in Nat /\ 0 <= SizeMax
    BY NAssumption
  <2> QED
    BY <2>1, TripleInType
<1>2. tripleMap \in Seq([offset : Nat, range : Interval])
  BY <1>1 DEF Init, TripleType
<1>3. RequestOK(request)
  BY RequestAssumption DEF Init
<1> QED
  BY <1>2, <1>3, NAssumption DEF Init, TypeOK, NoColor, Buffers

LEMMA TypeOKStep ==
    ASSUME TypeOK, GraphSound, [Next]_vars
    PROVE  TypeOK'
<1> USE NAssumption
<1>1. CASE DropTriple
  <2>1. tripleMap \in Seq(TripleType) /\ tripleMap # <<>>
    BY <1>1 DEF DropTriple, Starting, TypeOK, TripleType
  <2>2. Tail(tripleMap) \in Seq(TripleType)
    BY <2>1, HeadTail
  <2> QED
    BY <1>1, <2>2 DEF DropTriple, Starting, TypeOK, TripleType, Others
<1>2. CASE PlaceStart
  <2>1. PICK b \in xBuffers, off \in Nat, s \in Seq(TripleType) :
             /\ offset' = [offset EXCEPT ![b] = off]
             /\ xBuffers' = xBuffers \ {b}
             /\ tripleMap' = s
    BY <1>2, PlaceStartFacts
  <2> QED
    BY <1>2, <2>1 DEF PlaceStart, Starting, TypeOK, TripleType
<1>3. CASE FirstRound
  BY <1>3 DEF FirstRound, StartRound, TypeOK, InterferenceGraph, NoColor, Buffers
<1>4. CASE Color
  <2>1. next \in Buffers
    BY <1>4 DEF Color, TypeOK, Buffers
  <2>2. Available(next) # {} /\ FirstFit(next) \in 0..(N - 1)
    BY <1>4, <2>1, AvailableExists, FirstFitFacts DEF Color, InRound
  <2>3. colors' = [colors EXCEPT ![next] = FirstFit(next)]
    BY <1>4, <2>2 DEF Color, FirstFit
  <2>4. FirstFit(next) \in 0..NoColor /\ next + 1 \in 1..(N + 1)
    BY <2>1, <2>2 DEF NoColor, Buffers
  <2>5. colors' \in [Buffers -> 0..NoColor]
    BY <2>3, <2>4 DEF TypeOK
  <2> QED
    BY <1>4, <2>4, <2>5 DEF Color, TypeOK
<1>5. CASE StartBumping
  BY <1>5 DEF StartBumping, TypeOK
<1>6. CASE Bump
  <2>1. next \in Buffers
    BY <1>6 DEF Bump, TypeOK, Buffers
  <2>2. AlignTo(NewOffset(next), request[next].alignment) \in Nat
    BY <2>1, NewOffsetFacts, RequestFacts, AlignToFacts
  <2>3. offset' \in [Buffers -> Nat]
    BY <1>6, <2>1, <2>2 DEF Bump, TypeOK
  <2>4. sharedMemorySize' \in Nat
    <3>1. offset'[next] \in Nat /\ request[next].size \in Nat
      BY <2>1, <2>3, RequestFacts
    <3> QED
      BY <1>6, <3>1 DEF Bump, TypeOK, Larger
  <2> QED
    BY <1>6, <2>1, <2>3, <2>4 DEF Bump, TypeOK, Buffers
<1>7. CASE NextRound
  BY <1>7 DEF NextRound, StartRound, TypeOK, InterferenceGraph, NoColor, Buffers
<1>8. CASE Finish
  BY <1>8 DEF Finish, TypeOK
<1>9. CASE UNCHANGED vars
  BY <1>9 DEF TypeOK, vars
<1> QED
  BY <1>1, <1>2, <1>3, <1>4, <1>5, <1>6, <1>7, <1>8, <1>9 DEF Next, Done

-----------------------------------------------------------------------------
(* The packing never runs out of triples. *)

LEMMA IntersectsSymmetric ==
    ASSUME NEW p, NEW q, Intersects(p, q)
    PROVE  Intersects(q, p)
BY DEF Intersects

LEMMA InitCovers == Init => TripleMapCovers
<1> SUFFICES ASSUME Init, NEW b \in xBuffers
             PROVE  \E k \in 1..Len(tripleMap) : Intersects(tripleMap[k].range, Live(b))
  BY DEF TripleMapCovers
<1>1. b \in Buffers /\ TypeOK
  BY InitTypeOK DEF Init
<1>2. /\ Live(b) \in Interval /\ Live(b).start < Live(b).end
      /\ Live(b).end <= SizeMax
  BY <1>1, RequestFacts DEF Live, TypeOK, RequestOK
<1>3. Len(tripleMap) = 1 /\ tripleMap[1].range = [start |-> 0, end |-> SizeMax]
  BY NAssumption, TripleInType DEF Init
<1>4. Intersects(tripleMap[1].range, Live(b))
  BY <1>2, <1>3, NAssumption DEF Intersects, Interval
<1> QED
  BY <1>3, <1>4

LEMMA CoversStep ==
    ASSUME TypeOK, TripleMapCovers, [Next]_vars
    PROVE  TripleMapCovers'
<1> SUFFICES ASSUME pc' = "starts", NEW b \in xBuffers'
             PROVE  \E k \in 1..Len(tripleMap') :
                      Intersects(tripleMap'[k].range, Live(b)')
  BY DEF TripleMapCovers
<1>1. CASE DropTriple
  <2>1. /\ tripleMap' = Others /\ b \in xBuffers /\ Live(b)' = Live(b)
        /\ b \notin Fitting
        /\ pc = "starts" /\ tripleMap \in Seq(TripleType) /\ tripleMap # <<>>
    BY <1>1 DEF DropTriple, Starting, Live, TypeOK, TripleType
  <2>2. PICK k \in 1..Len(tripleMap) : Intersects(tripleMap[k].range, Live(b))
    BY <2>1 DEF TripleMapCovers
  <2>3. CASE \E j \in 1..Len(Others) : Others[j] = tripleMap[k]
    BY <2>1, <2>2, <2>3
  <2>4. CASE tripleMap[k] = Lowest
    <3>1. Intersects(Live(b), Lowest.range)
      BY <2>2, <2>4, IntersectsSymmetric
    <3>2. \E j \in 1..Len(Others) : Intersects(Others[j].range, Live(b))
      BY <2>1, <3>1 DEF Fitting, Fits
    <3> QED
      BY <2>1, <3>2
  <2>5. \/ tripleMap[k] = Head(tripleMap)
        \/ \E j \in 1..Len(Tail(tripleMap)) : Tail(tripleMap)[j] = tripleMap[k]
    BY <2>1, HeadTail
  <2> QED
    BY <2>3, <2>4, <2>5 DEF Lowest, Others
<1>2. CASE PlaceStart
  <2>1. PICK c \in xBuffers, off \in Nat, s \in Seq(TripleType) :
             /\ xBuffers' = xBuffers \ {c}
             /\ tripleMap' = s
             /\ \A v \in Interval :
                  (\E k \in 1..Len(tripleMap) : Intersects(tripleMap[k].range, v))
                    => \E k \in 1..Len(s) : Intersects(s[k].range, v)
    BY <1>2, PlaceStartFacts
  <2>2. /\ b \in xBuffers /\ b \in Buffers /\ pc = "starts"
        /\ Live(b)' = Live(b)
    BY <1>2, <2>1 DEF PlaceStart, Starting, Live, TypeOK
  <2>3. Live(b) \in Interval
    BY <2>2, RequestFacts
  <2>4. \E k \in 1..Len(tripleMap) : Intersects(tripleMap[k].range, Live(b))
    BY <2>2 DEF TripleMapCovers
  <2> QED
    BY <2>1, <2>2, <2>3, <2>4
<1>3. CASE UNCHANGED vars
  BY <1>3 DEF TripleMapCovers, vars, Live
<1>4. CASE FirstRound \/ Color \/ StartBumping \/ Bump \/ NextRound \/ Finish
  BY <1>4 DEF FirstRound, StartRound, Color, StartBumping, Bump, RoundOver,
              NextRound, Finish
<1> QED
  BY <1>1, <1>2, <1>3, <1>4 DEF Next, Done

-----------------------------------------------------------------------------
(* The rounds. *)

\* What buildInterferenceGraph makes when a round starts.
LEMMA GraphFacts ==
    ASSUME TypeOK, NEW x \in Buffers, NEW y \in Buffers,
           <<x, y>> \in InterferenceGraph
    PROVE  /\ x # y
           /\ <<y, x>> \in InterferenceGraph
           /\ offset[x] < Memory(y).end
<1>1. /\ x # y /\ Intersects(Live(x), Live(y)) /\ Intersects(Memory(x), Memory(y))
  BY DEF InterferenceGraph
<1>2. <<y, x>> \in InterferenceGraph
  BY <1>1, IntersectsSymmetric DEF InterferenceGraph
<1>3. Memory(x).start = offset[x]
  BY RequestFacts
<1> QED
  BY <1>1, <1>2, <1>3 DEF Intersects

LEMMA GraphSoundStep ==
    ASSUME TypeOK, GraphSound, [Next]_vars
    PROVE  GraphSound'
<1>1. CASE FirstRound \/ NextRound
  <2>1. interference' = InterferenceGraph
    BY <1>1 DEF FirstRound, NextRound
  <2>2. \A x, y \in Buffers : <<x, y>> \in InterferenceGraph
           => x # y /\ <<y, x>> \in InterferenceGraph
    BY GraphFacts
  <2>3. ASSUME NEW e \in InterferenceGraph
        PROVE  e[1] # e[2] /\ <<e[2], e[1]>> \in InterferenceGraph
    <3>1. e \in Buffers \X Buffers /\ e = <<e[1], e[2]>>
      BY DEF InterferenceGraph
    <3> QED
      BY <2>2, <2>3, <3>1
  <2> QED
    BY <2>1, <2>3 DEF GraphSound
<1>2. CASE DropTriple \/ PlaceStart
  BY <1>2 DEF DropTriple, PlaceStart, Starting, GraphSound, InRound
<1>3. CASE Color \/ StartBumping \/ Bump
  BY <1>3 DEF Color, StartBumping, Bump, GraphSound, InRound
<1>4. CASE Finish
  BY <1>4 DEF Finish, GraphSound, InRound
<1>5. CASE UNCHANGED vars
  BY <1>5 DEF vars, GraphSound, InRound
<1> QED
  BY <1>1, <1>2, <1>3, <1>4, <1>5 DEF Next, Done

LEMMA ColoringSoundStep ==
    ASSUME TypeOK, GraphSound, ColoringSound, [Next]_vars
    PROVE  ColoringSound'
<1>1. CASE FirstRound \/ NextRound
  <2>1. next' = 1 /\ pc' = "color"
    BY <1>1 DEF FirstRound, NextRound, StartRound
  <2>2. \A x \in Buffers : ~ HasColor(x)'
    BY <2>1 DEF HasColor, Buffers
  <2> QED
    BY <2>2 DEF ColoringSound
<1>2. CASE Color
  <2>1. /\ next \in Buffers /\ next \in Nat /\ next' = next + 1 /\ pc = "color" /\ pc' = "color"
        /\ interference' = interference /\ InRound
    BY <1>2 DEF Color, TypeOK, Buffers, InRound
  <2>2. Available(next) # {}
    BY <2>1, AvailableExists
  <2>3. colors' = [colors EXCEPT ![next] = FirstFit(next)]
    BY <1>2, <2>2 DEF Color, FirstFit
  <2>4. \A x \in Buffers : Neighbors(x)' = Neighbors(x)
    BY <2>1 DEF Neighbors
  <2>5. SUFFICES ASSUME NEW x \in Buffers, HasColor(x)'
                 PROVE  /\ colors'[x] \in 0..(N - 1)
                        /\ colors'[x] # 0 => Neighbors(x) # {}
                        /\ \A y \in Neighbors(x) :
                             HasColor(y)' => colors'[x] # colors'[y]
    BY <2>4 DEF ColoringSound
  <2>6. \A z \in Buffers : HasColor(z)' => z = next \/ HasColor(z)
    BY <2>1 DEF HasColor, Buffers
  <2>7. /\ \A z \in Buffers : z # next => colors'[z] = colors[z]
        /\ colors'[next] = FirstFit(next)
    BY <2>1, <2>3 DEF TypeOK
  <2>8. FirstFit(next) \in 0..(N - 1)
    BY <2>1, FirstFitFacts
  <2>9. \A y \in Neighbors(next) : colors[y] # FirstFit(next)
    BY <2>1, FirstFitFacts
  <2>10. FirstFit(next) # 0 => Neighbors(next) # {}
    BY <2>1, FirstFitFacts
  <2>11. \A z \in Buffers : \A y \in Neighbors(z) :
            y \in Buffers /\ y # z /\ z \in Neighbors(y)
    BY <2>1 DEF Neighbors, GraphSound
  <2>12. CASE x = next
    BY <2>7, <2>8, <2>9, <2>10, <2>11, <2>12
  <2>13. CASE x # next
    <3>1. /\ colors[x] \in 0..(N - 1)
          /\ colors[x] # 0 => Neighbors(x) # {}
          /\ \A y \in Neighbors(x) : HasColor(y) => colors[x] # colors[y]
      BY <2>1, <2>5, <2>6, <2>13 DEF ColoringSound
    <3>2. ASSUME NEW y \in Neighbors(x), HasColor(y)'
          PROVE  colors'[x] # colors'[y]
      <4>1. y \in Buffers /\ x \in Neighbors(y)
        BY <2>11
      <4>2. CASE y = next
        BY <2>7, <2>9, <2>13, <4>1, <4>2
      <4>3. CASE y # next
        BY <2>6, <2>7, <2>13, <3>1, <3>2, <4>1, <4>3
      <4> QED
        BY <4>2, <4>3
    <3> QED
      BY <2>7, <2>13, <3>1, <3>2
  <2> QED
    BY <2>12, <2>13
<1>3. CASE StartBumping
  <2>1. \A x \in Buffers : HasColor(x) /\ Neighbors(x)' = Neighbors(x)
    BY <1>3, NAssumption DEF StartBumping, HasColor, Neighbors, Buffers
  <2> QED
    BY <1>3, <2>1 DEF StartBumping, ColoringSound, InRound, Neighbors
<1>4. CASE Bump
  BY <1>4 DEF Bump, ColoringSound, InRound, HasColor, Neighbors
<1>5. CASE DropTriple \/ PlaceStart
  BY <1>5 DEF DropTriple, PlaceStart, Starting, ColoringSound, InRound
<1>6. CASE Finish
  BY <1>6 DEF Finish, ColoringSound, InRound
<1>7. CASE UNCHANGED vars
  BY <1>7 DEF vars, ColoringSound, InRound, HasColor, Neighbors
<1> QED
  BY <1>1, <1>2, <1>3, <1>4, <1>5, <1>6, <1>7 DEF Next, Done

\* What Bump does to the buffer it is at.
LEMMA BumpFacts ==
    ASSUME TypeOK, GraphSound, ColoringSound, BumpSound, Bump
    PROVE  /\ next \in Buffers
           /\ \A b \in Buffers : b # next => offset'[b] = offset[b]
           /\ offset'[next] \in Nat
           /\ offset'[next] >= offset[next]
           /\ colors[next] = 0 => offset'[next] = offset[next]
           /\ colors[next] # 0 =>
                /\ \A y \in Neighbors(next) : offset'[next] >= Memory(y).end
                /\ Layout!Aligned(offset'[next], request[next].alignment)
<1>1. next \in Buffers /\ pc = "bump" /\ next \in Nat
  BY DEF Bump, TypeOK, Buffers
<1> DEFINE new == AlignTo(NewOffset(next), request[next].alignment)
<1>2. offset' = [offset EXCEPT ![next] = IF colors[next] # 0 THEN new ELSE @]
  BY DEF Bump
<1>3. NewOffset(next) \in Nat
  BY <1>1, NewOffsetFacts
<1>4. \A y \in Neighbors(next) : Memory(y).end <= NewOffset(next)
  BY <1>1, NewOffsetFacts
<1>5. request[next].alignment \in Nat \ {0} /\ offset[next] \in Nat
  BY <1>1, RequestFacts
<1>6. new \in Nat /\ new >= NewOffset(next)
  BY <1>3, <1>5, AlignToFacts
<1>7. Layout!Aligned(new, request[next].alignment)
  BY <1>3, <1>5, AlignToFacts
<1> HIDE DEF new
<1>8. \A y \in Neighbors(next) : Memory(y).end \in Nat
  BY RequestFacts DEF Neighbors
<1>9. \A y \in Neighbors(next) : Memory(y).end <= new
  BY <1>3, <1>4, <1>6, <1>8
<1>10. colors[next] # 0 => new >= offset[next]
  <2>1. SUFFICES ASSUME colors[next] # 0 PROVE new >= offset[next]
    OBVIOUS
  <2>2. PICK y \in Neighbors(next) : TRUE
    BY <1>1, <2>1 DEF ColoringSound, HasColor, InRound
  <2>3. offset[next] < Memory(y).end
    BY <1>1, <2>2 DEF BumpSound, InRound
  <2> QED
    BY <1>5, <1>6, <1>8, <1>9, <2>2, <2>3
<1>11. /\ \A b \in Buffers : b # next => offset'[b] = offset[b]
       /\ offset'[next] = IF colors[next] # 0 THEN new ELSE offset[next]
  BY <1>1, <1>2 DEF TypeOK
<1>12. CASE colors[next] = 0
  BY <1>1, <1>5, <1>11, <1>12
<1>13. CASE colors[next] # 0
  <2>1. offset'[next] = new
    BY <1>11, <1>13
  <2>2. new >= offset[next]
    BY <1>10, <1>13
  <2>3. Layout!Aligned(offset'[next], request[next].alignment)
    BY <1>7, <2>1
  <2>4. \A y \in Neighbors(next) : offset'[next] >= Memory(y).end
    BY <1>6, <1>8, <1>9, <2>1
  <2>5. offset'[next] \in Nat /\ offset'[next] >= offset[next]
    BY <1>6, <2>1, <2>2
  <2> QED
    BY <1>1, <1>11, <1>13, <2>3, <2>4, <2>5
<1> QED
  BY <1>12, <1>13

LEMMA BumpSoundStep ==
    ASSUME TypeOK, GraphSound, ColoringSound, BumpSound, [Next]_vars
    PROVE  BumpSound'
<1>1. CASE FirstRound \/ NextRound
  <2>1. /\ interference' = InterferenceGraph /\ pc' = "color"
        /\ offset' = offset /\ request' = request
    BY <1>1 DEF FirstRound, NextRound, StartRound
  <2>2. ASSUME NEW x \in Buffers, NEW y \in Neighbors(x)'
        PROVE  offset[x] < Memory(y).end
    <3>1. y \in Buffers /\ <<x, y>> \in InterferenceGraph
      BY <2>1, <2>2 DEF Neighbors
    <3> QED
      BY <3>1, GraphFacts
  <2>3. \A y : Memory(y)' = Memory(y)
    BY <2>1 DEF Memory
  <2> QED
    BY <2>1, <2>2, <2>3 DEF BumpSound
<1>2. CASE Color
  BY <1>2 DEF Color, BumpSound, InRound, Neighbors, Memory
<1>3. CASE StartBumping
  <2>1. ASSUME NEW x \in Buffers, NEW y \in Neighbors(x)
        PROVE  ~ (x < next') /\ offset[x] < Memory(y).end
    BY <1>3 DEF StartBumping, BumpSound, InRound, Buffers
  <2> QED
    BY <1>3, <2>1 DEF StartBumping, BumpSound, InRound, Neighbors, Memory
<1>4. CASE Bump
  <2>1. /\ next \in Buffers /\ next \in Nat /\ next' = next + 1
        /\ pc = "bump" /\ pc' = "bump" /\ colors' = colors
        /\ interference' = interference /\ request' = request
    BY <1>4 DEF Bump, TypeOK, Buffers
  <2>2. \A b \in Buffers : b # next => offset'[b] = offset[b]
    BY <1>4, BumpFacts
  <2>3. /\ offset'[next] \in Nat /\ offset'[next] >= offset[next]
        /\ colors[next] = 0 => offset'[next] = offset[next]
    BY <1>4, BumpFacts
  <2>4. colors[next] # 0 => \A y \in Neighbors(next) : offset'[next] >= Memory(y).end
    BY <1>4, BumpFacts
  <2> DEFINE NewEnd(b) == offset'[b] + request[b].size
  <2>5. \A b \in Buffers :
           /\ offset[b] \in Nat /\ request[b].size \in Nat
           /\ Memory(b).end = offset[b] + request[b].size
           /\ Memory(b)'.end = NewEnd(b)
    <3>1. \A b \in Buffers : /\ offset[b] \in Nat /\ request[b].size \in Nat
                             /\ Memory(b).end = offset[b] + request[b].size
      BY RequestFacts
    <3> QED
      BY <2>1, <3>1 DEF Memory
  <2>6. /\ \A b \in Buffers : b # next => NewEnd(b) = Memory(b).end
        /\ NewEnd(next) >= Memory(next).end
        /\ colors[next] = 0 => NewEnd(next) = Memory(next).end
    <3>1. \A b \in Buffers : b # next => NewEnd(b) = Memory(b).end
      BY <2>2, <2>5
    <3>2. /\ offset[next] \in Nat /\ request[next].size \in Nat
          /\ Memory(next).end = offset[next] + request[next].size
      BY <2>1, <2>5
    <3> QED
      BY <2>3, <3>1, <3>2
  <2>7. SUFFICES ASSUME NEW x \in Buffers, NEW y \in Neighbors(x)
                 PROVE  IF x < next + 1
                        THEN colors[x] # 0 /\ (y < x \/ colors[y] = 0)
                               => offset'[x] >= NewEnd(y)
                        ELSE offset'[x] < NewEnd(y)
    BY <2>1, <2>5 DEF BumpSound, Neighbors
  <2>8. x \in Nat /\ y \in Nat /\ y \in Buffers /\ x # y
    BY <2>1 DEF Buffers, Neighbors, GraphSound, InRound
  <2>9. IF x < next
        THEN colors[x] # 0 /\ (y < x \/ colors[y] = 0) => offset[x] >= Memory(y).end
        ELSE offset[x] < Memory(y).end
    BY <2>1 DEF BumpSound, InRound
  <2>10. CASE x < next
    <3>1. y < x \/ colors[y] = 0 => NewEnd(y) = Memory(y).end
      BY <2>1, <2>6, <2>8, <2>10
    <3> QED
      BY <2>1, <2>2, <2>8, <2>9, <2>10, <3>1
  <2>11. CASE x = next
    BY <2>1, <2>4, <2>6, <2>8, <2>11
  <2>12. CASE x > next
    <3>1. offset'[x] = offset[x] /\ NewEnd(y) >= Memory(y).end
      BY <2>1, <2>2, <2>5, <2>6, <2>8, <2>12
    <3> QED
      BY <2>1, <2>3, <2>2, <2>5, <2>8, <2>9, <2>12, <3>1
  <2> QED
    BY <2>1, <2>8, <2>10, <2>11, <2>12
<1>5. CASE DropTriple \/ PlaceStart
  BY <1>5 DEF DropTriple, PlaceStart, Starting, BumpSound, InRound
<1>6. CASE Finish
  BY <1>6 DEF Finish, BumpSound, InRound
<1>7. CASE UNCHANGED vars
  BY <1>7 DEF vars, BumpSound, InRound, Neighbors, Memory
<1> QED
  BY <1>1, <1>2, <1>3, <1>4, <1>5, <1>6, <1>7 DEF Next, Done

LEMMA AllAlignedStep ==
    ASSUME TypeOK, GraphSound, ColoringSound, BumpSound, AllAligned, [Next]_vars
    PROVE  AllAligned'
<1> SUFFICES ASSUME NEW b \in Buffers
             PROVE  Layout!Aligned(offset'[b], request'[b].alignment)
  BY DEF AllAligned
<1>1. Layout!Aligned(offset[b], request[b].alignment)
  BY DEF AllAligned
<1>2. CASE PlaceStart
  <2>1. request' = request
    BY <1>2 DEF PlaceStart
  <2>2. PICK c \in xBuffers, off \in Nat, s \in Seq(TripleType) :
             /\ Layout!Aligned(off, request[c].alignment)
             /\ offset' = [offset EXCEPT ![c] = off]
    BY <1>2, PlaceStartFacts
  <2>3. offset'[b] = IF b = c THEN off ELSE offset[b]
    BY <2>2 DEF TypeOK
  <2> QED
    BY <1>1, <2>1, <2>2, <2>3
<1>3. CASE Bump
  <2>1. request' = request
    BY <1>3 DEF Bump
  <2>2. b # next => offset'[b] = offset[b]
    BY <1>3, BumpFacts
  <2>3. colors[next] = 0 => offset'[next] = offset[next]
    BY <1>3, BumpFacts
  <2>4. colors[next] # 0 => Layout!Aligned(offset'[next], request[next].alignment)
    BY <1>3, BumpFacts
  <2> QED
    BY <1>1, <2>1, <2>2, <2>3, <2>4
<1>4. CASE offset' = offset /\ request' = request
  BY <1>1, <1>4
<1> QED
  BY <1>2, <1>3, <1>4
     DEF Next, Done, DropTriple, FirstRound, Color, StartBumping, NextRound,
         Finish, vars

LEMMA SizeCoversStep ==
    ASSUME TypeOK, GraphSound, ColoringSound, BumpSound, SizeCovers, [Next]_vars
    PROVE  SizeCovers'
<1>1. CASE Bump
  <2>1. /\ next \in Buffers /\ next' = next + 1 /\ pc = "bump"
        /\ request' = request
        /\ sharedMemorySize' =
             Larger(sharedMemorySize, offset'[next] + request[next].size)
        /\ \A b \in Buffers : b \in Nat
    BY <1>1 DEF Bump, TypeOK, Buffers
  <2>2. \A b \in Buffers : b # next => offset'[b] = offset[b]
    BY <1>1, BumpFacts
  <2>3. offset'[next] \in Nat
    BY <1>1, BumpFacts
  <2>4. \A b \in Buffers : request[b].size \in Nat /\ offset[b] \in Nat
    BY RequestFacts
  <2>5. SUFFICES ASSUME NEW b \in Buffers, b < next + 1
                 PROVE  offset'[b] + request[b].size <= sharedMemorySize'
    BY <2>1 DEF SizeCovers, Memory
  <2>6. /\ sharedMemorySize \in Nat
        /\ sharedMemorySize <= sharedMemorySize'
        /\ offset'[next] + request[next].size <= sharedMemorySize'
    BY <2>1, <2>3, <2>4 DEF TypeOK, Larger
  <2>7. CASE b = next
    BY <2>6, <2>7
  <2>8. CASE b # next
    <3>1. b < next
      BY <2>1, <2>5, <2>8
    <3>2. offset[b] + request[b].size <= sharedMemorySize
      BY <2>1, <3>1 DEF SizeCovers, Memory
    <3>3. sharedMemorySize' \in Nat
      BY <2>1, <2>3, <2>4, <2>6 DEF Larger
    <3> QED
      BY <2>2, <2>4, <2>6, <2>8, <3>2, <3>3
  <2> QED
    BY <2>7, <2>8
<1>2. CASE StartBumping
  BY <1>2 DEF StartBumping, SizeCovers, Buffers
<1>3. CASE Finish
  BY <1>3 DEF Finish, RoundOver, SizeCovers, Memory
<1>4. CASE DropTriple \/ PlaceStart
  BY <1>4 DEF DropTriple, PlaceStart, Starting, SizeCovers
<1>5. CASE FirstRound \/ Color \/ NextRound
  BY <1>5 DEF FirstRound, Color, NextRound, StartRound, SizeCovers
<1>6. CASE UNCHANGED vars
  BY <1>6 DEF vars, SizeCovers, Memory
<1> QED
  BY <1>1, <1>2, <1>3, <1>4, <1>5, <1>6 DEF Next, Done

\* An empty interference graph is the promise of MemoryLayout.
LEMMA NoEdgeIsDisjoint ==
    ASSUME InterferenceGraph = {}
    PROVE  Layout!Disjoint(request, offset)
<1> SUFFICES ASSUME NEW x \in Buffers, NEW y \in Buffers, x # y,
                    Layout!Intersects(request[x].live, request[y].live),
                    Layout!Intersects(Layout!Memory(request, offset, x),
                                      Layout!Memory(request, offset, y))
             PROVE  FALSE
  BY DEF Layout!Disjoint
<1>1. Intersects(Live(x), Live(y)) /\ Intersects(Memory(x), Memory(y))
  BY DEF Layout!Intersects, Layout!Memory, Intersects, Live, Memory
<1>2. <<x, y>> \in InterferenceGraph
  BY <1>1 DEF InterferenceGraph
<1> QED
  BY <1>2

LEMMA AllDisjointStep ==
    ASSUME TypeOK, AllDisjoint, [Next]_vars
    PROVE  AllDisjoint'
<1>1. CASE Finish
  BY <1>1, NoEdgeIsDisjoint DEF Finish, RoundOver, AllDisjoint
<1>2. CASE UNCHANGED vars
  BY <1>2 DEF vars, AllDisjoint
<1>3. CASE DropTriple \/ PlaceStart \/ FirstRound \/ Color \/ StartBumping \/ Bump
           \/ NextRound
  BY <1>3 DEF DropTriple, PlaceStart, Starting, FirstRound, StartRound, Color,
              StartBumping, Bump, NextRound, AllDisjoint
<1> QED
  BY <1>1, <1>2, <1>3 DEF Next, Done

-----------------------------------------------------------------------------
(* The theorems. *)

LEMMA InitRoundInv == Init => RoundInv
<1> SUFFICES ASSUME Init PROVE RoundInv
  OBVIOUS
<1>1. TypeOK /\ TripleMapCovers
  BY InitTypeOK, InitCovers
<1>2. GraphSound /\ ColoringSound /\ BumpSound /\ SizeCovers /\ AllDisjoint
  BY DEF Init, GraphSound, ColoringSound, BumpSound, SizeCovers, AllDisjoint, InRound
<1>3. AllAligned
  <2>1. ASSUME NEW b \in Buffers
        PROVE  Layout!Aligned(offset[b], request[b].alignment)
    <3>1. offset[b] = 0 /\ request[b].alignment \in Nat
      BY <1>1, RequestFacts DEF Init
    <3> QED
      BY <3>1 DEF Layout!Aligned
  <2> QED
    BY <2>1 DEF AllAligned
<1> QED
  BY <1>1, <1>2, <1>3 DEF RoundInv

LEMMA RoundInvStep == RoundInv /\ [Next]_vars => RoundInv'
<1> SUFFICES ASSUME RoundInv, [Next]_vars PROVE RoundInv'
  OBVIOUS
<1> USE DEF RoundInv
<1>1. TypeOK' /\ TripleMapCovers'
  BY TypeOKStep, CoversStep
<1>2. GraphSound' /\ ColoringSound' /\ BumpSound'
  BY GraphSoundStep, ColoringSoundStep, BumpSoundStep
<1>3. AllAligned' /\ SizeCovers' /\ AllDisjoint'
  BY AllAlignedStep, SizeCoversStep, AllDisjointStep
<1> QED
  BY <1>1, <1>2, <1>3

\* The invariant of the packing and of the rounds holds in every state of the
\* analysis, whatever the buffers ask for.
THEOREM RoundInvCorrect == Spec => []RoundInv
BY InitRoundInv, RoundInvStep, PTL DEF Spec

\* Every state of the analysis is well typed: begin() is not taken from an
\* empty triple map, no colour lies outside `available' after the first fit.
THEOREM TypeCorrect == Spec => []TypeOK
<1>1. RoundInv => TypeOK
  BY DEF RoundInv
<1> QED
  BY <1>1, RoundInvCorrect, PTL

\* While a buffer waits for its first offset, some free place meets its live
\* range.
THEOREM CoversCorrect == Spec => []TripleMapCovers
<1>1. RoundInv => TripleMapCovers
  BY DEF RoundInv
<1> QED
  BY <1>1, RoundInvCorrect, PTL

\* At the end of a round, no pair that interfered when it began still shares
\* a byte.
THEOREM RoundSeparatesCorrect == Spec => []RoundSeparates
<1>1. RoundInv => RoundSeparates
  <2> SUFFICES ASSUME RoundInv, RoundOver, NEW e \in interference
               PROVE  ~ Intersects(Memory(e[1]), Memory(e[2]))
    BY DEF RoundSeparates
  <2> USE DEF RoundInv
  <2> DEFINE x == e[1]
             y == e[2]
  <2>1. /\ x \in Buffers /\ y \in Buffers /\ x # y
        /\ y \in Neighbors(x) /\ x \in Neighbors(y)
        /\ pc = "bump" /\ next = N + 1 /\ x < next /\ y < next
        /\ x \in Nat /\ y \in Nat
    <3>1. x \in Buffers /\ y \in Buffers /\ e = <<x, y>>
      BY DEF TypeOK
    <3>2. pc = "bump" /\ next = N + 1
      BY DEF RoundOver
    <3>3. x # y /\ <<y, x>> \in interference
      BY <3>2 DEF GraphSound, InRound
    <3> QED
      BY <3>1, <3>2, <3>3, NAssumption DEF Buffers, Neighbors
  <2> HIDE DEF x, y
  <2>2. colors[x] # colors[y]
    BY <2>1 DEF ColoringSound, HasColor, InRound
  <2>3. /\ colors[x] # 0 /\ (y < x \/ colors[y] = 0) => offset[x] >= Memory(y).end
        /\ colors[y] # 0 /\ (x < y \/ colors[x] = 0) => offset[y] >= Memory(x).end
    BY <2>1 DEF BumpSound, InRound
  <2>4. offset[x] >= Memory(y).end \/ offset[y] >= Memory(x).end
    BY <2>1, <2>2, <2>3
  <2>5. /\ Memory(x).start = offset[x] /\ Memory(y).start = offset[y]
        /\ Memory(x).end \in Nat /\ Memory(y).end \in Nat
        /\ offset[x] \in Nat /\ offset[y] \in Nat
    BY <2>1, RequestFacts
  <2>6. ~ Intersects(Memory(x), Memory(y))
    BY <2>4, <2>5 DEF Intersects
  <2> QED
    BY <2>6 DEF x, y
<1> QED
  BY <1>1, RoundInvCorrect, PTL

\* Once the rounds have begun, no buffer ever moves down.
THEOREM OffsetsGrowCorrect == Spec => OffsetsGrow
<1>1. RoundInv /\ [Next]_vars
        => [pc = "bump" => \A b \in Buffers : offset'[b] >= offset[b]]_vars
  <2> SUFFICES ASSUME RoundInv, [Next]_vars, pc = "bump", NEW b \in Buffers
               PROVE  offset'[b] >= offset[b]
    OBVIOUS
  <2> USE DEF RoundInv
  <2>1. offset[b] \in Nat
    BY DEF TypeOK
  <2>2. CASE Bump
    <3>1. b # next => offset'[b] = offset[b]
      BY <2>2, BumpFacts
    <3>2. offset'[next] >= offset[next]
      BY <2>2, BumpFacts
    <3> QED
      BY <2>1, <3>1, <3>2
  <2>3. CASE offset' = offset
    BY <2>1, <2>3
  <2> QED
    BY <2>2, <2>3 DEF Next, Done, DropTriple, PlaceStart, Starting, FirstRound,
         Color, StartBumping, NextRound, Finish, vars
<1> QED
  BY <1>1, RoundInvCorrect, PTL DEF Spec, OffsetsGrow

\* computeOffsets implements MemoryLayout: the offsets it returns with are
\* aligned, disjoint for buffers live together and below sharedMemorySize.
THEOREM LayoutCorrect == Spec => LayoutSpec
<1> DEFINE lvars == <<request, pc = "done",
                      IF pc = "done" THEN offset ELSE [b \in Buffers |-> 0],
                      IF pc = "done" THEN sharedMemorySize ELSE 0>>
<1>1. Init => Layout!Init
  BY DEF Init, Layout!Init
<1>2. RoundInv /\ RoundInv' /\ [Next]_vars => [Layout!Place]_lvars
  <2> SUFFICES ASSUME RoundInv, RoundInv', [Next]_vars
               PROVE  [Layout!Place]_lvars
    OBVIOUS
  <2>1. CASE Finish
    <3>1. /\ pc = "bump" /\ pc' = "done" /\ request' = request
          /\ offset' = offset /\ sharedMemorySize' = sharedMemorySize
      BY <2>1 DEF Finish, RoundOver
    <3>2. Layout!Disjoint(request, offset) /\ next' = N + 1
      BY <3>1 DEF RoundInv, AllDisjoint
    <3>3. ASSUME NEW b \in Buffers
          PROVE  /\ Layout!Aligned(offset[b], request[b].alignment)
                 /\ Layout!Memory(request, offset, b).end <= sharedMemorySize
      <4>1. Layout!Aligned(offset[b], request[b].alignment)
        BY DEF RoundInv, AllAligned
      <4>2. b < next'
        BY <3>2, NAssumption DEF Buffers
      <4>3. offset[b] + request[b].size <= sharedMemorySize
        BY <3>1, <4>2 DEF RoundInv, SizeCovers, Memory
      <4> QED
        BY <4>1, <4>3 DEF Layout!Memory
    <3>4. Layout!Correct(request, offset, sharedMemorySize)
      BY <3>2, <3>3 DEF Layout!Correct
    <3> QED
      BY <3>1, <3>4 DEF Layout!Place
  <2>2. CASE UNCHANGED vars
    BY <2>2 DEF vars
  <2>3. CASE DropTriple \/ PlaceStart \/ FirstRound \/ Color \/ StartBumping
             \/ Bump \/ NextRound
    <3>1. pc # "done" /\ pc' # "done" /\ request' = request
      BY <2>3 DEF DropTriple, PlaceStart, Starting, FirstRound, StartRound,
                  Color, StartBumping, Bump, RoundOver, NextRound
    <3> QED
      BY <3>1
  <2> QED
    BY <2>1, <2>2, <2>3 DEF Next, Done
<1> QED
  BY <1>1, <1>2, RoundInvCorrect, PTL DEF Spec, LayoutSpec, Layout!Spec

=============================================================================
