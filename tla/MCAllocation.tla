---------------------------- MODULE MCAllocation ----------------------------
(***************************************************************************)
(* Instances of Allocation: every choice of live ranges over a few          *)
(* operations, of sizes and of alignments.                                  *)
(***************************************************************************)
EXTENDS Allocation

Ranges(n) == {r \in [start : 0..(n - 1), end : 1..n] : r.start < r.end}

RequestsOver(sizes, alignments, ranges) ==
    [Buffers -> [size : sizes, alignment : alignments, live : ranges]]

DenseRequests == RequestsOver({1, 3}, {2}, Ranges(2))

\* Five live ranges, in any order, with which bumping a buffer out of one
\* conflict can put it into another.
Iv(s, e) == [start |-> s, end |-> e]
FiveRanges == {Iv(0, 4), Iv(5, 6), Iv(3, 6), Iv(1, 5), Iv(4, 6)}
Orders == {f \in [Buffers -> FiveRanges] :
             \A x, y \in Buffers : f[x] = f[y] => x = y}

\* Narrow buffers of 2 or 3 bytes, wide ones of 8.
FiveSizes(r) == IF r = Iv(5, 6) THEN {2} ELSE IF r = Iv(0, 4) THEN {3} ELSE {3, 8}
FiveRequests ==
    {[b \in Buffers |-> [size |-> s[o[b]], alignment |-> a[o[b]], live |-> o[b]]] :
     o \in Orders,
     s \in {t \in [FiveRanges -> {2, 3, 8}] : \A r \in FiveRanges : t[r] \in FiveSizes(r)},
     a \in {t \in [FiveRanges -> {2, 4}] : t[Iv(5, 6)] = 2 /\ t[Iv(1, 5)] = 2
                                           /\ t[Iv(4, 6)] = 2 /\ t[Iv(0, 4)] = t[Iv(3, 6)]}}

MCRequests == DenseRequests \cup FiveRequests

=============================================================================
