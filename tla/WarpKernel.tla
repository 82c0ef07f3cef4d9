----------------------------- MODULE WarpKernel ------------------------------
(***************************************************************************)
(* The warps of a block running a straight-line kernel of the MetaX         *)
(* backend: asynchronous copies from global to shared memory, the arrive    *)
(* that waits for a warp's own copies, the barrier of all warps, and loads  *)
(* and stores of shared memory.  The pipelining passes mark their loads,    *)
(* stores and copies intrinsic, and the shared-memory barrier analysis      *)
(* skips what is intrinsic: the barriers of the kernel are all there is.    *)
(*                                                                          *)
(* A buffer has a cell for each warp and each part of the tile; the warp    *)
(* fills its cells, and a local load of any warp reads the cells of all.    *)
(***************************************************************************)
EXTENDS Integers, Sequences, FiniteSets

CONSTANTS
    Warps,      \* the warps of the block
    LoadCount   \* the number of loads of the loop that are pipelined

ASSUME LoadsAssumption == LoadCount \in Nat \ {0}

Loads == 1..LoadCount

VARIABLES
    prog,       \* the kernel, the loop unrolled: a sequence of blocks of operations
    trip,       \* the number of iterations of the source loop
    masked,     \* <<load, iteration>> the source program masks
    other,      \* load -> what the source program gives a masked element
    parts,      \* load -> the parts a warp's share of its tile is copied in
    at,         \* warp -> its position in prog
    flight,     \* warp -> its copies that have not landed, oldest first
    smem,       \* <<load, slot, warp, part>> -> its contents
    operands    \* warp -> load -> the contents its last local load returned

kernel == <<prog, trip, masked, other, parts>>
warpVars == <<kernel, at, flight, smem, operands>>

Zero == <<"zero">>
Data(l, i) == <<"data", l, i>>

\* What the source program's load returns in iteration i.
Loaded(l, i) == IF <<l, i>> \in masked THEN other[l] ELSE Data(l, i)

\* A load past the last iteration is masked off, and returns zero.
LoadMask(l, i) == i < trip /\ <<l, i>> \notin masked

-----------------------------------------------------------------------------
(* Operations. *)

Instr(op, l, i, s, ps, num) == [op |-> op, load |-> l, iter |-> i, slot |-> s, parts |-> ps, num |-> num]

Copy(l, i, s) == Instr("copy", l, i, s, {}, 0)
Arrive(num) == Instr("arrive", 0, 0, 0, {}, num)
Barrier == Instr("barrier", 0, 0, 0, {}, 0)
Read(l, s, ps) == Instr("read", l, 0, s, ps, 0)
Dot(i) == Instr("dot", 0, i, 0, {}, 0)
\* A store of what the load num returned in iteration i, to the buffer of l.
Store(l, s, num, i) == Instr("store", l, i, s, {}, num)

\* One operation for each of the loads, in their order.
ForLoads(Op(_)) == [l \in Loads |-> Op(l)]

Running(w) == at[w].block <= Len(prog)
Current(w) == prog[at[w].block][at[w].index]

Following(a) ==
    IF a.index < Len(prog[a.block]) THEN [block |-> a.block, index |-> a.index + 1]
    ELSE [block |-> a.block + 1, index |-> 1]
Advance(w) == at' = [at EXCEPT ![w] = Following(@)]

-----------------------------------------------------------------------------
(* The lowering of the operations. *)

\* Masked elements become zero, whatever `other' is.
AsyncCopyResult(l, i) == IF LoadMask(l, i) THEN Data(l, i) ELSE Zero

\* An instruction for every part.
AsyncCopy(w) ==
    /\ Running(w) /\ Current(w).op = "copy"
    /\ LET c == Current(w)
       IN  flight' = [flight EXCEPT ![w] = @ \o
               [p \in 1..parts[c.load] |->
                   [load |-> c.load, iter |-> c.iter, slot |-> c.slot, part |-> p]]]
    /\ Advance(w)
    /\ UNCHANGED <<kernel, smem, operands>>

\* The copies of a warp land in the order it issued them.
Land(w) ==
    /\ flight[w] # <<>>
    /\ LET c == Head(flight[w])
       IN  smem' = [smem EXCEPT ![<<c.load, c.slot, w, c.part>>] = AsyncCopyResult(c.load, c.iter)]
    /\ flight' = [flight EXCEPT ![w] = Tail(@)]
    /\ UNCHANGED <<kernel, at, operands>>

\* The warp goes on when at most num of its copies have not landed.
GVMArrive(w) ==
    /\ Running(w) /\ Current(w).op = "arrive"
    /\ Len(flight[w]) <= Current(w).num
    /\ Advance(w)
    /\ UNCHANGED <<kernel, flight, smem, operands>>

BarrierShared ==
    /\ \A w \in Warps : Running(w) /\ Current(w).op = "barrier"
    /\ at' = [w \in Warps |-> Following(at[w])]
    /\ UNCHANGED <<kernel, flight, smem, operands>>

\* A local load is done when the warp reaches the next barrier; nothing of
\* the warp's that matters to others comes between, so it reads in one step.
LocalLoad(w) ==
    /\ Running(w) /\ Current(w).op = "read"
    /\ LET l == Current(w).load
       IN  operands' = [operands EXCEPT ![w][l] =
               {smem[<<l, Current(w).slot, v, p>>] : v \in Warps, p \in Current(w).parts \cap 1..parts[l]}]
    /\ Advance(w)
    /\ UNCHANGED <<kernel, flight, smem>>

DotOp(w) ==
    /\ Running(w) /\ Current(w).op = "dot"
    /\ Advance(w)
    /\ UNCHANGED <<kernel, flight, smem, operands>>

LocalStore(w) ==
    /\ Running(w) /\ Current(w).op = "store"
    /\ LET l == Current(w).load
       IN  smem' = [c \in DOMAIN smem |->
                       IF c[1] = l /\ c[2] = Current(w).slot /\ c[3] = w
                       THEN Loaded(Current(w).num, Current(w).iter) ELSE smem[c]]
    /\ Advance(w)
    /\ UNCHANGED <<kernel, flight, operands>>

Done ==
    /\ \A w \in Warps : ~Running(w) /\ flight[w] = <<>>
    /\ UNCHANGED warpVars

Step(w) == AsyncCopy(w) \/ Land(w) \/ GVMArrive(w) \/ LocalLoad(w) \/ DotOp(w) \/ LocalStore(w)

WarpNext == (\E w \in Warps : Step(w)) \/ BarrierShared \/ Done

\* Before the first operation; slots is the number of buffers of each load.
Started(slots) ==
    /\ at = [w \in Warps |-> [block |-> 1, index |-> 1]]
    /\ flight = [w \in Warps |-> <<>>]
    /\ smem = [c \in UNION {{l} \X (0..slots - 1) \X Warps \X (1..parts[l]) : l \in Loads} |-> Zero]
    /\ operands = [w \in Warps |-> [l \in Loads |-> {}]]

-----------------------------------------------------------------------------
(* Properties of every kernel the passes write. *)

Copied(l) ==
    \E b \in 1..Len(prog) : \E j \in 1..Len(prog[b]) : prog[b][j].op = "copy" /\ prog[b][j].load = l

\* What a load returns in iteration i, but that a copy knows no `other'.
LoadedOrZero(l, i) == IF <<l, i>> \in masked /\ Copied(l) THEN Zero ELSE Loaded(l, i)

\* Every operand of the dot of an iteration is what the source program's
\* loads return in that iteration, for the elements of all warps: no copy or
\* store of another iteration is there too early, and none is still missing.
\* A masked element is zero instead of `other' where the load became a copy.
DotsUseOwnIteration ==
    \A w \in Warps :
        Running(w) /\ Current(w).op = "dot" /\ Current(w).iter < trip =>
            \A l \in Loads : operands[w][l] = {LoadedOrZero(l, Current(w).iter)}

\* When a warp is past the loop no copy of any warp is in flight: the memory
\* of the buffers is free for whatever comes next.
QuietAfterLoop ==
    (\E w \in Warps : ~Running(w)) => \A v \in Warps : flight[v] = <<>>

=============================================================================
