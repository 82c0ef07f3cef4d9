------------------------------ MODULE AxisInfo ------------------------------
(***************************************************************************)
(* Chains of operations, as in the code of a kernel between two branches:   *)
(* each operation takes the result of the one before and, perhaps, an       *)
(* operand from outside the chain.                                          *)
(***************************************************************************)
EXTENDS AxisInfoVisitors

CONSTANTS
    Chains,       \* kinds of chains: the values they start with, the other operands,
                  \* the names of the operations, and the length: a bound
    Layouts,      \* layouts that tensors of pointers have when they are accessed
    Limit         \* bound on the integers: nothing overflows

VARIABLES
    kind,         \* of the chain
    value,        \* a tensor or, without dimensions, a scalar
    length

vars == <<kind, value, length>>

-----------------------------------------------------------------------------
(* A chain of operations. *)

Sources == Chains[kind].sources
Operations == Chains[kind].operations

Init ==
    /\ kind \in DOMAIN Chains
    /\ value \in Chains[kind].starts
    /\ length = 0

InLimits(v) == \A x \in DOMAIN v.val : v.val[x] \in -Limit..Limit

Then(v) ==
    /\ length < Chains[kind].length
    /\ InLimits(v)
    /\ value' = v
    /\ length' = length + 1
    /\ UNCHANGED kind

\* The operands of an operation in either order.
Operands == {<<value, s>> : s \in Sources} \union {<<s, value>> : s \in Sources}
Alike(lhs, rhs) == lhs.shape = rhs.shape /\ lhs.elemSize = 0 /\ rhs.elemSize = 0

VisitBinary ==
    \E op \in Operations \intersect ((BinaryOps \ {"addptr"}) \union MaxMinOps), p \in Operands :
        /\ Alike(p[1], p[2])
        /\ \A x \in DOMAIN p[1].val : isDefined(op, p[1].val[x], p[2].val[x])
        /\ op \in Shifts => isAnalysable(p[2].info)
        /\ Then(Binary(op, p[1], p[2]))

VisitAddPtr ==
    /\ "addptr" \in Operations
    /\ value.elemSize = 0
    /\ \E s \in Sources : s.elemSize > 0 /\ s.shape = value.shape /\ Then(Binary("addptr", s, value))

VisitCmp ==
    /\ "cmp" \in Operations
    /\ \E predicate \in Predicates, p \in Operands : Alike(p[1], p[2]) /\ Then(Cmp(predicate, p[1], p[2]))

VisitSelect ==
    /\ "select" \in Operations
    /\ \E c \in Sources, p \in Operands :
           /\ Alike(p[1], p[2])
           /\ c.elemSize = 0
           /\ c.shape \in {<<>>, value.shape}
           /\ Then(Select(c, p[1], p[2]))

VisitLoad ==
    /\ "load" \in Operations
    /\ value.elemSize > 0
    /\ \E mask \in Sources, other \in Sources :
           /\ Alike(mask, other)
           /\ mask.shape = value.shape
           /\ Then(Load(value, mask, other))

VisitExpandDims ==
    /\ "expand" \in Operations
    /\ Len(value.shape) = 1
    /\ \E axis \in 1..2 : Then(ExpandDims(value, axis))

VisitBroadcast ==
    /\ "broadcast" \in Operations
    /\ \E s \in Sources :
           /\ Len(s.shape) = Len(value.shape)
           /\ \A d \in DOMAIN s.shape : value.shape[d] \in {1, s.shape[d]}
           /\ s.shape # value.shape
           /\ Then(Broadcast(value, s.shape))

Next ==
    \/ VisitBinary
    \/ VisitAddPtr
    \/ VisitCmp
    \/ VisitSelect
    \/ VisitLoad
    \/ VisitExpandDims
    \/ VisitBroadcast

Spec == Init /\ [][Next]_vars

-----------------------------------------------------------------------------
(* What is known is so. *)

isPowerOf2(n) == \E k \in 0..12 : n = 2 ^ k

\* The numbers that are known of each dimension are powers of two.
TypeOK ==
    LET info == value.info
    IN  \A d \in 1..rankOf(value.shape) :
            isPowerOf2(info.contiguity[d]) /\ isPowerOf2(info.divisibility[d]) /\ isPowerOf2(info.constancy[d])

\* Along each dimension the tensor is made of sequences of consecutive
\* integers, of the length that is known.
ContiguityHolds == Contiguous(value, value.info)

\* The same of sequences of equal integers.
ConstancyHolds == Repeating(value, value.info)

\* The first integer of each contiguous sequence has the divisor that is known.
DivisibilityHolds == Divisible(value, value.info)

\* A constant that is known is the value of every element.
ConstantHolds == Known(value, value.info)

-----------------------------------------------------------------------------
(* What is made of it: vectors of elements that are accessed at once. *)

\* The divisor counts bytes and is taken for elements.
getPtrAlignment_bytes(v, layout) ==
    LET d == getOrder(layout)[1] IN atMost(v.info.divisibility[d], v.info.contiguity[d])

getPtrAlignment(v, layout) ==
    LET d == getOrder(layout)[1]
        maxMultiple == larger(v.info.divisibility[d] \div larger(v.elemSize, 1), 1)
    IN  atMost(maxMultiple, v.info.contiguity[d])

getPtrContiguity(v, layout) ==
    atMost(getPtrAlignment(v, layout), getUniqueContigPerThread(layout, v.shape)[getOrder(layout)[1]])

\* The elements that a thread accesses at once are next to each other in
\* memory, and start at a multiple of their size.
VectorsAligned ==
    (value.elemSize > 0 /\ value.shape # <<>>) =>
        \A layout \in {L \in Layouts : Len(L.size) = Len(value.shape)} :
            LET d == getOrder(layout)[1]
                vec == getPtrContiguity(value, layout)
            IN  \A x \in DOMAIN value.val :
                    /\ x[d] % vec = 0 => value.val[x] % (vec * value.elemSize) = 0
                    /\ (x[d] + 1 < value.shape[d] /\ Grouped(x, d, vec)) =>
                           value.val[after(x, d)] = value.val[x] + value.elemSize

=============================================================================
