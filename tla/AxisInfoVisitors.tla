-------------------------- MODULE AxisInfoVisitors --------------------------
(***************************************************************************)
(* What the compiler knows of the integers and pointers in a tensor along   *)
(* each dimension, and what it concludes for the result of an operation.    *)
(* A tensor is kept next to what is known of it.                            *)
(***************************************************************************)
EXTENDS DistributedLayout, FiniteSetsExt, Bitwise

CONSTANTS
    Width,        \* bits of an integer
    MaxDivisor    \* the largest power of two that is told apart

-----------------------------------------------------------------------------
(* Values.  An elemSize of 0 means integers; else pointers to so many bytes. *)

Tensor(shape, elemSize, val, info) == [shape |-> shape, elemSize |-> elemSize, val |-> val, info |-> info]
Info(contiguity, divisibility, constancy, constant) ==
    [contiguity |-> contiguity, divisibility |-> divisibility, constancy |-> constancy, constant |-> constant]

getRank(info) == Len(info.contiguity)
hasConstantValue(info) == info.constant # <<>>

\* Any constant is taken for the one that is asked for.
isConstantValue_any(info, n) == hasConstantValue(info)

isConstantValue(info, n) == info.constant = <<n>>

larger(a, b) == IF a < b THEN b ELSE a
quotient(a, b) ==   \* rounded towards zero
    LET abs(n) == IF n < 0 THEN -n ELSE n
        q == abs(a) \div abs(b)
    IN  IF (a < 0) = (b < 0) THEN q ELSE -q

RECURSIVE gcd(_, _)
gcd(a, b) == IF a = 0 THEN b ELSE gcd(b % a, a)

multiplyDivisor(lhs, rhs) == IF lhs > MaxDivisor \div rhs THEN MaxDivisor ELSE lhs * rhs

RECURSIVE highestPowOf2Divisor(_)
highestPowOf2Divisor(n) ==
    IF n = 0 THEN MaxDivisor ELSE IF n % 2 = 1 THEN 1 ELSE 2 * highestPowOf2Divisor(n \div 2)

Each(shape, n) == [d \in DOMAIN shape |-> n]
ones(rank) == [d \in 1..rank |-> 1]
rankOf(shape) == IF shape = <<>> THEN 1 ELSE Len(shape)
getPessimisticValueState(shape) == Info(ones(rankOf(shape)), ones(rankOf(shape)), ones(rankOf(shape)), <<>>)

join(a, b) ==
    LET dims(f(_), g(_)) == [d \in 1..getRank(a) |-> gcd(f(d), g(d))]
    IN  Info(dims(LAMBDA d : a.contiguity[d], LAMBDA d : b.contiguity[d]),
             dims(LAMBDA d : a.divisibility[d], LAMBDA d : b.divisibility[d]),
             dims(LAMBDA d : a.constancy[d], LAMBDA d : b.constancy[d]),
             IF a.constant = b.constant THEN a.constant ELSE <<>>)

-----------------------------------------------------------------------------
(* Operations without operands from the chain. *)

MakeRange(start, end) ==
    Tensor(<<end - start>>, 0, [x \in Elements(<<end - start>>) |-> start + x[1]],
           Info(<<end - start>>, <<highestPowOf2Divisor(start)>>, <<1>>, <<>>))

\* The constant is read without its sign.
getZExtValue(n) == IF n < 0 THEN n + 2 ^ Width ELSE n

Constant(shape, n) ==
    LET c == getZExtValue(n)
    IN  Tensor(shape, 0, [x \in Elements(shape) |-> n],
               Info(ones(rankOf(shape)), [d \in 1..rankOf(shape) |-> highestPowOf2Divisor(c)],
                    IF shape = <<>> THEN <<1>> ELSE shape, <<c>>))

\* An argument of the kernel with the divisibility that its specialisation promises.
Argument(n, divisibility, elemSize) ==
    Tensor(<<>>, elemSize, [x \in {<<>>} |-> n], Info(<<1>>, <<divisibility>>, <<1>>, <<>>))

\* A tensor that nothing is known of.
Loaded(shape, val) == Tensor(shape, 0, val, getPessimisticValueState(shape))

Splat(v, shape) ==
    Tensor(shape, v.elemSize, [x \in Elements(shape) |-> v.val[<<>>]],
           Info(ones(Len(shape)), Each(shape, v.info.divisibility[1]), shape, v.info.constant))

-----------------------------------------------------------------------------
(* Binary operations. *)

Shifts == {"shl", "shr"}
Logical == {"and", "or", "xor"}
Quotients == {"div", "rem"}
BinaryOps == {"add", "sub", "mul", "addptr"} \union Quotients \union Logical \union Shifts
MaxMinOps == {"max", "min"}

isDefined(op, a, b) ==
    /\ op \in Quotients => b # 0
    /\ op \in Shifts => b \in 0..Width - 1
    /\ op \in Logical => a >= 0 /\ b >= 0
    /\ op = "shl" => b <= 10

Compute(op, a, b) ==
    CASE op = "add" -> a + b
      [] op = "sub" -> a - b
      [] op = "mul" -> a * b
      [] op = "div" -> quotient(a, b)
      [] op = "rem" -> a - b * quotient(a, b)
      [] op = "and" -> a & b
      [] op = "or"  -> a | b
      [] op = "xor" -> a ^^ b
      [] op = "shl" -> a * 2 ^ b
      [] op = "shr" -> a \div 2 ^ b
      [] op = "max" -> larger(a, b)
      [] op = "min" -> atMost(a, b)

\* What is added to a pointer counts elements.
scale(op, lhs) == IF op = "addptr" THEN larger(1, lhs.elemSize) ELSE 1
pointwise(op) == IF op = "addptr" THEN "add" ELSE op

\* A division by one is taken for its remainder.
getConstantValue_one(op, l, r, elemSize) ==
    IF hasConstantValue(l) /\ hasConstantValue(r)
    THEN <<Compute(pointwise(op), l.constant[1], r.constant[1] * elemSize)>>
    ELSE IF op \in Quotients /\ isConstantValue(r, 1) THEN <<0>> ELSE <<>>

getConstantValue(op, l, r, elemSize) ==
    IF hasConstantValue(l) /\ hasConstantValue(r)
    THEN <<Compute(pointwise(op), l.constant[1], r.constant[1] * elemSize)>>
    ELSE IF op = "rem" /\ isConstantValue(r, 1) THEN <<0>> ELSE <<>>

\* All of a dimension is contiguous on the left and constant on the right.
ContiguousByConstant(l, r, shape, d) ==
    shape # <<>> /\ l.contiguity[d] = shape[d] /\ r.constancy[d] = shape[d]

CommonDivisor(contiguous, other, d) ==
    gcd(contiguous.contiguity[d], gcd(contiguous.divisibility[d], other.divisibility[d]))

getContiguity(op, l, r, shape, d) ==
    CASE op \in {"add", "sub", "addptr"} ->
             larger(gcd(l.constancy[d], r.contiguity[d]), gcd(l.contiguity[d], r.constancy[d]))
      [] op = "mul" -> larger(IF isConstantValue(r, 1) THEN l.contiguity[d] ELSE 1,
                              IF isConstantValue(l, 1) THEN r.contiguity[d] ELSE 1)
      [] op = "div" -> IF isConstantValue(r, 1) THEN l.contiguity[d] ELSE 1
      [] op = "rem" -> IF ContiguousByConstant(l, r, shape, d) THEN CommonDivisor(l, r, d) ELSE 1
      [] op \in Shifts -> IF isConstantValue(r, 0) THEN l.contiguity[d] ELSE 1
      [] op \in Logical -> 1

getConstancy(op, l, r, shape, d) ==
    LET both == gcd(l.constancy[d], r.constancy[d])
    IN  CASE op \in Quotients /\ shape = <<>> -> 1
          [] op = "div" /\ ContiguousByConstant(l, r, shape, d) -> larger(both, CommonDivisor(l, r, d))
          [] op = "rem" /\ isConstantValue(r, 1) -> shape[d]
          [] OTHER -> both

\* A factor keeps its divisor though its elements follow one another.
alone_all(info, other, d) == info.divisibility[d]

\* The first element of a contiguous group says nothing of the others.
alone(info, other, d) ==
    IF info.contiguity[d] > 1 /\ ~ isConstantValue(other, 1) THEN 1 ELSE info.divisibility[d]

\* A shift by something unknown counts as one by its divisibility.
shiftOf(r, d) == IF hasConstantValue(r) THEN r.constant[1] ELSE r.divisibility[d]
\* The analysis shifts an int by it, which must not be longer.
isAnalysable(r) == \A d \in 1..getRank(r) : shiftOf(r, d) < 16
shifted(l, r, d) == IF l.contiguity[d] > 1 /\ shiftOf(r, d) # 0 THEN 1 ELSE l.divisibility[d]

getDivisibility(op, l, r, elemSize, d) ==
    CASE op \in {"add", "sub", "rem"} -> gcd(l.divisibility[d], r.divisibility[d])
      [] op = "addptr" -> gcd(l.divisibility[d], multiplyDivisor(r.divisibility[d], elemSize))
      [] op = "mul" -> multiplyDivisor(alone(l, r, d), alone(r, l, d))
      [] op = "div" -> IF isConstantValue(l, 0) \/ isConstantValue(r, 1) THEN l.divisibility[d] ELSE 1
      [] op = "shl" -> multiplyDivisor(shifted(l, r, d), 2 ^ shiftOf(r, d))
      [] op = "shr" -> larger(1, shifted(l, r, d) \div 2 ^ shiftOf(r, d))
      [] op \in Logical -> 1

BinaryInfo(op, l, r, shape, elemSize) ==
    LET c == getConstantValue(op, l, r, elemSize)
        dims(f(_)) == [d \in 1..getRank(l) |-> f(d)]
    IN  IF c # <<>>
        THEN Info(ones(getRank(l)), dims(LAMBDA d : highestPowOf2Divisor(c[1])),
                  dims(LAMBDA d : larger(l.constancy[d], r.constancy[d])), c)
        ELSE Info(dims(LAMBDA d : getContiguity(op, l, r, shape, d)),
                  dims(LAMBDA d : getDivisibility(op, l, r, elemSize, d)),
                  dims(LAMBDA d : getConstancy(op, l, r, shape, d)), <<>>)

MaxMinInfo(op, l, r) ==
    LET dims(f, g) == [d \in 1..getRank(l) |-> atMost(f[d], g[d])]
    IN  IF hasConstantValue(l) /\ hasConstantValue(r)
        THEN Info(ones(getRank(l)), ones(getRank(l)), ones(getRank(l)), <<Compute(op, l.constant[1], r.constant[1])>>)
        ELSE Info(dims(l.contiguity, r.contiguity), dims(l.divisibility, r.divisibility),
                  dims(l.constancy, r.constancy), <<>>)

Binary(op, lhs, rhs) ==
    LET elemSize == scale(op, lhs)
    IN  Tensor(lhs.shape, IF op = "addptr" THEN lhs.elemSize ELSE 0,
               [x \in DOMAIN lhs.val |-> Compute(pointwise(op), lhs.val[x], elemSize * rhs.val[x])],
               IF op \in MaxMinOps THEN MaxMinInfo(op, lhs.info, rhs.info)
               ELSE BinaryInfo(op, lhs.info, rhs.info, lhs.shape, elemSize))

-----------------------------------------------------------------------------
(* Comparisons, selections and loads. *)

Predicates == {"eq", "ne", "lt", "le", "gt", "ge"}

compare(predicate, a, b) ==
    CASE predicate = "eq" -> a = b
      [] predicate = "ne" -> a # b
      [] predicate = "lt" -> a < b
      [] predicate = "le" -> a <= b
      [] predicate = "gt" -> a > b
      [] predicate = "ge" -> a >= b
bit(b) == IF b THEN 1 ELSE 0

CmpInfo(predicate, l, r, shape) ==
    LET constants == hasConstantValue(l) /\ hasConstantValue(r)
        both(d) == gcd(l.constancy[d], r.constancy[d])
        constHint(d) ==
            IF constants THEN l.constancy[d]
            ELSE IF predicate \in {"gt", "le"} /\ l.constancy[d] = shape[d] THEN larger(both(d), CommonDivisor(r, l, d))
            ELSE IF predicate \in {"lt", "ge"} /\ r.constancy[d] = shape[d] THEN larger(both(d), CommonDivisor(l, r, d))
            ELSE both(d)
    IN  Info(Each(shape, 1), Each(shape, 1), [d \in DOMAIN shape |-> constHint(d)],
             IF constants THEN <<bit(compare(predicate, l.constant[1], r.constant[1]))>> ELSE <<>>)

\* Nothing is concluded for scalars.
Cmp(predicate, lhs, rhs) ==
    Tensor(lhs.shape, 0, [x \in DOMAIN lhs.val |-> bit(compare(predicate, lhs.val[x], rhs.val[x]))],
           IF lhs.shape = <<>> THEN getPessimisticValueState(<<>>) ELSE CmpInfo(predicate, lhs.info, rhs.info, lhs.shape))

\* By a single condition one of the tensors is taken whole; by a tensor of
\* conditions its groups decide.
SelectInfo(c, l, r, scalar) ==
    LET within(f, g, d) == IF scalar THEN atMost(f[d], g[d])
                           ELSE atMost(gcd(f[d], c.constancy[d]), gcd(g[d], c.constancy[d]))
        contiguity(d) == within(l.contiguity, r.contiguity, d)
        divisibility(d) ==
            IF scalar THEN atMost(l.divisibility[d], r.divisibility[d])
            ELSE IF contiguity(d) = l.contiguity[d] /\ contiguity(d) = r.contiguity[d]
            THEN gcd(l.divisibility[d], r.divisibility[d])
            ELSE atMost(gcd(l.divisibility[d], contiguity(d)), gcd(r.divisibility[d], contiguity(d)))
        dims(f(_)) == [d \in 1..getRank(l) |-> f(d)]
    IN  IF hasConstantValue(c) THEN (IF isConstantValue(c, 0) THEN r ELSE l)
        ELSE Info(dims(contiguity), dims(divisibility), dims(LAMBDA d : within(l.constancy, r.constancy, d)),
                  IF l.constant = r.constant THEN l.constant ELSE <<>>)

Select(cond, lhs, rhs) ==
    LET taken(x) == IF cond.shape = <<>> THEN cond.val[<<>>] # 0 ELSE cond.val[x] # 0
    IN  Tensor(lhs.shape, lhs.elemSize, [x \in DOMAIN lhs.val |-> IF taken(x) THEN lhs.val[x] ELSE rhs.val[x]],
               SelectInfo(cond.info, lhs.info, rhs.info, cond.shape = <<>>))

\* What is in memory: anything, but the same for the same address.
Memory(address) == (address * 7 + 3) % 16

\* The mask is forgotten.
Load_unmasked(ptr, mask, other) ==
    Tensor(ptr.shape, 0, [x \in DOMAIN ptr.val |-> IF mask.val[x] # 0 THEN Memory(ptr.val[x]) ELSE other.val[x]],
           Info(Each(ptr.shape, 1), Each(ptr.shape, 1), ptr.info.constancy, <<>>))

\* other takes the place of what the mask leaves out.  A load without a mask is
\* one whose mask is true everywhere.
Load(ptr, mask, other) ==
    Tensor(ptr.shape, 0, [x \in DOMAIN ptr.val |-> IF mask.val[x] # 0 THEN Memory(ptr.val[x]) ELSE other.val[x]],
           Info(Each(ptr.shape, 1), Each(ptr.shape, 1),
                [d \in DOMAIN ptr.shape |-> gcd(ptr.info.constancy[d], mask.info.constancy[d])], <<>>))

-----------------------------------------------------------------------------
(* Operations on the shape. *)

ExpandDims(v, axis) ==
    LET shape == InsertAt(v.shape, axis, 1)
        divisibility ==
            IF hasConstantValue(v.info) THEN highestPowOf2Divisor(v.info.constant[1])
            ELSE FoldLeft(gcd, 0, [d \in DOMAIN v.shape |->
                     IF v.info.contiguity[d] > 1 THEN 1 ELSE v.info.divisibility[d]])
    IN  Tensor(shape, v.elemSize, [x \in Elements(shape) |-> v.val[RemoveAt(x, axis)]],
               Info(InsertAt(v.info.contiguity, axis, 1), InsertAt(v.info.divisibility, axis, divisibility),
                    InsertAt(v.info.constancy, axis, 1), v.info.constant))

Broadcast(v, shape) ==
    LET dims(f, one) == [d \in DOMAIN shape |-> IF v.shape[d] = 1 THEN one[d] ELSE f[d]]
    IN  Tensor(shape, v.elemSize,
               [x \in Elements(shape) |-> v.val[[d \in DOMAIN shape |-> IF v.shape[d] = 1 THEN 0 ELSE x[d]]]],
               Info(dims(v.info.contiguity, Each(shape, 1)), v.info.divisibility, dims(v.info.constancy, shape),
                    v.info.constant))

-----------------------------------------------------------------------------
(* What the numbers that are known of a tensor say. *)

strideOf(v) == larger(1, v.elemSize)

\* Of two neighbours along d, whether they are in the same group of n.
Grouped(x, d, n) == (x[d] + 1) % n # 0
Neighbours(v, d) == {x \in DOMAIN v.val : x[d] + 1 < v.shape[d]}
after(x, d) == [x EXCEPT ![d] = @ + 1]

Contiguous(v, info) ==
    \A d \in DOMAIN v.shape : \A x \in Neighbours(v, d) :
        Grouped(x, d, info.contiguity[d]) => v.val[after(x, d)] = v.val[x] + strideOf(v)
Repeating(v, info) ==
    \A d \in DOMAIN v.shape : \A x \in Neighbours(v, d) :
        Grouped(x, d, info.constancy[d]) => v.val[after(x, d)] = v.val[x]
Divisible(v, info) ==
    \A d \in 1..rankOf(v.shape) : \A x \in DOMAIN v.val :
        (v.shape = <<>> \/ x[d] % info.contiguity[d] = 0) => v.val[x] % info.divisibility[d] = 0
Known(v, info) ==
    hasConstantValue(info) => \A x \in DOMAIN v.val : (v.val[x] - info.constant[1]) % (2 ^ Width) = 0

=============================================================================
