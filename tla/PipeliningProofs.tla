--------------------------- MODULE PipeliningProofs ---------------------------
(***************************************************************************)
(* Proofs about the software pipeliners.                                    *)
(*                                                                         *)
(* PipelineExpander, for every number of operations, any arguments and any  *)
(* loops: the pipelined loop runs every operation once for each iteration,  *)
(* on the operands of that iteration, and implements the loop it was made   *)
(* from.                                                                    *)
(*                                                                         *)
(* MacaAsyncPipeline, for any number of warps, loads, stages and iterations *)
(* and any tiles: every operand of a dot is what the loads of its iteration *)
(* return, and no copy is in flight after the loop.                         *)
(***************************************************************************)
EXTENDS PipelineExpander, MacaAsyncPipeline,
        FiniteSetTheorems, SequenceTheorems, WellFoundedInduction, TLAPS

\* The inductive invariant, and the loop it is about.
Inv == loop \in Loops /\ ExpanderInv

-----------------------------------------------------------------------------
(* Stages. *)

\* A finite set of numbers that is not empty has a largest member: the one
\* with the fewest members above it.
LEMMA LargestExists ==
    ASSUME NEW S \in SUBSET Nat, IsFiniteSet(S), S # {}
    PROVE  LargestOf(S) \in S /\ \A x \in S : x <= LargestOf(S)
<1> DEFINE From(m) == {x \in S : x >= m}
           Sizes == {Cardinality(From(m)) : m \in S}
<1>1. \A m \in S : IsFiniteSet(From(m)) /\ Cardinality(From(m)) \in Nat
  BY FS_Subset, FS_CardinalityType
<1>2. Sizes \subseteq Nat /\ Sizes # {}
  BY <1>1
<1>3. PICK c \in Sizes : \A d \in Sizes : <<d, c>> \notin OpToRel(<, Nat)
  BY <1>2, WFMin, NatLessThanWellFounded
<1>4. PICK m \in S : c = Cardinality(From(m))
  BY <1>3
<1>5. ASSUME NEW x \in S PROVE x <= m
  <2>1. SUFFICES ASSUME x > m PROVE FALSE
    BY <1>5, <1>4
  <2>2. From(x) \subseteq From(m) /\ m \in From(m) /\ m \notin From(x)
    BY <2>1, <1>4, <1>5
  <2>3. Cardinality(From(x)) <= Cardinality(From(m)) /\ Cardinality(From(x)) # Cardinality(From(m))
    BY <2>2, <1>1, <1>4, FS_Subset
  <2>4. Cardinality(From(x)) < c /\ c \in Nat
    BY <2>3, <1>1, <1>4
  <2> QED
    BY <2>4, <1>1, <1>3 DEF OpToRel
<1> QED
  BY <1>4, <1>5 DEF LargestOf

\* The stages of some operations have a largest.
LEMMA LargestStage ==
    ASSUME loop \in Loop, NEW U \in SUBSET Op, U # {}
    PROVE  /\ LargestOf({stage(o) : o \in U}) \in {stage(o) : o \in U}
           /\ LargestOf({stage(o) : o \in U}) \in Nat
           /\ \A o \in U : stage(o) \in Nat /\ stage(o) <= LargestOf({stage(o2) : o2 \in U})
<1> DEFINE S == {stage(o) : o \in U}
           f == [o \in U |-> stage(o)]
<1>1. \A o \in Op : stage(o) \in Nat
  BY DEF Loop, stage
<1>2. IsFiniteSet(U)
  <2>1. 1 \in Int /\ OpCount \in Int
    BY OpAssumption
  <2>2. IsFiniteSet(Op)
    BY <2>1, FS_Interval DEF Op
  <2> QED
    BY <2>2, FS_Subset
<1>3. f \in Surjection(U, S)
  BY DEF Surjection
<1>4. IsFiniteSet(S)
  BY <1>2, <1>3, FS_Surjection
<1>5. S \in SUBSET Nat /\ S # {}
  BY <1>1
<1>6. LargestOf(S) \in S /\ \A x \in S : x <= LargestOf(S)
  BY <1>4, <1>5, LargestExists
<1> QED
  BY <1>1, <1>5, <1>6


-----------------------------------------------------------------------------
(* What a loop gives. *)

\* Names of different kinds differ.
LEMMA Names ==
    /\ Op \subseteq Nat /\ OpCount \in Op /\ 1 \in Op
    /\ Op \cap Arg = {} /\ IV \notin Op /\ IV \notin Arg
    /\ Outside \notin Op /\ Outside \notin Arg
    /\ \A v \in Value, d \in Nat : <<v, d>> \notin Arg
<1>1. Op \subseteq Nat /\ Op \subseteq Int /\ OpCount \in Op /\ 1 \in Op
  BY OpAssumption DEF Op
<1>2. Op \cap Arg = {} /\ IV \notin Arg /\ Outside \notin Arg /\ IV \notin Op /\ Outside \notin Op
  BY <1>1, NamesAssumption
<1>3. \A v \in Value, d \in Nat : <<v, d>> \notin Arg
  BY NamesAssumption
<1> QED
  BY <1>1, <1>2, <1>3

\* The stages lie between 0 and the largest; an argument is given the result of
\* an operation or a value from outside; a loop with an epilogue has more
\* iterations than stages.
LEMMA LoopFacts ==
    ASSUME loop \in Loops
    PROVE  /\ loop \in Loop /\ loop.n \in Nat /\ loop.peel \in BOOLEAN /\ loop.used \subseteq Arg
           /\ maxStage \in Nat /\ \A o \in Op : stage(o) \in Nat /\ stage(o) <= maxStage
           /\ \A o \in Op : loop.reads[o] \subseteq Value /\ o \notin loop.reads[o]
           /\ \A a \in Arg : /\ Def(a) \in Op \cup {Outside} /\ Def(a) = loop.yield[a]
                            /\ (HasDef(a) <=> Def(a) \in Op) /\ Distance(a) = 1
           /\ \A o \in Op : Def(o) = o /\ HasDef(o) /\ Distance(o) = 0
           /\ ~HasDef(IV)
           /\ dynamicLoop \in BOOLEAN /\ (loop.peel /\ ~dynamicLoop => loop.n > maxStage)
           /\ \A a \in Arg : HasDef(a) /\ Returned(a) /\ ~loop.peel
                              => loop.n >= maxStage - stage(Def(a))
<1>1. loop \in Loop /\ \A o \in Op : o \notin loop.reads[o]
  BY LoopAssumption
<1>2. loop.n \in Nat /\ loop.peel \in BOOLEAN /\ loop.used \subseteq Arg /\ loop.constant \in BOOLEAN
  BY <1>1 DEF Loop
<1>3. \A o \in Op : loop.reads[o] \subseteq Value
  BY <1>1 DEF Loop
<1>4. maxStage \in Nat /\ \A o \in Op : stage(o) \in Nat /\ stage(o) <= maxStage
  <2>1. maxStage = LargestOf({stage(o) : o \in Op})
    BY DEF maxStage, StagesOf, stage
  <2> QED
    BY <1>1, <2>1, Names, LargestStage
<1>5. \A a \in Arg : Def(a) = loop.yield[a] /\ Def(a) \in Op \cup {Outside} /\ Distance(a) = 1
  BY <1>1 DEF Loop, Def, Distance
<1>6. (\A o \in Op : Def(o) = o /\ HasDef(o) /\ Distance(o) = 0) /\ ~HasDef(IV)
  BY Names DEF Def, HasDef, Distance
<1>7. loop.peel /\ ~dynamicLoop => loop.n > maxStage
  <2>1. loop.peel /\ loop.constant => loop.n = 0 \/ loop.n > StagesOf(loop)
    BY LoopAssumption
  <2> QED
    BY <1>2, <2>1 DEF dynamicLoop, maxStage
<1>8. \A a \in Arg : HasDef(a) /\ Returned(a) /\ ~loop.peel => loop.n >= maxStage - stage(Def(a))
  BY DEF Returned
<1> QED
  BY <1>1, <1>2, <1>3, <1>4, <1>5, <1>6, <1>7, <1>8 DEF HasDef, dynamicLoop

\* A value as the source loop sees it.
LEMMA AtFacts ==
    ASSUME loop \in Loops
    PROVE  /\ \A o \in Op, k \in Int : Plain!At(o, k) = <<o, k>>
           /\ \A k \in Int : Plain!At(IV, k) = <<IV, k>>
           /\ \A a \in Arg : Plain!At(a, 0) = <<a, 0>>
           /\ \A a \in Arg, k \in Int : k # 0 /\ HasDef(a) => Plain!At(a, k) = <<Def(a), k - 1>>
           /\ \A a \in Arg, k \in Int : k # 0 /\ ~HasDef(a) => Plain!At(a, k) = <<Outside, 0>>
<1>1. [loop EXCEPT !.used = {a \in @ : Returned(a)}].yield = loop.yield
  BY LoopFacts DEF Loop
<1>2. \A a \in Arg : /\ loop.yield[a] = Def(a) /\ (HasDef(a) <=> Def(a) # Outside)
                    /\ Def(a) \in Op \cup {Outside}
  BY LoopFacts, Names
<1> QED
  BY <1>1, <1>2, Names DEF Plain!At

\* While the loop stays the same, so does everything that is read off it.
LEMMA SameLoop ==
    ASSUME loop' = loop
    PROVE  /\ maxStage' = maxStage /\ Version' = Version /\ \A o : stage(o)' = stage(o)
           /\ \A v : Def(v)' = Def(v) /\ (HasDef(v)' <=> HasDef(v))
           /\ (verifySchedule' <=> verifySchedule) /\ (dynamicLoop' <=> dynamicLoop)
           /\ CrossStageValues' = CrossStageValues /\ \A v : Span(v)' = Span(v)
           /\ LoopArgs' = LoopArgs /\ KernelIterations' = KernelIterations
           /\ Instances' = Instances
           /\ \A a : Returned(a)' <=> Returned(a)
           /\ \A v, k : Plain!At(v, k)' = Plain!At(v, k)
BY DEF maxStage, StagesOf, Version, stage, Def, HasDef, verifySchedule, Distance, dynamicLoop,
       CrossStageValues, CrossesStages, Span, lastUseStage, LoopArgs, KernelIterations, Instances,
       Returned, Plain!At


-----------------------------------------------------------------------------
(* What the schedule gives. *)

\* Positions in a schedule of N operations a stage.
LEMMA Positions ==
    ASSUME NEW N \in Nat \ {0}, NEW o \in 1..N, NEW d \in 1..N, NEW p \in Int, NEW q \in Int,
           o + p * N >= d + q * N
    PROVE  q <= p /\ (q = p => d <= o)
<1>1. ASSUME q > p PROVE FALSE
  <2>1. (q - p - 1) \in Nat /\ (q - p - 1) * N >= 0
    BY <1>1
  <2>2. q * N = p * N + N + (q - p - 1) * N
    OBVIOUS
  <2> QED
    BY <2>1, <2>2
<1> QED
  BY <1>1

\* In a valid schedule an operation comes after the one that defines what it
\* reads, counting the iteration in between for an argument.
LEMMA ReadsLater ==
    ASSUME loop \in Loops, verifySchedule,
           NEW o \in Op, NEW v \in loop.reads[o], HasDef(v)
    PROVE  /\ v \in Op \cup Arg /\ HasDef(v) /\ Def(v) \in Op /\ v # IV
           /\ stage(Def(v)) - Distance(v) <= stage(o)
           /\ stage(Def(v)) - Distance(v) = stage(o) => Def(v) < o
<1>1. v \in Op \cup Arg /\ HasDef(v) /\ Def(v) \in Op /\ Distance(v) \in {0, 1} /\ v # IV
  BY LoopFacts DEF Value, HasDef
<1>2. o + stage(o) * OpCount >= Def(v) + stage(Def(v)) * OpCount - OpCount * Distance(v)
  BY <1>1 DEF verifySchedule
<1>3. stage(o) \in Nat /\ stage(Def(v)) \in Nat /\ OpCount \in Nat \ {0} /\ Distance(v) \in Nat
  BY <1>1, LoopFacts, OpAssumption
<1>4. stage(Def(v)) * OpCount - OpCount * Distance(v) = (stage(Def(v)) - Distance(v)) * OpCount
  BY <1>3
<1>5. /\ stage(Def(v)) - Distance(v) <= stage(o)
      /\ stage(Def(v)) - Distance(v) = stage(o) => Def(v) <= o
  <2> DEFINE p == stage(o)
             q == stage(Def(v)) - Distance(v)
             d == Def(v)
  <2>1. p \in Int /\ q \in Int /\ d \in 1..OpCount /\ o \in 1..OpCount
    BY <1>1, <1>3 DEF Op
  <2>2. d + stage(Def(v)) * OpCount - OpCount * Distance(v) = d + q * OpCount
    <3>1. q * OpCount = stage(Def(v)) * OpCount - OpCount * Distance(v)
      BY <1>4
    <3>2. d \in Int /\ stage(Def(v)) * OpCount \in Int /\ OpCount * Distance(v) \in Int
      BY <2>1, <1>3
    <3> HIDE DEF q, d
    <3> QED
      BY <3>1, <3>2
  <2>3. o + p * OpCount >= d + q * OpCount
    BY <1>2, <2>2
  <2> HIDE DEF p, q, d
  <2>4. q <= p /\ (q = p => d <= o)
    BY <1>3, <2>1, <2>3, Positions
  <2> QED
    BY <2>4 DEF p, q, d
<1>6. stage(Def(v)) - Distance(v) = stage(o) => Def(v) # o
  <2>1. v \in Op => Def(v) # o
    BY LoopFacts
  <2>2. v \in Arg => Distance(v) = 1
    BY LoopFacts
  <2> QED
    BY <1>1, <1>3, <2>1, <2>2
<1>7. o \in Nat /\ Def(v) \in Nat
  BY <1>1, Names
<1> QED
  BY <1>1, <1>5, <1>6, <1>7

\* A value that is used across stages has iter args up to its last use.
LEMMA SpanFacts ==
    ASSUME loop \in Loops
    PROVE  /\ \A v \in CrossStageValues :
                 /\ v \in Op \cup Arg /\ HasDef(v) /\ Def(v) \in Op /\ Span(v) \in Int
                 /\ Span(v) <= maxStage - stage(Def(v))
           /\ \A o \in Op : \A v \in loop.reads[o] :
                 CrossesStages(o, v) =>
                     v \in CrossStageValues /\ stage(o) - stage(Def(v)) <= Span(v)
<1>1. ASSUME NEW v \in CrossStageValues
      PROVE  /\ v \in Op \cup Arg /\ Def(v) \in Op /\ lastUseStage(v) \in Nat
             /\ lastUseStage(v) <= maxStage
             /\ \A o \in Op : v \in loop.reads[o] /\ CrossesStages(o, v) => stage(o) <= lastUseStage(v)
  <2> DEFINE U == {u \in Op : v \in loop.reads[u] /\ CrossesStages(u, v)}
  <2>1. U \in SUBSET Op /\ U # {} /\ v \in Op \cup Arg
    BY DEF CrossStageValues
  <2>2. Def(v) \in Op
    BY DEF CrossStageValues, CrossesStages, HasDef
  <2>3. loop \in Loop
    BY LoopFacts
  <2> HIDE DEF U
  <2>4. /\ LargestOf({stage(o) : o \in U}) \in {stage(o) : o \in U}
        /\ LargestOf({stage(o) : o \in U}) \in Nat
        /\ \A o \in U : stage(o) \in Nat /\ stage(o) <= LargestOf({stage(o2) : o2 \in U})
    BY <2>1, <2>3, LargestStage
  <2>5. lastUseStage(v) = LargestOf({stage(o) : o \in U})
    BY DEF lastUseStage, U
  <2>6. lastUseStage(v) <= maxStage
    BY <2>1, <2>4, <2>5, LoopFacts
  <2>7. \A o \in Op : v \in loop.reads[o] /\ CrossesStages(o, v) => o \in U
    BY DEF U
  <2> QED
    BY <2>1, <2>2, <2>4, <2>5, <2>6, <2>7
<1>2. \A v \in CrossStageValues : /\ HasDef(v) /\ Span(v) \in Int
                                  /\ Span(v) <= maxStage - stage(Def(v))
  BY <1>1, LoopFacts DEF Span, HasDef
<1>3. ASSUME NEW o \in Op, NEW v \in loop.reads[o], CrossesStages(o, v)
      PROVE  v \in CrossStageValues /\ stage(o) - stage(Def(v)) <= Span(v)
  <2>1. v \in CrossStageValues
    BY <1>3, LoopFacts DEF CrossStageValues, Value, CrossesStages
  <2> QED
    BY <2>1, <1>1, <1>3, LoopFacts DEF Span
<1> QED
  BY <1>1, <1>2, <1>3

\* The iter args of the kernel: those of the loop and those of the versions.
LEMMA LoopArgFacts ==
    ASSUME loop \in Loops
    PROVE  /\ Arg \subseteq LoopArgs
           /\ \A v \in CrossStageValues : \A d \in 1..Span(v) :
                 <<v, d>> \in LoopArgs /\ <<v, d>> \notin Arg
           /\ \A x \in LoopArgs : x \in Arg \/
                 \E v \in CrossStageValues : \E d \in 1..Span(v) : x = <<v, d>>
<1>1. \A v \in CrossStageValues : v \in Value /\ Span(v) \in Int
  BY SpanFacts DEF Value
<1>2. \A v \in CrossStageValues : \A d \in 1..Span(v) : d \in Nat
  BY <1>1
<1> QED
  BY <1>1, <1>2, Names DEF LoopArgs


-----------------------------------------------------------------------------
(* The order of emission. *)

\* The facts about the state that the order of emission needs.
LEMMA ClockFacts ==
    ASSUME Inv
    PROVE  /\ part \in Nat /\ next \in Nat /\ next >= 1 /\ next <= OpCount + 1 /\ OpCount \in Nat
           /\ Clock \in Int /\ loop.n \in Nat /\ maxStage \in Nat
<1>1. part \in Nat /\ next \in 1..OpCount + 1
  BY DEF Inv, ExpanderInv, TypeOK
<1>2. OpCount \in Nat
  BY OpAssumption
<1>3. loop.n \in Nat /\ maxStage \in Nat
  BY LoopFacts DEF Inv
<1> QED
  BY <1>1, <1>2, <1>3 DEF Clock

\* What the next operation reads has been emitted for its iteration.
LEMMA ReadsPassed ==
    ASSUME Inv, pc \notin {"start", "rejected"}, next \in Op,
           NEW k \in Int, k = Clock - stage(next), NEW v \in loop.reads[next], HasDef(v)
    PROVE  Passed(Def(v), k - Distance(v))
<1>1. loop \in Loops /\ verifySchedule
  BY DEF Inv, ExpanderInv, ScheduleInv
<1>2. /\ v \in Op \cup Arg /\ Def(v) \in Op
      /\ stage(Def(v)) - Distance(v) <= stage(next)
      /\ stage(Def(v)) - Distance(v) = stage(next) => Def(v) < next
  BY <1>1, ReadsLater
<1>3. /\ stage(Def(v)) \in Nat /\ stage(next) \in Nat /\ Distance(v) \in Nat /\ Clock \in Int
  BY <1>1, <1>2, LoopFacts, ClockFacts
<1> QED
  BY <1>2, <1>3 DEF Passed

\* Emitting an operation, or passing over it, adds one pair to those emitted.
LEMMA PassedNext ==
    ASSUME Inv, next \in Op,
           next' = next + 1, Clock' = Clock, loop' = loop
    PROVE  \A o \in Op, k \in Int :
              Passed(o, k)' <=> Passed(o, k) \/ (o = next /\ k = Clock - stage(next))
<1>1. \A o \in Op : o \in Nat /\ stage(o) \in Nat
  BY LoopFacts, Names DEF Inv
<1>2. \A o \in Op : stage(o)' = stage(o)
  BY SameLoop
<1>3. next \in Nat /\ Clock \in Int
  BY ClockFacts
<1>4. TAKE o \in Op, k \in Int
<1>5. Passed(o, k)' <=> k + stage(o) < Clock \/ (k + stage(o) = Clock /\ o < next + 1)
  BY <1>2 DEF Passed
<1> QED
  BY <1>1, <1>3, <1>5 DEF Passed

\* The next part has the same pairs behind it as the end of the last.
LEMMA PassedPart ==
    ASSUME Inv, next = OpCount + 1,
           next' = 1, Clock' = Clock + 1, loop' = loop
    PROVE  \A o \in Op, k \in Int : Passed(o, k)' <=> Passed(o, k)
<1>1. \A o \in Op : o \in Nat /\ o >= 1 /\ o <= OpCount /\ stage(o) \in Nat
  BY LoopFacts, Names, OpAssumption DEF Inv, Op
<1>2. \A o \in Op : stage(o)' = stage(o)
  BY SameLoop
<1>3. OpCount \in Nat /\ Clock \in Int
  BY ClockFacts
<1>4. TAKE o \in Op, k \in Int
<1>5. Passed(o, k)' <=> k + stage(o) < Clock + 1 \/ (k + stage(o) = Clock + 1 /\ o < 1)
  BY <1>2 DEF Passed
<1> QED
  BY <1>1, <1>3, <1>5 DEF Passed

\* At the start of a part nothing of it has been emitted.
LEMMA PassedStart ==
    ASSUME Inv, next = 1
    PROVE  \A o \in Op, k \in Int : Passed(o, k) <=> k + stage(o) < Clock
<1>1. \A o \in Op : o \in Nat /\ o >= 1 /\ stage(o) \in Nat
  BY LoopFacts, Names, OpAssumption DEF Inv, Op
<1> QED
  BY <1>1, ClockFacts DEF Passed

-----------------------------------------------------------------------------
(* Operands. *)

\* An operation of the prologue reads the versions of its iteration.
LEMMA PrologueOperands ==
    ASSUME Inv, InPrologue, stage(next) <= part,
           NEW k \in Nat, k = part - stage(next), k < loop.n, NEW v \in loop.reads[next],
           v = IV \/ HasDef(v)
    PROVE  versions[v][k] = Plain!At(v, k)
<1>1. loop \in Loops /\ next \in Op /\ pc = "prologue" /\ part < maxStage /\ PrologueInv
  BY DEF Inv, InPrologue, ExpanderInv
<1>2. part \in Nat /\ maxStage \in Nat /\ loop.n \in Nat /\ stage(next) \in Nat /\ Clock = part
  BY <1>1, ClockFacts, LoopFacts DEF Clock
<1>3. k \in Version /\ k < maxStage
  BY <1>1, <1>2 DEF Version
<1>4. CASE v = IV
  <2>1. versions[IV][k] = <<IV, k>>
    BY <1>1, <1>3 DEF PrologueInv
  <2> QED
    BY <2>1, <1>1, <1>4, AtFacts
<1>5. CASE v \in Op
  <2>1. Passed(v, k)
    BY <1>1, <1>2, <1>5, ReadsPassed, LoopFacts, Names
  <2>2. versions[v][k] = <<v, k>>
    BY <2>1, <1>1, <1>3, <1>5 DEF PrologueInv
  <2> QED
    BY <2>2, <1>1, <1>5, AtFacts
<1>6. CASE v \in Arg
  <2>1. HasDef(v) /\ Passed(Def(v), k - 1)
    BY <1>1, <1>2, <1>6, ReadsPassed, LoopFacts, Names
  <2> QED
    BY <2>1, <1>1, <1>2, <1>3, <1>6 DEF PrologueInv
<1>7. v \in Value
  BY <1>1, LoopFacts
<1> QED
  BY <1>4, <1>5, <1>6, <1>7 DEF Value


\* An operation of the kernel reads the result of this turn of the kernel, or
\* the iter arg that carries the version of its iteration.
LEMMA KernelOperands ==
    ASSUME Inv, InKernel, next \in Op,
           NEW k \in Nat, k = part + maxStage - stage(next), k < loop.n, NEW v \in loop.reads[next],
           v = IV \/ HasDef(v)
    PROVE  Operand(next, v) = Plain!At(v, k)
<1>1. loop \in Loops /\ pc = "kernel" /\ KernelInv /\ DOMAIN args = LoopArgs /\ verifySchedule
  BY DEF Inv, InKernel, ExpanderInv, KernelInv, ScheduleInv
<1>2. part \in Nat /\ maxStage \in Nat /\ loop.n \in Nat /\ stage(next) \in Nat
  BY <1>1, ClockFacts, LoopFacts
<1>3. \A a \in Arg : HasDef(a) /\ part + maxStage - stage(Def(a)) <= loop.n
        => args[a] = Plain!At(a, part + maxStage - stage(Def(a)))
  BY <1>1 DEF KernelInv
<1>4. \A o \in Op : o < next /\ part + maxStage - stage(o) < loop.n
        => local[o] = <<o, part + maxStage - stage(o)>>
  BY <1>1 DEF KernelInv
<1>5. CASE v = IV
  BY <1>1, <1>5, AtFacts DEF Operand
<1>6. CASE v # IV /\ CrossesStages(next, v)
  <2> DEFINE d == stage(next) - stage(Def(v))
  <2>1. /\ v \in Op \cup Arg /\ HasDef(v) /\ Def(v) \in Op /\ Distance(v) \in {0, 1}
        /\ stage(Def(v)) - Distance(v) <= stage(next)
    BY <1>1, <1>6, ReadsLater, LoopFacts DEF CrossesStages
  <2>2. stage(Def(v)) \in Nat /\ stage(Def(v)) # stage(next)
        /\ stage(Def(v)) # stage(next) + Distance(v)
    BY <1>1, <1>6, <2>1, LoopFacts DEF CrossesStages
  <2>3. d \in Int /\ d >= 1
    BY <1>2, <2>1, <2>2
  <2>4. v \in CrossStageValues /\ Span(v) \in Int /\ d <= Span(v)
    BY <1>1, <1>6, SpanFacts
  <2>5. d \in 1..Span(v) /\ <<v, d>> \in LoopArgs
    BY <1>1, <2>3, <2>4, LoopArgFacts
  <2>6. ~(v \in Arg /\ stage(Def(v)) = stage(next) + 1)
    BY <1>1, <2>2, LoopFacts
  <2>7. Operand(next, v) = args[<<v, d>>]
    BY <1>1, <1>6, <2>1, <2>2, <2>5, <2>6 DEF Operand, KernelArg
  <2>8. part + maxStage - stage(Def(v)) - d = k
    BY <1>2, <2>2
  <2>9. args[<<v, d>>] = Plain!At(v, k)
    BY <1>1, <2>4, <2>5, <2>8 DEF KernelInv
  <2> QED
    BY <2>7, <2>9
<1>7. CASE v \in Op /\ ~CrossesStages(next, v)
  <2>1. Def(v) = v /\ HasDef(v) /\ Distance(v) = 0 /\ v # IV /\ v \notin Arg
    BY <1>1, <1>7, LoopFacts, Names
  <2>2. stage(v) = stage(next) /\ v < next
    BY <1>1, <1>2, <1>7, <2>1, ReadsLater, LoopFacts DEF CrossesStages
  <2>3. local[v] = <<v, k>>
    BY <1>2, <1>4, <1>7, <2>2
  <2>4. Operand(next, v) = local[v]
    BY <2>1, <2>2 DEF Operand
  <2> QED
    BY <1>1, <1>7, <2>3, <2>4, AtFacts
<1>8. CASE v \in Arg /\ ~CrossesStages(next, v)
  <2>1. Def(v) \in Op /\ HasDef(v) /\ Distance(v) = 1 /\ v # IV /\ stage(Def(v)) \in Nat
        /\ stage(Def(v)) <= maxStage
    BY <1>1, <1>8, LoopFacts, Names
  <2>2. stage(Def(v)) = stage(next) \/ stage(Def(v)) = stage(next) + 1
    BY <2>1, <1>8 DEF CrossesStages
  <2>3. CASE stage(Def(v)) = stage(next)
    <3>1. Operand(next, v) = args[v]
      BY <1>8, <2>1, <2>3 DEF Operand
    <3>2. args[v] = Plain!At(v, k)
      BY <1>2, <1>3, <1>8, <2>1, <2>3
    <3> QED
      BY <3>1, <3>2
  <2>4. CASE stage(Def(v)) = stage(next) + 1
    <3>1. Operand(next, v) = local[Def(v)]
      BY <1>2, <1>8, <2>1, <2>4 DEF Operand
    <3>2. Def(v) < next
      BY <1>1, <1>2, <2>1, <2>4, ReadsLater
    <3>3. part + maxStage - stage(Def(v)) = k - 1 /\ k # 0
      BY <1>2, <2>1, <2>4
    <3>4. local[Def(v)] = <<Def(v), k - 1>>
      BY <1>2, <1>4, <2>1, <3>2, <3>3
    <3> QED
      BY <1>1, <1>8, <2>1, <3>1, <3>3, <3>4, AtFacts
  <2> QED
    BY <2>2, <2>3, <2>4
<1>9. v \in Value
  BY <1>1, LoopFacts
<1> QED
  BY <1>5, <1>6, <1>7, <1>8, <1>9, Names DEF Value

\* What version x of the epilogue stands for is in place.
InPlace(v, d, x, k) ==
    \/ v = IV
    \/ v # IV /\ v \in CrossStageValues /\ maxStage - stage(d) - x + 1 \in 1..Span(v)
    \/ v \in Op /\ x > maxStage - stage(v) /\ Passed(v, k)
    \/ v \in Arg /\ HasDef(v) /\ x > maxStage - stage(d) /\ Passed(d, k - 1)

LEMMA EpilogueVersions ==
    ASSUME Inv, pc = "epilogue", NEW v \in Value, NEW x \in Version, x > 0,
           NEW d, d = Def(v), NEW k, k = loop.n - 1 - maxStage + x, InPlace(v, d, x, k)
    PROVE  versions[v][x] = Plain!At(v, k)
BY DEF Inv, ExpanderInv, EpilogueInv, InPlace

\* The invariant of the epilogue, for what a step has put in place.
LEMMA EpilogueStep ==
    ASSUME Inv, pc' = "epilogue", loop' = loop, loop.peel,
           part' \in 1..maxStage + 1, part' = maxStage + 1 => next' = 1,
           \A v \in Value, x \in Version : \A d, k :
              x > 0 /\ d = Def(v) /\ k = loop.n - 1 - maxStage + x /\ InPlace(v, d, x, k)'
                => versions'[v][x] = Plain!At(v, k),
           \A a \in loop.used, d \in Op :
              d = Def(a) /\ Passed(d, loop.n - 1)' => returned'[a] = Plain!At(a, loop.n),
           \A a \in loop.used : ~HasDef(a) => returned'[a] = Plain!At(a, loop.n)
    PROVE  EpilogueInv'
<1>1. /\ maxStage' = maxStage /\ Version' = Version
      /\ (\A v : Def(v)' = Def(v) /\ Span(v)' = Span(v) /\ (HasDef(v)' <=> HasDef(v)))
      /\ CrossStageValues' = CrossStageValues
      /\ (\A o : stage(o)' = stage(o)) /\ (\A v, j : Plain!At(v, j)' = Plain!At(v, j))
  BY SameLoop
<1>2. loop \in Loops /\ \A a \in loop.used : a \in Arg /\ (HasDef(a) <=> Def(a) \in Op)
  BY LoopFacts DEF Inv
<1> QED
  BY <1>1, <1>2 DEF EpilogueInv, InPlace, Passed

\* The iteration an operation of the epilogue works on.
LEMMA EpilogueFacts ==
    ASSUME Inv, InEpilogue, stage(next) >= part
    PROVE  LET x == maxStage - stage(next) + part
               k == loop.n - 1 - maxStage + x
           IN  /\ part \in Nat /\ part >= 1 /\ part <= maxStage /\ stage(next) \in Nat
               /\ maxStage \in Nat /\ loop.n \in Nat /\ stage(next) <= maxStage
               /\ x \in Version /\ x > 0 /\ k \in Nat /\ k < loop.n /\ k = Clock - stage(next)
               /\ versions[IV][x][2] = k
<1> DEFINE x == maxStage - stage(next) + part
           k == loop.n - 1 - maxStage + x
<1>1. /\ loop \in Loops /\ next \in Op /\ pc = "epilogue" /\ part <= maxStage
      /\ EpilogueInv /\ ScheduleInv /\ loop.peel
  BY DEF Inv, InEpilogue, ExpanderInv, EpilogueInv
<1>2. /\ part \in Nat /\ maxStage \in Nat /\ loop.n \in Nat /\ stage(next) \in Nat
      /\ stage(next) <= maxStage /\ Clock = loop.n - 1 + part
  BY <1>1, ClockFacts, LoopFacts DEF Clock
<1>3. part >= 1
  BY <1>1, <1>2 DEF EpilogueInv
<1>4. loop.n > maxStage
  BY <1>1, LoopFacts DEF ScheduleInv
<1>5. x \in Version /\ x > 0 /\ k \in Nat /\ k < loop.n /\ k = Clock - stage(next)
  BY <1>2, <1>3, <1>4 DEF Version
<1>6. versions[IV][x] = Plain!At(IV, k)
  BY <1>1, <1>5, EpilogueVersions DEF InPlace, Value
<1>7. Plain!At(IV, k) = <<IV, k>>
  BY <1>1, <1>5, AtFacts
<1> QED
  BY <1>1, <1>2, <1>3, <1>5, <1>6, <1>7

\* An operation of the epilogue reads a result of the kernel that its own
\* epilogue has not replaced, or the one that has.
LEMMA EpilogueOperands ==
    ASSUME Inv, InEpilogue, stage(next) >= part,
           NEW x, x = maxStage - stage(next) + part, NEW v \in loop.reads[next],
           v = IV \/ HasDef(v)
    PROVE  versions[v][x] = Plain!At(v, loop.n - 1 - maxStage + x)
<1> DEFINE k == loop.n - 1 - maxStage + x
<1>1. /\ part \in Nat /\ part >= 1 /\ part <= maxStage /\ stage(next) \in Nat
      /\ maxStage \in Nat /\ loop.n \in Nat /\ stage(next) <= maxStage
      /\ x \in Version /\ x > 0 /\ k \in Nat /\ k < loop.n /\ k = Clock - stage(next)
  BY EpilogueFacts
<1>2. loop \in Loops /\ next \in Op /\ pc = "epilogue" /\ verifySchedule
  BY DEF Inv, InEpilogue, ExpanderInv, ScheduleInv
<1>3. v \in Value
  BY <1>2, LoopFacts
<1>4. ASSUME v # IV PROVE InPlace(v, Def(v), x, k)
  <2>1. /\ v \in Op \cup Arg /\ HasDef(v) /\ Def(v) \in Op /\ stage(Def(v)) \in Nat
    BY <1>2, <1>4, ReadsLater, LoopFacts
  <2>2. Passed(Def(v), k - Distance(v))
    BY <1>1, <1>2, <1>4, ReadsPassed
  <2>3. CASE stage(next) - stage(Def(v)) < part
    <3>1. x > maxStage - stage(Def(v))
      BY <1>1, <2>1, <2>3
    <3>2. v \in Op => Def(v) = v /\ k - Distance(v) = k
      BY <1>1, <1>2, LoopFacts
    <3>3. v \in Arg => k - Distance(v) = k - 1
      BY <1>2, LoopFacts
    <3> QED
      BY <2>1, <2>2, <3>1, <3>2, <3>3 DEF InPlace
  <2>4. CASE stage(next) - stage(Def(v)) >= part
    <3>1. Distance(v) \in {0, 1}
      BY <1>2, <2>1, LoopFacts
    <3>2. CrossesStages(next, v)
      BY <1>1, <2>1, <2>4, <3>1 DEF CrossesStages
    <3>3. v \in CrossStageValues /\ Span(v) \in Int /\ stage(next) - stage(Def(v)) <= Span(v)
      BY <1>2, <1>4, <3>2, SpanFacts
    <3>4. maxStage - stage(Def(v)) - x + 1 = stage(next) - stage(Def(v)) - part + 1
      BY <1>1, <2>1
    <3>5. maxStage - stage(Def(v)) - x + 1 \in 1..Span(v)
      BY <1>1, <2>1, <2>4, <3>3, <3>4
    <3> QED
      BY <1>4, <3>3, <3>5 DEF InPlace
  <2> QED
    BY <1>1, <2>1, <2>3, <2>4
<1>5. InPlace(v, Def(v), x, k)
  BY <1>4 DEF InPlace
<1> QED
  BY <1>1, <1>2, <1>3, <1>5, EpilogueVersions


-----------------------------------------------------------------------------
(* Running an operation. *)

\* What the next operation reads has run, so the source loop may run it too.
LEMMA NextReady ==
    ASSUME Inv, pc \in {"prologue", "kernel", "epilogue"}, next \in Op,
           NEW k \in Nat, k = Clock - stage(next), k < loop.n
    PROVE  Plain!Ready(next, k)
<1>1. loop \in Loops /\ \A e \in Instances : Passed(e[1], e[2]) => e \in ran
  BY DEF Inv, ExpanderInv, RanInv
<1>2. loop.n \in Nat /\ [loop EXCEPT !.used = {a \in @ : Returned(a)}].reads = loop.reads
  BY <1>1, LoopFacts DEF Loop
<1>3. SUFFICES ASSUME NEW v \in loop.reads[next], Plain!At(v, k)[1] \in Op
               PROVE  Plain!At(v, k) \in ran \cap Instances
  BY <1>2 DEF Plain!Ready, Instances
<1>4. HasDef(v)
  <2>1. v \in Value
    BY <1>1, LoopFacts
  <2>2. v # IV
    BY <1>1, <1>3, AtFacts, Names
  <2>3. v \in Arg => HasDef(v)
    BY <1>1, <1>3, AtFacts, Names
  <2> QED
    BY <1>1, <2>1, <2>2, <2>3, LoopFacts DEF Value
<1>5. Passed(Def(v), k - Distance(v))
  BY <1>4, ReadsPassed
<1>6. v \in Op \cup Arg
  BY <1>1, <1>4, LoopFacts DEF Value, HasDef
<1>7. CASE v \in Op
  <2>1. Plain!At(v, k) = <<v, k>> /\ Def(v) = v /\ k - Distance(v) = k
    BY <1>1, <1>7, AtFacts, LoopFacts
  <2>2. <<v, k>> \in Instances
    BY <1>2, <1>7 DEF Instances
  <2> QED
    BY <1>1, <1>5, <2>1, <2>2
<1>8. CASE v \in Arg
  <2>1. k # 0
    BY <1>1, <1>3, <1>8, AtFacts, Names
  <2>2. Plain!At(v, k) = <<Def(v), k - 1>> /\ Def(v) \in Op /\ k - Distance(v) = k - 1
    BY <1>1, <1>4, <1>8, <2>1, AtFacts, LoopFacts
  <2>3. <<Def(v), k - 1>> \in Instances
    BY <1>2, <2>1, <2>2 DEF Instances
  <2> QED
    BY <1>1, <1>5, <2>2, <2>3
<1> QED
  BY <1>6, <1>7, <1>8

\* An operation runs if its iteration exists, or a prologue without predicates
\* goes beyond the last; it has not run before, and what has run stays what has
\* been emitted.
LEMMA Executes ==
    ASSUME Inv, pc \in {"prologue", "kernel", "epilogue"}, next \in Op,
           NEW k \in Nat, k = Clock - stage(next), NEW inputs, NEW predicate \in BOOLEAN,
           Execute(next, k, inputs, predicate), k < loop.n => predicate,
           predicate /\ ~(loop.pure[next] /\ k >= loop.n)
               => k < loop.n \/ (~dynamicLoop /\ k < maxStage),
           k < loop.n => \A v \in loop.reads[next] :
                            v = IV \/ HasDef(v) => inputs[v] = Plain!At(v, k),
           next' = next + 1, Clock' = Clock, loop' = loop, pc' = pc
    PROVE  /\ RanInv' /\ RunsOnce' /\ RightOperands' /\ ran' \subseteq Op \X Nat
           /\ \/ k < loop.n /\ <<next, k>> \notin ran /\ ran' = ran \cup {<<next, k>>}
              \/ ran' \cap Instances = ran \cap Instances
<1>1. /\ \A e \in ran : Passed(e[1], e[2])
      /\ \A e \in Instances : Passed(e[1], e[2]) => e \in ran
      /\ ran \subseteq Op \X Nat
  BY DEF Inv, ExpanderInv, RanInv, TypeOK
<1>2. loop.n \in Nat /\ next \in Nat /\ Clock \in Int /\ stage(next) \in Nat
  BY ClockFacts, LoopFacts DEF Inv
<1>3. \A o \in Op, j \in Int : Passed(o, j)' <=> Passed(o, j) \/ (o = next /\ j = Clock - stage(next))
  BY PassedNext
<1>4. ~Passed(next, k)
  BY <1>2 DEF Passed
<1>5. <<next, k>> \notin ran
  BY <1>1, <1>4
<1>6. /\ Instances' = Instances /\ maxStage' = maxStage /\ (dynamicLoop' <=> dynamicLoop)
      /\ (\A v : HasDef(v)' <=> HasDef(v)) /\ (\A v, j : Plain!At(v, j)' = Plain!At(v, j))
  BY SameLoop
<1>7. \A e \in Instances : e[1] \in Op /\ e[2] \in Int /\ e[2] < loop.n /\ e = <<e[1], e[2]>>
  BY <1>2 DEF Instances
<1>8. \A e \in ran : e[1] \in Op /\ e[2] \in Int
  BY <1>1
<1>9. CASE predicate /\ ~(loop.pure[next] /\ k >= loop.n)
  <2>1. ran' = ran \cup {<<next, k>>}
        /\ event' = {[op |-> next, iter |-> k, reads |-> inputs, fresh |-> <<next, k>> \notin ran]}
    BY <1>9 DEF Execute
  <2>2. \A e \in ran' : Passed(e[1], e[2])'
    <3>1. \A e \in ran : Passed(e[1], e[2])'
      BY <1>1, <1>3, <1>8
    <3>2. \A o \in Op, j \in Int : o = next /\ j = k => Passed(o, j)'
      BY <1>3
    <3>3. ASSUME NEW e, e = <<next, k>> PROVE Passed(e[1], e[2])'
      BY <3>2, <3>3
    <3> QED
      BY <2>1, <3>1, <3>3
  <2>3. \A e \in Instances : Passed(e[1], e[2])' => e \in ran'
    <3>1. \A e \in Instances : Passed(e[1], e[2])' => Passed(e[1], e[2]) \/ e = <<next, k>>
      BY <1>3, <1>7
    <3> QED
      BY <1>1, <2>1, <3>1
  <2>4. RanInv'
    BY <1>6, <2>2, <2>3 DEF RanInv
  <2>5. RunsOnce'
    <3>1. k < loop.n \/ (~dynamicLoop /\ k < maxStage)
      BY <1>9
    <3>2. \A e \in event' : e.fresh
      <4>1. event' = {[op |-> next, iter |-> k, reads |-> inputs, fresh |-> TRUE]}
        BY <1>5, <2>1
      <4> QED
        BY <4>1
    <3>3. \A e \in event' : e.iter = k
      BY <2>1
    <3> QED
      BY <1>6, <3>1, <3>2, <3>3 DEF RunsOnce
  <2>6. RightOperands'
    BY <1>6, <2>1 DEF RightOperands
  <2>7. ran' \subseteq Op \X Nat
    BY <1>1, <2>1
  <2>8. k < loop.n \/ ran' \cap Instances = ran \cap Instances
    BY <1>7, <2>1
  <2> QED
    BY <1>5, <2>1, <2>4, <2>5, <2>6, <2>7, <2>8
<1>10. CASE ~(predicate /\ ~(loop.pure[next] /\ k >= loop.n))
  <2>1. ran' = ran /\ event' = {}
    BY <1>10 DEF Execute
  <2>2. \A e \in ran' : Passed(e[1], e[2])'
    BY <1>1, <1>3, <1>8, <2>1
  <2>3. \A e \in Instances : Passed(e[1], e[2])' => e \in ran'
    <3>1. ~(k < loop.n)
      BY <1>2, <1>10
    <3>2. \A e \in Instances : Passed(e[1], e[2])' => Passed(e[1], e[2])
      BY <1>2, <1>3, <1>7, <3>1
    <3> QED
      BY <1>1, <2>1, <3>2
  <2>4. RanInv'
    BY <1>6, <2>2, <2>3 DEF RanInv
  <2> QED
    BY <1>1, <2>1, <2>4 DEF RunsOnce, RightOperands
<1> QED
  BY <1>9, <1>10

\* A step that runs nothing and leaves the emitted pairs as they are.
LEMMA RunsNothing ==
    ASSUME Inv, pc \in {"prologue", "kernel", "epilogue"},
           pc' \in {"prologue", "kernel", "epilogue"}, loop' = loop, ran' = ran, event' = {},
           \A o \in Op, k \in Int : k >= 0 => (Passed(o, k) => Passed(o, k)'),
           \A o \in Op, k \in Int : k >= 0 /\ k < loop.n => (Passed(o, k)' => Passed(o, k))
    PROVE  RanInv' /\ RunsOnce' /\ RightOperands' /\ ran' \subseteq Op \X Nat
<1>1. /\ \A e \in ran : Passed(e[1], e[2])
      /\ \A e \in Instances : Passed(e[1], e[2]) => e \in ran
      /\ ran \subseteq Op \X Nat
  BY DEF Inv, ExpanderInv, RanInv, TypeOK
<1>2. Instances' = Instances
  BY SameLoop
<1>3. loop.n \in Nat
  BY LoopFacts DEF Inv
<1>4. \A e \in Instances : e[1] \in Op /\ e[2] \in Int /\ e[2] >= 0 /\ e[2] < loop.n
  BY <1>3 DEF Instances
<1>5. \A e \in ran : e[1] \in Op /\ e[2] \in Int /\ e[2] >= 0
  BY <1>1
<1>6. RanInv'
  BY <1>1, <1>2, <1>4, <1>5 DEF RanInv
<1> QED
  BY <1>1, <1>6 DEF RunsOnce, RightOperands

\* The types, of what a step changes.
LEMMA TypeStep ==
    ASSUME Inv, loop' = loop, part' \in Nat, next' \in 1..OpCount + 1,
           pc' \in {"start", "rejected", "prologue", "kernel", "epilogue", "done"},
           versions' \in [Value -> [Version -> RunValue]],
           args' = args \/ args' \in [LoopArgs -> RunValue],
           local' \in [Op -> RunValue], ran' \subseteq Op \X Nat
    PROVE  TypeOK' /\ (loop \in Loops)'
<1>1. Version' = Version /\ LoopArgs' = LoopArgs
  BY SameLoop
<1>2. TypeOK /\ loop \in Loops
  BY DEF Inv, ExpanderInv
<1> QED
  BY <1>1, <1>2 DEF TypeOK

\* What the types give.
LEMMA StateTypes ==
    ASSUME Inv
    PROVE  /\ versions \in [Value -> [Version -> RunValue]] /\ local \in [Op -> RunValue]
           /\ \A o \in Op, k \in Nat, p \in BOOLEAN :
                 <<o, k>> \in RunValue /\ Result(o, k, p) \in RunValue
           /\ \A a \in Arg, k \in Nat : <<a, k>> \in RunValue
           /\ \A k \in Nat : <<IV, k>> \in RunValue /\ <<Outside, k>> \in RunValue
           /\ Missing \in RunValue
BY DEF Inv, ExpanderInv, TypeOK, RunValue, Result

\* Writing a version keeps the type.
LEMMA SetVersionsType ==
    ASSUME Inv, NEW o, NEW x, NEW result \in RunValue
    PROVE  SetVersions(o, x, result) \in [Value -> [Version -> RunValue]]
BY StateTypes DEF SetVersions

\* Outside its own part of the loop a part of the invariant says nothing.
LEMMA OtherParts ==
    /\ pc' # "prologue" => PrologueInv'
    /\ pc' # "kernel" => KernelInv'
    /\ pc' # "epilogue" => EpilogueInv'
    /\ pc' \notin {"epilogue", "done"} => ReturnInv'
BY DEF PrologueInv, KernelInv, EpilogueInv, ReturnInv

\* The schedule stays valid.
LEMMA ScheduleKept ==
    ASSUME Inv, loop' = loop, pc \notin {"start", "rejected"}, pc' \notin {"start", "rejected"}
    PROVE  ScheduleInv'
<1>1. (verifySchedule' <=> verifySchedule) /\ (dynamicLoop' <=> dynamicLoop)
  BY SameLoop
<1> QED
  BY <1>1 DEF Inv, ExpanderInv, ScheduleInv


-----------------------------------------------------------------------------
(* Each step keeps the invariant. *)

LEMMA RejectKeeps ==
    ASSUME Inv, Reject
    PROVE  Inv'
<1>1. /\ pc = "start" /\ pc' = "rejected" /\ loop' = loop /\ ran' = ran /\ event' = event
      /\ part' = part /\ next' = next /\ versions' = versions /\ args' = args /\ local' = local
  BY DEF Reject
<1>2. TypeOK /\ RanInv /\ RightOperands /\ RunsOnce
  BY DEF Inv, ExpanderInv
<1>3. TypeOK' /\ (loop \in Loops)'
  BY <1>1, <1>2, TypeStep DEF TypeOK
<1>4. ScheduleInv'
  BY <1>1 DEF ScheduleInv
<1>5. RanInv'
  BY <1>1, <1>2 DEF RanInv
<1>6. RightOperands' /\ RunsOnce'
  <2>1. /\ maxStage' = maxStage /\ (dynamicLoop' <=> dynamicLoop)
        /\ (\A v : HasDef(v)' <=> HasDef(v)) /\ (\A v, k : Plain!At(v, k)' = Plain!At(v, k))
    BY <1>1, SameLoop
  <2>2. RightOperands'
    BY <1>1, <1>2, <2>1 DEF RightOperands
  <2> QED
    BY <1>1, <1>2, <2>1, <2>2 DEF RunsOnce
<1>7. PrologueInv' /\ KernelInv' /\ EpilogueInv' /\ ReturnInv'
  BY <1>1, OtherParts
<1> QED
  BY <1>3, <1>4, <1>5, <1>6, <1>7 DEF Inv, ExpanderInv

LEMMA AcceptKeeps ==
    ASSUME Inv, Accept
    PROVE  Inv'
<1>1. /\ pc = "start" /\ pc' = "prologue" /\ loop' = loop /\ ran' = ran /\ event' = event
      /\ part' = part /\ next' = next /\ args' = args /\ local' = local
      /\ ~(dynamicLoop /\ loop.peel) /\ verifySchedule
  BY DEF Accept
<1>2. TypeOK /\ RightOperands /\ RunsOnce /\ ran = {} /\ part = 0 /\ next = 1 /\ loop \in Loops
  BY <1>1 DEF Inv, ExpanderInv, RanInv, ScheduleInv
<1>3. versions' = [v \in Value |-> [x \in Version |->
                       IF (v \in Arg /\ x = 0) \/ (v = IV /\ x < maxStage)
                       THEN <<v, x>> ELSE Missing]]
  BY DEF Accept
<1>4. maxStage \in Nat /\ Version \subseteq Nat /\ 0 \in Version
  BY <1>2, LoopFacts DEF Version
<1>5. maxStage' = maxStage /\ Version' = Version /\ Instances' = Instances
      /\ (\A o : stage(o)' = stage(o) /\ Def(o)' = Def(o) /\ (HasDef(o)' <=> HasDef(o)))
      /\ (\A v, k : Plain!At(v, k)' = Plain!At(v, k))
      /\ (verifySchedule' <=> verifySchedule) /\ (dynamicLoop' <=> dynamicLoop)
  BY <1>1, SameLoop
<1>6. TypeOK' /\ (loop \in Loops)'
  <2>1. versions' \in [Value -> [Version -> RunValue]]
    BY <1>3, <1>4 DEF RunValue
  <2> QED
    BY <1>1, <1>2, <2>1, TypeStep DEF TypeOK
<1>7. ScheduleInv'
  BY <1>1, <1>5 DEF ScheduleInv
<1>8. \A o \in Op, k \in Nat : ~Passed(o, k)'
  <2>1. Clock' = 0 /\ next' = 1
    BY <1>1, <1>2 DEF Clock
  <2>2. \A o \in Op : stage(o) \in Nat /\ o \in Nat /\ o >= 1
    BY <1>2, LoopFacts, Names, OpAssumption DEF Op
  <2> QED
    BY <1>5, <2>1, <2>2 DEF Passed
<1>9. RanInv'
  <2>1. \A e \in Instances : e[1] \in Op /\ e[2] \in Nat
    BY <1>2, LoopFacts DEF Instances
  <2>2. \A e \in Instances : ~Passed(e[1], e[2])'
    BY <1>8, <2>1
  <2> QED
    BY <1>1, <1>2, <1>5, <2>2 DEF RanInv
<1>10. PrologueInv'
  <2>1. part' <= maxStage /\ next' = 1
    BY <1>1, <1>2, <1>4
  <2>2. \A x \in Version : x < maxStage => versions'[IV][x] = <<IV, x>>
    BY <1>3 DEF Value
  <2>3. \A a \in Arg : versions'[a][0] = <<a, 0>> /\ Plain!At(a, 0) = <<a, 0>>
    BY <1>2, <1>3, <1>4, AtFacts DEF Value
  <2>4. \A a \in Arg, x \in Version :
           x = 0 \/ (HasDef(a) /\ x <= loop.n /\ Passed(Def(a), x - 1)')
               => versions'[a][x] = Plain!At(a, x)
    <3>1. TAKE a \in Arg, x \in Version
    <3>2. (HasDef(a) => Def(a) \in Op) /\ (x # 0 => x - 1 \in Nat)
      BY <1>2, <1>4, LoopFacts
    <3> QED
      BY <1>5, <1>8, <2>3, <3>2
  <2>5. \A o \in Op, x \in Version : ~Passed(o, x)'
    BY <1>4, <1>8
  <2> QED
    BY <1>1, <1>5, <2>1, <2>2, <2>4, <2>5 DEF PrologueInv
<1>11. RightOperands' /\ RunsOnce'
  <2>1. RightOperands'
    BY <1>1, <1>2, <1>5 DEF RightOperands
  <2> QED
    BY <1>1, <1>2, <1>5, <2>1 DEF RunsOnce
<1>12. KernelInv' /\ EpilogueInv' /\ ReturnInv'
  BY <1>1, OtherParts
<1> QED
  BY <1>6, <1>7, <1>9, <1>10, <1>11, <1>12 DEF Inv, ExpanderInv


\* What an operation of the prologue does.
LEMMA PrologueRuns ==
    ASSUME Inv, EmitPrologue, NEW k, k = part - stage(next)
    PROVE  /\ k \in Nat /\ k < maxStage /\ k \in Version
           /\ versions' = SetVersions(next, k, Result(next, k, Predicated(k)))
           /\ Predicated(k) \in BOOLEAN /\ (k < loop.n => Predicated(k))
           /\ RanInv' /\ RunsOnce' /\ RightOperands' /\ ran' \subseteq Op \X Nat
           /\ \/ k < loop.n /\ <<next, k>> \notin ran /\ ran' = ran \cup {<<next, k>>}
              \/ ran' \cap Instances = ran \cap Instances
<1> DEFINE inputs == [v \in loop.reads[next] |-> versions[v][k]]
<1>1. /\ pc = "prologue" /\ InPrologue /\ part < maxStage /\ next \in Op /\ stage(next) <= part
      /\ next' = next + 1 /\ loop' = loop /\ pc' = pc /\ part' = part /\ loop \in Loops
      /\ versions' = SetVersions(next, k, Result(next, k, Predicated(k)))
      /\ Execute(next, k, inputs, Predicated(k))
  BY DEF EmitPrologue, InPrologue, Inv
<1>2. part \in Nat /\ stage(next) \in Nat /\ maxStage \in Nat /\ loop.n \in Nat
  BY <1>1, ClockFacts, LoopFacts
<1>3. k \in Nat /\ k < maxStage /\ k \in Version
  BY <1>1, <1>2 DEF Version
<1>4. k = Clock - stage(next)
  BY <1>1 DEF Clock
<1>5. Clock' = Clock
  <2>1. maxStage' = maxStage
    BY <1>1, SameLoop
  <2> QED
    BY <1>1, <2>1 DEF Clock
<1>6. dynamicLoop \in BOOLEAN
  BY <1>1, LoopFacts
<1>7. Predicated(k) \in BOOLEAN
  BY DEF Predicated
<1>8. k < loop.n => Predicated(k)
  BY DEF Predicated
<1>9. Predicated(k) /\ ~(loop.pure[next] /\ k >= loop.n)
          => k < loop.n \/ (~dynamicLoop /\ k < maxStage)
  BY <1>2, <1>3, <1>6 DEF Predicated
<1>10. k < loop.n => \A v \in loop.reads[next] :
                        v = IV \/ HasDef(v) => inputs[v] = Plain!At(v, k)
  BY <1>1, <1>3, PrologueOperands
<1> HIDE DEF inputs
<1>11. /\ RanInv' /\ RunsOnce' /\ RightOperands' /\ ran' \subseteq Op \X Nat
       /\ \/ k < loop.n /\ <<next, k>> \notin ran /\ ran' = ran \cup {<<next, k>>}
          \/ ran' \cap Instances = ran \cap Instances
  BY <1>1, <1>3, <1>4, <1>5, <1>7, <1>8, <1>9, <1>10, Executes
<1> QED
  BY <1>1, <1>3, <1>7, <1>8, <1>11

LEMMA EmitPrologueKeeps ==
    ASSUME Inv, EmitPrologue
    PROVE  Inv'
<1> DEFINE k == part - stage(next)
<1> DEFINE result == Result(next, k, Predicated(k))
<1>1. /\ k \in Nat /\ k < maxStage /\ k \in Version
      /\ versions' = SetVersions(next, k, result)
      /\ Predicated(k) \in BOOLEAN /\ (k < loop.n => Predicated(k))
      /\ RanInv' /\ RunsOnce' /\ RightOperands' /\ ran' \subseteq Op \X Nat
  BY PrologueRuns
<1>2. /\ pc = "prologue" /\ part < maxStage /\ next \in Op /\ next' = next + 1
      /\ loop' = loop /\ pc' = pc /\ part' = part /\ args' = args /\ local' = local
      /\ loop \in Loops /\ PrologueInv /\ TypeOK
  BY DEF EmitPrologue, InPrologue, Inv, ExpanderInv
<1>3. /\ part \in Nat /\ maxStage \in Nat /\ loop.n \in Nat /\ Version \subseteq Int
      /\ next \in Nat /\ OpCount \in Nat /\ next <= OpCount /\ stage(next) \in Nat
  BY <1>2, ClockFacts, LoopFacts, OpAssumption DEF Version, Op
<1>4. maxStage' = maxStage /\ Version' = Version
      /\ (\A v : Def(v)' = Def(v) /\ (HasDef(v)' <=> HasDef(v)))
      /\ (\A v, j : Plain!At(v, j)' = Plain!At(v, j))
  BY <1>2, SameLoop
<1>5. Clock' = Clock /\ Clock = part
  BY <1>2 DEF Clock
<1>6. \A o \in Op, j \in Int : Passed(o, j)' <=> Passed(o, j) \/ (o = next /\ j = k)
  BY <1>2, <1>5, PassedNext
<1>7. result \in RunValue /\ (k < loop.n => result = <<next, k>>)
  BY <1>1, <1>2, StateTypes DEF Result
<1>8. TypeOK' /\ (loop \in Loops)'
  <2>1. versions' \in [Value -> [Version -> RunValue]]
    BY <1>1, <1>7, SetVersionsType
  <2>2. next' \in 1..OpCount + 1
    BY <1>2, <1>3
  <2>3. local' \in [Op -> RunValue]
    BY <1>2, StateTypes
  <2> QED
    BY <1>1, <1>2, <1>3, <2>1, <2>2, <2>3, TypeStep
<1> HIDE DEF k, result
<1>9. \A v \in Value, x \in Version : versions'[v][x] =
         IF (v = next /\ x = k) \/ (v \in Arg /\ Def(v) = next /\ x = k + 1)
         THEN result ELSE versions[v][x]
  BY <1>1 DEF SetVersions
<1>10. \A x \in Version : x < maxStage => versions'[IV][x] = <<IV, x>>
  BY <1>2, <1>9, Names DEF PrologueInv, Value
<1>11. \A o \in Op, x \in Version : x < loop.n /\ Passed(o, x)' => versions'[o][x] = <<o, x>>
  <2>1. TAKE o \in Op, x \in Version
  <2>2. SUFFICES ASSUME x < loop.n, Passed(o, x)' PROVE versions'[o][x] = <<o, x>>
    OBVIOUS
  <2>3. o \in Value /\ o \notin Arg /\ x \in Int
    BY <1>3, Names DEF Value
  <2>4. CASE o = next /\ x = k
    BY <1>7, <1>9, <2>2, <2>3, <2>4
  <2>5. CASE ~(o = next /\ x = k)
    <3>1. Passed(o, x)
      BY <1>6, <2>2, <2>3, <2>5
    <3> QED
      BY <1>2, <1>9, <2>2, <2>3, <2>5, <3>1 DEF PrologueInv
  <2> QED
    BY <2>4, <2>5
<1>12. \A a \in Arg, x \in Version :
          x = 0 \/ (HasDef(a) /\ x <= loop.n /\ Passed(Def(a), x - 1)')
              => versions'[a][x] = Plain!At(a, x)
  <2>1. TAKE a \in Arg, x \in Version
  <2>2. PICK d \in Op \cup {Outside} : d = Def(a) /\ (HasDef(a) <=> d \in Op)
    BY <1>2, LoopFacts
  <2>3. SUFFICES ASSUME x = 0 \/ (d \in Op /\ x <= loop.n /\ Passed(d, x - 1)')
                 PROVE  versions'[a][x] = Plain!At(a, x)
    BY <1>4, <2>2
  <2>4. a \in Value /\ a # next /\ x \in Int
    BY <1>2, <1>3, Names DEF Value
  <2>5. CASE d = next /\ x = k + 1
    <3>1. k < loop.n /\ x # 0 /\ k = x - 1 /\ HasDef(a)
      BY <1>1, <1>2, <1>3, <2>2, <2>3, <2>5 DEF k
    <3>2. versions'[a][x] = <<next, k>>
      BY <1>7, <1>9, <2>2, <2>4, <2>5, <3>1
    <3>3. Plain!At(a, x) = <<d, x - 1>>
      BY <1>2, <2>2, <2>4, <3>1, AtFacts
    <3> QED
      BY <2>5, <3>1, <3>2, <3>3
  <2>6. CASE ~(d = next /\ x = k + 1)
    <3>1. versions'[a][x] = versions[a][x]
      BY <1>9, <2>2, <2>4, <2>6
    <3>2. x = 0 \/ (d \in Op /\ x <= loop.n /\ Passed(d, x - 1))
      BY <1>1, <1>6, <2>3, <2>4, <2>6
    <3> QED
      BY <1>2, <2>2, <3>1, <3>2 DEF PrologueInv
  <2> QED
    BY <2>5, <2>6
<1>13. PrologueInv'
  BY <1>2, <1>3, <1>4, <1>10, <1>11, <1>12 DEF PrologueInv
<1>14. ScheduleInv'
  BY <1>2, ScheduleKept
<1>15. KernelInv' /\ EpilogueInv' /\ ReturnInv'
  BY <1>2, OtherParts
<1> QED
  BY <1>1, <1>8, <1>13, <1>14, <1>15 DEF Inv, ExpanderInv


\* What the prologue has emitted is the same after steps that emit nothing.
LEMMA PrologueKept ==
    ASSUME Inv, pc = "prologue", pc' = pc, loop' = loop, versions' = versions,
           part' <= maxStage, part' = maxStage => next' = 1,
           \A o \in Op, j \in Nat : Passed(o, j)' <=> Passed(o, j)
    PROVE  PrologueInv'
<1>1. loop \in Loops /\ PrologueInv
  BY DEF Inv, ExpanderInv
<1>2. maxStage' = maxStage /\ Version' = Version
      /\ (\A v : Def(v)' = Def(v) /\ (HasDef(v)' <=> HasDef(v)))
      /\ (\A v, j : Plain!At(v, j)' = Plain!At(v, j))
  BY SameLoop
<1>3. Version \subseteq Nat
  BY <1>1, LoopFacts DEF Version
<1>4. \A o \in Op, x \in Version : x < loop.n /\ Passed(o, x)' => versions[o][x] = <<o, x>>
  BY <1>1, <1>3 DEF PrologueInv
<1>5. \A a \in Arg, x \in Version :
         x = 0 \/ (HasDef(a) /\ x <= loop.n /\ Passed(Def(a), x - 1)')
             => versions[a][x] = Plain!At(a, x)
  <2>1. TAKE a \in Arg, x \in Version
  <2>2. PICK d \in Op \cup {Outside} : d = Def(a) /\ (HasDef(a) <=> d \in Op)
    BY <1>1, LoopFacts
  <2>3. SUFFICES ASSUME x = 0 \/ (d \in Op /\ x <= loop.n /\ Passed(d, x - 1)')
                 PROVE  versions[a][x] = Plain!At(a, x)
    BY <1>2, <2>2
  <2>4. x # 0 => x - 1 \in Nat
    BY <1>3
  <2>5. x = 0 \/ (d \in Op /\ x <= loop.n /\ Passed(d, x - 1))
    BY <2>3, <2>4
  <2> QED
    BY <1>1, <2>2, <2>5 DEF PrologueInv
<1> QED
  BY <1>1, <1>2, <1>4, <1>5 DEF PrologueInv

\* Passing over an operation and going to the next part emit nothing.
LEMMA PrologueMovesOn ==
    ASSUME Inv, SkipPrologue \/ NextPart
    PROVE  /\ \A o \in Op, j \in Nat : Passed(o, j)' <=> Passed(o, j)
           /\ part' <= maxStage /\ part' \in Nat /\ next' \in 1..OpCount + 1
           /\ part' = maxStage => next' = 1
<1>1. /\ pc = "prologue" /\ part < maxStage /\ loop' = loop /\ pc' = pc /\ loop \in Loops
  BY DEF SkipPrologue, NextPart, InPrologue, Inv
<1>2. /\ part \in Nat /\ maxStage \in Nat /\ next \in Nat /\ OpCount \in Nat
  BY <1>1, ClockFacts
<1>3. Clock = part /\ Clock' = part'
  BY <1>1 DEF Clock
<1>4. CASE SkipPrologue
  <2>1. next \in Op /\ next' = next + 1 /\ part' = part /\ stage(next) > part /\ stage(next) \in Nat
    BY <1>1, <1>4, LoopFacts DEF SkipPrologue, InPrologue
  <2>2. \A o \in Op, j \in Int : Passed(o, j)' <=> Passed(o, j) \/ (o = next /\ j = part - stage(next))
    BY <1>1, <1>3, <2>1, PassedNext
  <2>3. \A o \in Op, j \in Nat : Passed(o, j)' <=> Passed(o, j)
    BY <1>2, <2>1, <2>2
  <2>4. part' < maxStage /\ part' \in Nat /\ next' \in 1..OpCount + 1
    BY <1>1, <1>2, <2>1 DEF Op
  <2> QED
    BY <1>2, <2>3, <2>4
<1>5. CASE NextPart
  <2>1. next = OpCount + 1 /\ next' = 1 /\ part' = part + 1
    BY <1>5 DEF NextPart
  <2>2. \A o \in Op, j \in Int : Passed(o, j)' <=> Passed(o, j)
    BY <1>1, <1>3, <2>1, PassedPart
  <2>3. part' <= maxStage /\ part' \in Nat /\ next' \in 1..OpCount + 1
    BY <1>1, <1>2, <2>1
  <2> QED
    BY <2>1, <2>2, <2>3
<1> QED
  BY <1>4, <1>5

LEMMA PrologueMovesOnKeeps ==
    ASSUME Inv, SkipPrologue \/ NextPart
    PROVE  Inv'
<1>1. /\ pc = "prologue" /\ loop' = loop /\ pc' = pc /\ event' = {}
      /\ versions' = versions /\ args' = args /\ local' = local /\ ran' = ran
  BY DEF SkipPrologue, NextPart, InPrologue
<1>2. /\ \A o \in Op, j \in Nat : Passed(o, j)' <=> Passed(o, j)
      /\ part' <= maxStage /\ part' \in Nat /\ next' \in 1..OpCount + 1
      /\ part' = maxStage => next' = 1
  BY PrologueMovesOn
<1>3. RanInv' /\ RunsOnce' /\ RightOperands' /\ ran' \subseteq Op \X Nat
  <2>1. \A o \in Op, j \in Int : j >= 0 => (Passed(o, j)' <=> Passed(o, j))
    BY <1>2
  <2> QED
    BY <1>1, <2>1, RunsNothing
<1>4. TypeOK' /\ (loop \in Loops)'
  BY <1>1, <1>2, <1>3, StateTypes, TypeStep
<1>5. PrologueInv'
  BY <1>1, <1>2, PrologueKept
<1>6. ScheduleInv'
  BY <1>1, ScheduleKept
<1>7. KernelInv' /\ EpilogueInv' /\ ReturnInv'
  BY <1>1, OtherParts
<1> QED
  BY <1>3, <1>4, <1>5, <1>6, <1>7 DEF Inv, ExpanderInv

-----------------------------------------------------------------------------
(* The kernel. *)

LEMMA CreateKernelKeeps ==
    ASSUME Inv, createKernelLoop
    PROVE  Inv'
<1>1. /\ pc = "prologue" /\ part = maxStage /\ next = 1 /\ loop' = loop /\ pc' = "kernel"
      /\ part' = 0 /\ next' = 1 /\ event' = {} /\ ran' = ran /\ local' = local
      /\ args' = [x \in LoopArgs |-> InitArg(x)] /\ versions' = NoVersions
      /\ loop \in Loops /\ PrologueInv /\ TypeOK /\ ~(dynamicLoop /\ loop.peel)
  BY DEF createKernelLoop, Inv, ExpanderInv, PrologueInv, ScheduleInv
<1>2. /\ maxStage \in Nat /\ loop.n \in Nat /\ Version = 0..maxStage /\ OpCount \in Nat
      /\ \A o \in Op : stage(o) \in Nat /\ stage(o) <= maxStage
  BY <1>1, ClockFacts, LoopFacts DEF Version
<1>3. /\ maxStage' = maxStage /\ LoopArgs' = LoopArgs /\ KernelIterations' = KernelIterations
      /\ (\A v : Def(v)' = Def(v) /\ Span(v)' = Span(v) /\ (HasDef(v)' <=> HasDef(v)))
      /\ CrossStageValues' = CrossStageValues /\ (\A a : Returned(a)' <=> Returned(a))
      /\ (\A o : stage(o)' = stage(o)) /\ (\A v, j : Plain!At(v, j)' = Plain!At(v, j))
  BY <1>1, SameLoop
<1>4. Clock = maxStage /\ Clock' = maxStage
  BY <1>1, <1>2, <1>3 DEF Clock
<1>5. \A o \in Op, j \in Int : Passed(o, j) <=> j + stage(o) < maxStage
  BY <1>1, <1>4, PassedStart
<1>6. \A o \in Op, j \in Int : Passed(o, j)' <=> Passed(o, j)
  BY <1>1, <1>3, <1>4 DEF Passed
<1>7. RanInv' /\ RunsOnce' /\ RightOperands' /\ ran' \subseteq Op \X Nat
  BY <1>1, <1>6, RunsNothing
<1>8. \A a \in Arg : IF HasDef(a) THEN /\ Def(a) \in Op
                                         /\ args'[a] = versions[a][maxStage - stage(Def(a))]
                                         /\ maxStage - stage(Def(a)) \in Version
                                    ELSE args'[a] = <<a, 0>>
  BY <1>1, <1>2, LoopFacts, LoopArgFacts DEF InitArg
<1>9. \A v \in CrossStageValues : \A d \in 1..Span(v) :
         /\ v \in Op \cup Arg /\ HasDef(v) /\ Def(v) \in Op /\ Span(v) \in Int
         /\ args'[<<v, d>>] = versions[v][maxStage - stage(Def(v)) - d]
         /\ maxStage - stage(Def(v)) - d \in Version
  <2>1. TAKE v \in CrossStageValues
  <2>2. /\ v \in Op \cup Arg /\ HasDef(v) /\ Def(v) \in Op /\ Span(v) \in Int
        /\ Span(v) <= maxStage - stage(Def(v))
    BY <1>1, SpanFacts
  <2>3. TAKE d \in 1..Span(v)
  <2>4. <<v, d>> \in LoopArgs /\ <<v, d>> \notin Arg
    BY <1>1, LoopArgFacts
  <2> QED
    BY <1>1, <1>2, <2>2, <2>4 DEF InitArg
<1>10. args' \in [LoopArgs -> RunValue]
  <2>1. /\ \A v \in Op \cup Arg, x \in Version : versions[v][x] \in RunValue
        /\ \A a \in Arg : <<a, 0>> \in RunValue
    BY StateTypes DEF Value
  <2>2. \A x \in LoopArgs : args'[x] \in RunValue
    <3>1. \A a \in Arg : args'[a] \in RunValue
      BY <1>8, <2>1
    <3>2. \A v \in CrossStageValues : \A d \in 1..Span(v) : args'[<<v, d>>] \in RunValue
      BY <1>9, <2>1
    <3> QED
      BY <1>1, <3>1, <3>2, LoopArgFacts
  <2> QED
    BY <1>1, <2>2
<1>11. TypeOK' /\ (loop \in Loops)'
  <2>1. versions' \in [Value -> [Version -> RunValue]] /\ local' \in [Op -> RunValue]
    BY <1>1, StateTypes DEF NoVersions
  <2>2. next' \in 1..OpCount + 1 /\ part' \in Nat
    BY <1>1, <1>2
  <2> QED
    BY <1>1, <1>7, <1>10, <2>1, <2>2, TypeStep
<1>12. \A a \in Arg : HasDef(a) =>
          LET x == 0 + maxStage - stage(Def(a))
          IN  /\ x <= loop.n => args'[a] = Plain!At(a, x)
              /\ x > loop.n /\ ~loop.peel /\ a \in loop.used /\ Returned(a)
                     => args'[a] = Plain!At(a, loop.n)
  <2>1. SUFFICES ASSUME NEW a \in Arg, HasDef(a)
                 PROVE  LET x == 0 + maxStage - stage(Def(a))
                        IN  /\ x <= loop.n => args'[a] = Plain!At(a, x)
                            /\ x > loop.n /\ ~loop.peel /\ a \in loop.used /\ Returned(a)
                                   => args'[a] = Plain!At(a, loop.n)
    OBVIOUS
  <2>2. PICK d \in Op : d = Def(a)
    BY <1>8, <2>1
  <2> DEFINE x == maxStage - stage(d)
  <2>3. x \in Int /\ x \in Version /\ x - 1 + stage(d) < maxStage
    BY <1>2, <2>2
  <2>4. Passed(d, x - 1)
    BY <1>5, <2>3
  <2>5. x <= loop.n => versions[a][x] = Plain!At(a, x)
    BY <1>1, <2>1, <2>2, <2>3, <2>4 DEF PrologueInv
  <2>6. ~(x > loop.n /\ ~loop.peel /\ Returned(a))
    BY <1>1, <1>2, <2>1, <2>2, LoopFacts
  <2>7. 0 + maxStage - stage(d) = x
    BY <1>2
  <2> QED
    BY <1>8, <2>1, <2>2, <2>5, <2>6, <2>7
<1>13. \A v \in CrossStageValues : \A d \in 1..Span(v) :
          LET x == 0 + maxStage - stage(Def(v)) - d
          IN  x < loop.n => args'[<<v, d>>] = Plain!At(v, x)
  <2>1. TAKE v \in CrossStageValues
  <2>2. TAKE d \in 1..Span(v)
  <2> DEFINE x == maxStage - stage(Def(v)) - d
  <2>3. /\ v \in Op \cup Arg /\ HasDef(v) /\ Def(v) \in Op /\ args'[<<v, d>>] = versions[v][x]
        /\ x \in Version /\ d \in Int /\ d >= 1
    BY <1>9
  <2>4. x \in Int /\ x >= 0 /\ 0 + maxStage - stage(Def(v)) - d = x
        /\ x + stage(Def(v)) < maxStage /\ x - 1 + stage(Def(v)) < maxStage
    BY <1>2, <2>3
  <2>5. Passed(Def(v), x) /\ Passed(Def(v), x - 1)
    BY <1>5, <2>3, <2>4
  <2>6. x < loop.n => versions[v][x] = Plain!At(v, x)
    <3>1. CASE v \in Op
      <4>1. Def(v) = v /\ Plain!At(v, x) = <<v, x>>
        BY <1>1, <2>4, <3>1, LoopFacts, AtFacts
      <4> QED
        BY <1>1, <2>3, <2>5, <3>1, <4>1 DEF PrologueInv
    <3>2. CASE v \in Arg
      <4>1. \A b \in Arg, y \in Version :
              HasDef(b) /\ y <= loop.n /\ Passed(Def(b), y - 1) => versions[b][y] = Plain!At(b, y)
        BY <1>1 DEF PrologueInv
      <4>2. loop.n \in Nat
        BY <1>1, LoopFacts
      <4> HIDE DEF x
      <4>3. x < loop.n => x <= loop.n
        BY <2>4, <4>2
      <4> QED
        BY <2>3, <2>5, <3>2, <4>1, <4>3
    <3> QED
      BY <2>3, <3>1, <3>2
  <2> QED
    BY <2>3, <2>4, <2>6
<1>14. KernelInv'
  <2>1. 0 <= KernelIterations
    BY <1>1, <1>2, LoopFacts DEF KernelIterations
  <2>2. \A o \in Op : ~(o < next')
    BY <1>1, OpAssumption DEF Op
  <2>3. \A a \in Arg : ~HasDef(a) => args'[a] = Plain!At(a, 0)
    BY <1>1, <1>8, AtFacts
  <2> QED
    BY <1>1, <1>3, <1>10, <1>12, <1>13, <2>1, <2>2, <2>3 DEF KernelInv
<1>15. ScheduleInv'
  BY <1>1, ScheduleKept
<1>16. PrologueInv' /\ EpilogueInv' /\ ReturnInv'
  BY <1>1, OtherParts
<1> QED
  BY <1>7, <1>11, <1>14, <1>15, <1>16 DEF Inv, ExpanderInv


\* The predicate of a stage holds exactly while its iteration exists.
LEMMA KernelMasks ==
    ASSUME Inv, InKernel, NEW s \in Nat, s <= maxStage
    PROVE  /\ KernelPredicate(s) \in BOOLEAN
           /\ KernelPredicate(s) <=> part + maxStage - s < loop.n
           /\ part < KernelIterations /\ loop.peel => part + maxStage < loop.n
<1>1. part \in Nat /\ maxStage \in Nat /\ loop.n \in Nat /\ loop.peel \in BOOLEAN
  BY ClockFacts, LoopFacts DEF Inv
<1>2. part < KernelIterations
  BY DEF InKernel
<1>3. KernelIterations = IF loop.peel THEN loop.n - maxStage ELSE loop.n
  BY DEF KernelIterations
<1> QED
  BY <1>1, <1>2, <1>3 DEF KernelPredicate

\* What an operation of the kernel does.
LEMMA KernelRuns ==
    ASSUME Inv, KernelOp, NEW k, k = part + maxStage - stage(next)
    PROVE  /\ k \in Nat
           /\ local' = [local EXCEPT ![next] = Result(next, k, KernelPredicate(stage(next)))]
           /\ KernelPredicate(stage(next)) \in BOOLEAN
           /\ (k < loop.n => KernelPredicate(stage(next)))
           /\ RanInv' /\ RunsOnce' /\ RightOperands' /\ ran' \subseteq Op \X Nat
           /\ \/ k < loop.n /\ <<next, k>> \notin ran /\ ran' = ran \cup {<<next, k>>}
              \/ ran' \cap Instances = ran \cap Instances
<1> DEFINE inputs == [v \in loop.reads[next] |-> Operand(next, v)]
           predicate == KernelPredicate(stage(next))
<1>1. /\ pc = "kernel" /\ InKernel /\ next \in Op
      /\ next' = next + 1 /\ loop' = loop /\ pc' = pc /\ part' = part /\ loop \in Loops
      /\ local' = [local EXCEPT ![next] = Result(next, k, predicate)]
      /\ Execute(next, k, inputs, predicate)
  BY DEF KernelOp, InKernel, Inv
<1>2. /\ part \in Nat /\ stage(next) \in Nat /\ maxStage \in Nat /\ loop.n \in Nat
      /\ stage(next) <= maxStage
  BY <1>1, ClockFacts, LoopFacts
<1>3. k \in Nat /\ k = Clock - stage(next)
  BY <1>1, <1>2 DEF Clock
<1>4. Clock' = Clock
  <2>1. maxStage' = maxStage
    BY <1>1, SameLoop
  <2> QED
    BY <1>1, <2>1 DEF Clock
<1>5. predicate \in BOOLEAN /\ (predicate <=> k < loop.n)
  BY <1>1, <1>2, KernelMasks
<1>6. predicate /\ ~(loop.pure[next] /\ k >= loop.n)
          => k < loop.n \/ (~dynamicLoop /\ k < maxStage)
  BY <1>2, <1>3, <1>5
<1>7. k < loop.n => \A v \in loop.reads[next] :
                       v = IV \/ HasDef(v) => inputs[v] = Plain!At(v, k)
  BY <1>1, <1>3, KernelOperands
<1> HIDE DEF inputs
<1>8. /\ RanInv' /\ RunsOnce' /\ RightOperands' /\ ran' \subseteq Op \X Nat
      /\ \/ k < loop.n /\ <<next, k>> \notin ran /\ ran' = ran \cup {<<next, k>>}
         \/ ran' \cap Instances = ran \cap Instances
  BY <1>1, <1>3, <1>4, <1>5, <1>6, <1>7, Executes
<1> QED
  BY <1>1, <1>3, <1>5, <1>8

LEMMA KernelOpKeeps ==
    ASSUME Inv, KernelOp
    PROVE  Inv'
<1> DEFINE k == part + maxStage - stage(next)
           result == Result(next, k, KernelPredicate(stage(next)))
<1>1. /\ k \in Nat /\ local' = [local EXCEPT ![next] = result]
      /\ KernelPredicate(stage(next)) \in BOOLEAN
      /\ (k < loop.n => KernelPredicate(stage(next)))
      /\ RanInv' /\ RunsOnce' /\ RightOperands' /\ ran' \subseteq Op \X Nat
  BY KernelRuns
<1>2. /\ pc = "kernel" /\ next \in Op /\ part < KernelIterations /\ next' = next + 1
      /\ loop' = loop /\ pc' = pc /\ part' = part /\ args' = args /\ versions' = versions
      /\ loop \in Loops /\ KernelInv
  BY DEF KernelOp, InKernel, Inv, ExpanderInv
<1>3. /\ part \in Nat /\ maxStage \in Nat /\ loop.n \in Nat /\ loop.peel \in BOOLEAN
      /\ next \in Nat /\ OpCount \in Nat /\ next <= OpCount
  BY <1>2, ClockFacts, LoopFacts, OpAssumption DEF Op
<1>4. /\ maxStage' = maxStage /\ LoopArgs' = LoopArgs /\ KernelIterations' = KernelIterations
      /\ (\A v : Def(v)' = Def(v) /\ Span(v)' = Span(v) /\ (HasDef(v)' <=> HasDef(v)))
      /\ CrossStageValues' = CrossStageValues /\ (\A a : Returned(a)' <=> Returned(a))
      /\ (\A o : stage(o)' = stage(o)) /\ (\A v, j : Plain!At(v, j)' = Plain!At(v, j))
  BY <1>2, SameLoop
<1>5. result \in RunValue /\ (k < loop.n => result = <<next, k>>)
  BY <1>1, <1>2, StateTypes DEF Result
<1>6. TypeOK' /\ (loop \in Loops)'
  <2>1. local' \in [Op -> RunValue]
    BY <1>1, <1>5, StateTypes
  <2>2. next' \in 1..OpCount + 1
    BY <1>2, <1>3
  <2> QED
    BY <1>1, <1>2, <1>3, <2>1, <2>2, StateTypes, TypeStep
<1> HIDE DEF result
<1>7. \A o \in Op : o < next + 1 /\ part + maxStage - stage(o) < loop.n
          => local'[o] = <<o, part + maxStage - stage(o)>>
  <2>1. TAKE o \in Op
  <2>2. o \in Nat /\ local \in [Op -> RunValue]
    BY Names, StateTypes
  <2>3. CASE o = next
    BY <1>1, <1>5, <2>2, <2>3
  <2>4. CASE o # next
    <3>1. local'[o] = local[o]
      BY <1>1, <2>2, <2>4
    <3> QED
      BY <1>2, <1>3, <2>2, <2>4, <3>1 DEF KernelInv
  <2> QED
    BY <2>3, <2>4
<1>8. KernelInv'
  <2>1. part <= KernelIterations /\ ~(part = KernelIterations)
    BY <1>2, <1>3 DEF KernelIterations
  <2> QED
    BY <1>2, <1>4, <1>7, <2>1 DEF KernelInv
<1>9. ScheduleInv'
  BY <1>2, ScheduleKept
<1>10. PrologueInv' /\ EpilogueInv' /\ ReturnInv'
  BY <1>2, OtherParts
<1> QED
  BY <1>1, <1>6, <1>8, <1>9, <1>10 DEF Inv, ExpanderInv

LEMMA KernelYieldKeeps ==
    ASSUME Inv, KernelYield
    PROVE  Inv'
<1>1. /\ pc = "kernel" /\ InKernel /\ part < KernelIterations /\ next = OpCount + 1
      /\ args' = [x \in LoopArgs |-> YieldOperand(x)] /\ local' = [o \in Op |-> Missing]
      /\ part' = part + 1 /\ next' = 1 /\ event' = {} /\ ran' = ran
      /\ loop' = loop /\ pc' = pc /\ versions' = versions
      /\ loop \in Loops /\ KernelInv /\ args \in [LoopArgs -> RunValue]
  BY DEF KernelYield, InKernel, Inv, ExpanderInv, KernelInv
<1>2. /\ part \in Nat /\ maxStage \in Nat /\ loop.n \in Nat /\ loop.peel \in BOOLEAN
      /\ OpCount \in Nat /\ \A o \in Op : o <= OpCount /\ o \in Nat /\ o >= 1
  BY <1>1, ClockFacts, LoopFacts, OpAssumption DEF Op
<1>3. /\ maxStage' = maxStage /\ LoopArgs' = LoopArgs /\ KernelIterations' = KernelIterations
      /\ (\A v : Def(v)' = Def(v) /\ Span(v)' = Span(v) /\ (HasDef(v)' <=> HasDef(v)))
      /\ CrossStageValues' = CrossStageValues /\ (\A a : Returned(a)' <=> Returned(a))
      /\ (\A o : stage(o)' = stage(o)) /\ (\A v, j : Plain!At(v, j)' = Plain!At(v, j))
  BY <1>1, SameLoop
<1>4. Clock' = Clock + 1 /\ Clock \in Int
  BY <1>1, <1>2, <1>3 DEF Clock
<1>5. RanInv' /\ RunsOnce' /\ RightOperands' /\ ran' \subseteq Op \X Nat
  <2>1. \A o \in Op, j \in Int : Passed(o, j)' <=> Passed(o, j)
    BY <1>1, <1>4, PassedPart
  <2> QED
    BY <1>1, <2>1, RunsNothing
<1>6. \A o \in Op : /\ local[o] \in RunValue
                    /\ part + maxStage - stage(o) < loop.n
                         => local[o] = <<o, part + maxStage - stage(o)>>
  BY <1>1, <1>2, StateTypes DEF KernelInv
<1>7. \A a \in Arg :
         /\ a \in LoopArgs
         /\ ~HasDef(a) => args'[a] = <<Outside, 0>>
         /\ HasDef(a) => /\ Def(a) \in Op /\ stage(Def(a)) \in Nat /\ stage(Def(a)) <= maxStage
                         /\ args'[a] = IF ~loop.peel /\ a \in loop.used
                                            /\ ~KernelPredicate(stage(Def(a)))
                                       THEN args[a] ELSE local[Def(a)]
  BY <1>1, LoopFacts, LoopArgFacts DEF YieldOperand
<1>8. \A v \in CrossStageValues : \A d \in 1..Span(v) :
         /\ v \in Op \cup Arg /\ HasDef(v) /\ Def(v) \in Op /\ stage(Def(v)) \in Nat
         /\ Span(v) \in Int /\ d \in Int /\ d >= 1 /\ <<v, d>> \in LoopArgs
         /\ args'[<<v, d>>] = IF d > 1 THEN args[<<v, d - 1>>]
                              ELSE IF v \in Arg THEN args[v] ELSE local[v]
         /\ d > 1 => d - 1 \in 1..Span(v) /\ <<v, d - 1>> \in LoopArgs
  <2>1. TAKE v \in CrossStageValues
  <2>2. v \in Op \cup Arg /\ HasDef(v) /\ Def(v) \in Op /\ Span(v) \in Int /\ stage(Def(v)) \in Nat
    BY <1>1, SpanFacts, LoopFacts
  <2>3. TAKE d \in 1..Span(v)
  <2>4. <<v, d>> \in LoopArgs /\ <<v, d>> \notin Arg /\ d \in Int /\ d >= 1
    BY <1>1, <2>2, LoopArgFacts
  <2>5. d > 1 => d - 1 \in 1..Span(v)
    BY <2>2
  <2>6. d > 1 => <<v, d - 1>> \in LoopArgs
    BY <1>1, <2>5, LoopArgFacts
  <2> QED
    BY <1>1, <2>2, <2>4, <2>5, <2>6 DEF YieldOperand
<1>9. args' \in [LoopArgs -> RunValue]
  <2>1. \A x \in LoopArgs : args[x] \in RunValue
    BY <1>1
  <2>2. \A x \in LoopArgs : args'[x] \in RunValue
    <3>1. \A x \in Arg : args'[x] \in RunValue
      BY <1>6, <1>7, <2>1, StateTypes
    <3>2. \A v \in CrossStageValues : \A d \in 1..Span(v) : args'[<<v, d>>] \in RunValue
      BY <1>6, <1>7, <1>8, <2>1
    <3> QED
      BY <1>1, <3>1, <3>2, LoopArgFacts
  <2> QED
    BY <1>1, <2>2
<1>10. TypeOK' /\ (loop \in Loops)'
  <2>1. local' \in [Op -> RunValue] /\ part' \in Nat /\ next' \in 1..OpCount + 1
    BY <1>1, <1>2, StateTypes
  <2> QED
    BY <1>1, <1>5, <1>9, <2>1, StateTypes, TypeStep
<1>11. \A a \in Arg : HasDef(a) =>
          LET x == part + 1 + maxStage - stage(Def(a))
          IN  /\ x <= loop.n => args'[a] = Plain!At(a, x)
              /\ x > loop.n /\ ~loop.peel /\ a \in loop.used /\ Returned(a)
                     => args'[a] = Plain!At(a, loop.n)
  <2>1. SUFFICES ASSUME NEW a \in Arg, HasDef(a)
                 PROVE  LET x == part + 1 + maxStage - stage(Def(a))
                        IN  /\ x <= loop.n => args'[a] = Plain!At(a, x)
                            /\ x > loop.n /\ ~loop.peel /\ a \in loop.used /\ Returned(a)
                                   => args'[a] = Plain!At(a, loop.n)
    OBVIOUS
  <2> DEFINE s == stage(Def(a))
             y == part + maxStage - s
  <2>2. s \in Nat /\ s <= maxStage /\ y \in Nat /\ part + 1 + maxStage - s = y + 1
    BY <1>2, <1>7, <2>1
  <2>3. KernelPredicate(s) <=> y < loop.n
    BY <1>1, <2>2, KernelMasks
  <2>4. CASE y < loop.n
    <3>1. args'[a] = <<Def(a), y>>
      BY <1>6, <1>7, <2>1, <2>3, <2>4
    <3>2. Plain!At(a, y + 1) = <<Def(a), y>>
      BY <1>1, <2>1, <2>2, AtFacts
    <3> QED
      BY <1>2, <2>2, <2>4, <3>1, <3>2
  <2>5. CASE y >= loop.n
    <3>1. ASSUME ~loop.peel, a \in loop.used, Returned(a) PROVE args'[a] = Plain!At(a, loop.n)
      <4>1. args'[a] = args[a]
        BY <1>2, <1>7, <2>1, <2>2, <2>3, <2>5, <3>1
      <4>2. (y <= loop.n => args[a] = Plain!At(a, y))
            /\ (y > loop.n => args[a] = Plain!At(a, loop.n))
        BY <1>1, <2>1, <3>1 DEF KernelInv
      <4> QED
        BY <1>2, <2>2, <2>5, <4>1, <4>2
    <3> QED
      BY <1>2, <2>2, <2>5, <3>1
  <2> QED
    BY <1>2, <2>2, <2>4, <2>5
<1>12. \A v \in CrossStageValues : \A d \in 1..Span(v) :
          LET x == part + 1 + maxStage - stage(Def(v)) - d
          IN  x < loop.n => args'[<<v, d>>] = Plain!At(v, x)
  <2>1. TAKE v \in CrossStageValues
  <2>2. TAKE d \in 1..Span(v)
  <2> DEFINE x == part + 1 + maxStage - stage(Def(v)) - d
  <2>3. SUFFICES ASSUME x < loop.n PROVE args'[<<v, d>>] = Plain!At(v, x)
    OBVIOUS
  <2>4. /\ v \in Op \cup Arg /\ HasDef(v) /\ Def(v) \in Op
        /\ stage(Def(v)) \in Nat /\ d \in Int /\ d >= 1
        /\ args'[<<v, d>>] = IF d > 1 THEN args[<<v, d - 1>>]
                             ELSE IF v \in Arg THEN args[v] ELSE local[v]
        /\ d > 1 => d - 1 \in 1..Span(v)
    BY <1>8
  <2>5. CASE d > 1
    <3>1. part + maxStage - stage(Def(v)) - (d - 1) = x
      BY <1>2, <2>4
    <3>2. args[<<v, d - 1>>] = Plain!At(v, x)
      BY <1>1, <2>3, <2>4, <2>5, <3>1 DEF KernelInv
    <3> QED
      BY <2>4, <2>5, <3>2
  <2>6. CASE d = 1 /\ v \in Arg
    <3>1. part + maxStage - stage(Def(v)) = x /\ x \in Int
      BY <1>2, <2>4, <2>6
    <3>2. part + maxStage - stage(Def(v)) <= loop.n
            => args[v] = Plain!At(v, part + maxStage - stage(Def(v)))
      BY <1>1, <2>4, <2>6 DEF KernelInv
    <3> HIDE DEF x
    <3>3. args[v] = Plain!At(v, x)
      BY <1>2, <2>3, <3>1, <3>2
    <3> QED
      BY <2>4, <2>6, <3>3
  <2>7. CASE d = 1 /\ v \in Op
    <3>1. Def(v) = v /\ v \notin Arg
      BY <1>1, <2>7, LoopFacts, Names
    <3>2. part + maxStage - stage(v) = x /\ x \in Int
      BY <1>2, <2>4, <2>7, <3>1
    <3>3. local[v] = <<v, x>>
      BY <1>6, <2>3, <2>7, <3>2
    <3>4. args'[<<v, d>>] = local[v]
      BY <2>4, <2>7, <3>1
    <3> HIDE DEF x
    <3>5. Plain!At(v, x) = <<v, x>>
      BY <1>1, <2>7, <3>2, AtFacts
    <3> QED
      BY <3>3, <3>4, <3>5
  <2> QED
    BY <2>4, <2>5, <2>6, <2>7
<1>13. KernelInv'
  <2>1. part + 1 <= KernelIterations
    BY <1>1, <1>2 DEF KernelIterations
  <2>2. \A o \in Op : ~(o < next')
    BY <1>1, <1>2
  <2>3. part' = KernelIterations => next' = 1
    BY <1>1
  <2>4. part' <= KernelIterations /\ part' = part + 1
    BY <1>1, <2>1
  <2>5. \A a \in Arg : ~HasDef(a) => args'[a] = Plain!At(a, part + 1)
    <3>1. part + 1 \in Int /\ part + 1 # 0
      BY <1>2
    <3> QED
      BY <1>1, <1>7, <3>1, AtFacts
  <2> QED
    BY <1>1, <1>3, <1>9, <1>11, <1>12, <2>2, <2>3, <2>4, <2>5 DEF KernelInv
<1>14. ScheduleInv'
  BY <1>1, ScheduleKept
<1>15. PrologueInv' /\ EpilogueInv' /\ ReturnInv'
  BY <1>1, OtherParts
<1> QED
  BY <1>5, <1>10, <1>13, <1>14, <1>15 DEF Inv, ExpanderInv


LEMMA KernelReturnsKeeps ==
    ASSUME Inv, KernelReturns
    PROVE  /\ Inv' /\ Instances \subseteq ran
           /\ \A a \in loop.used : Returned(a) => returned'[a] = Plain!At(a, loop.n)
<1>1. /\ pc = "kernel" /\ part >= KernelIterations /\ ~loop.peel /\ pc' = "done" /\ event' = {}
      /\ returned' = [a \in loop.used |-> args[a]] /\ loop' = loop /\ part' = part
      /\ next' = next /\ versions' = versions /\ args' = args /\ local' = local /\ ran' = ran
      /\ loop \in Loops /\ KernelInv /\ TypeOK
      /\ \A e \in Instances : Passed(e[1], e[2]) => e \in ran
  BY DEF KernelReturns, Inv, ExpanderInv, RanInv
<1>2. /\ part \in Nat /\ maxStage \in Nat /\ loop.n \in Nat /\ part = loop.n /\ next = 1
      /\ KernelIterations = loop.n
  BY <1>1, ClockFacts DEF KernelInv, KernelIterations
<1>3. \A o \in Op : stage(o) \in Nat /\ stage(o) <= maxStage
  BY <1>1, LoopFacts
<1>4. Instances \subseteq ran
  <2>1. \A e \in Instances : e[1] \in Op /\ e[2] \in Int /\ e[2] < loop.n
    BY <1>2 DEF Instances
  <2>2. \A o \in Op, j \in Int : j < loop.n => Passed(o, j)
    BY <1>1, <1>2, <1>3, PassedStart DEF Clock
  <2> QED
    BY <1>1, <2>1, <2>2
<1>5. \A a \in loop.used : Returned(a) => args[a] = Plain!At(a, loop.n)
  <2>1. SUFFICES ASSUME NEW a \in loop.used, Returned(a), HasDef(a)
                 PROVE  args[a] = Plain!At(a, loop.n)
    BY <1>1, <1>2, LoopFacts DEF KernelInv
  <2>2. a \in Arg /\ Def(a) \in Op
    BY <1>1, <2>1, LoopFacts
  <2> DEFINE x == part + maxStage - stage(Def(a))
  <2>3. x \in Int /\ x >= loop.n
    BY <1>2, <1>3, <2>2
  <2>4. (x <= loop.n => args[a] = Plain!At(a, x)) /\ (x > loop.n => args[a] = Plain!At(a, loop.n))
    BY <1>1, <2>1, <2>2 DEF KernelInv
  <2> HIDE DEF x
  <2> QED
    BY <1>2, <2>3, <2>4
<1>6. \A a \in loop.used : Returned(a) => returned'[a] = Plain!At(a, loop.n)
  BY <1>1, <1>5
<1>7. /\ Instances' = Instances /\ (\A a : Returned(a)' <=> Returned(a))
      /\ (\A v, j : Plain!At(v, j)' = Plain!At(v, j))
  BY <1>1, SameLoop
<1>8. ReturnInv' /\ RanInv'
  <2>1. returned' = [a \in loop.used |-> returned'[a]]
    BY <1>1
  <2>2. ReturnInv'
    BY <1>1, <1>6, <1>7, <2>1 DEF ReturnInv
  <2> QED
    BY <1>1, <1>4, <1>7, <2>2 DEF RanInv
<1>9. TypeOK' /\ (loop \in Loops)'
  BY <1>1, TypeStep DEF TypeOK
<1>10. ScheduleInv'
  BY <1>1, ScheduleKept
<1>11. PrologueInv' /\ KernelInv' /\ EpilogueInv'
  BY <1>1, OtherParts
<1>12. RightOperands' /\ RunsOnce'
  BY <1>1 DEF RightOperands, RunsOnce
<1> QED
  BY <1>4, <1>6, <1>8, <1>9, <1>10, <1>11, <1>12 DEF Inv, ExpanderInv

-----------------------------------------------------------------------------
(* The epilogue. *)

LEMMA StartEpilogueKeeps ==
    ASSUME Inv, startEpilogue
    PROVE  Inv'
<1>1. /\ pc = "kernel" /\ part >= KernelIterations /\ loop.peel /\ pc' = "epilogue" /\ event' = {}
      /\ versions' = [v \in Value |-> [x \in Version |-> EpilogueVersion(v, x)]]
      /\ returned' = [a \in loop.used |-> args[a]] /\ loop' = loop /\ part' = 1
      /\ next' = next /\ args' = args /\ local' = local /\ ran' = ran
      /\ loop \in Loops /\ KernelInv /\ ~dynamicLoop /\ args \in [LoopArgs -> RunValue]
  BY DEF startEpilogue, Inv, ExpanderInv, KernelInv, ScheduleInv
<1>2. /\ part \in Nat /\ maxStage \in Nat /\ loop.n \in Nat /\ loop.n > maxStage
      /\ part = loop.n - maxStage /\ next = 1 /\ Version = 0..maxStage /\ OpCount \in Nat
      /\ \A o \in Op : stage(o) \in Nat /\ stage(o) <= maxStage
  <2>1. /\ part \in Nat /\ maxStage \in Nat /\ loop.n \in Nat /\ OpCount \in Nat
    BY ClockFacts
  <2>2. loop.n > maxStage /\ \A o \in Op : stage(o) \in Nat /\ stage(o) <= maxStage
    BY <1>1, LoopFacts
  <2>3. KernelIterations = loop.n - maxStage
    BY <1>1 DEF KernelIterations
  <2>4. part <= KernelIterations /\ (part = KernelIterations => next = 1)
    BY <1>1 DEF KernelInv
  <2>5. part >= KernelIterations
    BY <1>1
  <2>6. part = KernelIterations
    <3>1. KernelIterations \in Int
      BY <2>1, <2>3
    <3> QED
      BY <3>1, <2>1, <2>4, <2>5
  <2>7. part = loop.n - maxStage /\ next = 1
    BY <2>3, <2>4, <2>6
  <2>8. Version = 0..maxStage
    BY DEF Version
  <2> QED
    BY <2>1, <2>2, <2>7, <2>8
<1>3. /\ maxStage' = maxStage /\ Version' = Version
      /\ (\A v : Def(v)' = Def(v) /\ Span(v)' = Span(v) /\ (HasDef(v)' <=> HasDef(v)))
      /\ CrossStageValues' = CrossStageValues
      /\ (\A o : stage(o)' = stage(o)) /\ (\A v, j : Plain!At(v, j)' = Plain!At(v, j))
  BY <1>1, SameLoop
<1>4. Clock = loop.n /\ Clock' = loop.n
  <2>1. loop.n - maxStage + maxStage = loop.n /\ loop.n - 1 + 1 = loop.n
    BY <1>2
  <2>2. Clock = part + maxStage /\ Clock' = loop.n - 1 + 1
    BY <1>1 DEF Clock
  <2> QED
    BY <1>2, <2>1, <2>2
<1>5. \A o \in Op, j \in Int : Passed(o, j) <=> j + stage(o) < loop.n
  BY <1>1, <1>2, <1>4, PassedStart
<1>6. \A o \in Op, j \in Int : Passed(o, j)' <=> Passed(o, j)
  BY <1>1, <1>3, <1>4 DEF Passed
<1>7. RanInv' /\ RunsOnce' /\ RightOperands' /\ ran' \subseteq Op \X Nat
  BY <1>1, <1>6, RunsNothing
<1>8. \A a \in Arg : /\ a \in LoopArgs
                     /\ HasDef(a) => /\ Def(a) \in Op
                                     /\ args[a] = Plain!At(a, loop.n - stage(Def(a)))
                     /\ ~HasDef(a) => args[a] = Plain!At(a, loop.n)
  <2>1. TAKE a \in Arg
  <2>2. a \in LoopArgs /\ (HasDef(a) => Def(a) \in Op)
    BY <1>1, LoopFacts, LoopArgFacts
  <2>5. ASSUME ~HasDef(a) PROVE args[a] = Plain!At(a, loop.n)
    <3>1. args[a] = Plain!At(a, part)
      BY <1>1, <2>5 DEF KernelInv
    <3>2. part \in Int /\ part # 0 /\ loop.n \in Int /\ loop.n # 0
      BY <1>2
    <3> QED
      BY <1>1, <2>5, <3>1, <3>2, AtFacts
  <2>6. SUFFICES ASSUME HasDef(a) PROVE args[a] = Plain!At(a, loop.n - stage(Def(a)))
    BY <2>2, <2>5
  <2>3. part + maxStage - stage(Def(a)) <= loop.n
          => args[a] = Plain!At(a, part + maxStage - stage(Def(a)))
    BY <1>1, <2>6 DEF KernelInv
  <2>4. part + maxStage - stage(Def(a)) = loop.n - stage(Def(a))
    BY <1>2, <2>2, <2>6
  <2> QED
    BY <1>2, <2>2, <2>3, <2>4, <2>6
<1>9. \A v \in Value, x \in Version : EpilogueVersion(v, x) \in RunValue
  <2>1. TAKE v \in Value, x \in Version
  <2>2. x > 0 => loop.n - 1 - (maxStage - x) \in Nat
    BY <1>2
  <2>3. \A y : KernelArg(y) \in RunValue
    BY <1>1, StateTypes DEF KernelArg
  <2>4. v \in Arg => args[v] \in RunValue
    BY <1>1, <1>8
  <2>5. 0 \in Nat
    OBVIOUS
  <2> QED
    BY <2>2, <2>3, <2>4, <2>5, StateTypes DEF EpilogueVersion
<1>10. TypeOK' /\ (loop \in Loops)'
  <2>1. versions' \in [Value -> [Version -> RunValue]]
    BY <1>1, <1>9
  <2>2. next' \in 1..OpCount + 1 /\ part' \in Nat
    BY <1>1, <1>2
  <2> QED
    BY <1>1, <1>7, <2>1, <2>2, StateTypes, TypeStep
<1>11. ASSUME NEW v \in Value, NEW x \in Version, x > 0,
              InPlace(v, Def(v), x, loop.n - 1 - maxStage + x)
       PROVE  EpilogueVersion(v, x) = Plain!At(v, loop.n - 1 - maxStage + x)
  <2> DEFINE k == loop.n - 1 - maxStage + x
             j == maxStage - stage(Def(v)) - x + 1
  <2>1. k \in Nat /\ k < loop.n /\ x \in Nat /\ x <= maxStage
    BY <1>2, <1>11
  <2>2. CASE v = IV
    <3>1. loop.n - 1 - (maxStage - x) = k
      BY <1>2
    <3> QED
      BY <1>1, <1>11, <2>1, <2>2, <3>1, AtFacts DEF EpilogueVersion
  <2>3. CASE v # IV /\ v \in CrossStageValues /\ j \in 1..Span(v)
    <3>1. /\ Def(v) \in Op /\ stage(Def(v)) \in Nat /\ Span(v) \in Int /\ v \in Op \cup Arg
          /\ HasDef(v)
      BY <1>1, <2>3, SpanFacts, LoopFacts
    <3>2. <<v, j>> \in LoopArgs
      BY <1>1, <2>3, LoopArgFacts
    <3>3. v \in Arg => HasDef(v)
      BY <3>1
    <3>4. x # maxStage - stage(Def(v)) + 1
      BY <1>2, <2>1, <2>3, <3>1
    <3>5. EpilogueVersion(v, x) = args[<<v, j>>]
      BY <1>1, <2>3, <3>2, <3>3, <3>4 DEF EpilogueVersion, KernelArg
    <3>6. part + maxStage - stage(Def(v)) - j = k
      <4>1. \A n, m, s, y \in Int : n - m + m - s - (m - s - y + 1) = n - 1 - m + y
        OBVIOUS
      <4>2. loop.n \in Int /\ maxStage \in Int /\ x \in Int /\ stage(Def(v)) \in Int
        BY <1>2, <2>1, <3>1
      <4>3. part = loop.n - maxStage
        BY <1>2
      <4>4. loop.n - maxStage + maxStage - stage(Def(v)) - (maxStage - stage(Def(v)) - x + 1)
              = loop.n - 1 - maxStage + x
        BY <4>1, <4>2
      <4> QED
        BY <4>3, <4>4
    <3>7. args[<<v, j>>] = Plain!At(v, k)
      BY <1>1, <2>1, <2>3, <3>6 DEF KernelInv
    <3> QED
      BY <3>5, <3>7
  <2>4. ~(v \in Op /\ x > maxStage - stage(v) /\ Passed(v, k))
    <3>1. SUFFICES ASSUME v \in Op, x > maxStage - stage(v), Passed(v, k) PROVE FALSE
      OBVIOUS
    <3>2. PICK s \in Nat : s = stage(v)
      BY <1>2, <3>1
    <3>3. k + s < loop.n
      BY <1>5, <2>1, <3>1, <3>2
    <3> QED
      BY <1>2, <2>1, <3>1, <3>2, <3>3
  <2>5. CASE v \in Arg /\ HasDef(v) /\ x > maxStage - stage(Def(v)) /\ Passed(Def(v), k - 1)
    <3>1. Def(v) \in Op /\ stage(Def(v)) \in Nat /\ stage(Def(v)) <= maxStage /\ HasDef(v)
      BY <1>2, <1>8, <2>5
    <3>2. k - 1 + stage(Def(v)) < loop.n
      BY <1>5, <2>1, <2>5, <3>1
    <3>3. x = maxStage - stage(Def(v)) + 1 /\ stage(Def(v)) > 0 /\ k = loop.n - stage(Def(v))
      <4>1. \A n, m, s, y \in Nat :
               y <= m /\ s <= m /\ y > m - s /\ n - 1 - m + y - 1 + s < n
                 => y = m - s + 1 /\ s > 0 /\ n - 1 - m + y = n - s
        OBVIOUS
      <4>2. loop.n \in Nat /\ maxStage \in Nat /\ x \in Nat /\ stage(Def(v)) \in Nat
            /\ x <= maxStage /\ stage(Def(v)) <= maxStage
        BY <1>2, <2>1, <3>1
      <4>3. x > maxStage - stage(Def(v)) /\ loop.n - 1 - maxStage + x - 1 + stage(Def(v)) < loop.n
        BY <2>5, <3>2, <4>2
      <4> QED
        BY <4>1, <4>2, <4>3
    <3>4. EpilogueVersion(v, x) = args[v]
      BY <2>5, <3>1, <3>3, Names DEF EpilogueVersion
    <3> QED
      BY <1>8, <2>5, <3>3, <3>4
  <2> QED
    BY <1>11, <2>2, <2>3, <2>4, <2>5 DEF InPlace
<1>12. ASSUME NEW a \in loop.used, NEW d \in Op, d = Def(a), Passed(d, loop.n - 1)'
       PROVE  returned'[a] = Plain!At(a, loop.n)
  <2>1. a \in Arg /\ returned'[a] = args[a] /\ HasDef(a)
    BY <1>1, <1>12, LoopFacts
  <2>2. PICK j \in Int : j = loop.n - 1
    BY <1>2
  <2>3. Passed(d, j)'
    BY <1>1, <1>12, <2>2
  <2>4. loop.n - 1 + stage(d) < loop.n
    BY <1>5, <1>6, <2>2, <2>3
  <2>5. loop.n - stage(d) = loop.n
    BY <1>2, <2>4
  <2> QED
    BY <1>8, <1>12, <2>1, <2>5
<1>13. ASSUME NEW v \in Value, NEW x \in Version, x > 0, NEW d, d = Def(v),
              NEW k, k = loop.n - 1 - maxStage + x, InPlace(v, d, x, k)'
       PROVE  versions'[v][x] = Plain!At(v, k)
  <2>1. k \in Int /\ k - 1 \in Int
    BY <1>2, <1>13
  <2>2. (v \in Op => (Passed(v, k)' <=> Passed(v, k)))
        /\ (v \in Arg /\ HasDef(v) => (Passed(d, k - 1)' <=> Passed(d, k - 1)))
    BY <1>6, <1>8, <1>13, <2>1
  <2>3. InPlace(v, d, x, k)
    BY <1>3, <1>13, <2>2 DEF InPlace
  <2> QED
    BY <1>1, <1>11, <1>13, <2>3
<1>14. EpilogueInv'
  <2>1. 1 \in 1..maxStage + 1 /\ (1 = maxStage + 1 => next' = 1)
    BY <1>1, <1>2
  <2>2. \A a \in loop.used : ~HasDef(a) => returned'[a] = Plain!At(a, loop.n)
    BY <1>1, <1>8, LoopFacts
  <2>3. \A a \in loop.used, d \in Op :
           d = Def(a) /\ Passed(d, loop.n - 1)' => returned'[a] = Plain!At(a, loop.n)
    BY <1>12
  <2>4. \A v \in Value, x \in Version : \A d, k :
           x > 0 /\ d = Def(v) /\ k = loop.n - 1 - maxStage + x /\ InPlace(v, d, x, k)'
              => versions'[v][x] = Plain!At(v, k)
    BY <1>13
  <2>5. part' \in 1..maxStage + 1 /\ (part' = maxStage + 1 => next' = 1)
    BY <1>1, <2>1
  <2>6. pc' = "epilogue" /\ loop' = loop /\ loop.peel
    BY <1>1
  <2> QED
    BY <2>2, <2>3, <2>4, <2>5, <2>6, EpilogueStep
<1>15. ScheduleInv'
  BY <1>1, ScheduleKept
<1>16. ReturnInv'
  BY <1>1 DEF ReturnInv
<1>17. PrologueInv' /\ KernelInv'
  BY <1>1, OtherParts
<1> QED
  BY <1>7, <1>10, <1>14, <1>15, <1>16, <1>17 DEF Inv, ExpanderInv


\* What an operation of the epilogue does.
LEMMA EpilogueRuns ==
    ASSUME Inv, EmitEpilogue,
           NEW x, x = maxStage - stage(next) + part, NEW k, k = loop.n - 1 - maxStage + x
    PROVE  /\ x \in Version /\ x > 0 /\ k \in Nat /\ k < loop.n
           /\ versions' = SetVersions(next, x, <<next, k>>)
           /\ returned' = [a \in loop.used |-> IF Def(a) = next /\ x + 1 > maxStage
                                               THEN <<next, k>> ELSE returned[a]]
           /\ RanInv' /\ RunsOnce' /\ RightOperands' /\ ran' \subseteq Op \X Nat
           /\ k = Clock - stage(next) /\ Clock' = Clock
           /\ \/ k < loop.n /\ <<next, k>> \notin ran /\ ran' = ran \cup {<<next, k>>}
              \/ ran' \cap Instances = ran \cap Instances
<1> DEFINE inputs == [v \in loop.reads[next] |-> versions[v][x]]
<1>1. /\ InEpilogue /\ stage(next) >= part /\ pc = "epilogue" /\ next \in Op
      /\ next' = next + 1 /\ loop' = loop /\ pc' = pc /\ part' = part
  BY DEF EmitEpilogue, InEpilogue
<1>2. /\ x \in Version /\ x > 0 /\ k \in Nat /\ k < loop.n /\ k = Clock - stage(next)
      /\ versions[IV][x][2] = k
  BY <1>1, EpilogueFacts
<1>3. /\ versions' = SetVersions(next, x, <<next, k>>)
      /\ returned' = [a \in loop.used |-> IF Def(a) = next /\ x + 1 > maxStage
                                          THEN <<next, k>> ELSE returned[a]]
      /\ Execute(next, k, inputs, TRUE)
  BY <1>2 DEF EmitEpilogue
<1>4. Clock' = Clock
  <2>1. maxStage' = maxStage
    BY <1>1, SameLoop
  <2> QED
    BY <1>1, <2>1 DEF Clock
<1>5. \A v \in loop.reads[next] : v = IV \/ HasDef(v) => inputs[v] = Plain!At(v, k)
  BY <1>1, EpilogueOperands
<1> HIDE DEF inputs
<1>6. /\ RanInv' /\ RunsOnce' /\ RightOperands' /\ ran' \subseteq Op \X Nat
      /\ \/ k < loop.n /\ <<next, k>> \notin ran /\ ran' = ran \cup {<<next, k>>}
         \/ ran' \cap Instances = ran \cap Instances
  BY <1>1, <1>2, <1>3, <1>4, <1>5, Executes
<1> QED
  BY <1>2, <1>3, <1>4, <1>6

LEMMA EmitEpilogueKeeps ==
    ASSUME Inv, EmitEpilogue
    PROVE  Inv'
<1>1. PICK y : y = maxStage - stage(next) + part
  OBVIOUS
<1>2. PICK i : i = loop.n - 1 - maxStage + y
  OBVIOUS
<1>3. /\ y \in Version /\ y > 0 /\ i \in Nat /\ i < loop.n
      /\ versions' = SetVersions(next, y, <<next, i>>)
      /\ returned' = [a \in loop.used |-> IF Def(a) = next /\ y + 1 > maxStage
                                          THEN <<next, i>> ELSE returned[a]]
      /\ RanInv' /\ RunsOnce' /\ RightOperands' /\ ran' \subseteq Op \X Nat
      /\ i = Clock - stage(next) /\ Clock' = Clock
  BY <1>1, <1>2, EpilogueRuns
<1>4. /\ pc = "epilogue" /\ part <= maxStage /\ next \in Op /\ next' = next + 1
      /\ loop' = loop /\ pc' = pc /\ part' = part /\ args' = args /\ local' = local
      /\ loop \in Loops /\ EpilogueInv /\ loop.peel /\ part >= 1
  BY DEF EmitEpilogue, InEpilogue, Inv, ExpanderInv, EpilogueInv
<1>5. /\ part \in Nat /\ maxStage \in Nat /\ loop.n \in Nat /\ Version = 0..maxStage
      /\ next \in Nat /\ OpCount \in Nat /\ next <= OpCount /\ y \in Nat
  BY <1>3, <1>4, ClockFacts, OpAssumption DEF Version, Op
<1>6. /\ maxStage' = maxStage /\ (\A v : Span(v)' = Span(v) /\ (HasDef(v)' <=> HasDef(v)))
      /\ CrossStageValues' = CrossStageValues /\ (\A o : stage(o)' = stage(o))
  BY <1>4, SameLoop
<1>7. \A o \in Op, j \in Int : Passed(o, j)' <=> Passed(o, j) \/ (o = next /\ j = i)
  BY <1>3, <1>4, PassedNext
<1>8. TypeOK' /\ (loop \in Loops)'
  <2>1. versions' \in [Value -> [Version -> RunValue]]
    BY <1>3, <1>4, SetVersionsType, StateTypes
  <2>2. next' \in 1..OpCount + 1
    BY <1>4, <1>5
  <2> QED
    BY <1>3, <1>4, <1>5, <2>1, <2>2, StateTypes, TypeStep
<1>9. \A v \in Value, x \in Version : versions'[v][x] =
         IF (v = next /\ x = y) \/ (v \in Arg /\ Def(v) = next /\ x = y + 1)
         THEN <<next, i>> ELSE versions[v][x]
  BY <1>3 DEF SetVersions
<1>10. ASSUME NEW v \in Value, NEW x \in Version, x > 0, NEW d, d = Def(v),
              NEW k, k = loop.n - 1 - maxStage + x, InPlace(v, d, x, k)'
       PROVE  versions'[v][x] = Plain!At(v, k)
  <2>1. k \in Int /\ k - 1 \in Int /\ x \in Nat
    BY <1>5, <1>10
  <2>2. CASE v = next /\ x = y
    <3>1. k = i
      BY <1>2, <1>10, <2>2
    <3> QED
      BY <1>4, <1>9, <1>10, <2>1, <2>2, <3>1, AtFacts
  <2>3. CASE v \in Arg /\ d = next /\ x = y + 1
    <3>1. k = i + 1 /\ k # 0 /\ k - 1 = i
      BY <1>2, <1>3, <1>5, <1>10, <2>3
    <3>2. HasDef(v)
      BY <1>4, <1>10, <2>3 DEF HasDef
    <3> QED
      BY <1>4, <1>9, <1>10, <2>1, <2>3, <3>1, <3>2, AtFacts
  <2>4. CASE ~(v = next /\ x = y) /\ ~(v \in Arg /\ d = next /\ x = y + 1)
    <3>1. versions'[v][x] = versions[v][x]
      BY <1>9, <1>10, <2>4
    <3>2. v \in Op /\ Passed(v, k)' => Passed(v, k)
      <4>1. v = next => k # i
        BY <1>2, <1>5, <1>10, <2>1, <2>4
      <4> QED
        BY <1>7, <2>1, <4>1
    <3>3. v \in Arg /\ HasDef(v) /\ Passed(d, k - 1)' => Passed(d, k - 1)
      <4>1. v \in Arg /\ HasDef(v) => d \in Op /\ (d = next => k - 1 # i)
        <5>1. v \in Arg /\ HasDef(v) => d \in Op
          BY <1>4, <1>10, LoopFacts
        <5>2. k - 1 = i => x = y + 1
          BY <1>2, <1>5, <1>10, <2>1
        <5> QED
          BY <2>4, <5>1, <5>2
      <4> QED
        BY <1>7, <2>1, <4>1
    <3>4. InPlace(v, d, x, k)
      BY <1>6, <1>10, <3>2, <3>3 DEF InPlace
    <3> QED
      BY <1>4, <1>10, <3>1, <3>4, EpilogueVersions
  <2> QED
    BY <2>2, <2>3, <2>4
<1>11. ASSUME NEW a \in loop.used, NEW d \in Op, d = Def(a), Passed(d, loop.n - 1)'
       PROVE  returned'[a] = Plain!At(a, loop.n)
  <2>1. a \in Arg /\ HasDef(a)
    BY <1>4, <1>11, LoopFacts
  <2>2. PICK j \in Int : j = loop.n - 1
    BY <1>5
  <2>3. Passed(d, j) \/ (d = next /\ j = i)
    BY <1>4, <1>7, <1>11, <2>2
  <2>4. CASE d = next /\ y + 1 > maxStage
    <3>1. y = maxStage /\ i = loop.n - 1
      BY <1>2, <1>3, <1>5, <2>4
    <3>2. returned'[a] = <<d, loop.n - 1>>
      BY <1>3, <1>11, <2>4, <3>1
    <3>3. loop.n # 0
      BY <1>3, <1>5
    <3> QED
      BY <1>4, <1>5, <1>11, <2>1, <3>2, <3>3, AtFacts
  <2>5. CASE ~(d = next /\ y + 1 > maxStage)
    <3>1. returned'[a] = returned[a]
      BY <1>3, <1>11, <2>5
    <3>2. d = next => j # i
      BY <1>2, <1>5, <2>2, <2>5
    <3>3. Passed(d, loop.n - 1)
      BY <2>2, <2>3, <3>2
    <3> QED
      BY <1>4, <1>11, <3>1, <3>3 DEF EpilogueInv
  <2> QED
    BY <2>4, <2>5
<1>12. EpilogueInv'
  <2>1. part' \in 1..maxStage + 1 /\ part' # maxStage + 1
    BY <1>4, <1>5
  <2>2. \A a \in loop.used : ~HasDef(a) => returned'[a] = Plain!At(a, loop.n)
    <3>1. \A a \in loop.used : ~HasDef(a) => Def(a) # next
      BY <1>4, LoopFacts
    <3>2. \A a \in loop.used : ~HasDef(a) => returned[a] = Plain!At(a, loop.n)
      BY <1>4 DEF EpilogueInv
    <3> QED
      BY <1>3, <3>1, <3>2
  <2> QED
    BY <1>4, <1>10, <1>11, <2>1, <2>2, EpilogueStep
<1>13. ReturnInv'
  <2>1. loop.used' = loop.used
    BY <1>4
  <2> QED
    BY <1>3, <1>4, <2>1 DEF ReturnInv
<1>14. ScheduleInv'
  BY <1>4, ScheduleKept
<1>15. PrologueInv' /\ KernelInv'
  BY <1>4, OtherParts
<1> QED
  BY <1>3, <1>8, <1>12, <1>13, <1>14, <1>15 DEF Inv, ExpanderInv


\* Passing over an operation and going to the next part emit nothing.
LEMMA EpilogueMovesOn ==
    ASSUME Inv, SkipEpilogue \/ NextEpiloguePart
    PROVE  /\ \A o \in Op, j \in Int : Passed(o, j) => Passed(o, j)'
           /\ \A o \in Op, j \in Int : j < loop.n => (Passed(o, j)' <=> Passed(o, j))
           /\ part' \in 1..maxStage + 1 /\ part' \in Nat /\ next' \in 1..OpCount + 1
           /\ part' = maxStage + 1 => next' = 1
<1>1. /\ pc = "epilogue" /\ part <= maxStage /\ part >= 1 /\ loop' = loop /\ pc' = pc
      /\ loop \in Loops
  BY DEF SkipEpilogue, NextEpiloguePart, InEpilogue, Inv, ExpanderInv, EpilogueInv
<1>2. /\ part \in Nat /\ maxStage \in Nat /\ next \in Nat /\ OpCount \in Nat /\ loop.n \in Nat
  BY <1>1, ClockFacts
<1>3. Clock = loop.n - 1 + part /\ Clock' = loop.n - 1 + part'
  BY <1>1 DEF Clock
<1>4. CASE SkipEpilogue
  <2>1. next \in Op /\ next' = next + 1 /\ part' = part /\ stage(next) < part /\ stage(next) \in Nat
    BY <1>1, <1>4, LoopFacts DEF SkipEpilogue, InEpilogue
  <2>2. \A o \in Op, j \in Int : Passed(o, j)' <=> Passed(o, j) \/ (o = next /\ j = Clock - stage(next))
    BY <1>1, <1>3, <2>1, PassedNext
  <2>3. Clock - stage(next) >= loop.n
    BY <1>2, <1>3, <2>1
  <2>4. \A o \in Op, j \in Int : j < loop.n => (Passed(o, j)' <=> Passed(o, j))
    BY <1>2, <1>3, <2>1, <2>2, <2>3
  <2>5. part' < maxStage + 1 /\ part' \in Nat /\ next' \in 1..OpCount + 1
    BY <1>1, <1>2, <2>1 DEF Op
  <2> QED
    BY <1>1, <1>2, <2>1, <2>2, <2>4, <2>5
<1>5. CASE NextEpiloguePart
  <2>1. next = OpCount + 1 /\ next' = 1 /\ part' = part + 1
    BY <1>5 DEF NextEpiloguePart
  <2>2. \A o \in Op, j \in Int : Passed(o, j)' <=> Passed(o, j)
    BY <1>1, <1>2, <1>3, <2>1, PassedPart
  <2>3. part' \in 1..maxStage + 1 /\ part' \in Nat /\ next' \in 1..OpCount + 1
    BY <1>1, <1>2, <2>1
  <2> QED
    BY <2>1, <2>2, <2>3
<1> QED
  BY <1>4, <1>5

LEMMA EpilogueMovesOnKeeps ==
    ASSUME Inv, SkipEpilogue \/ NextEpiloguePart
    PROVE  Inv'
<1>1. /\ pc = "epilogue" /\ loop' = loop /\ pc' = pc /\ event' = {} /\ loop.peel
      /\ versions' = versions /\ args' = args /\ local' = local /\ ran' = ran
      /\ returned' = returned /\ loop \in Loops /\ EpilogueInv /\ ReturnInv
  BY DEF SkipEpilogue, NextEpiloguePart, InEpilogue, Inv, ExpanderInv, EpilogueInv
<1>2. /\ \A o \in Op, j \in Int : Passed(o, j) => Passed(o, j)'
      /\ \A o \in Op, j \in Int : j < loop.n => (Passed(o, j)' <=> Passed(o, j))
      /\ part' \in 1..maxStage + 1 /\ part' \in Nat /\ next' \in 1..OpCount + 1
      /\ part' = maxStage + 1 => next' = 1
  BY EpilogueMovesOn
<1>3. RanInv' /\ RunsOnce' /\ RightOperands' /\ ran' \subseteq Op \X Nat
  BY <1>1, <1>2, RunsNothing
<1>4. TypeOK' /\ (loop \in Loops)'
  BY <1>1, <1>2, <1>3, StateTypes, TypeStep
<1>5. /\ maxStage \in Nat /\ loop.n \in Nat /\ Version = 0..maxStage
  BY <1>1, LoopFacts DEF Version
<1>6. /\ maxStage' = maxStage /\ (\A v : Span(v)' = Span(v) /\ (HasDef(v)' <=> HasDef(v)))
      /\ CrossStageValues' = CrossStageValues /\ (\A o : stage(o)' = stage(o))
  BY <1>1, SameLoop
<1>7. ASSUME NEW v \in Value, NEW x \in Version, x > 0, NEW d, d = Def(v),
             NEW k, k = loop.n - 1 - maxStage + x, InPlace(v, d, x, k)'
      PROVE  versions'[v][x] = Plain!At(v, k)
  <2>1. k \in Int /\ k - 1 \in Int /\ k < loop.n /\ k - 1 < loop.n
    BY <1>5, <1>7
  <2>2. v \in Arg /\ HasDef(v) => d \in Op
    BY <1>1, <1>7, LoopFacts
  <2>3. InPlace(v, d, x, k)
    BY <1>2, <1>6, <1>7, <2>1, <2>2 DEF InPlace
  <2> QED
    BY <1>1, <1>7, <2>3, EpilogueVersions
<1>8. ASSUME NEW a \in loop.used, NEW d \in Op, d = Def(a), Passed(d, loop.n - 1)'
      PROVE  returned'[a] = Plain!At(a, loop.n)
  <2>1. PICK j \in Int : j = loop.n - 1 /\ j < loop.n
    <3>1. loop.n - 1 \in Int /\ loop.n - 1 < loop.n
      BY <1>5
    <3> QED
      BY <3>1
  <2>2. Passed(d, j)
    BY <1>1, <1>2, <1>8, <2>1
  <2> QED
    BY <1>1, <1>8, <2>1, <2>2 DEF EpilogueInv
<1>9. EpilogueInv'
  <2>1. \A a \in loop.used : ~HasDef(a) => returned'[a] = Plain!At(a, loop.n)
    BY <1>1 DEF EpilogueInv
  <2> QED
    BY <1>1, <1>2, <1>7, <1>8, <2>1, EpilogueStep
<1>10. ReturnInv'
  BY <1>1 DEF ReturnInv
<1>11. ScheduleInv'
  BY <1>1, ScheduleKept
<1>12. PrologueInv' /\ KernelInv'
  BY <1>1, OtherParts
<1> QED
  BY <1>3, <1>4, <1>9, <1>10, <1>11, <1>12 DEF Inv, ExpanderInv

LEMMA EpilogueReturnsKeeps ==
    ASSUME Inv, EpilogueReturns
    PROVE  /\ Inv' /\ Instances \subseteq ran
           /\ \A a \in loop.used : Returned(a) => returned'[a] = Plain!At(a, loop.n)
<1>1. /\ pc = "epilogue" /\ part > maxStage /\ pc' = "done" /\ event' = {} /\ returned' = returned
      /\ loop' = loop /\ part' = part /\ next' = next /\ versions' = versions /\ args' = args
      /\ local' = local /\ ran' = ran /\ loop \in Loops /\ EpilogueInv /\ ReturnInv /\ TypeOK
      /\ \A e \in Instances : Passed(e[1], e[2]) => e \in ran
  BY DEF EpilogueReturns, Inv, ExpanderInv, RanInv
<1>2. /\ part \in Nat /\ maxStage \in Nat /\ loop.n \in Nat /\ part = maxStage + 1
  BY <1>1, ClockFacts DEF EpilogueInv
<1>3. next = 1
  BY <1>1, <1>2 DEF EpilogueInv
<1>4. \A o \in Op : stage(o) \in Nat /\ stage(o) <= maxStage
  BY <1>1, LoopFacts
<1>5. \A o \in Op, j \in Int : j < loop.n => Passed(o, j)
  BY <1>1, <1>2, <1>3, <1>4, PassedStart DEF Clock
<1>6. Instances \subseteq ran
  <2>1. \A e \in Instances : e[1] \in Op /\ e[2] \in Int /\ e[2] < loop.n
    BY <1>2 DEF Instances
  <2> QED
    BY <1>1, <1>5, <2>1
<1>7. \A a \in loop.used : returned[a] = Plain!At(a, loop.n)
  <2>1. TAKE a \in loop.used
  <2>2. CASE ~HasDef(a)
    BY <1>1, <2>2 DEF EpilogueInv
  <2>3. CASE HasDef(a)
    <3>1. PICK d \in Op : d = Def(a)
      BY <1>1, <2>3, LoopFacts DEF HasDef
    <3>2. Passed(d, loop.n - 1)
      BY <1>2, <1>5
    <3> QED
      BY <1>1, <3>1, <3>2 DEF EpilogueInv
  <2> QED
    BY <2>2, <2>3
<1>9. Instances' = Instances /\ (\A v, j : Plain!At(v, j)' = Plain!At(v, j))
  BY <1>1, SameLoop
<1>10. ReturnInv' /\ RanInv'
  BY <1>1, <1>6, <1>7, <1>9 DEF ReturnInv, RanInv
<1>11. TypeOK' /\ (loop \in Loops)'
  BY <1>1, TypeStep DEF TypeOK
<1>12. ScheduleInv'
  BY <1>1, ScheduleKept
<1>13. PrologueInv' /\ KernelInv' /\ EpilogueInv'
  BY <1>1, OtherParts
<1>14. RightOperands' /\ RunsOnce'
  BY <1>1 DEF RightOperands, RunsOnce
<1> QED
  BY <1>1, <1>6, <1>7, <1>10, <1>11, <1>12, <1>13, <1>14 DEF Inv, ExpanderInv

-----------------------------------------------------------------------------
(* The theorems. *)

LEMMA InvInit ==
    ASSUME Init
    PROVE  Inv
<1>1. loop \in Loops /\ loop \in Loop
  BY LoopAssumption DEF Init
<1>2. TypeOK
  <2>1. 0 \in Nat /\ 1 \in 1..OpCount + 1
    BY OpAssumption
  <2> QED
    BY <1>1, <2>1 DEF Init, TypeOK, RunValue, NoVersions
<1>3. ScheduleInv /\ RanInv /\ PrologueInv /\ KernelInv /\ EpilogueInv /\ ReturnInv
      /\ RightOperands /\ RunsOnce
  BY DEF Init, ScheduleInv, RanInv, PrologueInv, KernelInv, EpilogueInv, ReturnInv,
         RightOperands, RunsOnce
<1> QED
  BY <1>1, <1>2, <1>3 DEF Inv, ExpanderInv

\* A step that changes nothing keeps the invariant.
LEMMA StutterKeeps ==
    ASSUME Inv, UNCHANGED vars
    PROVE  Inv'
<1>1. /\ loop' = loop /\ pc' = pc /\ part' = part /\ next' = next /\ versions' = versions
      /\ args' = args /\ local' = local /\ ran' = ran /\ event' = event /\ returned' = returned
  BY DEF vars
<1>2. /\ maxStage' = maxStage /\ Version' = Version /\ (\A o : stage(o)' = stage(o))
      /\ (\A v : Def(v)' = Def(v) /\ Span(v)' = Span(v) /\ (HasDef(v)' <=> HasDef(v)))
      /\ CrossStageValues' = CrossStageValues /\ (\A a : Returned(a)' <=> Returned(a))
      /\ (verifySchedule' <=> verifySchedule) /\ (dynamicLoop' <=> dynamicLoop)
      /\ LoopArgs' = LoopArgs /\ KernelIterations' = KernelIterations /\ Instances' = Instances
      /\ (\A v, k : Plain!At(v, k)' = Plain!At(v, k)) /\ Clock' = Clock
  BY <1>1, SameLoop DEF Clock
<1>3. TypeOK' /\ (loop \in Loops)'
  BY <1>1, <1>2 DEF Inv, ExpanderInv, TypeOK
<1>4. ScheduleInv' /\ ReturnInv' /\ RightOperands' /\ RunsOnce'
  BY <1>1, <1>2 DEF Inv, ExpanderInv, ScheduleInv, ReturnInv, RightOperands, RunsOnce
<1>5. RanInv'
  BY <1>1, <1>2 DEF Inv, ExpanderInv, RanInv, Passed
<1>6. PrologueInv'
  BY <1>1, <1>2 DEF Inv, ExpanderInv, PrologueInv, Passed
<1>7. KernelInv'
  BY <1>1, <1>2 DEF Inv, ExpanderInv, KernelInv
<1>8. EpilogueInv'
  BY <1>1, <1>2 DEF Inv, ExpanderInv, EpilogueInv, Passed
<1> QED
  BY <1>3, <1>4, <1>5, <1>6, <1>7, <1>8 DEF Inv, ExpanderInv

LEMMA InvNext ==
    ASSUME Inv, [Next]_vars
    PROVE  Inv'
<1>1. CASE Prologue
  BY <1>1, EmitPrologueKeeps, PrologueMovesOnKeeps DEF Prologue
<1>2. CASE Kernel
  BY <1>2, CreateKernelKeeps, KernelOpKeeps, KernelYieldKeeps, KernelReturnsKeeps DEF Kernel
<1>3. CASE Epilogue
  BY <1>3, StartEpilogueKeeps, EmitEpilogueKeeps, EpilogueMovesOnKeeps, EpilogueReturnsKeeps
     DEF Epilogue
<1> QED
  BY <1>1, <1>2, <1>3, RejectKeeps, AcceptKeeps, StutterKeeps DEF Next, Over

\* Every operation of a pipelined loop runs once for each iteration, on the
\* operands of that iteration (LoopPipelinerInternal).
THEOREM OperationsRunOnceCorrect == Spec => []OperationsRunOnce
<1>1. Inv => OperationsRunOnce
  BY DEF Inv, ExpanderInv, OperationsRunOnce
<1> QED
  BY <1>1, InvInit, InvNext, PTL DEF Spec

\* Every step is one of the source loop, or none.
LEMMA StepMaps ==
    ASSUME Inv, [Next]_vars
    PROVE  [Plain!Next]_(Plain!vars)
<1> DEFINE source == [loop EXCEPT !.used = {a \in @ : Returned(a)}]
           result == IF pc = "done" THEN [a \in {x \in loop.used : Returned(x)} |-> returned[a]]
                     ELSE <<>>
<1>0. loop' = loop => source' = source
  BY SameLoop
<1>1. ASSUME loop' = loop, ran' \cap Instances = ran \cap Instances, pc # "done", pc' # "done"
      PROVE  UNCHANGED Plain!vars
  BY <1>0, <1>1 DEF Plain!vars, Instances
<1>2. ASSUME NEW k \in Nat, next \in Op, k = Clock - stage(next), pc' = pc, loop' = loop,
             pc \in {"prologue", "kernel", "epilogue"},
             \/ k < loop.n /\ <<next, k>> \notin ran /\ ran' = ran \cup {<<next, k>>}
             \/ ran' \cap Instances = ran \cap Instances
      PROVE  Plain!Next \/ UNCHANGED Plain!vars
  <2>1. CASE ran' \cap Instances = ran \cap Instances
    BY <1>1, <1>2, <2>1
  <2>2. CASE k < loop.n /\ <<next, k>> \notin ran /\ ran' = ran \cup {<<next, k>>}
    <3>1. Plain!Ready(next, k)
      BY <1>2, <2>2, NextReady
    <3>2. loop.n \in Nat /\ k \in 0..loop.n - 1 /\ loop \in Loop
      BY <1>2, <2>2, ClockFacts, LoopFacts DEF Inv
    <3>3. source.n = loop.n
      BY <3>2 DEF Loop
    <3>4. <<next, k>> \in Plain!Instances /\ Plain!Instances = Instances
      BY <1>2, <3>2, <3>3 DEF Plain!Instances, Instances
    <3>5. (ran \cap Instances)' = (ran \cap Instances) \cup {<<next, k>>}
      BY <1>2, <2>2, <3>4, SameLoop
    <3>6. Plain!Run(next, k)
      BY <1>0, <1>2, <2>2, <3>1, <3>4, <3>5 DEF Plain!Run, Instances
    <3> QED
      BY <1>2, <3>2, <3>3, <3>6 DEF Plain!Next
  <2> QED
    BY <1>2, <2>1, <2>2
<1>3. ASSUME Instances \subseteq ran, pc # "done", pc' = "done", loop' = loop, ran' = ran,
             \A a \in loop.used : Returned(a) => returned'[a] = Plain!At(a, loop.n)
      PROVE  Plain!Next
  <2>1. loop \in Loop /\ source.n = loop.n /\ source.used = {a \in loop.used : Returned(a)}
    BY LoopFacts DEF Inv, Loop
  <2>2. Plain!Instances = Instances /\ ran \cap Instances = Instances
    BY <1>3, <2>1 DEF Plain!Instances, Instances
  <2>3. Instances' = Instances /\ \A a : Returned(a)' <=> Returned(a)
    BY <1>3, SameLoop
  <2>4. result' = [a \in source.used |-> Plain!At(a, source.n)]
    BY <1>3, <2>1, <2>3
  <2> QED
    BY <1>0, <1>3, <2>2, <2>3, <2>4 DEF Plain!Next, Plain!Return, Instances
<1>4. CASE EmitPrologue
  <2>1. PICK k : k = part - stage(next)
    OBVIOUS
  <2>2. /\ pc = "prologue" /\ next \in Op /\ pc' = pc /\ loop' = loop /\ Clock = part
    BY <1>4 DEF EmitPrologue, InPrologue, Clock
  <2>3. /\ k \in Nat
        /\ \/ k < loop.n /\ <<next, k>> \notin ran /\ ran' = ran \cup {<<next, k>>}
           \/ ran' \cap Instances = ran \cap Instances
    BY <1>4, <2>1, PrologueRuns
  <2> QED
    BY <1>2, <2>1, <2>2, <2>3
<1>5. CASE KernelOp
  <2>1. PICK k : k = part + maxStage - stage(next)
    OBVIOUS
  <2>2. /\ pc = "kernel" /\ next \in Op /\ pc' = pc /\ loop' = loop /\ Clock = part + maxStage
    BY <1>5 DEF KernelOp, InKernel, Clock
  <2>3. /\ k \in Nat
        /\ \/ k < loop.n /\ <<next, k>> \notin ran /\ ran' = ran \cup {<<next, k>>}
           \/ ran' \cap Instances = ran \cap Instances
    BY <1>5, <2>1, KernelRuns
  <2>4. k = Clock - stage(next)
    <3>1. part \in Nat /\ maxStage \in Nat /\ stage(next) \in Nat
      BY <2>2, ClockFacts, LoopFacts DEF Inv
    <3> QED
      BY <2>1, <2>2, <3>1
  <2>5. Plain!Next \/ UNCHANGED Plain!vars
    BY <1>2, <2>2, <2>3, <2>4
  <2> QED
    BY <2>5
<1>6. CASE EmitEpilogue
  <2>1. PICK x : x = maxStage - stage(next) + part
    OBVIOUS
  <2>2. PICK k : k = loop.n - 1 - maxStage + x
    OBVIOUS
  <2>3. /\ pc = "epilogue" /\ next \in Op /\ pc' = pc /\ loop' = loop
    BY <1>6 DEF EmitEpilogue, InEpilogue
  <2>4. /\ k \in Nat /\ k = Clock - stage(next)
        /\ \/ k < loop.n /\ <<next, k>> \notin ran /\ ran' = ran \cup {<<next, k>>}
           \/ ran' \cap Instances = ran \cap Instances
    BY <1>6, <2>1, <2>2, EpilogueRuns
  <2>5. pc \in {"prologue", "kernel", "epilogue"}
    BY <2>3
  <2>6. Plain!Next \/ UNCHANGED Plain!vars
    BY <1>2, <2>3, <2>4, <2>5
  <2> QED
    BY <2>6
<1>7. CASE KernelReturns
  <2>1. /\ Instances \subseteq ran
        /\ \A a \in loop.used : Returned(a) => returned'[a] = Plain!At(a, loop.n)
    BY <1>7, KernelReturnsKeeps
  <2> QED
    BY <1>3, <1>7, <2>1 DEF KernelReturns
<1>8. CASE EpilogueReturns
  <2>1. /\ Instances \subseteq ran
        /\ \A a \in loop.used : Returned(a) => returned'[a] = Plain!At(a, loop.n)
    BY <1>8, EpilogueReturnsKeeps
  <2> QED
    BY <1>3, <1>8, <2>1 DEF EpilogueReturns
<1>9. CASE Reject \/ Accept \/ SkipPrologue \/ NextPart \/ createKernelLoop \/ KernelYield
  BY <1>1, <1>9 DEF Reject, Accept, SkipPrologue, InPrologue, NextPart, createKernelLoop,
       KernelYield, InKernel
<1>10. CASE startEpilogue \/ SkipEpilogue \/ NextEpiloguePart
  BY <1>1, <1>10 DEF startEpilogue, SkipEpilogue, InEpilogue, NextEpiloguePart
<1>11. CASE UNCHANGED vars
  <2>1. loop' = loop /\ pc' = pc /\ ran' = ran /\ returned' = returned
    BY <1>11 DEF vars
  <2>2. source' = source
    BY <1>0, <2>1
  <2>3. result' = result
    <3>1. \A a : Returned(a)' <=> Returned(a)
      BY <2>1, SameLoop
    <3> QED
      BY <2>1, <3>1
  <2> QED
    BY <2>1, <2>2, <2>3 DEF Plain!vars
<1>12. Plain!Next \/ UNCHANGED Plain!vars
  BY <1>4, <1>5, <1>6, <1>7, <1>8, <1>9, <1>10, <1>11 DEF Next, Prologue, Kernel, Epilogue, Over
<1> QED
  BY <1>12 DEF Plain!vars

\* The pipelined loop implements the loop it was made from
\* (LoopPipelinerInternal).
THEOREM ImplementsLoopCorrect == Spec => ImplementsLoop
<1>1. Init => Plain!Init
  <2> SUFFICES ASSUME Init PROVE Plain!Init
    OBVIOUS
  <2>1. loop \in Loop /\ ran = {} /\ pc # "done"
    BY LoopAssumption DEF Init
  <2>2. [loop EXCEPT !.used = {a \in @ : Returned(a)}] \in Loop
    BY <2>1 DEF Loop
  <2> QED
    BY <2>1, <2>2 DEF Plain!Init
<1> QED
  BY <1>1, InvInit, InvNext, StepMaps, PTL DEF Spec, ImplementsLoop, Plain!Spec

-----------------------------------------------------------------------------
(* The kernel of the cpasync pipeline. *)

\* The iteration whose operands a block loads.
BlockIter(a) == a.block - buffers - 1

\* At position a, the copies of load l for iterations below this are issued.
Issued(a, l) ==
    IF a.block <= buffers THEN a.block - 1 + (IF l < a.index THEN 1 ELSE 0)
    ELSE IF BlockIter(a) = 0 THEN buffers
    ELSE IF BlockIter(a) <= trip THEN buffers + BlockIter(a) - 1 + (IF l + 2 < a.index THEN 1 ELSE 0)
    ELSE buffers + trip

\* The arrives and the barriers that a warp at position a has passed.
Arrives(a) == IF a.block <= buffers THEN 0 ELSE BlockIter(a) + (IF a.index > 1 THEN 1 ELSE 0)
Barriers(a) == IF a.block <= buffers THEN 0 ELSE BlockIter(a) + (IF a.index > 2 THEN 1 ELSE 0)

\* The iteration whose operand for load l a warp at position a holds, -1 if none.
HeldIter(a, l) ==
    IF a.block <= buffers \/ a.block > buffers + 2 + trip THEN -1
    ELSE IF BlockIter(a) = 0 THEN IF a.index > 2 + l THEN 0 ELSE -1
    ELSE IF a.index > 3 + LoadCount + l THEN BlockIter(a) ELSE BlockIter(a) - 1

Place(a) ==
    /\ a.block \in Nat /\ a.index \in Nat
    /\ \/ a.block \in 1..buffers /\ a.index \in 1..LoadCount
       \/ a.block = buffers + 1 /\ a.index \in 1..2 + LoadCount
       \/ a.block \in buffers + 2..buffers + 1 + trip /\ a.index \in 1..3 + 2 * LoadCount
       \/ a.block = buffers + 2 + trip /\ a.index \in 1..2
       \/ a.block = buffers + 3 + trip /\ a.index = 1

CopyEntry == [load : Loads, iter : Nat, slot : Nat, part : Nat]
IsCopy(e, l, i, p) == e.load = l /\ e.iter = i /\ e.part = p
CopyInFlight(w, l, i, p) == \E x \in 1..Len(flight[w]) : IsCopy(flight[w][x], l, i, p)

\* What the pass has fixed.
Fixed ==
    /\ numStages \in Nat /\ numStages >= 3 /\ trip \in Nat
    /\ layout \in [Loads -> Layouts]
    /\ parts = [l \in Loads |-> AsyncCopyInstructions(layout[l])]
    /\ other \in Others
    /\ prog = LoopPipeliner

KernelTypes ==
    /\ DOMAIN at = Warps /\ DOMAIN flight = Warps
    /\ DOMAIN operands = Warps /\ \A w \in Warps : DOMAIN operands[w] = Loads
    /\ \A l \in Loads, s \in 0..buffers - 1, w \in Warps : \A p \in 1..parts[l] :
          <<l, s, w, p>> \in DOMAIN smem

WarpTypes(w) == Place(at[w]) /\ flight[w] \in Seq(CopyEntry)

\* What is in flight has been issued, and not been waited for.
CopiesIssued(w) ==
    \A x \in 1..Len(flight[w]) :
        LET c == flight[w][x]
        IN  /\ c.iter < Issued(at[w], c.load) /\ c.iter >= Arrives(at[w])
            /\ c.slot = c.iter % buffers /\ c.part \in 1..parts[c.load]

\* It lands in the order of the iterations ...
CopiesOrdered(w) ==
    \A x, y \in 1..Len(flight[w]) : x <= y => flight[w][x].iter <= flight[w][y].iter

\* ... so what is of later iterations is in flight as well.
CopiesClosed(w) ==
    \A x \in 1..Len(flight[w]), l \in Loads :
        \A i \in 0..Issued(at[w], l) - 1, p \in 1..parts[l] :
            i > flight[w][x].iter => CopyInFlight(w, l, i, p)

\* What has landed is there until its buffer is used again.
BuffersFilled(w) ==
    \A l \in Loads : \A i \in 0..Issued(at[w], l) - 1, p \in 1..parts[l] :
        Issued(at[w], l) <= i + buffers /\ ~CopyInFlight(w, l, i, p) =>
            smem[<<l, i % buffers, w, p>>] = AsyncCopyResult(l, i)

OperandsHeld(w) ==
    \A l \in Loads :
        HeldIter(at[w], l) >= 0 => operands[w][l] = {AsyncCopyResult(l, HeldIter(at[w], l))}

QuietAtEnd(w) == Arrives(at[w]) = trip + 2 => flight[w] = <<>>

WarpInv(w) ==
    /\ WarpTypes(w) /\ CopiesIssued(w) /\ CopiesOrdered(w) /\ CopiesClosed(w)
    /\ BuffersFilled(w) /\ OperandsHeld(w) /\ QuietAtEnd(w)

\* Every warp has passed as many barriers as any other.
InStep == \A v, w \in Warps : Barriers(at[v]) = Barriers(at[w])

AsyncInv ==
    /\ Fixed /\ KernelTypes /\ InStep
    /\ \A w \in Warps : WarpInv(w)

-----------------------------------------------------------------------------
(* Remainders. *)

\* Multiples of n less than n apart are one.
LEMMA SameQuotient ==
    ASSUME NEW n \in Nat, n >= 1, NEW p \in Int, NEW q \in Int, n * p - n * q < n, n * q - n * p < n
    PROVE  p = q
<1>1. n * p - n * q = n * (p - q) /\ n * q - n * p = n * (q - p)
  OBVIOUS
<1>2. CASE p > q
  <2>1. p - q \in Int /\ p - q >= 1
    BY <1>2
  <2> DEFINE d == p - q
  <2>2. d \in Int /\ d >= 1
    BY <2>1
  <2> HIDE DEF d
  <2>3. n * d >= n
    BY <2>2
  <2> QED
    BY <2>3, <1>1 DEF d
<1>3. CASE q > p
  <2> DEFINE d == q - p
  <2>2. d \in Int /\ d >= 1
    BY <1>3
  <2> HIDE DEF d
  <2>3. n * d >= n
    BY <2>2
  <2> QED
    BY <2>3, <1>1 DEF d
<1> QED
  BY <1>2, <1>3

\* Division by the number of buffers.
LEMMA Remainder ==
    ASSUME NEW n \in Nat, n >= 1, NEW x \in Nat
    PROVE  /\ x % n \in Nat /\ x % n < n /\ x \div n \in Nat
           /\ x = n * (x \div n) + (x % n)
           /\ x < n => x % n = x
<1>1. x % n \in 0..n - 1
  OBVIOUS
<1>2. x = n * (x \div n) + (x % n)
  OBVIOUS
<1>3. x < n => x % n = x
  OBVIOUS
<1>4. x \div n \in Nat
  OBVIOUS
<1> QED
  BY <1>1, <1>2, <1>3, <1>4

\* Numbers with one remainder are one if they are less than the divisor apart.
LEMMA SameRemainder ==
    ASSUME NEW n \in Nat, n >= 1, NEW x \in Nat, NEW y \in Nat, x % n = y % n, x < y + n, y < x + n
    PROVE  x = y
<1> DEFINE p == x \div n
           q == y \div n
           r == x % n
           a == n * p
           b == n * q
<1>1. p \in Int /\ q \in Int /\ r \in Int /\ x = a + r /\ y = b + r
  BY Remainder
<1>3. a \in Int /\ b \in Int
  BY <1>1
<1> HIDE DEF p, q, r, a, b
<1>2. a - b < n /\ b - a < n
  BY <1>1, <1>3
<1>4. p = q
  BY <1>1, <1>2, SameQuotient DEF a, b
<1> QED
  BY <1>1, <1>4 DEF a, b

-----------------------------------------------------------------------------
(* The kernel's blocks. *)

\* The lengths of a prologue's, the first and another block of the loop.
LEMMA Numbers ==
    ASSUME Fixed
    PROVE  /\ buffers \in Nat /\ buffers >= 2 /\ buffers + 1 = numStages
           /\ LoadCount \in Nat /\ LoadCount >= 1 /\ Loads = 1..LoadCount
           /\ trip \in Nat
  BY LoadsAssumption DEF Fixed, buffers, Loads

\* A function of the numbers up to n is a sequence.
LEMMA FunctionIsSeq ==
    ASSUME NEW n \in Nat, NEW S, NEW f \in [1..n -> S]
    PROVE  f \in Seq(S) /\ Len(f) = n
<1> DEFINE g == [i \in 1..n |-> f[i]]
<1>1. f = g
  OBVIOUS
<1>2. \A i \in 1..n : f[i] \in S
  OBVIOUS
<1>3. g \in Seq(S) /\ Len(g) = n
  BY <1>2
<1> QED
  BY <1>1, <1>3

\* One sequence after another.
Join(j, s, t) ==
    /\ Len(j) = Len(s) + Len(t)
    /\ \A x \in 1..Len(s) : j[x] = s[x]
    /\ \A x \in 1..Len(t) : j[Len(s) + x] = t[x]

\* Concatenation in terms of places.
LEMMA Joined ==
    ASSUME NEW S, NEW s \in Seq(S), NEW t \in Seq(S)
    PROVE  s \o t \in Seq(S) /\ Join(s \o t, s, t)
<1> DEFINE j == s \o t
           m == Len(s)
           n == Len(t)
<1>1. /\ j \in Seq(S)
      /\ Len(j) = m + n
      /\ \A i \in 1..m + n : j[i] = IF i <= m THEN s[i] ELSE t[i - m]
  BY ConcatProperties
<1>2. m \in Nat /\ n \in Nat
  BY LenProperties
<1> HIDE DEF j, m, n
<1>3. ASSUME NEW x \in 1..m PROVE j[x] = s[x]
  <2>1. x \in 1..m + n /\ x <= m
    BY <1>2
  <2> QED
    BY <2>1, <1>1
<1>4. ASSUME NEW x \in 1..n PROVE j[m + x] = t[x]
  <2>1. m + x \in 1..m + n /\ ~(m + x <= m) /\ m + x - m = x
    BY <1>2
  <2>2. j[m + x] = IF m + x <= m THEN s[m + x] ELSE t[m + x - m]
    BY <2>1, <1>1, <1>2
  <2> QED
    BY <2>1, <2>2
<1> QED
  BY <1>1, <1>3, <1>4 DEF j, m, n, Join

\* Operations for the loads, after some others.
ThenLoad(j, n, s, f) ==
    /\ Len(j) = n + LoadCount
    /\ \A x \in 1..n : j[x] = s[x]
    /\ \A l \in Loads : j[n + l] = f[l]

\* ForLoads after other operations.
LEMMA ThenLoads ==
    ASSUME NEW T, NEW s \in Seq(T), NEW f \in [Loads -> T]
    PROVE  s \o f \in Seq(T) /\ ThenLoad(s \o f, Len(s), s, f)
<1>1. LoadCount \in Nat /\ Loads = 1..LoadCount
  BY LoadsAssumption DEF Loads
<1>2. f \in Seq(T) /\ Len(f) = LoadCount
  BY <1>1, FunctionIsSeq
<1>3. s \o f \in Seq(T) /\ Join(s \o f, s, f)
  BY <1>2, Joined
<1> DEFINE j == s \o f
<1> HIDE DEF j
<1>4. ThenLoad(j, Len(s), s, f)
  BY <1>1, <1>2, <1>3 DEF Join, j, ThenLoad
<1> QED
  BY <1>3, <1>4 DEF j

\* The prologue's blocks copy an iteration each.
LEMMA PrologueBlocks ==
    ASSUME Fixed
    PROVE  /\ Len(prog) = buffers + 2 + trip
           /\ \A b \in 1..buffers : prog[b] = ForLoads(LAMBDA l : Copy(l, b - 1, b - 1))
           /\ prog[buffers + 1] = <<Arrive(gvmNumberPerOp * (numStages - 2)), Barrier>> \o ReadAll(0)
           /\ \A k \in 0..trip - 1 : prog[buffers + 2 + k] = prefetchNextIteration(k)
           /\ prog[buffers + 2 + trip] = emitEpilogue
<1> DEFINE f == [i \in 1..numStages - 1 |-> ForLoads(LAMBDA l : Copy(l, i - 1, i - 1))]
           first == <<Arrive(gvmNumberPerOp * (numStages - 2)), Barrier>> \o ReadAll(0)
           g == [k \in 1..trip |-> prefetchNextIteration(k - 1)]
           S == {f[i] : i \in 1..buffers} \cup {first, emitEpilogue} \cup {g[k] : k \in 1..trip}
<1>1. buffers \in Nat /\ buffers >= 2 /\ buffers = numStages - 1 /\ trip \in Nat
  BY Numbers DEF Fixed, buffers
<1>2. prog = ((f \o <<first>>) \o g) \o <<emitEpilogue>>
  BY DEF Fixed, LoopPipeliner, emitPrologue
<1>3. f = [i \in 1..buffers |-> f[i]] /\ g = [k \in 1..trip |-> g[k]]
  BY <1>1
<1>4. /\ \A b \in 1..buffers : f[b] = ForLoads(LAMBDA l : Copy(l, b - 1, b - 1))
      /\ \A k \in 1..trip : g[k] = prefetchNextIteration(k - 1)
  BY <1>1
<1> HIDE DEF f, g, first
<1>5. f \in Seq(S) /\ Len(f) = buffers /\ g \in Seq(S) /\ Len(g) = trip
  <2>1. f \in [1..buffers -> S] /\ g \in [1..trip -> S]
    BY <1>3
  <2> QED
    BY <2>1, <1>1, FunctionIsSeq
<1>6. <<first>> \in Seq(S) /\ <<emitEpilogue>> \in Seq(S)
  OBVIOUS
<1> HIDE DEF S
<1> DEFINE h == f \o <<first>>
<1>7. /\ Len(h) = buffers + 1 /\ h \in Seq(S)
      /\ \A b \in 1..buffers : h[b] = f[b]
      /\ h[buffers + 1] = first
  <2>1. 1 \in 1..1 /\ Len(<<first>>) = 1 /\ <<first>>[1] = first
    OBVIOUS
  <2>2. h \in Seq(S) /\ Join(h, f, <<first>>)
    BY <1>5, <1>6, Joined
  <2> HIDE DEF h
  <2> QED
    BY <2>1, <2>2, <1>5, <1>1 DEF Join
<1> HIDE DEF h
<1> DEFINE q == h \o g
<1>8. /\ Len(q) = buffers + 1 + trip /\ q \in Seq(S)
      /\ \A b \in 1..buffers + 1 : q[b] = h[b]
      /\ \A k \in 1..trip : q[buffers + 1 + k] = g[k]
  <2>1. q \in Seq(S) /\ Join(q, h, g)
    BY <1>5, <1>7, Joined
  <2> HIDE DEF q
  <2> QED
    BY <2>1, <1>5, <1>7, <1>1 DEF Join
<1> HIDE DEF q
<1> DEFINE e == <<emitEpilogue>>
<1>9. /\ Len(q \o e) = buffers + 2 + trip
      /\ \A b \in 1..buffers + 1 + trip : (q \o e)[b] = q[b]
      /\ (q \o e)[buffers + 2 + trip] = emitEpilogue
  <2>1. 1 \in 1..1 /\ Len(e) = 1 /\ e[1] = emitEpilogue /\ e \in Seq(S)
    BY <1>6
  <2> HIDE DEF e
  <2> DEFINE j == q \o e
  <2>2. Join(j, q, e)
    BY <2>1, <1>8, Joined
  <2>3. Len(q) + 1 = buffers + 2 + trip
    BY <1>1, <1>8
  <2> HIDE DEF j
  <2>4. /\ Len(j) = buffers + 2 + trip
        /\ \A b \in 1..buffers + 1 + trip : j[b] = q[b]
        /\ j[buffers + 2 + trip] = emitEpilogue
    BY <2>1, <2>2, <2>3, <1>8, <1>1 DEF Join
  <2> QED
    BY <2>4 DEF j
<1>10. prog = q \o <<emitEpilogue>>
  BY <1>2 DEF q, h
<1>11. ASSUME NEW b \in 1..buffers PROVE prog[b] = f[b]
  <2>1. b \in 1..buffers + 1 /\ b \in 1..buffers + 1 + trip
    BY <1>1
  <2>2. prog[b] = q[b] /\ q[b] = h[b] /\ h[b] = f[b]
    BY <2>1, <1>7, <1>8, <1>9, <1>10 DEF q, h
  <2> QED
    BY <2>2
<1>12. prog[buffers + 1] = first
  <2>1. buffers + 1 \in 1..buffers + 1 /\ buffers + 1 \in 1..buffers + 1 + trip
    BY <1>1
  <2>2. prog[buffers + 1] = q[buffers + 1] /\ q[buffers + 1] = h[buffers + 1] /\ h[buffers + 1] = first
    BY <2>1, <1>7, <1>8, <1>9, <1>10 DEF q, h
  <2> QED
    BY <2>2
<1>13. ASSUME NEW k \in 0..trip - 1 PROVE prog[buffers + 2 + k] = prefetchNextIteration(k)
  <2>1. k + 1 \in 1..trip /\ buffers + 2 + k \in 1..buffers + 1 + trip /\ buffers + 1 + (k + 1) = buffers + 2 + k /\ k + 1 - 1 = k
    BY <1>1
  <2>2. prog[buffers + 2 + k] = g[k + 1]
    BY <2>1, <1>8, <1>9, <1>10 DEF q
  <2> QED
    BY <2>1, <2>2, <1>4
<1>14. prog[buffers + 2 + trip] = emitEpilogue /\ Len(prog) = buffers + 2 + trip
  BY <1>9, <1>10
<1>15. prog[buffers + 1] = <<Arrive(gvmNumberPerOp * (numStages - 2)), Barrier>> \o ReadAll(0)
  BY <1>12 DEF first
<1> QED
  BY <1>4, <1>11, <1>13, <1>14, <1>15

\* A block that starts with a wait for all warps.
LEMMA WaitsFirst ==
    ASSUME NEW T, NEW x \in T, NEW y \in T, NEW f \in [Loads -> T]
    PROVE  /\ Len(<<x, y>> \o f) = 2 + LoadCount
           /\ (<<x, y>> \o f)[1] = x /\ (<<x, y>> \o f)[2] = y
           /\ \A l \in Loads : (<<x, y>> \o f)[2 + l] = f[l]
           /\ <<x, y>> \o f \in Seq(T)
<1> DEFINE s == <<x, y>>
<1>1. s \in Seq(T) /\ Len(s) = 2 /\ s[1] = x /\ s[2] = y /\ 2 \in Nat /\ 1 \in 1..2 /\ 2 \in 1..2
  OBVIOUS
<1> HIDE DEF s
<1>2. s \o f \in Seq(T) /\ ThenLoad(s \o f, 2, s, f)
  BY <1>1, ThenLoads
<1> QED
  BY <1>1, <1>2 DEF s, ThenLoad

\* The body: the waits, the copies, the dot and the reads.
IsBody(b, x, y, z, f, g) ==
    /\ Len(b) = 3 + 2 * LoadCount
    /\ b[1] = x /\ b[2] = y /\ b[3 + LoadCount] = z
    /\ \A l \in Loads : b[2 + l] = f[l] /\ b[3 + LoadCount + l] = g[l]

\* The five pieces of the loop's body.
LEMMA BodyContents ==
    ASSUME NEW T, NEW x \in T, NEW y \in T, NEW z \in T, NEW f \in [Loads -> T], NEW g \in [Loads -> T]
    PROVE  IsBody(<<x, y>> \o f \o <<z>> \o g, x, y, z, f, g)
<1> DEFINE s == <<x, y>> \o f
           m == 2 + LoadCount
           n == 3 + LoadCount
           t == s \o <<z>>
<1>1. LoadCount \in Nat /\ Loads = 1..LoadCount
  BY LoadsAssumption DEF Loads
<1>2. /\ Len(s) = m /\ s[1] = x /\ s[2] = y
      /\ \A l \in Loads : s[2 + l] = f[l]
      /\ s \in Seq(T)
  BY WaitsFirst
<1>3. <<z>> \in Seq(T) /\ Len(<<z>>) = 1 /\ <<z>>[1] = z
  OBVIOUS
<1>4. m \in Nat /\ 1 \in Nat /\ 1 \in 1..1 /\ m + 1 = n /\ n \in Nat
  BY <1>1
<1>6. 1 \in 1..m /\ 2 \in 1..m /\ \A l \in Loads : 2 + l \in 1..m
  BY <1>1
<1>7. 1 \in 1..n /\ 2 \in 1..n /\ n \in 1..n /\ \A l \in Loads : 2 + l \in 1..n
  BY <1>1
<1> HIDE DEF s, m
<1>8. /\ t \in Seq(T) /\ Len(t) = Len(s) + Len(<<z>>)
      /\ \A i \in 1..Len(s) : t[i] = s[i]
      /\ \A i \in 1..Len(<<z>>) : t[Len(s) + i] = <<z>>[i]
  BY <1>3, <1>2, Joined
<1> HIDE DEF t
<1>5. Len(t) = n
  BY <1>8, <1>2, <1>3, <1>4
<1>9. t[1] = x /\ t[2] = y /\ t[m + 1] = z /\ \A l \in Loads : t[2 + l] = f[l]
  BY <1>8, <1>6, <1>4, <1>2, <1>3
<1> HIDE DEF n
<1>10. /\ Len(t \o g) = n + LoadCount
       /\ \A i \in 1..n : (t \o g)[i] = t[i]
       /\ \A l \in Loads : (t \o g)[n + l] = g[l]
  <2>1. t \in Seq(T) /\ Len(t) = n
    BY <1>8, <1>5
  <2>2. ThenLoad(t \o g, n, t, g)
    BY <2>1, ThenLoads
  <2> QED
    BY <2>2 DEF ThenLoad
<1>11. n + LoadCount = 3 + 2 * LoadCount
  BY <1>1 DEF n
<1>12. t \o g = <<x, y>> \o f \o <<z>> \o g
  BY DEF t, s
<1>13. /\ (t \o g)[1] = x /\ (t \o g)[2] = y /\ (t \o g)[n] = z
       /\ \A l \in Loads : (t \o g)[2 + l] = f[l]
  BY <1>7, <1>9, <1>10, <1>4
<1> QED
  BY <1>10, <1>11, <1>12, <1>13 DEF n, IsBody

\* What the kernel's blocks are made of.
LEMMA Contents ==
    ASSUME Fixed
    PROVE  /\ \A b \in 1..buffers :
                 /\ Len(prog[b]) = LoadCount
                 /\ \A l \in Loads : prog[b][l] = Copy(l, b - 1, b - 1)
           /\ /\ Len(prog[buffers + 1]) = 2 + LoadCount
              /\ prog[buffers + 1][1] = Arrive(gvmNumberPerOp * (numStages - 2))
              /\ prog[buffers + 1][2] = Barrier
              /\ \A l \in Loads : prog[buffers + 1][2 + l] = Read(l, 0, 1..parts[l])
           /\ \A k \in 0..trip - 1 :
                 /\ Len(prog[buffers + 2 + k]) = 3 + 2 * LoadCount
                 /\ prog[buffers + 2 + k][1] = Arrive(gvmNumberPerOp * (numStages - 3))
                 /\ prog[buffers + 2 + k][2] = Barrier
                 /\ prog[buffers + 2 + k][3 + LoadCount] = Dot(k)
                 /\ \A l \in Loads :
                       /\ prog[buffers + 2 + k][2 + l] = Copy(l, k + numStages - 1, insertSliceIndex(k))
                       /\ prog[buffers + 2 + k][3 + LoadCount + l] = Read(l, loadsExtract(k), 1..parts[l])
           /\ /\ Len(prog[buffers + 2 + trip]) = 2
              /\ prog[buffers + 2 + trip][1] = Arrive(0)
              /\ prog[buffers + 2 + trip][2] = Barrier
<1>1. LoadCount \in Nat /\ Loads = 1..LoadCount
  BY LoadsAssumption DEF Loads
<1>2. ASSUME NEW b \in 1..buffers
      PROVE  /\ Len(prog[b]) = LoadCount
             /\ \A l \in Loads : prog[b][l] = Copy(l, b - 1, b - 1)
  <2> DEFINE f == [l \in Loads |-> Copy(l, b - 1, b - 1)]
  <2>1. prog[b] = f
    BY PrologueBlocks DEF ForLoads
  <2>2. \A l \in Loads : f[l] = Copy(l, b - 1, b - 1)
    OBVIOUS
  <2> DEFINE T == {f[l] : l \in Loads}
  <2>3. f \in [1..LoadCount -> T]
    BY <1>1
  <2> HIDE DEF f, T
  <2>4. Len(f) = LoadCount
    BY <1>1, <2>3, FunctionIsSeq
  <2> QED
    BY <2>1, <2>2, <2>4
<1>3. /\ Len(prog[buffers + 1]) = 2 + LoadCount
      /\ prog[buffers + 1][1] = Arrive(gvmNumberPerOp * (numStages - 2))
      /\ prog[buffers + 1][2] = Barrier
      /\ \A l \in Loads : prog[buffers + 1][2 + l] = Read(l, 0, 1..parts[l])
  <2> DEFINE f == [l \in Loads |-> Read(l, 0, 1..parts[l])]
             x == Arrive(gvmNumberPerOp * (numStages - 2))
  <2>1. prog[buffers + 1] = <<x, Barrier>> \o f
    BY PrologueBlocks DEF ReadAll, ForLoads
  <2> DEFINE T == {x, Barrier} \cup {f[l] : l \in Loads}
  <2>2. (\A l \in Loads : f[l] = Read(l, 0, 1..parts[l])) /\ f \in [Loads -> T] /\ x \in T /\ Barrier \in T
    OBVIOUS
  <2> HIDE DEF f, x, T
  <2>3. /\ Len(<<x, Barrier>> \o f) = 2 + LoadCount
        /\ (<<x, Barrier>> \o f)[1] = x /\ (<<x, Barrier>> \o f)[2] = Barrier
        /\ \A l \in Loads : (<<x, Barrier>> \o f)[2 + l] = f[l]
    BY <2>2, WaitsFirst
  <2> QED
    BY <2>1, <2>2, <2>3 DEF x
<1>4. ASSUME NEW k \in 0..trip - 1
      PROVE  /\ Len(prog[buffers + 2 + k]) = 3 + 2 * LoadCount
             /\ prog[buffers + 2 + k][1] = Arrive(gvmNumberPerOp * (numStages - 3))
             /\ prog[buffers + 2 + k][2] = Barrier
             /\ prog[buffers + 2 + k][3 + LoadCount] = Dot(k)
             /\ \A l \in Loads :
                   /\ prog[buffers + 2 + k][2 + l] = Copy(l, k + numStages - 1, insertSliceIndex(k))
                   /\ prog[buffers + 2 + k][3 + LoadCount + l] = Read(l, loadsExtract(k), 1..parts[l])
  <2> DEFINE f == [l \in Loads |-> Copy(l, k + numStages - 1, insertSliceIndex(k))]
             g == [l \in Loads |-> Read(l, loadsExtract(k), 1..parts[l])]
             x == Arrive(gvmNumberPerOp * (numStages - 3))
  <2>1. prog[buffers + 2 + k] = <<x, Barrier>> \o f \o <<Dot(k)>> \o g
    BY PrologueBlocks DEF prefetchNextIteration, ReadAll, ForLoads
  <2>2. /\ \A l \in Loads : f[l] = Copy(l, k + numStages - 1, insertSliceIndex(k))
        /\ \A l \in Loads : g[l] = Read(l, loadsExtract(k), 1..parts[l])
    OBVIOUS
  <2> DEFINE T == {x, Barrier, Dot(k)} \cup {f[l] : l \in Loads} \cup {g[l] : l \in Loads}
  <2>4. f \in [Loads -> T] /\ g \in [Loads -> T] /\ x \in T /\ Barrier \in T /\ Dot(k) \in T
    OBVIOUS
  <2> HIDE DEF f, g, x, T
  <2> DEFINE b == prog[buffers + 2 + k]
  <2>3. /\ Len(b) = 3 + 2 * LoadCount
        /\ b[1] = x /\ b[2] = Barrier /\ b[3 + LoadCount] = Dot(k)
        /\ \A l \in Loads : b[2 + l] = f[l] /\ b[3 + LoadCount + l] = g[l]
    <3>1. b = <<x, Barrier>> \o f \o <<Dot(k)>> \o g
      BY <2>1
    <3> HIDE DEF b
    <3>2. IsBody(b, x, Barrier, Dot(k), f, g)
      BY <2>4, <3>1, BodyContents
    <3> QED
      BY <3>2 DEF IsBody
  <2> QED
    BY <2>2, <2>3 DEF x
<1>5. /\ Len(prog[buffers + 2 + trip]) = 2
      /\ prog[buffers + 2 + trip][1] = Arrive(0)
      /\ prog[buffers + 2 + trip][2] = Barrier
  BY PrologueBlocks DEF emitEpilogue
<1> QED
  BY <1>2, <1>3, <1>4, <1>5

-----------------------------------------------------------------------------
(* The positions of a warp. *)

\* How far a warp at a position is.
PlaceNumbers(a) ==
    /\ Arrives(a) \in Nat /\ Barriers(a) \in Nat
    /\ Barriers(a) <= Arrives(a) /\ Arrives(a) <= trip + 2
    /\ a.block > Len(prog) => Barriers(a) = trip + 2
    /\ \A l \in Loads :
          /\ Issued(a, l) \in Nat /\ HeldIter(a, l) \in Int
          /\ Arrives(a) <= Issued(a, l) /\ Issued(a, l) <= buffers + Arrives(a)
          /\ Barriers(a) >= 1 => Issued(a, l) <= buffers + Barriers(a) - 1
          /\ HeldIter(a, l) < Issued(a, l)
    /\ \A l, m \in Loads : Issued(a, m) <= Issued(a, l) + 1

\* The numbers in each kind of block, for the iteration m whose operands it loads.
PrologueNumbers(a) ==
    /\ Arrives(a) = 0 /\ Barriers(a) = 0
    /\ \A l \in Loads :
          HeldIter(a, l) = -1 /\ Issued(a, l) = IF l < a.index THEN a.block ELSE a.block - 1

LoopNumbers(a, m) ==
    /\ Arrives(a) = IF a.index > 1 THEN m + 1 ELSE m
    /\ Barriers(a) = IF a.index > 2 THEN m + 1 ELSE m

FirstNumbers(a) ==
    /\ LoopNumbers(a, 0)
    /\ \A l \in Loads :
          Issued(a, l) = buffers /\ HeldIter(a, l) = IF a.index > 2 + l THEN 0 ELSE -1

BodyNumbers(a, m) ==
    /\ LoopNumbers(a, m)
    /\ \A l \in Loads :
          /\ Issued(a, l) = IF l + 2 < a.index THEN buffers + m ELSE buffers + m - 1
          /\ HeldIter(a, l) = IF a.index > 3 + LoadCount + l THEN m ELSE m - 1

EndNumbers(a) ==
    /\ LoopNumbers(a, trip + 1)
    /\ \A l \in Loads : Issued(a, l) = buffers + trip /\ HeldIter(a, l) = trip

OutNumbers(a) ==
    /\ Arrives(a) = trip + 2 /\ Barriers(a) = trip + 2
    /\ \A l \in Loads : Issued(a, l) = buffers + trip /\ HeldIter(a, l) = -1

\* The numbers, block by block.
LEMMA BlockNumbers ==
    ASSUME Fixed, NEW a, a.block \in Nat, a.index \in Nat
    PROVE  /\ a.block \in 1..buffers => PrologueNumbers(a)
           /\ a.block = buffers + 1 => FirstNumbers(a)
           /\ \A m \in 1..trip : a.block = buffers + 1 + m => BodyNumbers(a, m)
           /\ a.block = buffers + 2 + trip /\ a.index <= 2 => EndNumbers(a)
           /\ a.block = buffers + 3 + trip /\ a.index = 1 => OutNumbers(a)
<1>1. /\ buffers \in Nat /\ buffers >= 2 /\ LoadCount \in Nat /\ LoadCount >= 1 /\ Loads = 1..LoadCount
      /\ trip \in Nat
  BY Numbers
<1> DEFINE B == a.block
           x == a.index
<1>2. ASSUME a.block \in 1..buffers PROVE PrologueNumbers(a)
  BY <1>1, <1>2 DEF PrologueNumbers, Arrives, Barriers, Issued, HeldIter
<1>3. ASSUME a.block = buffers + 1 PROVE FirstNumbers(a)
  <2>1. BlockIter(a) = 0 /\ ~(a.block <= buffers) /\ ~(a.block > buffers + 2 + trip)
    BY <1>1, <1>3 DEF BlockIter
  <2> QED
    BY <2>1, <1>1 DEF FirstNumbers, LoopNumbers, Arrives, Barriers, Issued, HeldIter
<1>4. ASSUME NEW m \in 1..trip, a.block = buffers + 1 + m PROVE BodyNumbers(a, m)
  <2>1. /\ BlockIter(a) = m /\ m # 0 /\ m <= trip /\ m \in Int
        /\ ~(a.block <= buffers) /\ ~(a.block > buffers + 2 + trip)
    BY <1>1, <1>4 DEF BlockIter
  <2>2. LoopNumbers(a, m)
    BY <2>1, <1>1 DEF LoopNumbers, Arrives, Barriers
  <2>3. ASSUME NEW l \in Loads
        PROVE  /\ Issued(a, l) = IF l + 2 < a.index THEN buffers + m ELSE buffers + m - 1
               /\ HeldIter(a, l) = IF a.index > 3 + LoadCount + l THEN m ELSE m - 1
    BY <2>1, <1>1 DEF Issued, HeldIter
  <2> QED
    BY <2>2, <2>3 DEF BodyNumbers
<1>5. ASSUME a.block = buffers + 2 + trip, a.index <= 2 PROVE EndNumbers(a)
  <2>1. /\ BlockIter(a) = trip + 1 /\ trip + 1 # 0 /\ ~(trip + 1 <= trip)
        /\ ~(a.block <= buffers) /\ ~(a.block > buffers + 2 + trip)
    BY <1>1, <1>5 DEF BlockIter
  <2>2. LoopNumbers(a, trip + 1)
    BY <2>1, <1>1 DEF LoopNumbers, Arrives, Barriers
  <2>3. ASSUME NEW l \in Loads PROVE Issued(a, l) = buffers + trip /\ HeldIter(a, l) = trip
    <3>1. ~(a.index > 3 + LoadCount + l) /\ trip + 1 - 1 = trip
      BY <1>1, <1>5
    <3> QED
      BY <1>1, <3>1, <2>1 DEF Issued, HeldIter
  <2> QED
    BY <2>2, <2>3 DEF EndNumbers
<1>6. ASSUME a.block = buffers + 3 + trip, a.index = 1 PROVE OutNumbers(a)
  <2>1. /\ BlockIter(a) = trip + 2 /\ trip + 2 # 0 /\ ~(trip + 2 <= trip)
        /\ ~(a.block <= buffers) /\ a.block > buffers + 2 + trip
        /\ ~(a.index > 1) /\ ~(a.index > 2)
    BY <1>1, <1>6 DEF BlockIter
  <2> QED
    BY <2>1, <1>1 DEF OutNumbers, Arrives, Barriers, Issued, HeldIter
<1> QED
  BY <1>2, <1>3, <1>4, <1>5, <1>6

\* A place in the kernel has numbers in range.
LEMMA PlaceHasNumbers ==
    ASSUME Fixed, NEW a, Place(a)
    PROVE  PlaceNumbers(a)
<1>1. /\ buffers \in Nat /\ buffers >= 2 /\ LoadCount \in Nat /\ LoadCount >= 1 /\ Loads = 1..LoadCount
      /\ trip \in Nat /\ Len(prog) = buffers + 2 + trip /\ a.block \in Nat /\ a.index \in Nat
  BY Numbers, PrologueBlocks DEF Place
<1>2. CASE a.block \in 1..buffers /\ a.index \in 1..LoadCount
  <2>1. PrologueNumbers(a)
    BY <1>1, <1>2, BlockNumbers
  <2> QED
    BY <1>1, <1>2, <2>1 DEF PlaceNumbers, PrologueNumbers
<1>3. CASE a.block = buffers + 1 /\ a.index \in 1..2 + LoadCount
  <2>1. FirstNumbers(a)
    BY <1>1, <1>3, BlockNumbers
  <2> QED
    BY <1>1, <1>3, <2>1 DEF PlaceNumbers, FirstNumbers, LoopNumbers
<1>4. CASE a.block \in buffers + 2..buffers + 1 + trip /\ a.index \in 1..3 + 2 * LoadCount
  <2> DEFINE m == a.block - buffers - 1
  <2>1. m \in 1..trip /\ a.block = buffers + 1 + m
    BY <1>1, <1>4
  <2> HIDE DEF m
  <2>2. BodyNumbers(a, m)
    BY <1>1, <2>1, BlockNumbers
  <2>3. /\ Arrives(a) \in {m, m + 1} /\ Barriers(a) \in {m, m + 1} /\ Barriers(a) <= Arrives(a)
    BY <1>1, <2>1, <2>2 DEF BodyNumbers, LoopNumbers
  <2>4. ASSUME NEW l \in Loads
        PROVE  /\ HeldIter(a, l) \in {m, m - 1}
               /\ Issued(a, l) \in {buffers + m - 1, buffers + m}
               /\ Issued(a, l) = buffers + m => a.index > 2
    BY <1>1, <2>1, <2>2 DEF BodyNumbers
  <2>5. a.index > 2 => Barriers(a) = m + 1
    BY <2>2 DEF BodyNumbers, LoopNumbers
  <2>6. ASSUME NEW l \in Loads
        PROVE  /\ Issued(a, l) \in Nat /\ HeldIter(a, l) \in Int
               /\ Arrives(a) <= Issued(a, l) /\ Issued(a, l) <= buffers + Arrives(a)
               /\ Barriers(a) >= 1 => Issued(a, l) <= buffers + Barriers(a) - 1
               /\ HeldIter(a, l) < Issued(a, l)
    BY <1>1, <2>1, <2>3, <2>4, <2>5
  <2>7. \A l, k \in Loads : Issued(a, k) <= Issued(a, l) + 1
    BY <1>1, <2>1, <2>4
  <2>8. ~(a.block > Len(prog))
    BY <1>1, <1>4
  <2> QED
    BY <1>1, <2>1, <2>3, <2>6, <2>7, <2>8 DEF PlaceNumbers
<1>5. CASE a.block = buffers + 2 + trip /\ a.index \in 1..2
  <2>1. EndNumbers(a)
    BY <1>1, <1>5, BlockNumbers
  <2> QED
    BY <1>1, <1>5, <2>1 DEF PlaceNumbers, EndNumbers, LoopNumbers
<1>6. CASE a.block = buffers + 3 + trip /\ a.index = 1
  <2>1. OutNumbers(a)
    BY <1>1, <1>6, BlockNumbers
  <2> QED
    BY <1>1, <1>6, <2>1 DEF PlaceNumbers, OutNumbers
<1> QED
  BY <1>2, <1>3, <1>4, <1>5, <1>6 DEF Place

\* What an operation does to a warp's numbers, from position a to b.
Keeps(a, b) ==
    /\ Place(b)
    /\ \A l \in Loads : HeldIter(b, l) >= 0 => HeldIter(b, l) = HeldIter(a, l)

SameIssued(a, b) == \A l \in Loads : Issued(b, l) = Issued(a, l)
SameWaits(a, b) == Arrives(b) = Arrives(a) /\ Barriers(b) = Barriers(a)

IsCopyOp(a, b, c) ==
    /\ c.op = "copy"
    /\ c.load \in Loads /\ c.iter = Issued(a, c.load) /\ c.slot = c.iter % buffers
    /\ Keeps(a, b) /\ SameWaits(a, b) /\ Arrives(a) < trip + 2
    /\ \A l \in Loads : Issued(b, l) = IF l = c.load THEN Issued(a, l) + 1 ELSE Issued(a, l)

IsArriveOp(a, b, c) ==
    /\ c.op = "arrive"
    /\ Keeps(a, b) /\ SameIssued(a, b)
    /\ Arrives(b) = Arrives(a) + 1 /\ Barriers(b) = Barriers(a)
    /\ \A l, m \in Loads : Issued(a, l) = Issued(a, m)
    /\ \A l \in Loads : \E n \in Nat :
          /\ n + Arrives(a) + 1 = Issued(a, l)
          /\ c.num = gvmNumberPerOp * n \/ c.num = 0
    /\ Arrives(b) = trip + 2 => c.num = 0

IsBarrierOp(a, b, c) ==
    /\ c.op = "barrier"
    /\ Keeps(a, b) /\ SameIssued(a, b)
    /\ Arrives(b) = Arrives(a) /\ Barriers(b) = Barriers(a) + 1

IsReadOp(a, b, c) ==
    /\ c.op = "read"
    /\ c.load \in Loads /\ c.parts = 1..parts[c.load]
    /\ Barriers(a) >= 1 /\ c.slot = (Barriers(a) - 1) % buffers
    /\ Place(b) /\ SameIssued(a, b) /\ SameWaits(a, b)
    /\ HeldIter(b, c.load) = Barriers(a) - 1
    /\ \A l \in Loads : l # c.load /\ HeldIter(b, l) >= 0 => HeldIter(b, l) = HeldIter(a, l)

IsDotOp(a, b, c) ==
    /\ c.op = "dot"
    /\ \A l \in Loads : HeldIter(a, l) = c.iter
    /\ c.iter >= 0
    /\ Keeps(a, b) /\ SameIssued(a, b) /\ SameWaits(a, b)

IsOp(a, b, c) ==
    \/ IsCopyOp(a, b, c) \/ IsArriveOp(a, b, c) \/ IsBarrierOp(a, b, c)
    \/ IsReadOp(a, b, c) \/ IsDotOp(a, b, c)

\* A block of the prologue copies an iteration.
LEMMA PrologueOps ==
    ASSUME Fixed, NEW a, a.block \in 1..buffers, a.index \in 1..LoadCount
    PROVE  IsOp(a, Following(a), prog[a.block][a.index])
<1> DEFINE b == Following(a)
           c == prog[a.block][a.index]
<1>1. /\ buffers \in Nat /\ buffers >= 2 /\ LoadCount \in Nat /\ LoadCount >= 1 /\ Loads = 1..LoadCount
      /\ trip \in Nat
  BY Numbers
<1>2. Len(prog[a.block]) = LoadCount /\ c = Copy(a.index, a.block - 1, a.block - 1)
  BY <1>1, Contents
<1>3. c.op = "copy" /\ c.load = a.index /\ c.iter = a.block - 1 /\ c.slot = a.block - 1
  BY <1>2 DEF Copy, Instr
<1>4. c.slot = c.iter % buffers
  <2>1. a.block - 1 \in Nat /\ a.block - 1 < buffers /\ buffers >= 1
    BY <1>1
  <2>2. (a.block - 1) % buffers = a.block - 1
    BY <1>1, <2>1, Remainder
  <2> QED
    BY <1>3, <2>2
<1>5. PrologueNumbers(a)
  <2>1. a.block \in Nat /\ a.index \in Nat /\ a.block <= buffers
    BY <1>1
  <2> QED
    BY <1>1, <2>1, BlockNumbers
<1>6. CASE a.index < LoadCount
  <2>1. b.block = a.block /\ b.index = a.index + 1
    BY <1>2, <1>6 DEF Following
  <2> HIDE DEF b, c
  <2>2. PrologueNumbers(b) /\ Place(b)
    BY <1>1, <1>6, <2>1, BlockNumbers DEF Place
  <2>3. Keeps(a, b) /\ SameWaits(a, b) /\ Arrives(a) < trip + 2
    BY <1>1, <1>5, <2>2 DEF Keeps, SameWaits, PrologueNumbers
  <2>4. \A l \in Loads : Issued(b, l) = IF l = c.load THEN Issued(a, l) + 1 ELSE Issued(a, l)
    <3> SUFFICES ASSUME NEW l \in Loads
                 PROVE  Issued(b, l) = IF l = c.load THEN Issued(a, l) + 1 ELSE Issued(a, l)
      OBVIOUS
    <3>1. l \in Nat /\ a.index \in Nat /\ a.block \in Nat
      BY <1>1
    <3>2. Issued(a, l) = IF l < a.index THEN a.block ELSE a.block - 1
      BY <1>5 DEF PrologueNumbers
    <3>3. Issued(b, l) = IF l < a.index + 1 THEN a.block ELSE a.block - 1
      BY <2>1, <2>2 DEF PrologueNumbers
    <3> QED
      BY <1>3, <3>1, <3>2, <3>3
  <2>5. c.load \in Loads /\ Issued(a, c.load) = a.block - 1
    <3>1. a.index \in Loads /\ ~(a.index < a.index)
      BY <1>1
    <3> QED
      BY <1>3, <1>5, <3>1 DEF PrologueNumbers
  <2>6. IsCopyOp(a, b, c)
    BY <1>3, <1>4, <2>3, <2>4, <2>5 DEF IsCopyOp
  <2> QED
    BY <2>6 DEF IsOp, b, c
<1>7. CASE a.index = LoadCount
  <2>1. b.block = a.block + 1 /\ b.index = 1
    BY <1>1, <1>2, <1>7 DEF Following
  <2> HIDE DEF b, c
  <2>2. CASE a.block < buffers
    <3>1. PrologueNumbers(b) /\ Place(b)
      BY <1>1, <2>1, <2>2, BlockNumbers DEF Place
    <3>2. IsCopyOp(a, b, c)
      BY <1>1, <1>3, <1>4, <1>5, <1>7, <2>1, <3>1 DEF IsCopyOp, Keeps, SameWaits, PrologueNumbers
    <3> QED
      BY <3>2 DEF IsOp, b, c
  <2>3. CASE a.block = buffers
    <3>1. FirstNumbers(b) /\ Place(b)
      BY <1>1, <2>1, <2>3, BlockNumbers DEF Place
    <3>2. IsCopyOp(a, b, c)
      BY <1>1, <1>3, <1>4, <1>5, <1>7, <2>1, <2>3, <3>1
         DEF IsCopyOp, Keeps, SameWaits, PrologueNumbers, FirstNumbers, LoopNumbers
    <3> QED
      BY <3>2 DEF IsOp, b, c
  <2> QED
    BY <1>1, <2>2, <2>3
<1> QED
  BY <1>1, <1>6, <1>7

\* The prologue's last block waits and loads the first operands.
LEMMA FirstOps ==
    ASSUME Fixed, NEW a, a.block = buffers + 1, a.index \in 1..2 + LoadCount
    PROVE  IsOp(a, Following(a), prog[a.block][a.index])
<1> DEFINE b == Following(a)
           c == prog[a.block][a.index]
<1>1. /\ buffers \in Nat /\ buffers >= 2 /\ LoadCount \in Nat /\ LoadCount >= 1 /\ Loads = 1..LoadCount
      /\ trip \in Nat /\ numStages = buffers + 1
  BY Numbers
<1>2. Len(prog[a.block]) = 2 + LoadCount
  BY <1>1, Contents
<1>3. FirstNumbers(a)
  BY <1>1, BlockNumbers
<1>4. ASSUME a.index < 2 + LoadCount
      PROVE  b.block = a.block /\ b.index = a.index + 1 /\ FirstNumbers(b) /\ Place(b)
  <2>1. b.block = a.block /\ b.index = a.index + 1
    BY <1>2, <1>4 DEF Following
  <2> HIDE DEF b
  <2> QED
    BY <1>1, <1>4, <2>1, BlockNumbers DEF Place
<1>5. CASE a.index = 1
  <2>1. a.index < 2 + LoadCount
    BY <1>1, <1>5
  <2>2. b.index = 2 /\ FirstNumbers(b) /\ Place(b)
    BY <1>4, <1>5, <2>1
  <2>3. c = Arrive(gvmNumberPerOp * (numStages - 2))
    BY <1>5, Contents
  <2>4. c.op = "arrive" /\ c.num = gvmNumberPerOp * (buffers - 1)
    BY <1>1, <2>3 DEF Arrive, Instr
  <2> HIDE DEF b, c
  <2>5. Arrives(a) = 0 /\ Barriers(a) = 0 /\ Arrives(b) = 1 /\ Barriers(b) = 0
    BY <1>3, <1>5, <2>2 DEF FirstNumbers, LoopNumbers
  <2>6. Keeps(a, b) /\ SameIssued(a, b) /\ \A l \in Loads : Issued(a, l) = buffers
    BY <1>1, <1>3, <1>5, <2>2 DEF FirstNumbers, Keeps, SameIssued
  <2>7. buffers - 1 \in Nat /\ buffers - 1 + Arrives(a) + 1 = buffers /\ Arrives(b) # trip + 2
    BY <1>1, <2>5
  <2>8. IsArriveOp(a, b, c)
    BY <2>4, <2>5, <2>6, <2>7 DEF IsArriveOp
  <2> QED
    BY <2>8 DEF IsOp, b, c
<1>6. CASE a.index = 2
  <2>1. a.index < 2 + LoadCount
    BY <1>1, <1>6
  <2>2. b.index = 3 /\ FirstNumbers(b) /\ Place(b)
    BY <1>4, <1>6, <2>1
  <2>3. c.op = "barrier"
    BY <1>6, Contents DEF Barrier, Instr
  <2> HIDE DEF b, c
  <2>4. Arrives(b) = Arrives(a) /\ Barriers(b) = Barriers(a) + 1
    BY <1>3, <1>6, <2>2 DEF FirstNumbers, LoopNumbers
  <2>5. Keeps(a, b) /\ SameIssued(a, b)
    BY <1>1, <1>3, <1>6, <2>2 DEF FirstNumbers, Keeps, SameIssued
  <2> QED
    BY <2>3, <2>4, <2>5 DEF IsBarrierOp, IsOp, b, c
<1>7. CASE a.index > 2
  <2> DEFINE k == a.index - 2
  <2>1. k \in Loads /\ 2 + k = a.index
    BY <1>1, <1>7
  <2>2. c = Read(k, 0, 1..parts[k])
    BY <2>1, Contents
  <2>3. c.op = "read" /\ c.load = k /\ c.slot = 0 /\ c.parts = 1..parts[k]
    BY <2>2 DEF Read, Instr
  <2> HIDE DEF k
  <2>4. Arrives(a) = 1 /\ Barriers(a) = 1
    BY <1>1, <1>3, <1>7 DEF FirstNumbers, LoopNumbers
  <2>5. Barriers(a) >= 1 /\ c.slot = (Barriers(a) - 1) % buffers
    BY <1>1, <2>3, <2>4, Remainder
  <2>6. CASE a.index < 2 + LoadCount
    <3>1. b.index = a.index + 1 /\ FirstNumbers(b) /\ Place(b)
      BY <1>4, <2>6
    <3> HIDE DEF b, c
    <3>2. SameIssued(a, b) /\ SameWaits(a, b)
      BY <1>1, <1>3, <1>7, <3>1 DEF FirstNumbers, LoopNumbers, SameIssued, SameWaits
    <3>3. HeldIter(b, k) = 0
      BY <1>1, <2>1, <3>1 DEF FirstNumbers
    <3>4. ASSUME NEW l \in Loads, l # k, HeldIter(b, l) >= 0 PROVE HeldIter(b, l) = HeldIter(a, l)
      BY <1>1, <1>3, <2>1, <3>1, <3>4 DEF FirstNumbers
    <3> QED
      BY <2>1, <2>3, <2>4, <2>5, <3>1, <3>2, <3>3, <3>4 DEF IsReadOp, IsOp, b, c
  <2>7. CASE a.index = 2 + LoadCount
    <3>1. b.block = buffers + 2 /\ b.index = 1
      BY <1>1, <1>2, <2>7 DEF Following
    <3> HIDE DEF b, c
    <3>2. Place(b)
      BY <1>1, <3>1 DEF Place
    <3>3. /\ Arrives(b) = 1 /\ Barriers(b) = 1
          /\ \A l \in Loads : Issued(b, l) = buffers /\ HeldIter(b, l) = 0
      <4>1. CASE trip = 0
        <5>1. EndNumbers(b)
          BY <1>1, <3>1, <4>1, BlockNumbers
        <5> QED
          BY <1>1, <3>1, <4>1, <5>1 DEF EndNumbers, LoopNumbers
      <4>2. CASE trip >= 1
        <5>1. BodyNumbers(b, 1)
          BY <1>1, <3>1, <4>2, BlockNumbers
        <5> QED
          BY <1>1, <3>1, <4>2, <5>1 DEF BodyNumbers, LoopNumbers
      <4> QED
        BY <1>1, <4>1, <4>2
    <3>4. SameIssued(a, b) /\ SameWaits(a, b)
      BY <1>3, <2>4, <3>3 DEF FirstNumbers, SameIssued, SameWaits
    <3>5. ASSUME NEW l \in Loads, l # k PROVE HeldIter(a, l) = 0
      BY <1>1, <1>3, <2>1, <2>7, <3>5 DEF FirstNumbers
    <3> QED
      BY <2>1, <2>3, <2>4, <2>5, <3>2, <3>3, <3>4, <3>5 DEF IsReadOp, IsOp, b, c
  <2> QED
    BY <1>1, <2>6, <2>7
<1> QED
  BY <1>1, <1>5, <1>6, <1>7

\* The body for iteration m - 1.
LEMMA BodyOps ==
    ASSUME Fixed, NEW m \in 1..trip, NEW a, a.block = buffers + 1 + m, a.index \in 1..3 + 2 * LoadCount
    PROVE  IsOp(a, Following(a), prog[a.block][a.index])
<1> DEFINE b == Following(a)
           c == prog[a.block][a.index]
           k == m - 1
<1>1. /\ buffers \in Nat /\ buffers >= 2 /\ LoadCount \in Nat /\ LoadCount >= 1 /\ Loads = 1..LoadCount
      /\ trip \in Nat /\ numStages = buffers + 1 /\ m \in Nat /\ m >= 1 /\ m <= trip
  BY Numbers
<1>2. k \in 0..trip - 1 /\ buffers + 2 + k = a.block /\ k \in Nat /\ m = k + 1
  BY <1>1
<1> HIDE DEF k
<1>3. /\ Len(prog[a.block]) = 3 + 2 * LoadCount
      /\ prog[a.block][1] = Arrive(gvmNumberPerOp * (numStages - 3))
      /\ prog[a.block][2] = Barrier
      /\ prog[a.block][3 + LoadCount] = Dot(k)
      /\ \A l \in Loads :
            /\ prog[a.block][2 + l] = Copy(l, k + numStages - 1, insertSliceIndex(k))
            /\ prog[a.block][3 + LoadCount + l] = Read(l, loadsExtract(k), 1..parts[l])
  BY <1>2, Contents
<1>4. BodyNumbers(a, m)
  BY <1>1, BlockNumbers
<1>5. ASSUME a.index < 3 + 2 * LoadCount
      PROVE  b.block = a.block /\ b.index = a.index + 1 /\ BodyNumbers(b, m) /\ Place(b)
  <2>1. b.block = a.block /\ b.index = a.index + 1
    BY <1>3, <1>5 DEF Following
  <2> HIDE DEF b
  <2> QED
    BY <1>1, <1>5, <2>1, BlockNumbers DEF Place
<1>6. CASE a.index = 1
  <2>1. a.index < 3 + 2 * LoadCount
    BY <1>1, <1>6
  <2>2. b.index = 2 /\ BodyNumbers(b, m) /\ Place(b)
    BY <1>5, <1>6, <2>1
  <2>3. c.op = "arrive" /\ c.num = gvmNumberPerOp * (buffers - 2)
    <3>1. c = Arrive(gvmNumberPerOp * (numStages - 3))
      BY <1>3, <1>6
    <3>2. numStages - 3 = buffers - 2
      BY <1>1
    <3> QED
      BY <3>1, <3>2 DEF Arrive, Instr
  <2> HIDE DEF b, c
  <2>4. Arrives(a) = m /\ Barriers(a) = m /\ Arrives(b) = m + 1 /\ Barriers(b) = m
    BY <1>4, <1>6, <2>2 DEF BodyNumbers, LoopNumbers
  <2>5. Keeps(a, b) /\ SameIssued(a, b) /\ \A l \in Loads : Issued(a, l) = buffers + m - 1
    BY <1>1, <1>4, <1>6, <2>2 DEF BodyNumbers, Keeps, SameIssued
  <2>6. buffers - 2 \in Nat /\ buffers - 2 + Arrives(a) + 1 = buffers + m - 1 /\ Arrives(b) # trip + 2
    BY <1>1, <2>4
  <2>7. IsArriveOp(a, b, c)
    BY <2>3, <2>4, <2>5, <2>6 DEF IsArriveOp
  <2> QED
    BY <2>7 DEF IsOp, b, c
<1>7. CASE a.index = 2
  <2>1. a.index < 3 + 2 * LoadCount
    BY <1>1, <1>7
  <2>2. b.index = 3 /\ BodyNumbers(b, m) /\ Place(b)
    BY <1>5, <1>7, <2>1
  <2>3. c.op = "barrier"
    BY <1>3, <1>7 DEF Barrier, Instr
  <2> HIDE DEF b, c
  <2>4. Arrives(b) = Arrives(a) /\ Barriers(b) = Barriers(a) + 1
    BY <1>4, <1>7, <2>2 DEF BodyNumbers, LoopNumbers
  <2>5. Keeps(a, b) /\ SameIssued(a, b)
    BY <1>1, <1>4, <1>7, <2>2 DEF BodyNumbers, Keeps, SameIssued
  <2> QED
    BY <2>3, <2>4, <2>5 DEF IsBarrierOp, IsOp, b, c
<1>8. CASE a.index > 2 /\ a.index <= 2 + LoadCount
  <2> DEFINE j == a.index - 2
  <2>1. j \in Loads /\ 2 + j = a.index /\ a.index < 3 + 2 * LoadCount
    BY <1>1, <1>8
  <2>2. b.index = a.index + 1 /\ BodyNumbers(b, m) /\ Place(b)
    BY <1>5, <2>1
  <2>3. c.op = "copy" /\ c.load = j /\ c.iter = k + numStages - 1 /\ c.slot = insertSliceIndex(k)
    <3>1. c = Copy(j, k + numStages - 1, insertSliceIndex(k))
      BY <1>3, <2>1
    <3> QED
      BY <3>1 DEF Copy, Instr
  <2> HIDE DEF b, c
  <2>4. c.iter = buffers + k /\ c.slot = c.iter % buffers
    BY <1>1, <1>2, <2>3 DEF insertSliceIndex
  <2> HIDE DEF j
  <2>5. Arrives(a) = m + 1 /\ SameWaits(a, b) /\ Keeps(a, b)
    <3>1. a.index > 1 /\ b.index > 1 /\ b.index > 2
      BY <1>1, <1>8, <2>2
    <3>2. Arrives(a) = m + 1 /\ SameWaits(a, b)
      BY <1>4, <1>8, <2>2, <3>1 DEF BodyNumbers, LoopNumbers, SameWaits
    <3>3. \A l \in Loads : ~(a.index > 3 + LoadCount + l) /\ ~(b.index > 3 + LoadCount + l)
      BY <1>1, <1>8, <2>2
    <3> QED
      BY <1>4, <2>2, <3>2, <3>3 DEF BodyNumbers, Keeps
  <2>6. Issued(a, j) = c.iter /\ Issued(b, j) = Issued(a, j) + 1
    <3>1. ~(j + 2 < a.index) /\ j + 2 < b.index
      BY <1>1, <2>1, <2>2
    <3>2. Issued(a, j) = buffers + m - 1 /\ Issued(b, j) = buffers + m
      BY <1>4, <2>1, <2>2, <3>1 DEF BodyNumbers
    <3> QED
      BY <1>1, <1>2, <2>4, <3>2
  <2>7. ASSUME NEW l \in Loads, l # j PROVE Issued(b, l) = Issued(a, l)
    <3>1. l + 2 < a.index <=> l + 2 < b.index
      BY <1>1, <2>1, <2>2, <2>7
    <3> QED
      BY <1>4, <2>2, <3>1 DEF BodyNumbers
  <2>8. Arrives(a) < trip + 2
    BY <1>1, <2>5
  <2>9. IsCopyOp(a, b, c)
    BY <2>1, <2>3, <2>4, <2>5, <2>6, <2>7, <2>8 DEF IsCopyOp
  <2> QED
    BY <2>9 DEF IsOp, b, c
<1>9. CASE a.index = 3 + LoadCount
  <2>1. a.index < 3 + 2 * LoadCount
    BY <1>1, <1>9
  <2>2. b.index = a.index + 1 /\ BodyNumbers(b, m) /\ Place(b)
    BY <1>5, <2>1
  <2>3. c.op = "dot" /\ c.iter = k
    BY <1>3, <1>9 DEF Dot, Instr
  <2> HIDE DEF b, c
  <2>4. \A l \in Loads : HeldIter(a, l) = k
    BY <1>1, <1>2, <1>4, <1>9 DEF BodyNumbers
  <2>5. Keeps(a, b)
    BY <1>1, <1>4, <1>9, <2>2 DEF BodyNumbers, Keeps
  <2>6. SameIssued(a, b) /\ SameWaits(a, b)
    BY <1>1, <1>4, <1>9, <2>2 DEF BodyNumbers, LoopNumbers, SameIssued, SameWaits
  <2>7. IsDotOp(a, b, c)
    BY <1>2, <2>3, <2>4, <2>5, <2>6 DEF IsDotOp
  <2> QED
    BY <2>7 DEF IsOp, b, c
<1>10. CASE a.index > 3 + LoadCount
  <2> DEFINE j == a.index - (3 + LoadCount)
  <2>1. j \in Loads /\ 3 + LoadCount + j = a.index
    BY <1>1, <1>10
  <2>2. c.op = "read" /\ c.load = j /\ c.slot = loadsExtract(k) /\ c.parts = 1..parts[j]
    <3>1. c = Read(j, loadsExtract(k), 1..parts[j])
      BY <1>3, <2>1
    <3> QED
      BY <3>1 DEF Read, Instr
  <2> HIDE DEF j
  <2>3. Arrives(a) = m + 1 /\ Barriers(a) = m + 1
    BY <1>1, <1>4, <1>10 DEF BodyNumbers, LoopNumbers
  <2>4. Barriers(a) >= 1 /\ Barriers(a) - 1 = m
    BY <1>1, <2>3
  <2>5. c.slot = m % buffers
    <3>1. CASE k = 0
      <4>0. 1 \in Nat /\ 1 < buffers /\ buffers >= 1 /\ m = 1
        BY <1>1, <1>2, <3>1
      <4>1. 1 % buffers = 1
        BY <1>1, <4>0, Remainder
      <4> QED
        BY <2>2, <3>1, <4>0, <4>1 DEF loadsExtract
    <3>2. CASE k # 0
      <4>1. numStages - 1 = buffers /\ 2 + (k - 1) = m
        BY <1>1, <1>2
      <4> QED
        BY <2>2, <3>2, <4>1 DEF loadsExtract, extractSliceIndex
    <3> QED
      BY <3>1, <3>2
  <2>6. CASE a.index < 3 + 2 * LoadCount
    <3>1. b.index = a.index + 1 /\ BodyNumbers(b, m) /\ Place(b)
      BY <1>5, <2>6
    <3> HIDE DEF b, c
    <3>2. SameIssued(a, b) /\ SameWaits(a, b)
      <4>1. a.index > 2 /\ b.index > 2 /\ a.index > 1 /\ b.index > 1
        BY <1>1, <1>10, <3>1
      <4>2. \A l \in Loads : l + 2 < a.index /\ l + 2 < b.index
        BY <1>1, <1>10, <3>1
      <4> QED
        BY <1>4, <3>1, <4>1, <4>2 DEF BodyNumbers, LoopNumbers, SameIssued, SameWaits
    <3>3. HeldIter(b, j) = m
      BY <1>1, <2>1, <3>1 DEF BodyNumbers
    <3>4. ASSUME NEW l \in Loads, l # j PROVE HeldIter(b, l) = HeldIter(a, l)
      BY <1>1, <1>4, <2>1, <3>1, <3>4 DEF BodyNumbers
    <3>5. IsReadOp(a, b, c)
      BY <2>1, <2>2, <2>4, <2>5, <3>1, <3>2, <3>3, <3>4 DEF IsReadOp
    <3> QED
      BY <3>5 DEF IsOp, b, c
  <2>7. CASE a.index = 3 + 2 * LoadCount
    <3>1. b.block = buffers + 2 + m /\ b.index = 1
      BY <1>1, <1>3, <2>7 DEF Following
    <3> HIDE DEF b, c
    <3>2. Place(b)
      BY <1>1, <3>1 DEF Place
    <3>3. /\ Arrives(b) = m + 1 /\ Barriers(b) = m + 1
          /\ \A l \in Loads : Issued(b, l) = buffers + m /\ HeldIter(b, l) = m
      <4>1. CASE m = trip
        <5>1. EndNumbers(b)
          BY <1>1, <3>1, <4>1, BlockNumbers
        <5> QED
          BY <1>1, <3>1, <4>1, <5>1 DEF EndNumbers, LoopNumbers
      <4>2. CASE m < trip
        <5>1. m + 1 \in 1..trip /\ b.block = buffers + 1 + (m + 1) /\ b.block \in Nat /\ b.index \in Nat
          BY <1>1, <3>1, <4>2
        <5>2. BodyNumbers(b, m + 1)
          BY <5>1, BlockNumbers
        <5> QED
          BY <1>1, <3>1, <5>1, <5>2 DEF BodyNumbers, LoopNumbers
      <4> QED
        BY <1>1, <4>1, <4>2
    <3>4. SameIssued(a, b) /\ SameWaits(a, b)
      BY <1>1, <1>4, <2>3, <2>7, <3>3 DEF BodyNumbers, SameIssued, SameWaits
    <3>5. ASSUME NEW l \in Loads, l # j PROVE HeldIter(a, l) = m
      BY <1>1, <1>4, <2>1, <2>7, <3>5 DEF BodyNumbers
    <3>6. IsReadOp(a, b, c)
      BY <2>1, <2>2, <2>4, <2>5, <3>2, <3>3, <3>4, <3>5 DEF IsReadOp
    <3> QED
      BY <3>6 DEF IsOp, b, c
  <2> QED
    BY <1>1, <2>6, <2>7
<1> QED
  BY <1>1, <1>6, <1>7, <1>8, <1>9, <1>10

\* The epilogue's arrive and barrier.
LEMMA EndOps ==
    ASSUME Fixed, NEW a, a.block = buffers + 2 + trip, a.index \in 1..2
    PROVE  IsOp(a, Following(a), prog[a.block][a.index])
<1> DEFINE b == Following(a)
           c == prog[a.block][a.index]
<1>1. /\ buffers \in Nat /\ buffers >= 2 /\ LoadCount \in Nat /\ LoadCount >= 1 /\ Loads = 1..LoadCount
      /\ trip \in Nat
  BY Numbers
<1>2. Len(prog[a.block]) = 2 /\ prog[a.block][1] = Arrive(0) /\ prog[a.block][2] = Barrier
  BY Contents
<1>3. EndNumbers(a)
  BY <1>1, BlockNumbers
<1>4. CASE a.index = 1
  <2>1. b.block = a.block /\ b.index = 2
    BY <1>2, <1>4 DEF Following
  <2>2. c.op = "arrive" /\ c.num = 0
    BY <1>2, <1>4 DEF Arrive, Instr
  <2> HIDE DEF b, c
  <2>3. EndNumbers(b) /\ Place(b)
    BY <1>1, <2>1, BlockNumbers DEF Place
  <2>4. Arrives(b) = Arrives(a) + 1 /\ Barriers(b) = Barriers(a) /\ Arrives(a) = trip + 1
    BY <1>1, <1>3, <1>4, <2>1, <2>3 DEF EndNumbers, LoopNumbers
  <2>5. Keeps(a, b) /\ SameIssued(a, b) /\ \A l \in Loads : Issued(a, l) = buffers + trip
    BY <1>3, <2>3 DEF EndNumbers, Keeps, SameIssued
  <2>6. buffers - 2 \in Nat /\ buffers - 2 + (trip + 1) + 1 = buffers + trip
    BY <1>1
  <2>7. IsArriveOp(a, b, c)
    BY <2>2, <2>4, <2>5, <2>6 DEF IsArriveOp
  <2> QED
    BY <2>7 DEF IsOp, b, c
<1>5. CASE a.index = 2
  <2>1. b.block = buffers + 3 + trip /\ b.index = 1
    BY <1>1, <1>2, <1>5 DEF Following
  <2>2. c.op = "barrier"
    BY <1>2, <1>5 DEF Barrier, Instr
  <2> HIDE DEF b, c
  <2>3. OutNumbers(b) /\ Place(b)
    BY <1>1, <2>1, BlockNumbers DEF Place
  <2>4. Arrives(b) = Arrives(a) /\ Barriers(b) = Barriers(a) + 1
    BY <1>1, <1>3, <1>5, <2>3 DEF EndNumbers, OutNumbers, LoopNumbers
  <2>5. Keeps(a, b) /\ SameIssued(a, b)
    BY <1>3, <2>3 DEF EndNumbers, OutNumbers, Keeps, SameIssued
  <2> QED
    BY <2>2, <2>4, <2>5 DEF IsBarrierOp, IsOp, b, c
<1> QED
  BY <1>1, <1>4, <1>5

\* What any operation of the kernel is, and does to a warp's numbers.
LEMMA Operation ==
    ASSUME Fixed, NEW a, Place(a), a.block <= Len(prog)
    PROVE  IsOp(a, Following(a), prog[a.block][a.index])
<1>1. buffers \in Nat /\ trip \in Nat /\ Len(prog) = buffers + 2 + trip /\ a.block \in Nat
  BY Numbers, PrologueBlocks DEF Place
<1>2. a.block # buffers + 3 + trip
  BY <1>1
<1>3. ASSUME a.block \in buffers + 2..buffers + 1 + trip, a.index \in 1..3 + 2 * LoadCount
      PROVE  IsOp(a, Following(a), prog[a.block][a.index])
  <2> DEFINE m == a.block - buffers - 1
  <2>1. m \in 1..trip /\ a.block = buffers + 1 + m
    BY <1>1, <1>3
  <2> HIDE DEF m
  <2> QED
    BY <1>3, <2>1, BodyOps
<1> QED
  BY <1>2, <1>3, PrologueOps, FirstOps, EndOps DEF Place

-----------------------------------------------------------------------------
(* What an arrive waits for. *)

\* The first n numbers are n.
LEMMA UpTo ==
    ASSUME NEW n \in Nat
    PROVE  IsFiniteSet(1..n) /\ Cardinality(1..n) = n
<1>1. 1 \in Int /\ n \in Int
  OBVIOUS
<1>2. IsFiniteSet(1..n) /\ Cardinality(1..n) = IF 1 > n THEN 0 ELSE n - 1 + 1
  BY <1>1, FS_Interval
<1> QED
  BY <1>2

\* The pass counts finitely many copies, each of a part that is copied.
LEMMA CountedParts ==
    ASSUME Vectors, Fixed
    PROVE  /\ IsFiniteSet(Counted) /\ gvmNumberPerOp \in Nat
           /\ \A c \in Counted : c[1] \in Loads /\ c[2] \in 1..parts[c[1]] /\ c = <<c[1], c[2]>>
           /\ \A l \in Loads : parts[l] \in Nat \ {0}
<1> DEFINE n(l) == getGVMNumberPerOp(layout[l])
           C(l) == {l} \X (1..n(l))
           S == {C(l) : l \in Loads}
           f == [l \in Loads |-> C(l)]
<1>1. LoadCount \in Nat /\ Loads = 1..LoadCount
  BY Numbers
<1>2. IsFiniteSet(Loads)
  BY <1>1, FS_Interval
<1>3. ASSUME NEW l \in Loads PROVE n(l) \in Nat /\ parts[l] \in Nat \ {0} /\ n(l) <= parts[l]
  <2>1. layout[l] \in Layouts /\ parts[l] = AsyncCopyInstructions(layout[l])
    BY DEF Fixed
  <2> QED
    BY <2>1 DEF Vectors
<1>4. \A l \in Loads : IsFiniteSet(C(l))
  <2> SUFFICES ASSUME NEW l \in Loads PROVE IsFiniteSet(C(l))
    OBVIOUS
  <2>1. IsFiniteSet({l}) /\ IsFiniteSet(1..n(l))
    BY <1>3, FS_Singleton, UpTo
  <2> HIDE DEF n
  <2> QED
    BY <2>1, FS_Product
<1>5. Counted = UNION S
  BY DEF Counted
<1>6. \A c \in Counted : c[1] \in Loads /\ c[2] \in 1..parts[c[1]] /\ c = <<c[1], c[2]>>
  <2> SUFFICES ASSUME NEW l \in Loads, NEW c \in C(l)
               PROVE  c[1] \in Loads /\ c[2] \in 1..parts[c[1]] /\ c = <<c[1], c[2]>>
    BY <1>5
  <2>1. c[1] = l /\ c[2] \in 1..n(l) /\ c = <<c[1], c[2]>>
    OBVIOUS
  <2> HIDE DEF n
  <2> QED
    BY <1>3, <2>1
<1>7. f \in Surjection(Loads, S)
  <2> HIDE DEF C
  <2> QED
    BY DEF Surjection
<1>8. IsFiniteSet(S)
  <2> HIDE DEF S, f
  <2> QED
    BY <1>2, <1>7, FS_Surjection
<1>9. \A T \in S : IsFiniteSet(T)
  <2> HIDE DEF C
  <2> QED
    BY <1>4
<1>10. IsFiniteSet(Counted)
  <2> HIDE DEF S
  <2> QED
    BY <1>5, <1>8, <1>9, FS_UNION
<1>11. gvmNumberPerOp \in Nat
  BY <1>10, FS_CardinalityType DEF gvmNumberPerOp
<1> QED
  BY <1>3, <1>6, <1>10, <1>11

\* With as many copies in flight as the later iterations count, none is of the
\* iteration waited for.
LEMMA NothingOlder ==
    ASSUME Vectors, Fixed, NEW w \in Warps, WarpTypes(w), CopiesClosed(w), NEW n \in Nat,
           Arrives(at[w]) \in Nat,
           \A l \in Loads : n + Arrives(at[w]) + 1 = Issued(at[w], l),
           Len(flight[w]) <= gvmNumberPerOp * n, NEW x \in 1..Len(flight[w])
    PROVE  flight[w][x].iter # Arrives(at[w])
<1> DEFINE i0 == Arrives(at[w])
           G == gvmNumberPerOp
           f == flight[w]
           m == Len(f)
           I == i0 + 1..i0 + n
           K == I \X Counted
           T == (1..m) \ {x}
           Is(k, y) == IsCopy(f[y], k[2][1], k[1], k[2][2])
           g == [k \in K |-> CHOOSE y \in 1..m : Is(k, y)]
<1> SUFFICES ASSUME f[x].iter = i0 PROVE FALSE
  OBVIOUS
<1>1. f \in Seq(CopyEntry) /\ m \in Nat /\ i0 \in Nat /\ i0 + 1 \in Int /\ i0 + n \in Int
  BY LenProperties DEF WarpTypes
<1>2. IsFiniteSet(Counted) /\ G \in Nat /\ Cardinality(Counted) = G
  BY CountedParts DEF gvmNumberPerOp
<1>3. IsFiniteSet(I) /\ Cardinality(I) = n
  <2> DEFINE lo == i0 + 1
             hi == i0 + n
  <2>1. lo \in Int /\ hi \in Int
    BY <1>1
  <2>2. (IF lo > hi THEN 0 ELSE hi - lo + 1) = n
    BY <1>1
  <2>3. I = lo..hi
    OBVIOUS
  <2> HIDE DEF lo, hi, I
  <2>4. IsFiniteSet(I) /\ Cardinality(I) = IF lo > hi THEN 0 ELSE hi - lo + 1
    BY <2>1, <2>3, FS_Interval
  <2> QED
    BY <2>2, <2>4
<1>4. IsFiniteSet(K) /\ Cardinality(K) = n * G
  <2> HIDE DEF I
  <2> QED
    BY <1>2, <1>3, FS_Product
<1>5. IsFiniteSet(T) /\ Cardinality(T) = m - 1
  <2>1. IsFiniteSet(1..m) /\ Cardinality(1..m) = m
    BY <1>1, UpTo
  <2>2. IsFiniteSet(T) /\ Cardinality(T) = IF x \in 1..m THEN Cardinality(1..m) - 1 ELSE Cardinality(1..m)
    BY <2>1, FS_RemoveElement
  <2> QED
    BY <2>1, <2>2
<1>6. ASSUME NEW k \in K PROVE k[1] # i0 /\ \E y \in 1..m : Is(k, y)
  <2>1. k[1] \in I /\ k[2] \in Counted
    OBVIOUS
  <2>2. k[2][1] \in Loads /\ k[2][2] \in 1..parts[k[2][1]]
    BY <2>1, CountedParts
  <2>3. k[1] > i0 /\ k[1] \in 0..n + i0 + 1 - 1
    BY <1>1, <2>1
  <2>4. k[1] \in 0..Issued(at[w], k[2][1]) - 1
    BY <2>2, <2>3
  <2>5. CopyInFlight(w, k[2][1], k[1], k[2][2])
    BY <2>2, <2>3, <2>4 DEF CopiesClosed
  <2> QED
    BY <1>1, <2>3, <2>5 DEF CopyInFlight
<1> HIDE DEF K, I
<1>7. ASSUME NEW k \in K PROVE g[k] \in 1..m /\ Is(k, g[k])
  <2>1. \E y \in 1..m : Is(k, y)
    BY <1>6
  <2> HIDE DEF Is
  <2> QED
    BY <2>1
<1>8. g \in [K -> T]
  <2> SUFFICES ASSUME NEW k \in K PROVE g[k] \in T
    OBVIOUS
  <2>1. f[g[k]].iter = k[1]
    BY <1>7 DEF IsCopy
  <2> HIDE DEF g
  <2> QED
    BY <1>6, <1>7, <2>1
<1>9. ASSUME NEW k \in K, NEW k2 \in K, g[k] = g[k2] PROVE k = k2
  <2>1. Is(k, g[k]) /\ Is(k2, g[k])
    BY <1>7, <1>9
  <2> HIDE DEF g
  <2>2. k[2][1] = k2[2][1] /\ k[1] = k2[1] /\ k[2][2] = k2[2][2]
    BY <2>1 DEF IsCopy
  <2>3. k = <<k[1], k[2]>> /\ k2 = <<k2[1], k2[2]>> /\ k[2] \in Counted /\ k2[2] \in Counted
    BY DEF K
  <2>4. k[2] = <<k[2][1], k[2][2]>> /\ k2[2] = <<k2[2][1], k2[2][2]>>
    BY <2>3, CountedParts
  <2> QED
    BY <2>2, <2>3, <2>4
<1>10. g \in Injection(K, T)
  <2> HIDE DEF g, T
  <2> QED
    BY <1>8, <1>9 DEF Injection, IsInjective
<1>11. Cardinality(K) <= Cardinality(T)
  <2> HIDE DEF g, T
  <2> QED
    BY <1>5, <1>10, FS_Injection
<1>12. n * G <= m - 1 /\ m <= G * n
  BY <1>4, <1>5, <1>11
<1>13. G * n = n * G /\ n * G \in Nat
  BY <1>2
<1> HIDE DEF G, m
<1> QED
  BY <1>1, <1>12, <1>13

-----------------------------------------------------------------------------
(* The invariant. *)

\* A step leaves what the pass has fixed, so positions mean what they did.
LEMMA SamePlaces ==
    ASSUME UNCHANGED <<kernel, pass>>
    PROVE  /\ buffers' = buffers /\ trip' = trip /\ parts' = parts /\ prog' = prog
           /\ \A a : /\ Place(a)' = Place(a)
                     /\ Arrives(a)' = Arrives(a) /\ Barriers(a)' = Barriers(a)
           /\ \A a, l : Issued(a, l)' = Issued(a, l) /\ HeldIter(a, l)' = HeldIter(a, l)
           /\ \A l, i : AsyncCopyResult(l, i)' = AsyncCopyResult(l, i)
           /\ Fixed => Fixed'
<1>1. /\ numStages' = numStages /\ layout' = layout /\ prog' = prog /\ trip' = trip
      /\ masked' = masked /\ other' = other /\ parts' = parts
  BY DEF kernel, pass
<1>2. buffers' = buffers
  BY <1>1 DEF buffers
<1>3. \A a : BlockIter(a)' = BlockIter(a)
  BY <1>2 DEF BlockIter
<1>4. \A a : /\ Place(a)' = Place(a)
             /\ Arrives(a)' = Arrives(a) /\ Barriers(a)' = Barriers(a)
  BY <1>1, <1>2, <1>3 DEF Place, Arrives, Barriers
<1>5. \A a, l : Issued(a, l)' = Issued(a, l) /\ HeldIter(a, l)' = HeldIter(a, l)
  BY <1>1, <1>2, <1>3 DEF Issued, HeldIter
<1>6. \A l, i : AsyncCopyResult(l, i)' = AsyncCopyResult(l, i)
  BY <1>1 DEF AsyncCopyResult, LoadMask
<1>7. LoopPipeliner' = LoopPipeliner
  <2>1. gvmNumberPerOp' = gvmNumberPerOp
    BY <1>1 DEF gvmNumberPerOp, Counted
  <2>2. \A s : ReadAll(s)' = ReadAll(s)
    BY <1>1 DEF ReadAll, ForLoads
  <2>3. \A k : prefetchNextIteration(k)' = prefetchNextIteration(k)
    <3> TAKE k
    <3>1. insertSliceIndex(k)' = insertSliceIndex(k) /\ loadsExtract(k)' = loadsExtract(k)
      BY <1>1 DEF insertSliceIndex, loadsExtract, extractSliceIndex
    <3>2. ReadAll(loadsExtract(k))' = ReadAll(loadsExtract(k))
      BY <2>2, <3>1
    <3> QED
      BY <1>1, <2>1, <3>1, <3>2 DEF prefetchNextIteration, ForLoads
  <2>4. emitPrologue' = emitPrologue
    BY <1>1, <2>1, <2>2 DEF emitPrologue, ForLoads
  <2> QED
    BY <1>1, <2>3, <2>4 DEF LoopPipeliner, emitEpilogue
<1>8. Fixed => Fixed'
  BY <1>1, <1>7 DEF Fixed
<1> QED
  BY <1>1, <1>2, <1>4, <1>5, <1>6, <1>8

\* What another warp does leaves a warp's part of the invariant.
LEMMA OtherWarp ==
    ASSUME UNCHANGED <<kernel, pass>>, KernelTypes, NEW w \in Warps, WarpInv(w),
           at'[w] = at[w], flight'[w] = flight[w], operands'[w] = operands[w],
           \A l, s, p : smem'[<<l, s, w, p>>] = smem[<<l, s, w, p>>]
    PROVE  WarpInv(w)'
<1>1. \A l, i, p : CopyInFlight(w, l, i, p)' = CopyInFlight(w, l, i, p)
  BY DEF CopyInFlight
<1>2. WarpTypes(w)'
  BY SamePlaces DEF WarpInv, WarpTypes
<1>3. CopiesIssued(w)'
  BY SamePlaces DEF WarpInv, CopiesIssued
<1>4. CopiesOrdered(w)'
  BY DEF WarpInv, CopiesOrdered
<1>5. CopiesClosed(w)'
  BY SamePlaces, <1>1 DEF WarpInv, CopiesClosed
<1>6. BuffersFilled(w)'
  BY SamePlaces, <1>1 DEF WarpInv, BuffersFilled
<1>7. OperandsHeld(w)'
  BY SamePlaces DEF WarpInv, OperandsHeld
<1>8. QuietAtEnd(w)'
  BY SamePlaces DEF WarpInv, QuietAtEnd
<1> QED
  BY <1>2, <1>3, <1>4, <1>5, <1>6, <1>7, <1>8 DEF WarpInv

\* A warp that goes on does one of the kernel's operations.
LEMMA GoesOn ==
    ASSUME AsyncInv, UNCHANGED <<kernel, pass>>, NEW w \in Warps, Running(w), Advance(w)
    PROVE  /\ IsOp(at[w], at'[w], Current(w)) /\ PlaceNumbers(at[w])
           /\ Place(at'[w]) => PlaceNumbers(at'[w])
           /\ DOMAIN at' = Warps /\ \A v \in Warps : v # w => at'[v] = at[v]
<1>1. Fixed /\ Place(at[w]) /\ DOMAIN at = Warps
  BY DEF AsyncInv, WarpInv, WarpTypes, KernelTypes
<1>2. at'[w] = Following(at[w]) /\ DOMAIN at' = Warps /\ \A v \in Warps : v # w => at'[v] = at[v]
  BY <1>1 DEF Advance
<1>3. IsOp(at[w], Following(at[w]), Current(w))
  BY <1>1, Operation DEF Running, Current
<1> QED
  BY <1>1, <1>2, <1>3, PlaceHasNumbers

\* A step of one warp that is not a barrier.
LEMMA StillInStep ==
    ASSUME InStep, UNCHANGED <<kernel, pass>>, NEW w \in Warps,
           Barriers(at'[w]) = Barriers(at[w]), \A v \in Warps : v # w => at'[v] = at[v]
    PROVE  InStep'
<1>1. \A v \in Warps : Barriers(at'[v]) = Barriers(at[v])
  OBVIOUS
<1> QED
  BY <1>1, SamePlaces DEF InStep

\* The contents of the flight of a warp that issues the copies of a load.
IssuesCopies(s, t, c) ==
    /\ t \in Seq(CopyEntry) /\ Len(s) \in Nat /\ Len(t) = Len(s) + parts[c.load]
    /\ \A x \in 1..Len(s) : t[x] = s[x]
    /\ \A p \in 1..parts[c.load] :
          t[Len(s) + p] = [load |-> c.load, iter |-> c.iter, slot |-> c.slot, part |-> p]

\* A copy's instructions, one for each part, after what is in flight.
LEMMA CopiesJoin ==
    ASSUME NEW w, flight[w] \in Seq(CopyEntry), NEW c, parts[c.load] \in Nat,
           c.load \in Loads, c.iter \in Nat, c.slot \in Nat
    PROVE  IssuesCopies(flight[w], flight[w] \o [p \in 1..parts[c.load] |->
               [load |-> c.load, iter |-> c.iter, slot |-> c.slot, part |-> p]], c)
<1> DEFINE m == parts[c.load]
           n == [p \in 1..m |-> [load |-> c.load, iter |-> c.iter, slot |-> c.slot, part |-> p]]
           s == flight[w]
<1>1. n \in [1..m -> CopyEntry] /\ m \in Nat
  BY DEF CopyEntry
<1>2. \A p \in 1..m : n[p] = [load |-> c.load, iter |-> c.iter, slot |-> c.slot, part |-> p]
  OBVIOUS
<1> HIDE DEF n
<1>3. n \in Seq(CopyEntry) /\ Len(n) = m
  BY <1>1, FunctionIsSeq
<1>4. Len(s) \in Nat
  BY LenProperties
<1> HIDE DEF s
<1>5. s \in Seq(CopyEntry)
  BY DEF s
<1> DEFINE t == s \o n
<1>6. t \in Seq(CopyEntry) /\ Join(t, s, n)
  BY <1>3, <1>5, Joined
<1> HIDE DEF t
<1>7. IssuesCopies(s, t, c)
  BY <1>2, <1>3, <1>4, <1>6 DEF IssuesCopies, Join
<1> QED
  BY <1>7 DEF t, s, n

\* A copy starts where the last one of its load has stopped.
LEMMA CopyKeeps ==
    ASSUME Vectors, AsyncInv, NEW w \in Warps, AsyncCopy(w), UNCHANGED pass
    PROVE  AsyncInv'
<1> DEFINE a == at[w]
           b == at'[w]
           c == Current(w)
           s == flight[w]
           t == flight'[w]
           I == c.iter
<1>1. /\ UNCHANGED <<kernel, pass>> /\ smem' = smem /\ operands' = operands
      /\ Running(w) /\ c.op = "copy" /\ Advance(w)
  BY DEF AsyncCopy
<1>2. /\ Fixed /\ KernelTypes /\ InStep /\ WarpTypes(w) /\ CopiesIssued(w) /\ CopiesOrdered(w)
      /\ CopiesClosed(w) /\ BuffersFilled(w) /\ OperandsHeld(w) /\ QuietAtEnd(w)
  BY DEF AsyncInv, WarpInv
<1>3. buffers \in Nat /\ buffers >= 1 /\ trip \in Nat
  BY <1>2, Numbers
<1>4. /\ IsOp(a, b, c) /\ PlaceNumbers(a) /\ (Place(b) => PlaceNumbers(b))
      /\ DOMAIN at' = Warps /\ \A v \in Warps : v # w => at'[v] = at[v]
  BY <1>1, GoesOn
<1>5. IsCopyOp(a, b, c)
  BY <1>1, <1>4 DEF IsOp, IsArriveOp, IsBarrierOp, IsReadOp, IsDotOp
<1>6. /\ c.load \in Loads /\ I = Issued(a, c.load) /\ I \in Nat /\ c.slot = I % buffers
      /\ Place(b) /\ Arrives(b) = Arrives(a) /\ Barriers(b) = Barriers(a)
      /\ Arrives(a) < trip + 2 /\ Arrives(a) \in Nat
      /\ \A l \in Loads : HeldIter(b, l) >= 0 => HeldIter(b, l) = HeldIter(a, l)
      /\ PlaceNumbers(b)
  BY <1>4, <1>5 DEF IsCopyOp, Keeps, SameWaits, PlaceNumbers
<1>7. \A l \in Loads : Issued(b, l) = IF l = c.load THEN Issued(a, l) + 1 ELSE Issued(a, l)
  BY <1>5 DEF IsCopyOp
<1>8. \A l \in Loads : Issued(a, l) \in Nat /\ Issued(a, l) <= I + 1 /\ Arrives(a) <= Issued(a, l)
  BY <1>4, <1>6 DEF PlaceNumbers
<1>9. parts[c.load] \in Nat \ {0}
  BY <1>2, <1>6, CountedParts
<1>10. c.slot \in Nat
  BY <1>3, <1>6, Remainder
<1>11. /\ IssuesCopies(s, t, c) /\ DOMAIN flight' = Warps
       /\ \A v \in Warps : v # w => flight'[v] = flight[v]
  <2>1. s \in Seq(CopyEntry) /\ DOMAIN flight = Warps
    BY <1>2 DEF WarpTypes, KernelTypes
  <2>2. IssuesCopies(s, s \o [p \in 1..parts[c.load] |->
            [load |-> c.load, iter |-> c.iter, slot |-> c.slot, part |-> p]], c)
    BY <1>6, <1>9, <1>10, <2>1, CopiesJoin
  <2>3. /\ t = s \o [p \in 1..parts[c.load] |->
            [load |-> c.load, iter |-> c.iter, slot |-> c.slot, part |-> p]]
        /\ DOMAIN flight' = Warps /\ \A v \in Warps : v # w => flight'[v] = flight[v]
    BY <2>1 DEF AsyncCopy
  <2> QED
    BY <2>2, <2>3
<1> DEFINE m == Len(s)
           k == parts[c.load]
<1>12. /\ t \in Seq(CopyEntry) /\ m \in Nat /\ k \in Nat /\ k >= 1 /\ Len(t) = m + k
       /\ \A x \in 1..m : t[x] = s[x] /\ x \in 1..Len(t)
       /\ \A p \in 1..k :
             /\ m + p \in 1..Len(t)
             /\ t[m + p].load = c.load /\ t[m + p].iter = I
             /\ t[m + p].slot = c.slot /\ t[m + p].part = p
  <2>1. /\ t \in Seq(CopyEntry) /\ m \in Nat /\ Len(t) = m + k
        /\ \A x \in 1..m : t[x] = s[x]
        /\ \A p \in 1..k : t[m + p] = [load |-> c.load, iter |-> c.iter, slot |-> c.slot, part |-> p]
    BY <1>11 DEF IssuesCopies
  <2>2. k \in Nat /\ k >= 1
    BY <1>9
  <2> HIDE DEF m, k, t, s, c
  <2>3. \A x \in 1..m : x \in 1..Len(t)
    BY <2>1, <2>2
  <2>4. \A p \in 1..k : m + p \in 1..Len(t)
    BY <2>1, <2>2
  <2>5. ASSUME NEW p \in 1..k
        PROVE  /\ t[m + p].load = c.load /\ t[m + p].iter = c.iter
               /\ t[m + p].slot = c.slot /\ t[m + p].part = p
    <3>1. t[m + p] = [load |-> c.load, iter |-> c.iter, slot |-> c.slot, part |-> p]
      BY <2>1
    <3> DEFINE e == t[m + p]
    <3> HIDE DEF e
    <3>2. e.load = c.load /\ e.iter = c.iter /\ e.slot = c.slot /\ e.part = p
      BY <3>1 DEF e
    <3> QED
      BY <3>2 DEF e
  <2>6. \A x \in 1..m : t[x] = s[x] /\ x \in 1..Len(t)
    BY <2>1, <2>3
  <2>7. \A p \in 1..k :
           /\ m + p \in 1..Len(t)
           /\ t[m + p].load = c.load /\ t[m + p].iter = c.iter
           /\ t[m + p].slot = c.slot /\ t[m + p].part = p
    BY <2>4, <2>5
  <2> QED
    BY <2>1, <2>2, <2>6, <2>7
<1>13. ASSUME NEW x \in 1..Len(t)
       PROVE  \/ x \in 1..m /\ t[x] = s[x]
              \/ /\ x > m /\ t[x].load = c.load /\ t[x].iter = I
                 /\ t[x].slot = c.slot /\ t[x].part \in 1..k
  <2>1. CASE x <= m
    <3>1. x \in 1..m
      BY <1>12, <2>1
    <3> QED
      BY <1>12, <3>1
  <2>2. CASE x > m
    <3>1. x - m \in 1..k /\ m + (x - m) = x
      BY <1>12, <2>2
    <3> QED
      BY <1>12, <2>2, <3>1
  <2> QED
    BY <1>12, <2>1, <2>2
<1>14. ASSUME NEW l, NEW i, NEW p, CopyInFlight(w, l, i, p) PROVE CopyInFlight(w, l, i, p)'
  BY <1>12, <1>14 DEF CopyInFlight
<1>15. ASSUME NEW p \in 1..k PROVE \E x \in 1..Len(t) : IsCopy(t[x], c.load, I, p)
  BY <1>12 DEF IsCopy
<1>16. /\ Fixed' /\ buffers' = buffers /\ trip' = trip /\ parts' = parts
       /\ Place(at[w])' = Place(b) /\ Arrives(at[w])' = Arrives(b)
       /\ \A l : Issued(at[w], l)' = Issued(b, l) /\ HeldIter(at[w], l)' = HeldIter(b, l)
       /\ \A l, i : AsyncCopyResult(l, i)' = AsyncCopyResult(l, i)
  BY <1>1, <1>2, SamePlaces
<1>28. \A l, i, p : CopyInFlight(w, l, i, p)' = \E x \in 1..Len(t) : IsCopy(t[x], l, i, p)
  BY DEF CopyInFlight, IsCopy
<1> HIDE DEF a, b, c, s, t, I, m, k
<1>17. WarpTypes(w)'
  BY <1>6, <1>12, <1>16 DEF WarpTypes, b, t
<1>18. CopiesIssued(w)'
  <2> SUFFICES ASSUME NEW x \in 1..Len(t)
               PROVE  /\ t[x].iter < Issued(b, t[x].load) /\ t[x].iter >= Arrives(b)
                      /\ t[x].slot = t[x].iter % buffers /\ t[x].part \in 1..parts[t[x].load]
    BY <1>16 DEF CopiesIssued, b, t
  <2>1. CASE x \in 1..m /\ t[x] = s[x]
    <3>1. s[x] \in CopyEntry
      BY <1>2, <2>1, ElementOfSeq DEF WarpTypes, s, m
    <3>2. /\ s[x].iter < Issued(a, s[x].load) /\ s[x].iter >= Arrives(a)
          /\ s[x].slot = s[x].iter % buffers /\ s[x].part \in 1..parts[s[x].load]
      BY <1>2, <2>1 DEF CopiesIssued, a, s, m
    <3>3. s[x].load \in Loads /\ s[x].iter \in Nat
      BY <3>1 DEF CopyEntry
    <3> QED
      BY <1>6, <1>7, <1>8, <2>1, <3>2, <3>3
  <2>2. CASE x > m /\ t[x].load = c.load /\ t[x].iter = I /\ t[x].slot = c.slot /\ t[x].part \in 1..k
    BY <1>6, <1>7, <1>8, <2>2 DEF k
  <2> QED
    BY <1>13, <2>1, <2>2
<1>19. CopiesOrdered(w)'
  <2> SUFFICES ASSUME NEW x \in 1..Len(t), NEW y \in 1..Len(t), x <= y PROVE t[x].iter <= t[y].iter
    BY DEF CopiesOrdered, t
  <2>1. ASSUME x \in 1..m, t[x] = s[x] PROVE t[x].iter <= I /\ t[x].iter \in Nat
    <3>1. s[x] \in CopyEntry
      BY <1>2, <2>1, ElementOfSeq DEF WarpTypes, s, m
    <3>2. s[x].iter < Issued(a, s[x].load) /\ s[x].load \in Loads /\ s[x].iter \in Nat
      BY <1>2, <2>1, <3>1 DEF CopiesIssued, a, s, m, CopyEntry
    <3> QED
      BY <1>6, <1>8, <2>1, <3>2
  <2>2. CASE x \in 1..m /\ t[x] = s[x] /\ y \in 1..m /\ t[y] = s[y]
    BY <1>2, <2>2 DEF CopiesOrdered, s, m
  <2>3. CASE t[y].iter = I
    <3>1. t[x].iter <= I
      BY <1>6, <1>13, <2>1
    <3> QED
      BY <2>3, <3>1
  <2>4. CASE x > m /\ y \in 1..m
    BY <1>12, <2>4
  <2> QED
    BY <1>13, <2>2, <2>3, <2>4
<1>20. CopiesClosed(w)'
  <2> SUFFICES ASSUME NEW x \in 1..Len(t), NEW l \in Loads,
                      NEW i \in 0..Issued(b, l) - 1, NEW p \in 1..parts[l], i > t[x].iter
               PROVE  CopyInFlight(w, l, i, p)'
    BY <1>16 DEF CopiesClosed, b, t
  <2>1. CASE i = I /\ l = c.load
    BY <1>15, <1>28, <2>1 DEF k
  <2>2. CASE ~(i = I /\ l = c.load)
    <3>1. i \in 0..Issued(a, l) - 1
      BY <1>6, <1>7, <1>8, <2>2
    <3>2. CASE x \in 1..m /\ t[x] = s[x]
      <4>1. CopyInFlight(w, l, i, p)
        BY <1>2, <3>1, <3>2 DEF CopiesClosed, a, s, m
      <4> QED
        BY <1>14, <4>1
    <3>3. CASE t[x].iter = I
      BY <1>6, <1>8, <3>1, <3>3
    <3> QED
      BY <1>13, <3>2, <3>3
  <2> QED
    BY <2>1, <2>2
<1>21. BuffersFilled(w)'
  <2> SUFFICES ASSUME NEW l \in Loads, NEW i \in 0..Issued(b, l) - 1, NEW p \in 1..parts[l],
                      Issued(b, l) <= i + buffers, ~CopyInFlight(w, l, i, p)'
               PROVE  smem[<<l, i % buffers, w, p>>] = AsyncCopyResult(l, i)
    BY <1>1, <1>16 DEF BuffersFilled, b
  <2>1. ~(i = I /\ l = c.load)
    BY <1>15, <1>28 DEF k
  <2>2. i \in 0..Issued(a, l) - 1 /\ Issued(a, l) <= i + buffers
    BY <1>3, <1>6, <1>7, <1>8, <2>1
  <2>3. ~CopyInFlight(w, l, i, p)
    BY <1>14
  <2> QED
    BY <1>2, <2>2, <2>3 DEF BuffersFilled, a
<1>22. OperandsHeld(w)'
  BY <1>1, <1>2, <1>6, <1>16 DEF OperandsHeld, a, b
<1>23. QuietAtEnd(w)'
  <2>1. Arrives(b) # trip + 2
    BY <1>3, <1>6
  <2> QED
    BY <1>16, <2>1 DEF QuietAtEnd, b
<1>24. WarpInv(w)'
  BY <1>17, <1>18, <1>19, <1>20, <1>21, <1>22, <1>23 DEF WarpInv
<1>25. ASSUME NEW v \in Warps, v # w PROVE WarpInv(v)'
  BY <1>1, <1>2, <1>4, <1>11, <1>25, OtherWarp DEF AsyncInv
<1>26. KernelTypes'
  BY <1>1, <1>2, <1>4, <1>11, <1>16 DEF KernelTypes, t, s
<1>27. InStep'
  BY <1>1, <1>2, <1>4, <1>6, StillInStep DEF a, b
<1> QED
  BY <1>16, <1>24, <1>25, <1>26, <1>27 DEF AsyncInv

\* What has landed is the oldest copy; it fills its cell and no other.
LEMMA LandKeeps ==
    ASSUME Vectors, AsyncInv, NEW w \in Warps, Land(w), UNCHANGED pass
    PROVE  AsyncInv'
<1> DEFINE a == at[w]
           s == flight[w]
           t == flight'[w]
           h == s[1]
           n == Len(t)
<1>1. /\ UNCHANGED <<kernel, pass>> /\ at' = at /\ operands' = operands /\ s # <<>>
      /\ t = Tail(s) /\ DOMAIN flight' = Warps /\ \A v \in Warps : v # w => flight'[v] = flight[v]
      /\ smem' = [smem EXCEPT ![<<h.load, h.slot, w, h.part>>] = AsyncCopyResult(h.load, h.iter)]
  <2>1. DOMAIN flight = Warps /\ s \in Seq(CopyEntry)
    BY DEF AsyncInv, WarpInv, WarpTypes, KernelTypes
  <2>2. Head(s) = h
    BY <2>1
  <2> QED
    BY <2>1, <2>2 DEF Land
<1>2. /\ Fixed /\ KernelTypes /\ InStep /\ WarpTypes(w) /\ CopiesIssued(w) /\ CopiesOrdered(w)
      /\ CopiesClosed(w) /\ BuffersFilled(w) /\ OperandsHeld(w) /\ QuietAtEnd(w)
  BY DEF AsyncInv, WarpInv
<1>3. buffers \in Nat /\ buffers >= 1
  BY <1>2, Numbers
<1>4. PlaceNumbers(a)
  BY <1>2, PlaceHasNumbers DEF WarpTypes
<1>5. \A l \in Loads : Issued(a, l) \in Nat /\ Issued(a, l) <= buffers + Arrives(a) /\ Arrives(a) \in Nat
  BY <1>4 DEF PlaceNumbers
<1>6. /\ t \in Seq(CopyEntry) /\ n \in Nat /\ Len(s) = n + 1 /\ s \in Seq(CopyEntry)
      /\ \A x \in 1..n : t[x] = s[x + 1]
  <2>1. s \in Seq(CopyEntry)
    BY <1>2 DEF WarpTypes
  <2>2. /\ t \in Seq(CopyEntry) /\ n = Len(s) - 1 /\ \A x \in 1..n : t[x] = s[x + 1]
    BY <1>1, <2>1, HeadTailProperties
  <2>3. n \in Nat /\ Len(s) \in Nat
    BY <2>1, <2>2, LenProperties
  <2> QED
    BY <2>1, <2>2, <2>3
<1>7. /\ \A x \in 1..n : x + 1 \in 1..Len(s) /\ x \in Int
      /\ 1 \in 1..Len(s)
      /\ \A y \in 1..Len(s) : y # 1 => y - 1 \in 1..n /\ y - 1 + 1 = y
  BY <1>6
<1>8. /\ h \in CopyEntry /\ h.iter < Issued(a, h.load) /\ h.iter >= Arrives(a)
      /\ h.slot = h.iter % buffers /\ h.load \in Loads /\ h.iter \in Nat
  <2>1. h \in CopyEntry
    BY <1>6, <1>7, ElementOfSeq
  <2> QED
    BY <1>2, <1>7, <2>1 DEF CopiesIssued, CopyEntry
<1>9. /\ Fixed' /\ buffers' = buffers /\ trip' = trip /\ parts' = parts
      /\ Place(at[w])' = Place(a) /\ Arrives(at[w])' = Arrives(a)
      /\ \A l : Issued(at[w], l)' = Issued(a, l) /\ HeldIter(at[w], l)' = HeldIter(a, l)
      /\ \A l, i : AsyncCopyResult(l, i)' = AsyncCopyResult(l, i)
  BY <1>1, <1>2, SamePlaces
<1>10. \A l, i, p : CopyInFlight(w, l, i, p)' = \E x \in 1..n : IsCopy(t[x], l, i, p)
  BY DEF CopyInFlight, IsCopy
<1>11. ASSUME NEW l, NEW i, NEW p, CopyInFlight(w, l, i, p), ~IsCopy(h, l, i, p)
       PROVE  \E x \in 1..n : IsCopy(t[x], l, i, p)
  <2>1. PICK y \in 1..Len(s) : IsCopy(s[y], l, i, p)
    BY <1>11 DEF CopyInFlight
  <2>2. y # 1
    BY <1>11, <2>1
  <2>3. y - 1 \in 1..n /\ t[y - 1] = s[y]
    BY <1>6, <1>7, <2>2
  <2> QED
    BY <2>1, <2>3
<1> HIDE DEF a, s, t, h, n
<1>12. WarpTypes(w)'
  BY <1>2, <1>6, <1>9 DEF WarpTypes, a, t
<1>13. CopiesIssued(w)'
  <2> SUFFICES ASSUME NEW x \in 1..n
               PROVE  /\ t[x].iter < Issued(a, t[x].load) /\ t[x].iter >= Arrives(a)
                      /\ t[x].slot = t[x].iter % buffers /\ t[x].part \in 1..parts[t[x].load]
    BY <1>9 DEF CopiesIssued, t, n
  <2> QED
    BY <1>2, <1>6, <1>7 DEF CopiesIssued, a, s
<1>14. CopiesOrdered(w)'
  <2> SUFFICES ASSUME NEW x \in 1..n, NEW y \in 1..n, x <= y PROVE t[x].iter <= t[y].iter
    BY DEF CopiesOrdered, t, n
  <2>1. x + 1 \in 1..Len(s) /\ y + 1 \in 1..Len(s) /\ x + 1 <= y + 1
    BY <1>7
  <2> QED
    BY <1>2, <1>6, <2>1 DEF CopiesOrdered, s
<1>15. CopiesClosed(w)'
  <2> SUFFICES ASSUME NEW x \in 1..n, NEW l \in Loads,
                      NEW i \in 0..Issued(a, l) - 1, NEW p \in 1..parts[l], i > t[x].iter
               PROVE  CopyInFlight(w, l, i, p)'
    BY <1>9 DEF CopiesClosed, t, n
  <2>1. x + 1 \in 1..Len(s) /\ 1 <= x + 1 /\ t[x] = s[x + 1]
    <3>1. x + 1 \in 1..Len(s) /\ t[x] = s[x + 1]
      BY <1>6, <1>7
    <3>2. n \in Nat /\ x \in 1..n
      BY <1>6
    <3> QED
      BY <3>1, <3>2
  <2>2. CopyInFlight(w, l, i, p)
    BY <1>2, <2>1 DEF CopiesClosed, a, s
  <2>3. h.iter <= s[x + 1].iter
    BY <1>2, <1>7, <2>1 DEF CopiesOrdered, s, h
  <2>4. s[x + 1].iter \in Nat
    <3>1. s[x + 1] \in CopyEntry
      BY <1>6, <2>1, ElementOfSeq
    <3> QED
      BY <3>1 DEF CopyEntry
  <2>5. i # h.iter
    BY <1>5, <1>8, <2>1, <2>3, <2>4
  <2>6. \E y \in 1..n : IsCopy(t[y], l, i, p)
    BY <1>11, <2>2, <2>5 DEF IsCopy
  <2> QED
    BY <1>10, <2>6
<1>16. BuffersFilled(w)'
  <2> SUFFICES ASSUME NEW l \in Loads, NEW i \in 0..Issued(a, l) - 1, NEW p \in 1..parts[l],
                      Issued(a, l) <= i + buffers, ~\E x \in 1..n : IsCopy(t[x], l, i, p)
               PROVE  smem'[<<l, i % buffers, w, p>>] = AsyncCopyResult(l, i)
    BY <1>9, <1>10 DEF BuffersFilled
  <2>1. i \in Nat /\ i < Issued(a, l)
    BY <1>5
  <2>2. <<l, i % buffers, w, p>> \in DOMAIN smem
    <3>1. i % buffers \in 0..buffers - 1
      BY <1>3, <2>1, Remainder
    <3> QED
      BY <1>2, <3>1 DEF KernelTypes
  <2>3. CASE IsCopy(h, l, i, p)
    <3>1. h.load = l /\ h.iter = i /\ h.part = p /\ h.slot = i % buffers
      BY <1>8, <2>3 DEF IsCopy
    <3> QED
      BY <1>1, <2>2, <3>1
  <2>4. CASE ~IsCopy(h, l, i, p)
    <3>1. ~CopyInFlight(w, l, i, p)
      BY <1>11, <2>4
    <3>2. smem[<<l, i % buffers, w, p>>] = AsyncCopyResult(l, i)
      BY <1>2, <3>1 DEF BuffersFilled, a
    <3>3. ASSUME h.load = l, h.part = p, h.slot = i % buffers PROVE FALSE
      <4>1. h.iter < i + buffers /\ i < h.iter + buffers
        BY <1>3, <1>5, <1>8, <2>1, <3>3
      <4>2. h.iter = i
        BY <1>3, <1>8, <2>1, <3>3, <4>1, SameRemainder
      <4> QED
        BY <2>4, <3>3, <4>2 DEF IsCopy
    <3>4. <<l, i % buffers, w, p>> # <<h.load, h.slot, w, h.part>>
      BY <3>3
    <3> QED
      BY <1>1, <2>2, <3>2, <3>4
  <2> QED
    BY <2>3, <2>4
<1>17. OperandsHeld(w)'
  BY <1>1, <1>2, <1>9 DEF OperandsHeld, a
<1>18. QuietAtEnd(w)'
  BY <1>1, <1>2, <1>9 DEF QuietAtEnd, a, s
<1>19. WarpInv(w)'
  BY <1>12, <1>13, <1>14, <1>15, <1>16, <1>17, <1>18 DEF WarpInv
<1>20. ASSUME NEW v \in Warps, v # w PROVE WarpInv(v)'
  <2>1. \A l, i, p : smem'[<<l, i, v, p>>] = smem[<<l, i, v, p>>]
    <3> TAKE l, i, p
    <3>1. <<l, i, v, p>> # <<h.load, h.slot, w, h.part>>
      BY <1>20
    <3> QED
      BY <1>1, <3>1
  <2> QED
    BY <1>1, <1>2, <1>20, <2>1, OtherWarp DEF AsyncInv
<1>21. KernelTypes'
  <2>1. DOMAIN smem' = DOMAIN smem
    BY <1>1
  <2> QED
    BY <1>1, <1>2, <1>9, <2>1 DEF KernelTypes
<1>22. InStep'
  BY <1>1, <1>2, SamePlaces DEF InStep
<1> QED
  BY <1>9, <1>19, <1>20, <1>21, <1>22 DEF AsyncInv

\* An operation that moves a warp w and leaves its copies where they are, and
\* what it has loaded or is about to load.
LEMMA WarpMoves ==
    ASSUME UNCHANGED <<kernel, pass>>, Fixed, NEW w \in Warps, WarpInv(w),
           flight'[w] = flight[w], smem' = smem, Place(at'[w]), SameIssued(at[w], at'[w]),
           \A x \in 1..Len(flight[w]) : flight[w][x].iter >= Arrives(at'[w]),
           OperandsHeld(w)', QuietAtEnd(w)'
    PROVE  WarpInv(w)'
<1> DEFINE a == at[w]
           b == at'[w]
           s == flight[w]
<1>1. /\ buffers' = buffers /\ parts' = parts
      /\ Place(at[w])' = Place(b) /\ Arrives(at[w])' = Arrives(b)
      /\ \A l : Issued(at[w], l)' = Issued(b, l)
      /\ \A l, i : AsyncCopyResult(l, i)' = AsyncCopyResult(l, i)
  BY SamePlaces
<1>2. \A l \in Loads : Issued(b, l) = Issued(a, l)
  BY DEF SameIssued
<1>3. \A l, i, p : CopyInFlight(w, l, i, p)' = CopyInFlight(w, l, i, p)
  BY DEF CopyInFlight
<1>4. \A x \in 1..Len(s) : s[x].load \in Loads
  <2> TAKE x \in 1..Len(s)
  <2>1. s[x] \in CopyEntry
    BY ElementOfSeq DEF WarpInv, WarpTypes
  <2> QED
    BY <2>1 DEF CopyEntry
<1>5. flight'[w] = s /\ \A x \in 1..Len(s) : s[x].iter >= Arrives(b)
  OBVIOUS
<1> HIDE DEF a, b, s
<1>6. WarpTypes(w)'
  BY <1>1, <1>5 DEF WarpInv, WarpTypes, b, s
<1>7. CopiesIssued(w)'
  <2> SUFFICES ASSUME NEW x \in 1..Len(s)
               PROVE  /\ s[x].iter < Issued(b, s[x].load) /\ s[x].iter >= Arrives(b)
                      /\ s[x].slot = s[x].iter % buffers /\ s[x].part \in 1..parts[s[x].load]
    BY <1>1, <1>5 DEF CopiesIssued
  <2> QED
    BY <1>2, <1>4, <1>5 DEF WarpInv, CopiesIssued, a, s
<1>8. CopiesOrdered(w)'
  BY DEF WarpInv, CopiesOrdered
<1>9. CopiesClosed(w)'
  <2> SUFFICES ASSUME NEW x \in 1..Len(s), NEW l \in Loads,
                      NEW i \in 0..Issued(b, l) - 1, NEW p \in 1..parts[l], i > s[x].iter
               PROVE  CopyInFlight(w, l, i, p)
    BY <1>1, <1>3, <1>5 DEF CopiesClosed
  <2> QED
    BY <1>2 DEF WarpInv, CopiesClosed, a, s
<1>10. BuffersFilled(w)'
  <2> SUFFICES ASSUME NEW l \in Loads, NEW i \in 0..Issued(b, l) - 1, NEW p \in 1..parts[l],
                      Issued(b, l) <= i + buffers, ~CopyInFlight(w, l, i, p)
               PROVE  smem[<<l, i % buffers, w, p>>] = AsyncCopyResult(l, i)
    BY <1>1, <1>3 DEF BuffersFilled
  <2> QED
    BY <1>2 DEF WarpInv, BuffersFilled, a
<1> QED
  BY <1>6, <1>7, <1>8, <1>9, <1>10 DEF WarpInv

\* Copies in flight have been waited for no more than their warp has.
LEMMA NotWaitedFor ==
    ASSUME NEW w \in Warps, WarpInv(w)
    PROVE  \A x \in 1..Len(flight[w]) : flight[w][x].iter >= Arrives(at[w])
  BY DEF WarpInv, CopiesIssued

\* A warp's operands are those of its place.
LEMMA SameOperands ==
    ASSUME UNCHANGED <<kernel, pass>>, NEW w \in Warps, WarpInv(w), Keeps(at[w], at'[w]),
           operands'[w] = operands[w]
    PROVE  OperandsHeld(w)'
<1> DEFINE b == at'[w]
<1>1. /\ \A l : HeldIter(at[w], l)' = HeldIter(b, l)
      /\ \A l, i : AsyncCopyResult(l, i)' = AsyncCopyResult(l, i)
  BY SamePlaces
<1>2. \A l \in Loads : HeldIter(b, l) >= 0 => HeldIter(b, l) = HeldIter(at[w], l)
  BY DEF Keeps
<1> HIDE DEF b
<1> QED
  BY <1>1, <1>2 DEF WarpInv, OperandsHeld

\* A step that is no arrive and lands nothing.
LEMMA SameQuiet ==
    ASSUME UNCHANGED <<kernel, pass>>, NEW w \in Warps, WarpInv(w), Arrives(at'[w]) = Arrives(at[w]),
           flight'[w] = flight[w]
    PROVE  QuietAtEnd(w)'
<1>1. trip' = trip /\ Arrives(at[w])' = Arrives(at'[w])
  BY SamePlaces
<1> QED
  BY <1>1 DEF WarpInv, QuietAtEnd

\* An arrive lets through only what has landed.
LEMMA ArriveKeeps ==
    ASSUME Vectors, AsyncInv, NEW w \in Warps, GVMArrive(w), UNCHANGED pass
    PROVE  AsyncInv'
<1> DEFINE a == at[w]
           b == at'[w]
           c == Current(w)
           s == flight[w]
<1>1. /\ UNCHANGED <<kernel, pass>> /\ flight' = flight /\ smem' = smem /\ operands' = operands
      /\ Running(w) /\ c.op = "arrive" /\ Advance(w) /\ Len(s) <= c.num
  BY DEF GVMArrive
<1>2. Fixed /\ KernelTypes /\ InStep /\ WarpInv(w) /\ WarpTypes(w) /\ CopiesClosed(w)
  BY DEF AsyncInv, WarpInv
<1>3. /\ IsOp(a, b, c) /\ PlaceNumbers(a)
      /\ DOMAIN at' = Warps /\ \A v \in Warps : v # w => at'[v] = at[v]
  BY <1>1, GoesOn
<1>4. IsArriveOp(a, b, c)
  BY <1>1, <1>3 DEF IsOp, IsCopyOp, IsBarrierOp, IsReadOp, IsDotOp
<1>5. /\ Keeps(a, b) /\ Place(b) /\ SameIssued(a, b) /\ Arrives(b) = Arrives(a) + 1 /\ Barriers(b) = Barriers(a)
      /\ Arrives(b) = trip + 2 => c.num = 0
      /\ Arrives(a) \in Nat
  BY <1>3, <1>4 DEF IsArriveOp, Keeps, PlaceNumbers
<1>6. s \in Seq(CopyEntry) /\ Len(s) \in Nat
  BY <1>2, LenProperties DEF WarpTypes
<1> HIDE DEF a, b, c, s
<1>7. ASSUME NEW x \in 1..Len(s) PROVE s[x].iter >= Arrives(b)
  <2>1. s[x].iter >= Arrives(a) /\ s[x].iter \in Nat
    <3>1. s[x] \in CopyEntry
      BY <1>6, ElementOfSeq
    <3>2. s[x].iter >= Arrives(a)
      BY <1>2, NotWaitedFor DEF a, s
    <3> QED
      BY <3>1, <3>2 DEF CopyEntry
  <2>2. c.num # 0
    BY <1>1, <1>6 DEF s
  <2>3. 1 \in Loads
    BY <1>2, Numbers
  <2>4. PICK n \in Nat : n + Arrives(a) + 1 = Issued(a, 1) /\ (c.num = gvmNumberPerOp * n \/ c.num = 0)
    BY <1>4, <2>3 DEF IsArriveOp
  <2>5. \A l \in Loads : n + Arrives(a) + 1 = Issued(a, l)
    BY <1>4, <2>3, <2>4 DEF IsArriveOp
  <2>6. Len(s) <= gvmNumberPerOp * n
    BY <1>1, <2>2, <2>4 DEF s
  <2>7. s[x].iter # Arrives(a)
    BY <1>2, <1>5, <2>5, <2>6, NothingOlder DEF a, s
  <2> QED
    BY <1>5, <2>1, <2>7
<1>8. OperandsHeld(w)'
  BY <1>1, <1>2, <1>5, SameOperands DEF a, b
<1>9. QuietAtEnd(w)'
  <2>1. trip' = trip /\ Arrives(at[w])' = Arrives(b)
    BY <1>1, SamePlaces DEF b
  <2>2. ASSUME Arrives(b) = trip + 2 PROVE s = <<>>
    <3>1. Len(s) = 0
      BY <1>1, <1>5, <1>6, <2>2 DEF s
    <3> QED
      BY <1>6, <3>1, EmptySeq
  <2> QED
    BY <1>1, <2>1, <2>2 DEF QuietAtEnd, s
<1>10. WarpInv(w)'
  BY <1>1, <1>2, <1>5, <1>7, <1>8, <1>9, WarpMoves DEF a, b, s
<1>11. ASSUME NEW v \in Warps, v # w PROVE WarpInv(v)'
  BY <1>1, <1>2, <1>3, <1>11, OtherWarp DEF AsyncInv
<1>12. Fixed' /\ buffers' = buffers /\ parts' = parts
  BY <1>1, <1>2, SamePlaces
<1>13. KernelTypes'
  BY <1>1, <1>2, <1>3, <1>12 DEF KernelTypes
<1>14. InStep'
  BY <1>1, <1>2, <1>3, <1>5, StillInStep DEF a, b
<1> QED
  BY <1>10, <1>11, <1>12, <1>13, <1>14 DEF AsyncInv

\* All warps pass a barrier: what each has loaded may be copied over now.
LEMMA BarrierKeeps ==
    ASSUME AsyncInv, BarrierShared, UNCHANGED pass
    PROVE  AsyncInv'
<1>1. /\ UNCHANGED <<kernel, pass>> /\ flight' = flight /\ smem' = smem /\ operands' = operands
      /\ DOMAIN at' = Warps /\ Fixed /\ KernelTypes /\ InStep
  BY DEF BarrierShared, AsyncInv
<1>2. ASSUME NEW w \in Warps
      PROVE  WarpInv(w)' /\ Barriers(at'[w]) = Barriers(at[w]) + 1
  <2> DEFINE a == at[w]
             b == at'[w]
             c == Current(w)
  <2>1. Running(w) /\ c.op = "barrier" /\ b = Following(a) /\ WarpInv(w) /\ Place(a)
    BY DEF BarrierShared, AsyncInv, WarpInv, WarpTypes
  <2>2. IsOp(a, b, c)
    BY <1>1, <2>1, Operation DEF Running, Current
  <2>3. IsBarrierOp(a, b, c)
    BY <2>1, <2>2 DEF IsOp, IsCopyOp, IsArriveOp, IsReadOp, IsDotOp
  <2>4. Keeps(a, b) /\ Place(b) /\ SameIssued(a, b) /\ Arrives(b) = Arrives(a) /\ Barriers(b) = Barriers(a) + 1
    BY <2>3 DEF IsBarrierOp, Keeps
  <2> HIDE DEF a, b, c
  <2>5. OperandsHeld(w)' /\ QuietAtEnd(w)'
    BY <1>1, <2>1, <2>4, SameOperands, SameQuiet DEF a, b
  <2>6. \A x \in 1..Len(flight[w]) : flight[w][x].iter >= Arrives(b)
    BY <2>1, <2>4, NotWaitedFor DEF a
  <2>7. WarpInv(w)'
    BY <1>1, <2>1, <2>4, <2>5, <2>6, WarpMoves DEF a, b
  <2> QED
    BY <2>4, <2>7 DEF a, b
<1>3. Fixed' /\ buffers' = buffers /\ parts' = parts
  BY <1>1, SamePlaces
<1>4. KernelTypes'
  BY <1>1, <1>3 DEF KernelTypes
<1>5. InStep'
  <2>1. \A w \in Warps : Barriers(at[w])' = Barriers(at[w]) + 1
    BY <1>1, <1>2, SamePlaces
  <2> QED
    BY <1>1, <2>1 DEF InStep
<1> QED
  BY <1>2, <1>3, <1>4, <1>5 DEF AsyncInv

\* A dot changes the place only.
LEMMA DotKeeps ==
    ASSUME AsyncInv, NEW w \in Warps, DotOp(w), UNCHANGED pass
    PROVE  AsyncInv'
<1> DEFINE a == at[w]
           b == at'[w]
           c == Current(w)
<1>1. /\ UNCHANGED <<kernel, pass>> /\ flight' = flight /\ smem' = smem /\ operands' = operands
      /\ Running(w) /\ c.op = "dot" /\ Advance(w)
  BY DEF DotOp
<1>2. Fixed /\ KernelTypes /\ InStep /\ WarpInv(w)
  BY DEF AsyncInv
<1>3. /\ IsOp(a, b, c)
      /\ DOMAIN at' = Warps /\ \A v \in Warps : v # w => at'[v] = at[v]
  BY <1>1, GoesOn
<1>4. IsDotOp(a, b, c)
  BY <1>1, <1>3 DEF IsOp, IsCopyOp, IsArriveOp, IsBarrierOp, IsReadOp
<1>5. Keeps(a, b) /\ Place(b) /\ SameIssued(a, b) /\ Arrives(b) = Arrives(a) /\ Barriers(b) = Barriers(a)
  BY <1>4 DEF IsDotOp, Keeps, SameWaits
<1> HIDE DEF a, b, c
<1>6. OperandsHeld(w)' /\ QuietAtEnd(w)'
  BY <1>1, <1>2, <1>5, SameOperands, SameQuiet DEF a, b
<1>7. \A x \in 1..Len(flight[w]) : flight[w][x].iter >= Arrives(b)
  BY <1>2, <1>5, NotWaitedFor DEF a
<1>8. WarpInv(w)'
  BY <1>1, <1>2, <1>5, <1>6, <1>7, WarpMoves DEF a, b
<1>9. ASSUME NEW v \in Warps, v # w PROVE WarpInv(v)'
  BY <1>1, <1>2, <1>3, <1>9, OtherWarp DEF AsyncInv
<1>10. Fixed' /\ buffers' = buffers /\ parts' = parts
  BY <1>1, <1>2, SamePlaces
<1>11. KernelTypes'
  BY <1>1, <1>2, <1>3, <1>10 DEF KernelTypes
<1>12. InStep'
  BY <1>1, <1>2, <1>3, <1>5, StillInStep DEF a, b
<1> QED
  BY <1>8, <1>9, <1>10, <1>11, <1>12 DEF AsyncInv

\* Past as many barriers, every warp's copies of the iteration to load have
\* landed, and none has issued those that use the buffer next.
LEMMA BufferIsFilled ==
    ASSUME AsyncInv, NEW w \in Warps, NEW v \in Warps, NEW l \in Loads, NEW p \in 1..parts[l],
           Barriers(at[w]) >= 1
    PROVE  smem[<<l, (Barriers(at[w]) - 1) % buffers, v, p>>] = AsyncCopyResult(l, Barriers(at[w]) - 1)
<1> DEFINE a == at[v]
           i == Barriers(at[w]) - 1
<1>1. /\ Fixed /\ Place(a) /\ Barriers(a) = i + 1 /\ WarpInv(v) /\ buffers \in Nat
      /\ i \in Int /\ i + 1 >= 1
  <2>1. Fixed /\ WarpInv(v) /\ WarpInv(w) /\ Barriers(a) = Barriers(at[w])
    BY DEF AsyncInv, InStep
  <2>2. Place(a) /\ Place(at[w])
    BY <2>1 DEF WarpInv, WarpTypes
  <2>3. Barriers(at[w]) \in Nat
    BY <2>1, <2>2, PlaceHasNumbers DEF PlaceNumbers
  <2>4. i \in Int /\ i + 1 = Barriers(at[w])
    BY <2>3
  <2>5. buffers \in Nat
    BY <2>1, Numbers
  <2> HIDE DEF i, a
  <2> QED
    BY <2>1, <2>2, <2>4, <2>5
<1>2. PlaceNumbers(a)
  BY <1>1, PlaceHasNumbers
<1> HIDE DEF a, i
<1>3. /\ Arrives(a) \in Nat /\ Barriers(a) \in Nat /\ Barriers(a) <= Arrives(a)
      /\ Issued(a, l) \in Nat /\ Arrives(a) <= Issued(a, l) /\ Issued(a, l) <= buffers + Barriers(a) - 1
  BY <1>1, <1>2 DEF PlaceNumbers
<1>4. i \in 0..Issued(a, l) - 1 /\ Issued(a, l) <= i + buffers /\ i < Arrives(a) /\ i \in Int
  BY <1>1, <1>3
<1>5. ~CopyInFlight(v, l, i, p)
  <2>1. \A x \in 1..Len(flight[v]) : flight[v][x].iter >= Arrives(a)
    BY <1>1, NotWaitedFor DEF a
  <2>2. \A x \in 1..Len(flight[v]) : flight[v][x].iter # i
    BY <1>3, <1>4, <2>1
  <2> QED
    BY <2>2 DEF CopyInFlight, IsCopy
<1>6. BuffersFilled(v)
  BY <1>1 DEF WarpInv
<1>7. smem[<<l, i % buffers, v, p>>] = AsyncCopyResult(l, i)
  BY <1>4, <1>5, <1>6 DEF BuffersFilled, a
<1> QED
  BY <1>7 DEF i

\* A local load returns the iteration its barrier was for.
LEMMA ReadKeeps ==
    ASSUME Vectors, AsyncInv, NEW w \in Warps, LocalLoad(w), UNCHANGED pass
    PROVE  AsyncInv'
<1> DEFINE a == at[w]
           b == at'[w]
           c == Current(w)
           i == Barriers(a) - 1
           R == {smem[<<c.load, c.slot, v, p>>] : v \in Warps, p \in c.parts \cap 1..parts[c.load]}
<1>1. /\ UNCHANGED <<kernel, pass>> /\ flight' = flight /\ smem' = smem
      /\ Running(w) /\ c.op = "read" /\ Advance(w)
      /\ operands' = [operands EXCEPT ![w][c.load] = R]
  BY DEF LocalLoad
<1>2. Fixed /\ KernelTypes /\ InStep /\ WarpInv(w)
  BY DEF AsyncInv
<1>3. /\ IsOp(a, b, c)
      /\ DOMAIN at' = Warps /\ \A v \in Warps : v # w => at'[v] = at[v]
  BY <1>1, GoesOn
<1>4. IsReadOp(a, b, c)
  BY <1>1, <1>3 DEF IsOp, IsCopyOp, IsArriveOp, IsBarrierOp, IsDotOp
<1>5. /\ c.load \in Loads /\ c.parts = 1..parts[c.load] /\ Barriers(a) >= 1 /\ c.slot = i % buffers
      /\ Place(b) /\ SameIssued(a, b) /\ Arrives(b) = Arrives(a) /\ Barriers(b) = Barriers(a)
      /\ HeldIter(b, c.load) = i
      /\ \A l \in Loads : l # c.load /\ HeldIter(b, l) >= 0 => HeldIter(b, l) = HeldIter(a, l)
  BY <1>4 DEF IsReadOp, SameWaits
<1>6. R = {AsyncCopyResult(c.load, i)}
  <2>1. 1 \in c.parts \cap 1..parts[c.load]
    <3>1. parts[c.load] \in Nat \ {0}
      BY <1>2, <1>5, CountedParts
    <3> QED
      BY <1>5, <3>1
  <2>2. ASSUME NEW v \in Warps, NEW p \in c.parts \cap 1..parts[c.load]
        PROVE  smem[<<c.load, c.slot, v, p>>] = AsyncCopyResult(c.load, i)
    BY <1>5, BufferIsFilled
  <2> DEFINE r == AsyncCopyResult(c.load, i)
             q == c.parts \cap 1..parts[c.load]
  <2>3. r \in R
    <3>1. smem[<<c.load, c.slot, w, 1>>] = r
      BY <2>1, <2>2
    <3> HIDE DEF r
    <3> QED
      BY <2>1, <3>1
  <2>4. ASSUME NEW x \in R PROVE x = r
    <3>1. PICK v \in Warps, p \in q : x = smem[<<c.load, c.slot, v, p>>]
      OBVIOUS
    <3> QED
      BY <2>2, <3>1
  <2> HIDE DEF R, r
  <2>5. R = {r}
    BY <2>3, <2>4
  <2> QED
    BY <2>5 DEF r
<1>7. /\ DOMAIN operands' = Warps /\ \A v \in Warps : DOMAIN operands'[v] = Loads
      /\ \A v \in Warps : v # w => operands'[v] = operands[v]
      /\ operands'[w][c.load] = R
      /\ \A l \in Loads : l # c.load => operands'[w][l] = operands[w][l]
  <2>1. DOMAIN operands = Warps /\ \A v \in Warps : DOMAIN operands[v] = Loads
    BY <1>2 DEF KernelTypes
  <2> HIDE DEF R, c
  <2> QED
    BY <1>1, <1>5, <2>1
<1> HIDE DEF a, b, c, i, R
<1>8. OperandsHeld(w)'
  <2>1. /\ \A l : HeldIter(at[w], l)' = HeldIter(b, l)
        /\ \A l, j : AsyncCopyResult(l, j)' = AsyncCopyResult(l, j)
    BY <1>1, SamePlaces DEF b
  <2>2. ASSUME NEW l \in Loads, HeldIter(b, l) >= 0
        PROVE  operands'[w][l] = {AsyncCopyResult(l, HeldIter(b, l))}
    <3>1. CASE l = c.load
      BY <1>5, <1>6, <1>7, <3>1
    <3>2. CASE l # c.load
      <4>1. HeldIter(b, l) = HeldIter(a, l)
        BY <1>5, <2>2, <3>2
      <4>2. operands[w][l] = {AsyncCopyResult(l, HeldIter(a, l))}
        BY <1>2, <2>2, <4>1 DEF WarpInv, OperandsHeld, a
      <4> QED
        BY <1>7, <3>2, <4>1, <4>2
    <3> QED
      BY <3>1, <3>2
  <2> QED
    BY <2>1, <2>2 DEF OperandsHeld
<1>9. QuietAtEnd(w)'
  BY <1>1, <1>2, <1>5, SameQuiet DEF a, b
<1>10. \A x \in 1..Len(flight[w]) : flight[w][x].iter >= Arrives(b)
  BY <1>2, <1>5, NotWaitedFor DEF a
<1>11. WarpInv(w)'
  BY <1>1, <1>2, <1>5, <1>8, <1>9, <1>10, WarpMoves DEF a, b
<1>12. ASSUME NEW v \in Warps, v # w PROVE WarpInv(v)'
  BY <1>1, <1>2, <1>3, <1>7, <1>12, OtherWarp DEF AsyncInv
<1>13. Fixed' /\ buffers' = buffers /\ parts' = parts
  BY <1>1, <1>2, SamePlaces
<1>14. KernelTypes'
  BY <1>1, <1>2, <1>3, <1>7, <1>13 DEF KernelTypes
<1>15. InStep'
  BY <1>1, <1>2, <1>3, <1>5, StillInStep DEF a, b
<1> QED
  BY <1>11, <1>12, <1>13, <1>14, <1>15 DEF AsyncInv

\* The kernel stores nothing itself.
LEMMA NoStore ==
    ASSUME AsyncInv, NEW w \in Warps
    PROVE  ~LocalStore(w)
<1> SUFFICES ASSUME LocalStore(w) PROVE FALSE
  OBVIOUS
<1>1. Running(w) /\ Current(w).op = "store" /\ Fixed /\ Place(at[w])
  BY DEF LocalStore, AsyncInv, WarpInv, WarpTypes
<1>2. IsOp(at[w], Following(at[w]), Current(w))
  BY <1>1, Operation DEF Running, Current
<1> QED
  BY <1>1, <1>2 DEF IsOp, IsCopyOp, IsArriveOp, IsBarrierOp, IsReadOp, IsDotOp

\* Nothing has been issued, waited for or loaded at first.
LEMMA AsyncInit_Inv ==
    ASSUME Vectors, AsyncInit
    PROVE  AsyncInv
<1>1. numStages \in Nat /\ numStages >= 3 /\ trip \in Nat
  BY StagesAssumption DEF AsyncInit, initialize
<1>2. Fixed
  BY <1>1 DEF AsyncInit, Fixed
<1>3. buffers \in Nat /\ buffers >= 2 /\ LoadCount \in Nat /\ LoadCount >= 1 /\ Loads = 1..LoadCount /\ trip \in Nat
  BY <1>2, Numbers
<1>4. /\ at = [w \in Warps |-> [block |-> 1, index |-> 1]]
      /\ flight = [w \in Warps |-> <<>>]
      /\ smem = [c \in UNION {{l} \X (0..buffers - 1) \X Warps \X (1..parts[l]) : l \in Loads} |-> Zero]
      /\ operands = [w \in Warps |-> [l \in Loads |-> {}]]
  BY DEF AsyncInit, Started
<1>5. KernelTypes
  <2>1. DOMAIN at = Warps /\ DOMAIN flight = Warps
        /\ DOMAIN operands = Warps /\ \A w \in Warps : DOMAIN operands[w] = Loads
    BY <1>4
  <2>2. ASSUME NEW l \in Loads, NEW s \in 0..buffers - 1, NEW w \in Warps, NEW p \in 1..parts[l]
        PROVE  <<l, s, w, p>> \in DOMAIN smem
    <3>1. <<l, s, w, p>> \in {l} \X (0..buffers - 1) \X Warps \X (1..parts[l])
      OBVIOUS
    <3> QED
      BY <1>4, <3>1
  <2> QED
    BY <2>1, <2>2 DEF KernelTypes
<1>6. ASSUME NEW w \in Warps PROVE at[w].block = 1 /\ at[w].index = 1 /\ flight[w] = <<>>
  BY <1>4
<1>7. ASSUME NEW w \in Warps PROVE PrologueNumbers(at[w]) /\ Place(at[w])
  <2> DEFINE a == at[w]
  <2>1. a.block = 1 /\ a.index = 1 /\ a.block \in 1..buffers /\ a.index \in 1..LoadCount
    BY <1>3, <1>6
  <2> HIDE DEF a
  <2>2. PrologueNumbers(a) /\ Place(a)
    BY <1>2, <1>3, <2>1, BlockNumbers DEF Place
  <2> QED
    BY <2>2 DEF a
<1>8. ASSUME NEW w \in Warps PROVE WarpInv(w)
  <2>1. \A l \in Loads : Issued(at[w], l) = 0 /\ HeldIter(at[w], l) = -1
    BY <1>3, <1>6, <1>7 DEF PrologueNumbers
  <2>2. WarpTypes(w)
    BY <1>6, <1>7, EmptySeq DEF WarpTypes
  <2>3. Len(flight[w]) = 0
    BY <1>6
  <2>4. CopiesIssued(w) /\ CopiesOrdered(w) /\ CopiesClosed(w)
    BY <2>3 DEF CopiesIssued, CopiesOrdered, CopiesClosed
  <2>5. BuffersFilled(w) /\ OperandsHeld(w) /\ QuietAtEnd(w)
    BY <1>6, <2>1 DEF BuffersFilled, OperandsHeld, QuietAtEnd
  <2> QED
    BY <2>2, <2>4, <2>5 DEF WarpInv
<1>9. InStep
  BY <1>7 DEF InStep, PrologueNumbers
<1> QED
  BY <1>2, <1>5, <1>8, <1>9 DEF AsyncInv

\* The invariant depends on the variables of the pass and the warps.
LEMMA AsyncStutter ==
    ASSUME AsyncInv, UNCHANGED <<warpVars, pass>>
    PROVE  AsyncInv'
<1>1. /\ UNCHANGED <<kernel, pass>> /\ at' = at /\ flight' = flight /\ smem' = smem /\ operands' = operands
      /\ Fixed /\ KernelTypes /\ InStep
  BY DEF warpVars, AsyncInv
<1>2. ASSUME NEW w \in Warps PROVE WarpInv(w)'
  BY <1>1, OtherWarp DEF AsyncInv
<1>3. Fixed' /\ buffers' = buffers /\ parts' = parts
  BY <1>1, SamePlaces
<1>4. KernelTypes'
  BY <1>1, <1>3 DEF KernelTypes
<1>5. InStep'
  BY <1>1, SamePlaces DEF InStep
<1> QED
  BY <1>2, <1>3, <1>4, <1>5 DEF AsyncInv

\* Every step of the warps keeps the invariant.
LEMMA AsyncNext_Inv ==
    ASSUME Vectors, AsyncInv, WarpNext /\ UNCHANGED pass
    PROVE  AsyncInv'
<1>1. ASSUME NEW w \in Warps, Step(w) PROVE AsyncInv'
  BY <1>1, CopyKeeps, LandKeeps, ArriveKeeps, ReadKeeps, DotKeeps, NoStore DEF Step
<1>2. CASE BarrierShared
  BY <1>2, BarrierKeeps
<1>3. CASE Done
  BY <1>3, AsyncStutter DEF Done
<1> QED
  BY <1>1, <1>2, <1>3 DEF WarpNext

\* The invariant holds for every tile, number of stages and of iterations.
THEOREM AsyncInvariant == Vectors /\ AsyncSpec => []AsyncInv
<1>1. Vectors /\ AsyncInit => AsyncInv
  BY AsyncInit_Inv
<1>2. Vectors /\ AsyncInv /\ [WarpNext /\ UNCHANGED pass]_<<warpVars, pass>> => AsyncInv'
  <2> SUFFICES ASSUME Vectors, AsyncInv, [WarpNext /\ UNCHANGED pass]_<<warpVars, pass>>
               PROVE  AsyncInv'
    OBVIOUS
  <2>1. CASE WarpNext /\ UNCHANGED pass
    BY <2>1, AsyncNext_Inv
  <2>2. CASE UNCHANGED <<warpVars, pass>>
    BY <2>2, AsyncStutter
  <2> QED
    BY <2>1, <2>2
<1>3. Vectors => Vectors'
  BY DEF Vectors
<1> QED
  BY <1>1, <1>2, <1>3, PTL DEF AsyncSpec

\* Every load of the kernel is a copy from the first block on.
LEMMA AllCopied ==
    ASSUME Fixed, NEW l \in Loads
    PROVE  Copied(l)
<1>1. /\ LoadCount \in Nat /\ Loads = 1..LoadCount /\ trip \in Nat
      /\ buffers \in Nat /\ 1 \in 1..buffers
  BY LoadsAssumption DEF Fixed, Loads, buffers
<1>2. Len(prog[1]) = LoadCount /\ prog[1][l] = Copy(l, 0, 0)
  BY <1>1, Contents
<1>3. Len(prog) = buffers + 2 + trip
  BY PrologueBlocks
<1>4. 1 \in 1..Len(prog) /\ l \in 1..Len(prog[1])
  BY <1>1, <1>2, <1>3
<1>5. prog[1][l].op = "copy" /\ prog[1][l].load = l
  BY <1>2 DEF Copy, Instr
<1> QED
  BY <1>4, <1>5 DEF Copied

\* A dot's place holds its own iteration.
LEMMA DotsHold ==
    ASSUME AsyncInv
    PROVE  DotsUseOwnIteration
<1> SUFFICES ASSUME NEW w \in Warps, Running(w), Current(w).op = "dot", Current(w).iter < trip, NEW l \in Loads
             PROVE  operands[w][l] = {LoadedOrZero(l, Current(w).iter)}
  BY DEF DotsUseOwnIteration
<1> DEFINE i == Current(w).iter
<1>1. Fixed /\ Place(at[w]) /\ OperandsHeld(w)
  BY DEF AsyncInv, WarpInv, WarpTypes
<1>2. IsOp(at[w], Following(at[w]), Current(w))
  BY <1>1, Operation DEF Running, Current
<1>3. IsDotOp(at[w], Following(at[w]), Current(w))
  BY <1>2 DEF IsOp, IsCopyOp, IsArriveOp, IsBarrierOp, IsReadOp
<1>4. HeldIter(at[w], l) = i /\ i >= 0
  BY <1>3 DEF IsDotOp
<1>5. operands[w][l] = {AsyncCopyResult(l, i)}
  BY <1>1, <1>4 DEF OperandsHeld
<1>6. Copied(l)
  BY <1>1, AllCopied
<1> HIDE DEF i
<1>7. AsyncCopyResult(l, i) = LoadedOrZero(l, i)
  <2>1. i < trip
    BY DEF i
  <2> QED
    BY <1>6, <2>1 DEF AsyncCopyResult, LoadMask, Loaded, LoadedOrZero
<1> QED
  BY <1>5, <1>7 DEF i

\* Past the loop, all warps have passed the last arrive.
LEMMA QuietHolds ==
    ASSUME AsyncInv
    PROVE  QuietAfterLoop
<1> SUFFICES ASSUME NEW w \in Warps, ~Running(w), NEW v \in Warps PROVE flight[v] = <<>>
  BY DEF QuietAfterLoop
<1>1. /\ Fixed /\ Place(at[w]) /\ Place(at[v]) /\ QuietAtEnd(v) /\ Barriers(at[v]) = Barriers(at[w])
      /\ trip \in Nat
  BY DEF AsyncInv, WarpInv, WarpTypes, InStep, Fixed
<1>2. PlaceNumbers(at[w]) /\ PlaceNumbers(at[v])
  BY <1>1, PlaceHasNumbers
<1>3. at[w].block > Len(prog)
  <2>1. Len(prog) \in Nat /\ at[w].block \in Nat
    BY <1>1, PrologueBlocks, Numbers DEF Place
  <2> QED
    BY <2>1 DEF Running
<1>4. Barriers(at[v]) = trip + 2
  BY <1>1, <1>2, <1>3 DEF PlaceNumbers
<1>5. Arrives(at[v]) = trip + 2
  BY <1>1, <1>2, <1>4 DEF PlaceNumbers
<1> QED
  BY <1>1, <1>5 DEF QuietAtEnd

\* In every kernel the cpasync pass writes, a dot's operands are what the
\* source program loads in the dot's iteration, for the elements of all warps
\* (the numbers of the arrives, the slots, the barriers), but that a masked
\* element is zero.
THEOREM DotsUseOwnIterationCorrect == Vectors /\ AsyncSpec => []DotsUseOwnIteration
<1>1. AsyncInv => DotsUseOwnIteration
  BY DotsHold
<1> QED
  BY <1>1, AsyncInvariant, PTL

\* No copy is in flight when a warp has left the loop (emitEpilogue's arrive
\* and barrier).
THEOREM QuietAfterLoopCorrect == Vectors /\ AsyncSpec => []QuietAfterLoop
<1>1. AsyncInv => QuietAfterLoop
  BY QuietHolds
<1> QED
  BY <1>1, AsyncInvariant, PTL

=============================================================================
