---------------------------- MODULE MembarProofs ----------------------------
(***************************************************************************)
(* Proofs about MembarKernel, for every function, control-flow graph and    *)
(* set of buffers: type correctness, and that the rewritten function has no *)
(* race the analysis is answerable for.                                     *)
(***************************************************************************)
EXTENDS MembarKernel, TLAPS

-----------------------------------------------------------------------------
(* Facts about functions and the worklist. *)

\* update() collects what the threads touch.
LEMMA TouchesIsCur == ASSUME NEW op PROVE Touches(op) = CurBlockInfo(op)
BY DEF Touches, CurBlockInfo

LEMMA CurType == ASSUME NEW op \in Op PROVE CurBlockInfo(op) \in Info
BY DEF CurBlockInfo, Op, OpRecord, Info

LEMMA FunctionFacts ==
    ASSUME WellFormed(func), NEW b \in Blocks
    PROVE  /\ Code(b) \in Seq(Op)
           /\ Len(Code(b)) \in Nat
           /\ Len(Code(b)) <= MaxOps
           /\ \A k \in 1..Len(Code(b)) : Code(b)[k] \in Op
           /\ func.succ[b] \in Seq(Blocks)
           /\ Len(func.succ[b]) \in Nat
           /\ Succ(b) \subseteq Blocks
<1>1. func.code \in [Blocks -> Seq(Op)] /\ func.succ \in [Blocks -> Seq(Blocks)]
  BY DEF WellFormed, Function
<1>2. Code(b) \in Seq(Op) /\ func.succ[b] \in Seq(Blocks)
  BY <1>1 DEF Code
<1>3. Len(Code(b)) <= MaxOps
  BY DEF WellFormed, Code
<1> QED
  BY <1>2, <1>3 DEF Succ

LEMMA SeqTail ==
    ASSUME NEW S, NEW s \in Seq(S), s # <<>>
    PROVE  /\ Head(s) \in S
           /\ Tail(s) \in Seq(S)
           /\ \A k \in 1..Len(s) :
                s[k] = Head(s) \/ \E j \in 1..Len(Tail(s)) : Tail(s)[j] = s[k]
<1>1. Head(s) \in S /\ Tail(s) \in Seq(S) /\ Head(s) = s[1]
  OBVIOUS
<1>2. ASSUME NEW k \in 1..Len(s), k # 1
      PROVE  \E j \in 1..Len(Tail(s)) : Tail(s)[j] = s[k]
  <2>1. k - 1 \in 1..Len(Tail(s)) /\ Tail(s)[k - 1] = s[k]
    BY <1>2
  <2> QED  BY <2>1
<1> QED  BY <1>1, <1>2

LEMMA SeqConcat ==
    ASSUME NEW S, NEW s \in Seq(S), NEW t \in Seq(S)
    PROVE  /\ s \o t \in Seq(S)
           /\ \A k \in 1..Len(s) : \E j \in 1..Len(s \o t) : (s \o t)[j] = s[k]
           /\ \A k \in 1..Len(t) : \E j \in 1..Len(s \o t) : (s \o t)[j] = t[k]
<1>1. s \o t \in Seq(S) /\ Len(s \o t) = Len(s) + Len(t)
  OBVIOUS
<1>2. ASSUME NEW k \in 1..Len(s) PROVE \E j \in 1..Len(s \o t) : (s \o t)[j] = s[k]
  <2>1. k \in 1..Len(s \o t) /\ (s \o t)[k] = s[k]  OBVIOUS
  <2> QED  BY <2>1
<1>3. ASSUME NEW k \in 1..Len(t) PROVE \E j \in 1..Len(s \o t) : (s \o t)[j] = t[k]
  <2>1. Len(s) + k \in 1..Len(s \o t) /\ (s \o t)[Len(s) + k] = t[k]  OBVIOUS
  <2> QED  BY <2>1
<1> QED  BY <1>1, <1>2, <1>3


-----------------------------------------------------------------------------
(* Type correctness. *)

\* The reached value of a visit is a pair of interval sets.
LEMMA ReachedType ==
    ASSUME MembarTypeOK, NEW b \in Blocks, NEW k \in Index
    PROVE  ReachedAt(b, k) \in Info
BY NoInfoType DEF MembarTypeOK, ReachedAt

LEMMA InitType == Init => TypeOK
<1> SUFFICES ASSUME Init PROVE TypeOK
  OBVIOUS
<1>1. WellFormed(func)
  BY FunctionAssumption DEF Init, MembarInit
<1>2. 1 \in Index /\ Entry \in Blocks
  BY BoundAssumption, EntryAssumption DEF Index
<1>3. 1 <= Len(Code(Entry)) + 1
  BY <1>1, <1>2, FunctionFacts
<1>4. blockList \in Seq(Blocks)
  BY <1>2 DEF Init, MembarInit
<1> QED
  BY <1>1, <1>2, <1>3, <1>4, NoInfoType DEF Init, MembarInit, KernelInit, TypeOK, MembarTypeOK

\* A visit of one operation, whatever info it leaves and whatever barriers
\* it inserts at i and i + 1.
LEMMA LeaveType ==
    ASSUME TypeOK, Visiting, NEW info \in Info, NEW new \in SUBSET {i, i + 1},
           Leave(info), barriers' = [barriers EXCEPT ![block] = @ \cup new],
           UNCHANGED kernelVars
    PROVE  TypeOK'
<1> USE DEF TypeOK, MembarTypeOK
<1>1. /\ i \in Index /\ i + 1 \in Index
      /\ i + 1 <= Len(Code(block)) + 1
  BY FunctionFacts, BoundAssumption DEF Visiting, Index
<1>2. visitInfo' \in [Blocks -> [Index -> Info]]
  BY <1>1 DEF Leave
<1>3. barriers' \in [Blocks -> SUBSET Index]
  BY <1>1
<1> QED
  BY <1>1, <1>2, <1>3 DEF Leave, kernelVars, Code

\* Every visit action is of that form; what it leaves and inserts.
LEMMA VisitForm ==
    ASSUME TypeOK, Visit
    PROVE  /\ Visiting
           /\ \E info \in Info, new \in SUBSET {i, i + 1} :
                /\ Leave(info)
                /\ barriers' = [barriers EXCEPT ![block] = @ \cup new]
                /\ \/ new = {} /\ info = LeftBehind(block, i)
                      /\ \/ Skipped(Code(block)[i])
                         \/ ~IsIntersected(Reached, CurBlockInfo(Code(block)[i]))
                   \/ new = {i + 1} /\ Code(block)[i].kind = "async_wait"
                   \/ new = {i} /\ info = Join(NoInfo, CurBlockInfo(Code(block)[i]))
                      /\ ~Skipped(Code(block)[i]) /\ Code(block)[i].kind # "barrier"
<1> DEFINE op == Code(block)[i]
<1> DEFINE Form(info, new) ==
        /\ Leave(info)
        /\ barriers' = [barriers EXCEPT ![block] = @ \cup new]
        /\ \/ new = {} /\ info = LeftBehind(block, i)
              /\ (Skipped(op) \/ ~IsIntersected(Reached, CurBlockInfo(op)))
           \/ new = {i + 1} /\ op.kind = "async_wait"
           \/ new = {i} /\ info = Join(NoInfo, CurBlockInfo(op))
              /\ ~Skipped(op) /\ op.kind # "barrier"
<1>1. /\ Visiting /\ i \in Index /\ op \in Op /\ block \in Blocks
  BY FunctionFacts DEF Visit, SkipIntrinsic, SyncAtBarrier, BarrierAfterWait,
     UpdateAccess, Visiting, TypeOK, MembarTypeOK, Index
<1>2. barriers = [barriers EXCEPT ![block] = @ \cup {}]
  BY DEF TypeOK, MembarTypeOK
<1>3. Reached \in Info /\ CurBlockInfo(op) \in Info
  BY <1>1, ReachedType, CurType DEF Reached, TypeOK
<1>4. CASE SkipIntrinsic
  <2>1. Form(Reached, {})
    BY <1>2, <1>4 DEF SkipIntrinsic, LeftBehind, AfterOp, Reached
  <2> QED  BY <1>1, <1>3, <2>1
<1>5. CASE SyncAtBarrier
  <2>1. ~IsIntersected(Reached, CurBlockInfo(op))
    BY <1>1, <1>5 DEF SyncAtBarrier, Op, CurBlockInfo, IsIntersected, AnyIntersects
  <2>2. Form(NoInfo, {})
    BY <1>2, <1>5, <2>1 DEF SyncAtBarrier, LeftBehind, AfterOp
  <2> QED  BY <1>1, <2>2, NoInfoType
<1>6. CASE BarrierAfterWait
  <2>1. Form(NoInfo, {i + 1})
    BY <1>6 DEF BarrierAfterWait
  <2> QED  BY <1>1, <2>1, NoInfoType
<1>7. CASE UpdateAccess
  <2>1. CASE IsIntersected(Reached, CurBlockInfo(op))
    <3>1. Form(Join(NoInfo, CurBlockInfo(op)), {i})
      BY <1>7, <2>1 DEF UpdateAccess, Analysed
    <3> QED  BY <1>1, <1>3, <3>1, NoInfoType, JoinType
  <2>2. CASE ~IsIntersected(Reached, CurBlockInfo(op))
    <3>1. Form(Join(Reached, CurBlockInfo(op)), {})
      BY <1>2, <1>7, <2>2, TouchesIsCur DEF UpdateAccess, Analysed, LeftBehind, AfterOp, Reached
    <3> QED  BY <1>1, <1>3, <3>1, JoinType
  <2> QED  BY <2>1, <2>2
<1> QED
  BY <1>4, <1>5, <1>6, <1>7 DEF Visit

LEMMA NextType == TypeOK /\ [Next]_vars => TypeOK'
<1> SUFFICES ASSUME TypeOK, [Next]_vars PROVE TypeOK'
  OBVIOUS
<1> USE DEF TypeOK, MembarTypeOK
<1>0. 1 \in Index
  BY BoundAssumption DEF Index
<1>1. CASE PopFront /\ UNCHANGED kernelVars
  <2>1. block' \in Blocks /\ blockList' \in Seq(Blocks)
    BY <1>1, SeqTail DEF PopFront
  <2>2. visitInfo' \in [Blocks -> [Index -> Info]]
    BY <1>0, <1>1, <2>1 DEF PopFront
  <2>3. 1 <= Len(Code(block')) + 1
    BY <2>1, FunctionFacts
  <2> QED
    BY <1>0, <1>1, <2>1, <2>2, <2>3 DEF PopFront, kernelVars, Code
<1>2. CASE Visit /\ UNCHANGED kernelVars
  BY <1>2, VisitForm, LeaveType
<1>3. CASE SkipSuccessors /\ UNCHANGED kernelVars
  BY <1>3 DEF SkipSuccessors, kernelVars, Code
<1>4. CASE UpdateSuccessors /\ UNCHANGED kernelVars
  <2>1. Join(outputBlockInfoMap[block], Reached) \in Info
    BY ReachedType, JoinType DEF Reached
  <2>2. /\ outputBlockInfoMap' \in [Blocks -> Info]
        /\ inputBlockInfoMap' \in [Blocks -> Info]
    BY <1>4, <2>1, JoinType DEF UpdateSuccessors
  <2>3. blockList' \in Seq(Blocks)
    BY <1>4, FunctionFacts, SeqConcat DEF UpdateSuccessors
  <2> QED
    BY <1>4, <2>2, <2>3 DEF UpdateSuccessors, kernelVars, Code
<1>5. CASE Summarise /\ UNCHANGED kernelVars
  <2>1. funcBlockInfo' \in Info
    BY <1>5 DEF Summarise, Info
  <2> QED
    BY <1>5, <2>1 DEF Summarise, kernelVars, Code
<1>6. ASSUME Running PROVE Arriving \in Info
  BY NoInfoType DEF Arriving
<1>7. CASE Execute
  <2>1. Code(at)[next] \in Op /\ next + 1 \in Index /\ next + 1 <= Len(Code(at)) + 1
    BY <1>7, FunctionFacts, BoundAssumption DEF Execute, AtOp, Index
  <2>2. pending' \in Info
    BY <1>6, <1>7, <2>1, NoInfoType, JoinType, CurType, TouchesIsCur DEF Execute, AtOp, AfterOp
  <2> QED
    BY <1>7, <2>1, <2>2 DEF Execute, membarVars, Code
<1>8. CASE Branch
  <2>1. at' \in Blocks
    BY <1>8, FunctionFacts DEF Branch
  <2>2. 1 <= Len(Code(at')) + 1
    BY <2>1, FunctionFacts
  <2> QED
    BY <1>0, <1>6, <1>8, <2>1, <2>2 DEF Branch, AtEnd, membarVars, Code
<1>9. CASE Return
  BY <1>6, <1>9 DEF Return, AtEnd, membarVars, Code
<1>10. CASE UNCHANGED vars
  BY <1>10 DEF vars, Code
<1> QED
  BY <1>1, <1>2, <1>3, <1>4, <1>5, <1>7, <1>8, <1>9, <1>10
  DEF Next, Analyse, MembarNext, Finished

\* The state of the analysis and of the execution keeps its types: in
\* particular the position in a block never runs past its terminator.
THEOREM TypeCorrect == Spec => []TypeOK
BY InitType, NextType, PTL DEF Spec

-----------------------------------------------------------------------------
(* The invariant of the fixed-point loop. *)

LEMMA AfterOpMonotone ==
    ASSUME NEW op, NEW a, NEW b, Within(a, b)
    PROVE  Within(AfterOp(op, a), AfterOp(op, b))
BY JoinMonotone, WithinReflexive DEF AfterOp

\* What Known and Queued say of the worklist after an action that only pops it.
LEMMA PopKnown ==
    ASSUME TypeOK, PopFront
    PROVE  /\ \A b \in Blocks : Known(b) => Known(b)'
           /\ \A b \in Blocks : Queued(b) => Queued(b)' \/ b = block'
           /\ block' \in Blocks
<1>1. /\ block' = Head(blockList) /\ blockList' = Tail(blockList)
      /\ working' /\ ~working /\ seen' = seen /\ block' \in Blocks
  BY SeqTail DEF PopFront, TypeOK, MembarTypeOK
<1>2. \A b \in Blocks : Queued(b) => Queued(b)' \/ b = block'
  <2> SUFFICES ASSUME NEW k \in 1..Len(blockList), blockList[k] # block'
               PROVE  \E j \in 1..Len(blockList') : blockList'[j] = blockList[k]
    BY DEF Queued
  <2>1. blockList \in Seq(Blocks) /\ blockList # <<>>
    BY DEF PopFront, TypeOK, MembarTypeOK
  <2> QED
    BY <1>1, <2>1, SeqTail
<1> QED
  BY <1>1, <1>2 DEF Known, InProgress

LEMMA InitFixpoint == Init => FixpointInv
<1> SUFFICES ASSUME Init PROVE FixpointInv
  OBVIOUS
<1>1. TypeOK
  BY InitType
<1>2. Known(Entry)
  BY DEF Init, MembarInit, Known, Queued
<1> QED
  BY <1>1, <1>2 DEF Init, MembarInit, KernelInit, FixpointInv, PrefixCovered, VisitedCovered,
     OutputsFlow, SummaryComplete, ExecutionCovered, Running

LEMMA PopFixpoint ==
    ASSUME FixpointInv, PopFront, UNCHANGED kernelVars
    PROVE  FixpointInv'
<1> USE DEF FixpointInv
<1>1. TypeOK'
  BY NextType DEF Next, Analyse, MembarNext
<1>2. /\ block' \in Blocks /\ 1 \in Index
      /\ visitInfo' = [visitInfo EXCEPT ![block'][1] = inputBlockInfoMap[block']]
      /\ UNCHANGED <<func, inputBlockInfoMap, outputBlockInfoMap, seen, barriers,
                     funcBlockInfo, resolved>>
      /\ ~working /\ ~resolved /\ working' /\ i' = 1
  BY PopKnown, BoundAssumption DEF PopFront, Index
<1>3. PrefixCovered'
  BY <1>2, WithinReflexive DEF PrefixCovered, TypeOK, MembarTypeOK
<1>4. VisitedCovered'
  <2> SUFFICES ASSUME NEW b \in seen, b # block'
               PROVE  (/\ \A k \in 1..Len(Code(b)) : Covered(b, k)
                       /\ Within(ReachedAt(b, Len(Code(b)) + 1), outputBlockInfoMap[b])
                       /\ Queued(b) \/ Within(inputBlockInfoMap[b], visitInfo[b][1]))'
    BY <1>2 DEF VisitedCovered, InProgress
  <2>1. visitInfo'[b] = visitInfo[b]
    BY <1>2 DEF TypeOK, MembarTypeOK
  <2>2. /\ \A k \in 1..Len(Code(b)) : Covered(b, k)
        /\ Within(ReachedAt(b, Len(Code(b)) + 1), outputBlockInfoMap[b])
        /\ Queued(b) \/ Within(inputBlockInfoMap[b], visitInfo[b][1])
    BY <1>2 DEF VisitedCovered, InProgress
  <2>3. Queued(b) => Queued(b)'
    BY PopKnown DEF TypeOK, MembarTypeOK
  <2> QED
    BY <1>2, <2>1, <2>2, <2>3 DEF Covered, ReachedAt, LeftBehind, Code
<1>5. OutputsFlow'
  <2>1. \A b \in seen : b \in Blocks /\ Succ(b) \subseteq Blocks
    BY FunctionFacts DEF TypeOK, MembarTypeOK
  <2> QED
    BY <1>2, <2>1, PopKnown, EntryAssumption DEF OutputsFlow, Succ
<1>6. SummaryComplete' /\ ExecutionCovered'
  BY <1>2 DEF SummaryComplete, ExecutionCovered, Running, kernelVars
<1> QED
  BY <1>1, <1>3, <1>4, <1>5, <1>6

\* A visit extends the covered prefix of the block by one operation.
LEMMA VisitFixpoint ==
    ASSUME FixpointInv, Visit, UNCHANGED kernelVars
    PROVE  FixpointInv'
<1> USE DEF FixpointInv
<1>1. TypeOK'
  BY NextType DEF Next, Analyse, MembarNext
<1>2. PICK info \in Info, new \in SUBSET {i, i + 1} :
        /\ Leave(info)
        /\ barriers' = [barriers EXCEPT ![block] = @ \cup new]
        /\ \/ new = {} /\ info = LeftBehind(block, i)
              /\ \/ Skipped(Code(block)[i])
                 \/ ~IsIntersected(Reached, CurBlockInfo(Code(block)[i]))
           \/ new = {i + 1} /\ Code(block)[i].kind = "async_wait"
           \/ new = {i} /\ info = Join(NoInfo, CurBlockInfo(Code(block)[i]))
              /\ ~Skipped(Code(block)[i]) /\ Code(block)[i].kind # "barrier"
  BY VisitForm
<1>3. /\ Visiting /\ working /\ block \in Blocks
      /\ i \in Index /\ i + 1 \in Index /\ Code(block)[i] \in Op
      /\ visitInfo' = [visitInfo EXCEPT ![block][i + 1] = info]
      /\ i' = i + 1
      /\ UNCHANGED <<func, blockList, working, block, inputBlockInfoMap,
                     outputBlockInfoMap, seen, funcBlockInfo, resolved>>
  BY <1>2, VisitForm, FunctionFacts, BoundAssumption
  DEF Visiting, Leave, TypeOK, MembarTypeOK, Index
<1>4. /\ \A k \in 1..i : visitInfo'[block][k] = visitInfo[block][k]
      /\ visitInfo'[block][i + 1] = info
      /\ barriers'[block] = barriers[block] \cup new
      /\ 1..i \subseteq Index
  BY <1>2, <1>3, BoundAssumption DEF TypeOK, MembarTypeOK, Index
<1>5. PrefixCovered'
  <2>1. ~resolved /\ Within(inputBlockInfoMap[block], visitInfo[block][1])
    BY <1>3 DEF PrefixCovered
  <2>2. Within(inputBlockInfoMap'[block'], visitInfo'[block'][1])
    <3>1. 1 \in 1..i
      BY <1>3 DEF Index
    <3> QED
      BY <1>3, <1>4, <2>1, <3>1
  <2>3. ASSUME NEW k \in 1..(i - 1) PROVE Covered(block, k)'
    <3>1. Covered(block, k)
      BY <1>3, <2>3 DEF PrefixCovered
    <3>2. k \in 1..i /\ k + 1 \in 1..i /\ k \notin new
      BY <1>2, <1>3 DEF Index
    <3>3. /\ ReachedAt(block, k)' = ReachedAt(block, k)
          /\ visitInfo'[block][k + 1] = visitInfo[block][k + 1]
          /\ Code(block)' = Code(block)
      BY <1>3, <1>4, <3>2 DEF ReachedAt, Code
    <3> QED
      BY <1>3, <1>4, <3>1, <3>3 DEF Covered, LeftBehind
  <2>4. PICK n \in Index : n = i
    BY <1>3
  <2>5. Covered(block, n)'
    <3>1. /\ Code(block)' = Code(block) /\ block' = block
          /\ n \in 1..i /\ n + 1 = i + 1
      BY <1>3, <2>4 DEF Code, Index
    <3>2. CASE new = {} /\ info = LeftBehind(block, i)
               /\ \/ Skipped(Code(block)[i])
                  \/ ~IsIntersected(Reached, CurBlockInfo(Code(block)[i]))
      <4>1. ReachedAt(block, n)' = ReachedAt(block, n)
        BY <1>4, <3>1, <3>2 DEF ReachedAt
      <4>2. LeftBehind(block, n)' = info
        BY <2>4, <3>1, <3>2, <4>1 DEF LeftBehind
      <4> QED
        BY <1>4, <2>4, <3>1, <3>2, <4>1, <4>2, WithinReflexive DEF Covered, Reached
    <3>3. CASE new = {i + 1} /\ Code(block)[i].kind = "async_wait"
      <4>1. ~IsIntersected(ReachedAt(block, n)', CurBlockInfo(Code(block)[n]))
        BY <1>3, <2>4, <3>3 DEF Op, CurBlockInfo, IsIntersected, AnyIntersects
      <4> QED
        BY <1>4, <2>4, <3>1, <3>3, <4>1 DEF Covered
    <3>4. CASE new = {i} /\ info = Join(NoInfo, CurBlockInfo(Code(block)[i]))
               /\ ~Skipped(Code(block)[i]) /\ Code(block)[i].kind # "barrier"
      <4>1. ReachedAt(block, n)' = NoInfo
        BY <1>4, <2>4, <3>1, <3>4 DEF ReachedAt
      <4>2. LeftBehind(block, n)' = info
        BY <2>4, <3>1, <3>4, <4>1, TouchesIsCur DEF LeftBehind, AfterOp
      <4> QED
        BY <1>4, <2>4, <3>1, <4>1, <4>2, WithinReflexive, NoInfoNeverIntersects
        DEF Covered
    <3> QED
      BY <1>2, <3>2, <3>3, <3>4
  <2>6. \A k \in 1..(i' - 1) : k \in 1..(i - 1) \/ k = n
    BY <1>3, <2>4 DEF Index
  <2>7. (\A k \in 1..(i - 1) : Covered(block, k))'
    <3> SUFFICES ASSUME NEW k \in 1..(i' - 1) PROVE Covered(block, k)'
      OBVIOUS
    <3>1. CASE k \in 1..(i - 1)
      BY <2>3, <3>1
    <3>2. CASE k = n
      BY <2>5, <3>2
    <3> QED
      BY <2>6, <3>1, <3>2
  <2>8. Within(inputBlockInfoMap[block], visitInfo[block][1])' /\ ~resolved'
    BY <1>3, <2>1, <2>2
  <2> QED
    BY <2>7, <2>8 DEF PrefixCovered
<1>6. VisitedCovered'
  <2> SUFFICES ASSUME NEW b \in seen, b # block
               PROVE  (/\ \A k \in 1..Len(Code(b)) : Covered(b, k)
                       /\ Within(ReachedAt(b, Len(Code(b)) + 1), outputBlockInfoMap[b])
                       /\ Queued(b) \/ Within(inputBlockInfoMap[b], visitInfo[b][1]))'
    BY <1>3 DEF VisitedCovered, InProgress
  <2>1. visitInfo'[b] = visitInfo[b] /\ barriers'[b] = barriers[b]
    BY <1>2, <1>3 DEF TypeOK, MembarTypeOK
  <2>2. /\ \A k \in 1..Len(Code(b)) : Covered(b, k)
        /\ Within(ReachedAt(b, Len(Code(b)) + 1), outputBlockInfoMap[b])
        /\ Queued(b) \/ Within(inputBlockInfoMap[b], visitInfo[b][1])
    BY DEF VisitedCovered, InProgress
  <2> QED
    BY <1>3, <2>1, <2>2 DEF Covered, ReachedAt, LeftBehind, Code, Queued
<1>7. OutputsFlow'
  BY <1>3 DEF OutputsFlow, Known, Queued, InProgress, Succ
<1>8. SummaryComplete' /\ ExecutionCovered'
  BY <1>3 DEF SummaryComplete, ExecutionCovered, PrefixCovered, Running, kernelVars
<1> QED
  BY <1>1, <1>5, <1>6, <1>7, <1>8

\* The two ways a visit ends: the block joins the visited ones.
LEMMA SkipFixpoint ==
    ASSUME FixpointInv, SkipSuccessors, UNCHANGED kernelVars
    PROVE  FixpointInv'
<1> USE DEF FixpointInv
<1>1. TypeOK'
  BY NextType DEF Next, Analyse, MembarNext
<1>2. /\ working /\ block \in seen /\ i = Len(Code(block)) + 1 /\ ~working'
      /\ block \in Blocks /\ Len(Code(block)) \in Nat
      /\ ReachedAt(block, i) = outputBlockInfoMap[block]
      /\ UNCHANGED <<func, blockList, block, i, visitInfo, inputBlockInfoMap,
                     outputBlockInfoMap, seen, barriers, funcBlockInfo, resolved>>
  BY FunctionFacts
  DEF SkipSuccessors, AtTerminator, Unchanged, Reached, TypeOK, MembarTypeOK
<1>3. PrefixCovered'
  BY <1>2 DEF PrefixCovered
<1>4. VisitedCovered'
  <2>1. ASSUME NEW b \in seen
        PROVE  /\ \A k \in 1..Len(Code(b)) : Covered(b, k)
               /\ Within(ReachedAt(b, Len(Code(b)) + 1), outputBlockInfoMap[b])
               /\ Queued(b) \/ Within(inputBlockInfoMap[b], visitInfo[b][1])
    <3>1. CASE b = block
      BY <1>2, <3>1, WithinReflexive DEF PrefixCovered
    <3>2. CASE b # block
      BY <3>2 DEF VisitedCovered, InProgress
    <3> QED
      BY <3>1, <3>2
  <2> QED
    BY <1>2, <2>1 DEF VisitedCovered, Covered, ReachedAt, LeftBehind, Code, Queued
<1>5. OutputsFlow'
  BY <1>2 DEF OutputsFlow, Known, Queued, InProgress, Succ
<1>6. SummaryComplete' /\ ExecutionCovered'
  BY <1>2 DEF SummaryComplete, ExecutionCovered, PrefixCovered, Running, kernelVars
<1> QED
  BY <1>1, <1>3, <1>4, <1>5, <1>6

LEMMA UpdateFixpoint ==
    ASSUME FixpointInv, UpdateSuccessors, UNCHANGED kernelVars
    PROVE  FixpointInv'
<1> USE DEF FixpointInv
<1> DEFINE output == Join(outputBlockInfoMap[block], Reached)
<1>1. TypeOK'
  BY NextType DEF Next, Analyse, MembarNext
<1>2. /\ working /\ i = Len(Code(block)) + 1 /\ ~working'
      /\ block \in Blocks /\ Len(Code(block)) \in Nat
      /\ outputBlockInfoMap' = [outputBlockInfoMap EXCEPT ![block] = output]
      /\ inputBlockInfoMap' = [b \in Blocks |-> IF b \in Succ(block)
                                                THEN Join(inputBlockInfoMap[b], output)
                                                ELSE inputBlockInfoMap[b]]
      /\ seen' = seen \cup {block} /\ seen \subseteq Blocks
      /\ blockList' = blockList \o func.succ[block]
      /\ UNCHANGED <<func, block, i, visitInfo, barriers, funcBlockInfo, resolved>>
  BY FunctionFacts DEF UpdateSuccessors, AtTerminator, TypeOK, MembarTypeOK
<1>3. /\ \A b \in Blocks : Queued(b) => Queued(b)'
      /\ \A b \in Succ(block) : Queued(b)'
  <2>1. blockList \in Seq(Blocks) /\ func.succ[block] \in Seq(Blocks)
    BY <1>2, FunctionFacts DEF TypeOK, MembarTypeOK
  <2>2. /\ \A k \in 1..Len(blockList) :
             \E j \in 1..Len(blockList') : blockList'[j] = blockList[k]
        /\ \A k \in 1..Len(func.succ[block]) :
             \E j \in 1..Len(blockList') : blockList'[j] = func.succ[block][k]
    <3> DEFINE t == func.succ[block]
    <3> HIDE DEF t
    <3>1. t \in Seq(Blocks) /\ blockList \in Seq(Blocks)
      BY <2>1 DEF t
    <3>2. /\ \A k \in 1..Len(blockList) :
               \E j \in 1..Len(blockList \o t) : (blockList \o t)[j] = blockList[k]
          /\ \A k \in 1..Len(t) :
               \E j \in 1..Len(blockList \o t) : (blockList \o t)[j] = t[k]
      BY <3>1, SeqConcat
    <3> QED
      BY <1>2, <3>2 DEF t
  <2> QED
    BY <2>2 DEF Queued, Succ
<1>4. PrefixCovered'
  BY <1>2 DEF PrefixCovered
<1>5. VisitedCovered'
  <2> SUFFICES ASSUME NEW b \in seen'
               PROVE  (/\ \A k \in 1..Len(Code(b)) : Covered(b, k)
                       /\ Within(ReachedAt(b, Len(Code(b)) + 1), outputBlockInfoMap[b])
                       /\ Queued(b) \/ Within(inputBlockInfoMap[b], visitInfo[b][1]))'
    BY DEF VisitedCovered
  <2>1. b \in Blocks
    BY <1>2
  <2>2. /\ \A k \in 1..Len(Code(b)) : Covered(b, k)
        /\ Within(ReachedAt(b, Len(Code(b)) + 1), outputBlockInfoMap'[b])
        /\ Queued(b) \/ Within(inputBlockInfoMap[b], visitInfo[b][1])
    <3>1. CASE b = block
      <4>1. Within(ReachedAt(b, Len(Code(b)) + 1), outputBlockInfoMap'[b])
        BY <1>2, <3>1, JoinBounds DEF Reached, TypeOK, MembarTypeOK
      <4> QED
        BY <1>2, <3>1, <4>1 DEF PrefixCovered
    <3>2. CASE b # block
      BY <1>2, <2>1, <3>2 DEF VisitedCovered, InProgress, TypeOK, MembarTypeOK
    <3> QED
      BY <3>1, <3>2
  <2>3. Queued(b)' \/ Within(inputBlockInfoMap[b], visitInfo[b][1])'
    <3>1. CASE b \in Succ(block)
      BY <1>3, <3>1
    <3>2. CASE b \notin Succ(block)
      <4>1. inputBlockInfoMap'[b] = inputBlockInfoMap[b]
        BY <1>2, <2>1, <3>2
      <4> QED
        BY <1>2, <1>3, <2>1, <2>2, <4>1
    <3> QED
      BY <3>1, <3>2
  <2> QED
    BY <1>2, <2>2, <2>3 DEF Covered, ReachedAt, LeftBehind, Code
<1>6. OutputsFlow'
  <2>1. ASSUME NEW b \in Blocks, Known(b) PROVE Known(b)'
    BY <1>2, <1>3, <2>1 DEF Known, InProgress
  <2>2. Known(Entry)'
    BY <2>1, EntryAssumption DEF OutputsFlow
  <2>3. ASSUME NEW b \in seen', NEW s \in Succ(b)
        PROVE  Known(s)' /\ Within(outputBlockInfoMap'[b], inputBlockInfoMap'[s])
    <3>1. s \in Blocks /\ b \in Blocks
      BY <1>2, FunctionFacts DEF TypeOK, MembarTypeOK
    <3>2. CASE b = block
      <4>1. outputBlockInfoMap'[b] = output
        BY <1>2, <3>2 DEF TypeOK, MembarTypeOK
      <4>2. inputBlockInfoMap'[s] = Join(inputBlockInfoMap[s], output)
        BY <1>2, <3>1, <3>2
      <4> QED
        BY <1>3, <3>2, <4>1, <4>2, JoinBounds DEF Known
    <3>3. CASE b # block
      <4>1. Known(s) /\ Within(outputBlockInfoMap[b], inputBlockInfoMap[s])
        BY <1>2, <3>3 DEF OutputsFlow
      <4>2. outputBlockInfoMap'[b] = outputBlockInfoMap[b]
        BY <1>2, <3>1, <3>3 DEF TypeOK, MembarTypeOK
      <4>3. Within(inputBlockInfoMap[s], inputBlockInfoMap'[s])
        BY <1>2, <3>1, JoinBounds, WithinReflexive
      <4> QED
        BY <2>1, <3>1, <4>1, <4>2, <4>3, WithinTransitive
    <3> QED
      BY <3>2, <3>3
  <2>4. \A b \in Blocks : Succ(b)' = Succ(b)
    BY <1>2 DEF Succ
  <2> QED
    BY <1>2, <2>2, <2>3, <2>4 DEF OutputsFlow
<1>7. SummaryComplete' /\ ExecutionCovered'
  BY <1>2 DEF SummaryComplete, ExecutionCovered, PrefixCovered, Running, kernelVars
<1> QED
  BY <1>1, <1>4, <1>5, <1>6, <1>7

\* The end of resolve(): nothing is queued, so every reachable block is visited.
LEMMA SummariseFixpoint ==
    ASSUME FixpointInv, Summarise, UNCHANGED kernelVars
    PROVE  FixpointInv'
<1> USE DEF FixpointInv
<1>1. TypeOK'
  BY NextType DEF Next, Analyse, MembarNext
<1>2. /\ ~working /\ ~resolved /\ blockList = <<>> /\ resolved'
      /\ UNCHANGED <<func, blockList, working, block, i, visitInfo,
                     inputBlockInfoMap, outputBlockInfoMap, seen, barriers>>
  BY DEF Summarise
<1>3. PrefixCovered' /\ VisitedCovered' /\ OutputsFlow'
  BY <1>2 DEF PrefixCovered, VisitedCovered, OutputsFlow, Covered, ReachedAt,
     LeftBehind, Code, Known, Queued, InProgress, Succ
<1>4. SummaryComplete'
  <2>1. ASSUME NEW b \in Blocks, Returns(b)
        PROVE  Within(outputBlockInfoMap[b], funcBlockInfo')
    BY <2>1 DEF Summarise, Within
  <2> QED
    BY <1>2, <2>1 DEF SummaryComplete, Returns
<1>5. ExecutionCovered'
  <2>1. ~Queued(Entry)
    BY <1>2 DEF Queued
  <2>2. Entry \in seen /\ ~InProgress(Entry)
    BY <1>2, <2>1 DEF OutputsFlow, Known, InProgress
  <2>3. /\ at' = Entry /\ next' = 1 /\ pending' = NoInfo /\ ~returned'
    BY <1>2 DEF ExecutionCovered, kernelVars
  <2>4. Within(Arriving', ReachedAt(at, next)')
    BY <2>3, NoInfoWithin DEF Arriving
  <2> QED
    BY <1>2, <2>2, <2>3, <2>4 DEF ExecutionCovered, Running
<1> QED
  BY <1>1, <1>3, <1>4, <1>5

\* While the kernel runs, the analysis is over.
LEMMA ExecutionKeepsAnalysis ==
    ASSUME FixpointInv, UNCHANGED membarVars
    PROVE  (PrefixCovered /\ VisitedCovered /\ OutputsFlow /\ SummaryComplete)'
BY DEF FixpointInv, membarVars, PrefixCovered, VisitedCovered, OutputsFlow,
   SummaryComplete, Covered, ReachedAt, LeftBehind, Code, Known, Queued,
   InProgress, Succ, Returns

\* What a running kernel relies on: the block it is in is visited and not
\* being visited again, and its operations are covered.
LEMMA RunningFacts ==
    ASSUME FixpointInv, Running
    PROVE  /\ at \in seen /\ at \in Blocks
           /\ ~working /\ blockList = <<>>
           /\ Within(Arriving, ReachedAt(at, next))
           /\ \A k \in 1..Len(Code(at)) : Covered(at, k)
           /\ Within(ReachedAt(at, Len(Code(at)) + 1), outputBlockInfoMap[at])
           /\ \A s \in Succ(at) :
                /\ s \in seen
                /\ Within(outputBlockInfoMap[at], visitInfo[s][1])
<1> USE DEF FixpointInv
<1>1. /\ at \in seen /\ at \in Blocks /\ ~working /\ blockList = <<>>
      /\ Within(Arriving, ReachedAt(at, next))
  BY DEF Running, ExecutionCovered, PrefixCovered, SummaryComplete, TypeOK
<1>2. \A b \in Blocks : ~Queued(b) /\ ~InProgress(b)
  BY <1>1 DEF Queued, InProgress
<1>3. ASSUME NEW s \in Succ(at)
      PROVE  s \in seen /\ Within(outputBlockInfoMap[at], visitInfo[s][1])
  <2>1. s \in Blocks
    BY <1>1, FunctionFacts DEF TypeOK, MembarTypeOK
  <2>2. s \in seen /\ Within(outputBlockInfoMap[at], inputBlockInfoMap[s])
    BY <1>1, <1>2, <2>1 DEF OutputsFlow, Known
  <2>3. Within(inputBlockInfoMap[s], visitInfo[s][1])
    BY <1>2, <2>1, <2>2 DEF VisitedCovered
  <2> QED
    BY <2>2, <2>3, WithinTransitive
<1> QED
  BY <1>1, <1>2, <1>3 DEF VisitedCovered

LEMMA ExecuteFixpoint ==
    ASSUME FixpointInv, Execute
    PROVE  FixpointInv'
<1> USE DEF FixpointInv
<1>1. TypeOK'
  BY NextType DEF Next
<1>2. /\ Running /\ at \in Blocks /\ next \in 1..Len(Code(at))
      /\ pending' = AfterOp(Code(at)[next], Arriving)
      /\ next' = next + 1 /\ at' = at /\ Running'
      /\ UNCHANGED <<resolved, returned, barriers, visitInfo, seen>>
  BY FunctionFacts
  DEF Execute, AtOp, membarVars, TypeOK, MembarTypeOK, Running, Index
<1>3. /\ at \in seen
      /\ Within(Arriving, ReachedAt(at, next))
      /\ Covered(at, next)
  BY <1>2, RunningFacts
<1>4. Within(Arriving', ReachedAt(at, next)')
  <2>1. CASE next + 1 \in barriers[at]
    BY <1>2, <2>1, NoInfoWithin DEF Arriving
  <2>2. CASE next + 1 \notin barriers[at]
    <3>1. Within(pending', LeftBehind(at, next))
      BY <1>2, <1>3, AfterOpMonotone DEF LeftBehind
    <3>2. Within(pending', visitInfo[at][next + 1])
      BY <1>3, <2>2, <3>1, WithinTransitive DEF Covered
    <3> QED
      BY <1>2, <2>2, <3>2 DEF Arriving, ReachedAt
  <2> QED
    BY <2>1, <2>2
<1>5. ExecutionCovered'
  BY <1>2, <1>3, <1>4 DEF ExecutionCovered, Running
<1> QED
  BY <1>1, <1>5, ExecutionKeepsAnalysis DEF Execute

LEMMA BranchFixpoint ==
    ASSUME FixpointInv, Branch
    PROVE  FixpointInv'
<1> USE DEF FixpointInv
<1>1. TypeOK'
  BY NextType DEF Next
<1>2. /\ Running /\ next = Len(Code(at)) + 1 /\ pending' = Arriving
      /\ next' = 1 /\ at' \in Succ(at) /\ Running'
      /\ UNCHANGED <<resolved, returned, barriers, visitInfo, seen>>
  BY DEF Branch, AtEnd, membarVars, Running
<1>3. Within(Arriving, visitInfo[at'][1]) /\ at' \in seen
  BY <1>2, RunningFacts, WithinTransitive
<1>4. Within(Arriving', ReachedAt(at, next)')
  <2>1. CASE 1 \in barriers[at']
    BY <1>2, <2>1, NoInfoWithin DEF Arriving
  <2>2. CASE 1 \notin barriers[at']
    BY <1>2, <1>3, <2>2 DEF Arriving, ReachedAt
  <2> QED
    BY <2>1, <2>2
<1>5. ExecutionCovered'
  BY <1>2, <1>3, <1>4 DEF ExecutionCovered, Running
<1> QED
  BY <1>1, <1>5, ExecutionKeepsAnalysis DEF Branch

LEMMA ReturnFixpoint ==
    ASSUME FixpointInv, Return
    PROVE  FixpointInv'
<1> USE DEF FixpointInv
<1>1. TypeOK'
  BY NextType DEF Next
<1>2. /\ Running /\ next = Len(Code(at)) + 1 /\ Returns(at) /\ returned'
      /\ pending' = Arriving /\ UNCHANGED <<resolved, funcBlockInfo>> /\ resolved
  BY DEF Return, AtEnd, membarVars, Running
<1>3. Within(Arriving, outputBlockInfoMap[at]) /\ at \in Blocks
  BY <1>2, RunningFacts, WithinTransitive
<1>4. Within(outputBlockInfoMap[at], funcBlockInfo)
  BY <1>2, <1>3 DEF SummaryComplete
<1>5. ExecutionCovered'
  BY <1>2, <1>3, <1>4, WithinTransitive DEF ExecutionCovered, Running
<1> QED
  BY <1>1, <1>5, ExecutionKeepsAnalysis DEF Return

LEMMA NextFixpoint == FixpointInv /\ [Next]_vars => FixpointInv'
<1> SUFFICES ASSUME FixpointInv, [Next]_vars PROVE FixpointInv'
  OBVIOUS
<1>1. CASE UNCHANGED vars
  <2>1. TypeOK'
    BY <1>1, NextType DEF FixpointInv
  <2>2. UNCHANGED membarVars
    BY <1>1 DEF vars, membarVars
  <2>3. ExecutionCovered'
    BY <1>1 DEF vars, FixpointInv, ExecutionCovered, Running, Arriving, ReachedAt
  <2> QED
    BY <2>1, <2>2, <2>3, ExecutionKeepsAnalysis DEF FixpointInv
<1> QED
  BY <1>1, PopFixpoint, VisitFixpoint, SkipFixpoint, UpdateFixpoint,
     SummariseFixpoint, ExecuteFixpoint, BranchFixpoint, ReturnFixpoint
  DEF Next, Analyse, MembarNext, Finished

-----------------------------------------------------------------------------
(* The results. *)

\* The invariant of resolve()'s loop, up to and through the execution of the
\* function it has rewritten.
THEOREM FixpointCorrect == Spec => []FixpointInv
BY InitFixpoint, NextFixpoint, PTL DEF Spec

\* The rewritten function has no race on shared memory between operations the
\* analysis looks at, on any path, for any control-flow graph and buffers.
THEOREM NoRaceCorrect == Spec => []NoRace
<1>1. FixpointInv => NoRace
  <2> SUFFICES ASSUME FixpointInv, AtOp, ~Skipped(Code(at)[next])
               PROVE  ~Races(Arriving, CurBlockInfo(Code(at)[next]))
    BY TouchesIsCur DEF NoRace
  <2>1. /\ Running /\ at \in Blocks /\ next \in 1..Len(Code(at))
        /\ Code(at)[next] \in Op /\ Arriving \in Info
    BY FunctionFacts, NoInfoType
    DEF AtOp, FixpointInv, TypeOK, MembarTypeOK, Index, Arriving
  <2>2. ~IsIntersected(Arriving, CurBlockInfo(Code(at)[next]))
    BY <2>1, RunningFacts, IsIntersectedMonotone DEF Covered
  <2> QED
    BY <2>1, <2>2, CurType, RaceIsIntersected
<1> QED
  BY <1>1, FixpointCorrect, PTL

\* Whatever path the function returns on, what is pending is in its summary.
THEOREM SummaryCorrect == Spec => []SummaryCoversDangling
<1>1. FixpointInv => SummaryCoversDangling
  BY DEF FixpointInv, ExecutionCovered, SummaryCoversDangling
<1> QED
  BY <1>1, FixpointCorrect, PTL

=============================================================================
