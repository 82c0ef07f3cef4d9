------------------------- MODULE ModuleMembarProofs -------------------------
(***************************************************************************)
(* Proofs about ModuleMembar, for every module: a function is analysed      *)
(* after everything it calls, and an operation of the result never races    *)
(* with its own function or with one that has returned to it.               *)
(***************************************************************************)
EXTENDS ModuleMembar, SequenceTheorems, TLAPS

-----------------------------------------------------------------------------
(* Stacks. *)

LEMMA PoppedFacts ==
    ASSUME NEW T, NEW s \in Seq(T), s # <<>>
    PROVE  /\ Len(s) \in Nat \ {0}
           /\ s[Len(s)] \in T
           /\ Popped(s) \in Seq(T)
           /\ Len(Popped(s)) = Len(s) - 1
           /\ \A j \in 1..(Len(s) - 1) : Popped(s)[j] = s[j]
<1>1. Len(s) \in Nat \ {0} /\ s[Len(s)] \in T
  OBVIOUS
<1>2. \A i \in 1..(Len(s) - 1) : s[i] \in T
  OBVIOUS
<1> DEFINE n == Len(s) - 1
           t == SubSeq(s, 1, n)
<1>3. n \in Int /\ n >= 0 /\ n - 1 + 1 = n /\ \A i \in 1..n : s[i] \in T
  BY <1>1, <1>2
<1> HIDE DEF n
<1>4. t \in Seq(T)
  BY <1>3, SubSeqProperties
<1>5. Len(t) = IF 1 <= n THEN n - 1 + 1 ELSE 0
  BY <1>3, SubSeqProperties
<1>6. \A i \in 1..(n - 1 + 1) : t[i] = s[1 + i - 1]
  BY <1>3, SubSeqProperties
<1>7. \A j \in 1..n : t[j] = s[j]
  <2>1. \A j \in 1..n : 1 + j - 1 = j
    BY <1>3
  <2> QED
    BY <1>3, <1>6, <2>1
<1>8. Len(t) = n
  BY <1>3, <1>5
<1> QED
  BY <1>1, <1>4, <1>7, <1>8 DEF n, Popped

LEMMA ReplacedFacts ==
    ASSUME NEW T, NEW s \in Seq(T), s # <<>>, NEW x \in T
    PROVE  LET t == [s EXCEPT ![Len(s)] = x]
           IN  /\ t \in Seq(T)
               /\ Len(t) = Len(s)
               /\ t[Len(s)] = x
               /\ \A j \in 1..(Len(s) - 1) : t[j] = s[j]
OBVIOUS

LEMMA PushedFacts ==
    ASSUME NEW T, NEW s \in Seq(T), NEW y \in T
    PROVE  /\ Append(s, y) \in Seq(T)
           /\ Len(Append(s, y)) = Len(s) + 1
           /\ Append(s, y)[Len(s) + 1] = y
           /\ \A j \in 1..Len(s) : Append(s, y)[j] = s[j]
OBVIOUS

-----------------------------------------------------------------------------
(* Modules. *)

LEMMA CodeFacts ==
    ASSUME WellFormed(mod), NEW f \in Functions
    PROVE  /\ Code(f) \in Seq(Op)
           /\ Len(Code(f)) \in Nat
           /\ Len(Code(f)) <= MaxOps
           /\ \A k \in 1..Len(Code(f)) : Code(f)[k] \in Op
           /\ \A b \in Buffers : mod.place[f][b] \in Interval
<1>1. /\ mod.code \in [Functions -> Seq(Op)]
      /\ mod.place \in [Functions -> [Buffers -> Interval]]
      /\ Len(Code(f)) <= MaxOps
  BY DEF WellFormed, Module, Code
<1>2. Code(f) \in Seq(Op)
  BY <1>1 DEF Code
<1> QED
  BY <1>1, <1>2

LEMMA CurType ==
    ASSUME WellFormed(mod), summary \in [Functions -> Info],
           NEW f \in Functions, NEW op \in Op
    PROVE  CurBlockInfo(f, op) \in Info
<1>1. op.reads \subseteq Buffers /\ op.writes \subseteq Buffers /\ op.callee \in Functions
  BY DEF Op
<1>2. \A b \in Buffers : mod.place[f][b] \in Interval
  BY CodeFacts
<1>3. Places(f, op.reads) \in SUBSET Interval /\ Places(f, op.writes) \in SUBSET Interval
  BY <1>1, <1>2 DEF Places
<1> QED
  BY <1>1, <1>3 DEF CurBlockInfo, Info

\* The function a step of the walk or of an analysis is about.
LEMMA TopFacts ==
    ASSUME TypeOK, walkStack # <<>>
    PROVE  /\ Len(walkStack) \in Nat \ {0}
           /\ Top \in [func : Functions, next : 1..(MaxOps + 1)]
           /\ Top.func \in Functions
           /\ Top.next \in 1..(MaxOps + 1)
<1>1. walkStack \in Seq([func : Functions, next : 1..(MaxOps + 1)])
  BY DEF TypeOK
<1>2. Top \in [func : Functions, next : 1..(MaxOps + 1)] /\ Len(walkStack) \in Nat \ {0}
  BY <1>1, PoppedFacts DEF Top
<1> QED
  BY <1>2

\* The function a step of the execution is about.
LEMMA CurrentFacts ==
    ASSUME TypeOK, frames # <<>>
    PROVE  /\ Depth \in Nat \ {0}
           /\ Current \in [func : Functions, next : 1..(MaxOps + 1), base : Nat]
           /\ Current.func \in Functions
           /\ Current.next \in 1..(MaxOps + 1)
           /\ Current.base \in Nat
<1>1. frames \in Seq([func : Functions, next : 1..(MaxOps + 1), base : Nat])
  BY DEF TypeOK
<1>2. /\ Current \in [func : Functions, next : 1..(MaxOps + 1), base : Nat]
      /\ Depth \in Nat \ {0}
  BY <1>1, PoppedFacts DEF Current, Depth
<1> QED
  BY <1>2

-----------------------------------------------------------------------------
(* Type correctness. *)

LEMMA InitTypeOK == Init => TypeOK
<1> SUFFICES ASSUME Init PROVE TypeOK
  OBVIOUS
<1>1. /\ nextRoot = 1 /\ F \in Nat \ {0} /\ WellFormed(mod)
      /\ NoInfo \in Info
  BY BoundAssumption, ModuleAssumption, NoInfoType DEF Init
<1> QED
  BY <1>1 DEF Init, TypeOK

LEMMA TypeOKStep ==
    ASSUME ModuleInv, [Next]_vars
    PROVE  TypeOK'
<1> USE BoundAssumption
<1>0. TypeOK
  BY DEF ModuleInv
<1>1. CASE EnterRoot
  <2>1. PICK r \in nextRoot..F : nextRoot' = r + 1 /\ walkStack' = <<Activation(r)>>
    BY <1>1 DEF EnterRoot
  <2>2. r \in Functions /\ r + 1 \in 1..(F + 1)
    BY <1>0, <2>1 DEF TypeOK, Functions
  <2>3. Activation(r) \in [func : Functions, next : 1..(MaxOps + 1)]
    BY <2>2 DEF Activation
  <2>4. walkStack' \in Seq([func : Functions, next : 1..(MaxOps + 1)])
    BY <2>1, <2>3
  <2> QED
    BY <1>0, <1>1, <2>1, <2>2, <2>4 DEF EnterRoot, TypeOK, WellFormed
<1>2. CASE EnterCallee
  <2> DEFINE T == [func : Functions, next : 1..(MaxOps + 1)]
  <2>1. walkStack \in Seq(T) /\ walkStack # <<>> /\ WellFormed(mod)
    BY <1>0, <1>2 DEF EnterCallee, AtEdge, TypeOK
  <2>2. PICK k \in Edges(Top) :
          walkStack' = Append([walkStack EXCEPT ![Len(walkStack)].next = k + 1],
                              Activation(Code(Top.func)[k].callee))
    BY <1>2 DEF EnterCallee
  <2>3. Top \in T /\ Top.func \in Functions /\ Top.next \in 1..(MaxOps + 1)
    BY <1>0, <2>1, TopFacts
  <2>4. k \in Nat /\ k <= Len(Code(Top.func)) /\ k \in 1..Len(Code(Top.func))
    BY <2>3 DEF Edges
  <2>5. Len(Code(Top.func)) <= MaxOps /\ Len(Code(Top.func)) \in Nat
        /\ Code(Top.func)[k] \in Op
    BY <2>1, <2>3, <2>4, CodeFacts
  <2> DEFINE x == [Top EXCEPT !.next = k + 1]
             y == Activation(Code(Top.func)[k].callee)
  <2>6. x \in T /\ y \in T
    BY <2>3, <2>4, <2>5 DEF Activation, Op
  <2>7. walkStack' = Append([walkStack EXCEPT ![Len(walkStack)] = x], y)
    BY <2>2 DEF Top
  <2>8. [walkStack EXCEPT ![Len(walkStack)] = x] \in Seq(T)
    BY <2>1, <2>6, ReplacedFacts
  <2>9. walkStack' \in Seq(T)
    BY <2>6, <2>7, <2>8, PushedFacts
  <2> QED
    BY <1>0, <1>2, <2>9 DEF EnterCallee, AtEdge, TypeOK, WellFormed
<1>3. CASE LeaveFunction
  <2>1. walkStack \in Seq([func : Functions, next : 1..(MaxOps + 1)]) /\ walkStack # <<>>
    BY <1>0, <1>3 DEF LeaveFunction, AtLastEdge, TypeOK
  <2>2. Popped(walkStack) \in Seq([func : Functions, next : 1..(MaxOps + 1)])
    BY <2>1, PoppedFacts
  <2> QED
    BY <1>0, <1>3, <2>2 DEF LeaveFunction, AtLastEdge, TypeOK, WellFormed
<1>4. CASE StartAnalysis
  <2>1. Top.func \in Functions
    BY <1>0, <1>4, TopFacts DEF StartAnalysis, AtLastEdge
  <2>2. <<NoInfo>> \in Seq(Info)
    BY NoInfoType
  <2> QED
    BY <1>0, <1>4, <2>1, <2>2 DEF StartAnalysis, TypeOK, WellFormed
<1>5. CASE VisitOp
  <2> DEFINE f == Top.func
             op == Code(f)[At]
             info == reaching[f][At]
             cur == CurBlockInfo(f, op)
             meets == op.kind # "barrier" /\ IsIntersected(info, cur)
             new == IF op.kind = "barrier" THEN NoInfo
                    ELSE Join(IF meets THEN NoInfo ELSE info, cur)
  <2>1. /\ walkStack # <<>> /\ f \in analysed /\ pc = "analyse"
        /\ At <= Len(Code(f)) /\ WellFormed(mod)
    BY <1>5 DEF VisitOp, ModuleInv, WalkSound, TypeOK
  <2>2. f \in Functions
    BY <1>0, <2>1, TopFacts
  <2>3. reaching[f] \in Seq(Info)
    BY <1>0, <2>2 DEF TypeOK
  <2>4. At \in 1..Len(Code(f)) /\ At \in 1..Len(reaching[f])
    BY <2>1, <2>3 DEF ModuleInv, AnalysisSound, At
  <2>5. op \in Op /\ Len(Code(f)) <= MaxOps /\ Len(Code(f)) \in Nat
    BY <2>1, <2>2, <2>4, CodeFacts
  <2>6. info \in Info
    BY <2>3, <2>4
  <2>7. cur \in Info
    BY <1>0, <2>1, <2>2, <2>5, CurType DEF TypeOK
  <2>8. /\ reaching' = [reaching EXCEPT ![f] = Append(@, new)]
        /\ barriers' = [barriers EXCEPT ![f] = IF meets THEN @ \cup {At} ELSE @]
    BY <1>5 DEF VisitOp, InsertionPoint
  <2> HIDE DEF cur, info, op
  <2>9. new \in Info
    BY <2>6, <2>7, NoInfoType, JoinType
  <2> HIDE DEF new, f, meets
  <2>10. Append(reaching[f], new) \in Seq(Info)
    BY <2>3, <2>9
  <2>11. reaching' \in [Functions -> Seq(Info)]
    BY <1>0, <2>2, <2>8, <2>10 DEF TypeOK
  <2>12. barriers' \in [Functions -> SUBSET (1..MaxOps)]
    <3>1. At \in 1..MaxOps
      BY <2>4, <2>5
    <3> QED
      BY <1>0, <2>2, <2>8, <3>1 DEF TypeOK
  <2> QED
    BY <1>0, <1>5, <2>11, <2>12 DEF InsertionPoint, VisitOp, TypeOK, WellFormed
<1>6. CASE EndAnalysis
  <2>1. /\ walkStack \in Seq([func : Functions, next : 1..(MaxOps + 1)])
        /\ walkStack # <<>> /\ Top.func \in analysed
    BY <1>0, <1>6 DEF EndAnalysis, ModuleInv, WalkSound, TypeOK
  <2>2. Popped(walkStack) \in Seq([func : Functions, next : 1..(MaxOps + 1)])
    BY <2>1, PoppedFacts
  <2>3. Top.func \in Functions
    BY <1>0, <2>1, TopFacts
  <2>4. reaching[Top.func] \in Seq(Info)
    BY <1>0, <2>3 DEF TypeOK
  <2>5. At \in 1..Len(reaching[Top.func])
    BY <2>1, <2>4 DEF ModuleInv, AnalysisSound, At
  <2>6. reaching[Top.func][At] \in Info
    BY <2>4, <2>5
  <2> QED
    BY <1>0, <1>6, <2>2, <2>3, <2>6 DEF EndAnalysis, TypeOK, WellFormed
<1>7. CASE Launch
  <2>1. PICK r \in Functions : frames' = <<Frame(r, 0)>>
    BY <1>7 DEF Launch
  <2>2. Frame(r, 0) \in [func : Functions, next : 1..(MaxOps + 1), base : Nat]
    BY <2>1 DEF Frame
  <2>3. frames' \in Seq([func : Functions, next : 1..(MaxOps + 1), base : Nat])
    BY <2>1, <2>2
  <2> QED
    BY <1>0, <1>7, <2>3 DEF Launch, walkVars, TypeOK, WellFormed
<1>8. ASSUME Access \/ Barrier \/ Call
      PROVE  /\ Current.func \in Functions /\ Current.base \in Nat /\ Depth \in Nat \ {0}
             /\ CurrentOp \in Op
             /\ Stepped \in Seq([func : Functions, next : 1..(MaxOps + 1), base : Nat])
             /\ Arriving \subseteq Entry
  <2> DEFINE T == [func : Functions, next : 1..(MaxOps + 1), base : Nat]
  <2>1. pc = "run" /\ Current.next <= Len(Code(Current.func)) /\ WellFormed(mod)
    BY <1>0, <1>8 DEF Access, Barrier, Call, AtOp, TypeOK
  <2>2. frames # <<>> /\ frames \in Seq(T)
    BY <1>0, <2>1 DEF ModuleInv, ExecutionSound, TypeOK
  <2>3. Current \in T /\ Current.func \in Functions /\ Current.next \in 1..(MaxOps + 1)
        /\ Depth \in Nat \ {0} /\ Current.base \in Nat
    BY <1>0, <2>2, CurrentFacts
  <2>4. Current.next \in 1..Len(Code(Current.func)) /\ Len(Code(Current.func)) <= MaxOps
        /\ Len(Code(Current.func)) \in Nat
    BY <2>1, <2>3, CodeFacts
  <2>5. CurrentOp \in Op
    BY <2>1, <2>3, <2>4, CodeFacts DEF CurrentOp
  <2> DEFINE x == [Current EXCEPT !.next = @ + 1]
  <2>6. x \in T
    BY <2>3, <2>4
  <2>7. Stepped = [frames EXCEPT ![Len(frames)] = x]
    BY DEF Stepped, Current, Depth
  <2>8. Stepped \in Seq(T)
    BY <2>2, <2>6, <2>7, ReplacedFacts
  <2>9. Arriving \subseteq Entry
    BY <1>0 DEF Arriving, TypeOK
  <2> QED
    BY <2>3, <2>5, <2>8, <2>9
<1>9. CASE Access
  <2>1. /\ CurrentOp.reads \subseteq Buffers /\ CurrentOp.writes \subseteq Buffers
        /\ Current.func \in Functions /\ Current.base \in Nat /\ Depth \in Nat
    BY <1>8, <1>9 DEF Op
  <2>2. ASSUME NEW b \in Buffers
        PROVE  Shift(mod.place[Current.func][b], Current.base) \in Interval
    <3>1. mod.place[Current.func][b] \in Interval
      BY <1>0, <2>1, CodeFacts DEF TypeOK
    <3> QED
      BY <2>1, <3>1 DEF Shift, Interval
  <2>3. \A write \in BOOLEAN : \A bufs \in SUBSET Buffers : Entries(bufs, write) \subseteq Entry
    BY <2>1, <2>2 DEF Entries, Entry
  <2>4. Accesses(CurrentOp) \subseteq Entry
    BY <2>1, <2>3 DEF Accesses
  <2>5. frames' \in Seq([func : Functions, next : 1..(MaxOps + 1), base : Nat])
    BY <1>8, <1>9 DEF Access
  <2>6. pending' \subseteq Entry
    BY <1>8, <1>9, <2>4 DEF Access
  <2> QED
    BY <1>0, <1>9, <2>5, <2>6 DEF Access, walkVars, TypeOK, WellFormed
<1>10. CASE Barrier
  <2>1. frames' \in Seq([func : Functions, next : 1..(MaxOps + 1), base : Nat])
    BY <1>8, <1>10 DEF Barrier
  <2> QED
    BY <1>0, <1>10, <2>1 DEF Barrier, walkVars, TypeOK, WellFormed
<1>11. CASE Call
  <2>1. Frame(CurrentOp.callee, CalleeBase) \in
          [func : Functions, next : 1..(MaxOps + 1), base : Nat]
    BY <1>8, <1>11 DEF Frame, CalleeBase, Op
  <2>2. frames' \in Seq([func : Functions, next : 1..(MaxOps + 1), base : Nat])
    BY <1>8, <1>11, <2>1, PushedFacts DEF Call
  <2>3. pending' \subseteq Entry
    BY <1>8, <1>11 DEF Call
  <2> QED
    BY <1>0, <1>11, <2>2, <2>3 DEF Call, walkVars, TypeOK, WellFormed
<1>12. CASE Return
  <2>1. frames # <<>> /\ frames \in Seq([func : Functions, next : 1..(MaxOps + 1), base : Nat])
    BY <1>0, <1>12 DEF Return, AtReturn, ModuleInv, ExecutionSound, TypeOK
  <2>2. frames' \in Seq([func : Functions, next : 1..(MaxOps + 1), base : Nat])
    BY <1>12, <2>1, PoppedFacts DEF Return
  <2>3. Depth \in Nat \ {0}
    BY <1>0, <2>1, CurrentFacts
  <2>4. \A e \in Entry : [e EXCEPT !.depth = IF @ = Depth THEN @ - 1 ELSE @] \in Entry
    BY <2>3 DEF Entry
  <2>5. pending' \subseteq Entry
    BY <1>0, <1>12, <2>4 DEF Return, TypeOK
  <2>6. pc' \in {"run", "finished"}
    BY <1>12 DEF Return, AtReturn
  <2> QED
    BY <1>0, <1>12, <2>2, <2>5, <2>6 DEF Return, walkVars, TypeOK, WellFormed
<1>13. CASE UNCHANGED vars
  BY <1>0, <1>13 DEF TypeOK, vars, WellFormed
<1> QED
  BY <1>1, <1>2, <1>3, <1>4, <1>5, <1>6, <1>7, <1>9, <1>10, <1>11, <1>12, <1>13
  DEF Next, Walk, Execute, Finished

-----------------------------------------------------------------------------
(* The walk: functions stay final, callees come first. *)

LEMMA FinalStep ==
    ASSUME ModuleInv, [Next]_vars, NEW g, Final(g)
    PROVE  Final(g)'
<1>1. CASE EnterRoot
  BY <1>1 DEF EnterRoot, Final
<1>2. CASE EnterCallee
  BY <1>2 DEF EnterCallee, AtEdge, Final
<1>3. CASE LeaveFunction
  BY <1>3 DEF LeaveFunction, AtLastEdge, Final
<1>4. CASE StartAnalysis
  BY <1>4 DEF StartAnalysis, AtLastEdge, Final, Top
<1>5. CASE VisitOp
  BY <1>5 DEF VisitOp, Final, Top
<1>6. CASE EndAnalysis
  BY <1>6 DEF EndAnalysis, Final
<1>7. CASE Execute \/ Finished
  BY <1>7 DEF Execute, Launch, Access, Barrier, Call, Return, AtOp, AtReturn,
              Finished, vars, walkVars, Final
<1>8. CASE UNCHANGED vars
  BY <1>8 DEF vars, Final, Top
<1> QED
  BY <1>1, <1>2, <1>3, <1>4, <1>5, <1>6, <1>7, <1>8 DEF Next, Walk

\* The module is never changed.
LEMMA CodeStep ==
    ASSUME [Next]_vars
    PROVE  /\ mod' = mod
           /\ \A f : Code(f)' = Code(f)
           /\ \A f, k : IsCall(f, k)' = IsCall(f, k)
           /\ \A f : Callees(f)' = Callees(f)
           /\ \A f : IsRoot(f)' = IsRoot(f)
<1>1. mod' = mod
  BY DEF Next, Walk, Execute, Finished, EnterRoot, EnterCallee, LeaveFunction,
         StartAnalysis, VisitOp, EndAnalysis, Launch, Access, Barrier, Call, Return,
         vars, walkVars
<1> QED
  BY <1>1 DEF Code, IsCall, Callees, IsRoot

\* All calls of the function that is at its last edge lead to final functions.
LEMMA CalleesOfTop ==
    ASSUME ModuleInv, AtLastEdge
    PROVE  \A g \in Callees(Top.func) : Final(g)
<1>1. /\ Len(walkStack) \in Nat \ {0} /\ Top.next \in Nat /\ walkStack # <<>>
      /\ Top.func \in Functions
  BY TopFacts DEF ModuleInv, AtLastEdge
<1>2. ASSUME NEW k \in 1..Len(Code(Top.func)), IsCall(Top.func, k)
      PROVE  Final(Code(Top.func)[k].callee)
  <2>1. k \notin Edges(Top) /\ Len(Code(Top.func)) \in Nat
    BY <1>1, CodeFacts DEF AtLastEdge, ModuleInv, TypeOK
  <2>2. k \in 1..(Top.next - 1)
    BY <1>1, <1>2, <2>1 DEF Edges
  <2>3. Len(walkStack) \in 1..Len(walkStack) /\ ~(Len(walkStack) < Len(walkStack))
    BY <1>1
  <2> QED
    BY <1>2, <2>2, <2>3 DEF ModuleInv, WalkSound, Top
<1> QED
  BY <1>2 DEF Callees

LEMMA CalleesFirstStep ==
    ASSUME ModuleInv, [Next]_vars
    PROVE  CalleesFirst'
<1>1. ASSUME NEW f \in analysed', NEW g \in Callees(f)
      PROVE  Final(g)'
  <2>1. CASE f \in analysed
    <3>1. Final(g)
      BY <1>1, <2>1 DEF ModuleInv, CalleesFirst
    <3> QED
      BY <3>1, FinalStep
  <2>2. CASE f \notin analysed
    <3>1. StartAnalysis /\ f = Top.func
      BY <1>1, <2>2
      DEF Next, Walk, Execute, Finished, EnterRoot, EnterCallee, LeaveFunction,
          StartAnalysis, VisitOp, EndAnalysis, Launch, Access, Barrier, Call, Return,
          vars, walkVars
    <3>2. Final(g)
      BY <1>1, <3>1, CalleesOfTop DEF StartAnalysis
    <3> QED
      BY <3>2, FinalStep
  <2> QED
    BY <2>1, <2>2
<1>2. \A f : Callees(f)' = Callees(f)
  BY CodeStep
<1> QED
  BY <1>1, <1>2 DEF CalleesFirst

StackType == Seq([func : Functions, next : 1..(MaxOps + 1)])

\* What WalkSound says of one activation.
Behind(j) ==
    \A k \in 1..(walkStack[j].next - 1) :
        IsCall(walkStack[j].func, k) =>
          \/ Final(Code(walkStack[j].func)[k].callee)
          \/ /\ k = walkStack[j].next - 1 /\ j < Len(walkStack)
             /\ walkStack[j + 1].func = Code(walkStack[j].func)[k].callee

LEMMA WalkSoundIsBehind ==
    WalkSound <=> /\ pc = "analyse" => walkStack # <<>> /\ Edges(Top) = {} /\ Top.func \in analysed
                  /\ pc \in {"run", "finished"} => walkStack = <<>>
                  /\ \A j \in 1..Len(walkStack) : Behind(j)
BY DEF WalkSound, Behind

\* The stack after a step down an edge.
LEMMA EnterCalleeFacts ==
    ASSUME TypeOK, EnterCallee
    PROVE  \E k \in Edges(Top) :
             /\ \A j \in Edges(Top) : k <= j
             /\ walkStack' \in StackType
             /\ Len(walkStack') = Len(walkStack) + 1
             /\ \A j \in 1..(Len(walkStack) - 1) : walkStack'[j] = walkStack[j]
             /\ walkStack'[Len(walkStack)] = [Top EXCEPT !.next = k + 1]
             /\ walkStack'[Len(walkStack) + 1] = Activation(Code(Top.func)[k].callee)
<1> DEFINE T == [func : Functions, next : 1..(MaxOps + 1)]
           n == Len(walkStack)
<1>1. walkStack \in Seq(T) /\ walkStack # <<>> /\ WellFormed(mod) /\ n \in Nat \ {0}
  BY TopFacts DEF EnterCallee, AtEdge, TypeOK
<1>2. PICK k \in Edges(Top) :
        /\ \A j \in Edges(Top) : k <= j
        /\ walkStack' = Append([walkStack EXCEPT ![Len(walkStack)].next = k + 1],
                               Activation(Code(Top.func)[k].callee))
  BY DEF EnterCallee
<1>3. Top \in T /\ Top.func \in Functions /\ Top.next \in 1..(MaxOps + 1)
  BY <1>1, TopFacts
<1>4. k \in Nat /\ k <= Len(Code(Top.func)) /\ k \in 1..Len(Code(Top.func))
  BY <1>3 DEF Edges
<1>5. Len(Code(Top.func)) <= MaxOps /\ Len(Code(Top.func)) \in Nat
      /\ Code(Top.func)[k] \in Op
  BY <1>1, <1>3, <1>4, CodeFacts
<1> DEFINE x == [Top EXCEPT !.next = k + 1]
           y == Activation(Code(Top.func)[k].callee)
           s == [walkStack EXCEPT ![n] = x]
<1>6. x \in T /\ y \in T
  BY <1>3, <1>4, <1>5, BoundAssumption DEF Activation, Op
<1>7. walkStack' = Append(s, y)
  BY <1>2 DEF Top
<1> HIDE DEF x, y
<1>8. s \in Seq(T) /\ Len(s) = n /\ s[n] = x /\ \A j \in 1..(n - 1) : s[j] = walkStack[j]
  BY <1>1, <1>6, ReplacedFacts
<1> HIDE DEF s
<1>9. /\ Append(s, y) \in Seq(T) /\ Len(Append(s, y)) = Len(s) + 1
      /\ Append(s, y)[Len(s) + 1] = y
      /\ \A j \in 1..Len(s) : Append(s, y)[j] = s[j]
  BY <1>6, <1>8, PushedFacts
<1>10. /\ \A j \in 1..(n - 1) : walkStack'[j] = walkStack[j]
       /\ walkStack'[n] = x
  BY <1>1, <1>7, <1>8, <1>9
<1> QED
  BY <1>2, <1>7, <1>8, <1>9, <1>10 DEF x, y, StackType

\* The stack after a function has been left.
LEMMA LeaveFacts ==
    ASSUME ModuleInv, LeaveFunction \/ EndAnalysis
    PROVE  /\ walkStack # <<>> /\ Len(walkStack) \in Nat \ {0}
           /\ Len(walkStack') = Len(walkStack) - 1
           /\ \A j \in 1..Len(walkStack') : walkStack'[j] = walkStack[j]
           /\ \A g : g = Top.func => Final(g)'
           /\ pc' = "walk"
<1>1. walkStack # <<>> /\ walkStack \in StackType /\ walkStack' = Popped(walkStack)
      /\ pc' = "walk"
  BY DEF ModuleInv, WalkSound, LeaveFunction, AtLastEdge, EndAnalysis, TypeOK, StackType
<1>2. /\ Len(walkStack) \in Nat \ {0}
      /\ Len(Popped(walkStack)) = Len(walkStack) - 1
      /\ \A j \in 1..(Len(walkStack) - 1) : Popped(walkStack)[j] = walkStack[j]
  BY <1>1, PoppedFacts DEF StackType
<1>3. Top.func \in analysed'
  BY DEF ModuleInv, WalkSound, LeaveFunction, EndAnalysis
<1>4. \A g : g = Top.func => Final(g)'
  BY <1>1, <1>3 DEF Final
<1> QED
  BY <1>1, <1>2, <1>4

LEMMA WalkSoundStep ==
    ASSUME ModuleInv, [Next]_vars
    PROVE  WalkSound'
<1>0. /\ TypeOK /\ WalkSound
      /\ pc = "analyse" => walkStack # <<>> /\ Edges(Top) = {} /\ Top.func \in analysed
      /\ pc \in {"run", "finished"} => walkStack = <<>>
      /\ \A j \in 1..Len(walkStack) : Behind(j)
  BY WalkSoundIsBehind DEF ModuleInv
<1>c. /\ \A f : Code(f)' = Code(f)
      /\ \A f, k : IsCall(f, k)' = IsCall(f, k)
  BY CodeStep
<1>s. SUFFICES
        /\ pc' = "analyse" => walkStack' # <<>> /\ Edges(Top)' = {} /\ Top.func' \in analysed'
        /\ pc' \in {"run", "finished"} => walkStack' = <<>>
        /\ \A j \in 1..Len(walkStack') : Behind(j)'
  BY DEF WalkSound, Behind
\* Steps that leave the stack alone.
<1>1. ASSUME walkStack' = walkStack
      PROVE  \A j \in 1..Len(walkStack') : Behind(j)'
  <2>1. ASSUME NEW j \in 1..Len(walkStack) PROVE Behind(j)'
    <3>1. Behind(j)
      BY <1>0
    <3> QED
      BY <1>1, <1>c, <3>1, FinalStep DEF Behind
  <2> QED
    BY <1>1, <2>1
<1>2. CASE EnterRoot
  <2>1. PICK r \in nextRoot..F : walkStack' = <<Activation(r)>>
    BY <1>2 DEF EnterRoot
  <2>2. Len(walkStack') = 1 /\ walkStack'[1].next = 1 /\ pc' = "walk"
    BY <1>2, <2>1 DEF Activation, EnterRoot
  <2>3. \A j \in 1..Len(walkStack') : Behind(j)'
    BY <2>2 DEF Behind
  <2> QED
    BY <2>2, <2>3
<1>3. CASE EnterCallee
  <2>1. PICK k \in Edges(Top) :
             /\ \A j \in Edges(Top) : k <= j
             /\ Len(walkStack') = Len(walkStack) + 1
             /\ \A j \in 1..(Len(walkStack) - 1) : walkStack'[j] = walkStack[j]
             /\ walkStack'[Len(walkStack)] = [Top EXCEPT !.next = k + 1]
             /\ walkStack'[Len(walkStack) + 1] = Activation(Code(Top.func)[k].callee)
    BY <1>0, <1>3, EnterCalleeFacts
  <2>2. /\ pc = "walk" /\ pc' = "walk" /\ Len(walkStack) \in Nat \ {0}
        /\ Top.next \in Nat /\ k \in Nat /\ Top.next <= k
        /\ k <= Len(Code(Top.func)) /\ Len(Code(Top.func)) \in Nat
        /\ Top = walkStack[Len(walkStack)]
        /\ Top \in [func : Functions, next : 1..(MaxOps + 1)]
    BY <1>0, <1>3, TopFacts, CodeFacts DEF EnterCallee, AtEdge, TypeOK, Edges, Top
  <2>3. ASSUME NEW j \in 1..Len(walkStack'), j < Len(walkStack) PROVE Behind(j)'
    <3>1. /\ Behind(j) /\ walkStack'[j] = walkStack[j]
          /\ j + 1 <= Len(walkStack) /\ j < Len(walkStack')
          /\ walkStack'[j + 1].func = walkStack[j + 1].func
      <4>1. j \in 1..(Len(walkStack) - 1)
        BY <2>2, <2>3
      <4>2. CASE j + 1 < Len(walkStack)
        BY <1>0, <2>1, <2>2, <4>1, <4>2
      <4>3. CASE j + 1 = Len(walkStack)
        BY <1>0, <2>1, <2>2, <4>1, <4>3
      <4> QED
        BY <2>2, <4>1, <4>2, <4>3
    <3> QED
      BY <1>c, <3>1, FinalStep DEF Behind
  <2>4. ASSUME NEW j \in 1..Len(walkStack'), j = Len(walkStack) PROVE Behind(j)'
    <3>1. /\ walkStack'[j].func = Top.func /\ walkStack'[j].next = k + 1
          /\ walkStack'[j + 1].func = Code(Top.func)[k].callee
          /\ j < Len(walkStack')
      BY <2>1, <2>2, <2>4 DEF Activation
    <3>2. ASSUME NEW i \in 1..k, IsCall(Top.func, i), i # k
          PROVE  Final(Code(Top.func)[i].callee)
      <4>1. i \notin Edges(Top)
        BY <2>1, <2>2, <3>2
      <4>2. i \in 1..(Top.next - 1)
        BY <2>2, <3>2, <4>1 DEF Edges
      <4>3. Behind(Len(walkStack))
        BY <1>0, <2>2
      <4> QED
        BY <2>2, <3>2, <4>2, <4>3 DEF Behind
    <3> QED
      BY <1>c, <2>2, <3>1, <3>2, FinalStep DEF Behind
  <2>5. ASSUME NEW j \in 1..Len(walkStack'), j = Len(walkStack) + 1 PROVE Behind(j)'
    <3>1. walkStack'[j].next = 1
      BY <2>1, <2>5 DEF Activation
    <3> QED
      BY <3>1 DEF Behind
  <2>6. \A j \in 1..Len(walkStack') : Behind(j)'
    BY <2>1, <2>2, <2>3, <2>4, <2>5
  <2> QED
    BY <2>2, <2>6
<1>4. CASE LeaveFunction \/ EndAnalysis
  <2>1. /\ Len(walkStack) \in Nat \ {0}
        /\ Len(walkStack') = Len(walkStack) - 1
        /\ \A j \in 1..Len(walkStack') : walkStack'[j] = walkStack[j]
        /\ \A g : g = Top.func => Final(g)'
        /\ pc' = "walk"
    BY <1>4, LeaveFacts
  <2>2. ASSUME NEW j \in 1..Len(walkStack'), NEW k \in 1..(walkStack'[j].next - 1),
               IsCall(walkStack'[j].func, k)
        PROVE  \/ Final(Code(walkStack[j].func)[k].callee)
               \/ k = walkStack[j].next - 1 /\ j < Len(walkStack)
                  /\ walkStack[j + 1].func = Code(walkStack[j].func)[k].callee
    <3>1. Behind(j) /\ walkStack'[j] = walkStack[j]
      BY <1>0, <2>1
    <3> QED
      BY <2>2, <3>1 DEF Behind
  <2>3. ASSUME NEW j \in 1..Len(walkStack'), NEW k \in 1..(walkStack'[j].next - 1),
               IsCall(walkStack'[j].func, k)
        PROVE  \/ \E g : g = Code(walkStack[j].func)[k].callee /\ Final(g)'
               \/ k = walkStack'[j].next - 1 /\ j < Len(walkStack')
                  /\ walkStack'[j + 1].func = Code(walkStack[j].func)[k].callee
    <3>1. CASE Final(Code(walkStack[j].func)[k].callee)
      BY <3>1, FinalStep
    <3>2. CASE /\ k = walkStack[j].next - 1 /\ j < Len(walkStack)
               /\ walkStack[j + 1].func = Code(walkStack[j].func)[k].callee
      <4>1. CASE j + 1 = Len(walkStack)
        BY <2>1, <3>2, <4>1 DEF Top
      <4>2. CASE j + 1 # Len(walkStack)
        <5>1. j + 1 \in 1..Len(walkStack')
          BY <2>1, <3>2, <4>2
        <5> QED
          BY <2>1, <3>2, <5>1
      <4> QED
        BY <4>1, <4>2
    <3> QED
      BY <2>2, <2>3, <3>1, <3>2
  <2>4. \A j \in 1..Len(walkStack') : walkStack'[j] = walkStack[j]
    BY <2>1
  <2>5. \A j \in 1..Len(walkStack') : Behind(j)'
    BY <1>c, <2>3, <2>4 DEF Behind
  <2> QED
    BY <2>1, <2>5
<1>5. CASE StartAnalysis
  <2>1. walkStack' = walkStack /\ pc' = "analyse" /\ walkStack # <<>> /\ Edges(Top) = {}
        /\ Top.func \in analysed'
    BY <1>5 DEF StartAnalysis, AtLastEdge
  <2>2. Top' = Top /\ Edges(Top)' = Edges(Top)
    BY <1>c, <2>1 DEF Top, Edges
  <2> QED
    BY <1>1, <2>1, <2>2
<1>6. CASE VisitOp
  <2>1. walkStack' = walkStack /\ pc' = pc /\ analysed' = analysed
    BY <1>6 DEF VisitOp
  <2>2. Top' = Top /\ Edges(Top)' = Edges(Top)
    BY <1>c, <2>1 DEF Top, Edges
  <2> QED
    BY <1>0, <1>1, <2>1, <2>2
<1>7. CASE Execute
  <2>1. walkStack' = walkStack /\ pc' \in {"run", "finished"} /\ walkStack = <<>>
    BY <1>0, <1>7 DEF Execute, Launch, Access, Barrier, Call, Return, AtOp, AtReturn, walkVars
  <2> QED
    BY <1>1, <2>1
<1>8. CASE UNCHANGED vars
  <2>1. walkStack' = walkStack /\ pc' = pc /\ analysed' = analysed
    BY <1>8 DEF vars
  <2>2. Top' = Top /\ Edges(Top)' = Edges(Top)
    BY <1>c, <2>1 DEF Top, Edges
  <2> QED
    BY <1>0, <1>1, <2>1, <2>2
<1> QED
  BY <1>2, <1>3, <1>4, <1>5, <1>6, <1>7, <1>8 DEF Next, Walk, Finished

LEMMA RootsWalkedStep ==
    ASSUME ModuleInv, [Next]_vars
    PROVE  RootsWalked'
<1>0. TypeOK /\ RootsWalked /\ nextRoot \in 1..(F + 1) /\ F \in Nat
  BY BoundAssumption DEF ModuleInv, TypeOK
<1>c. \A f : IsRoot(f)' = IsRoot(f)
  BY CodeStep
<1>1. CASE EnterRoot
  <2>1. PICK r \in nextRoot..F :
          /\ \A q \in nextRoot..(r - 1) : ~IsRoot(q)
          /\ nextRoot' = r + 1
          /\ walkStack' = <<Activation(r)>>
    BY <1>1 DEF EnterRoot
  <2>2. walkStack = <<>> /\ walkStack' # <<>> /\ walkStack'[1].func = r
    BY <1>1, <2>1 DEF EnterRoot, Activation
  <2>3. ASSUME NEW q \in 1..(nextRoot' - 1), IsRoot(q)
        PROVE  Final(q)' \/ (walkStack' # <<>> /\ walkStack'[1].func = q)
    <3>1. CASE q < nextRoot
      <4>1. q \in 1..(nextRoot - 1)
        BY <1>0, <2>1, <2>3, <3>1
      <4>2. Final(q)
        BY <1>0, <2>2, <2>3, <4>1 DEF RootsWalked
      <4> QED
        BY <4>2, FinalStep
    <3>2. CASE ~(q < nextRoot)
      <4>1. q = r
        BY <1>0, <2>1, <2>3, <3>2
      <4> QED
        BY <2>2, <4>1
    <3> QED
      BY <3>1, <3>2
  <2> QED
    BY <1>c, <2>3 DEF RootsWalked
\* The other steps keep the bottom of the stack or make its function final.
<1>2. ASSUME nextRoot' = nextRoot,
             walkStack # <<>> =>
               \/ walkStack' # <<>> /\ walkStack'[1].func = walkStack[1].func
               \/ \A g : g = walkStack[1].func => Final(g)'
      PROVE  RootsWalked'
  <2>1. ASSUME NEW q \in 1..(nextRoot - 1), IsRoot(q)
        PROVE  Final(q)' \/ (walkStack' # <<>> /\ walkStack'[1].func = q)
    <3>1. CASE Final(q)
      BY <3>1, FinalStep
    <3>2. CASE walkStack # <<>> /\ walkStack[1].func = q
      BY <1>2, <3>2
    <3> QED
      BY <1>0, <2>1, <3>1, <3>2 DEF RootsWalked
  <2> QED
    BY <1>2, <1>c, <2>1 DEF RootsWalked
<1>3. CASE EnterCallee
  <2>1. PICK k \in Edges(Top) :
             /\ walkStack' \in StackType
             /\ Len(walkStack') = Len(walkStack) + 1
             /\ \A j \in 1..(Len(walkStack) - 1) : walkStack'[j] = walkStack[j]
             /\ walkStack'[Len(walkStack)] = [Top EXCEPT !.next = k + 1]
    BY <1>0, <1>3, EnterCalleeFacts
  <2>2. Len(walkStack) \in Nat \ {0} /\ nextRoot' = nextRoot
        /\ Top \in [func : Functions, next : 1..(MaxOps + 1)]
    BY <1>0, <1>3, TopFacts DEF EnterCallee, AtEdge
  <2> DEFINE len == Len(walkStack)
  <2>a. len \in Nat /\ len # 0
    BY <2>2
  <2> HIDE DEF len
  <2>3. walkStack' # <<>>
    BY <2>1, <2>2
  <2>4. walkStack'[1].func = walkStack[1].func
    <3>1. CASE Len(walkStack) = 1
      BY <2>1, <2>2, <3>1 DEF Top
    <3>2. CASE Len(walkStack) # 1
      <4>0. len # 1
        BY <3>2 DEF len
      <4>1. 1 \in 1..(len - 1)
        BY <2>a, <4>0
      <4>2. 1 \in 1..(Len(walkStack) - 1)
        BY <4>1 DEF len
      <4> QED
        BY <2>1, <4>2
    <3> QED
      BY <3>1, <3>2
  <2> QED
    BY <1>2, <2>2, <2>3, <2>4
<1>4. CASE LeaveFunction \/ EndAnalysis
  <2>1. /\ Len(walkStack) \in Nat \ {0}
        /\ Len(walkStack') = Len(walkStack) - 1
        /\ \A j \in 1..Len(walkStack') : walkStack'[j] = walkStack[j]
        /\ \A g : g = Top.func => Final(g)'
    BY <1>4, LeaveFacts
  <2>2. nextRoot' = nextRoot
    BY <1>4 DEF LeaveFunction, EndAnalysis
  <2>3. CASE Len(walkStack) = 1
    BY <1>2, <2>1, <2>2, <2>3 DEF Top
  <2>4. CASE Len(walkStack) # 1
    <3>1. walkStack' # <<>> /\ walkStack'[1] = walkStack[1]
      BY <2>1, <2>4
    <3> QED
      BY <1>2, <2>2, <3>1
  <2> QED
    BY <2>3, <2>4
<1>5. CASE UNCHANGED <<walkStack, nextRoot>>
  BY <1>2, <1>5
<1>6. StartAnalysis \/ VisitOp \/ Execute \/ Finished \/ UNCHANGED vars
        => UNCHANGED <<walkStack, nextRoot>>
  BY DEF StartAnalysis, VisitOp, Execute, Launch, Access, Barrier, Call, Return,
         Finished, walkVars, vars
<1> QED
  BY <1>1, <1>3, <1>4, <1>5, <1>6 DEF Next, Walk

-----------------------------------------------------------------------------
(* The analyses. *)

\* A step that leaves the summaries of the callees alone leaves the accesses of
\* an operation alone.
LEMMA CurStep ==
    ASSUME mod' = mod, NEW f, NEW op,
           op.kind = "call" => summary'[op.callee] = summary[op.callee]
    PROVE  CurBlockInfo(f, op)' = CurBlockInfo(f, op)
BY DEF CurBlockInfo, Places

\* One operation after a step that changes neither its callee's summary nor
\* what was found around it.
LEMMA VisitedStep ==
    ASSUME ModuleInv, [Next]_vars,
           NEW f \in analysed, NEW k \in 1..Len(Code(f)), VisitedRight(f, k),
           \A g : Final(g) => summary'[g] = summary[g],
           reaching'[f][k] = reaching[f][k], reaching'[f][k + 1] = reaching[f][k + 1],
           k \in barriers'[f] <=> k \in barriers[f]
    PROVE  VisitedRight(f, k)'
<1> DEFINE op == Code(f)[k]
<1>1. mod' = mod /\ Code(f)' = Code(f)
  BY CodeStep
<1>2. op.kind = "call" => summary'[op.callee] = summary[op.callee]
  <2>1. op.kind = "call" => op.callee \in Callees(f)
    BY DEF Callees, IsCall
  <2> QED
    BY <2>1 DEF ModuleInv, CalleesFirst
<1>3. \A o : o = op => CurBlockInfo(f, o)' = CurBlockInfo(f, op)
  BY <1>1, <1>2, CurStep
<1>4. CurBlockInfo(f, Code(f)[k])' = CurBlockInfo(f, Code(f)[k])
  BY <1>1, <1>3
<1>5. ReachedAt(f, k)' = ReachedAt(f, k)
  BY DEF ReachedAt
<1> QED
  BY <1>1, <1>4, <1>5 DEF VisitedRight

\* What AnalysisSound says of one function.
Analysed(f) ==
    /\ Len(reaching[f]) \in 1..(Len(Code(f)) + 1)
    /\ \A k \in 1..(Len(reaching[f]) - 1) : VisitedRight(f, k)
    /\ Final(f) => /\ Len(reaching[f]) = Len(Code(f)) + 1
                   /\ summary[f] = reaching[f][Len(reaching[f])]

\* A step that does not touch the analysis of f.
LEMMA AnalysedKept ==
    ASSUME ModuleInv, [Next]_vars, NEW f \in analysed,
           reaching'[f] = reaching[f], barriers'[f] = barriers[f],
           \A g : Final(g) => summary'[g] = summary[g],
           Final(f)' => Final(f)
    PROVE  Analysed(f)'
<1>1. Analysed(f) /\ Code(f)' = Code(f)
  BY CodeStep DEF ModuleInv, AnalysisSound, Analysed
<1>2. f \in Functions
  BY DEF ModuleInv, TypeOK
<1>3. Len(Code(f)) \in Nat
  BY <1>2, CodeFacts DEF ModuleInv, TypeOK
<1>4. ASSUME NEW k \in 1..(Len(reaching[f]) - 1)
      PROVE  VisitedRight(f, k)'
  <2>1. VisitedRight(f, k) /\ k \in 1..Len(Code(f))
    BY <1>1, <1>3 DEF Analysed
  <2> QED
    BY <2>1, VisitedStep
<1>5. Final(f)' => summary'[f] = summary[f]
  OBVIOUS
<1>6. Len(reaching[f])' = Len(reaching[f])
  OBVIOUS
<1> QED
  BY <1>1, <1>4, <1>5, <1>6 DEF Analysed

LEMMA AnalysisSoundStep ==
    ASSUME ModuleInv, [Next]_vars
    PROVE  AnalysisSound'
<1> SUFFICES ASSUME NEW f \in analysed' PROVE Analysed(f)'
  BY DEF AnalysisSound, Analysed
<1>0. TypeOK /\ WellFormed(mod)
  BY DEF ModuleInv, TypeOK
<1>c. Code(f)' = Code(f)
  BY CodeStep
<1>1. CASE StartAnalysis
  <2>1. /\ pc = "walk" /\ pc' = "analyse" /\ walkStack # <<>> /\ summary' = summary
        /\ barriers' = barriers /\ Top.func \notin analysed /\ Top' = Top
        /\ analysed' = analysed \cup {Top.func}
        /\ reaching' = [reaching EXCEPT ![Top.func] = <<NoInfo>>]
    BY <1>1 DEF StartAnalysis, AtLastEdge, Top
  <2>2. CASE f \in analysed
    <3>1. f # Top.func /\ reaching'[f] = reaching[f] /\ Final(f)
      BY <1>0, <2>1, <2>2 DEF TypeOK, Final
    <3> QED
      BY <2>1, <2>2, <3>1, AnalysedKept
  <2>3. CASE f \notin analysed
    <3>1. f = Top.func /\ f \in Functions
      BY <1>0, <2>1, <2>3, TopFacts
    <3>2. reaching'[f] = <<NoInfo>> /\ Len(Code(f)) \in Nat
      BY <1>0, <2>1, <3>1, CodeFacts DEF TypeOK
    <3>3. ~Final(f)'
      BY <2>1, <3>1 DEF Final
    <3>4. Len(reaching'[f]) = 1
      BY <3>2
    <3> QED
      BY <1>c, <3>2, <3>3, <3>4 DEF Analysed
  <2> QED
    BY <2>2, <2>3
<1>2. CASE VisitOp
  <2>1. /\ pc = "analyse" /\ pc' = pc /\ walkStack # <<>> /\ walkStack' = walkStack
        /\ summary' = summary /\ analysed' = analysed
    BY <1>2 DEF VisitOp, ModuleInv, WalkSound
  <2>2. Final(f)' => Final(f)
    BY <2>1 DEF Final, Top
  <2>3. CASE f # Top.func
    <3>1. reaching'[f] = reaching[f] /\ barriers'[f] = barriers[f]
      BY <1>0, <1>2, <2>1, <2>3 DEF VisitOp, TypeOK
    <3> QED
      BY <2>1, <2>2, <3>1, AnalysedKept
  <2>4. CASE f = Top.func
    <3>v. PICK n, op, info, cur :
            n = At /\ op = Code(f)[n] /\ info = reaching[f][n] /\ cur = CurBlockInfo(f, op)
      OBVIOUS
    <3> DEFINE meets == op.kind # "barrier" /\ IsIntersected(info, cur)
               new == IF op.kind = "barrier" THEN NoInfo
                      ELSE Join(IF meets THEN NoInfo ELSE info, cur)
    <3>1. /\ f \in Functions /\ f \in analysed /\ reaching[f] \in Seq(Info)
          /\ n = Len(reaching[f]) /\ n <= Len(Code(f))
          /\ reaching' = [reaching EXCEPT ![f] = Append(@, new)]
          /\ barriers' = [barriers EXCEPT ![f] = IF meets THEN @ \cup {n} ELSE @]
      <4>1. f \in Functions /\ f \in analysed
        BY <1>0, <2>1 DEF TypeOK
      <4>2. reaching[f] \in Seq(Info) /\ n = Len(reaching[f])
        BY <1>0, <2>4, <3>v, <4>1 DEF TypeOK, At
      <4> QED
        BY <1>2, <2>4, <3>v, <4>1, <4>2 DEF VisitOp, InsertionPoint
    <3>2. Analysed(f)
      BY <3>1 DEF ModuleInv, AnalysisSound, Analysed
    <3>3. n \in Nat \ {0} /\ n \in 1..Len(Code(f)) /\ Len(Code(f)) \in Nat
      BY <1>0, <3>1, <3>2, CodeFacts DEF Analysed
    <3>4. op \in Op /\ info \in Info
      BY <1>0, <3>v, <3>1, <3>3, CodeFacts
    <3>5. cur \in Info
      BY <1>0, <3>v, <3>1, <3>4, CurType DEF TypeOK
    <3>6. new \in Info
      BY <3>4, <3>5, NoInfoType, JoinType
    <3> HIDE DEF meets, new
    <3>7. /\ Len(reaching'[f]) = n + 1
          /\ reaching'[f][n + 1] = new
          /\ \A j \in 1..n : reaching'[f][j] = reaching[f][j]
      <4>1. reaching'[f] = Append(reaching[f], new)
        BY <1>0, <3>1 DEF TypeOK
      <4>2. /\ Len(Append(reaching[f], new)) = Len(reaching[f]) + 1
            /\ Append(reaching[f], new)[Len(reaching[f]) + 1] = new
            /\ \A j \in 1..Len(reaching[f]) : Append(reaching[f], new)[j] = reaching[f][j]
        BY <3>1, <3>6, PushedFacts
      <4> QED
        BY <3>1, <4>1, <4>2
    <3>8. barriers'[f] = IF meets THEN barriers[f] \cup {n} ELSE barriers[f]
      BY <1>0, <3>1 DEF TypeOK
    <3>9. ASSUME NEW k \in 1..n, k < n PROVE VisitedRight(f, k)'
      <4>1. VisitedRight(f, k) /\ k \in 1..Len(Code(f))
        BY <3>1, <3>2, <3>3, <3>9 DEF Analysed
      <4>2. reaching'[f][k] = reaching[f][k] /\ reaching'[f][k + 1] = reaching[f][k + 1]
        BY <3>3, <3>7, <3>9
      <4>3. k \in barriers'[f] <=> k \in barriers[f]
        BY <3>3, <3>8, <3>9
      <4> QED
        BY <2>1, <3>1, <4>1, <4>2, <4>3, VisitedStep
    <3>10. VisitedRight(f, n)'
      <4>1. ReachedAt(f, n)' \in {NoInfo, info} /\ (meets => ReachedAt(f, n)' = NoInfo)
        <5>1. n \in 1..n
          BY <3>3
        <5>2. reaching'[f][n] = info
          BY <3>v, <3>7, <5>1
        <5>3. meets => n \in barriers'[f]
          BY <3>8
        <5> QED
          BY <5>2, <5>3 DEF ReachedAt
      <4>2. CurBlockInfo(f, op)' = cur
        <5>1. mod' = mod
          BY CodeStep
        <5> QED
          BY <2>1, <3>v, <5>1 DEF CurBlockInfo, Places
      <4>3. CurBlockInfo(f, Code(f)[n])' = cur
        BY <1>c, <3>v, <4>2
      <4>4. CASE Code(f)[n].kind = "barrier"
        BY <1>c, <4>4 DEF VisitedRight
      <4>5. CASE Code(f)[n].kind # "barrier"
        <5>1. new = Join(IF meets THEN NoInfo ELSE info, cur)
          BY <3>v, <4>5 DEF new
        <5>2. ~meets => ~IsIntersected(info, cur)
          BY <3>v, <4>5 DEF meets
        <5>3. ~IsIntersected(ReachedAt(f, n)', cur)
          BY <4>1, <5>2, NoInfoNeverIntersects
        <5>4. Within(Join(ReachedAt(f, n)', cur), new)
          <6>1. Within(NoInfo, info)
            BY NoInfoWithin
          <6> QED
            BY <4>1, <5>1, <6>1, JoinMonotone, WithinReflexive
        <5> QED
          BY <1>c, <3>7, <4>3, <4>5, <5>3, <5>4 DEF VisitedRight
      <4> QED
        BY <4>4, <4>5
    <3>11. ~Final(f)'
      BY <2>1, <2>4 DEF Final, Top
    <3>12. \A k \in 1..n : VisitedRight(f, k)'
      BY <3>3, <3>9, <3>10
    <3> QED
      BY <1>c, <3>3, <3>7, <3>11, <3>12 DEF Analysed
  <2> QED
    BY <2>3, <2>4
<1>3. CASE EndAnalysis
  <2>1. /\ pc = "analyse" /\ pc' = "walk" /\ walkStack # <<>> /\ Top.func \in analysed
        /\ analysed' = analysed /\ reaching' = reaching /\ barriers' = barriers
        /\ At = Len(Code(Top.func)) + 1
        /\ summary' = [summary EXCEPT ![Top.func] = reaching[Top.func][At]]
    BY <1>3 DEF EndAnalysis, ModuleInv, WalkSound
  <2>2. \A g : Final(g) => summary'[g] = summary[g]
    BY <1>0, <2>1 DEF Final, TypeOK
  <2>3. CASE f # Top.func
    <3>1. Final(f)
      BY <2>1, <2>3 DEF Final
    <3> QED
      BY <2>1, <2>2, <3>1, AnalysedKept
  <2>4. CASE f = Top.func
    <3>1. f \in Functions /\ f \in analysed
      BY <1>0, <2>1 DEF TypeOK
    <3>2. Analysed(f)
      BY <3>1 DEF ModuleInv, AnalysisSound, Analysed
    <3>3. Len(Code(f)) \in Nat
      BY <1>0, <3>1, CodeFacts
    <3>4. ASSUME NEW k \in 1..(Len(reaching[f]) - 1) PROVE VisitedRight(f, k)'
      <4>1. VisitedRight(f, k) /\ k \in 1..Len(Code(f))
        BY <3>2, <3>3 DEF Analysed
      <4> QED
        BY <2>1, <2>2, <3>1, <4>1, VisitedStep
    <3>5. Len(reaching[f]) = Len(Code(f)) + 1 /\ summary'[f] = reaching[f][Len(reaching[f])]
      BY <1>0, <2>1, <2>4, <3>1 DEF At, TypeOK
    <3> QED
      BY <1>c, <2>1, <3>2, <3>4, <3>5 DEF Analysed
  <2> QED
    BY <2>3, <2>4
<1>4. CASE /\ UNCHANGED <<analysed, reaching, barriers, summary>>
           /\ Final(f)' => Final(f)
  BY <1>4, AnalysedKept
<1>5. CASE EnterRoot \/ EnterCallee \/ LeaveFunction
  BY <1>4, <1>5 DEF EnterRoot, EnterCallee, LeaveFunction, AtEdge, AtLastEdge, Final
<1>6. CASE Execute
  BY <1>4, <1>6 DEF Execute, Launch, Access, Barrier, Call, Return, AtOp, AtReturn,
                    walkVars, Final
<1>7. CASE UNCHANGED vars
  BY <1>4, <1>7 DEF vars, Final, Top
<1> QED
  BY <1>1, <1>2, <1>3, <1>5, <1>6, <1>7 DEF Next, Walk, Finished

-----------------------------------------------------------------------------
(* The execution. *)

FrameType == [func : Functions, next : 1..(MaxOps + 1), base : Nat]

\* What ExecutionSound says of one of the functions being executed.
Linked(d) ==
    /\ Final(frames[d].func) /\ frames[d].base = 0
    /\ frames[d].next <= Len(Code(frames[d].func)) + 1
    /\ d < Len(frames) =>
         /\ frames[d].next > 1 /\ IsCall(frames[d].func, frames[d].next - 1)
         /\ Code(frames[d].func)[frames[d].next - 1].callee = frames[d + 1].func

LEMMA BelowWithin ==
    ASSUME NEW e, NEW a, NEW b, Below(e, a), Within(a, b)
    PROVE  Below(e, b)
BY DEF Below, Within

\* A function being executed has been analysed up to where it is.
LEMMA RunFacts ==
    ASSUME ModuleInv, pc = "run"
    PROVE  /\ frames # <<>> /\ frames \in Seq(FrameType) /\ Depth \in Nat \ {0}
           /\ Depth = Len(frames)
           /\ \A d \in 1..Depth : Linked(d)
           /\ \A d \in 1..Depth : /\ frames[d] \in FrameType
                                  /\ frames[d].func \in analysed
                                  /\ Analysed(frames[d].func)
                                  /\ Len(Code(frames[d].func)) \in Nat
<1>1. /\ frames # <<>> /\ frames \in Seq(FrameType) /\ Depth \in Nat \ {0}
      /\ Depth = Len(frames)
  BY CurrentFacts DEF ModuleInv, ExecutionSound, TypeOK, FrameType, Depth
<1>2. \A d \in 1..Depth : Linked(d)
  BY DEF ModuleInv, ExecutionSound, Linked, Depth
<1>3. \A d \in 1..Depth : frames[d] \in FrameType
  BY <1>1
<1>4. ASSUME NEW d \in 1..Depth
      PROVE  /\ frames[d].func \in analysed
             /\ Analysed(frames[d].func)
             /\ Len(Code(frames[d].func)) \in Nat
  <2>1. frames[d].func \in analysed
    BY <1>2 DEF Linked, Final
  <2>2. Analysed(frames[d].func)
    BY <2>1 DEF ModuleInv, AnalysisSound, Analysed
  <2>3. Len(Code(frames[d].func)) \in Nat
    <3>1. frames[d].func \in Functions
      BY <1>3 DEF FrameType
    <3> QED
      BY <3>1, CodeFacts DEF ModuleInv, TypeOK
  <2> QED
    BY <2>1, <2>2, <2>3
<1> QED
  BY <1>1, <1>2, <1>3, <1>4

\* Operation k of a final function has been visited.
LEMMA FinalVisited ==
    ASSUME NEW f, Analysed(f), Final(f), NEW k \in 1..Len(Code(f)), Len(Code(f)) \in Nat
    PROVE  VisitedRight(f, k)
<1>1. k \in 1..(Len(reaching[f]) - 1)
  BY DEF Analysed
<1> QED
  BY <1>1 DEF Analysed

\* The operation an access, a barrier or a call executes.
LEMMA AtOpFacts ==
    ASSUME ModuleInv, AtOp
    PROVE  /\ Current.func \in Functions /\ Current.func \in analysed
           /\ Current.base = 0 /\ Final(Current.func)
           /\ Current.next \in 1..Len(Code(Current.func))
           /\ Current.next \in Nat
           /\ CurrentOp \in Op
           /\ VisitedRight(Current.func, Current.next)
           /\ Stepped \in Seq(FrameType)
           /\ Len(Stepped) = Depth
           /\ Stepped[Depth] = [Current EXCEPT !.next = @ + 1]
           /\ Current \in FrameType
           /\ \A d \in 1..(Depth - 1) : Stepped[d] = frames[d]
<1>1. pc = "run" /\ Current.next <= Len(Code(Current.func))
  BY DEF AtOp
<1>2. /\ frames # <<>> /\ frames \in Seq(FrameType) /\ Depth \in Nat \ {0}
      /\ Depth = Len(frames)
  BY <1>1, RunFacts
<1>3. Linked(Depth) /\ frames[Depth] \in FrameType /\ frames[Depth].func \in analysed
      /\ Analysed(frames[Depth].func) /\ Len(Code(frames[Depth].func)) \in Nat
  <2>1. Depth \in 1..Depth
    BY <1>2
  <2> QED
    BY <1>1, <2>1, RunFacts
<1>4. /\ Current \in FrameType /\ Current.func \in Functions /\ Current.func \in analysed
      /\ Current.base = 0 /\ Final(Current.func)
      /\ Current.next \in 1..(MaxOps + 1) /\ Len(Code(Current.func)) \in Nat
      /\ Analysed(Current.func)
  BY <1>3 DEF Current, Linked, FrameType
<1>5. Current.next \in 1..Len(Code(Current.func)) /\ Current.next \in Nat
  BY <1>1, <1>4
<1>6. CurrentOp \in Op /\ Len(Code(Current.func)) <= MaxOps
  BY <1>4, <1>5, CodeFacts DEF CurrentOp, ModuleInv, TypeOK
<1>7. VisitedRight(Current.func, Current.next)
  BY <1>4, <1>5, FinalVisited
<1> DEFINE x == [Current EXCEPT !.next = @ + 1]
<1>8. x \in FrameType
  BY <1>4, <1>5, <1>6, BoundAssumption DEF FrameType
<1>9. Stepped = [frames EXCEPT ![Len(frames)] = x]
  BY <1>2 DEF Stepped, Current
<1> HIDE DEF x
<1>10. /\ [frames EXCEPT ![Len(frames)] = x] \in Seq(FrameType)
       /\ Len([frames EXCEPT ![Len(frames)] = x]) = Len(frames)
       /\ [frames EXCEPT ![Len(frames)] = x][Len(frames)] = x
       /\ \A d \in 1..(Len(frames) - 1) : [frames EXCEPT ![Len(frames)] = x][d] = frames[d]
  BY <1>2, <1>8, ReplacedFacts
<1> QED
  BY <1>2, <1>4, <1>5, <1>6, <1>7, <1>9, <1>10 DEF x

\* What is pending in the current function when it gets to an operation other
\* than a barrier is in flight behind it as well.
LEMMA ArrivingBelow ==
    ASSUME ModuleInv, AtOp, CurrentOp.kind # "barrier", NEW e \in Arriving
    PROVE  /\ e.depth \in 1..Depth
           /\ e.depth < Depth => Below(e, InFlight(frames[e.depth]))
           /\ e.depth = Depth =>
                /\ Below(e, ReachedAt(Current.func, Current.next))
                /\ Below(e, reaching[Current.func][Current.next + 1])
<1>1. e \in pending /\ Current.next \notin barriers[Current.func]
  BY DEF Arriving
<1>2. e.depth \in 1..Depth /\ Below(e, InFlight(frames[e.depth]))
  BY <1>1 DEF AtOp, ModuleInv, ExecutionSound
<1>3. CASE e.depth = Depth
  <2>1. Below(e, ReachedAt(Current.func, Current.next))
    BY <1>1, <1>2, <1>3 DEF InFlight, ReachedAt, Current
  <2>2. VisitedRight(Current.func, Current.next)
    BY AtOpFacts
  <2> DEFINE cur == CurBlockInfo(Current.func, CurrentOp)
             r == ReachedAt(Current.func, Current.next)
  <2>3. Within(Join(r, cur), reaching[Current.func][Current.next + 1])
    BY <2>2 DEF VisitedRight, CurrentOp
  <2>4. Within(r, Join(r, cur))
    BY JoinBounds
  <2>5. Below(e, Join(r, cur))
    BY <2>1, <2>4, BelowWithin
  <2>6. Below(e, reaching[Current.func][Current.next + 1])
    BY <2>3, <2>5, BelowWithin
  <2> QED
    BY <1>2, <2>1, <2>6
<1> QED
  BY <1>2, <1>3

\* What ExecutionSound will say of the executed functions s.
Chained(s, d) ==
    /\ s[d].func \in analysed /\ s[d].base = 0
    /\ s[d].next <= Len(Code(s[d].func)) + 1
    /\ d < Len(s) => /\ s[d].next > 1 /\ IsCall(s[d].func, s[d].next - 1)
                     /\ Code(s[d].func)[s[d].next - 1].callee = s[d + 1].func

LEMMA FramesChained ==
    ASSUME ModuleInv, pc = "run", NEW d \in 1..Depth
    PROVE  Chained(frames, d)
BY RunFacts DEF Linked, Final, Chained

\* The executed functions after a step of the current one.
LEMMA SteppedFacts ==
    ASSUME ModuleInv, AtOp
    PROVE  /\ Depth \in Nat \ {0} /\ Depth = Len(frames)
           /\ Len(Stepped) = Depth /\ Stepped # <<>>
           /\ Stepped[Depth].func = Current.func
           /\ Stepped[Depth].next = Current.next + 1
           /\ \A d \in 1..Depth : d < Depth => Stepped[d] = frames[d]
           /\ \A d \in 1..Depth : Chained(Stepped, d)
<1>1. Depth \in Nat \ {0} /\ Depth = Len(frames) /\ pc = "run"
  BY RunFacts DEF AtOp
<1>2. Len(Stepped) = Depth /\ Stepped # <<>>
  BY <1>1, AtOpFacts
<1>3. Stepped[Depth].func = Current.func /\ Stepped[Depth].next = Current.next + 1
      /\ Stepped[Depth].base = 0
  BY AtOpFacts DEF FrameType
<1>4. ASSUME NEW d \in 1..Depth, d < Depth
      PROVE  Stepped[d] = frames[d]
  <2>1. d \in 1..(Depth - 1)
    BY <1>1, <1>4
  <2> QED
    BY <2>1, AtOpFacts
<1>5. ASSUME NEW d \in 1..Depth, d < Depth
      PROVE  Chained(Stepped, d)
  <2>1. Chained(frames, d) /\ d + 1 \in 1..Depth
    BY <1>1, <1>5, FramesChained
  <2>2. Stepped[d] = frames[d]
    BY <1>4, <1>5
  <2>3. Stepped[d + 1].func = frames[d + 1].func
    BY <1>1, <1>3, <1>4, <2>1 DEF Current
  <2> QED
    BY <1>1, <1>2, <2>1, <2>2, <2>3 DEF Chained
<1>6. Chained(Stepped, Depth)
  <2>1. Current.func \in analysed /\ Current.next \in 1..Len(Code(Current.func))
    BY AtOpFacts
  <2>2. Current.next + 1 <= Len(Code(Current.func)) + 1
    <3>1. Len(Code(Current.func)) \in Nat
      BY AtOpFacts, CodeFacts DEF ModuleInv, TypeOK
    <3> QED
      BY <2>1, <3>1
  <2>3. ~(Depth < Depth)
    BY <1>1
  <2> QED
    BY <1>2, <1>3, <2>1, <2>2, <2>3 DEF Chained
<1> QED
  BY <1>1, <1>2, <1>3, <1>4, <1>5, <1>6

\* What is pending at an operation other than a barrier is in flight behind it.
LEMMA ArrivingStepped ==
    ASSUME ModuleInv, AtOp, CurrentOp.kind # "barrier", NEW e \in Arriving
    PROVE  /\ e.depth \in 1..Depth
           /\ Below(e, reaching[Stepped[e.depth].func][Stepped[e.depth].next])
<1>1. /\ e.depth \in 1..Depth
      /\ e.depth < Depth => Below(e, InFlight(frames[e.depth]))
      /\ e.depth = Depth => Below(e, reaching[Current.func][Current.next + 1])
  BY ArrivingBelow
<1>2. CASE e.depth = Depth
  BY <1>1, <1>2, SteppedFacts
<1>3. CASE e.depth # Depth
  <2>1. e.depth < Depth
    BY <1>1, <1>3, SteppedFacts
  <2> QED
    BY <1>1, <2>1, SteppedFacts DEF InFlight
<1> QED
  BY <1>2, <1>3

\* What an operation accesses is what its analysis says.
LEMMA AccessesBelow ==
    ASSUME ModuleInv, AtOp, CurrentOp.kind = "access", NEW e \in Accesses(CurrentOp)
    PROVE  /\ e.depth = Depth /\ e.place \in Interval
           /\ Below(e, CurBlockInfo(Current.func, CurrentOp))
<1>1. PICK write \in BOOLEAN, b \in Buffers :
        /\ e = [place |-> Shift(mod.place[Current.func][b], Current.base),
                write |-> write, depth |-> Depth]
        /\ b \in IF write THEN CurrentOp.writes ELSE CurrentOp.reads
  BY AtOpFacts DEF Accesses, Entries, Op
<1>2. mod.place[Current.func][b] \in Interval
  BY AtOpFacts, CodeFacts DEF ModuleInv, TypeOK
<1>3. Shift(mod.place[Current.func][b], 0) = mod.place[Current.func][b]
  BY <1>2 DEF Shift, Interval
<1>4. Current.base = 0
  BY AtOpFacts
<1> QED
  BY <1>1, <1>2, <1>3, <1>4 DEF Below, CurBlockInfo, Places

LEMMA ExecutionSoundStep ==
    ASSUME ModuleInv, [Next]_vars
    PROVE  ExecutionSound'
<1>0. TypeOK /\ ExecutionSound
  BY DEF ModuleInv
<1>c. /\ \A f : Code(f)' = Code(f)
      /\ \A f, k : IsCall(f, k)' = IsCall(f, k)
  BY CodeStep
<1>w. CASE Walk
  <2>1. pc \in {"walk", "analyse"} /\ pc' \in {"walk", "analyse"} /\ pending' = pending
    BY <1>w DEF Walk, EnterRoot, EnterCallee, LeaveFunction, StartAnalysis, VisitOp,
                EndAnalysis, AtEdge, AtLastEdge
  <2> QED
    BY <1>0, <2>1 DEF ExecutionSound
<1>u. CASE UNCHANGED vars
  BY <1>0, <1>u DEF vars, ExecutionSound, Depth, Final, Top, InFlight, Below, Code, IsCall
<1>x. ASSUME Execute,
             pc' = "run" =>
               /\ frames' # <<>>
               /\ \A d \in 1..Len(frames') : Chained(frames', d)
               /\ \A e \in pending' :
                    /\ e.depth \in 1..Len(frames')
                    /\ Below(e, reaching[frames'[e.depth].func][frames'[e.depth].next])
      PROVE  ExecutionSound'
  <2>1. analysed' = analysed /\ reaching' = reaching /\ pc' \in {"run", "finished"}
    BY <1>x DEF Execute, Launch, Access, Barrier, Call, Return, AtOp, AtReturn, walkVars
  <2>2. ASSUME pc' = "run", NEW d \in 1..Len(frames')
        PROVE  Linked(d)'
    BY <1>x, <1>c, <2>1, <2>2 DEF Linked, Final, Chained
  <2>3. ASSUME pc' = "run", NEW e \in pending'
        PROVE  e.depth \in 1..Len(frames') /\ Below(e, InFlight(frames[e.depth])')
    BY <1>x, <2>1, <2>3 DEF InFlight
  <2> QED
    BY <1>x, <2>1, <2>2, <2>3 DEF ExecutionSound, Linked, Depth, Below
<1>1. CASE Launch
  <2>1. PICK r \in Functions : IsRoot(r) /\ frames' = <<Frame(r, 0)>>
    BY <1>1 DEF Launch
  <2>2. /\ pc = "walk" /\ walkStack = <<>> /\ pending' = pending
        /\ \A q \in nextRoot..F : ~IsRoot(q)
    BY <1>1 DEF Launch
  <2>3. r \in 1..(nextRoot - 1)
    BY <1>0, <2>1, <2>2, BoundAssumption DEF TypeOK, Functions
  <2>4. r \in analysed
    BY <2>1, <2>2, <2>3 DEF ModuleInv, RootsWalked, Final
  <2>5. Len(Code(r)) \in Nat
    BY <1>0, <2>1, CodeFacts DEF TypeOK
  <2>6. /\ Len(frames') = 1 /\ frames' # <<>> /\ frames'[1].func = r
        /\ frames'[1].next = 1 /\ frames'[1].base = 0
    BY <2>1 DEF Frame
  <2>7. pending' = {}
    BY <1>0, <2>2 DEF ExecutionSound
  <2>8. \A d \in 1..Len(frames') : Chained(frames', d)
    BY <2>4, <2>5, <2>6 DEF Chained
  <2> QED
    BY <1>1, <1>x, <2>6, <2>7, <2>8 DEF Execute
<1>2. CASE Access
  <2>1. AtOp /\ frames' = Stepped /\ CurrentOp.kind = "access"
        /\ pending' = Arriving \cup Accesses(CurrentOp)
    BY <1>2 DEF Access
  <2> DEFINE g == Current.func
             k == Current.next
  <2>2. ASSUME NEW e \in Accesses(CurrentOp)
        PROVE  /\ e.depth \in 1..Depth
               /\ Below(e, reaching[Stepped[e.depth].func][Stepped[e.depth].next])
    <3> DEFINE cur == CurBlockInfo(g, CurrentOp)
    <3>1. e.depth = Depth /\ Below(e, cur)
      BY <2>1, AccessesBelow
    <3>2. VisitedRight(g, k)
      BY <2>1, AtOpFacts
    <3>3. Within(Join(ReachedAt(g, k), cur), reaching[g][k + 1])
      BY <2>1, <3>2 DEF VisitedRight, CurrentOp
    <3>4. Within(cur, Join(ReachedAt(g, k), cur))
      BY JoinBounds
    <3>5. Below(e, reaching[g][k + 1])
      BY <3>1, <3>3, <3>4, BelowWithin, WithinTransitive
    <3> QED
      BY <2>1, <3>1, <3>5, SteppedFacts
  <2>3. \A e \in pending' :
          /\ e.depth \in 1..Depth
          /\ Below(e, reaching[Stepped[e.depth].func][Stepped[e.depth].next])
    BY <2>1, <2>2, ArrivingStepped
  <2> QED
    BY <1>2, <1>x, <2>1, <2>3, SteppedFacts DEF Execute
<1>3. CASE Barrier
  <2>1. AtOp /\ frames' = Stepped /\ pending' = {}
    BY <1>3 DEF Barrier
  <2> QED
    BY <1>3, <1>x, <2>1, SteppedFacts DEF Execute
<1>4. CASE Call
  <2>1. AtOp /\ CurrentOp.kind = "call" /\ pending' = Arriving
        /\ frames' = Append(Stepped, Frame(CurrentOp.callee, CalleeBase))
    BY <1>4 DEF Call
  <2> DEFINE new == Frame(CurrentOp.callee, CalleeBase)
  <2>2. /\ CurrentOp.callee \in Functions /\ CurrentOp.callee \in Callees(Current.func)
        /\ IsCall(Current.func, Current.next)
    <3>1. Current.next \in 1..Len(Code(Current.func)) /\ CurrentOp \in Op
      BY <2>1, AtOpFacts
    <3> QED
      BY <2>1, <3>1 DEF Op, Callees, IsCall, CurrentOp
  <2>3. CurrentOp.callee \in analysed
    BY <2>1, <2>2, AtOpFacts DEF ModuleInv, CalleesFirst, Final
  <2>4. /\ new.func = CurrentOp.callee /\ new.next = 1 /\ new.base = 0
        /\ new \in FrameType
    BY <2>1, <2>2, AtOpFacts, BoundAssumption DEF Frame, CalleeBase, FrameType
  <2>5. Len(Code(CurrentOp.callee)) \in Nat
    BY <1>0, <2>2, CodeFacts DEF TypeOK
  <2>6. /\ Depth \in Nat \ {0} /\ Len(Stepped) = Depth /\ Stepped \in Seq(FrameType)
    BY <2>1, SteppedFacts, AtOpFacts
  <2> HIDE DEF new
  <2>7. /\ Len(frames') = Depth + 1 /\ frames'[Depth + 1] = new
        /\ \A d \in 1..Depth : frames'[d] = Stepped[d]
    BY <2>1, <2>4, <2>6, PushedFacts DEF new
  <2>8. ASSUME NEW d \in 1..Len(frames')
        PROVE  Chained(frames', d)
    <3>1. CASE d = Depth + 1
      <4>1. 1 <= Len(Code(new.func)) + 1 /\ ~(d < Len(frames'))
        BY <2>4, <2>5, <2>6, <2>7, <3>1
      <4> QED
        BY <2>3, <2>4, <2>7, <3>1, <4>1 DEF Chained
    <3>2. CASE d = Depth
      <4>1. /\ Stepped[d].func = Current.func /\ Stepped[d].next = Current.next + 1
            /\ Chained(Stepped, d) /\ d \in 1..Depth
        BY <2>1, <2>6, <3>2, SteppedFacts
      <4>2. Current.next \in Nat \ {0} /\ Current.next + 1 > 1
            /\ Current.next + 1 - 1 = Current.next
        BY <2>1, AtOpFacts
      <4>3. Code(Current.func)[Current.next].callee = new.func
        BY <2>4 DEF CurrentOp
      <4>4. frames'[d] = Stepped[d] /\ frames'[d + 1] = new
        BY <2>7, <3>2, <4>1
      <4> QED
        BY <2>2, <4>1, <4>2, <4>3, <4>4 DEF Chained
    <3>3. CASE d # Depth /\ d # Depth + 1
      <4>1. d \in 1..Depth /\ d + 1 \in 1..Depth /\ d < Depth
        BY <2>6, <2>7, <3>3
      <4>2. frames'[d] = Stepped[d] /\ frames'[d + 1] = Stepped[d + 1]
        BY <2>7, <4>1
      <4>3. Chained(Stepped, d)
        BY <2>1, <4>1, SteppedFacts
      <4> QED
        BY <2>6, <4>1, <4>2, <4>3 DEF Chained
    <3> QED
      BY <3>1, <3>2, <3>3
  <2>9. ASSUME NEW e \in pending'
        PROVE  /\ e.depth \in 1..Len(frames')
               /\ Below(e, reaching[frames'[e.depth].func][frames'[e.depth].next])
    <3>1. /\ e.depth \in 1..Depth
          /\ Below(e, reaching[Stepped[e.depth].func][Stepped[e.depth].next])
      BY <2>1, <2>9, ArrivingStepped
    <3> QED
      BY <2>6, <2>7, <3>1
  <2>10. frames' # <<>>
    BY <2>1, <2>6, <2>7
  <2> QED
    BY <1>4, <1>x, <2>8, <2>9, <2>10 DEF Execute
<1>5. CASE Return
  <2>1. AtReturn /\ pc = "run" /\ frames' = Popped(frames)
        /\ pc' = (IF Depth = 1 THEN "finished" ELSE pc)
        /\ pending' = {[e EXCEPT !.depth = IF @ = Depth THEN @ - 1 ELSE @] : e \in pending}
    BY <1>5 DEF Return, AtReturn
  <2>2. /\ frames # <<>> /\ frames \in Seq(FrameType) /\ Depth \in Nat \ {0}
        /\ Depth = Len(frames)
    BY <2>1, RunFacts
  <2>3. CASE Depth = 1
    <3>1. pc' # "run"
      BY <2>1, <2>3
    <3> QED
      BY <1>5, <1>x, <3>1 DEF Execute
  <2>4. CASE Depth # 1
    <3>1. /\ Len(frames') = Depth - 1 /\ Depth - 1 \in 1..Depth
          /\ \A d \in 1..(Depth - 1) : frames'[d] = frames[d]
      BY <2>1, <2>2, <2>4, PoppedFacts
    <3>2. frames' # <<>>
      BY <2>2, <2>4, <3>1
    <3>3. ASSUME NEW d \in 1..Len(frames')
          PROVE  Chained(frames', d)
      <4>1. d \in 1..Depth /\ Chained(frames, d) /\ frames'[d] = frames[d]
        BY <2>1, <2>2, <3>1, FramesChained
      <4>2. d < Len(frames') => d + 1 \in 1..(Depth - 1) /\ d < Len(frames)
        BY <2>2, <3>1
      <4>3. d < Len(frames') => frames'[d + 1] = frames[d + 1]
        BY <3>1, <4>2
      <4> QED
        BY <4>1, <4>2, <4>3 DEF Chained
    <3> DEFINE g == Current.func
               c == frames[Depth - 1]
    <3>4. Within(InFlight(Current), InFlight(c))
      <4>1. /\ c.next > 1 /\ IsCall(c.func, c.next - 1)
            /\ Code(c.func)[c.next - 1].callee = g /\ c.next \in Nat
            /\ Final(c.func) /\ Analysed(c.func) /\ Len(Code(c.func)) \in Nat
            /\ c.next <= Len(Code(c.func)) + 1
        <5>1. Depth - 1 < Len(frames) /\ Depth - 1 + 1 = Depth
          BY <2>2
        <5>2. c \in FrameType /\ Linked(Depth - 1) /\ Analysed(c.func)
              /\ Len(Code(c.func)) \in Nat
          BY <2>1, <3>1, RunFacts
        <5> QED
          BY <5>1, <5>2 DEF Linked, FrameType, Current
      <4> DEFINE k == c.next - 1
                 r == ReachedAt(c.func, k)
                 cur == CurBlockInfo(c.func, Code(c.func)[k])
      <4>2. k \in 1..Len(Code(c.func)) /\ k + 1 = c.next
        BY <4>1
      <4>3. VisitedRight(c.func, k)
        BY <4>1, <4>2, FinalVisited
      <4>4. cur = summary[g]
        BY <4>1 DEF CurBlockInfo, IsCall
      <4>5. Within(Join(r, cur), InFlight(c))
        BY <4>1, <4>2, <4>3 DEF VisitedRight, IsCall, InFlight
      <4>6. Within(cur, Join(r, cur))
        BY JoinBounds
      <4>7. summary[g] = InFlight(Current)
        <5>1. Depth \in 1..Depth
          BY <2>2
        <5>2. /\ Linked(Depth) /\ Analysed(g) /\ Current \in FrameType
              /\ Len(Code(g)) \in Nat
          BY <2>1, <5>1, RunFacts DEF Current
        <5>3. Current.next = Len(Code(g)) + 1
          BY <2>1, <5>2 DEF Linked, Current, AtReturn, FrameType
        <5>4. Final(g)
          BY <5>2 DEF Linked, Current
        <5> QED
          BY <5>2, <5>3, <5>4 DEF Analysed, InFlight
      <4> QED
        BY <4>4, <4>5, <4>6, <4>7, WithinTransitive
    <3>5. ASSUME NEW e \in pending'
          PROVE  /\ e.depth \in 1..Len(frames')
                 /\ Below(e, reaching[frames'[e.depth].func][frames'[e.depth].next])
      <4>1. PICK o \in pending : e = [o EXCEPT !.depth = IF @ = Depth THEN @ - 1 ELSE @]
        BY <2>1
      <4>2. o \in Entry
        BY <1>0 DEF TypeOK
      <4>3. /\ e.place = o.place /\ e.write = o.write
            /\ e.depth = IF o.depth = Depth THEN Depth - 1 ELSE o.depth
        BY <4>1, <4>2 DEF Entry
      <4>4. o.depth \in 1..Depth /\ Below(o, InFlight(frames[o.depth]))
        BY <1>0, <2>1 DEF ExecutionSound
      <4>5. Below(e, InFlight(frames[o.depth]))
        BY <4>3, <4>4 DEF Below
      <4>6. e.depth \in 1..(Depth - 1)
        BY <2>2, <2>4, <4>3, <4>4
      <4>7. Below(e, InFlight(frames[e.depth]))
        BY <3>4, <4>3, <4>5, BelowWithin DEF Current
      <4> QED
        BY <3>1, <4>6, <4>7 DEF InFlight
    <3> QED
      BY <1>5, <1>x, <3>2, <3>3, <3>5 DEF Execute
  <2> QED
    BY <2>3, <2>4
<1> QED
  BY <1>w, <1>u, <1>1, <1>2, <1>3, <1>4, <1>5 DEF Next, Execute, Finished


-----------------------------------------------------------------------------
(* The results. *)

LEMMA InitModuleInv == Init => ModuleInv
<1> SUFFICES ASSUME Init PROVE ModuleInv
  OBVIOUS
<1>1. TypeOK
  BY InitTypeOK
<1>2. CalleesFirst /\ AnalysisSound /\ ExecutionSound
  BY DEF Init, CalleesFirst, AnalysisSound, ExecutionSound
<1>3. WalkSound /\ RootsWalked
  <2>1. Len(walkStack) = 0 /\ 1..0 = {} /\ 1..(nextRoot - 1) = {}
    BY DEF Init
  <2> QED
    BY <2>1 DEF Init, WalkSound, RootsWalked
<1> QED
  BY <1>1, <1>2, <1>3 DEF ModuleInv

\* The walk, the analyses and the execution of the functions they rewrite hang
\* together in every module: summaries are final before they are used, and
\* what is pending in an executed function is what its analysis has seen.
THEOREM ModuleInvCorrect == Spec => []ModuleInv
<1>1. ModuleInv /\ [Next]_vars => ModuleInv'
  BY TypeOKStep, CalleesFirstStep, WalkSoundStep, RootsWalkedStep,
     AnalysisSoundStep, ExecutionSoundStep DEF ModuleInv
<1> QED
  BY InitModuleInv, <1>1, PTL DEF Spec

\* The variables keep their types, for every module and bound.
THEOREM ModuleTypeCorrect == Spec => []TypeOK
<1>1. ModuleInv => TypeOK
  BY DEF ModuleInv
<1> QED
  BY <1>1, ModuleInvCorrect, PTL

\* resolve() never uses the summary of a function that is yet to be analysed,
\* whatever the call graph and whatever way the walk gets to the caller.
THEOREM CalleesFirstCorrect == Spec => []CalleesFirst
<1>1. ModuleInv => CalleesFirst
  BY DEF ModuleInv
<1> QED
  BY <1>1, ModuleInvCorrect, PTL

\* An operation races neither with its own function nor with one that has
\* returned to it, whatever the functions, their buffers and their calls.
THEOREM NoRaceAfterCallCorrect == Spec => []NoRaceAfterCall
<1>1. ModuleInv => NoRaceAfterCall
  <2> SUFFICES ASSUME ModuleInv, AtOp,
                      NEW p \in Arriving, p.depth = Depth,
                      NEW q \in Accesses(CurrentOp),
                      p.write \/ q.write, ShareByte({p.place}, {q.place})
               PROVE  FALSE
    BY DEF NoRaceAfterCall, EntriesRace
  <2> DEFINE cur == CurBlockInfo(Current.func, CurrentOp)
             r == ReachedAt(Current.func, Current.next)
  <2>1. CurrentOp.kind = "access"
    <3>1. CurrentOp \in Op
      BY AtOpFacts
    <3> QED
      BY <3>1 DEF Op, Accesses, Entries
  <2>2. Below(p, r) /\ p.place \in Interval
    <3>1. p \in Entry
      BY DEF Arriving, ModuleInv, TypeOK
    <3> QED
      BY <2>1, <3>1, ArrivingBelow DEF Entry
  <2>3. Below(q, cur) /\ q.place \in Interval
    BY <2>1, AccessesBelow
  <2>4. Intersects(p.place, q.place)
    BY <2>2, <2>3, SharedByteIntersects DEF ShareByte
  <2>5. ~IsIntersected(r, cur)
    BY <2>1, AtOpFacts DEF VisitedRight, CurrentOp
  <2> QED
    BY <2>2, <2>3, <2>4, <2>5 DEF Below, IsIntersected, AnyIntersects
<1> QED
  BY <1>1, ModuleInvCorrect, PTL

=============================================================================
