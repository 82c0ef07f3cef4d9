---------------------------- MODULE ModuleMembar ----------------------------
(***************************************************************************)
(* ModuleMembarAnalysis on a module of functions that call each other: the  *)
(* post-order walk of the call graph, each function analysed with the       *)
(* summaries of its callees, and the execution of the result by one thread  *)
(* block, with the shared memory every call hands to its callee.            *)
(*                                                                         *)
(* A function is one block here (Membar has control flow inside functions). *)
(***************************************************************************)
EXTENDS BlockInfo, Sequences

CONSTANTS
    F,          \* the number of functions, numbered in module order
    Buffers,    \* names of the buffers of a function
    Modules,    \* the modules the analysis may be given
    MaxOps,     \* the longest function
    MaxDepth    \* a bound on the depth of the walk

Functions == 1..F

\* `virtual' is the offset of the virtual buffer a call was given.
Op == {op \in [kind : {"access", "barrier", "call"}, reads : SUBSET Buffers,
                writes : SUBSET Buffers, callee : Functions, virtual : Nat] :
          op.kind # "access" => op.reads = {} /\ op.writes = {}}

\* What ModuleAllocation has computed is part of a module: the place of each
\* buffer and the shared memory size of each function.
Module == [code  : [Functions -> Seq(Op)],
           place : [Functions -> [Buffers -> Interval]],
           size  : [Functions -> Nat]]

WellFormed(m) == /\ m \in Module
                 /\ \A f \in Functions : Len(m.code[f]) <= MaxOps

ASSUME BoundAssumption == F \in Nat \ {0} /\ MaxOps \in Nat /\ MaxDepth \in Nat
ASSUME ModuleAssumption ==
    \A m \in Modules : WellFormed(m)

VARIABLES
    mod,        \* the module
    nextRoot,   \* the roots below it have been walked
    walkStack,  \* doWalk's activations: a function, and the operation after
                \* the last call it has gone down
    analysed,   \* the functions funcMap has an entry for
    summary,    \* funcMap
    reaching,   \* what the analysis of f found in flight at each operation
    barriers,   \* barriers[f] holds the operations a barrier was put before
    pc,
    frames,     \* the functions being executed
    pending     \* the accesses since the last barrier executed

walkVars == <<mod, nextRoot, walkStack, analysed, summary, reaching, barriers>>
vars == <<mod, nextRoot, walkStack, analysed, summary, reaching, barriers, pc,
          frames, pending>>

Code(f) == mod.code[f]
IsCall(f, k) == Code(f)[k].kind = "call"
Callees(f) == {Code(f)[k].callee : k \in {j \in 1..Len(Code(f)) : IsCall(f, j)}}
IsRoot(f) == \A g \in Functions : f \notin Callees(g)

-----------------------------------------------------------------------------
(* One function. *)

Places(f, bufs) == {mod.place[f][b] : b \in bufs}

\* A version in which calls are taken to access nothing.
CurBlockInfoNoCalls(f, op) ==
    [reads |-> Places(f, op.reads), writes |-> Places(f, op.writes)]

\* The accesses of an operation: those of a call are its callee's summary.
CurBlockInfo(f, op) ==
    IF op.kind = "call" THEN summary[op.callee]
    ELSE [reads |-> Places(f, op.reads), writes |-> Places(f, op.writes)]

-----------------------------------------------------------------------------
(* The walk. *)

Init ==
    /\ mod \in Modules
    /\ nextRoot = 1
    /\ walkStack = <<>>
    /\ analysed = {}
    /\ summary = [f \in Functions |-> NoInfo]
    /\ reaching = [f \in Functions |-> <<>>]
    /\ barriers = [f \in Functions |-> {}]
    /\ pc = "walk"
    /\ frames = <<>>
    /\ pending = {}

Activation(f) == [func |-> f, next |-> 1]
Top == walkStack[Len(walkStack)]
Popped(s) == SubSeq(s, 1, Len(s) - 1)

\* A version that walks the first root only.
EnterFirstRoot ==
    /\ pc = "walk" /\ walkStack = <<>>
    /\ \E r \in nextRoot..F :
        /\ IsRoot(r)
        /\ \A q \in nextRoot..(r - 1) : ~IsRoot(q)
        /\ nextRoot' = F + 1
        /\ walkStack' = <<Activation(r)>>
    /\ UNCHANGED <<mod, analysed, summary, reaching, barriers, pc, frames, pending>>

\* The next function nobody calls.
EnterRoot ==
    /\ pc = "walk" /\ walkStack = <<>>
    /\ \E r \in nextRoot..F :
        /\ IsRoot(r)
        /\ \A q \in nextRoot..(r - 1) : ~IsRoot(q)
        /\ nextRoot' = r + 1
        /\ walkStack' = <<Activation(r)>>
    /\ UNCHANGED <<mod, analysed, summary, reaching, barriers, pc, frames, pending>>

\* The edges of the call graph that the activation has still to go down.
Edges(a) == {k \in a.next..Len(Code(a.func)) : IsCall(a.func, k)}

AtEdge == pc = "walk" /\ walkStack # <<>> /\ Edges(Top) # {}
AtLastEdge == pc = "walk" /\ walkStack # <<>> /\ Edges(Top) = {}

\* A version that goes down the last of the edges left.
EnterLastCallee ==
    /\ AtEdge
    /\ Len(walkStack) < MaxDepth
    /\ \E k \in Edges(Top) :
         /\ \A j \in Edges(Top) : j <= k
         /\ walkStack' = Append([walkStack EXCEPT ![Len(walkStack)].next = k + 1],
                                Activation(Code(Top.func)[k].callee))
    /\ UNCHANGED <<mod, nextRoot, analysed, summary, reaching, barriers, pc,
                   frames, pending>>

\* The walk goes down the next edge.  It would fail at a function in
\* `visited', but nothing ever inserts one.
EnterCallee ==
    /\ AtEdge
    /\ Len(walkStack) < MaxDepth
    /\ \E k \in Edges(Top) :
         /\ \A j \in Edges(Top) : k <= j
         /\ walkStack' = Append([walkStack EXCEPT ![Len(walkStack)].next = k + 1],
                                Activation(Code(Top.func)[k].callee))
    /\ UNCHANGED <<mod, nextRoot, analysed, summary, reaching, barriers, pc,
                   frames, pending>>

\* All edges have been walked and the function has been analysed before.
LeaveFunction ==
    /\ AtLastEdge
    /\ Top.func \in analysed
    /\ walkStack' = Popped(walkStack)
    /\ UNCHANGED <<mod, nextRoot, analysed, summary, reaching, barriers, pc,
                   frames, pending>>

\* The function is new to funcMap: its analysis starts.
StartAnalysis ==
    /\ AtLastEdge
    /\ Top.func \notin analysed
    /\ analysed' = analysed \cup {Top.func}
    /\ reaching' = [reaching EXCEPT ![Top.func] = <<NoInfo>>]
    /\ pc' = "analyse"
    /\ UNCHANGED <<mod, nextRoot, walkStack, summary, barriers, frames, pending>>

\* The operation the analysis is at.
At == Len(reaching[Top.func])

\* A barrier for operation k goes before it.
InsertionPoint(k) == k

\* update() on operation k of f: a barrier syncs; before another operation one
\* is put if that meets what is in flight.
VisitOp ==
    /\ pc = "analyse" /\ At <= Len(Code(Top.func))
    /\ LET f == Top.func
           op == Code(f)[At]
           info == reaching[f][At]
           meets == op.kind # "barrier" /\ IsIntersected(info, CurBlockInfo(f, op))
       IN  /\ barriers' = [barriers EXCEPT ![f] = IF meets THEN @ \cup {InsertionPoint(At)}
                                                 ELSE @]
           /\ reaching' = [reaching EXCEPT ![f] = Append(@,
                IF op.kind = "barrier" THEN NoInfo
                ELSE Join(IF meets THEN NoInfo ELSE info, CurBlockInfo(f, op)))]
    /\ UNCHANGED <<mod, nextRoot, walkStack, analysed, summary, pc, frames, pending>>

\* What dangles at the return becomes the function's summary.
EndAnalysis ==
    /\ pc = "analyse" /\ At = Len(Code(Top.func)) + 1
    /\ summary' = [summary EXCEPT ![Top.func] = reaching[Top.func][At]]
    /\ walkStack' = Popped(walkStack)
    /\ pc' = "walk"
    /\ UNCHANGED <<mod, nextRoot, analysed, reaching, barriers, frames, pending>>

-----------------------------------------------------------------------------
(* Execution of a kernel, a function nobody calls. *)

Frame(f, base) == [func |-> f, next |-> 1, base |-> base]

Launch ==
    /\ pc = "walk" /\ walkStack = <<>>
    /\ \A r \in nextRoot..F : ~IsRoot(r)
    /\ \E r \in Functions : IsRoot(r) /\ frames' = <<Frame(r, 0)>>
    /\ pc' = "run"
    /\ UNCHANGED walkVars
    /\ UNCHANGED pending

Depth == Len(frames)
Current == frames[Depth]
AtOp == pc = "run" /\ Current.next <= Len(Code(Current.func))
AtReturn == pc = "run" /\ Current.next > Len(Code(Current.func))
CurrentOp == Code(Current.func)[Current.next]

\* The stack pointer a callee gets.  The caller's own is passed on unless the
\* calling function has an allocation.offset, and only operations get one.
CalleeBase == Current.base

\* An inserted barrier before the operation is executed first.
Arriving == IF Current.next \in barriers[Current.func] THEN {} ELSE pending

Shift(iv, base) == [start |-> iv.start + base, end |-> iv.end + base]

\* An access, with the depth of the function it is to be ordered against in.
Entries(bufs, write) ==
    {[place |-> Shift(mod.place[Current.func][b], Current.base),
      write |-> write, depth |-> Depth] : b \in bufs}
Accesses(op) == Entries(op.reads, FALSE) \cup Entries(op.writes, TRUE)

Stepped == [frames EXCEPT ![Depth].next = @ + 1]

Access ==
    /\ AtOp /\ CurrentOp.kind = "access"
    /\ pending' = Arriving \cup Accesses(CurrentOp)
    /\ frames' = Stepped
    /\ UNCHANGED walkVars
    /\ UNCHANGED pc

Barrier ==
    /\ AtOp /\ CurrentOp.kind = "barrier"
    /\ pending' = {}
    /\ frames' = Stepped
    /\ UNCHANGED walkVars
    /\ UNCHANGED pc

Call ==
    /\ AtOp /\ CurrentOp.kind = "call"
    /\ pending' = Arriving
    /\ frames' = Append(Stepped, Frame(CurrentOp.callee, CalleeBase))
    /\ UNCHANGED walkVars
    /\ UNCHANGED pc

\* The caller goes on; what the callee left pending is now pending in it.
Return ==
    /\ AtReturn
    /\ pending' = {[e EXCEPT !.depth = IF @ = Depth THEN @ - 1 ELSE @] : e \in pending}
    /\ frames' = Popped(frames)
    /\ pc' = IF Depth = 1 THEN "finished" ELSE pc
    /\ UNCHANGED walkVars

Finished == pc = "finished" /\ UNCHANGED vars

Walk == \/ EnterRoot \/ EnterCallee \/ LeaveFunction
        \/ StartAnalysis \/ VisitOp \/ EndAnalysis
Execute == Launch \/ Access \/ Barrier \/ Call \/ Return

Next == Walk \/ Execute \/ Finished

Spec == Init /\ [][Next]_vars

-----------------------------------------------------------------------------
Entry == [place : Interval, write : BOOLEAN, depth : Nat]

\* The walk's stack, the analysed functions and the frames of an execution are
\* of the module's functions (CallGraph::walk, ModuleMembarAnalysis::run).
TypeOK ==
    /\ WellFormed(mod)
    /\ nextRoot \in 1..(F + 1)
    /\ walkStack \in Seq([func : Functions, next : 1..(MaxOps + 1)])
    /\ analysed \subseteq Functions
    /\ summary \in [Functions -> Info]
    /\ reaching \in [Functions -> Seq(Info)]
    /\ barriers \in [Functions -> SUBSET (1..MaxOps)]
    /\ pc \in {"walk", "analyse", "run", "finished"}
    /\ frames \in Seq([func : Functions, next : 1..(MaxOps + 1), base : Nat])
    /\ pending \subseteq Entry

\* The analysis of a function is over.
Final(f) == f \in analysed /\ ~(pc = "analyse" /\ f = Top.func)

\* A function is analysed only when the summary of everything it calls is
\* final, whatever way the walk reaches it.
CalleesFirst == \A f \in analysed : \A g \in Callees(f) : Final(g)

\* Every function has got its barriers when the walk is over, whichever root it
\* lies below (CallGraph::walk, ModuleMembarAnalysis::run).
AllAnalysed == pc \in {"run", "finished"} => analysed = Functions

EntriesRace(P, Q) ==
    \E p \in P, q \in Q : /\ p.write \/ q.write
                          /\ ShareByte({p.place}, {q.place})

\* An operation never races with what its own function, or a function this
\* one has called and that has returned, has accessed since the last barrier.
NoRaceAfterCall ==
    AtOp => ~EntriesRace({e \in Arriving : e.depth = Depth}, Accesses(CurrentOp))

\* What the class comment of ModuleMembarAnalysis says: no barriers are needed
\* around calls.  The callers of a function are ordered against it as well.
NoRace == AtOp => ~EntriesRace(Arriving, Accesses(CurrentOp))

\* A buffer of a function that has been accessed and will be again.
LiveAt(f, k, b) ==
    LET uses == {j \in 1..Len(Code(f)) : b \in Code(f)[j].reads \cup Code(f)[j].writes}
    IN  \E i, j \in uses : i <= k /\ k <= j

\* What ModuleAllocation says: each call passes the start of the memory
\* reserved for it, so that a callee never writes to a buffer that is live
\* across the call.
CallerBuffersKept ==
    AtOp => \A d \in 1..(Depth - 1) : \A b \in Buffers :
        LET caller == frames[d]
        IN  LiveAt(caller.func, caller.next - 1, b)
              => \A e \in Accesses(CurrentOp) :
                   e.write => ~Intersects(e.place, Shift(mod.place[caller.func][b],
                                                         caller.base))

\* What the fatal error in doWalk says: the walk does not enter a function it
\* is inside of.
NoReentry ==
    \A j, k \in 1..Len(walkStack) :
        walkStack[j].func = walkStack[k].func => j = k

-----------------------------------------------------------------------------
(***************************************************************************)
(* The inductive invariant behind CalleesFirst and NoRaceAfterCall.         *)
(***************************************************************************)

\* The calls behind an activation lead to final functions, but for the one
\* the next activation is in.
WalkSound ==
    /\ pc = "analyse" => walkStack # <<>> /\ Edges(Top) = {} /\ Top.func \in analysed
    /\ pc \in {"run", "finished"} => walkStack = <<>>
    /\ \A j \in 1..Len(walkStack) :
         LET a == walkStack[j]
         IN  \A k \in 1..(a.next - 1) :
               IsCall(a.func, k) =>
                 \/ Final(Code(a.func)[k].callee)
                 \/ /\ k = a.next - 1 /\ j < Len(walkStack)
                    /\ walkStack[j + 1].func = Code(a.func)[k].callee

\* The roots the walk has passed are final, but for the one it is in.
RootsWalked ==
    \A r \in 1..(nextRoot - 1) : IsRoot(r) =>
        \/ Final(r)
        \/ walkStack # <<>> /\ walkStack[1].func = r

\* What is in flight at operation k of f, behind a barrier put before it.
ReachedAt(f, k) == IF k \in barriers[f] THEN NoInfo ELSE reaching[f][k]

\* Operation k meets nothing in flight and is in flight behind itself.
VisitedRight(f, k) ==
    LET cur == CurBlockInfo(f, Code(f)[k])
    IN  Code(f)[k].kind # "barrier" =>
          /\ ~IsIntersected(ReachedAt(f, k), cur)
          /\ Within(Join(ReachedAt(f, k), cur), reaching[f][k + 1])

AnalysisSound ==
    \A f \in analysed :
        /\ Len(reaching[f]) \in 1..(Len(Code(f)) + 1)
        /\ \A k \in 1..(Len(reaching[f]) - 1) : VisitedRight(f, k)
        /\ Final(f) => /\ Len(reaching[f]) = Len(Code(f)) + 1
                       /\ summary[f] = reaching[f][Len(reaching[f])]

Below(e, info) == e.place \in IF e.write THEN info.writes ELSE info.reads

InFlight(frame) == reaching[frame.func][frame.next]

\* The functions being executed are final and call each other, and what is
\* pending in one of them is in flight where it has got to.
ExecutionSound ==
    /\ pc \in {"walk", "analyse"} => pending = {}
    /\ pc = "run" =>
         /\ frames # <<>>
         /\ \A d \in 1..Depth :
              LET c == frames[d]
              IN  /\ Final(c.func) /\ c.base = 0
                  /\ c.next <= Len(Code(c.func)) + 1
                  /\ d < Depth => /\ c.next > 1 /\ IsCall(c.func, c.next - 1)
                                  /\ Code(c.func)[c.next - 1].callee = frames[d + 1].func
         /\ \A e \in pending : e.depth \in 1..Depth /\ Below(e, InFlight(frames[e.depth]))

\* The walk, the analyses and the execution of their result hang together.
ModuleInv ==
    /\ TypeOK
    /\ CalleesFirst
    /\ WalkSound
    /\ RootsWalked
    /\ AnalysisSound
    /\ ExecutionSound

=============================================================================
