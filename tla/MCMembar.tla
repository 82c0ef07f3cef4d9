------------------------------ MODULE MCMembar ------------------------------
(***************************************************************************)
(* Instances of MembarKernel: control-flow graphs of three and four blocks, *)
(* filled with every short list of the operations below.                    *)
(***************************************************************************)
EXTENDS MembarKernel

Iv(s, e) == [start |-> s, end |-> e]

\* Two buffers whose memory overlaps (reuse), one apart, touching the second.
BufA == Iv(0, 2)
BufB == Iv(1, 3)
BufC == Iv(3, 4)

Access == [kind |-> "access", intrinsic |-> FALSE, reads |-> {}, writes |-> {},
           operands |-> {}, scratch |-> {}]

Load(buf)    == [Access EXCEPT !.reads = {buf}]
Store(buf)   == [Access EXCEPT !.writes = {buf}]
Dot(buf)     == [Access EXCEPT !.operands = {buf}]
Reduce(buf)  == [Access EXCEPT !.scratch = {buf}]
\* convert_layout of a value in shared memory: a source and a scratch buffer.
Convert(src, buf) == [Access EXCEPT !.reads = {src}, !.scratch = {buf}]
IntrinsicStore(buf) == [Access EXCEPT !.writes = {buf}, !.intrinsic = TRUE]
Barrier   == [Access EXCEPT !.kind = "barrier"]
AsyncWait == [Access EXCEPT !.kind = "async_wait"]

Ops == {Load(BufA), Store(BufB), Store(BufC), Dot(BufC), Reduce(BufC),
        Convert(BufA, BufC), IntrinsicStore(BufA), Barrier, AsyncWait}
FewOps == {Load(BufB), Store(BufA), Reduce(BufC), AsyncWait}

Lists(ops, n) == UNION {[1..k -> ops] : k \in 0..n}

FewerOps == {Load(BufB), Store(BufA), Reduce(BufC)}

\* entry -> body -> {body, exit}: a loop of one block; `other' is unreachable.
LoopSucc == [entry |-> <<"body">>, body |-> <<"body", "exit">>,
             other |-> <<"exit">>, exit |-> <<>>]
LoopFunctions ==
    {[code |-> [entry |-> e, body |-> l, other |-> <<>>, exit |-> x],
      succ |-> LoopSucc] :
     e \in Lists(FewOps, 1), l \in Lists(Ops, 2), x \in Lists(FewOps, 1)}

\* An inner loop `body' in an outer loop headed by `other'.
NestSucc == [entry |-> <<"other">>, other |-> <<"body", "exit">>,
             body |-> <<"body", "other">>, exit |-> <<>>]
NestFunctions ==
    {[code |-> [entry |-> e, body |-> l, other |-> o, exit |-> <<>>],
      succ |-> NestSucc] :
     e \in Lists(FewerOps, 1), l \in Lists(FewOps, 2), o \in Lists(FewerOps, 1)}

LoopAndNestFunctions == LoopFunctions \cup NestFunctions

\* A conditional: body and other are its branches.  The second form returns
\* early from one of them, the third has one branch only and reaches the exit
\* before it.
DiamondSucc == [entry |-> <<"body", "other">>, body |-> <<"exit">>,
                other |-> <<"exit">>, exit |-> <<>>]
EarlyReturnSucc == [entry |-> <<"body", "other">>, body |-> <<>>,
                    other |-> <<"exit">>, exit |-> <<>>]
OneBranchSucc == [entry |-> <<"exit", "body">>, body |-> <<"exit">>,
                  other |-> <<>>, exit |-> <<>>]
AcyclicOver(others, succs) ==
    {[code |-> [entry |-> e, body |-> l, other |-> o, exit |-> x],
      succ |-> s] :
     e \in Lists(FewOps, 1), l \in Lists(Ops, 1), o \in others,
     x \in Lists({Store(BufB), Convert(BufA, BufC), IntrinsicStore(BufA)}, 2),
     s \in succs}
AcyclicFunctions ==
    AcyclicOver(Lists(FewerOps, 1), {DiamondSucc, EarlyReturnSucc})
    \cup AcyclicOver({<<>>}, {OneBranchSucc})

=============================================================================
