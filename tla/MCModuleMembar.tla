--------------------------- MODULE MCModuleMembar ---------------------------
(***************************************************************************)
(* Instances of ModuleMembar: a function 1 that may call 2 and 3, and 2     *)
(* that may call 3, filled with every short list of operations to which     *)
(* ModuleAllocation may have given the places below.                        *)
(***************************************************************************)
EXTENDS ModuleMembar

Iv(s, e) == [start |-> s, end |-> e]

Nop == [kind |-> "access", reads |-> {}, writes |-> {}, callee |-> 1, virtual |-> 0]
Load(b)  == [Nop EXCEPT !.reads = {b}]
Store(b) == [Nop EXCEPT !.writes = {b}]
Sync     == [Nop EXCEPT !.kind = "barrier"]
CallTo(f, off) == [Nop EXCEPT !.kind = "call", !.callee = f, !.virtual = off]

Lists(ops, n) == UNION {[1..k -> ops] : k \in 0..n}

\* Buffers that are live at one operation are apart, also from the virtual
\* buffers of calls, which hold what the callee needs.
Allocated(m) ==
    \A f \in Functions :
        LET code == m.code[f]
            uses(b) == {k \in 1..Len(code) : b \in code[k].reads \cup code[k].writes}
            live(b) == {k \in 1..Len(code) : \E i, j \in uses(b) : i <= k /\ k <= j}
            virtual(op) == Iv(op.virtual, op.virtual + m.size[op.callee])
        IN  /\ \A b, c \in Buffers :
                 b # c /\ live(b) \cap live(c) # {}
                   => ~Intersects(m.place[f][b], m.place[f][c])
            /\ \A k \in 1..Len(code) : code[k].kind = "call" =>
                 /\ virtual(code[k]).end <= m.size[f]
                 /\ \A b \in Buffers : k \in live(b)
                      => ~Intersects(m.place[f][b], virtual(code[k]))

\* Buffers x and y of function 1 share memory; the room for a call follows
\* them, or is in their place where they are dead.
Place == <<[x |-> Iv(0, 2), y |-> Iv(1, 3)],
           [x |-> Iv(0, 2), y |-> Iv(2, 4)],
           [x |-> Iv(0, 2), y |-> Iv(1, 3)]>>
Size == <<9, 6, 3>>

ModulesOf(code1, code2, code3) ==
    {m \in {[code |-> <<c, d, e>>, place |-> Place, size |-> Size] :
            c \in code1, d \in code2, e \in code3} : Allocated(m)}

CallingModules ==
    ModulesOf(Lists({Load("x"), Store("y"), CallTo(2, 0), CallTo(3, 3)}, 3),
              Lists({Load("x"), Store("x"), Store("y"), CallTo(3, 2)}, 2),
              Lists({Load("x"), Store("y"), Sync}, 2))

\* Calls whose virtual buffer is at offset 0, with a buffer that is dead.
CallsAtZero ==
    ModulesOf(Lists({Load("x"), Store("y"), CallTo(2, 0)}, 3),
              Lists({Load("x"), Store("x"), Store("y"), Sync}, 3),
              {<<>>})

\* Two functions that call each other or, the first of them, itself.
RecursiveModules ==
    ModulesOf({<<CallTo(2, 0)>>}, {<<Load("x"), CallTo(2, 0)>>}, {<<>>})
    \cup {[code |-> <<<<CallTo(2, 0)>>, <<CallTo(3, 0)>>, <<CallTo(2, 0), Load("x")>>>>,
           place |-> Place, size |-> Size]}

=============================================================================
