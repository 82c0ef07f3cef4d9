---------------------------- MODULE MemoryLayout ----------------------------
(***************************************************************************)
(* What shared-memory allocation promises: in one step, every buffer gets   *)
(* an aligned offset, buffers that are live together get disjoint memory,   *)
(* and the total size covers all of them.                                   *)
(***************************************************************************)
EXTENDS BlockInfo

CONSTANT Buffers

\* A buffer's request: its size and alignment in bytes, and the range of
\* operations over which it is live.
Request == [size : Nat \ {0}, alignment : Nat \ {0}, live : Interval]

VARIABLES
    request,   \* [Buffers -> Request]
    placed,    \* the offsets are final
    offset,    \* the offset of each buffer
    total      \* the kernel's shared memory size

\* getAllocatedInterval
Memory(req, off, b) == [start |-> off[b], end |-> off[b] + req[b].size]

Aligned(off, alignment) == \E k \in 0..off : off = k * alignment

\* Two buffers that are live at one operation share no byte.
Disjoint(req, off) ==
    \A x, y \in Buffers :
        x # y /\ Intersects(req[x].live, req[y].live)
          => ~Intersects(Memory(req, off, x), Memory(req, off, y))

Correct(req, off, size) ==
    /\ Disjoint(req, off)
    /\ \A b \in Buffers : /\ Aligned(off[b], req[b].alignment)
                          /\ Memory(req, off, b).end <= size

Init == /\ ~placed
        /\ total = 0
        /\ offset = [b \in Buffers |-> 0]

Place == /\ ~placed /\ placed'
         /\ UNCHANGED request
         /\ Correct(request, offset', total')

Spec == Init /\ [][Place]_<<request, placed, offset, total>>

=============================================================================
