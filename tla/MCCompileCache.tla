--------------------------- MODULE MCCompileCache ---------------------------
(***************************************************************************)
(* Instances of CompileCache: two processes and the outputs of the MACA     *)
(* backend: one that is kept on demand (llir) and one that is run.          *)
(***************************************************************************)
EXTENDS CompileCache, TLC

MCStages == <<"llir", "mcfatbin">>

CONSTANTS p, q

ProcSymmetry == Permutations(Procs)

=============================================================================
