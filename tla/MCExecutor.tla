------------------------------ MODULE MCExecutor ------------------------------
(***************************************************************************)
(* Small instances of the executor.  The events are interchangeable, and   *)
(* so are the tasks other than the root.                                   *)
(***************************************************************************)
EXTENDS Executor, TLC

Symmetry == Permutations(Events) \cup Permutations(Tasks \ {Root})
===============================================================================
