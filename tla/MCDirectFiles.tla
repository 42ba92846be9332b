----------------------------- MODULE MCDirectFiles -----------------------------
(***************************************************************************)
(* Small instances of the direct files.  Flows of one kind are             *)
(* interchangeable.                                                        *)
(***************************************************************************)
EXTENDS DirectFiles, TLC

Symmetry ==
  Permutations(Exists) \cup Permutations(Readers) \cup Permutations(Writers) \cup
  Permutations(Binds) \cup Permutations(Streams) \cup Permutations(Others)
===============================================================================
