----------------------------- MODULE MCSubmission -----------------------------
(***************************************************************************)
(* Small instances of the reactor.  Keys are interchangeable, and so are   *)
(* the operations o1 and o2, which every instance puts in the same class.  *)
(***************************************************************************)
EXTENDS SubmissionInv, TLC

CONSTANTS o1, o2, o3

KeySymmetry == Permutations(Keys)
Symmetry == Permutations(Keys) \cup Permutations({o1, o2})
===============================================================================
