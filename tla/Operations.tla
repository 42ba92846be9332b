------------------------------ MODULE Operations ------------------------------
(***************************************************************************)
(* The names shared by the two ends of the ring: the operations and the    *)
(* keys that identify them while they are in flight.                       *)
(***************************************************************************)
EXTENDS Naturals

CONSTANTS
  Ops,            (* Operations: each is submitted at most once.          *)
  Multishot,      (* Those that may complete more than once.              *)
  Keys            (* The keys the completion slab hands out.              *)

ASSUME MultishotAssumption == Multishot \subseteq Ops

(* A RingResult: which completion of which operation it is (standing for    *)
(* the return value and the flags) and whether F_MORE is set.               *)
Result(o, n, m) == [op |-> o, n |-> n, more |-> m]
Results == [op : Ops, n : Nat, more : BOOLEAN]
===============================================================================
