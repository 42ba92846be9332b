------------------------------ MODULE MCBuffered ------------------------------
(* Buffered with two writers that share a set, one of them read. *)
EXTENDS Buffered
================================================================================
