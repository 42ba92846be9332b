------------------------------- MODULE ByteStream -------------------------------
(***************************************************************************)
(* What a buffered writer and a buffered reader promise together: bytes    *)
(* come out in the order in which they went in, none is lost, repeated or  *)
(* made up, and after a flush the sink has them all.  Bytes are numbered   *)
(* in the order in which the writer accepts them.                          *)
(***************************************************************************)
EXTENDS Integers, Sequences

VARIABLES
  accepted,       (* How many bytes poll_write has accepted.              *)
  promised,       (* How many of them a poll_flush has said are written.  *)
  sunk,           (* The bytes the sink has.                              *)
  got             (* The bytes the reader has handed out.                 *)

Upto(n) == [i \in 1 .. n |-> i]

Init ==
  /\ accepted = 0
  /\ promised = 0
  /\ sunk = <<>>
  /\ got = <<>>

Accept ==
  /\ accepted' \in Nat \ 0 .. accepted
  /\ UNCHANGED <<promised, sunk, got>>

Sink ==
  /\ \E n \in Len(sunk) + 1 .. accepted : sunk' = Upto(n)
  /\ UNCHANGED <<accepted, promised, got>>

Promise ==
  /\ Len(sunk) = accepted
  /\ promised' = accepted
  /\ UNCHANGED <<accepted, sunk, got>>

Receive ==
  /\ \E n \in Len(got) + 1 .. Len(sunk) : got' = Upto(n)
  /\ UNCHANGED <<accepted, promised, sunk>>

Next == Accept \/ Sink \/ Promise \/ Receive

Spec == Init /\ [][Next]_<<accepted, promised, sunk, got>>

================================================================================
