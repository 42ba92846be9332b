------------------------------- MODULE Mailbox -------------------------------
(***************************************************************************)
(* What the reactor promises the client of an operation: a private FIFO    *)
(* mailbox.  It is opened by the submission, receives the results of that  *)
(* operation and of no other, in the order they happened, none twice and   *)
(* none missing, is sealed by the last one, and is emptied when the client *)
(* drops the submission; after that nothing arrives in it.                 *)
(***************************************************************************)
EXTENDS Operations, Sequences

VARIABLES
  phase,          (* idle, open, sealed by the last result, or dropped.   *)
  box,            (* The results waiting in each mailbox.                 *)
  got             (* The results its client has taken.                    *)

mailboxVars == <<phase, box, got>>

Init ==
  /\ phase = [o \in Ops |-> "idle"]
  /\ box = [o \in Ops |-> <<>>]
  /\ got = [o \in Ops |-> <<>>]

Open(o) ==
  /\ phase[o] = "idle"
  /\ phase' = [phase EXCEPT ![o] = "open"]
  /\ UNCHANGED <<box, got>>

(* The next result of o arrives; more tells whether others will follow. *)
Receive(o, more) ==
  /\ phase[o] = "open"
  /\ more => o \in Multishot
  /\ box' = [box EXCEPT ![o] = Append(@, Result(o, Len(got[o]) + Len(@) + 1, more))]
  /\ phase' = [phase EXCEPT ![o] = IF more THEN "open" ELSE "sealed"]
  /\ UNCHANGED got

Take(o) ==
  /\ phase[o] \in {"open", "sealed"}
  /\ box[o] # <<>>
  /\ got' = [got EXCEPT ![o] = Append(@, Head(box[o]))]
  /\ box' = [box EXCEPT ![o] = Tail(@)]
  /\ UNCHANGED phase

Drop(o) ==
  /\ phase' = [phase EXCEPT ![o] = "dropped"]
  /\ box' = [box EXCEPT ![o] = <<>>]
  /\ UNCHANGED got

Next == \E o \in Ops :
  \/ Open(o)
  \/ \E more \in BOOLEAN : Receive(o, more)
  \/ Take(o)
  \/ Drop(o)

Spec == Init /\ [][Next]_mailboxVars
==============================================================================
