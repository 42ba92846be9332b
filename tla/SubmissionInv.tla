----------------------------- MODULE SubmissionInv -----------------------------
(***************************************************************************)
(* The inductive invariants of the reactor.  IInv stands alone and keeps   *)
(* the keys valid; on top of it OwnerInv is about the resources, HeldInv   *)
(* about leaks and wakeups, CancelInv about cancellations, and NumberInv   *)
(* about the order of results.                                             *)
(***************************************************************************)
EXTENDS Submission

(* Keys and user_data agree on which completions belong to operations. *)
Tags ==
  /\ \A o \in Ops : state[o] = "Submitted" => userData[Op(o)] \in Keys
  /\ \A r \in Requests : r.kind # "op" => userData[r] = IgnoreKey
  /\ \A i \in 1 .. Len(cq) : cq[i].userData # IgnoreKey => cq[i].req.kind = "op"

StateInv == StateOK /\ Tags

(* The last completion of operation o has not been consumed. *)
Armed(o) == stage[Op(o)] \in {"sq", "kernel", "cq"}

(* A request is in the submission queue once, while its stage says so. *)
SqOnce ==
  /\ \A i \in 1 .. Len(sq) : stage[sq[i]] = "sq"
  /\ \A i, j \in 1 .. Len(sq) : sq[i] = sq[j] => i = j

(* A posted completion carries the user_data of its request, and nothing of *)
(* that request is behind its last completion.                              *)
CqOnce ==
  /\ \A i \in 1 .. Len(cq) :
       /\ stage[cq[i].req] \in {"kernel", "cq"}
       /\ cq[i].userData = userData[cq[i].req]
       /\ ~cq[i].more => stage[cq[i].req] = "cq"
       /\ cq[i].more => cq[i].req.kind = "op" /\ cq[i].req.id \in Multishot
  /\ \A i, j \in 1 .. Len(cq) : i < j /\ cq[i].req = cq[j].req => cq[i].more

(* Neither an operation nor its AsyncCancel is pushed twice. *)
PushedOnce ==
  \A o \in Ops :
    /\ state[o] = "Initial" => stage[Op(o)] = "none"
    /\ state[o] \in {"Initial", "Submitted"} => stage[Cancel(o)] = "none"

(* The slab entry under the key of an armed operation is its own and can    *)
(* take a completion; a cancelled one can take only the last.               *)
ArmedEntry(o) ==
  LET c == slab[KeyOf(o)]
  IN  \/ c.state = "Vacant" /\ c.waker = o
      \/ c.state = "Multiple" /\ c.waker = o /\ c.more
      \/ c.state = "Cancelled" /\ c.cancel = o /\ o \notin Multishot

(* The entry of an operation that has completed but not delivered it all. *)
UnreadEntry(o) ==
  LET c == slab[KeyOf(o)]
  IN  \/ c.state = "Single" /\ c.result.op = o
      \/ c.state = "Multiple" /\ c.waker = o /\ ~c.more

Entries ==
  /\ \A o \in Ops : Armed(o) => KeyOf(o) \in Keys /\ ArmedEntry(o)
  /\ \A o \in Ops : state[o] = "Submitted" =>
       IF Armed(o) THEN slab[KeyOf(o)].state # "Cancelled" ELSE UnreadEntry(o)

KeyInv == SqOnce /\ CqOnce /\ PushedOnce /\ Entries

(* No two entries share a result queue, and an unused one is empty. *)
QueuesPrivate ==
  /\ \A i \in 1 .. Len(unused) : queues[unused[i]] = <<>>
  /\ \A i, j \in 1 .. Len(unused) : unused[i] = unused[j] => i = j
  /\ \A k \in Keys : slab[k].state = "Multiple" =>
       /\ \A i \in 1 .. Len(unused) : slab[k].handle # unused[i]
       /\ \A l \in Keys :
            slab[l].state = "Multiple" /\ slab[l].handle = slab[k].handle => l = k

(* The results in the queue q of entry c are of its own operation, and      *)
(* exactly the last one of an operation that has ended is without F_MORE.   *)
HoldsOwn(c, q) ==
  /\ \A i \in 1 .. Len(q) : q[i].op = c.waker /\ (q[i].more <=> i < Len(q) \/ c.more)
  /\ c.more \/ q # <<>>

ResultsPrivate ==
  \A k \in Keys :
    /\ slab[k].state = "Single" => ~slab[k].result.more
    /\ slab[k].state = "Multiple" => HoldsOwn(slab[k], queues[slab[k].handle])

QueueInv == QueuesPrivate /\ ResultsPrivate

(* The inductive invariant: a full submission queue is the only panic, and  *)
(* without one the queues, the stages, the keys and the slab agree.         *)
Sound == panic = "none" /\ KeyInv /\ QueueInv
Stopped == panic = "queue_full" /\ pc = "run"
IInv == StateInv /\ (Stopped \/ Sound)

(* Where the resources of an operation are, when no multishot operation is  *)
(* awaited: with its submission until that has returned its last result or  *)
(* is dropped, and then, as long as the operation is armed, with the        *)
(* cancellation in its own entry.                                           *)
OwnerInv ==
  /\ \A o \in Ops : state[o] \in {"Initial", "Submitted"} => owner[o] = "submission"
  /\ \A o \in Ops :
       Armed(o) /\ state[o] \notin {"Initial", "Submitted"} => owner[o] = "cancellation"
  /\ \A k \in Keys : slab[k].state = "Multiple" => slab[k].waker \in Multishot

(* Every entry of the slab has a submission that waits for it or, when it   *)
(* is cancelled, an operation whose last completion will remove it.         *)
EntriesHeld ==
  \A k \in Keys : slab[k] # Finished =>
    \E o \in Ops :
      /\ userData[Op(o)] = k
      /\ IF slab[k].state = "Cancelled" THEN Armed(o) ELSE state[o] = "Submitted"

(* Every result queue is unused or held by an entry. *)
QueuesHeld ==
  \A h \in 1 .. Len(queues) :
    \/ \E i \in 1 .. Len(unused) : unused[i] = h
    \/ \E k \in Keys : slab[k].state = "Multiple" /\ slab[k].handle = h

(* While the program runs nothing in the slab leaks, and no wakeup is lost. *)
HeldInv == (panic = "none" => EntriesHeld /\ QueuesHeld) /\ NoLostWakeup

(* An AsyncCancel is in the submission queue as long as its stage says so,  *)
(* in front of every other operation that was given the same key: none of   *)
(* these is in the kernel.                                                  *)
CancelInOrder ==
  \A o \in Ops : stage[Cancel(o)] = "sq" =>
    \E j \in 1 .. Len(sq) :
      /\ sq[j] = Cancel(o)
      /\ \A p \in Ops : p # o /\ KeyOf(p) = KeyOf(o) =>
           /\ stage[Op(p)] # "kernel"
           /\ \A i \in 1 .. Len(sq) : sq[i] = Op(p) => j < i

(* Only a dropped submission has pushed an AsyncCancel. *)
CancelInv ==
  /\ CancelInOrder
  /\ CancelHitsItsTarget
  /\ \A o \in Ops : stage[Cancel(o)] # "none" => state[o] = "Dropped"

(* The results of operation o that have reached the table, and those that   *)
(* the kernel has posted.                                                   *)
Received(o) == Len(delivered[o]) + Len(BoxOf(o))
Posted(o) == posted[o] + IF stage[Op(o)] \in {"cq", "done"} THEN 1 ELSE 0

(* The completions of a waiting operation in the completion queue are those *)
(* that have not reached the table, in the order they were posted.          *)
Numbered(o) ==
  /\ Received(o) <= Posted(o)
  /\ \A i \in 1 .. Len(cq) : cq[i].req = Op(o) => Received(o) < cq[i].n /\ cq[i].n <= Posted(o)
  /\ \A i, j \in 1 .. Len(cq) :
       cq[i].req = Op(o) /\ cq[j].req = Op(o) /\ i < j => cq[i].n < cq[j].n
  /\ \A n \in Received(o) + 1 .. Posted(o) :
       \E i \in 1 .. Len(cq) : cq[i].req = Op(o) /\ cq[i].n = n

NumberInv ==
  /\ \A o \in Ops : state[o] = "Initial" => delivered[o] = <<>> /\ posted[o] = 0
  /\ \A o \in Ops : state[o] = "Submitted" => Numbered(o)
===============================================================================
