-------------------------------- MODULE Uring --------------------------------
(***************************************************************************)
(* The kernel side of an io_uring instance, modelled from how the reactor  *)
(* uses it: a submission queue, the requests the kernel works on, and a    *)
(* completion queue.  A request is an operation, the AsyncCancel aimed at  *)
(* an operation, or a detached request.  It carries the user_data it was   *)
(* pushed with, and every completion it posts carries that user_data back. *)
(*                                                                         *)
(* A multishot operation may post completions that announce more of them   *)
(* (F_MORE) before the last one; every other request posts exactly one.    *)
(* An AsyncCancel finds its target by user_data among the requests the     *)
(* kernel holds, and completes whether or not it found one.                *)
(***************************************************************************)
EXTENDS Operations, Sequences

CONSTANTS
  Detached,       (* Detached requests.                                   *)
  IgnoreKey,      (* user_data of whatever is not an operation.           *)
  SqSize,         (* Entries of the submission queue.                     *)
  MaxMore         (* Bound: F_MORE completions of one operation.          *)

ASSUME UringAssumption ==
  /\ IgnoreKey \notin Keys
  /\ SqSize \in Nat
  /\ MaxMore \in Nat

VARIABLES
  sq,             (* Submission queue: requests the kernel has not seen.  *)
  cq,             (* Completion queue.                                    *)
  stage,          (* How far each request has got.                        *)
  userData,       (* The user_data of each request.                       *)
  posted,         (* How many F_MORE completions each operation posted.   *)
  aborted         (* The operations an AsyncCancel has found.             *)

uringVars == <<sq, cq, stage, userData, posted, aborted>>

Op(o)     == [kind |-> "op", id |-> o]
Cancel(o) == [kind |-> "cancel", id |-> o]
Det(d)    == [kind |-> "detached", id |-> d]

Requests == [kind : {"op", "cancel"}, id : Ops] \cup [kind : {"detached"}, id : Detached]

(* none: not pushed; sq: pushed; kernel: consumed by the kernel;            *)
(* cq: its last completion is posted; done: that completion is consumed.    *)
Stages == {"none", "sq", "kernel", "cq", "done"}

(* The entries of the completion queue. *)
Cqes == [req : Requests, userData : Keys \cup {IgnoreKey}, n : Nat, more : BOOLEAN]

InitUring ==
  /\ sq = <<>>
  /\ cq = <<>>
  /\ stage = [r \in Requests |-> "none"]
  /\ userData = [r \in Requests |-> IgnoreKey]
  /\ posted = [o \in Ops |-> 0]
  /\ aborted = {}

SqFull == Len(sq) = SqSize

(* SubmissionQueue::push of request r with user_data u. *)
Push(r, u) ==
  /\ ~SqFull
  /\ sq' = Append(sq, r)
  /\ stage' = [stage EXCEPT ![r] = "sq"]
  /\ userData' = [userData EXCEPT ![r] = u]
  /\ UNCHANGED <<cq, posted, aborted>>

Completion(r, n, m) == [req |-> r, userData |-> userData[r], n |-> n, more |-> m]

(* The completion of r that is its last. *)
Last(r) == Completion(r, IF r.kind = "op" THEN posted[r.id] + 1 ELSE 1, FALSE)

(* The kernel takes the next entry of the submission queue to work on. *)
Consume ==
  /\ sq # <<>>
  /\ Head(sq).kind # "cancel"
  /\ sq' = Tail(sq)
  /\ stage' = [stage EXCEPT ![Head(sq)] = "kernel"]
  /\ UNCHANGED <<cq, userData, posted, aborted>>

(* The operations in the kernel that an AsyncCancel of o's key matches. *)
Targets(o) ==
  {t \in Ops : stage[Op(t)] = "kernel" /\ userData[Op(t)] = userData[Op(o)]}

(* The kernel executes an AsyncCancel as soon as it consumes it. *)
ConsumeCancel ==
  /\ sq # <<>>
  /\ Head(sq).kind = "cancel"
  /\ sq' = Tail(sq)
  /\ stage' = [stage EXCEPT ![Head(sq)] = "cq"]
  /\ aborted' = aborted \cup Targets(Head(sq).id)
  /\ cq' = Append(cq, Last(Head(sq)))
  /\ UNCHANGED <<userData, posted>>

(* The kernel refuses the next entry and completes it with an error; an     *)
(* AsyncCancel has nothing it could be refused for.                         *)
Refuse ==
  /\ sq # <<>>
  /\ Head(sq).kind # "cancel"
  /\ sq' = Tail(sq)
  /\ stage' = [stage EXCEPT ![Head(sq)] = "cq"]
  /\ cq' = Append(cq, Last(Head(sq)))
  /\ UNCHANGED <<userData, posted, aborted>>

(* A request ends: with success, an error, or because it was cancelled. *)
Complete(r) ==
  /\ stage[r] = "kernel"
  /\ stage' = [stage EXCEPT ![r] = "cq"]
  /\ cq' = Append(cq, Last(r))
  /\ UNCHANGED <<sq, userData, posted, aborted>>

(* A multishot operation posts a completion and stays armed. *)
CompleteMore(o) ==
  /\ o \in Multishot
  /\ stage[Op(o)] = "kernel"
  /\ posted[o] < MaxMore
  /\ posted' = [posted EXCEPT ![o] = @ + 1]
  /\ cq' = Append(cq, Completion(Op(o), posted[o] + 1, TRUE))
  /\ UNCHANGED <<sq, stage, userData, aborted>>

(* The completion queue's head is consumed by the reactor. *)
Pop ==
  /\ cq # <<>>
  /\ cq' = Tail(cq)
  /\ stage' = IF Head(cq).more THEN stage ELSE [stage EXCEPT ![Head(cq).req] = "done"]
  /\ UNCHANGED <<sq, userData, posted, aborted>>
=============================================================================
