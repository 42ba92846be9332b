--------------------------- MODULE SubmissionSafety ---------------------------
(***************************************************************************)
(* What follows from IInv, one inductive invariant on top of it at a time: *)
(* OwnerInv gives ResourcesOutliveKernel and OpTakenOnce, the counters are *)
(* exact, which completes TypeOK, HeldInv gives NoLostWakeup,              *)
(* DroppedNeverWoken and IsDoneIsExact, and CancelInv gives                *)
(* CancelHitsItsTarget.                                                    *)
(***************************************************************************)
EXTENDS SubmissionKeys

(* A state of a running program, with the owners. *)
Safe == StateInv /\ Sound /\ OwnerInv

(* Steps that leave the submissions and the owners alone keep OwnerInv as   *)
(* long as no operation becomes armed.                                      *)
LEMMA OwnerFrame ==
  ASSUME OwnerInv, UNCHANGED <<owner, state>>,
         \A o \in Ops : Armed(o)' => Armed(o),
         \A k \in Keys : slab'[k].state = "Multiple" => slab'[k].waker \in Multishot
  PROVE  OwnerInv'
BY DEF OwnerInv

(* A poll hands the resources of an operation to the caller only with the   *)
(* last result, when the kernel is done with it.                            *)
LEMMA PollOwner ==
  ASSUME Safe, Awaited \cap Multishot = {}, NEW o \in Ops, Poll(o)
  PROVE  OwnerInv'
<1> USE DEF Safe
<1>1. CASE FirstPoll(o)
  <2>1. /\ UNCHANGED owner /\ state[o] = "Initial"
        /\ state' = [state EXCEPT ![o] = IF SqFull THEN "Initial" ELSE "Submitted"]
    BY <1>1 DEF FirstPoll, Submit
  <2>2. PICK k \in Keys : Submit(o, k)
    BY <1>1 DEF FirstPoll
  <2>3. \A l \in Keys : slab'[l].state = "Multiple" => slab'[l] = slab[l]
    BY <2>2 DEF Submit, Insert, Vacant, StateInv, StateOK
  <2>4. \A p \in Ops : p # o => (Armed(p)' <=> Armed(p))
    <3>1. CASE UNCHANGED uringVars
      BY <3>1 DEF Armed, uringVars
    <3>2. CASE Push(Op(o), k)
      BY <3>2, RequestTypes DEF Armed, Push, StateInv, StateOK
    <3> QED
      BY <2>2, <3>1, <3>2 DEF Submit
  <2>5. \A p \in Ops : p # o => state'[p] = state[p]
    BY <2>1 DEF StateInv, StateOK
  <2>6. state'[o] \in {"Initial", "Submitted"}
    BY <2>1 DEF StateInv, StateOK
  <2> QED
    BY <2>1, <2>3, <2>4, <2>5, <2>6 DEF OwnerInv
<1>2. CASE PollPending(o)
  BY <1>2, OwnerFrame DEF PollPending, submissionVars, uringVars, Armed, OwnerInv
<1>3. CASE PollFuture(o) \/ PollStream(o)
  <2> DEFINE k == KeyOf(o)
             r == NextResult(k)
  <2>1. /\ state[o] = "Submitted" /\ HasResult(k) /\ TakeResult(k)
        /\ state' = [state EXCEPT ![o] = NextState(r)]
        /\ UNCHANGED stage
    BY <1>3 DEF PollFuture, PollStream, Pollable, uringVars
  <2>2. k \in Keys
    BY <2>1, OwnEntry
  <2>3. /\ r.more => slab' = slab
        /\ ~r.more => slab' = [slab EXCEPT ![k] = Finished]
        /\ slab[k].state \in {"Single", "Multiple"}
        /\ slab[k].state = "Multiple" /\ slab[k].more => r.more
    BY <2>1, <2>2, QueueTake DEF StateInv, Sound
  <2>4. \A l \in Keys : slab'[l].state = "Multiple" => slab'[l] = slab[l]
    BY <2>3 DEF StateInv, StateOK, Finished
  <2>5. \A p \in Ops : Armed(p)' <=> Armed(p)
    BY <2>1 DEF Armed
  <2>6. CASE r.more
    <3>1. slab[k].state = "Multiple" /\ slab[k].waker = o
      <4>1. slab[k].state = "Single" => ~slab[k].result.more
        BY <2>2 DEF Sound, QueueInv, ResultsPrivate
      <4>2. slab[k].state = "Multiple"
        BY <2>3, <2>6, <4>1 DEF NextResult
      <4> QED
        BY <2>1, <4>2 DEF Sound, KeyInv, Entries, ArmedEntry, UnreadEntry
    <3>2. o \in Multishot
      BY <2>2, <3>1 DEF OwnerInv
    <3>3. owner' = [owner EXCEPT ![o] = owner[o]] /\ NextState(r) = "Submitted"
      BY <1>3, <2>6, <3>2 DEF PollFuture, PollStream, OwnerAfterItem, NextState
    <3>4. UNCHANGED <<owner, state>>
      BY <2>1, <3>3 DEF StateInv, StateOK
    <3> QED
      BY <2>4, <2>5, <3>4, OwnerFrame DEF OwnerInv
  <2>7. CASE ~r.more
    <3>1. ~Armed(o)
      BY <2>1, <2>3, <2>7 DEF Sound, KeyInv, Entries, ArmedEntry
    <3>2. /\ \A p \in Ops : p # o => state'[p] = state[p] /\ owner'[p] = owner[p]
          /\ state'[o] = "Completed"
      BY <1>3, <2>1, <2>7 DEF StateInv, StateOK, PollFuture, PollStream, NextState
    <3> QED
      BY <2>4, <2>5, <3>1, <3>2 DEF OwnerInv
  <2> QED
    BY <2>6, <2>7
<1> QED
  BY <1>1, <1>2, <1>3 DEF Poll

(* Dropping a submission moves the resources into the cancellation          *)
(* exactly when the kernel still has the operation                          *)
(* (completion.rs:152-185).                                                 *)
LEMMA DropOwner ==
  ASSUME Safe, NEW o \in Ops, Drop(o)
  PROVE  OwnerInv'
<1> USE DEF Safe
<1>1. CASE DropInitial(o) \/ DropCompleted(o)
  <2>1. /\ state' = [state EXCEPT ![o] = "Dropped"] /\ UNCHANGED <<slab, stage>>
        /\ \A p \in Ops : p # o => owner'[p] = owner[p]
        /\ state[o] = "Initial" \/ (state[o] = "Completed" /\ owner' = owner)
    BY <1>1 DEF DropInitial, DropCompleted, completionVars, uringVars, StateInv, StateOK
  <2>2. \A p \in Ops : (Armed(p)' <=> Armed(p)) /\ (p # o => state'[p] = state[p])
    BY <2>1 DEF Armed, StateInv, StateOK
  <2>3. state'[o] = "Dropped"
    BY <2>1 DEF StateInv, StateOK
  <2>4. state[o] = "Initial" => ~Armed(o)
    BY DEF Sound, KeyInv, PushedOnce, Armed
  <2> QED
    BY <2>1, <2>2, <2>3, <2>4 DEF OwnerInv
<1>2. CASE DropSubmitted(o)
  <2> DEFINE k == KeyOf(o)
  <2>1. /\ state[o] = "Submitted" /\ CancelOp(o)
        /\ state' = [state EXCEPT ![o] = "Dropped"]
    BY <1>2 DEF DropSubmitted
  <2>2. /\ k \in Keys
        /\ IF Armed(o) THEN ArmedEntry(o) /\ slab[k].state # "Cancelled" ELSE UnreadEntry(o)
    BY <2>1, OwnEntry DEF Sound, KeyInv, Entries
  <2>3. ~CancelPanics(k) /\ (Armed(o) <=> MustCancel(k))
    BY <2>2 DEF CancelPanics, MustCancel, ArmedEntry, UnreadEntry
  <2>4. TryCancel(k, o)
    BY <2>1, <2>3 DEF CancelOp
  <2>5. /\ \A p \in Ops : p # o => state'[p] = state[p] /\ owner'[p] = owner[p]
        /\ state'[o] = "Dropped"
        /\ owner'[o] = IF MustCancel(k) THEN "cancellation" ELSE "dropped"
        /\ \A l \in Keys : slab'[l].state = "Multiple" => slab'[l] = slab[l]
    BY <2>1, <2>2, <2>4 DEF TryCancel, StateInv, StateOK, Cancelled, Finished
  <2>6. \A p \in Ops : Armed(p)' <=> Armed(p)
    <3>1. CASE UNCHANGED uringVars
      BY <3>1 DEF Armed, uringVars
    <3>2. CASE Push(Cancel(o), IgnoreKey)
      BY <3>2, RequestTypes DEF Armed, Push, StateInv, StateOK
    <3> QED
      BY <2>1, <3>1, <3>2 DEF CancelOp, PushCancel
  <2> QED
    BY <2>3, <2>5, <2>6 DEF OwnerInv
<1> QED
  BY <1>1, <1>2 DEF Drop

(* handle_completions drops the cancellation of an operation only with      *)
(* its last completion (completion.rs:216-219).                             *)
LEMMA RingOwner ==
  ASSUME Safe, RingStep, UNCHANGED submissionVars
  PROVE  OwnerInv'
<1> USE DEF Safe
<1>1. UNCHANGED state
  BY DEF submissionVars
<1>2. CASE Reap
  <2> DEFINE c == Head(cq)
             k == c.userData
             r == Result(c.req.id, c.n, c.more)
  <2>1. /\ c \in Cqes /\ k = userData[c.req] /\ stage[c.req] \in {"kernel", "cq"}
        /\ c.more => c.req.kind = "op" /\ c.req.id \in Multishot
        /\ \A q \in Requests : stage'[q] = IF q = c.req /\ ~c.more THEN "done" ELSE stage[q]
    BY <1>2, PopKeeps DEF Reap, StateInv
  <2>2. \A o \in Ops : Armed(o)' => Armed(o)
    BY <2>1, RequestTypes DEF Armed
  <2>3. CASE UNCHANGED completionVars
    BY <1>1, <2>2, <2>3, OwnerFrame DEF completionVars, OwnerInv
  <2>4. CASE k # IgnoreKey /\ TryNotify(k, r)
    <3>1. c.req \in Requests /\ k \in Keys
      BY <2>1, <2>4 DEF Cqes
    <3>2. PICK o \in Ops : c.req = Op(o) /\ c.req.id = o
      <4>1. c.req.kind = "op"
        BY <2>1, <2>4, <3>1 DEF StateInv, Tags
      <4> QED
        BY <3>1, <4>1, RequestTypes
    <3>3. KeyOf(o) = k /\ Armed(o) /\ ArmedEntry(o)
      BY <2>1, <3>2 DEF KeyOf, Armed, Sound, KeyInv, Entries
    <3>4. CASE NotifyVacant(k, r) \/ NotifyMultiple(k, r)
      <4>1. UNCHANGED owner /\ slab[k].waker = o
        BY <3>3, <3>4 DEF NotifyVacant, NotifyMultiple, ArmedEntry
      <4>2. \A l \in Keys : l # k => slab'[l] = slab[l]
        BY <3>1, <3>4 DEF NotifyVacant, NotifyMultiple, StateInv, StateOK
      <4>3. slab'[k].state = "Multiple" => slab'[k].waker = o /\ o \in Multishot
        <5>1. CASE NotifyVacant(k, r)
          <6>1. CASE r.more
            <7>1. o \in Multishot
              BY <2>1, <3>2, <6>1 DEF Result
            <7>2. slab'[k] = Multiple(slab[k].waker, NextHandle, TRUE)
              BY <3>1, <5>1, <6>1 DEF NotifyVacant, StateInv, StateOK
            <7> QED
              BY <4>1, <7>1, <7>2 DEF Multiple
          <6>2. CASE ~r.more
            <7>1. slab'[k] = Single(r)
              <8> HIDE DEF r, k
              <8> QED
                BY <3>1, <5>1, <6>2 DEF NotifyVacant, StateInv, StateOK
            <7> QED
              BY <7>1 DEF Single
          <6> QED
            BY <6>1, <6>2
        <5>2. CASE NotifyMultiple(k, r)
          <6>1. slab'[k] = Multiple(slab[k].waker, slab[k].handle, r.more) /\ slab[k].state = "Multiple"
            BY <3>1, <5>2 DEF NotifyMultiple, StateInv, StateOK
          <6>2. o \in Multishot
            BY <3>1, <4>1, <6>1 DEF OwnerInv
          <6> QED
            BY <4>1, <6>1, <6>2 DEF Multiple
        <5> QED
          BY <3>4, <5>1, <5>2
      <4>4. \A l \in Keys : slab'[l].state = "Multiple" => slab'[l].waker \in Multishot
        BY <4>2, <4>3 DEF OwnerInv
      <4> QED
        BY <1>1, <2>2, <4>1, <4>4, OwnerFrame
    <3>5. CASE NotifyCancelled(k, r)
      <4>1. slab[k].cancel = o /\ slab[k].state = "Cancelled" /\ o \notin Multishot
        BY <3>3, <3>5 DEF NotifyCancelled, ArmedEntry
      <4>2. state[o] \notin {"Initial", "Submitted"}
        BY <3>3, <4>1 DEF Sound, KeyInv, Entries, PushedOnce, Armed
      <4>3. ~Armed(o)'
        BY <2>1, <3>1, <3>2, <4>1 DEF Armed
      <4>4. /\ \A p \in Ops : p # o => owner'[p] = owner[p]
            /\ \A l \in Keys : slab'[l].state = "Multiple" => slab'[l] = slab[l]
        BY <3>1, <3>5, <4>1 DEF NotifyCancelled, StateInv, StateOK, Finished
      <4> QED
        BY <1>1, <2>2, <4>2, <4>3, <4>4 DEF OwnerInv
    <3> QED
      BY <2>4, <3>4, <3>5 DEF TryNotify
  <2> QED
    BY <1>2, <2>3, <2>4 DEF Reap, HandleIgnored, HandleCompletion
<1>3. ASSUME UNCHANGED <<owner, slab>>, NEW q \in Requests, stage[q] \in {"sq", "kernel"} \/ q.kind # "op",
             \A p \in Requests : p # q => stage'[p] = stage[p]
      PROVE  OwnerInv'
  <2>1. ASSUME NEW o \in Ops, Armed(o)'
        PROVE  Armed(o)
    <3>1. CASE q = Op(o)
      BY <1>3, <3>1 DEF Armed, Op
    <3>2. CASE q # Op(o)
      BY <1>3, <2>1, <3>2, RequestTypes DEF Armed
    <3> QED
      BY <3>1, <3>2
  <2> QED
    BY <1>1, <1>3, <2>1, OwnerFrame DEF OwnerInv
<1>4. CASE EnterSubmit \/ EnterRefused
  <2>1. /\ sq # <<>> /\ sq' = Tail(sq) /\ UNCHANGED <<owner, slab>>
        /\ \E s \in {"kernel", "cq"} : stage' = [stage EXCEPT ![Head(sq)] = s]
    BY <1>4 DEF EnterSubmit, EnterRefused, Consume, ConsumeCancel, Refuse, completionVars
  <2>2. Head(sq) \in Requests /\ stage[Head(sq)] = "sq"
    BY <2>1, ConsumeKeeps DEF StateInv
  <2>3. \A p \in Requests : p # Head(sq) => stage'[p] = stage[p]
    BY <2>1, <2>2 DEF StateInv, StateOK
  <2> QED
    BY <1>3, <2>1, <2>2, <2>3
<1>5. ASSUME NEW r \in Requests, KernelCompletes(r)
      PROVE  OwnerInv'
  <2>1. /\ UNCHANGED <<owner, slab>> /\ stage[r] = "kernel"
        /\ \A p \in Requests : p # r => stage'[p] = stage[p]
    BY <1>5 DEF KernelCompletes, Complete, completionVars, StateInv, StateOK
  <2> QED
    BY <1>3, <2>1
<1>6. ASSUME NEW d \in Detached, SubmitDetached(d)
      PROVE  OwnerInv'
  <2>1. /\ UNCHANGED <<owner, slab>> /\ Det(d) \in Requests /\ Det(d).kind # "op"
        /\ \A p \in Requests : p # Det(d) => stage'[p] = stage[p]
    BY <1>6, RequestTypes
       DEF SubmitDetached, Push, completionVars, uringVars, StateInv, StateOK, Det
  <2> QED
    BY <1>3, <2>1
<1>7. CASE Wait \/ EnterReturn \/ WaitReturns \/ \E o \in Ops : KernelPostsMore(o)
  <2>1. UNCHANGED <<owner, slab, stage>>
    BY <1>7 DEF Wait, EnterReturn, WaitReturns, KernelPostsMore, CompleteMore, completionVars, uringVars
  <2> QED
    BY <1>1, <2>1, OwnerFrame DEF Armed, OwnerInv
<1> QED
  BY <1>2, <1>4, <1>5, <1>6, <1>7 DEF RingStep

(* Every step of a running program keeps OwnerInv. *)
LEMMA OwnerNext ==
  ASSUME Awaited \cap Multishot = {}, Safe, [Next]_vars
  PROVE  OwnerInv'
<1>1. ASSUME UNCHANGED vars
      PROVE  OwnerInv'
  BY <1>1, OwnerFrame DEF Safe, OwnerInv, Armed, vars, completionVars, uringVars, submissionVars
<1> QED
  BY <1>1, PollOwner, DropOwner, RingOwner DEF Next, Halted

(* A new ring satisfies OwnerInv. *)
LEMMA OwnerInit ==
  ASSUME Init
  PROVE  OwnerInv
BY RequestTypes DEF Init, InitRing, InitCompletions, InitUring, OwnerInv, Armed, Finished

(* When no armed multishot submission is dropped and none is awaited, the   *)
(* resources of every operation are with its submission or, once dropped,   *)
(* with the cancellation in its entry until the kernel is done.             *)
THEOREM OwnersInductive ==
  ASSUME DropArmed = FALSE, Awaited \cap Multishot = {}
  PROVE  Spec => []OwnerInv
<1>1. Init => OwnerInv
  BY OwnerInit
<1>2. IInv /\ OwnerInv /\ [Next]_vars => OwnerInv'
  <2> SUFFICES ASSUME IInv, OwnerInv, [Next]_vars
               PROVE  OwnerInv'
    OBVIOUS
  <2>1. CASE Stopped
    BY <2>1, StoppedIsFinal, OwnerFrame
       DEF OwnerInv, Armed, vars, completionVars, uringVars, submissionVars
  <2>2. CASE Sound
    BY <2>2, OwnerNext DEF IInv, Safe
  <2> QED
    BY <2>1, <2>2 DEF IInv
<1> QED
  BY <1>1, <1>2, IInvInductive, PTL DEF Spec

(* The safety contract of Op (op/mod.rs:37-45): resources outlive the       *)
(* kernel's use of them, for every number of operations and keys.           *)
(* The first condition is needed: it fails with the constants of            *)
(* drop_armed.cfg.                                                          *)
THEOREM ResourcesSafe ==
  ASSUME DropArmed = FALSE, Awaited \cap Multishot = {}
  PROVE  Spec => []ResourcesOutliveKernel
<1>1. OwnerInv => ResourcesOutliveKernel
  BY DEF OwnerInv, ResourcesOutliveKernel, Armed
<1> QED
  BY <1>1, OwnersInductive, PTL

(* Every step of a running program takes an Op out of a submission that     *)
(* still holds it.                                                          *)
LEMMA TakenNext ==
  ASSUME Safe, OpTakenOnce, [Next]_vars
  PROVE  OpTakenOnce'
<1>1. ASSUME NEW o \in Ops, DropSubmitted(o)
      PROVE  OpTakenOnce'
  <2>1. owner[o] = "submission"
    BY <1>1 DEF Safe, OwnerInv, DropSubmitted
  <2> QED
    BY <1>1, <2>1 DEF DropSubmitted, OpTakenOnce
<1>2. ASSUME NEW o \in Ops, Poll(o) \/ DropInitial(o) \/ DropCompleted(o)
      PROVE  OpTakenOnce'
  BY <1>2 DEF Poll, FirstPoll, PollPending, PollFuture, PollStream, DropInitial, DropCompleted,
              submissionVars, OpTakenOnce
<1>3. UNCHANGED submissionVars \/ UNCHANGED vars => OpTakenOnce'
  BY DEF vars, submissionVars, OpTakenOnce
<1> QED
  BY <1>1, <1>2, <1>3 DEF Next, Drop, Halted

(* Under the same conditions an Op is moved out of its ManuallyDrop at      *)
(* most once (submission.rs:71, 101).  await_multishot.cfg shows that the   *)
(* second condition is needed.                                              *)
THEOREM OpsTakenOnce ==
  ASSUME DropArmed = FALSE, Awaited \cap Multishot = {}
  PROVE  Spec => []OpTakenOnce
<1>1. Init => OpTakenOnce
  BY DEF Init, OpTakenOnce
<1>2. IInv /\ OwnerInv /\ OpTakenOnce /\ [Next]_vars => OpTakenOnce'
  <2> SUFFICES ASSUME IInv, OwnerInv, OpTakenOnce, [Next]_vars
               PROVE  OpTakenOnce'
    OBVIOUS
  <2>1. CASE Stopped
    BY <2>1, StoppedIsFinal DEF OpTakenOnce, vars, submissionVars
  <2>2. CASE Sound
    BY <2>2, TakenNext DEF IInv, Safe
  <2> QED
    BY <2>1, <2>2 DEF IInv
<1> QED
  BY <1>1, <1>2, IInvInductive, OwnersInductive, PTL DEF Spec

(* Finitely many operations and detached requests make finitely many        *)
(* requests.                                                                *)
LEMMA FiniteRequests ==
  ASSUME IsFiniteSet(Ops), IsFiniteSet(Detached)
  PROVE  IsFiniteSet(Requests)
<1> DEFINE OpReqs == {Op(o) : o \in Ops}
           CancelReqs == {Cancel(o) : o \in Ops}
           DetReqs == {Det(d) : d \in Detached}
<1>1. IsFiniteSet(OpReqs)
  <2>1. [o \in Ops |-> Op(o)] \in Surjection(Ops, OpReqs)
    BY DEF Surjection
  <2> QED
    BY <2>1, FS_Surjection
<1>2. IsFiniteSet(CancelReqs)
  <2>1. [o \in Ops |-> Cancel(o)] \in Surjection(Ops, CancelReqs)
    BY DEF Surjection
  <2> QED
    BY <2>1, FS_Surjection
<1>3. IsFiniteSet(DetReqs)
  <2>1. [d \in Detached |-> Det(d)] \in Surjection(Detached, DetReqs)
    BY DEF Surjection
  <2> QED
    BY <2>1, FS_Surjection
<1>4. Requests \subseteq (OpReqs \cup CancelReqs) \cup DetReqs
  BY DEF Requests, Op, Cancel, Det
<1> HIDE DEF OpReqs, CancelReqs, DetReqs
<1>5. IsFiniteSet((OpReqs \cup CancelReqs) \cup DetReqs)
  BY <1>1, <1>2, <1>3, FS_Union
<1> QED
  BY <1>4, <1>5, FS_Subset

(* The outstanding AsyncCancels and detached requests. *)
OutstandingRest == Outstanding \ OutstandingOps

(* What is outstanding can be counted. *)
LEMMA CountFinite ==
  ASSUME IsFiniteSet(Requests)
  PROVE  /\ IsFiniteSet(OutstandingOps) /\ Cardinality(OutstandingOps) \in Nat
         /\ IsFiniteSet(OutstandingRest) /\ Cardinality(OutstandingRest) \in Nat
<1>1. OutstandingOps \in SUBSET Requests /\ OutstandingRest \in SUBSET Requests
  BY DEF OutstandingOps, OutstandingRest, Outstanding
<1> QED
  BY <1>1, FS_Subset, FS_CardinalityType

(* Progress short of the end does not change what is outstanding. *)
LEMMA CountSame ==
  ASSUME \A r \in Requests : stage'[r] # stage[r] =>
           stage[r] \in {"sq", "kernel", "cq"} /\ stage'[r] \in {"sq", "kernel", "cq"}
  PROVE  OutstandingOps' = OutstandingOps /\ OutstandingRest' = OutstandingRest
<1>1. Outstanding' = Outstanding
  BY DEF Outstanding
<1> QED
  BY <1>1 DEF OutstandingOps, OutstandingRest

(* A pushed request is one more outstanding. *)
LEMMA CountPush ==
  ASSUME IsFiniteSet(Requests), NEW r \in Requests, stage[r] = "none", stage'[r] = "sq",
         \A q \in Requests : q # r => stage'[q] = stage[q]
  PROVE  IF r.kind = "op"
           THEN /\ Cardinality(OutstandingOps') = Cardinality(OutstandingOps) + 1
                /\ Cardinality(OutstandingRest') = Cardinality(OutstandingRest)
           ELSE /\ Cardinality(OutstandingOps') = Cardinality(OutstandingOps)
                /\ Cardinality(OutstandingRest') = Cardinality(OutstandingRest) + 1
<1>1. Outstanding' = Outstanding \cup {r} /\ r \notin Outstanding
  BY DEF Outstanding
<1>2. CASE r.kind = "op"
  <2>1. OutstandingOps' = OutstandingOps \cup {r} /\ r \notin OutstandingOps
    BY <1>1, <1>2 DEF OutstandingOps
  <2>2. OutstandingRest' = OutstandingRest
    BY <1>1, <2>1 DEF OutstandingRest
  <2> QED
    BY <1>2, <2>1, <2>2, CountFinite, FS_AddElement
<1>3. CASE r.kind # "op"
  <2>1. OutstandingOps' = OutstandingOps /\ r \notin OutstandingOps
    BY <1>1, <1>3 DEF OutstandingOps
  <2>2. OutstandingRest' = OutstandingRest \cup {r} /\ r \notin OutstandingRest
    BY <1>1, <2>1 DEF OutstandingRest
  <2> QED
    BY <1>3, <2>1, <2>2, CountFinite, FS_AddElement
<1> QED
  BY <1>2, <1>3

(* Consuming the last completion of a request makes it one less             *)
(* outstanding.                                                             *)
LEMMA CountPop ==
  ASSUME IsFiniteSet(Requests), NEW r \in Requests, stage[r] \in {"kernel", "cq"}, stage'[r] = "done",
         \A q \in Requests : q # r => stage'[q] = stage[q]
  PROVE  IF r.kind = "op"
           THEN /\ Cardinality(OutstandingOps') = Cardinality(OutstandingOps) - 1
                /\ Cardinality(OutstandingRest') = Cardinality(OutstandingRest)
           ELSE /\ Cardinality(OutstandingOps') = Cardinality(OutstandingOps)
                /\ Cardinality(OutstandingRest') = Cardinality(OutstandingRest) - 1
<1>1. Outstanding' = Outstanding \ {r} /\ r \in Outstanding
  BY DEF Outstanding
<1>2. CASE r.kind = "op"
  <2>1. OutstandingOps' = OutstandingOps \ {r} /\ r \in OutstandingOps
    BY <1>1, <1>2 DEF OutstandingOps
  <2>2. OutstandingRest' = OutstandingRest
    BY <1>1, <2>1 DEF OutstandingRest
  <2> QED
    BY <1>2, <2>1, <2>2, CountFinite, FS_RemoveElement
<1>3. CASE r.kind # "op"
  <2>1. OutstandingOps' = OutstandingOps /\ r \notin OutstandingOps
    BY <1>1, <1>3 DEF OutstandingOps
  <2>2. OutstandingRest' = OutstandingRest \ {r} /\ r \in OutstandingRest
    BY <1>1, <2>1 DEF OutstandingRest
  <2> QED
    BY <1>3, <2>1, <2>2, CountFinite, FS_RemoveElement
<1> QED
  BY <1>2, <1>3

(* The two counters that CountersExact is about. *)
Counted ==
  /\ active = Cardinality(OutstandingOps)
  /\ detached = Cardinality(OutstandingRest)

(* Counters that count a finite set are natural numbers. *)
LEMMA CountedNat ==
  ASSUME IsFiniteSet(Requests), Counted'
  PROVE  active' \in Nat /\ detached' \in Nat
<1>1. OutstandingOps' \in SUBSET Requests /\ OutstandingRest' \in SUBSET Requests
  BY DEF OutstandingOps, OutstandingRest, Outstanding
<1> QED
  BY <1>1, FS_Subset, FS_CardinalityType DEF Counted

(* Steps that touch no counter keep them exact as long as nothing begins    *)
(* or ends.                                                                 *)
LEMMA CountedFrame ==
  ASSUME Counted, UNCHANGED <<active, detached>>,
         \A r \in Requests : stage'[r] # stage[r] =>
           stage[r] \in {"sq", "kernel", "cq"} /\ stage'[r] \in {"sq", "kernel", "cq"}
  PROVE  Counted'
BY CountSame DEF Counted

(* Submitting and cancelling count what they push (ring/mod.rs:223, 264). *)
LEMMA ClientCounted ==
  ASSUME IsFiniteSet(Requests), StateInv, Sound, Counted, NEW o \in Ops, Poll(o) \/ Drop(o)
  PROVE  panic' # "none" \/ Counted'
<1>1. CASE FirstPoll(o)
  <2>1. PICK k \in Keys : Submit(o, k)
    BY <1>1 DEF FirstPoll
  <2>2. CASE Push(Op(o), k) /\ active' = active + 1
    <3>1. /\ Op(o) \in Requests /\ stage[Op(o)] = "none" /\ stage'[Op(o)] = "sq"
          /\ \A q \in Requests : q # Op(o) => stage'[q] = stage[q]
          /\ Op(o).kind = "op"
      BY <1>1, <2>2, RequestTypes
         DEF FirstPoll, Push, StateInv, StateOK, Sound, KeyInv, PushedOnce, Op
    <3>2. detached' = detached
      BY <2>1 DEF Submit
    <3> QED
      BY <2>2, <3>1, <3>2, CountPush DEF Counted
  <2> QED
    BY <2>1, <2>2 DEF Submit
<1>2. CASE PollPending(o) \/ PollFuture(o) \/ PollStream(o) \/ DropInitial(o) \/ DropCompleted(o)
  <2>1. UNCHANGED <<active, detached, stage>>
    BY <1>2 DEF PollPending, PollFuture, PollStream, DropInitial, DropCompleted, uringVars,
                ringVars, counters
  <2> QED
    BY <2>1, CountedFrame
<1>3. CASE DropSubmitted(o)
  <2>1. CancelOp(o) /\ active' = active /\ state[o] = "Submitted"
    BY <1>3 DEF DropSubmitted, CancelOp
  <2>2. CASE UNCHANGED <<uringVars, detached>>
    BY <2>1, <2>2, CountedFrame DEF uringVars
  <2>3. CASE Push(Cancel(o), IgnoreKey) /\ detached' = detached + 1
    <3>1. /\ Cancel(o) \in Requests /\ stage[Cancel(o)] = "none" /\ stage'[Cancel(o)] = "sq"
          /\ \A q \in Requests : q # Cancel(o) => stage'[q] = stage[q]
          /\ Cancel(o).kind # "op"
      BY <2>1, <2>3, RequestTypes
         DEF Push, StateInv, StateOK, Sound, KeyInv, PushedOnce, Cancel
    <3> QED
      BY <2>1, <2>3, <3>1, CountPush DEF Counted
  <2> QED
    BY <2>1, <2>2, <2>3 DEF CancelOp, PushCancel
<1> QED
  BY <1>1, <1>2, <1>3 DEF Poll, Drop

(* handle_completions takes off exactly what ended, from the counter it     *)
(* was counted in (ring/mod.rs:316, 322).                                   *)
LEMMA ReapCounted ==
  ASSUME IsFiniteSet(Requests), StateInv, Sound, Counted, Reap
  PROVE  Counted'
<1> DEFINE c == Head(cq)
<1>1. /\ c \in Cqes /\ c.userData = userData[c.req] /\ stage[c.req] \in {"kernel", "cq"}
      /\ c.more => c.req.kind = "op"
      /\ \A q \in Requests : stage'[q] = IF q = c.req /\ ~c.more THEN "done" ELSE stage[q]
  BY PopKeeps DEF Reap, StateInv
<1>2. c.req \in Requests
  BY <1>1 DEF Cqes
<1>3. c.userData = IgnoreKey <=> c.req.kind # "op"
  <2>1. c.req.kind # "op" => userData[c.req] = IgnoreKey
    BY <1>2 DEF StateInv, Tags
  <2>2. \A o \in Ops : stage[Op(o)] \in {"kernel", "cq"} => userData[Op(o)] # IgnoreKey
    BY UringAssumption DEF Sound, KeyInv, Entries, Armed, KeyOf
  <2> QED
    BY <1>1, <1>2, <2>1, <2>2, RequestTypes
<1>4. /\ c.req.kind = "op" => active' = (IF c.more THEN active ELSE active - 1) /\ detached' = detached
      /\ c.req.kind # "op" => detached' = detached - 1 /\ active' = active
  BY <1>3 DEF Reap, HandleIgnored, HandleCompletion
<1>5. CASE c.more
  BY <1>1, <1>4, <1>5, CountedFrame
<1>6. CASE ~c.more
  BY <1>1, <1>2, <1>4, <1>6, CountPop DEF Counted
<1> QED
  BY <1>5, <1>6

(* The steps of the ring and of the kernel keep the counters exact. *)
LEMMA RingCounted ==
  ASSUME IsFiniteSet(Requests), StateInv, Sound, Counted, RingStep
  PROVE  panic' # "none" \/ Counted'
<1>1. CASE Wait \/ EnterReturn \/ WaitReturns
  BY <1>1, CountedFrame DEF Wait, EnterReturn, WaitReturns, uringVars, counters
<1>2. CASE EnterSubmit \/ EnterRefused
  <2>1. /\ sq # <<>> /\ sq' = Tail(sq) /\ UNCHANGED <<active, detached>>
        /\ \E s \in {"kernel", "cq"} : stage' = [stage EXCEPT ![Head(sq)] = s]
    BY <1>2 DEF EnterSubmit, EnterRefused, Consume, ConsumeCancel, Refuse, ringVars
  <2>2. Head(sq) \in Requests /\ stage[Head(sq)] = "sq"
    BY <2>1, ConsumeKeeps DEF StateInv
  <2>3. \A r \in Requests : stage'[r] # stage[r] =>
          stage[r] \in {"sq", "kernel", "cq"} /\ stage'[r] \in {"sq", "kernel", "cq"}
    BY <2>1, <2>2 DEF StateInv, StateOK
  <2> QED
    BY <2>1, <2>3, CountedFrame
<1>3. ASSUME NEW r \in Requests, KernelCompletes(r)
      PROVE  Counted'
  BY <1>3, CountedFrame DEF KernelCompletes, Complete, ringVars, StateInv, StateOK
<1>4. ASSUME NEW o \in Ops, KernelPostsMore(o)
      PROVE  Counted'
  BY <1>4, CountedFrame DEF KernelPostsMore, CompleteMore, ringVars
<1>5. ASSUME NEW d \in Detached, SubmitDetached(d), panic' = "none"
      PROVE  Counted'
  <2>1. Push(Det(d), IgnoreKey) /\ detached' = detached + 1 /\ active' = active
    BY <1>5 DEF SubmitDetached
  <2>2. /\ Det(d) \in Requests /\ stage[Det(d)] = "none" /\ stage'[Det(d)] = "sq"
        /\ \A q \in Requests : q # Det(d) => stage'[q] = stage[q]
        /\ Det(d).kind # "op"
    BY <1>5, <2>1, RequestTypes DEF SubmitDetached, Push, StateInv, StateOK, Det
  <2> QED
    BY <2>1, <2>2, CountPush DEF Counted
<1> QED
  BY <1>1, <1>2, <1>3, <1>4, <1>5, ReapCounted DEF RingStep

(* Every step of a running program keeps the counters exact. *)
LEMMA CountedNext ==
  ASSUME IsFiniteSet(Requests), StateInv, Sound, Counted, [Next]_vars
  PROVE  panic' # "none" \/ Counted'
<1>1. UNCHANGED vars => Counted'
  BY CountedFrame DEF vars, uringVars, ringVars
<1> QED
  BY <1>1, ClientCounted, RingCounted DEF Next, Halted

(* Nothing is outstanding in a new ring. *)
LEMMA CountedInit ==
  ASSUME Init
  PROVE  Counted
<1>1. Outstanding = {}
  BY DEF Init, InitRing, InitUring, Outstanding
<1> QED
  BY <1>1, FS_EmptySet DEF Init, InitRing, Counted, OutstandingOps, OutstandingRest

(* The panic of a full submission queue comes before the counters change. *)
LEMMA QueueFullFrame ==
  ASSUME panic = "none", [Next]_vars, panic' = "queue_full"
  PROVE  UNCHANGED <<active, detached, canceled, want>>
<1>1. ASSUME NEW o \in Ops, Poll(o) \/ Drop(o)
      PROVE  UNCHANGED <<active, detached, canceled, want>>
  BY <1>1 DEF Poll, FirstPoll, Submit, PollPending, PollFuture, PollStream, ringVars, counters,
              Drop, DropInitial, DropSubmitted, CancelOp, PushCancel, DropCompleted
<1>2. CASE RingStep
  <2>1. panic' = panic \/ (\E d \in Detached : SubmitDetached(d)) \/ HandleCompletion
    BY <1>2 DEF RingStep, Wait, EnterSubmit, EnterRefused, EnterReturn, Reap, WaitReturns,
                HandleIgnored, KernelCompletes, KernelPostsMore, ringVars
  <2>2. HandleCompletion => panic' # "queue_full"
    BY DEF HandleCompletion, BadKey
  <2> QED
    BY <2>1, <2>2 DEF SubmitDetached
<1>3. UNCHANGED vars => panic' = panic
  BY DEF vars, ringVars
<1> QED
  BY <1>1, <1>2, <1>3 DEF Next, Halted

(* canceled is counted up by cancels and reset by submit_and_wait, the      *)
(* only reader of it.                                                       *)
LEMMA CanceledNext ==
  ASSUME [Next]_vars
  PROVE  canceled' \in {0, canceled, canceled + 1} /\ want' \in {want, Want}
<1>1. ASSUME NEW o \in Ops, Poll(o) \/ Drop(o)
      PROVE  canceled' \in {0, canceled, canceled + 1} /\ want' = want
  BY <1>1 DEF Poll, FirstPoll, Submit, PollPending, PollFuture, PollStream, ringVars, counters,
              Drop, DropInitial, DropSubmitted, CancelOp, PushCancel, DropCompleted
<1>2. CASE RingStep
  BY <1>2 DEF RingStep, Wait, EnterSubmit, EnterRefused, EnterReturn, Reap, WaitReturns,
              SubmitDetached, KernelCompletes, KernelPostsMore, ringVars, counters
<1>3. UNCHANGED vars => UNCHANGED <<canceled, want>>
  BY DEF vars, ringVars
<1> QED
  BY <1>1, <1>2, <1>3 DEF Next, Halted

(* No counter underflows in a step from a counted state. *)
LEMMA CountersOKNext ==
  ASSUME IsFiniteSet(Requests), CountersOK, [Next]_vars, panic = "none",
         panic' = "queue_full" \/ Counted'
  PROVE  CountersOK'
<1>1. Want \in Nat
  BY DEF Want, CountersOK
<1>2. CASE panic' = "queue_full"
  BY <1>2, QueueFullFrame DEF CountersOK
<1>3. CASE Counted'
  BY <1>1, <1>3, CanceledNext, CountedNat DEF CountersOK
<1> QED
  BY <1>2, <1>3

(* Every step keeps the counters natural and, without a panic, exact. *)
LEMMA CountersNext ==
  ASSUME DropArmed = FALSE, IsFiniteSet(Requests), IInv, CountersOK,
         panic = "none" => Counted, [Next]_vars
  PROVE  CountersOK' /\ (panic' = "none" => Counted')
<1>1. CASE Stopped
  BY <1>1, StoppedIsFinal DEF Stopped, CountersOK, vars, ringVars
<1>2. CASE Sound
  <2>1. panic' = "queue_full" \/ Sound'
    BY <1>2, SoundNext DEF IInv
  <2>2. panic' = "queue_full" \/ Counted'
    BY <1>2, <2>1, CountedNext DEF IInv, Sound
  <2> QED
    BY <1>2, <2>2, CountersOKNext DEF Sound
<1> QED
  BY <1>1, <1>2 DEF IInv

(* For every finite number of operations and detached requests, and when    *)
(* no armed multishot submission is dropped, active and detached are        *)
(* exactly the numbers of operations and of other requests whose last       *)
(* completion is not consumed: they never underflow (ring/mod.rs:316,       *)
(* 322) and is_done never counts too few.                                   *)
THEOREM CountersCorrect ==
  ASSUME DropArmed = FALSE, IsFiniteSet(Ops), IsFiniteSet(Detached)
  PROVE  Spec => [](TypeOK /\ CountersExact)
<1> DEFINE CInv == CountersOK /\ (panic = "none" => Counted)
<1>1. Init => CInv
  BY CountedInit DEF Init, InitRing, CountersOK
<1>2. IInv /\ CInv /\ [Next]_vars => CInv'
  BY CountersNext, FiniteRequests
<1>3. IInv /\ CInv => TypeOK /\ CountersExact
  BY DEF Counted, CountersExact, OutstandingRest, TypeOK, IInv, StateInv
<1> HIDE DEF CInv
<1> QED
  BY <1>1, <1>2, <1>3, IInvInductive, PTL DEF Spec

(* The reactor's state has its types (TypeOK), the u32 counters included.   *)
THEOREM TypesCorrect ==
  ASSUME DropArmed = FALSE, IsFiniteSet(Ops), IsFiniteSet(Detached)
  PROVE  Spec => []TypeOK
BY CountersCorrect, PTL

-------------------------------------------------------------------------------
(***************************************************************************)
(* What every kind of step does to the entries of the slab.                *)
(***************************************************************************)

(* The results that wait in the entry of key k. *)
BoxAt(k) ==
  IF slab[k].state = "Single" THEN <<slab[k].result>>
  ELSE IF slab[k].state = "Multiple" THEN queues[slab[k].handle]
  ELSE <<>>

(* An operation of the completion table on one key touches the entry and    *)
(* the results of no other.                                                 *)
LEMMA OthersKeep ==
  ASSUME StateOK, QueueInv, NEW k \in Keys,
         \/ \E o \in Ops : Insert(k, o) \/ TryCancel(k, o)
         \/ \E r \in Results : TryNotify(k, r)
         \/ TakeResult(k)
  PROVE  \A l \in Keys : l # k => slab'[l] = slab[l] /\ BoxAt(l)' = BoxAt(l)
<1>1. \A l \in Keys : l # k => slab'[l] = slab[l]
  BY DEF StateOK, Insert, TryCancel, TryNotify, NotifyVacant, NotifyMultiple, NotifyCancelled,
         TakeResult, TakeSingle, TakeMultiple
<1>2. \A l \in Keys : slab[l].state = "Multiple" =>
        /\ slab[l].handle \in 1 .. Len(queues)
        /\ l # k /\ slab[k].state = "Multiple" => slab[l].handle # slab[k].handle
  BY Handles DEF QueueInv, QueuesPrivate
<1>3. ASSUME NEW l \in Keys, l # k, slab[l].state = "Multiple"
      PROVE  queues'[slab[l].handle] = queues[slab[l].handle]
  <2> DEFINE g == slab[l].handle
  <2>1. CASE UNCHANGED queues
    BY <2>1
  <2>2. CASE \E q : slab[k].state = "Multiple" /\ queues' = [queues EXCEPT ![slab[k].handle] = q]
    <3>1. /\ g # slab[k].handle /\ g \in 1 .. Len(queues)
          /\ queues \in Seq(Seq(Results))
      BY <1>2, <1>3, <2>2, Handles
    <3> QED
      BY <2>2, <3>1, LenProperties
  <2>3. CASE \E r \in Results : StoreFirst(r)
    BY <1>2, <1>3, <2>3, FirstHandle
  <2>4. ASSUME NEW o \in Ops, Insert(k, o) \/ TryCancel(k, o)
        PROVE  \/ UNCHANGED queues
               \/ \E q : /\ slab[k].state = "Multiple"
                         /\ queues' = [queues EXCEPT ![slab[k].handle] = q]
    BY <2>4 DEF Insert, TryCancel, Release
  <2>5. ASSUME NEW r \in Results, TryNotify(k, r)
        PROVE  \/ UNCHANGED queues \/ StoreFirst(r)
               \/ \E q : slab[k].state = "Multiple" /\ queues' = [queues EXCEPT ![slab[k].handle] = q]
    BY <2>5 DEF TryNotify, NotifyVacant, NotifyMultiple, NotifyCancelled
  <2>6. ASSUME TakeResult(k)
        PROVE  \/ UNCHANGED queues
               \/ \E q : /\ slab[k].state = "Multiple"
                         /\ queues' = [queues EXCEPT ![slab[k].handle] = q]
    BY <2>6 DEF TakeResult, TakeSingle, TakeMultiple, Release
  <2> QED
    BY <2>1, <2>2, <2>3, <2>4, <2>5, <2>6
<1> QED
  BY <1>1, <1>3 DEF BoxAt

(* A result is there when the box is not empty. *)
LEMMA BoxHasResult ==
  ASSUME NEW k
  PROVE  HasResult(k) <=> BoxAt(k) # <<>>
BY DEF HasResult, BoxAt

(* Completion::take_result returns the oldest result and leaves the others. *)
LEMMA TakeBox ==
  ASSUME StateOK, QueueInv, NEW k \in Keys, HasResult(k), TakeResult(k)
  PROVE  /\ BoxAt(k) \in Seq(Results) /\ BoxAt(k) # <<>>
         /\ NextResult(k) = Head(BoxAt(k))
         /\ BoxAt(k)' = Tail(BoxAt(k))
<1>1. CASE TakeSingle(k)
  <2>1. /\ slab[k].state = "Single" /\ slab[k].result \in Results
        /\ slab'[k].state = "Finished"
    BY <1>1 DEF TakeSingle, StateOK, Completions, Finished
  <2>2. /\ BoxAt(k) = <<slab[k].result>> /\ NextResult(k) = slab[k].result
        /\ BoxAt(k)' = <<>>
    BY <2>1 DEF BoxAt, NextResult
  <2>3. \A r \in Results : <<r>> \in Seq(Results) /\ <<r>> # <<>> /\ Head(<<r>>) = r /\ Tail(<<r>>) = <<>>
    OBVIOUS
  <2> QED
    BY <2>1, <2>2, <2>3
<1>2. CASE TakeMultiple(k)
  <2> DEFINE h == slab[k].handle
  <2>1. /\ slab[k].state = "Multiple" /\ h \in 1 .. Len(queues)
        /\ queues \in Seq(Seq(Results)) /\ queues[h] \in Seq(Results) /\ queues[h] # <<>>
    BY <1>2, Handles DEF TakeMultiple
  <2>2. CASE Release(h) /\ slab' = [slab EXCEPT ![k] = Finished] /\ Tail(queues[h]) = <<>>
    <3>1. slab'[k].state = "Finished"
      BY <2>2 DEF StateOK, Finished
    <3>2. BoxAt(k) = queues[h] /\ NextResult(k) = Head(queues[h]) /\ BoxAt(k)' = <<>>
      BY <2>1, <3>1 DEF BoxAt, NextResult
    <3> QED
      BY <2>1, <2>2, <3>2
  <2>3. CASE queues' = [queues EXCEPT ![h] = Tail(queues[h])] /\ slab' = slab
    <3>1. queues'[h] = Tail(queues[h])
      BY <2>1, <2>3, LenProperties
    <3> QED
      BY <2>1, <2>3, <3>1 DEF BoxAt, NextResult
  <2> QED
    BY <1>2, <2>2, <2>3 DEF TakeMultiple
<1> QED
  BY <1>1, <1>2 DEF TakeResult

(* Completion::try_notify adds the result behind those that wait, unless    *)
(* the entry is cancelled.                                                  *)
LEMMA NotifyBox ==
  ASSUME StateOK, QueueInv, NEW k \in Keys, NEW r \in Results, TryNotify(k, r),
         slab[k].state # "Cancelled"
  PROVE  BoxAt(k) \in Seq(Results) /\ BoxAt(k)' = Append(BoxAt(k), r)
<1>1. CASE NotifyVacant(k, r)
  <2>1. BoxAt(k) = <<>> /\ Append(<<>>, r) = <<r>> /\ <<>> \in Seq(Results)
    BY <1>1 DEF NotifyVacant, BoxAt
  <2>2. CASE StoreFirst(r) /\ slab' = [slab EXCEPT ![k] = Multiple(@.waker, NextHandle, TRUE)]
    <3>1. slab'[k].state = "Multiple" /\ slab'[k].handle = NextHandle
      BY <2>2 DEF StateOK, Multiple
    <3>2. queues'[NextHandle] = <<r>>
      BY <2>2, FirstHandle
    <3>3. BoxAt(k)' = <<r>>
      BY <3>1, <3>2 DEF BoxAt
    <3> QED
      BY <2>1, <3>3
  <2>3. CASE slab' = [slab EXCEPT ![k] = Single(r)]
    <3>1. slab'[k].state = "Single" /\ slab'[k].result = r
      BY <2>3 DEF StateOK, Single
    <3>2. BoxAt(k)' = <<r>>
      BY <3>1 DEF BoxAt
    <3> QED
      BY <2>1, <3>2
  <2> QED
    BY <1>1, <2>2, <2>3 DEF NotifyVacant
<1>2. CASE NotifyMultiple(k, r)
  <2> DEFINE h == slab[k].handle
  <2>1. /\ slab[k].state = "Multiple" /\ h \in 1 .. Len(queues)
        /\ queues \in Seq(Seq(Results)) /\ queues[h] \in Seq(Results)
    BY <1>2, Handles DEF NotifyMultiple
  <2>2. queues'[h] = Append(queues[h], r)
    BY <1>2, <2>1, LenProperties DEF NotifyMultiple
  <2>3. slab'[k].state = "Multiple" /\ slab'[k].handle = h
    BY <1>2 DEF NotifyMultiple, Multiple, StateOK
  <2> QED
    BY <2>1, <2>2, <2>3 DEF BoxAt
<1> QED
  BY <1>1, <1>2 DEF TryNotify, NotifyCancelled

(* What a first poll does: its entry joins the slab, and its operation the  *)
(* submission queue, unless that is full.                                   *)
LEMMA SubmitFacts ==
  ASSUME StateInv, Sound, NEW o \in Ops, FirstPoll(o)
  PROVE  \E k \in Keys :
           /\ slab[k] = Finished /\ slab'[k] = Vacant(o)
           /\ \A l \in Keys : l # k => slab'[l] = slab[l] /\ BoxAt(l)' = BoxAt(l)
           /\ UNCHANGED <<queues, unused, woken, owner, delivered, cq, posted, aborted>>
           /\ state[o] = "Initial" /\ stage[Op(o)] = "none"
           /\ \A p \in Ops : p # o => state'[p] = state[p]
           /\ IF panic' = "none"
                THEN /\ state'[o] = "Submitted" /\ userData'[Op(o)] = k
                     /\ sq' = Append(sq, Op(o)) /\ stage'[Op(o)] = "sq"
                     /\ \A r \in Requests : r # Op(o) => stage'[r] = stage[r] /\ userData'[r] = userData[r]
                ELSE UNCHANGED <<state, uringVars>>
<1>1. PICK k \in Keys : Submit(o, k)
  BY DEF FirstPoll
<1>2. StateOK /\ Op(o) \in Requests /\ QueueInv /\ panic = "none"
  BY RequestTypes DEF StateInv, Sound
<1>3. /\ slab[k] = Finished /\ slab'[k] = Vacant(o)
      /\ \A l \in Keys : l # k => slab'[l] = slab[l] /\ BoxAt(l)' = BoxAt(l)
      /\ UNCHANGED <<queues, unused>>
  <2>1. Insert(k, o)
    BY <1>1 DEF Submit
  <2>2. \A l \in Keys : l # k => slab'[l] = slab[l] /\ BoxAt(l)' = BoxAt(l)
    BY <1>2, <2>1, OthersKeep
  <2>3. slab[k] = Finished /\ slab'[k] = Vacant(o) /\ UNCHANGED <<queues, unused>>
    BY <1>2, <2>1 DEF Insert, StateOK
  <2> QED
    BY <2>2, <2>3
<1>4. state[o] = "Initial" /\ stage[Op(o)] = "none" /\ UNCHANGED <<delivered, woken, owner>>
  BY <1>1 DEF FirstPoll, Submit, Sound, KeyInv, PushedOnce
<1>5. \A p \in Ops : p # o => state'[p] = state[p]
  BY <1>2 DEF FirstPoll, StateOK
<1>6. CASE Push(Op(o), k) /\ panic' = panic
  <2>1. state'[o] = "Submitted"
    BY <1>2, <1>6 DEF FirstPoll, Push, StateOK
  <2>2. /\ userData'[Op(o)] = k /\ sq' = Append(sq, Op(o)) /\ stage'[Op(o)] = "sq"
        /\ \A r \in Requests : r # Op(o) => stage'[r] = stage[r] /\ userData'[r] = userData[r]
        /\ UNCHANGED <<cq, posted, aborted>>
    BY <1>2, <1>6 DEF Push, StateOK
  <2> QED
    BY <1>2, <1>3, <1>4, <1>5, <1>6, <2>1, <2>2
<1>7. CASE SqFull /\ panic' = "queue_full" /\ UNCHANGED uringVars
  <2>1. UNCHANGED <<state, cq, posted, aborted>>
    BY <1>2, <1>4, <1>7 DEF FirstPoll, StateOK, uringVars
  <2> QED
    BY <1>3, <1>4, <1>5, <1>7, <2>1
<1> QED
  BY <1>1, <1>6, <1>7 DEF Submit

(* What a poll that returns a result does: it takes the oldest one out of   *)
(* the submission's own entry, and removes the entry with the last one,     *)
(* when the kernel is done with the operation.                              *)
LEMMA TakeFacts ==
  ASSUME StateInv, Sound, NEW o \in Ops, PollFuture(o) \/ PollStream(o)
  PROVE  \E k \in Keys, r \in Results :
           /\ k = KeyOf(o) /\ state[o] = "Submitted" /\ TakeResult(k)
           /\ r = NextResult(k) /\ r = Head(BoxAt(k)) /\ BoxAt(k)' = Tail(BoxAt(k))
           /\ BoxAt(k) \in Seq(Results) /\ BoxAt(k) # <<>>
           /\ \A l \in Keys : l # k => slab'[l] = slab[l] /\ BoxAt(l)' = BoxAt(l)
           /\ IF r.more THEN slab' = slab ELSE slab'[k] = Finished /\ ~Armed(o)
           /\ slab[k].state \in {"Single", "Multiple"}
           /\ slab[k].state = "Multiple" /\ slab[k].more => r.more
           /\ slab[k].state = "Single" => ~r.more
           /\ \A p \in Ops : p # o => state'[p] = state[p] /\ (p \in woken' <=> p \in woken)
           /\ state'[o] = IF r.more THEN "Submitted" ELSE "Completed"
           /\ delivered' = [delivered EXCEPT ![o] = Append(@, r)]
           /\ UNCHANGED <<uringVars, ringVars>>
<1>1. PICK k \in Keys : k = KeyOf(o)
  BY OwnEntry DEF PollFuture, PollStream, Pollable
<1>2. StateOK /\ QueueInv
  BY DEF StateInv, Sound
<1>3. /\ state[o] = "Submitted" /\ HasResult(k) /\ TakeResult(k)
      /\ state' = [state EXCEPT ![o] = NextState(NextResult(k))]
      /\ delivered' = [delivered EXCEPT ![o] = Append(@, NextResult(k))]
      /\ UNCHANGED <<uringVars, ringVars>>
      /\ woken' \in {woken \ {o}, woken \cup {o}}
  BY <1>1 DEF PollFuture, PollStream, Pollable
<1>4. /\ BoxAt(k) \in Seq(Results) /\ BoxAt(k) # <<>>
      /\ NextResult(k) = Head(BoxAt(k)) /\ BoxAt(k)' = Tail(BoxAt(k))
  BY <1>2, <1>3, TakeBox
<1>5. PICK r \in Results : r = NextResult(k)
  <2>1. \A q \in Seq(Results) : q # <<>> => Head(q) \in Results
    BY HeadTailProperties
  <2> QED
    BY <1>4, <2>1
<1>6. /\ r.more => slab' = slab
      /\ ~r.more => slab' = [slab EXCEPT ![k] = Finished]
      /\ slab[k].state \in {"Single", "Multiple"}
      /\ slab[k].state = "Multiple" /\ slab[k].more => r.more
  BY <1>2, <1>3, <1>5, QueueTake
<1>7. ~r.more => slab'[k] = Finished /\ ~Armed(o)
  <2>1. ~r.more => slab'[k] = Finished
    BY <1>2, <1>6 DEF StateOK
  <2>2. ~r.more => ~Armed(o)
    BY <1>1, <1>3, <1>6 DEF Sound, KeyInv, Entries, ArmedEntry
  <2> QED
    BY <2>1, <2>2
<1>8. slab[k].state = "Single" => ~r.more
  BY <1>2, <1>5 DEF QueueInv, ResultsPrivate, NextResult
<1>9. \A l \in Keys : l # k => slab'[l] = slab[l] /\ BoxAt(l)' = BoxAt(l)
  BY <1>2, <1>3, OthersKeep
<1>10. /\ \A p \in Ops : p # o => state'[p] = state[p] /\ (p \in woken' <=> p \in woken)
       /\ state'[o] = IF r.more THEN "Submitted" ELSE "Completed"
  BY <1>2, <1>3, <1>5 DEF StateOK, NextState
<1> QED
  BY <1>1, <1>3, <1>4, <1>5, <1>6, <1>7, <1>8, <1>9, <1>10

(* What the drop of a waiting submission does: its entry is cancelled while *)
(* the kernel has the operation, and removed otherwise.                     *)
LEMMA CancelFacts ==
  ASSUME StateInv, Sound, DropArmed = FALSE, NEW o \in Ops, DropSubmitted(o)
  PROVE  \E k \in Keys :
           /\ k = KeyOf(o) /\ state[o] = "Submitted" /\ TryCancel(k, o)
           /\ Armed(o) <=> MustCancel(k)
           /\ slab'[k] = IF Armed(o) THEN Cancelled(o) ELSE Finished
           /\ \A l \in Keys : l # k => slab'[l] = slab[l] /\ BoxAt(l)' = BoxAt(l)
           /\ state'[o] = "Dropped"
           /\ \A p \in Ops : p # o => state'[p] = state[p]
           /\ UNCHANGED <<delivered, woken, cq, posted, aborted>>
           /\ stage[Cancel(o)] = "none"
           /\ \/ UNCHANGED uringVars
              \/ /\ Armed(o) /\ sq' = Append(sq, Cancel(o)) /\ stage'[Cancel(o)] = "sq"
                 /\ \A r \in Requests : r # Cancel(o) => stage'[r] = stage[r] /\ userData'[r] = userData[r]
<1>0. StateOK /\ QueueInv /\ Cancel(o) \in Requests
  BY RequestTypes DEF StateInv, Sound
<1>1. /\ state[o] = "Submitted" /\ CancelOp(o)
      /\ state' = [state EXCEPT ![o] = "Dropped"]
      /\ UNCHANGED <<delivered, woken>>
  BY DEF DropSubmitted, CancelOp
<1>2. PICK k \in Keys : k = KeyOf(o)
  BY <1>1, OwnEntry
<1>3. IF Armed(o) THEN ArmedEntry(o) /\ slab[k].state # "Cancelled" ELSE UnreadEntry(o)
  BY <1>1, <1>2 DEF Sound, KeyInv, Entries
<1>4. ~CancelPanics(k) /\ (Armed(o) <=> MustCancel(k))
  BY <1>2, <1>3 DEF CancelPanics, MustCancel, ArmedEntry, UnreadEntry
<1>5. TryCancel(k, o)
  BY <1>1, <1>2, <1>4 DEF CancelOp
<1>6. \A l \in Keys : l # k => slab'[l] = slab[l] /\ BoxAt(l)' = BoxAt(l)
  BY <1>0, <1>5, OthersKeep
<1>7. slab'[k] = IF Armed(o) THEN Cancelled(o) ELSE Finished
  BY <1>0, <1>4, <1>5 DEF TryCancel, StateOK
<1>8. state'[o] = "Dropped" /\ \A p \in Ops : p # o => state'[p] = state[p]
  BY <1>0, <1>1 DEF StateOK
<1>9. stage[Cancel(o)] = "none"
  BY <1>1 DEF Sound, KeyInv, PushedOnce
<1>10. UNCHANGED uringVars \/ (MustCancel(k) /\ Push(Cancel(o), IgnoreKey))
  BY <1>1, <1>2, <1>4 DEF CancelOp, PushCancel
<1>11. CASE UNCHANGED uringVars
  BY <1>1, <1>2, <1>4, <1>5, <1>6, <1>7, <1>8, <1>9, <1>11 DEF uringVars
<1>12. CASE MustCancel(k) /\ Push(Cancel(o), IgnoreKey)
  <2>1. /\ sq' = Append(sq, Cancel(o)) /\ stage'[Cancel(o)] = "sq"
        /\ \A r \in Requests : r # Cancel(o) => stage'[r] = stage[r] /\ userData'[r] = userData[r]
        /\ UNCHANGED <<cq, posted, aborted>>
    BY <1>0, <1>12 DEF Push, StateOK
  <2> QED
    BY <1>1, <1>2, <1>4, <1>5, <1>6, <1>7, <1>8, <1>9, <1>12, <2>1
<1> QED
  BY <1>10, <1>11, <1>12

(* What handle_completions does with a completion of operation o: the entry *)
(* k of o takes the result r, and wakes the submission unless it is         *)
(* cancelled.                                                               *)
Notified(o, k, r) ==
  /\ Head(cq).req = Op(o) /\ r = Result(o, Head(cq).n, Head(cq).more)
  /\ k = KeyOf(o) /\ Armed(o) /\ ArmedEntry(o) /\ TryNotify(k, r) /\ panic' = panic
  /\ \A l \in Keys : l # k => slab'[l] = slab[l] /\ BoxAt(l)' = BoxAt(l)
  /\ \/ slab[k].state = "Vacant" /\ r.more /\ slab'[k] = Multiple(o, NextHandle, TRUE)
     \/ slab[k].state = "Vacant" /\ ~r.more /\ slab'[k] = Single(r)
     \/ slab[k].state = "Multiple" /\ slab'[k] = Multiple(o, slab[k].handle, r.more)
     \/ slab[k].state = "Cancelled" /\ slab'[k] = Finished /\ ~r.more
  /\ slab[k].state # "Cancelled" =>
       /\ BoxAt(k) \in Seq(Results) /\ BoxAt(k)' = Append(BoxAt(k), r)
       /\ woken' = woken \cup {o}
  /\ slab[k].state = "Cancelled" => woken' = woken
  /\ r.more => o \in Multishot /\ stage' = stage
  /\ ~r.more => stage'[Op(o)] = "done" /\ \A q \in Requests : q # Op(o) => stage'[q] = stage[q]

(* Each such completion has its operation, its entry and its result. *)
LEMMA NotifyFacts ==
  ASSUME StateInv, Sound, Reap, UNCHANGED submissionVars, Head(cq).userData # IgnoreKey
  PROVE  \E o \in Ops, k \in Keys, r \in Results : Notified(o, k, r)
<1> DEFINE c == Head(cq)
<1>1. /\ c \in Cqes
      /\ stage[c.req] \in {"kernel", "cq"} /\ c.userData = userData[c.req]
      /\ c.more => c.req.kind = "op" /\ c.req.id \in Multishot
      /\ \A q \in Requests : stage'[q] = IF q = c.req /\ ~c.more THEN "done" ELSE stage[q]
  BY PopKeeps DEF Reap, StateInv
<1>2. c.req \in Requests /\ c.userData \in Keys /\ StateOK /\ QueueInv
  BY <1>1 DEF Cqes, StateInv, Sound
<1>3. HandleCompletion
  BY DEF Reap, HandleIgnored
<1>4. PICK o \in Ops : c.req = Op(o) /\ c.req.id = o
  <2>1. c.req.kind = "op"
    BY <1>1, <1>2, UringAssumption DEF StateInv, Tags
  <2> QED
    BY <1>2, <2>1, RequestTypes
<1>5. PICK k \in Keys : k = c.userData
  BY <1>2
<1>6. KeyOf(o) = k /\ Armed(o) /\ ArmedEntry(o)
  BY <1>1, <1>4, <1>5 DEF KeyOf, Armed, Sound, KeyInv, Entries
<1>7. PICK r \in Results : r = Result(o, c.n, c.more)
  BY <1>1 DEF Cqes, Results, Result
<1>8. TryNotify(k, r) /\ panic' = panic
  BY <1>3, <1>4, <1>5, <1>6, <1>7 DEF HandleCompletion, ArmedEntry, NotifyPanics
<1>9. r.more = c.more /\ r.more \in BOOLEAN
  BY <1>7 DEF Result, Results
<1>10. \A l \in Keys : l # k => slab'[l] = slab[l] /\ BoxAt(l)' = BoxAt(l)
  BY <1>2, <1>8, OthersKeep
<1>11. slab[k].state # "Cancelled" => BoxAt(k) \in Seq(Results) /\ BoxAt(k)' = Append(BoxAt(k), r)
  BY <1>2, <1>8, NotifyBox
<1>12. /\ slab[k].state \in {"Vacant", "Multiple"} => slab[k].waker = o
       /\ slab[k].state = "Cancelled" => o \notin Multishot
  BY <1>6 DEF ArmedEntry
<1>13. /\ \/ slab[k].state = "Vacant" /\ r.more /\ slab'[k] = Multiple(o, NextHandle, TRUE)
          \/ slab[k].state = "Vacant" /\ ~r.more /\ slab'[k] = Single(r)
          \/ slab[k].state = "Multiple" /\ slab'[k] = Multiple(o, slab[k].handle, r.more)
          \/ slab[k].state = "Cancelled" /\ slab'[k] = Finished
       /\ IF slab[k].state = "Cancelled" THEN woken' = woken ELSE woken' = woken \cup {o}
  <2>1. slab \in [Keys -> Completions]
    BY <1>2 DEF StateOK
  <2> QED
    BY <1>8, <1>12, <2>1 DEF TryNotify, NotifyVacant, NotifyMultiple, NotifyCancelled
<1>14. slab[k].state = "Cancelled" => ~r.more
  BY <1>1, <1>4, <1>9, <1>12
<1>15. r.more => stage' = stage
  BY <1>9 DEF Reap, Pop
<1>16. ~r.more => stage'[Op(o)] = "done" /\ \A q \in Requests : q # Op(o) => stage'[q] = stage[q]
  BY <1>1, <1>2, <1>4, <1>9
<1>17. r.more => o \in Multishot
  BY <1>1, <1>4, <1>9
<1>18. /\ c.req = Op(o) /\ r = Result(o, c.n, c.more)
       /\ k = KeyOf(o) /\ Armed(o) /\ ArmedEntry(o) /\ TryNotify(k, r) /\ panic' = panic
  BY <1>4, <1>6, <1>7, <1>8
<1> QED
  BY <1>10, <1>11, <1>13, <1>14, <1>15, <1>16, <1>17, <1>18 DEF Notified

(* The steps that touch no entry and return no result. *)
Quiet ==
  \/ \E o \in Ops : PollPending(o) \/ DropInitial(o) \/ DropCompleted(o)
  \/ RingStep /\ UNCHANGED submissionVars /\ ~(Reap /\ Head(cq).userData # IgnoreKey)
  \/ UNCHANGED vars

(* They arm and end no operation; at most a submission that does not wait   *)
(* is dropped, or a task goes pending that has no result.                   *)
LEMMA QuietFacts ==
  ASSUME StateInv, Sound, Quiet
  PROVE  /\ UNCHANGED <<slab, queues, unused, delivered>>
         /\ \A o \in Ops :
              /\ userData'[Op(o)] = userData[Op(o)]
              /\ Armed(o)' <=> Armed(o)
              /\ stage[Op(o)] = "none" => stage'[Op(o)] = "none"
              /\ state'[o] = state[o] \/ (state[o] \in {"Initial", "Completed"} /\ state'[o] = "Dropped")
              /\ o \in woken' => o \in woken
              /\ o \in woken => o \in woken' \/ ~HasResult(KeyOf(o))
<1>1. ASSUME UNCHANGED uringVars
      PROVE  \A o \in Ops : /\ userData'[Op(o)] = userData[Op(o)]
                            /\ Armed(o)' <=> Armed(o)
                            /\ stage[Op(o)] = "none" => stage'[Op(o)] = "none"
  BY <1>1 DEF uringVars, Armed
<1>2. ASSUME NEW o \in Ops, PollPending(o)
      PROVE  /\ UNCHANGED <<slab, queues, unused, delivered, uringVars, state>>
             /\ woken' = woken \ {o} /\ ~HasResult(KeyOf(o))
  BY <1>2 DEF PollPending, submissionVars
<1>3. ASSUME NEW o \in Ops, DropInitial(o) \/ DropCompleted(o)
      PROVE  /\ UNCHANGED <<slab, queues, unused, delivered, uringVars, woken>>
             /\ \A p \in Ops :
                  state'[p] = state[p]
                    \/ (state[p] \in {"Initial", "Completed"} /\ state'[p] = "Dropped")
  BY <1>3 DEF DropInitial, DropCompleted, completionVars, StateInv, StateOK
<1>4. CASE RingStep /\ UNCHANGED submissionVars /\ ~(Reap /\ Head(cq).userData # IgnoreKey)
  <2> USE DEF submissionVars, completionVars
  <2>1. ASSUME \A r \in Requests : stage'[r] # stage[r] =>
                 \/ stage[r] \in {"sq", "kernel", "cq"} /\ stage'[r] \in {"sq", "kernel", "cq"}
                 \/ \A o \in Ops : r # Op(o)
        PROVE  \A o \in Ops : (Armed(o)' <=> Armed(o)) /\ (stage[Op(o)] = "none" => stage'[Op(o)] = "none")
    BY <2>1, RequestTypes DEF Armed
  <2>2. CASE Wait \/ EnterReturn \/ WaitReturns
    <3>1. UNCHANGED <<slab, queues, unused, delivered, uringVars, woken, state>>
      BY <1>4, <2>2 DEF Wait, EnterReturn, WaitReturns
    <3> QED
      BY <1>1, <3>1
  <2>3. CASE EnterSubmit \/ EnterRefused
    <3>1. /\ sq # <<>> /\ sq' = Tail(sq)
          /\ UNCHANGED <<slab, queues, unused, delivered, woken, state, userData>>
          /\ \E s \in {"kernel", "cq"} : stage' = [stage EXCEPT ![Head(sq)] = s]
      BY <1>4, <2>3 DEF EnterSubmit, EnterRefused, Consume, ConsumeCancel, Refuse
    <3>2. Head(sq) \in Requests /\ stage[Head(sq)] = "sq"
      BY <3>1, ConsumeKeeps DEF StateInv
    <3> QED
      BY <2>1, <3>1, <3>2 DEF StateInv, StateOK
  <2>4. ASSUME NEW r \in Requests, KernelCompletes(r)
        PROVE  /\ UNCHANGED <<slab, queues, unused, woken, userData>>
               /\ stage[r] = "kernel" /\ stage' = [stage EXCEPT ![r] = "cq"]
    BY <2>4 DEF KernelCompletes, Complete
  <2>5. ASSUME NEW o \in Ops, KernelPostsMore(o)
        PROVE  UNCHANGED <<slab, queues, unused, woken, userData, stage>>
    BY <2>5 DEF KernelPostsMore, CompleteMore
  <2>6. ASSUME NEW d \in Detached, SubmitDetached(d)
        PROVE  /\ UNCHANGED <<slab, queues, unused, woken>>
               /\ \A r \in Requests : r # Det(d) => stage'[r] = stage[r] /\ userData'[r] = userData[r]
    BY <2>6, RequestTypes DEF SubmitDetached, Push, uringVars, StateInv, StateOK
  <2>7. ASSUME Reap
        PROVE  /\ UNCHANGED <<slab, queues, unused, woken, userData>>
               /\ \A o \in Ops : stage'[Op(o)] = stage[Op(o)]
    <3>1. Head(cq).userData = IgnoreKey /\ HandleIgnored
      BY <1>4, <2>7 DEF Reap, HandleCompletion
    <3>2. /\ \A q \in Requests : stage'[q] = stage[q] \/ q = Head(cq).req
          /\ Head(cq).req \in Requests /\ stage[Head(cq).req] \in {"kernel", "cq"}
          /\ Head(cq).userData = userData[Head(cq).req]
      BY <2>7, PopKeeps DEF Reap, StateInv, Cqes
    <3>3. \A o \in Ops : stage[Op(o)] \in {"kernel", "cq"} => userData[Op(o)] # IgnoreKey
      BY UringAssumption DEF Sound, KeyInv, Entries, Armed, KeyOf
    <3> QED
      BY <2>7, <3>1, <3>2, <3>3, RequestTypes DEF Reap, Pop, HandleIgnored
  <2>8. CASE \E r \in Requests : KernelCompletes(r)
    BY <1>4, <2>1, <2>4, <2>8 DEF StateInv, StateOK
  <2>9. CASE \E o \in Ops : KernelPostsMore(o)
    BY <1>4, <2>1, <2>5, <2>9
  <2>10. CASE \E d \in Detached : SubmitDetached(d)
    <3>1. \A o \in Ops : userData'[Op(o)] = userData[Op(o)] /\ stage'[Op(o)] = stage[Op(o)]
      BY <2>6, <2>10, RequestTypes
    <3> QED
      BY <1>4, <2>6, <2>10, <3>1 DEF Armed
  <2>11. CASE Reap
    BY <1>4, <2>7, <2>11 DEF Armed
  <2> QED
    BY <1>4, <2>2, <2>3, <2>8, <2>9, <2>10, <2>11 DEF RingStep
<1>5. CASE UNCHANGED vars
  <2>1. UNCHANGED <<slab, queues, unused, delivered, uringVars, woken, state>>
    BY <1>5 DEF vars, completionVars, submissionVars
  <2> QED
    BY <1>1, <2>1
<1> QED
  BY <1>1, <1>2, <1>3, <1>4, <1>5 DEF Quiet

(* Every step is quiet or one of the four that the lemmas before describe.  *)
LEMMA StepKinds ==
  ASSUME Sound, [Next]_vars
  PROVE  \/ \E o \in Ops : FirstPoll(o) \/ PollFuture(o) \/ PollStream(o) \/ DropSubmitted(o)
         \/ Reap /\ UNCHANGED submissionVars /\ Head(cq).userData # IgnoreKey
         \/ Quiet
BY DEF Next, Poll, Drop, Halted, Quiet

(* A change to one entry, whose operation goes on holding it as long as it  *)
(* is there, leaves every entry held.                                       *)
LEMMA HeldChange ==
  ASSUME EntriesHeld, NEW o \in Ops, NEW k \in Keys,
         \A l \in Keys : l # k => slab'[l] = slab[l],
         Armed(o) \/ state[o] = "Submitted" => KeyOf(o) = k,
         \A p \in Ops : p # o =>
           /\ userData'[Op(p)] = userData[Op(p)] /\ state'[p] = state[p]
           /\ stage'[Op(p)] = stage[Op(p)],
         slab'[k] # Finished =>
           /\ userData'[Op(o)] = k
           /\ IF slab'[k].state = "Cancelled" THEN Armed(o)' ELSE state'[o] = "Submitted"
  PROVE  EntriesHeld'
<1> SUFFICES ASSUME NEW l \in Keys, slab'[l] # Finished
             PROVE  \E p \in Ops :
                      /\ userData'[Op(p)] = l
                      /\ IF slab'[l].state = "Cancelled" THEN Armed(p)' ELSE state'[p] = "Submitted"
  BY DEF EntriesHeld
<1>1. CASE l = k
  BY <1>1
<1>2. CASE l # k
  <2>1. slab'[l] = slab[l] /\ slab[l] # Finished
    BY <1>2
  <2>2. PICK p \in Ops :
          /\ userData[Op(p)] = l
          /\ IF slab[l].state = "Cancelled" THEN Armed(p) ELSE state[p] = "Submitted"
    BY <2>1 DEF EntriesHeld
  <2>3. p # o
    BY <1>2, <2>2 DEF KeyOf
  <2> QED
    BY <2>1, <2>2, <2>3 DEF Armed
<1> QED
  BY <1>1, <1>2

(* Every step but the panic of a full submission queue keeps every entry    *)
(* held by its operation.                                                   *)
LEMMA EntriesHeldNext ==
  ASSUME DropArmed = FALSE, StateInv, Sound, EntriesHeld, [Next]_vars, panic' = "none"
  PROVE  EntriesHeld'
<1>1. ASSUME NEW o \in Ops, FirstPoll(o)
      PROVE  EntriesHeld'
  <2>1. PICK k \in Keys :
          /\ slab'[k] = Vacant(o) /\ \A l \in Keys : l # k => slab'[l] = slab[l]
          /\ state[o] = "Initial" /\ stage[Op(o)] = "none"
          /\ \A p \in Ops : p # o => state'[p] = state[p]
          /\ state'[o] = "Submitted" /\ userData'[Op(o)] = k
          /\ \A r \in Requests : r # Op(o) => stage'[r] = stage[r] /\ userData'[r] = userData[r]
    BY <1>1, SubmitFacts
  <2>2. \A p \in Ops : p # o => stage'[Op(p)] = stage[Op(p)] /\ userData'[Op(p)] = userData[Op(p)]
    BY <2>1, RequestTypes
  <2>3. ~Armed(o) /\ slab'[k].state # "Cancelled"
    BY <2>1 DEF Armed, Vacant
  <2> QED
    BY <2>1, <2>2, <2>3, HeldChange
<1>2. ASSUME NEW o \in Ops, PollFuture(o) \/ PollStream(o)
      PROVE  EntriesHeld'
  <2>1. PICK k \in Keys, r \in Results :
          /\ k = KeyOf(o) /\ state[o] = "Submitted"
          /\ \A l \in Keys : l # k => slab'[l] = slab[l]
          /\ IF r.more THEN slab' = slab ELSE slab'[k] = Finished
          /\ slab[k].state \in {"Single", "Multiple"}
          /\ \A p \in Ops : p # o => state'[p] = state[p]
          /\ state'[o] = IF r.more THEN "Submitted" ELSE "Completed"
          /\ UNCHANGED <<stage, userData>>
    BY <1>2, TakeFacts DEF uringVars
  <2>2. slab'[k] # Finished => state'[o] = "Submitted" /\ slab'[k].state # "Cancelled"
    BY <2>1
  <2> QED
    BY <2>1, <2>2, HeldChange DEF KeyOf
<1>3. ASSUME NEW o \in Ops, DropSubmitted(o)
      PROVE  EntriesHeld'
  <2>1. PICK k \in Keys :
          /\ k = KeyOf(o)
          /\ slab'[k] = IF Armed(o) THEN Cancelled(o) ELSE Finished
          /\ \A l \in Keys : l # k => slab'[l] = slab[l]
          /\ \A p \in Ops : p # o => state'[p] = state[p]
          /\ \/ UNCHANGED uringVars
             \/ \A r \in Requests : r # Cancel(o) => stage'[r] = stage[r] /\ userData'[r] = userData[r]
    BY <1>3, CancelFacts
  <2>2. \A p \in Ops : stage'[Op(p)] = stage[Op(p)] /\ userData'[Op(p)] = userData[Op(p)]
    BY <2>1, RequestTypes DEF uringVars
  <2>3. slab'[k] # Finished => Armed(o) /\ slab'[k].state = "Cancelled"
    BY <2>1 DEF Cancelled
  <2>4. (Armed(o)' <=> Armed(o)) /\ userData'[Op(o)] = k
    BY <2>1, <2>2 DEF Armed, KeyOf
  <2> QED
    BY <2>1, <2>2, <2>3, <2>4, HeldChange
<1>4. ASSUME Reap, UNCHANGED submissionVars, Head(cq).userData # IgnoreKey
      PROVE  EntriesHeld'
  <2>0. PICK o \in Ops, k \in Keys, r \in Results : Notified(o, k, r)
    BY <1>4, NotifyFacts
  <2>1. /\ k = KeyOf(o) /\ Armed(o)
        /\ \A l \in Keys : l # k => slab'[l] = slab[l]
        /\ \/ slab[k].state = "Vacant" /\ slab'[k] = Multiple(o, NextHandle, TRUE)
           \/ slab[k].state = "Vacant" /\ slab'[k] = Single(r)
           \/ slab[k].state = "Multiple" /\ slab'[k] = Multiple(o, slab[k].handle, r.more)
           \/ slab[k].state = "Cancelled" /\ slab'[k] = Finished
        /\ \/ stage' = stage
           \/ \A q \in Requests : q # Op(o) => stage'[q] = stage[q]
    BY <2>0 DEF Notified
  <2>2. UNCHANGED <<state, userData>>
    BY <1>4 DEF Reap, Pop, submissionVars
  <2>3. slab[k].state # "Cancelled" => state[o] = "Submitted"
    <3>1. slab[k] # Finished
      BY <2>1, OwnEntry
    <3>2. slab[k].state # "Cancelled" => \E p \in Ops : KeyOf(p) = k /\ state[p] = "Submitted"
      BY <3>1 DEF EntriesHeld, KeyOf
    <3> QED
      BY <2>1, <3>2, OwnEntry
  <2>4. slab'[k] # Finished => slab[k].state # "Cancelled" /\ slab'[k].state # "Cancelled"
    BY <2>1 DEF Multiple, Single
  <2>5. \A p \in Ops : p # o => stage'[Op(p)] = stage[Op(p)]
    BY <2>1, RequestTypes
  <2> QED
    BY <2>1, <2>2, <2>3, <2>4, <2>5, HeldChange DEF KeyOf
<1>5. CASE Quiet
  <2>1. /\ slab' = slab
        /\ \A o \in Ops : /\ userData'[Op(o)] = userData[Op(o)] /\ (Armed(o)' <=> Armed(o))
                          /\ state[o] = "Submitted" => state'[o] = "Submitted"
    BY <1>5, QuietFacts
  <2> QED
    BY <2>1 DEF EntriesHeld
<1> QED
  BY <1>1, <1>2, <1>3, <1>4, <1>5, StepKinds

(* Every step keeps the result queues accounted for: a handle that leaves   *)
(* an entry is recycled, and one that is recycled goes to an entry.         *)
LEMMA QueuesHeldNext ==
  ASSUME DropArmed = FALSE, StateInv, Sound, QueuesHeld, [Next]_vars
  PROVE  QueuesHeld'
<1> DEFINE Held(h) == \E l \in Keys : slab[l].state = "Multiple" /\ slab[l].handle = h
           Free(h) == \E i \in 1 .. Len(unused) : unused[i] = h
<1>0. StateOK /\ QueueInv
  BY DEF StateInv, Sound
<1>1. ASSUME UNCHANGED unused, Len(queues') = Len(queues),
             \A l \in Keys : slab[l].state = "Multiple" =>
               slab'[l].state = "Multiple" /\ slab'[l].handle = slab[l].handle
      PROVE  QueuesHeld'
  BY <1>1 DEF QueuesHeld
<1>2. ASSUME NEW k \in Keys, slab[k].state = "Multiple", Release(slab[k].handle),
             \A l \in Keys : l # k => slab'[l] = slab[l]
      PROVE  QueuesHeld'
  <2> DEFINE h == slab[k].handle
  <2>1. /\ h \in 1 .. Len(queues) /\ queues \in Seq(Seq(Results))
        /\ unused \in Seq(1 .. Len(queues))
    BY <1>0, <1>2, Handles DEF StateOK
  <2>2. /\ Len(unused) \in Nat /\ Len(unused') = Len(unused) + 1
        /\ unused'[Len(unused) + 1] = h
        /\ \A i \in 1 .. Len(unused) : unused'[i] = unused[i]
    BY <1>2, <2>1, AppendProperties, LenProperties DEF Release
  <2>3. Len(queues') = Len(queues)
    BY <1>2, <2>1, LenProperties DEF Release
  <2> HIDE DEF h
  <2>4. \A g : Free(g) \/ g = h => Free(g)'
    BY <2>2
  <2>5. \A g : Held(g) => Held(g)' \/ g = h
    BY <1>2 DEF h
  <2> QED
    BY <2>3, <2>4, <2>5 DEF QueuesHeld
<1>3. ASSUME NEW k \in Keys, NEW o \in Ops, NEW r \in Results, StoreFirst(r),
             slab[k].state = "Vacant", slab'[k] = Multiple(o, NextHandle, TRUE),
             \A l \in Keys : l # k => slab'[l] = slab[l]
      PROVE  QueuesHeld'
  <2> DEFINE h == NextHandle
  <2>1. /\ \A g \in 1 .. Len(queues') : g \in 1 .. Len(queues) \/ g = h
        /\ \A i \in 1 .. Len(unused') : unused'[i] = unused[i]
        /\ \A i \in 1 .. Len(unused) : unused[i] # h => i \in 1 .. Len(unused')
    BY <1>0, <1>3, FirstHandle
  <2>2. \E l \in Keys : slab'[l].state = "Multiple" /\ slab'[l].handle = h
    BY <1>3 DEF Multiple
  <2> HIDE DEF h
  <2>3. \A g : Free(g) => Free(g)' \/ g = h
    BY <2>1
  <2>4. \A g : Held(g) => Held(g)'
    BY <1>3
  <2> QED
    BY <2>1, <2>2, <2>3, <2>4 DEF QueuesHeld
<1>4. ASSUME NEW o \in Ops, FirstPoll(o)
      PROVE  QueuesHeld'
  <2>1. UNCHANGED <<queues, unused>> /\ \A l \in Keys : slab[l] # Finished => slab'[l] = slab[l]
    BY <1>4, SubmitFacts
  <2> QED
    BY <1>1, <2>1 DEF Finished
<1>5. ASSUME NEW o \in Ops, PollFuture(o) \/ PollStream(o)
      PROVE  QueuesHeld'
  <2>1. PICK k \in Keys : TakeResult(k) /\ \A l \in Keys : l # k => slab'[l] = slab[l]
    BY <1>5, TakeFacts
  <2>2. CASE slab[k].state = "Multiple" /\ Release(slab[k].handle)
    BY <1>2, <2>1, <2>2
  <2>3. CASE TakeSingle(k)
    BY <1>1, <2>1, <2>3 DEF TakeSingle
  <2>4. CASE \E q : queues' = [queues EXCEPT ![slab[k].handle] = q] /\ UNCHANGED <<slab, unused>>
    BY <1>0, <1>1, <2>4, LenProperties DEF StateOK
  <2> QED
    BY <2>1, <2>2, <2>3, <2>4 DEF TakeResult, TakeMultiple
<1>6. ASSUME NEW o \in Ops, DropSubmitted(o)
      PROVE  QueuesHeld'
  <2>1. PICK k \in Keys : TryCancel(k, o) /\ \A l \in Keys : l # k => slab'[l] = slab[l]
    BY <1>6, CancelFacts
  <2>2. CASE slab[k].state = "Multiple"
    BY <1>2, <2>1, <2>2 DEF TryCancel
  <2>3. CASE slab[k].state # "Multiple"
    BY <1>1, <2>1, <2>3 DEF TryCancel
  <2> QED
    BY <2>2, <2>3
<1>7. ASSUME Reap, UNCHANGED submissionVars, Head(cq).userData # IgnoreKey
      PROVE  QueuesHeld'
  <2>0. PICK o \in Ops, k \in Keys, r \in Results : Notified(o, k, r)
    BY <1>7, NotifyFacts
  <2>1. /\ TryNotify(k, r)
        /\ \A l \in Keys : l # k => slab'[l] = slab[l]
        /\ \/ slab[k].state = "Vacant" /\ r.more /\ slab'[k] = Multiple(o, NextHandle, TRUE)
           \/ slab[k].state = "Vacant" /\ ~r.more /\ slab'[k] = Single(r)
           \/ slab[k].state = "Multiple" /\ slab'[k] = Multiple(o, slab[k].handle, r.more)
           \/ slab[k].state = "Cancelled" /\ slab'[k] = Finished
    BY <2>0 DEF Notified
  <2>2. CASE slab[k].state = "Vacant" /\ r.more
    BY <1>3, <2>1, <2>2 DEF TryNotify, NotifyVacant, NotifyMultiple, NotifyCancelled
  <2>3. CASE slab[k].state = "Vacant" /\ ~r.more
    BY <1>1, <2>1, <2>3 DEF TryNotify, NotifyVacant, NotifyMultiple, NotifyCancelled
  <2>4. CASE slab[k].state = "Multiple"
    <3>1. queues' = [queues EXCEPT ![slab[k].handle] = Append(@, r)] /\ unused' = unused
      BY <2>1, <2>4 DEF TryNotify, NotifyVacant, NotifyMultiple, NotifyCancelled
    <3>2. slab'[k].state = "Multiple" /\ slab'[k].handle = slab[k].handle
      BY <2>1, <2>4 DEF Multiple
    <3>3. Len(queues') = Len(queues)
      BY <1>0, <3>1, LenProperties DEF StateOK
    <3> QED
      BY <1>1, <2>1, <3>1, <3>2, <3>3
  <2>5. CASE slab[k].state = "Cancelled"
    BY <1>1, <2>1, <2>5 DEF TryNotify, NotifyVacant, NotifyMultiple, NotifyCancelled
  <2> QED
    BY <2>1, <2>2, <2>3, <2>4, <2>5
<1>8. CASE Quiet
  BY <1>1, <1>8, QuietFacts
<1> QED
  BY <1>4, <1>5, <1>6, <1>7, <1>8, StepKinds

-------------------------------------------------------------------------------
(***************************************************************************)
(* Wakeups, and which submission a step is about.                          *)
(***************************************************************************)

(* A step that is not about submission p: p keeps its entry and the results *)
(* in it, and is neither woken nor, with a result to return, put to sleep.  *)
Undisturbed(p) ==
  /\ state'[p] = state[p] \/ (state[p] \in {"Initial", "Completed"} /\ state'[p] = "Dropped")
  /\ delivered'[p] = delivered[p]
  /\ state[p] = "Submitted" => \E k \in Keys :
       /\ KeyOf(p) = k /\ userData'[Op(p)] = k
       /\ slab[k] # Finished /\ slab'[k] = slab[k] /\ BoxAt(k)' = BoxAt(k)
  /\ p \in woken' => p \in woken
  /\ state[p] = "Submitted" /\ p \in woken => p \in woken' \/ ~HasResult(KeyOf(p))

(* What leaves all but one entry alone disturbs only the submission that    *)
(* holds it.                                                                *)
LEMMA OthersLeftAlone ==
  ASSUME StateInv, Sound, NEW o \in Ops, NEW k \in Keys,
         slab[k] = Finished \/ (KeyOf(o) = k /\ (Armed(o) \/ state[o] = "Submitted")),
         \A l \in Keys : l # k => slab'[l] = slab[l] /\ BoxAt(l)' = BoxAt(l),
         \A p \in Ops : p # o =>
           /\ userData'[Op(p)] = userData[Op(p)] /\ state'[p] = state[p]
           /\ delivered'[p] = delivered[p] /\ (p \in woken' <=> p \in woken)
  PROVE  \A p \in Ops : p # o => Undisturbed(p)
<1> SUFFICES ASSUME NEW p \in Ops, p # o, state[p] = "Submitted"
             PROVE  \E l \in Keys :
                      /\ KeyOf(p) = l /\ userData'[Op(p)] = l
                      /\ slab[l] # Finished /\ slab'[l] = slab[l] /\ BoxAt(l)' = BoxAt(l)
  BY DEF Undisturbed
<1>1. PICK l \in Keys : l = KeyOf(p)
  BY OwnEntry
<1>2. slab[l] # Finished
  BY <1>1, OwnEntry
<1>3. l # k
  BY <1>1, <1>2, OwnEntry
<1> QED
  BY <1>1, <1>2, <1>3 DEF KeyOf

(* The steps that disturb submission o. *)
Disturbs(o) ==
  \/ FirstPoll(o) \/ PollFuture(o) \/ PollStream(o) \/ DropSubmitted(o)
  \/ /\ Reap /\ UNCHANGED submissionVars /\ Head(cq).userData # IgnoreKey
     /\ \E k \in Keys, r \in Results : Notified(o, k, r)

(* A step disturbs one submission at most. *)
LEMMA StepDisturbs ==
  ASSUME DropArmed = FALSE, StateInv, Sound, [Next]_vars
  PROVE  \/ \E o \in Ops : Disturbs(o) /\ \A p \in Ops : p # o => Undisturbed(p)
         \/ Quiet /\ \A p \in Ops : Undisturbed(p)
<1>1. ASSUME NEW o \in Ops, FirstPoll(o)
      PROVE  \A p \in Ops : p # o => Undisturbed(p)
  <2>1. PICK k \in Keys :
          /\ slab[k] = Finished
          /\ \A l \in Keys : l # k => slab'[l] = slab[l] /\ BoxAt(l)' = BoxAt(l)
          /\ UNCHANGED <<woken, delivered>>
          /\ \A p \in Ops : p # o => state'[p] = state[p]
          /\ \/ UNCHANGED uringVars
             \/ \A r \in Requests : r # Op(o) => userData'[r] = userData[r]
    BY <1>1, SubmitFacts
  <2>2. \A p \in Ops : p # o => userData'[Op(p)] = userData[Op(p)]
    BY <2>1, RequestTypes DEF uringVars
  <2> QED
    BY <2>1, <2>2, OthersLeftAlone
<1>2. ASSUME NEW o \in Ops, PollFuture(o) \/ PollStream(o)
      PROVE  \A p \in Ops : p # o => Undisturbed(p)
  <2>1. PICK k \in Keys, r \in Results :
          /\ k = KeyOf(o) /\ state[o] = "Submitted"
          /\ \A l \in Keys : l # k => slab'[l] = slab[l] /\ BoxAt(l)' = BoxAt(l)
          /\ \A p \in Ops : p # o => state'[p] = state[p] /\ (p \in woken' <=> p \in woken)
          /\ delivered' = [delivered EXCEPT ![o] = Append(@, r)]
          /\ UNCHANGED uringVars
    BY <1>2, TakeFacts
  <2>2. \A p \in Ops : p # o => delivered'[p] = delivered[p]
    BY <2>1 DEF StateInv, StateOK
  <2>3. UNCHANGED userData
    BY <2>1 DEF uringVars
  <2> QED
    BY <2>1, <2>2, <2>3, OthersLeftAlone
<1>3. ASSUME NEW o \in Ops, DropSubmitted(o)
      PROVE  \A p \in Ops : p # o => Undisturbed(p)
  <2>1. PICK k \in Keys :
          /\ k = KeyOf(o) /\ state[o] = "Submitted"
          /\ \A l \in Keys : l # k => slab'[l] = slab[l] /\ BoxAt(l)' = BoxAt(l)
          /\ \A p \in Ops : p # o => state'[p] = state[p]
          /\ UNCHANGED <<woken, delivered>>
          /\ \/ UNCHANGED uringVars
             \/ \A r \in Requests : r # Cancel(o) => userData'[r] = userData[r]
    BY <1>3, CancelFacts
  <2>2. \A p \in Ops : userData'[Op(p)] = userData[Op(p)]
    BY <2>1, RequestTypes DEF uringVars
  <2> QED
    BY <2>1, <2>2, OthersLeftAlone
<1>4. ASSUME Reap, UNCHANGED submissionVars, Head(cq).userData # IgnoreKey
      PROVE  \E o \in Ops : Disturbs(o) /\ \A p \in Ops : p # o => Undisturbed(p)
  <2>1. PICK o \in Ops, k \in Keys, r \in Results : Notified(o, k, r)
    BY <1>4, NotifyFacts
  <2>2. /\ k = KeyOf(o) /\ Armed(o)
        /\ \A l \in Keys : l # k => slab'[l] = slab[l] /\ BoxAt(l)' = BoxAt(l)
        /\ woken' = woken \/ woken' = woken \cup {o}
    BY <2>1 DEF Notified
  <2>3. UNCHANGED <<userData, state, delivered>>
    BY <1>4 DEF Reap, Pop, submissionVars
  <2>4. \A p \in Ops : p # o => Undisturbed(p)
    BY <2>2, <2>3, OthersLeftAlone
  <2> QED
    BY <1>4, <2>1, <2>4 DEF Disturbs
<1>5. ASSUME Quiet
      PROVE  \A p \in Ops : Undisturbed(p)
  <2> SUFFICES ASSUME NEW p \in Ops
               PROVE  Undisturbed(p)
    OBVIOUS
  <2>1. /\ UNCHANGED <<slab, queues, delivered>>
        /\ userData'[Op(p)] = userData[Op(p)]
        /\ state'[p] = state[p] \/ (state[p] \in {"Initial", "Completed"} /\ state'[p] = "Dropped")
        /\ p \in woken' => p \in woken
        /\ p \in woken => p \in woken' \/ ~HasResult(KeyOf(p))
    BY <1>5, QuietFacts
  <2>2. \A k \in Keys : BoxAt(k)' = BoxAt(k)
    BY <2>1 DEF BoxAt
  <2>3. state[p] = "Submitted" => \E k \in Keys :
          KeyOf(p) = k /\ userData'[Op(p)] = k /\ slab[k] # Finished
    BY <2>1, OwnEntry DEF KeyOf
  <2> QED
    BY <2>1, <2>2, <2>3 DEF Undisturbed
<1> QED
  BY <1>1, <1>2, <1>3, <1>4, <1>5, StepKinds DEF Disturbs

(* No step gives resources back to a submission. *)
LEMMA OwnerStays ==
  ASSUME StateInv, [Next]_vars
  PROVE  \A o \in Ops : owner'[o] = "submission" => owner[o] = "submission"
<1>0. owner \in [Ops -> {"submission", "cancellation", "caller", "dropped"}]
  BY DEF StateInv, StateOK
<1>1. ASSUME NEW o \in Ops, Poll(o) \/ Drop(o)
      PROVE  UNCHANGED owner \/ \E w : owner' = [owner EXCEPT ![o] = w] /\ (w = "submission" => owner[o] = w)
  BY <1>1 DEF Poll, FirstPoll, Submit, PollPending, PollFuture, PollStream, OwnerAfterItem,
              Drop, DropInitial, DropSubmitted, DropCompleted, CancelOp, TryCancel, completionVars
<1>2. ASSUME RingStep
      PROVE  UNCHANGED owner \/ \E o : owner' = [owner EXCEPT ![o] = "dropped"]
  BY <1>2 DEF RingStep, Wait, EnterSubmit, EnterRefused, EnterReturn, Reap, WaitReturns,
              HandleIgnored, HandleCompletion, TryNotify, NotifyVacant, NotifyMultiple,
              NotifyCancelled, SubmitDetached, KernelCompletes, KernelPostsMore, completionVars
<1>3. UNCHANGED vars => UNCHANGED owner
  BY DEF vars, completionVars
<1> QED
  BY <1>0, <1>1, <1>2, <1>3 DEF Next, Halted

(* Every step keeps NoLostWakeup: what adds a result to an entry wakes its  *)
(* task, and a poll that leaves a result behind is followed by another.     *)
LEMMA WokenNext ==
  ASSUME DropArmed = FALSE, StateInv, Sound, NoLostWakeup, [Next]_vars
  PROVE  NoLostWakeup'
<1> DEFINE Awake(p) == state[p] = "Submitted" /\ (p \in Awaited => owner[p] = "submission")
                         /\ HasResult(KeyOf(p)) => p \in woken
<1>1. ASSUME NEW p \in Ops, Undisturbed(p)
      PROVE  Awake(p)'
  <2> SUFFICES ASSUME state'[p] = "Submitted", p \in Awaited => owner'[p] = "submission",
                      HasResult(KeyOf(p))'
               PROVE  p \in woken'
    OBVIOUS
  <2>1. state[p] = "Submitted" /\ (p \in Awaited => owner[p] = "submission")
    BY <1>1, OwnerStays DEF Undisturbed
  <2>2. PICK k \in Keys : KeyOf(p) = k /\ userData'[Op(p)] = k /\ BoxAt(k)' = BoxAt(k)
    BY <1>1, <2>1 DEF Undisturbed
  <2>3. BoxAt(k)' # <<>>
    BY <2>2 DEF HasResult, BoxAt, KeyOf
  <2>4. HasResult(KeyOf(p))
    BY <2>2, <2>3, BoxHasResult
  <2> QED
    BY <1>1, <2>1, <2>4 DEF Undisturbed, NoLostWakeup
<1>2. ASSUME NEW o \in Ops, Disturbs(o)
      PROVE  Awake(o)'
  <2>1. CASE FirstPoll(o)
    <3>1. PICK k \in Keys :
            /\ slab'[k] = Vacant(o) /\ state[o] = "Initial"
            /\ userData'[Op(o)] = k \/ UNCHANGED state
      BY <2>1, SubmitFacts
    <3>2. state'[o] = "Submitted" => ~HasResult(KeyOf(o))'
      BY <3>1 DEF HasResult, Vacant, KeyOf
    <3> QED
      BY <3>2
  <2>2. CASE PollFuture(o)
    <3>1. owner'[o] # "submission" /\ o \in Awaited
      BY <2>2 DEF PollFuture, StateInv, StateOK
    <3> QED
      BY <3>1
  <2>3. CASE PollStream(o)
    <3>1. state'[o] = "Submitted" => o \in woken'
      BY <2>3 DEF PollStream, NextState, StateInv, StateOK
    <3> QED
      BY <3>1
  <2>4. CASE DropSubmitted(o)
    <3>1. state'[o] # "Submitted"
      BY <2>4 DEF DropSubmitted, StateInv, StateOK
    <3> QED
      BY <3>1
  <2>5. ASSUME NEW k \in Keys, NEW r \in Results, Notified(o, k, r), UNCHANGED submissionVars
        PROVE  Awake(o)'
    <3>1. /\ k = KeyOf(o) /\ Armed(o)
          /\ slab[k].state # "Cancelled" => woken' = woken \cup {o}
      BY <2>5 DEF Notified
    <3>2. state[o] = "Submitted" => slab[k].state # "Cancelled"
      BY <3>1 DEF Sound, KeyInv, Entries
    <3> QED
      BY <2>5, <3>1, <3>2 DEF submissionVars
  <2> QED
    BY <1>2, <2>1, <2>2, <2>3, <2>4, <2>5 DEF Disturbs
<1>3. \A p \in Ops : Awake(p)'
  BY <1>1, <1>2, StepDisturbs
<1> QED
  BY <1>3 DEF NoLostWakeup

(* A new ring has an empty slab and unused queues. *)
LEMMA HeldInit ==
  ASSUME Init
  PROVE  EntriesHeld /\ QueuesHeld /\ NoLostWakeup
<1>1. /\ slab = [k \in Keys |-> Finished] /\ state = [o \in Ops |-> "Initial"]
      /\ queues = [h \in 1 .. InitialQueues |-> <<>>] /\ unused = [h \in 1 .. InitialQueues |-> h]
  BY DEF Init, InitRing, InitCompletions
<1>2. Len(queues) = InitialQueues /\ Len(unused) = InitialQueues
  BY <1>1, InitialQueuesAssumption
<1> QED
  BY <1>1, <1>2 DEF EntriesHeld, QueuesHeld, NoLostWakeup

(* HeldInv is inductive on top of IInv: in a running program every entry of *)
(* the slab and every result queue is held by a submission, or by a         *)
(* cancelled operation whose completion is still to come (completion.rs:    *)
(* try_cancel, try_notify, release), and no wakeup is lost.                 *)
THEOREM HeldInductive ==
  ASSUME DropArmed = FALSE
  PROVE  Spec => []HeldInv
<1>1. Init => HeldInv
  BY HeldInit DEF HeldInv
<1>2. IInv /\ HeldInv /\ [Next]_vars => HeldInv'
  <2> SUFFICES ASSUME IInv, HeldInv, [Next]_vars
               PROVE  HeldInv'
    OBVIOUS
  <2>1. CASE Stopped
    <3>1. UNCHANGED vars
      BY <2>1, StoppedIsFinal
    <3> QED
      BY <3>1, <2>1 DEF Stopped, HeldInv, NoLostWakeup, HasResult, KeyOf, vars, completionVars,
                   uringVars, ringVars, submissionVars
  <2>2. CASE Sound
    BY <2>2, WokenNext, EntriesHeldNext, QueuesHeldNext DEF IInv, Sound, HeldInv
  <2> QED
    BY <2>1, <2>2 DEF IInv
<1> QED
  BY <1>1, <1>2, IInvInductive, PTL DEF Spec

(* A submission with a result to return has its task woken, although        *)
(* results arrive while tasks do not run and a poll takes one of many       *)
(* (completion.rs:187-246).                                                 *)
THEOREM WakeupsKept ==
  ASSUME DropArmed = FALSE
  PROVE  Spec => []NoLostWakeup
<1>1. HeldInv => NoLostWakeup
  BY DEF HeldInv
<1> QED
  BY <1>1, HeldInductive, PTL

(* A completion that reaches a dropped submission finds its entry           *)
(* Cancelled, which has no waker.                                           *)
LEMMA WokenStep ==
  ASSUME DropArmed = FALSE, IInv, HeldInv, [Next]_vars,
         NEW p \in Ops, state[p] = "Dropped", p \in woken'
  PROVE  p \in woken
<1>1. CASE Stopped
  BY <1>1, StoppedIsFinal DEF vars, completionVars
<1>2. CASE Sound
  <2>1. StateInv /\ EntriesHeld
    BY <1>2 DEF IInv, Sound, HeldInv
  <2>2. Undisturbed(p) => p \in woken
    BY DEF Undisturbed
  <2>3. CASE Disturbs(p)
    <3>1. CASE FirstPoll(p) \/ PollFuture(p) \/ PollStream(p) \/ DropSubmitted(p)
      BY <3>1 DEF FirstPoll, PollFuture, PollStream, DropSubmitted, Pollable
    <3>2. ASSUME NEW k \in Keys, NEW r \in Results, Notified(p, k, r)
          PROVE  p \in woken
      <4>1. /\ k = KeyOf(p) /\ Armed(p)
            /\ slab[k].state = "Cancelled" => woken' = woken
        BY <3>2 DEF Notified
      <4>2. slab[k].state = "Cancelled"
        <5>1. slab[k] # Finished
          BY <1>2, <2>1, <4>1, OwnEntry
        <5>2. slab[k].state # "Cancelled" => \E o \in Ops : KeyOf(o) = k /\ state[o] = "Submitted"
          BY <2>1, <5>1 DEF EntriesHeld, KeyOf
        <5> QED
          BY <1>2, <2>1, <4>1, <5>2, OwnEntry
      <4> QED
        BY <4>1, <4>2
    <3> QED
      BY <2>3, <3>1, <3>2 DEF Disturbs
  <2> QED
    BY <1>2, <2>1, <2>2, <2>3, StepDisturbs
<1> QED
  BY <1>1, <1>2 DEF IInv

(* Dropping a submission drops its waker (completion.rs:155 and 173): the   *)
(* late completion of its operation wakes nobody.                           *)
THEOREM DroppedStaysAsleep ==
  ASSUME DropArmed = FALSE
  PROVE  Spec => DroppedNeverWoken
<1>1. IInv /\ HeldInv /\ [Next]_vars
        => [\A o \in Ops : state[o] = "Dropped" /\ o \in woken' => o \in woken]_vars
  BY WokenStep
<1> QED
  BY <1>1, IInvInductive, HeldInductive, PTL DEF Spec, DroppedNeverWoken

(* Nothing is outstanding exactly when both counters are zero. *)
LEMMA NoneOutstanding ==
  ASSUME IsFiniteSet(Requests), Counted
  PROVE  active + detached = 0 <=> Outstanding = {}
<1>1. /\ IsFiniteSet(OutstandingOps) /\ Cardinality(OutstandingOps) \in Nat
      /\ IsFiniteSet(OutstandingRest) /\ Cardinality(OutstandingRest) \in Nat
  BY CountFinite
<1>2. active + detached = 0 <=> active = 0 /\ detached = 0
  BY <1>1 DEF Counted
<1>3. active + detached = 0 <=> OutstandingOps = {} /\ OutstandingRest = {}
  BY <1>1, <1>2, FS_EmptySet DEF Counted
<1> QED
  BY <1>3 DEF OutstandingRest, OutstandingOps

(* When every queue is unused, there are as many as unused handles. *)
LEMMA AllUnused ==
  ASSUME StateOK, QueuesPrivate, QueuesHeld, \A k \in Keys : slab[k] = Finished
  PROVE  Len(queues) = Len(unused)
<1> DEFINE n == Len(queues)
           m == Len(unused)
<1>1. n \in Nat /\ m \in Nat /\ \A i \in 1 .. m : unused[i] \in 1 .. n
  BY Handles
<1>2. \A h \in 1 .. n : \E i \in 1 .. m : unused[i] = h
  BY DEF QueuesHeld, Finished
<1>3. \A i, j \in 1 .. m : unused[i] = unused[j] => i = j
  BY DEF QueuesPrivate
<1> HIDE DEF n, m
<1> DEFINE f == [i \in 1 .. m |-> unused[i]]
<1>4. f \in Bijection(1 .. m, 1 .. n)
  <2>1. f \in [1 .. m -> 1 .. n]
    BY <1>1
  <2>2. f \in Injection(1 .. m, 1 .. n)
    BY <1>3, <2>1 DEF Injection, IsInjective
  <2>3. f \in Surjection(1 .. m, 1 .. n)
    BY <1>2, <2>1 DEF Surjection
  <2> QED
    BY <2>2, <2>3 DEF Bijection
<1>5. IsFiniteSet(1 .. m) /\ Cardinality(1 .. m) = m /\ Cardinality(1 .. n) = n
  BY <1>1, FS_Interval
<1>6. Cardinality(1 .. m) = Cardinality(1 .. n)
  <2>1. ExistsBijection(1 .. m, 1 .. n)
    BY <1>4 DEF ExistsBijection
  <2> QED
    BY <1>5, <2>1, FS_Bijection
<1> QED
  BY <1>5, <1>6 DEF n, m

(* Ring::is_done in a running program. *)
LEMMA DoneExact ==
  ASSUME IsFiniteSet(Requests), StateInv, Sound, Counted, EntriesHeld, QueuesHeld
  PROVE  IsDone <=> Outstanding = {} /\ \A o \in Ops : state[o] # "Submitted"
<1>1. active + detached = 0 <=> Outstanding = {}
  BY NoneOutstanding
<1>2. ASSUME IsDone, NEW o \in Ops
      PROVE  state[o] # "Submitted"
  BY <1>2, OwnEntry DEF IsDone, IsEmpty
<1>3. ASSUME Outstanding = {}, \A o \in Ops : state[o] # "Submitted"
      PROVE  IsEmpty
  <2>1. \A o \in Ops : ~Armed(o)
    BY <1>3, RequestTypes DEF Armed, Outstanding
  <2>2. \A k \in Keys : slab[k] = Finished
    BY <1>3, <2>1 DEF EntriesHeld
  <2>3. Len(queues) = Len(unused)
    BY <2>2, AllUnused DEF StateInv, Sound, QueueInv
  <2> QED
    BY <2>2, <2>3 DEF IsEmpty
<1> QED
  BY <1>1, <1>2, <1>3 DEF IsDone

(* Ring::is_done (mod.rs:192-204) is exact, for any finite numbers of       *)
(* operations and detached requests: once all have completed no entry of    *)
(* the slab and no result queue has leaked.                                 *)
THEOREM DoneIsExact ==
  ASSUME DropArmed = FALSE, IsFiniteSet(Ops), IsFiniteSet(Detached)
  PROVE  Spec => []IsDoneIsExact
<1>1. IInv /\ HeldInv /\ CountersExact => IsDoneIsExact
  BY DoneExact, FiniteRequests
     DEF IInv, Stopped, HeldInv, CountersExact, Counted, OutstandingRest, IsDoneIsExact
<1> QED
  BY <1>1, IInvInductive, HeldInductive, CountersCorrect, PTL

-------------------------------------------------------------------------------
(***************************************************************************)
(* AsyncCancels: their order in the submission queue, and their targets.   *)
(***************************************************************************)

(* Steps that leave the submission queue and the keys alone keep the order  *)
(* of the AsyncCancels, unless a request reaches the kernel.                *)
LEMMA OrderFrame ==
  ASSUME CancelInOrder, UNCHANGED sq,
         \A o \in Ops :
           /\ userData'[Op(o)] = userData[Op(o)]
           /\ stage'[Cancel(o)] = "sq" => stage[Cancel(o)] = "sq"
           /\ stage'[Op(o)] = "kernel" => stage[Op(o)] = "kernel"
  PROVE  CancelInOrder'
BY DEF CancelInOrder, KeyOf

(* Behind the queue a request is behind every AsyncCancel, and an           *)
(* AsyncCancel is behind no operation with its own key but the cancelled    *)
(* one.                                                                     *)
LEMMA OrderPush ==
  ASSUME StateOK, Sound, CancelInOrder, NEW r \in Requests, NEW u, Push(r, u),
         stage[r] = "none",
         \A o \in Ops : r = Cancel(o) =>
           \A p \in Ops : p # o /\ KeyOf(p) = KeyOf(o) => stage[Op(p)] \notin {"sq", "kernel"},
         \A o \in Ops : r = Op(o) => stage[Cancel(o)] = "none"
  PROVE  CancelInOrder'
<1>1. /\ sq \in Seq(Requests) /\ sq' = Append(sq, r)
      /\ \A q \in Requests : q # r => stage'[q] = stage[q] /\ userData'[q] = userData[q]
      /\ stage'[r] = "sq"
  BY DEF Push, StateOK
<1>2. /\ Len(sq) \in Nat /\ Len(sq') = Len(sq) + 1
      /\ sq'[Len(sq) + 1] = r /\ \A i \in 1 .. Len(sq) : sq'[i] = sq[i]
  BY <1>1, AppendProperties, LenProperties
<1>3. \A i \in 1 .. Len(sq) : stage[sq[i]] = "sq" /\ sq[i] # r
  BY DEF Sound, KeyInv, SqOnce
<1> SUFFICES ASSUME NEW o \in Ops, stage'[Cancel(o)] = "sq"
             PROVE  \E j \in 1 .. Len(sq') :
                      /\ sq'[j] = Cancel(o)
                      /\ \A p \in Ops : p # o /\ userData'[Op(p)] = userData'[Op(o)] =>
                           /\ stage'[Op(p)] # "kernel"
                           /\ \A i \in 1 .. Len(sq') : sq'[i] = Op(p) => j < i
  BY DEF CancelInOrder, KeyOf
<1>4. CASE r = Cancel(o)
  <2> SUFFICES ASSUME NEW p \in Ops, p # o, userData'[Op(p)] = userData'[Op(o)]
               PROVE  /\ stage'[Op(p)] # "kernel"
                      /\ \A i \in 1 .. Len(sq') : sq'[i] = Op(p) => Len(sq) + 1 < i
    BY <1>2, <1>4
  <2>1. stage[Op(p)] \notin {"sq", "kernel"}
    BY <1>1, <1>4, RequestTypes DEF KeyOf
  <2>2. Op(p) # r /\ stage'[Op(p)] = stage[Op(p)]
    BY <1>1, <1>4, RequestTypes
  <2>3. \A i \in 1 .. Len(sq) : sq[i] # Op(p)
    BY <1>3, <2>1
  <2> QED
    BY <1>2, <2>1, <2>2, <2>3
<1>5. CASE r # Cancel(o)
  <2>1. stage[Cancel(o)] = "sq"
    BY <1>1, <1>5, RequestTypes
  <2>2. PICK j \in 1 .. Len(sq) :
          /\ sq[j] = Cancel(o)
          /\ \A p \in Ops : p # o /\ KeyOf(p) = KeyOf(o) =>
               /\ stage[Op(p)] # "kernel"
               /\ \A i \in 1 .. Len(sq) : sq[i] = Op(p) => j < i
    BY <2>1 DEF CancelInOrder
  <2>3. r # Op(o)
    BY <2>1
  <2> SUFFICES ASSUME NEW p \in Ops, p # o, userData'[Op(p)] = userData'[Op(o)]
               PROVE  /\ stage'[Op(p)] # "kernel"
                      /\ \A i \in 1 .. Len(sq') : sq'[i] = Op(p) => j < i
    BY <1>2, <2>2
  <2>4. CASE r = Op(p)
    BY <1>1, <1>2, <1>3, <2>4
  <2>5. CASE r # Op(p)
    <3>1. /\ KeyOf(p) = KeyOf(o) /\ stage'[Op(p)] = stage[Op(p)]
      BY <1>1, <2>3, <2>5, RequestTypes DEF KeyOf
    <3>2. /\ stage[Op(p)] # "kernel" /\ \A i \in 1 .. Len(sq) : sq[i] = Op(p) => j < i
      BY <2>2, <3>1
    <3> QED
      BY <1>2, <2>5, <3>1, <3>2
  <2> QED
    BY <2>4, <2>5
<1> QED
  BY <1>4, <1>5

(* The head of the queue overtakes no AsyncCancel. *)
LEMMA OrderTail ==
  ASSUME StateOK, Sound, CancelInOrder, sq # <<>>, sq' = Tail(sq), UNCHANGED userData,
         NEW s \in {"kernel", "cq"}, stage' = [stage EXCEPT ![Head(sq)] = s]
  PROVE  CancelInOrder'
<1>1. /\ Len(sq) \in Nat /\ 1 <= Len(sq) /\ Head(sq) = sq[1] /\ Len(sq') = Len(sq) - 1
      /\ \A i \in 1 .. Len(sq') : sq'[i] = sq[i + 1]
  BY HeadTail DEF StateOK
<1>2. /\ Head(sq) \in Requests
      /\ \A q \in Requests : stage'[q] = IF q = Head(sq) THEN s ELSE stage[q]
  BY ConsumeKeeps DEF StateOK
<1> SUFFICES ASSUME NEW o \in Ops, stage'[Cancel(o)] = "sq"
             PROVE  \E j \in 1 .. Len(sq') :
                      /\ sq'[j] = Cancel(o)
                      /\ \A p \in Ops : p # o /\ KeyOf(p) = KeyOf(o) =>
                           /\ stage'[Op(p)] # "kernel"
                           /\ \A i \in 1 .. Len(sq') : sq'[i] = Op(p) => j < i
  BY DEF CancelInOrder, KeyOf
<1>3. stage[Cancel(o)] = "sq" /\ Head(sq) # Cancel(o)
  BY <1>2, RequestTypes
<1>4. PICK j \in 1 .. Len(sq) :
        /\ sq[j] = Cancel(o)
        /\ \A p \in Ops : p # o /\ KeyOf(p) = KeyOf(o) =>
             /\ stage[Op(p)] # "kernel"
             /\ \A i \in 1 .. Len(sq) : sq[i] = Op(p) => j < i
  BY <1>3 DEF CancelInOrder
<1>5. j # 1 /\ j - 1 \in 1 .. Len(sq') /\ sq'[j - 1] = Cancel(o)
  BY <1>1, <1>3, <1>4
<1>6. ASSUME NEW p \in Ops, p # o, KeyOf(p) = KeyOf(o)
      PROVE  /\ stage'[Op(p)] # "kernel"
             /\ \A i \in 1 .. Len(sq') : sq'[i] = Op(p) => j - 1 < i
  <2>1. stage[Op(p)] # "kernel" /\ \A i \in 1 .. Len(sq) : sq[i] = Op(p) => j < i
    BY <1>4, <1>6
  <2>2. Head(sq) # Op(p)
    BY <1>1, <2>1
  <2>3. stage'[Op(p)] # "kernel"
    BY <1>2, <2>1, <2>2, RequestTypes
  <2>4. ASSUME NEW i \in 1 .. Len(sq'), sq'[i] = Op(p)
        PROVE  j - 1 < i
    <3>1. i + 1 \in 1 .. Len(sq) /\ sq[i + 1] = Op(p)
      BY <1>1, <2>4
    <3> QED
      BY <2>1, <3>1
  <2> QED
    BY <2>3, <2>4
<1> QED
  BY <1>5, <1>6

(* An AsyncCancel finds at most the operation it was pushed for. *)
LEMMA TargetsOwn ==
  ASSUME CancelInOrder, NEW o \in Ops, stage[Cancel(o)] = "sq"
  PROVE  Targets(o) \subseteq {o}
BY DEF CancelInOrder, Targets, KeyOf

(* A dropped submission stays dropped. *)
LEMMA DroppedStays ==
  ASSUME StateInv, [Next]_vars, NEW o \in Ops, state[o] = "Dropped"
  PROVE  state'[o] = "Dropped"
<1>0. state \in [Ops -> {"Initial", "Submitted", "Completed", "Dropped"}]
  BY DEF StateInv, StateOK
<1>1. ASSUME NEW p \in Ops, Poll(p) \/ Drop(p)
      PROVE  \/ UNCHANGED state
             \/ \E s : /\ state' = [state EXCEPT ![p] = s]
                       /\ state[p] = "Dropped" => s = "Dropped"
  BY <1>1 DEF Poll, FirstPoll, PollPending, PollFuture, PollStream, Pollable, submissionVars,
              Drop, DropInitial, DropSubmitted, DropCompleted
<1>2. UNCHANGED submissionVars \/ UNCHANGED vars => UNCHANGED state
  BY DEF vars, submissionVars
<1> QED
  BY <1>0, <1>1, <1>2 DEF Next, Halted

(* Every step keeps the AsyncCancels in order, and their targets dropped:   *)
(* the one that is executed finds its own operation or none.                *)
LEMMA CancelNext ==
  ASSUME DropArmed = FALSE, StateInv, Sound, CancelInv, [Next]_vars
  PROVE  CancelInv'
<1> DEFINE Goal ==
             /\ CancelInOrder'
             /\ \A o \in aborted' : o \in aborted \/ (o \in Ops /\ state[o] = "Dropped")
             /\ \A o \in Ops : stage'[Cancel(o)] # "none" =>
                  stage[Cancel(o)] # "none" \/ state'[o] = "Dropped"
<1>0. /\ StateOK /\ CancelInOrder
      /\ \A o \in Ops : stage[Cancel(o)] # "none" => state[o] = "Dropped"
  BY DEF StateInv, CancelInv
<1>1. UNCHANGED uringVars => Goal
  BY <1>0, OrderFrame DEF uringVars
<1>2. ASSUME NEW o \in Ops, FirstPoll(o)
      PROVE  Goal
  <2>1. PICK k \in Keys : Submit(o, k)
    BY <1>2 DEF FirstPoll
  <2>2. CASE Push(Op(o), k)
    <3>1. stage[Op(o)] = "none" /\ stage[Cancel(o)] = "none"
      BY <1>2 DEF FirstPoll, Sound, KeyInv, PushedOnce
    <3>2. CancelInOrder'
      BY <1>0, <2>2, <3>1, RequestTypes, OrderPush
    <3>3. UNCHANGED aborted /\ \A p \in Ops : stage'[Cancel(p)] = stage[Cancel(p)]
      BY <1>0, <2>2, RequestTypes DEF Push, StateOK
    <3> QED
      BY <3>2, <3>3
  <2> QED
    BY <1>1, <2>1, <2>2 DEF Submit
<1>3. ASSUME NEW o \in Ops, DropSubmitted(o)
      PROVE  Goal
  <2>1. /\ state[o] = "Submitted" /\ CancelOp(o) /\ state'[o] = "Dropped"
    BY <1>0, <1>3 DEF DropSubmitted, StateOK
  <2>2. CASE MustCancel(KeyOf(o)) /\ Push(Cancel(o), IgnoreKey)
    <3>1. stage[Cancel(o)] = "none"
      BY <2>1 DEF Sound, KeyInv, PushedOnce
    <3>2. \A p \in Ops : p # o /\ KeyOf(p) = KeyOf(o) => stage[Op(p)] \notin {"sq", "kernel"}
      BY <2>1, OwnEntry DEF Armed
    <3>3. \A p \in Ops : Cancel(o) = Cancel(p) => p = o
      BY RequestTypes
    <3>4. CancelInOrder'
      BY <1>0, <2>2, <3>1, <3>2, <3>3, RequestTypes, OrderPush
    <3>5. UNCHANGED aborted /\ \A p \in Ops : p # o => stage'[Cancel(p)] = stage[Cancel(p)]
      BY <1>0, <2>2, RequestTypes DEF Push, StateOK
    <3> QED
      BY <2>1, <3>4, <3>5
  <2>3. UNCHANGED uringVars \/ (MustCancel(KeyOf(o)) /\ Push(Cancel(o), IgnoreKey))
    BY <2>1 DEF CancelOp, PushCancel
  <2> QED
    BY <1>1, <2>2, <2>3
<1>4. ASSUME NEW d \in Detached, SubmitDetached(d)
      PROVE  Goal
  <2>1. CASE Push(Det(d), IgnoreKey)
    <3>1. CancelInOrder'
      BY <1>0, <1>4, <2>1, RequestTypes, OrderPush DEF SubmitDetached
    <3>2. UNCHANGED aborted /\ \A p \in Ops : stage'[Cancel(p)] = stage[Cancel(p)]
      BY <1>0, <2>1, RequestTypes DEF Push, StateOK
    <3> QED
      BY <3>1, <3>2
  <2> QED
    BY <1>1, <1>4, <2>1 DEF SubmitDetached
<1>5. ASSUME EnterSubmit \/ EnterRefused
      PROVE  Goal
  <2>1. /\ sq # <<>> /\ sq' = Tail(sq) /\ UNCHANGED userData
        /\ \E s \in {"kernel", "cq"} : stage' = [stage EXCEPT ![Head(sq)] = s]
    BY <1>5 DEF EnterSubmit, EnterRefused, Consume, ConsumeCancel, Refuse
  <2>2. CancelInOrder'
    BY <1>0, <2>1, OrderTail
  <2>3. Head(sq) \in Requests /\ stage[Head(sq)] = "sq"
    BY <1>0, <2>1, ConsumeKeeps
  <2>4. \A o \in Ops : stage'[Cancel(o)] # "none" => stage[Cancel(o)] # "none"
    BY <1>0, <2>1, <2>3 DEF StateOK
  <2>5. CASE UNCHANGED aborted
    BY <2>2, <2>4, <2>5
  <2>6. CASE ConsumeCancel
    <3>1. PICK o \in Ops : Head(sq) = Cancel(o) /\ Head(sq).id = o
      BY <2>3, <2>6, RequestTypes DEF ConsumeCancel
    <3>2. state[o] = "Dropped" /\ Targets(o) \subseteq {o}
      BY <1>0, <2>3, <3>1, TargetsOwn
    <3>3. aborted' = aborted \cup Targets(o)
      BY <2>6, <3>1 DEF ConsumeCancel
    <3> QED
      BY <2>2, <2>4, <3>2, <3>3
  <2> QED
    BY <1>5, <2>5, <2>6 DEF EnterSubmit, EnterRefused, Consume, Refuse
<1>6. ASSUME UNCHANGED <<sq, userData, aborted>>, NEW r, NEW s \in {"cq", "done"},
             stage' = stage \/ (stage[r] # "none" /\ stage' = [stage EXCEPT ![r] = s])
      PROVE  Goal
  <2>1. \A q \in Requests : stage'[q] = stage[q] \/ (stage[q] # "none" /\ stage'[q] \in {"cq", "done"})
    BY <1>0, <1>6 DEF StateOK
  <2>2. \A o \in Ops : Op(o) \in Requests /\ Cancel(o) \in Requests
    BY RequestTypes
  <2>3. CancelInOrder'
    BY <1>0, <1>6, <2>1, <2>2, OrderFrame
  <2> QED
    BY <1>6, <2>1, <2>2, <2>3
<1>7. ASSUME NEW r \in Requests, KernelCompletes(r)
      PROVE  Goal
  BY <1>6, <1>7 DEF KernelCompletes, Complete
<1>8. ASSUME NEW o \in Ops, KernelPostsMore(o)
      PROVE  Goal
  BY <1>6, <1>8 DEF KernelPostsMore, CompleteMore
<1>9. ASSUME Reap
      PROVE  Goal
  <2>1. stage[Head(cq).req] \in {"kernel", "cq"}
    BY <1>0, <1>9, PopKeeps DEF Reap
  <2> QED
    BY <1>6, <1>9, <2>1 DEF Reap, Pop
<1>10. ASSUME Wait \/ EnterReturn \/ WaitReturns \/ UNCHANGED vars
       PROVE  Goal
  BY <1>1, <1>10 DEF Wait, EnterReturn, WaitReturns, vars
<1>11. ASSUME NEW o \in Ops, PollPending(o) \/ PollFuture(o) \/ PollStream(o)
                               \/ DropInitial(o) \/ DropCompleted(o)
       PROVE  Goal
  BY <1>1, <1>11 DEF PollPending, PollFuture, PollStream, DropInitial, DropCompleted
<1> HIDE DEF Goal
<1>12. Goal
  BY <1>2, <1>3, <1>4, <1>5, <1>7, <1>8, <1>9, <1>10, <1>11 DEF Next, Poll, Drop, RingStep, Halted
<1>13. \A o \in aborted' : state'[o] = "Dropped"
  <2>1. ASSUME NEW o \in aborted'
        PROVE  o \in Ops /\ state[o] = "Dropped"
    BY <1>0, <1>12, <2>1 DEF Goal, CancelInv, CancelHitsItsTarget, StateOK
  <2> QED
    BY <2>1, DroppedStays
<1> QED
  BY <1>0, <1>12, <1>13, DroppedStays DEF Goal, CancelInv, CancelHitsItsTarget

(* Nothing is cancelled in a new ring. *)
LEMMA CancelInit ==
  ASSUME Init
  PROVE  CancelInv
BY RequestTypes DEF Init, InitRing, InitUring, CancelInv, CancelInOrder, CancelHitsItsTarget

(* An AsyncCancel names its target by a key that is reused (mod.rs:251-267) *)
(* and never reaches an operation that was not dropped: the submission      *)
(* queue has the AsyncCancel in front of the next operation with that key.  *)
THEOREM CancelsHit ==
  ASSUME DropArmed = FALSE
  PROVE  Spec => []CancelHitsItsTarget
<1>1. Init => CancelInv
  BY CancelInit
<1>2. IInv /\ CancelInv /\ [Next]_vars => CancelInv'
  <2> SUFFICES ASSUME IInv, CancelInv, [Next]_vars
               PROVE  CancelInv'
    OBVIOUS
  <2>1. CASE Stopped
    <3>1. UNCHANGED vars
      BY <2>1, StoppedIsFinal
    <3> QED
      BY <3>1 DEF CancelInv, CancelInOrder, CancelHitsItsTarget, KeyOf, vars, uringVars, submissionVars
  <2>2. CASE Sound
    BY <2>2, CancelNext DEF IInv
  <2> QED
    BY <2>1, <2>2 DEF IInv
<1>3. CancelInv => CancelHitsItsTarget
  BY DEF CancelInv
<1> QED
  BY <1>1, <1>2, <1>3, IInvInductive, PTL DEF Spec
===============================================================================
