---------------------------- MODULE SubmissionKeys ----------------------------
(***************************************************************************)
(* The inductive invariant of the reactor.  First its types (StateInv),    *)
(* without any assumption on the clients.  Then IInv of SubmissionInv, when*)
(* no client drops an armed multishot submission, from which KeysStayValid *)
(* follows: the result queues (the Queue lemmas), the submission and       *)
(* completion queues (PushKeeps to PopKeeps), the entries of the slab      *)
(* (OwnEntry to EntriesChange), and one lemma per action.                  *)
(***************************************************************************)
EXTENDS SubmissionInv, SequenceTheorems, FiniteSetTheorems, TLAPS

(* The three kinds of requests never coincide, and an operation or an       *)
(* AsyncCancel is determined by the operation it is of.                     *)
LEMMA RequestTypes ==
  /\ \A o \in Ops : Op(o) \in Requests /\ Cancel(o) \in Requests
  /\ \A d \in Detached : Det(d) \in Requests
  /\ \A r \in Requests : r.kind = "op" => r.id \in Ops /\ r = Op(r.id)
  /\ \A r \in Requests : r.kind = "cancel" => r.id \in Ops /\ r = Cancel(r.id)
  /\ \A o, p \in Ops : Op(o) = Op(p) => o = p
  /\ \A o, p \in Ops : Cancel(o) = Cancel(p) => o = p
  /\ \A o, p \in Ops : Op(o) # Cancel(p)
  /\ \A o \in Ops, d \in Detached : Op(o) # Det(d) /\ Cancel(o) # Det(d)
BY DEF Requests, Op, Cancel, Det

(* SubmissionQueue::push keeps the kernel-side state well typed. *)
LEMMA PushTypes ==
  ASSUME StateOK, NEW r \in Requests, NEW u \in Keys \cup {IgnoreKey}, Push(r, u)
  PROVE  /\ sq' \in Seq(Requests)
         /\ cq' = cq
         /\ stage' \in [Requests -> Stages]
         /\ userData' \in [Requests -> Keys \cup {IgnoreKey}]
         /\ posted' \in [Ops -> 0 .. MaxMore]
         /\ aborted' \in SUBSET Ops
BY DEF StateOK, Push, Stages

(* CompletionSet::insert stores a well-typed Vacant entry. *)
LEMMA InsertTypes ==
  ASSUME StateOK, NEW k \in Keys, NEW o \in Ops, Insert(k, o)
  PROVE  /\ slab' \in [Keys -> Completions']
         /\ queues' \in Seq(Seq(Results))
         /\ unused' \in Seq(1 .. Len(queues'))
BY DEF StateOK, Insert, Completions, Vacant

(* ResultQueues::release keeps every handle an index of a queue. *)
LEMMA ReleaseTypes ==
  ASSUME StateOK, NEW h \in 1 .. Len(queues), Release(h)
  PROVE  /\ queues' \in Seq(Seq(Results))
         /\ Len(queues') = Len(queues)
         /\ unused' \in Seq(1 .. Len(queues'))
<1>1. <<>> \in Seq(Results)
  BY EmptySeq
<1>2. queues \in Seq(Seq(Results)) /\ unused \in Seq(1 .. Len(queues))
  BY DEF StateOK
<1>3. queues' \in Seq(Seq(Results)) /\ Len(queues') = Len(queues)
  BY <1>1, <1>2, ExceptSeq DEF Release
<1> QED
  BY <1>2, <1>3, AppendProperties DEF Release

(* Completion::try_cancel leaves a well-typed table, releasing the queue    *)
(* the entry held, if any.                                                  *)
LEMMA TryCancelTypes ==
  ASSUME StateOK, NEW k \in Keys, NEW o \in Ops, TryCancel(k, o)
  PROVE  /\ slab' \in [Keys -> Completions']
         /\ queues' \in Seq(Seq(Results))
         /\ unused' \in Seq(1 .. Len(queues'))
         /\ owner' \in [Ops -> {"submission", "cancellation", "caller", "dropped"}]
<1>1. CASE slab[k].state = "Multiple"
  <2>1. slab[k].handle \in 1 .. Len(queues)
    BY <1>1 DEF StateOK, Completions
  <2>2. Release(slab[k].handle)
    BY <1>1 DEF TryCancel
  <2>3. Len(queues') = Len(queues)
    BY <2>1, <2>2, ReleaseTypes
  <2>4. slab' \in [Keys -> Completions']
    BY <2>3 DEF StateOK, TryCancel, Completions, Cancelled, Finished
  <2> QED
    BY <2>1, <2>2, <2>4, ReleaseTypes DEF TryCancel, StateOK
<1>2. CASE slab[k].state # "Multiple"
  BY <1>2 DEF StateOK, TryCancel, Completions, Cancelled, Finished
<1> QED
  BY <1>1, <1>2

(* ResultQueues::handle returns the index of an existing queue, recycled    *)
(* or new, and no earlier handle is invalidated by a new one.               *)
LEMMA StoreFirstTypes ==
  ASSUME StateOK, NEW r \in Results, StoreFirst(r)
  PROVE  /\ queues' \in Seq(Seq(Results))
         /\ unused' \in Seq(1 .. Len(queues'))
         /\ Len(queues') >= Len(queues)
         /\ NextHandle \in 1 .. Len(queues')
<1>0. queues \in Seq(Seq(Results)) /\ unused \in Seq(1 .. Len(queues))
  BY DEF StateOK
<1>1. CASE unused = <<>>
  <2>1. <<r>> \in Seq(Results)
    OBVIOUS
  <2>2. queues' = Append(queues, <<r>>) /\ unused' = <<>>
    BY <1>1 DEF StoreFirst
  <2> QED
    BY <1>0, <1>1, <2>1, <2>2, AppendProperties DEF NextHandle
<1>2. CASE unused # <<>>
  <2>1. NextHandle \in 1 .. Len(queues)
    BY <1>0, <1>2 DEF NextHandle
  <2>2. Append(queues[NextHandle], r) \in Seq(Results)
    BY <1>0, <2>1
  <2>3. queues' = [queues EXCEPT ![NextHandle] = Append(queues[NextHandle], r)]
    BY <1>2 DEF StoreFirst
  <2>4. queues' \in Seq(Seq(Results)) /\ Len(queues') = Len(queues)
    BY <1>0, <2>1, <2>2, <2>3, ExceptSeq
  <2>5. unused' = SubSeq(unused, 1, Len(unused) - 1)
    BY <1>2 DEF StoreFirst
  <2>6. unused' \in Seq(1 .. Len(queues))
    BY SMTT(60), <1>0, <1>2, <2>5, SubSeqProperties
  <2> QED
    BY <1>0, <2>1, <2>4, <2>6
<1> QED
  BY <1>1, <1>2

(* Completion::try_notify leaves a well-typed table in each of its arms. *)
LEMMA TryNotifyTypes ==
  ASSUME StateOK, NEW k \in Keys, NEW r \in Results, TryNotify(k, r)
  PROVE  /\ slab' \in [Keys -> Completions']
         /\ queues' \in Seq(Seq(Results))
         /\ unused' \in Seq(1 .. Len(queues'))
         /\ owner' \in [Ops -> {"submission", "cancellation", "caller", "dropped"}]
         /\ woken' \in SUBSET Ops
<1>1. CASE NotifyVacant(k, r)
  <2>1. slab[k].waker \in Ops
    BY <1>1 DEF StateOK, NotifyVacant, Completions
  <2>2. CASE r.more /\ StoreFirst(r) /\ slab' = [slab EXCEPT ![k] = Multiple(@.waker, NextHandle, TRUE)]
    <3>1. /\ queues' \in Seq(Seq(Results))
          /\ unused' \in Seq(1 .. Len(queues'))
          /\ NextHandle \in 1 .. Len(queues')
          /\ \A h \in 1 .. Len(queues) : h \in 1 .. Len(queues')
      BY <2>2, StoreFirstTypes DEF StateOK
    <3>2. Multiple(slab[k].waker, NextHandle, TRUE) \in Completions'
      BY <2>1, <3>1 DEF Completions, Multiple
    <3>3. \A c \in Completions : c \in Completions'
      BY <3>1 DEF Completions
    <3>4. slab' \in [Keys -> Completions']
      BY <2>2, <3>2, <3>3 DEF StateOK
    <3> QED
      BY <1>1, <2>1, <3>1, <3>4 DEF StateOK, NotifyVacant
  <2>3. CASE slab' = [slab EXCEPT ![k] = Single(r)] /\ UNCHANGED <<queues, unused>>
    BY <1>1, <2>1, <2>3 DEF StateOK, NotifyVacant, Completions, Single
  <2> QED
    BY <1>1, <2>2, <2>3 DEF NotifyVacant
<1>2. CASE NotifyMultiple(k, r)
  <2>1. slab[k].waker \in Ops /\ slab[k].handle \in 1 .. Len(queues)
    BY <1>2 DEF StateOK, NotifyMultiple, Completions
  <2>2. Append(queues[slab[k].handle], r) \in Seq(Results)
    BY <2>1 DEF StateOK
  <2>3. queues' = [queues EXCEPT ![slab[k].handle] = Append(queues[slab[k].handle], r)]
    BY <1>2 DEF NotifyMultiple
  <2>4. queues' \in Seq(Seq(Results)) /\ Len(queues') = Len(queues)
    BY <2>1, <2>2, <2>3, ExceptSeq DEF StateOK
  <2>5. r.more \in BOOLEAN
    BY DEF Results
  <2> QED
    BY <1>2, <2>1, <2>4, <2>5 DEF StateOK, NotifyMultiple, Completions, Multiple
<1>3. CASE NotifyCancelled(k, r)
  BY <1>3 DEF StateOK, NotifyCancelled, Completions, Finished
<1> QED
  BY <1>1, <1>2, <1>3 DEF TryNotify

(* Completion::take_result returns a result and leaves a well-typed         *)
(* table.                                                                   *)
LEMMA TakeResultTypes ==
  ASSUME StateOK, NEW k \in Keys, HasResult(k), TakeResult(k)
  PROVE  /\ slab' \in [Keys -> Completions']
         /\ queues' \in Seq(Seq(Results))
         /\ unused' \in Seq(1 .. Len(queues'))
         /\ NextResult(k) \in Results
<1>1. CASE TakeSingle(k)
  BY <1>1 DEF StateOK, TakeSingle, Completions, Finished, NextResult
<1>2. CASE TakeMultiple(k)
  <2> DEFINE h == slab[k].handle
  <2>1. h \in 1 .. Len(queues) /\ slab[k].state = "Multiple" /\ queues[h] # <<>>
    BY <1>2 DEF StateOK, TakeMultiple, Completions
  <2>2. queues[h] \in Seq(Results)
    BY <2>1 DEF StateOK
  <2>3. Head(queues[h]) \in Results /\ Tail(queues[h]) \in Seq(Results)
    BY <2>1, <2>2
  <2>4. CASE Release(h) /\ slab' = [slab EXCEPT ![k] = Finished]
    <3>1. Len(queues') = Len(queues)
      BY <2>1, <2>4, ReleaseTypes
    <3>2. slab' \in [Keys -> Completions']
      BY <2>4, <3>1 DEF StateOK, Completions, Finished
    <3> QED
      BY <2>1, <2>3, <2>4, <3>2, ReleaseTypes DEF NextResult
  <2>5. CASE queues' = [queues EXCEPT ![h] = Tail(queues[h])] /\ UNCHANGED <<slab, unused>>
    <3>1. queues' \in Seq(Seq(Results)) /\ Len(queues') = Len(queues)
      BY <2>1, <2>3, <2>5, ExceptSeq DEF StateOK
    <3> QED
      BY <2>1, <2>3, <2>5, <3>1 DEF StateOK, Completions, NextResult
  <2> QED
    BY <1>2, <2>4, <2>5 DEF TakeMultiple
<1> QED
  BY <1>1, <1>2 DEF TakeResult

(* The first poll of a submission (Ring::submit) keeps the state well       *)
(* typed.                                                                   *)
LEMMA FirstPollTypes ==
  ASSUME StateInv, NEW o \in Ops, FirstPoll(o)
  PROVE  StateInv'
<1> USE RequestTypes
<1>1. PICK k \in Keys : Submit(o, k)
  BY DEF FirstPoll
<1>2. Insert(k, o)
  BY <1>1 DEF Submit
<1>3. CASE Push(Op(o), k)
  <2>1. StateOK'
    BY <1>1, <1>2, <1>3, InsertTypes, PushTypes
       DEF StateInv, StateOK, FirstPoll, Submit, Push
  <2>2. /\ userData' = [userData EXCEPT ![Op(o)] = k]
        /\ state' = [state EXCEPT ![o] = "Submitted"]
        /\ cq' = cq
    BY <1>3 DEF FirstPoll, Push
  <2>3. Tags'
    BY <2>2 DEF StateInv, StateOK, Tags, Op
  <2> QED
    BY <2>1, <2>3 DEF StateInv
<1>4. CASE SqFull /\ panic' = "queue_full" /\ UNCHANGED uringVars
  <2>1. state' \in [Ops -> {"Initial", "Submitted", "Completed", "Dropped"}]
    BY DEF StateInv, StateOK, FirstPoll
  <2>2. /\ slab' \in [Keys -> Completions']
        /\ queues' \in Seq(Seq(Results))
        /\ unused' \in Seq(1 .. Len(queues'))
    BY <1>2, InsertTypes DEF StateInv
  <2>3. StateOK'
    BY <1>1, <1>4, <2>1, <2>2 DEF StateInv, StateOK, FirstPoll, Submit, uringVars, Panics
  <2>4. Tags'
    BY <1>1, <1>4 DEF StateInv, StateOK, Tags, FirstPoll, uringVars
  <2> QED
    BY <2>3, <2>4 DEF StateInv
<1> QED
  BY <1>1, <1>3, <1>4 DEF Submit

(* A poll that finds no result keeps the state well typed. *)
LEMMA PollPendingTypes ==
  ASSUME StateInv, NEW o \in Ops, PollPending(o)
  PROVE  StateInv'
BY DEF StateInv, StateOK, Tags, PollPending, uringVars, submissionVars, Completions, Panics, counters

(* A poll that returns a result keeps the state well typed. *)
LEMMA PollResultTypes ==
  ASSUME StateInv, NEW o \in Ops, PollFuture(o) \/ PollStream(o)
  PROVE  StateInv'
<1>1. KeyOf(o) \in Keys
  BY DEF StateInv, Tags, PollFuture, PollStream, Pollable, KeyOf
<1>2. HasResult(KeyOf(o)) /\ TakeResult(KeyOf(o))
  BY DEF PollFuture, PollStream
<1>3. NextResult(KeyOf(o)) \in Results
  BY <1>1, <1>2, TakeResultTypes DEF StateInv
<1>4. StateOK'
  <2>1. /\ slab' \in [Keys -> Completions']
        /\ queues' \in Seq(Seq(Results))
        /\ unused' \in Seq(1 .. Len(queues'))
    BY <1>1, <1>2, TakeResultTypes DEF StateInv
  <2>2. /\ delivered' = [delivered EXCEPT ![o] = Append(@, NextResult(KeyOf(o)))]
        /\ state' = [state EXCEPT ![o] = NextState(NextResult(KeyOf(o)))]
        /\ woken' \in SUBSET Ops
        /\ UNCHANGED <<uringVars, ringVars, takenTwice>>
    BY DEF StateInv, StateOK, PollFuture, PollStream
  <2>3. /\ delivered' \in [Ops -> Seq(Results)]
        /\ state' \in [Ops -> {"Initial", "Submitted", "Completed", "Dropped"}]
    BY <1>3, <2>2 DEF StateInv, StateOK, NextState
  <2>4. owner' \in [Ops -> {"submission", "cancellation", "caller", "dropped"}]
    BY ZenonT(60) DEF StateInv, StateOK, PollFuture, PollStream, OwnerAfterItem
  <2> QED
    BY <2>1, <2>2, <2>3, <2>4 DEF StateInv, StateOK, uringVars, ringVars
<1>5. Tags'
  BY DEF StateInv, StateOK, Tags, PollFuture, PollStream, Pollable, uringVars, NextState
<1> QED
  BY <1>4, <1>5 DEF StateInv

(* Dropping a submission (Ring::cancel) keeps the state well typed. *)
LEMMA DropTypes ==
  ASSUME StateInv, NEW o \in Ops, Drop(o)
  PROVE  StateInv'
<1> USE RequestTypes
<1>1. CASE DropInitial(o)
  BY <1>1 DEF StateInv, StateOK, Tags, DropInitial, uringVars, ringVars, Completions
<1>2. CASE DropCompleted(o)
  BY <1>2 DEF StateInv, StateOK, Tags, DropCompleted, completionVars, uringVars, ringVars, Completions
<1>3. CASE DropSubmitted(o)
  <2>1. KeyOf(o) \in Keys
    BY <1>3 DEF StateInv, Tags, DropSubmitted, KeyOf
  <2>2. CASE TryCancel(KeyOf(o), o) /\ PushCancel(o)
    <3>1. CASE Push(Cancel(o), IgnoreKey)
      BY ZenonT(60), <1>3, <2>1, <2>2, <3>1, TryCancelTypes, PushTypes
         DEF StateInv, StateOK, Tags, DropSubmitted, CancelOp, PushCancel, Push, SqFull, Panics, Cancel
    <3>2. CASE SqFull /\ panic' = "queue_full" /\ UNCHANGED uringVars
      BY ZenonT(60), <1>3, <2>1, <2>2, <3>2, TryCancelTypes
         DEF StateInv, StateOK, Tags, DropSubmitted, CancelOp, uringVars, Panics
    <3> QED
      BY <2>2, <3>1, <3>2 DEF PushCancel
  <2>3. CASE TryCancel(KeyOf(o), o) /\ UNCHANGED <<uringVars, panic>>
    BY <1>3, <2>1, <2>3, TryCancelTypes
       DEF StateInv, StateOK, Tags, DropSubmitted, CancelOp, uringVars
  <2>4. CASE panic' = BadKey(KeyOf(o)) /\ UNCHANGED <<slab, queues, unused, owner, uringVars>>
    BY <1>3, <2>4
       DEF StateInv, StateOK, Tags, DropSubmitted, CancelOp, uringVars, BadKey, Panics, Completions
  <2> QED
    BY <1>3, <2>2, <2>3, <2>4 DEF DropSubmitted, CancelOp
<1> QED
  BY <1>1, <1>2, <1>3 DEF Drop

(* Ring::submit_detached keeps the state well typed. *)
LEMMA SubmitDetachedTypes ==
  ASSUME StateInv, NEW d \in Detached, SubmitDetached(d), UNCHANGED submissionVars
  PROVE  StateInv'
<1> USE RequestTypes
<1>1. CASE Push(Det(d), IgnoreKey)
  BY <1>1, PushTypes
     DEF StateInv, StateOK, Tags, SubmitDetached, completionVars, submissionVars, Push, Completions,
         SqFull, Panics, Det
<1>2. CASE SqFull /\ panic' = "queue_full" /\ UNCHANGED uringVars
  BY <1>2
     DEF StateInv, StateOK, Tags, SubmitDetached, completionVars, submissionVars, uringVars,
         Completions, Panics
<1> QED
  BY <1>1, <1>2 DEF SubmitDetached

(* Which completions are well typed depends only on how many queues there   *)
(* are.                                                                     *)
LEMMA CompletionsSame ==
  ASSUME UNCHANGED queues
  PROVE  Completions' = Completions
BY DEF Completions

(* The last completion of a request carries the user_data of that           *)
(* request, which is a key only for an operation.                           *)
LEMMA LastType ==
  ASSUME StateInv, NEW r \in Requests
  PROVE  /\ Last(r) \in Cqes
         /\ Last(r).req = r /\ Last(r).userData = userData[r] /\ Last(r).more = FALSE
         /\ Last(r).userData # IgnoreKey => r.kind = "op"
BY RequestTypes DEF StateInv, StateOK, Tags, Last, Completion, Cqes

(* Posting a completion keeps the completion queue well typed and the       *)
(* batch of handle_completions within it.                                   *)
LEMMA PostTypes ==
  ASSUME StateInv, NEW c \in Cqes, cq' = Append(cq, c),
         c.userData # IgnoreKey => c.req.kind = "op"
  PROVE  /\ cq' \in Seq(Cqes)
         /\ Len(cq') = Len(cq) + 1
         /\ batch \in 0 .. Len(cq')
         /\ Len(cq') \in 0 .. Len(cq')
         /\ \A i \in 1 .. Len(cq') : cq'[i].userData # IgnoreKey => cq'[i].req.kind = "op"
<1>1. cq \in Seq(Cqes) /\ batch \in 0 .. Len(cq)
  BY DEF StateInv, StateOK
<1>2. /\ cq' \in Seq(Cqes)
      /\ Len(cq') = Len(cq) + 1
      /\ Len(cq) \in Nat
      /\ \A i \in 1 .. Len(cq) : cq'[i] = cq[i]
      /\ cq'[Len(cq) + 1] = c
  BY <1>1, AppendProperties, LenProperties
<1>3. \A i \in 1 .. Len(cq) : cq[i].userData # IgnoreKey => cq[i].req.kind = "op"
  BY DEF StateInv, Tags
<1>4. \A i \in 1 .. Len(cq') : i \in 1 .. Len(cq) \/ i = Len(cq) + 1
  BY <1>2
<1>5. \A i \in 1 .. Len(cq') : cq'[i].userData # IgnoreKey => cq'[i].req.kind = "op"
  BY <1>2, <1>3, <1>4
<1> QED
  BY <1>1, <1>2, <1>5

(* The steps of the kernel keep the state well typed. *)
LEMMA KernelTypes ==
  ASSUME StateInv, UNCHANGED <<completionVars, submissionVars>>,
         \/ \E r \in Requests : KernelCompletes(r)
         \/ \E o \in Ops : KernelPostsMore(o)
         \/ EnterSubmit
         \/ EnterRefused
  PROVE  StateInv'
<1> USE RequestTypes, CompletionsSame
<1> USE DEF completionVars, submissionVars
<1>1. ASSUME NEW r \in Requests, KernelCompletes(r)
      PROVE  StateInv'
  <2>1. cq' = Append(cq, Last(r)) /\ UNCHANGED batch
    BY <1>1 DEF KernelCompletes, Complete, ringVars
  <2>2. /\ cq' \in Seq(Cqes)
        /\ batch \in 0 .. Len(cq')
        /\ \A i \in 1 .. Len(cq') : cq'[i].userData # IgnoreKey => cq'[i].req.kind = "op"
    BY ZenonT(60), <2>1, LastType, PostTypes
  <2> QED
    BY <1>1, <2>1, <2>2
       DEF StateInv, StateOK, Tags, KernelCompletes, Complete, ringVars, Stages
<1>2. ASSUME NEW o \in Ops, KernelPostsMore(o)
      PROVE  StateInv'
  <2> DEFINE c == Completion(Op(o), posted[o] + 1, TRUE)
  <2>1. cq' = Append(cq, c) /\ UNCHANGED batch
    BY <1>2 DEF KernelPostsMore, CompleteMore, ringVars
  <2>2. c \in Cqes /\ (c.userData # IgnoreKey => c.req.kind = "op")
    BY DEF StateInv, StateOK, Completion, Cqes, Op
  <2>3. posted' \in [Ops -> 0 .. MaxMore]
    BY <1>2, UringAssumption DEF StateInv, StateOK, KernelPostsMore, CompleteMore
  <2> QED
    BY <1>2, <2>1, <2>2, <2>3, PostTypes
       DEF StateInv, StateOK, Tags, KernelPostsMore, CompleteMore, ringVars, Stages, Cqes
<1>3. CASE EnterSubmit
  <2>1. Head(sq) \in Requests /\ Tail(sq) \in Seq(Requests)
    BY <1>3, HeadTailProperties DEF StateInv, StateOK, EnterSubmit, Consume, ConsumeCancel
  <2>2. CASE Consume
    BY <1>3, <2>1, <2>2 DEF StateInv, StateOK, Tags, EnterSubmit, Consume, ringVars, Stages
  <2>3. CASE ConsumeCancel
    <3>1. cq' = Append(cq, Last(Head(sq))) /\ UNCHANGED batch
      BY <1>3, <2>3 DEF EnterSubmit, ConsumeCancel, ringVars
    <3>2. aborted' \in SUBSET Ops
      BY <2>3 DEF StateInv, StateOK, ConsumeCancel, Targets
    <3> QED
      BY ZenonT(60), <1>3, <2>1, <2>3, <3>1, <3>2, LastType, PostTypes
         DEF StateInv, StateOK, Tags, EnterSubmit, ConsumeCancel, ringVars, Stages, Cqes
  <2> QED
    BY <1>3, <2>2, <2>3 DEF EnterSubmit
<1>4. CASE EnterRefused
  <2>1. Head(sq) \in Requests /\ Tail(sq) \in Seq(Requests)
    BY <1>4, HeadTailProperties DEF StateInv, StateOK, EnterRefused, Refuse
  <2>2. cq' = Append(cq, Last(Head(sq))) /\ batch' = Len(cq')
    BY <1>4 DEF EnterRefused, Refuse
  <2>3. /\ cq' \in Seq(Cqes)
        /\ batch' \in 0 .. Len(cq')
        /\ \A i \in 1 .. Len(cq') : cq'[i].userData # IgnoreKey => cq'[i].req.kind = "op"
    BY ZenonT(60), <2>1, <2>2, LastType, PostTypes
  <2> QED
    BY <1>4, <2>1, <2>3
       DEF StateInv, StateOK, Tags, EnterRefused, Refuse, ringVars, Stages, Cqes
<1> QED
  BY <1>1, <1>2, <1>3, <1>4

(* Entering and leaving Ring::wait keeps the state well typed. *)
LEMMA WaitTypes ==
  ASSUME StateInv, UNCHANGED submissionVars,
         Wait \/ EnterReturn \/ WaitReturns
  PROVE  StateInv'
<1>1. UNCHANGED <<completionVars, uringVars, panic>> /\ batch' \in 0 .. Len(cq)
      /\ pc' \in {"run", "submit", "reap"}
  BY DEF StateInv, StateOK, Wait, EnterReturn, WaitReturns, uringVars
<1> QED
  BY <1>1, CompletionsSame
     DEF StateInv, StateOK, Tags, completionVars, uringVars, submissionVars

(* An iteration of handle_completions keeps the state well typed. *)
LEMMA ReapTypes ==
  ASSUME StateInv, Reap, UNCHANGED submissionVars
  PROVE  StateInv'
<1> DEFINE c == Head(cq)
           r == Result(c.req.id, c.n, c.more)
<1>0. cq \in Seq(Cqes) /\ cq # <<>>
  BY DEF StateInv, StateOK, Reap, Pop
<1>1. /\ c \in Cqes /\ Tail(cq) \in Seq(Cqes)
      /\ Len(Tail(cq)) = Len(cq) - 1
      /\ \A i \in 1 .. Len(Tail(cq)) : Tail(cq)[i] = cq[i + 1]
      /\ c = cq[1] /\ 1 \in 1 .. Len(cq)
  BY <1>0, HeadTailProperties
<1>2. /\ cq' = Tail(cq)
      /\ stage' \in [Requests -> Stages]
      /\ UNCHANGED <<sq, userData, posted, aborted, pc>>
      /\ batch' = batch - 1 /\ batch > 0
  BY <1>1 DEF StateInv, StateOK, Reap, Pop, Stages, Cqes
<1>3. /\ cq' \in Seq(Cqes)
      /\ batch' \in 0 .. Len(cq')
      /\ Tags'
  BY <1>1, <1>2 DEF StateInv, StateOK, Tags, submissionVars
<1>4. CASE UNCHANGED completionVars /\ panic' \in Panics
  BY <1>2, <1>3, <1>4, CompletionsSame
     DEF StateInv, StateOK, completionVars, submissionVars, Cqes
<1>5. CASE c.userData # IgnoreKey /\ TryNotify(c.userData, r) /\ panic' = panic
  <2>1. c.req.kind = "op" /\ c.userData \in Keys
    BY <1>1, <1>5 DEF StateInv, Tags, Cqes
  <2>2. r \in Results
    BY <1>1, <2>1, RequestTypes DEF Cqes, Result, Results
  <2> QED
    BY <1>2, <1>3, <1>5, <2>1, <2>2, TryNotifyTypes
       DEF StateInv, StateOK, submissionVars, Cqes
<1>6. panic \in Panics /\ \A k : BadKey(k) \in Panics
  BY DEF StateInv, StateOK, BadKey, Panics
<1> QED
  BY <1>4, <1>5, <1>6 DEF Reap, HandleIgnored, HandleCompletion

(* A new ring is well typed. *)
LEMMA InitTypes ==
  ASSUME Init
  PROVE  StateInv
<1> USE DEF Init, InitRing, InitCompletions, InitUring
<1>1. queues \in Seq(Seq(Results)) /\ unused \in Seq(1 .. Len(queues))
  <2>1. /\ <<>> \in Seq(Results)
        /\ queues = [h \in 1 .. InitialQueues |-> <<>>]
        /\ unused = [h \in 1 .. InitialQueues |-> h]
    BY EmptySeq
  <2>2. queues \in Seq(Seq(Results)) /\ Len(queues) = InitialQueues
    BY <2>1, InitialQueuesAssumption
  <2> QED
    BY <2>1, <2>2, InitialQueuesAssumption
<1>2. slab \in [Keys -> Completions]
  BY DEF Completions, Finished
<1>3. posted \in [Ops -> 0 .. MaxMore]
  BY UringAssumption
<1>4. StateOK
  <2>1. /\ sq \in Seq(Requests) /\ cq \in Seq(Cqes)
        /\ batch \in 0 .. Len(cq)
        /\ delivered \in [Ops -> Seq(Results)]
    BY EmptySeq
  <2>2. /\ stage \in [Requests -> Stages]
        /\ userData \in [Requests -> Keys \cup {IgnoreKey}]
    BY DEF Stages
  <2>3. /\ owner \in [Ops -> {"submission", "cancellation", "caller", "dropped"}]
        /\ state \in [Ops -> {"Initial", "Submitted", "Completed", "Dropped"}]
        /\ pc \in {"run", "submit", "reap"} /\ panic \in Panics
        /\ woken \in SUBSET Ops /\ aborted \in SUBSET Ops /\ takenTwice \in SUBSET Ops
    BY DEF Panics
  <2> QED
    BY <1>1, <1>2, <1>3, <2>1, <2>2, <2>3 DEF StateOK
<1>5. Tags
  BY DEF Tags
<1> QED
  BY <1>4, <1>5 DEF StateInv

(* Every step keeps the state well typed. *)
LEMMA NextTypes ==
  ASSUME StateInv, [Next]_vars
  PROVE  StateInv'
<1>1. ASSUME NEW o \in Ops, Poll(o)
      PROVE  StateInv'
  BY <1>1, FirstPollTypes, PollPendingTypes, PollResultTypes DEF Poll
<1>2. ASSUME NEW o \in Ops, Drop(o)
      PROVE  StateInv'
  BY <1>2, DropTypes
<1>3. ASSUME NEW d \in Detached, SubmitDetached(d), UNCHANGED submissionVars
      PROVE  StateInv'
  BY <1>3, SubmitDetachedTypes
<1>4. CASE RingStep /\ UNCHANGED submissionVars
  <2>1. CASE Wait \/ EnterReturn \/ WaitReturns
    BY <1>4, <2>1, WaitTypes
  <2>2. CASE Reap
    BY <1>4, <2>2, ReapTypes
  <2>3. CASE \/ EnterSubmit \/ EnterRefused
             \/ \E r \in Requests : KernelCompletes(r)
             \/ \E o \in Ops : KernelPostsMore(o)
    <3>1. UNCHANGED completionVars
      BY <2>3 DEF EnterSubmit, EnterRefused, KernelCompletes, KernelPostsMore
    <3> QED
      BY <1>4, <2>3, <3>1, KernelTypes
  <2> QED
    BY <1>3, <1>4, <2>1, <2>2, <2>3 DEF RingStep
<1>5. CASE UNCHANGED vars
  BY <1>5, CompletionsSame
     DEF StateInv, StateOK, Tags, vars, completionVars, uringVars, ringVars, submissionVars
<1> QED
  BY <1>1, <1>2, <1>4, <1>5 DEF Next, Halted

(* Type correctness of everything but the counters, without any             *)
(* assumption on the clients: in particular every handle in the             *)
(* completion table and in the list of unused ones is the index of a        *)
(* result queue (completion.rs:100-117), and handle_completions never       *)
(* reads past the completion queue (ring/mod.rs:311-328).                   *)
THEOREM StateCorrect == Spec => []StateInv
<1>1. Init => StateInv
  BY InitTypes
<1>2. StateInv /\ [Next]_vars => StateInv'
  BY NextTypes
<1> QED
  BY <1>1, <1>2, PTL DEF Spec

-------------------------------------------------------------------------------
(***************************************************************************)
(* Keys.                                                                   *)
(***************************************************************************)

(* Every handle in the table and in the list of unused ones is in range. *)
LEMMA Handles ==
  ASSUME StateOK
  PROVE  /\ queues \in Seq(Seq(Results)) /\ Len(queues) \in Nat
         /\ \A h \in 1 .. Len(queues) : queues[h] \in Seq(Results)
         /\ \A k \in Keys : slab[k].state = "Multiple" => slab[k].handle \in 1 .. Len(queues)
         /\ Len(unused) \in Nat
         /\ \A i \in 1 .. Len(unused) : unused[i] \in 1 .. Len(queues)
<1>1. queues \in Seq(Seq(Results)) /\ unused \in Seq(1 .. Len(queues))
  BY DEF StateOK
<1>2. \A k \in Keys : slab[k].state = "Multiple" => slab[k].handle \in 1 .. Len(queues)
  BY DEF StateOK, Completions
<1> QED
  BY <1>1, <1>2, LenProperties, ElementOfSeq

(* CompletionSet::insert does not touch the result queues. *)
LEMMA QueueInsert ==
  ASSUME StateOK, QueueInv, NEW k \in Keys, NEW o \in Ops, Insert(k, o)
  PROVE  QueueInv'
<1>1. \A l \in Keys : slab'[l].state \in {"Single", "Multiple"} => slab'[l] = slab[l]
  BY DEF StateOK, Insert, Vacant
<1> QED
  BY <1>1 DEF Insert, QueueInv, QueuesPrivate, ResultsPrivate

(* Removing an entry and releasing its queue leaves every other queue       *)
(* private: the handle was in nobody else's hands.                          *)
LEMMA QueueRelease ==
  ASSUME StateOK, QueueInv, NEW k \in Keys, slab[k].state = "Multiple",
         NEW e, e.state \notin {"Single", "Multiple"},
         slab' = [slab EXCEPT ![k] = e], Release(slab[k].handle)
  PROVE  QueueInv'
<1> DEFINE h == slab[k].handle
<1>1. /\ h \in 1 .. Len(queues)
      /\ queues \in Seq(Seq(Results)) /\ unused \in Seq(1 .. Len(queues))
  BY DEF StateOK, Completions
<1>2. /\ \A l \in Keys : slab'[l].state \in {"Single", "Multiple"} => l # k /\ slab'[l] = slab[l]
      /\ \A g \in 1 .. Len(queues) : queues'[g] = IF g = h THEN <<>> ELSE queues[g]
      /\ Len(unused') = Len(unused) + 1
      /\ \A i \in 1 .. Len(unused) : unused'[i] = unused[i] /\ unused[i] \in 1 .. Len(queues)
      /\ unused'[Len(unused) + 1] = h
      /\ Len(unused) \in Nat
  <2>1. queues' = [queues EXCEPT ![h] = <<>>] /\ unused' = Append(unused, h)
    BY DEF Release
  <2>2. /\ Len(unused') = Len(unused) + 1
        /\ \A i \in 1 .. Len(unused) : unused'[i] = unused[i] /\ unused[i] \in 1 .. Len(queues)
        /\ unused'[Len(unused) + 1] = h
        /\ Len(unused) \in Nat
    BY SMTT(60), <1>1, <2>1, AppendProperties, LenProperties
  <2>3. \A g \in 1 .. Len(queues) : queues'[g] = IF g = h THEN <<>> ELSE queues[g]
    BY <1>1, <2>1, LenProperties
  <2>4. \A l \in Keys : slab'[l].state \in {"Single", "Multiple"} => l # k /\ slab'[l] = slab[l]
    BY DEF StateOK
  <2> QED
    BY <2>2, <2>3, <2>4
<1>3. \A l \in Keys : slab'[l].state = "Multiple" =>
        slab[l].handle \in 1 .. Len(queues) /\ slab[l].handle # h
  BY ZenonT(60), <1>2 DEF StateOK, Completions, QueueInv, QueuesPrivate
<1>4. QueuesPrivate'
  <2>1. \A i \in 1 .. Len(unused) : unused[i] # h
    BY DEF QueueInv, QueuesPrivate
  <2> HIDE DEF h
  <2>2. \A i \in 1 .. Len(unused') : i \in 1 .. Len(unused) \/ i = Len(unused) + 1
    BY <1>2
  <2>3. ASSUME NEW i \in 1 .. Len(unused')
        PROVE  queues'[unused'[i]] = <<>>
    <3>1. CASE i \in 1 .. Len(unused)
      <4>1. unused'[i] = unused[i] /\ queues[unused[i]] = <<>>
        BY <1>2, <3>1 DEF QueueInv, QueuesPrivate
      <4> QED
        BY <1>2, <2>1, <3>1, <4>1
    <3>2. CASE i = Len(unused) + 1
      BY <1>1, <1>2, <3>2
    <3> QED
      BY <2>2, <3>1, <3>2
  <2>5. ASSUME NEW i \in 1 .. Len(unused'), NEW j \in 1 .. Len(unused'), unused'[i] = unused'[j]
        PROVE  i = j
    <3>1. CASE i \in 1 .. Len(unused) /\ j \in 1 .. Len(unused)
      BY <1>2, <2>5, <3>1 DEF QueueInv, QueuesPrivate
    <3>2. CASE i = Len(unused) + 1 \/ j = Len(unused) + 1
      BY <1>2, <2>1, <2>2, <2>5, <3>2
    <3> QED
      BY <2>2, <3>1, <3>2
  <2>4. \A l \in Keys : slab'[l].state = "Multiple" =>
          \A i \in 1 .. Len(unused') : slab'[l].handle # unused'[i]
    BY <1>2, <1>3, <2>2 DEF QueueInv, QueuesPrivate
  <2> QED
    BY <1>2, <2>3, <2>4, <2>5 DEF QueueInv, QueuesPrivate
<1>5. ResultsPrivate'
  BY <1>2, <1>3 DEF QueueInv, ResultsPrivate
<1> QED
  BY <1>4, <1>5 DEF QueueInv

(* Completion::try_cancel keeps the result queues private. *)
LEMMA QueueCancel ==
  ASSUME StateOK, QueueInv, NEW k \in Keys, NEW o \in Ops, TryCancel(k, o)
  PROVE  QueueInv'
<1> DEFINE e == IF MustCancel(k) THEN Cancelled(o) ELSE Finished
<1>1. e.state \notin {"Single", "Multiple"} /\ slab' = [slab EXCEPT ![k] = e]
  BY DEF TryCancel, Cancelled, Finished
<1>2. CASE slab[k].state = "Multiple"
  <2>1. Release(slab[k].handle)
    BY <1>2 DEF TryCancel
  <2> HIDE DEF e
  <2> QED
    BY <1>1, <1>2, <2>1, QueueRelease
<1>3. CASE slab[k].state # "Multiple"
  <2>1. UNCHANGED <<queues, unused>>
    BY <1>3 DEF TryCancel
  <2> HIDE DEF e
  <2>2. \A l \in Keys : slab'[l].state \in {"Single", "Multiple"} => slab'[l] = slab[l]
    BY <1>1 DEF StateOK
  <2> QED
    BY <2>1, <2>2 DEF QueueInv, QueuesPrivate, ResultsPrivate
<1> QED
  BY <1>2, <1>3

(* ResultQueues::handle returns an unused queue, which is empty and held by *)
(* no entry, or a new one; every other queue stays as and where it was.     *)
LEMMA FirstHandle ==
  ASSUME StateOK, QueueInv, NEW r \in Results, StoreFirst(r)
  PROVE  /\ NextHandle \in Nat
         /\ queues'[NextHandle] = <<r>>
         /\ \A g \in 1 .. Len(queues) : g # NextHandle => queues'[g] = queues[g]
         /\ \A g \in 1 .. Len(queues') : g \in 1 .. Len(queues) \/ g = NextHandle
         /\ \A i \in 1 .. Len(unused') :
              i \in 1 .. Len(unused) /\ unused'[i] = unused[i] /\ unused[i] # NextHandle
         /\ \A i \in 1 .. Len(unused) : unused[i] # NextHandle => i \in 1 .. Len(unused')
         /\ \A l \in Keys : slab[l].state = "Multiple" => slab[l].handle # NextHandle
<1> DEFINE h == NextHandle
<1>1. /\ queues \in Seq(Seq(Results)) /\ unused \in Seq(1 .. Len(queues))
      /\ Len(queues) \in Nat /\ Len(unused) \in Nat
  BY LenProperties DEF StateOK
<1>2. CASE unused = <<>>
  <2>1. queues' = Append(queues, <<r>>) /\ unused' = unused /\ h = Len(queues) + 1
    BY <1>2 DEF StoreFirst, NextHandle
  <2>2. <<r>> \in Seq(Results)
    OBVIOUS
  <2>3. \A l \in Keys : slab[l].state = "Multiple" => slab[l].handle \in 1 .. Len(queues)
    BY DEF StateOK, Completions
  <2>4. /\ Len(queues') = Len(queues) + 1 /\ queues'[h] = <<r>>
        /\ \A g \in 1 .. Len(queues) : queues'[g] = queues[g]
    BY <1>1, <2>1, <2>2, AppendProperties
  <2> QED
    BY <1>1, <1>2, <2>1, <2>3, <2>4
<1>3. CASE unused # <<>>
  <2>1. /\ h = unused[Len(unused)] /\ Len(unused) \in 1 .. Len(unused)
        /\ h \in 1 .. Len(queues)
    BY <1>1, <1>3, EmptySeq DEF NextHandle
  <2>2. queues[h] = <<>>
    BY <2>1 DEF QueueInv, QueuesPrivate
  <2>3. queues' = [queues EXCEPT ![h] = <<r>>]
    BY <1>3, <2>2 DEF StoreFirst
  <2>4. /\ Len(unused') = Len(unused) - 1
        /\ \A i \in 1 .. Len(unused') : unused'[i] = unused[i]
    BY <1>1, <1>3, <2>1, SubSeqProperties DEF StoreFirst
  <2>5. \A l \in Keys : slab[l].state = "Multiple" => slab[l].handle # h
    BY <2>1 DEF QueueInv, QueuesPrivate
  <2>6. /\ \A i \in 1 .. Len(unused') : i \in 1 .. Len(unused) /\ i # Len(unused)
        /\ \A i \in 1 .. Len(unused) : i # Len(unused) => i \in 1 .. Len(unused')
    BY <1>1, <2>4
  <2>7. \A i \in 1 .. Len(unused') : unused[i] # h
    BY <2>1, <2>6 DEF QueueInv, QueuesPrivate
  <2>8. /\ \A g \in 1 .. Len(queues) : g # h => queues'[g] = queues[g]
        /\ queues'[h] = <<r>> /\ Len(queues') = Len(queues)
    BY <1>1, <2>1, <2>3, LenProperties
  <2>9. h \in Nat
    BY <1>1, <2>1
  <2>10. \A i \in 1 .. Len(unused) : unused[i] # h => i \in 1 .. Len(unused')
    BY <2>1, <2>6
  <2> HIDE DEF h
  <2>11. /\ h \in Nat /\ queues'[h] = <<r>>
         /\ \A g \in 1 .. Len(queues) : g # h => queues'[g] = queues[g]
         /\ \A g \in 1 .. Len(queues') : g \in 1 .. Len(queues) \/ g = h
         /\ \A i \in 1 .. Len(unused') :
              i \in 1 .. Len(unused) /\ unused'[i] = unused[i] /\ unused[i] # h
         /\ \A i \in 1 .. Len(unused) : unused[i] # h => i \in 1 .. Len(unused')
         /\ \A l \in Keys : slab[l].state = "Multiple" => slab[l].handle # h
    BY <2>4, <2>5, <2>6, <2>7, <2>8, <2>9, <2>10
  <2> QED
    BY <2>11 DEF h
<1> QED
  BY <1>2, <1>3

(* The entry that gets that queue holds just its own first result. *)
LEMMA QueueStoreFirst ==
  ASSUME StateOK, QueueInv, NEW k \in Keys, NEW r \in Results,
         slab[k].state = "Vacant", r.op = slab[k].waker, r.more,
         StoreFirst(r), slab' = [slab EXCEPT ![k] = Multiple(@.waker, NextHandle, TRUE)]
  PROVE  QueueInv'
<1> DEFINE h == NextHandle
<1>2. /\ h \in Nat
      /\ \A i \in 1 .. Len(unused') : i \in 1 .. Len(unused) /\ unused'[i] = unused[i] /\ unused[i] # h
      /\ \A g \in 1 .. Len(queues) : g # h => queues'[g] = queues[g]
      /\ queues'[h] = <<r>>
      /\ \A l \in Keys : slab[l].state = "Multiple" => slab[l].handle # h
  BY FirstHandle
<1>3. /\ \A l \in Keys : l # k => slab'[l] = slab[l]
      /\ slab'[k].state = "Multiple" /\ slab'[k].handle = h /\ slab'[k].more = TRUE
      /\ slab'[k].waker = slab[k].waker
  BY DEF StateOK, Multiple
<1>4. /\ \A l \in Keys : slab[l].state = "Multiple" => slab[l].handle \in 1 .. Len(queues)
      /\ \A i \in 1 .. Len(unused) : unused[i] \in 1 .. Len(queues)
  BY Handles
<1> HIDE DEF h
<1>5. QueuesPrivate'
  <2>1. \A l \in Keys : slab'[l].state = "Multiple" =>
          /\ l # k => slab[l].state = "Multiple" /\ slab'[l].handle = slab[l].handle
          /\ l = k <=> slab'[l].handle = h
    BY ZenonT(60), <1>2, <1>3
  <2>2. ASSUME NEW i \in 1 .. Len(unused')
        PROVE  queues'[unused'[i]] = <<>>
    <3>1. i \in 1 .. Len(unused) /\ unused'[i] = unused[i] /\ unused[i] # h
      BY <1>2
    <3>2. queues[unused[i]] = <<>> /\ unused[i] \in 1 .. Len(queues)
      BY <1>4, <3>1 DEF QueueInv, QueuesPrivate
    <3> QED
      BY <1>2, <3>1, <3>2
  <2>3. \A i, j \in 1 .. Len(unused') : unused'[i] = unused'[j] => i = j
    BY <1>2 DEF QueueInv, QueuesPrivate
  <2>4. ASSUME NEW l \in Keys, slab'[l].state = "Multiple",
               NEW i \in 1 .. Len(unused')
        PROVE  slab'[l].handle # unused'[i]
    <3>1. i \in 1 .. Len(unused) /\ unused'[i] = unused[i] /\ unused[i] # h
      BY <1>2
    <3>2. CASE l = k
      BY <2>1, <2>4, <3>1, <3>2
    <3>3. CASE l # k
      BY <2>1, <2>4, <3>1, <3>3 DEF QueueInv, QueuesPrivate
    <3> QED
      BY <3>2, <3>3
  <2>5. ASSUME NEW l \in Keys, NEW m \in Keys,
               slab'[l].state = "Multiple", slab'[m].state = "Multiple",
               slab'[m].handle = slab'[l].handle
        PROVE  m = l
    <3>1. CASE l = k \/ m = k
      BY <2>1, <2>5, <3>1
    <3>2. CASE l # k /\ m # k
      BY <2>1, <2>5, <3>2 DEF QueueInv, QueuesPrivate
    <3> QED
      BY <3>1, <3>2
  <2> QED
    BY <2>2, <2>3, <2>4, <2>5 DEF QueuesPrivate
<1>6. ResultsPrivate'
  <2>1. ASSUME NEW l \in Keys, l # k
        PROVE  /\ slab'[l].state = "Multiple" => queues'[slab'[l].handle] = queues[slab[l].handle]
               /\ slab'[l] = slab[l]
    BY <1>2, <1>3, <1>4, <2>1
  <2>2. Len(queues'[h]) = 1 /\ queues'[h][1] = r /\ queues'[h] # <<>>
    BY <1>2
  <2>3. \A i \in 1 .. Len(queues'[h]) : queues'[h][i] = r
    BY <2>2
  <2>4. HoldsOwn(slab'[k], queues'[h])
    BY <1>3, <2>2, <2>3 DEF HoldsOwn
  <2>5. ASSUME NEW l \in Keys
        PROVE  /\ slab'[l].state = "Single" => ~slab'[l].result.more
               /\ slab'[l].state = "Multiple" => HoldsOwn(slab'[l], queues'[slab'[l].handle])
    <3>1. CASE l = k
      BY <1>3, <2>4, <3>1
    <3>2. CASE l # k
      BY <2>1, <3>2 DEF QueueInv, ResultsPrivate
    <3> QED
      BY <3>1, <3>2
  <2> QED
    BY <2>5 DEF ResultsPrivate
<1> QED
  BY <1>5, <1>6 DEF QueueInv

(* A further result goes to the end of its own entry's queue, and F_MORE    *)
(* is cleared by the last one only.                                         *)
LEMMA QueueNotifyMultiple ==
  ASSUME StateOK, QueueInv, NEW k \in Keys, NEW r \in Results,
         slab[k].state = "Multiple", r.op = slab[k].waker, slab[k].more,
         NotifyMultiple(k, r)
  PROVE  QueueInv'
<1> DEFINE h == slab[k].handle
           q == queues[h]
<1>1. h \in 1 .. Len(queues) /\ queues \in Seq(Seq(Results)) /\ q \in Seq(Results)
  BY Handles
<1>2. /\ queues' = [queues EXCEPT ![h] = Append(q, r)]
      /\ slab' = [slab EXCEPT ![k] = Multiple(slab[k].waker, h, r.more)]
      /\ unused' = unused
  BY DEF NotifyMultiple
<1>3. /\ \A l \in Keys : l # k => slab'[l] = slab[l]
      /\ slab'[k].state = "Multiple" /\ slab'[k].handle = h
      /\ slab'[k].more = r.more /\ slab'[k].waker = slab[k].waker
  BY <1>2 DEF StateOK, Multiple
<1>4. /\ \A g \in 1 .. Len(queues) : g # h => queues'[g] = queues[g]
      /\ queues'[h] = Append(q, r)
  BY <1>1, <1>2, LenProperties
<1>5. \A l \in Keys : slab'[l].state = "Multiple" <=> slab[l].state = "Multiple"
  BY <1>3
<1>6. \A l \in Keys : slab'[l].state = "Multiple" => slab'[l].handle = slab[l].handle
  BY <1>3
<1>7. \A l \in Keys : slab[l].state = "Multiple" =>
        slab[l].handle \in 1 .. Len(queues) /\ (l # k => slab[l].handle # h)
  BY Handles DEF QueueInv, QueuesPrivate
<1>8. QueuesPrivate'
  <2>1. \A i \in 1 .. Len(unused) : unused[i] \in 1 .. Len(queues) /\ unused[i] # h
    BY Handles DEF QueueInv, QueuesPrivate
  <2>2. \A i \in 1 .. Len(unused') : queues'[unused'[i]] = <<>>
    BY <1>2, <1>4, <2>1 DEF QueueInv, QueuesPrivate
  <2> QED
    BY <1>2, <1>5, <1>6, <2>2 DEF QueueInv, QueuesPrivate
<1>9. HoldsOwn(slab'[k], queues'[h])
  <2>1. HoldsOwn(slab[k], q)
    BY DEF QueueInv, ResultsPrivate
  <2>2. /\ Len(queues'[h]) = Len(q) + 1 /\ Len(q) \in Nat
        /\ \A i \in 1 .. Len(q) : queues'[h][i] = q[i]
        /\ queues'[h][Len(q) + 1] = r
        /\ queues'[h] # <<>>
    <3>1. q \in Seq(Results) /\ queues'[h] = Append(q, r)
      BY <1>1, <1>4
    <3> HIDE DEF q
    <3> QED
      BY <3>1, AppendProperties, LenProperties
  <2>3. ASSUME NEW i \in 1 .. Len(queues'[h])
        PROVE  /\ queues'[h][i].op = slab'[k].waker
               /\ queues'[h][i].more <=> i < Len(queues'[h]) \/ slab'[k].more
    <3>1. CASE i \in 1 .. Len(q)
      BY <1>3, <2>1, <2>2, <3>1 DEF HoldsOwn
    <3>2. CASE i = Len(q) + 1
      BY <1>3, <2>2, <3>2
    <3>3. i \in 1 .. Len(q) \/ i = Len(q) + 1
      <4>1. Len(queues'[h]) = Len(q) + 1 /\ Len(q) \in Nat
        BY <2>2
      <4> QED
        BY <4>1
    <3> QED
      BY <3>1, <3>2, <3>3
  <2> QED
    BY <2>2, <2>3 DEF HoldsOwn
<1>10. ResultsPrivate'
  <2>1. ASSUME NEW l \in Keys
        PROVE  /\ slab'[l].state = "Single" => ~slab'[l].result.more
               /\ slab'[l].state = "Multiple" => HoldsOwn(slab'[l], queues'[slab'[l].handle])
    <3>1. CASE l = k
      BY <1>3, <1>9, <3>1
    <3>2. CASE l # k
      BY <1>3, <1>4, <1>7, <3>2 DEF QueueInv, ResultsPrivate
    <3> QED
      BY <3>1, <3>2
  <2> QED
    BY <2>1 DEF ResultsPrivate
<1> QED
  BY <1>8, <1>10 DEF QueueInv

(* Completion::try_notify keeps the result queues private, given that the   *)
(* result is of the operation that holds the entry and that the entry may   *)
(* still receive one.                                                       *)
LEMMA QueueNotify ==
  ASSUME StateOK, QueueInv, NEW k \in Keys, NEW r \in Results, TryNotify(k, r),
         slab[k].state \in {"Vacant", "Multiple"} => r.op = slab[k].waker,
         slab[k].state = "Multiple" => slab[k].more
  PROVE  QueueInv'
<1>1. CASE NotifyVacant(k, r)
  <2>1. CASE r.more
    <3>1. StoreFirst(r) /\ slab' = [slab EXCEPT ![k] = Multiple(@.waker, NextHandle, TRUE)]
      BY <1>1, <2>1 DEF NotifyVacant
    <3> QED
      BY <1>1, <2>1, <3>1, QueueStoreFirst DEF NotifyVacant
  <2>2. CASE ~r.more
    <3>1. /\ slab' = [slab EXCEPT ![k] = Single(r)] /\ UNCHANGED <<queues, unused>>
      BY <1>1, <2>2 DEF NotifyVacant
    <3>2. \A l \in Keys : IF l = k THEN slab'[l] = Single(r) ELSE slab'[l] = slab[l]
      BY <3>1 DEF StateOK
    <3>3. \A l \in Keys : slab'[l].state = "Multiple" => slab'[l] = slab[l]
      BY <3>2 DEF Single
    <3>4. \A l \in Keys : slab'[l].state = "Single" =>
            slab'[l] = slab[l] \/ slab'[l].result = r
      BY <3>2 DEF Single
    <3> QED
      BY <2>2, <3>1, <3>3, <3>4 DEF QueueInv, QueuesPrivate, ResultsPrivate
  <2> QED
    BY <2>1, <2>2
<1>2. CASE NotifyMultiple(k, r)
  BY <1>2, QueueNotifyMultiple DEF NotifyMultiple
<1>3. CASE NotifyCancelled(k, r)
  <2>1. slab' = [slab EXCEPT ![k] = Finished] /\ UNCHANGED <<queues, unused>>
    BY <1>3 DEF NotifyCancelled
  <2>2. \A l \in Keys : slab'[l].state \in {"Single", "Multiple"} => slab'[l] = slab[l]
    BY <2>1 DEF StateOK, Finished
  <2> QED
    BY <2>1, <2>2 DEF QueueInv, QueuesPrivate, ResultsPrivate
<1> QED
  BY <1>1, <1>2, <1>3 DEF TryNotify

(* What Head and Tail do to a non-empty sequence. *)
LEMMA HeadTail ==
  ASSUME NEW S, NEW q \in Seq(S), q # <<>>
  PROVE  /\ Len(q) \in Nat /\ 1 <= Len(q) /\ Head(q) = q[1]
         /\ Tail(q) \in Seq(S) /\ Len(Tail(q)) = Len(q) - 1
         /\ \A i \in 1 .. Len(Tail(q)) : Tail(q)[i] = q[i + 1]
         /\ Tail(q) = <<>> <=> Len(q) = 1
<1>1. Len(q) \in Nat /\ 1 <= Len(q)
  BY EmptySeq, LenProperties
<1>2. /\ Tail(q) \in Seq(S) /\ Len(Tail(q)) = Len(q) - 1
      /\ \A i \in 1 .. Len(Tail(q)) : Tail(q)[i] = q[i + 1]
  BY HeadTailProperties
<1>3. Tail(q) = <<>> <=> Len(Tail(q)) = 0
  BY <1>2, EmptySeq
<1>4. Head(q) = q[1]
  OBVIOUS
<1> QED
  BY <1>1, <1>2, <1>3, <1>4

(* Completion::take_result keeps the result queues private, and removes     *)
(* the entry exactly when it returns a result without F_MORE.               *)
LEMMA QueueTake ==
  ASSUME StateOK, QueueInv, NEW k \in Keys, HasResult(k), TakeResult(k)
  PROVE  /\ QueueInv'
         /\ NextResult(k).more => slab' = slab
         /\ ~NextResult(k).more => slab' = [slab EXCEPT ![k] = Finished]
         /\ slab[k].state \in {"Single", "Multiple"}
         /\ slab[k].state = "Multiple" /\ slab[k].more => NextResult(k).more
<1>1. CASE TakeSingle(k)
  <2>1. /\ slab' = [slab EXCEPT ![k] = Finished] /\ UNCHANGED <<queues, unused>>
        /\ slab[k].state = "Single" /\ NextResult(k) = slab[k].result
    BY <1>1 DEF TakeSingle, NextResult
  <2>2. \A l \in Keys : slab'[l].state \in {"Single", "Multiple"} => slab'[l] = slab[l]
    BY <2>1 DEF StateOK, Finished
  <2> QED
    BY <2>1, <2>2 DEF QueueInv, QueuesPrivate, ResultsPrivate
<1>2. CASE TakeMultiple(k)
  <2> DEFINE h == slab[k].handle
             q == queues[h]
  <2>1. /\ slab[k].state = "Multiple" /\ q # <<>> /\ NextResult(k) = Head(q)
        /\ h \in 1 .. Len(queues) /\ queues \in Seq(Seq(Results)) /\ q \in Seq(Results)
    <3>1. slab[k].state = "Multiple" /\ q # <<>> /\ NextResult(k) = Head(q)
      BY <1>2 DEF TakeMultiple, NextResult
    <3> QED
      BY <3>1, Handles
  <2>2. HoldsOwn(slab[k], q)
    BY <2>1 DEF QueueInv, ResultsPrivate
  <2>3. /\ Len(q) \in Nat /\ 1 <= Len(q) /\ Head(q) = q[1]
        /\ Tail(q) \in Seq(Results) /\ Len(Tail(q)) = Len(q) - 1
        /\ \A i \in 1 .. Len(Tail(q)) : Tail(q)[i] = q[i + 1]
        /\ Tail(q) = <<>> <=> Len(q) = 1
    BY <2>1, HeadTail
  <2>4. NextResult(k).more <=> Tail(q) # <<>> \/ slab[k].more
    <3>1. 1 \in 1 .. Len(q) /\ (1 < Len(q) <=> Tail(q) # <<>>)
      <4> HIDE DEF q
      <4> QED
        BY <2>3
    <3> QED
      BY SMTT(60), <2>1, <2>2, <2>3, <3>1 DEF HoldsOwn
  <2>5. CASE Release(h) /\ slab' = [slab EXCEPT ![k] = Finished] /\ Tail(q) = <<>> /\ ~slab[k].more
    <3>1. QueueInv'
      BY <2>1, <2>5, QueueRelease DEF Finished
    <3> QED
      BY <2>1, <2>4, <2>5, <3>1
  <2>6. CASE /\ queues' = [queues EXCEPT ![h] = Tail(q)] /\ UNCHANGED <<slab, unused>>
             /\ Tail(q) # <<>> \/ slab[k].more
    <3>1. /\ \A g \in 1 .. Len(queues) : g # h => queues'[g] = queues[g]
          /\ queues'[h] = Tail(q)
      BY <2>1, <2>6, LenProperties
    <3>2. HoldsOwn(slab[k], Tail(q))
      <4>1. \A i \in 1 .. Len(Tail(q)) :
              /\ Tail(q)[i] = q[i + 1] /\ i + 1 \in 1 .. Len(q)
              /\ i < Len(Tail(q)) <=> i + 1 < Len(q)
        BY <2>3
      <4> QED
        BY <2>2, <2>6, <4>1 DEF HoldsOwn
    <3>3. \A l \in Keys : slab[l].state = "Multiple" =>
            slab[l].handle \in 1 .. Len(queues) /\ (l # k => slab[l].handle # h)
      BY <2>1 DEF StateOK, Completions, QueueInv, QueuesPrivate
    <3>4. QueuesPrivate'
      <4>1. \A i \in 1 .. Len(unused) : unused[i] \in 1 .. Len(queues) /\ unused[i] # h
        BY <2>1, Handles DEF QueueInv, QueuesPrivate
      <4>2. \A i \in 1 .. Len(unused') : queues'[unused'[i]] = <<>>
        BY <2>6, <3>1, <4>1 DEF QueueInv, QueuesPrivate
      <4> QED
        BY <2>6, <4>2 DEF QueueInv, QueuesPrivate
    <3>5. ResultsPrivate'
      <4>1. ASSUME NEW l \in Keys
            PROVE  /\ slab'[l].state = "Single" => ~slab'[l].result.more
                   /\ slab'[l].state = "Multiple" => HoldsOwn(slab'[l], queues'[slab'[l].handle])
        <5>1. CASE l = k
          BY <2>1, <2>6, <3>1, <3>2, <5>1
        <5>2. CASE l # k
          BY <2>6, <3>1, <3>3, <5>2 DEF QueueInv, ResultsPrivate
        <5> QED
          BY <5>1, <5>2
      <4> QED
        BY <4>1 DEF ResultsPrivate
    <3> QED
      BY <2>1, <2>4, <2>6, <3>4, <3>5 DEF QueueInv
  <2> QED
    BY <1>2, <2>5, <2>6 DEF TakeMultiple
<1> QED
  BY <1>1, <1>2 DEF TakeResult

(* What does not touch the submission queue keeps its entries distinct. *)
LEMMA SqSame ==
  ASSUME Sound, UNCHANGED sq, \A r \in Requests : stage[r] = "sq" => stage'[r] = "sq", StateOK
  PROVE  SqOnce'
<1>1. \A i \in 1 .. Len(sq) : sq[i] \in Requests
  BY ElementOfSeq DEF StateOK
<1> QED
  BY <1>1 DEF Sound, KeyInv, SqOnce

(* Pushing a request that was never pushed keeps the entries of the         *)
(* submission queue distinct and the completion queue as it was.            *)
LEMMA PushKeeps ==
  ASSUME StateOK, Sound, NEW r \in Requests, stage[r] = "none",
         NEW u \in Keys \cup {IgnoreKey}, Push(r, u)
  PROVE  SqOnce' /\ CqOnce'
<1>1. /\ sq' = Append(sq, r) /\ sq \in Seq(Requests)
      /\ \A q \in Requests : stage'[q] = IF q = r THEN "sq" ELSE stage[q]
      /\ \A q \in Requests : q # r => userData'[q] = userData[q]
      /\ cq' = cq /\ cq \in Seq(Cqes)
  BY DEF StateOK, Push
<1>2. /\ Len(sq') = Len(sq) + 1 /\ Len(sq) \in Nat
      /\ \A i \in 1 .. Len(sq) : sq'[i] = sq[i] /\ sq[i] \in Requests
      /\ sq'[Len(sq) + 1] = r
  BY <1>1, AppendProperties, LenProperties, ElementOfSeq
<1>3. \A i \in 1 .. Len(sq') : i \in 1 .. Len(sq) \/ i = Len(sq) + 1
  BY <1>2
<1>4. SqOnce /\ CqOnce
  BY DEF Sound, KeyInv
<1>5. \A i \in 1 .. Len(sq) : stage[sq[i]] = "sq" /\ sq[i] # r
  BY <1>4 DEF SqOnce
<1>6. ASSUME NEW i \in 1 .. Len(sq')
      PROVE  stage'[sq'[i]] = "sq"
  BY <1>1, <1>2, <1>3, <1>5
<1>7. ASSUME NEW i \in 1 .. Len(sq'), NEW j \in 1 .. Len(sq'), sq'[i] = sq'[j]
      PROVE  i = j
  <2>1. CASE i \in 1 .. Len(sq) /\ j \in 1 .. Len(sq)
    BY <1>2, <1>4, <1>7, <2>1 DEF SqOnce
  <2>2. CASE i = Len(sq) + 1 \/ j = Len(sq) + 1
    BY <1>2, <1>3, <1>5, <1>7, <2>2
  <2> QED
    BY <1>3, <2>1, <2>2
<1>8. \A i \in 1 .. Len(cq) : cq[i].req \in Requests /\ cq[i].req # r
  <2>1. \A i \in 1 .. Len(cq) : cq[i] \in Cqes
    BY <1>1, ElementOfSeq
  <2> QED
    BY <1>4, <2>1 DEF CqOnce, Cqes
<1>9. CqOnce'
  BY <1>1, <1>4, <1>8 DEF CqOnce
<1> QED
  BY <1>6, <1>7, <1>9 DEF SqOnce

(* The kernel takes a request off the submission queue for good. *)
LEMMA ConsumeKeeps ==
  ASSUME StateOK, Sound, sq # <<>>, sq' = Tail(sq), NEW s \in {"kernel", "cq"},
         stage' = [stage EXCEPT ![Head(sq)] = s]
  PROVE  SqOnce' /\ Head(sq) \in Requests /\ stage[Head(sq)] = "sq"
<1>1. /\ sq \in Seq(Requests) /\ Len(sq) \in Nat /\ 1 <= Len(sq) /\ Head(sq) = sq[1]
      /\ Len(Tail(sq)) = Len(sq) - 1
      /\ \A i \in 1 .. Len(Tail(sq)) : Tail(sq)[i] = sq[i + 1]
  BY HeadTail DEF StateOK
<1>2. \A i \in 1 .. Len(sq') : sq'[i] = sq[i + 1] /\ i + 1 \in 1 .. Len(sq) /\ i + 1 # 1
  BY <1>1
<1>3. 1 \in 1 .. Len(sq) /\ \A i \in 1 .. Len(sq) : sq[i] \in Requests
  BY <1>1, ElementOfSeq
<1>4. SqOnce
  BY DEF Sound, KeyInv
<1>5. \A i \in 1 .. Len(sq') : stage'[sq'[i]] = "sq"
  BY <1>1, <1>2, <1>3, <1>4 DEF StateOK, SqOnce
<1>6. \A i, j \in 1 .. Len(sq') : sq'[i] = sq'[j] => i = j
  BY <1>1, <1>2, <1>4 DEF SqOnce
<1> QED
  BY <1>1, <1>3, <1>4, <1>5, <1>6 DEF SqOnce

(* A posted completion carries the user_data of its request and is not      *)
(* behind the last completion of it.                                        *)
LEMMA PostKeeps ==
  ASSUME StateOK, Sound, NEW c \in Cqes, cq' = Append(cq, c), UNCHANGED userData,
         c.userData = userData[c.req], stage[c.req] \in {"sq", "kernel"},
         \A r \in Requests : r # c.req => stage'[r] = stage[r],
         IF c.more THEN stage'[c.req] = "kernel" /\ c.req.kind = "op" /\ c.req.id \in Multishot
                   ELSE stage'[c.req] = "cq"
  PROVE  CqOnce'
<1>1. /\ Len(cq') = Len(cq) + 1 /\ Len(cq) \in Nat
      /\ \A i \in 1 .. Len(cq) : cq'[i] = cq[i] /\ cq[i] \in Cqes
      /\ cq'[Len(cq) + 1] = c
  BY AppendProperties, LenProperties, ElementOfSeq DEF StateOK
<1>2. \A i \in 1 .. Len(cq') : i \in 1 .. Len(cq) \/ i = Len(cq) + 1
  BY <1>1
<1>3. CqOnce
  BY DEF Sound, KeyInv
<1>4. \A i \in 1 .. Len(cq) : cq[i].req \in Requests /\ (cq[i].req = c.req => cq[i].more)
  BY <1>1, <1>3 DEF CqOnce, Cqes
<1>5. ASSUME NEW i \in 1 .. Len(cq')
      PROVE  /\ stage'[cq'[i].req] \in {"kernel", "cq"}
             /\ cq'[i].userData = userData'[cq'[i].req]
             /\ ~cq'[i].more => stage'[cq'[i].req] = "cq"
             /\ cq'[i].more => cq'[i].req.kind = "op" /\ cq'[i].req.id \in Multishot
  <2>1. CASE i \in 1 .. Len(cq) /\ cq[i].req # c.req
    BY <1>1, <1>3, <1>4, <2>1 DEF CqOnce
  <2>2. CASE i \in 1 .. Len(cq) /\ cq[i].req = c.req
    BY <1>1, <1>3, <1>4, <2>2 DEF CqOnce
  <2>3. CASE i = Len(cq) + 1
    BY <1>1, <2>3
  <2> QED
    BY <1>2, <2>1, <2>2, <2>3
<1>6. ASSUME NEW i \in 1 .. Len(cq'), NEW j \in 1 .. Len(cq'), i < j, cq'[i].req = cq'[j].req
      PROVE  cq'[i].more
  <2>1. i \in 1 .. Len(cq)
    BY <1>1, <1>2, <1>6
  <2>2. CASE j \in 1 .. Len(cq)
    BY <1>1, <1>3, <1>6, <2>1, <2>2 DEF CqOnce
  <2>3. CASE j = Len(cq) + 1
    BY <1>1, <1>4, <1>6, <2>1, <2>3
  <2> QED
    BY <1>2, <2>2, <2>3
<1> QED
  BY <1>5, <1>6 DEF CqOnce

(* The completion handle_completions takes off the queue is of a request    *)
(* that is not over; when it is the last one, the request is over with      *)
(* it.                                                                      *)
LEMMA PopKeeps ==
  ASSUME StateOK, Sound, Pop
  PROVE  /\ CqOnce' /\ SqOnce'
         /\ Head(cq) \in Cqes
         /\ stage[Head(cq).req] \in {"kernel", "cq"}
         /\ Head(cq).userData = userData[Head(cq).req]
         /\ Head(cq).more => Head(cq).req.kind = "op" /\ Head(cq).req.id \in Multishot
         /\ \A r \in Requests :
              stage'[r] = IF r = Head(cq).req /\ ~Head(cq).more THEN "done" ELSE stage[r]
<1> DEFINE c == Head(cq)
<1>1. /\ cq \in Seq(Cqes) /\ Len(cq) \in Nat /\ 1 <= Len(cq) /\ c = cq[1]
      /\ Len(Tail(cq)) = Len(cq) - 1
      /\ \A i \in 1 .. Len(Tail(cq)) : Tail(cq)[i] = cq[i + 1]
  BY HeadTail DEF StateOK, Pop
<1>2. cq' = Tail(cq) /\ UNCHANGED <<sq, userData>>
  BY DEF Pop
<1>3. \A i \in 1 .. Len(cq') : cq'[i] = cq[i + 1] /\ i + 1 \in 1 .. Len(cq) /\ 1 < i + 1
  BY <1>1, <1>2
<1>4. 1 \in 1 .. Len(cq) /\ \A i \in 1 .. Len(cq) : cq[i] \in Cqes /\ cq[i].req \in Requests
  <2>1. 1 \in 1 .. Len(cq) /\ \A i \in 1 .. Len(cq) : cq[i] \in Cqes
    BY <1>1, ElementOfSeq
  <2> QED
    BY <2>1 DEF Cqes
<1>5. CqOnce
  BY DEF Sound, KeyInv
<1>6. /\ c \in Cqes
      /\ stage[c.req] \in {"kernel", "cq"} /\ c.userData = userData[c.req]
      /\ c.more => c.req.kind = "op" /\ c.req.id \in Multishot
  BY <1>1, <1>4, <1>5 DEF CqOnce
<1>7. \A r \in Requests : stage'[r] = IF r = c.req /\ ~c.more THEN "done" ELSE stage[r]
  BY <1>4 DEF StateOK, Pop
<1>8. \A i \in 1 .. Len(cq') : ~c.more => cq'[i].req # c.req
  BY <1>1, <1>3, <1>4, <1>5 DEF CqOnce
<1>9. \A i \in 1 .. Len(cq') : stage'[cq'[i].req] = stage[cq[i + 1].req]
  BY <1>3, <1>4, <1>7, <1>8
<1>10. ASSUME NEW i \in 1 .. Len(cq')
       PROVE  /\ stage'[cq'[i].req] \in {"kernel", "cq"}
              /\ cq'[i].userData = userData'[cq'[i].req]
              /\ ~cq'[i].more => stage'[cq'[i].req] = "cq"
              /\ cq'[i].more => cq'[i].req.kind = "op" /\ cq'[i].req.id \in Multishot
  BY <1>2, <1>3, <1>5, <1>9 DEF CqOnce
<1>11. ASSUME NEW i \in 1 .. Len(cq'), NEW j \in 1 .. Len(cq'), i < j, cq'[i].req = cq'[j].req
       PROVE  cq'[i].more
  <2>1. i + 1 < j + 1 /\ i \in Nat /\ j \in Nat
    BY <1>1, <1>2, <1>11
  <2> QED
    BY SMTT(60), <1>3, <1>5, <1>11, <2>1 DEF CqOnce
<1>12. SqOnce'
  BY <1>2, <1>6, <1>7, SqSame
<1> QED
  BY <1>6, <1>7, <1>10, <1>11, <1>12 DEF CqOnce

(* The operations that are armed or waited for have keys of their own,      *)
(* under which the slab holds an entry.                                     *)
LEMMA OwnEntry ==
  ASSUME StateInv, Sound, NEW o \in Ops, Armed(o) \/ state[o] = "Submitted"
  PROVE  /\ KeyOf(o) \in Keys
         /\ slab[KeyOf(o)] # Finished
         /\ \A p \in Ops :
              p # o /\ (Armed(p) \/ state[p] = "Submitted") => KeyOf(p) # KeyOf(o)
<1> DEFINE Of(c, p) ==
             \/ c.state = "Vacant" /\ c.waker = p
             \/ c.state = "Single" /\ c.result.op = p
             \/ c.state = "Multiple" /\ c.waker = p
             \/ c.state = "Cancelled" /\ c.cancel = p
<1>1. ASSUME NEW p \in Ops, Armed(p) \/ state[p] = "Submitted"
      PROVE  Of(slab[KeyOf(p)], p)
  <2>1. CASE Armed(p)
    <3>1. ArmedEntry(p)
      BY <2>1 DEF Sound, KeyInv, Entries
    <3> QED
      BY <3>1 DEF ArmedEntry
  <2>2. CASE ~Armed(p)
    <3>1. UnreadEntry(p)
      BY <1>1, <2>2 DEF Sound, KeyInv, Entries
    <3> QED
      BY <3>1 DEF UnreadEntry
  <2> QED
    BY <2>1, <2>2
<1>2. \A c : \A p, q \in Ops : Of(c, p) /\ Of(c, q) => p = q
  OBVIOUS
<1>3. \A p \in Ops : Armed(p) \/ state[p] = "Submitted" => KeyOf(p) \in Keys
  BY DEF StateInv, Tags, KeyOf, Sound, KeyInv, Entries
<1>4. \A p : ~Of(Finished, p)
  BY DEF Finished
<1> HIDE DEF Of
<1> QED
  BY <1>1, <1>2, <1>3, <1>4

(* Steps that change neither the slab nor the submissions keep the          *)
(* entries as long as nothing ends.                                         *)
LEMMA EntriesKeep ==
  ASSUME StateInv, Sound, UNCHANGED <<slab, state, userData>>,
         \A o \in Ops : stage'[Op(o)] # stage[Op(o)] =>
           stage[Op(o)] \in {"sq", "kernel", "cq"} /\ stage'[Op(o)] \in {"sq", "kernel", "cq"}
  PROVE  Entries'
<1>1. \A o \in Ops : Armed(o)' <=> Armed(o)
  BY DEF Armed
<1>2. \A o \in Ops : (ArmedEntry(o)' <=> ArmedEntry(o)) /\ (UnreadEntry(o)' <=> UnreadEntry(o))
  BY DEF ArmedEntry, UnreadEntry, KeyOf
<1> QED
  BY <1>1, <1>2 DEF Sound, KeyInv, Entries, KeyOf

(* A step that changes the entry of one operation only disturbs no other    *)
(* operation.                                                               *)
LEMMA EntriesChange ==
  ASSUME StateInv, Sound, NEW o \in Ops, NEW k \in Keys,
         slab[k] = Finished \/ (KeyOf(o) = k /\ (Armed(o) \/ state[o] = "Submitted")),
         \A l \in Keys : l # k => slab'[l] = slab[l],
         \A p \in Ops : p # o =>
           /\ stage'[Op(p)] = stage[Op(p)]
           /\ userData'[Op(p)] = userData[Op(p)]
           /\ state'[p] = state[p],
         Armed(o)' => KeyOf(o)' \in Keys /\ ArmedEntry(o)',
         state'[o] = "Submitted" =>
           IF Armed(o)' THEN slab'[KeyOf(o)'].state # "Cancelled" ELSE UnreadEntry(o)'
  PROVE  Entries'
<1>1. ASSUME NEW p \in Ops, p # o, Armed(p) \/ state[p] = "Submitted"
      PROVE  KeyOf(p) \in Keys /\ KeyOf(p)' = KeyOf(p) /\ slab'[KeyOf(p)] = slab[KeyOf(p)]
  <2>1. KeyOf(p) \in Keys /\ KeyOf(p) # k
    BY <1>1, OwnEntry
  <2>2. KeyOf(p)' = KeyOf(p)
    BY <1>1 DEF KeyOf
  <2> QED
    BY <2>1, <2>2
<1>2. \A p \in Ops : p # o => (Armed(p)' <=> Armed(p)) /\ state'[p] = state[p]
  BY DEF Armed
<1>3. ASSUME NEW p \in Ops, Armed(p)'
      PROVE  KeyOf(p)' \in Keys /\ ArmedEntry(p)'
  <2>1. CASE p # o
    <3>1. Armed(p) /\ ArmedEntry(p)
      BY <1>2, <1>3, <2>1 DEF Sound, KeyInv, Entries
    <3> QED
      BY <1>1, <2>1, <3>1 DEF ArmedEntry
  <2> QED
    BY <1>3, <2>1
<1>4. ASSUME NEW p \in Ops, state'[p] = "Submitted"
      PROVE  IF Armed(p)' THEN slab'[KeyOf(p)'].state # "Cancelled" ELSE UnreadEntry(p)'
  <2>1. CASE p # o
    <3>1. /\ state[p] = "Submitted"
          /\ IF Armed(p) THEN slab[KeyOf(p)].state # "Cancelled" ELSE UnreadEntry(p)
      BY <1>2, <1>4, <2>1 DEF Sound, KeyInv, Entries
    <3> QED
      BY <1>1, <1>2, <2>1, <3>1 DEF UnreadEntry
  <2> QED
    BY <1>4, <2>1
<1> QED
  BY <1>3, <1>4 DEF Entries

(* Ring::submit inserts the entry of an operation under a free key. *)
LEMMA FirstPollKeeps ==
  ASSUME StateInv, Sound, NEW o \in Ops, FirstPoll(o)
  PROVE  panic' = "queue_full" \/ Sound'
<1>1. PICK k \in Keys : Submit(o, k)
  BY DEF FirstPoll
<1>2. StateOK /\ Op(o) \in Requests
  BY RequestTypes DEF StateInv
<1>3. QueueInv'
  BY <1>1, <1>2, QueueInsert DEF Submit, Sound
<1>4. CASE Push(Op(o), k) /\ panic' = panic
  <2>1. stage[Op(o)] = "none" /\ state[o] = "Initial"
    BY DEF FirstPoll, Sound, KeyInv, PushedOnce
  <2>2. SqOnce' /\ CqOnce'
    BY <1>2, <1>4, <2>1, PushKeeps DEF Sound
  <2>3. /\ \A r \in Requests : r # Op(o) => stage'[r] = stage[r] /\ userData'[r] = userData[r]
        /\ stage'[Op(o)] = "sq" /\ userData'[Op(o)] = k
        /\ slab[k] = Finished /\ slab' = [slab EXCEPT ![k] = Vacant(o)]
        /\ state' = [state EXCEPT ![o] = "Submitted"]
    BY ZenonT(60), <1>1, <1>2, <1>4 DEF FirstPoll, Submit, Insert, Push, StateOK
  <2>4. /\ \A p \in Ops : p # o => state'[p] = state[p]
        /\ state'[o] = "Submitted"
        /\ \A l \in Keys : l # k => slab'[l] = slab[l]
        /\ slab'[k] = Vacant(o)
    BY <1>2, <2>3 DEF StateOK
  <2>5. PushedOnce'
    <3>1. PushedOnce
      BY DEF Sound, KeyInv
    <3>2. \A p \in Ops : stage'[Cancel(p)] = stage[Cancel(p)] /\ (p # o => stage'[Op(p)] = stage[Op(p)])
      BY <2>3, RequestTypes
    <3> QED
      BY <2>1, <2>4, <3>1, <3>2 DEF PushedOnce
  <2>6. Entries'
    <3>1. KeyOf(o)' = k /\ Armed(o)'
      BY <2>3 DEF KeyOf, Armed
    <3>2. ArmedEntry(o)' /\ slab'[KeyOf(o)'].state # "Cancelled"
      BY <2>4, <3>1 DEF ArmedEntry, Vacant
    <3>3. \A p \in Ops : p # o =>
            /\ stage'[Op(p)] = stage[Op(p)]
            /\ userData'[Op(p)] = userData[Op(p)]
            /\ state'[p] = state[p]
      BY <2>3, <2>4, RequestTypes
    <3> QED
      BY <2>3, <2>4, <3>1, <3>2, <3>3, EntriesChange
  <2> QED
    BY <1>3, <1>4, <2>2, <2>5, <2>6 DEF Sound, KeyInv
<1> QED
  BY <1>1, <1>4 DEF Submit

(* A poll of a waiting submission finds its entry in the slab               *)
(* (completion.rs:55 does not panic).                                       *)
LEMMA PollPendingKeeps ==
  ASSUME StateInv, Sound, NEW o \in Ops, PollPending(o)
  PROVE  Sound'
<1>1. panic' = panic
  BY OwnEntry DEF PollPending, Pollable
<1>2. UNCHANGED <<slab, queues, unused, sq, cq, stage, userData, state>>
  BY DEF PollPending, uringVars, submissionVars
<1> QED
  BY <1>1, <1>2
     DEF Sound, KeyInv, QueueInv, SqOnce, CqOnce, PushedOnce, Entries, Armed, ArmedEntry,
         UnreadEntry, KeyOf, QueuesPrivate, ResultsPrivate

(* A poll that returns a result removes the entry with the last one,        *)
(* exactly when the submission becomes Completed (submission.rs:102-106,    *)
(* 155-160).                                                                *)
LEMMA PollResultKeeps ==
  ASSUME StateInv, Sound, NEW o \in Ops, PollFuture(o) \/ PollStream(o)
  PROVE  Sound'
<1> DEFINE k == KeyOf(o)
           r == NextResult(k)
<1>1. /\ state[o] = "Submitted" /\ HasResult(k) /\ TakeResult(k)
      /\ state' = [state EXCEPT ![o] = NextState(r)]
      /\ UNCHANGED <<sq, cq, stage, userData, panic>>
  BY DEF PollFuture, PollStream, Pollable, uringVars, ringVars
<1>2. k \in Keys
  BY <1>1, OwnEntry
<1>3. /\ QueueInv'
      /\ r.more => slab' = slab
      /\ ~r.more => slab' = [slab EXCEPT ![k] = Finished]
      /\ slab[k].state \in {"Single", "Multiple"}
      /\ slab[k].state = "Multiple" /\ slab[k].more => r.more
  BY <1>1, <1>2, QueueTake DEF StateInv, Sound
<1>4. SqOnce' /\ CqOnce'
  BY <1>1 DEF Sound, KeyInv, SqOnce, CqOnce
<1>5. /\ \A p \in Ops : p # o => state'[p] = state[p]
      /\ state'[o] = NextState(r) /\ NextState(r) \in {"Submitted", "Completed"}
      /\ NextState(r) = "Submitted" <=> r.more
  BY <1>1 DEF StateInv, StateOK, NextState
<1>6. PushedOnce'
  BY <1>1, <1>5 DEF Sound, KeyInv, PushedOnce
<1>7. Entries'
  <2>1. CASE r.more
    <3>1. UNCHANGED <<slab, state, userData, stage>>
      BY <1>1, <1>3, <1>5, <2>1 DEF StateInv, StateOK
    <3> QED
      BY <3>1, EntriesKeep
  <2>2. CASE ~r.more
    <3>1. ~Armed(o)
      BY <1>1, <1>3, <2>2 DEF Sound, KeyInv, Entries, ArmedEntry
    <3>2. ~Armed(o)' /\ state'[o] # "Submitted"
      BY <1>1, <1>5, <2>2, <3>1 DEF Armed
    <3>3. \A l \in Keys : l # k => slab'[l] = slab[l]
      BY <1>3, <2>2 DEF StateInv, StateOK
    <3> QED
      BY <1>1, <1>2, <1>5, <3>2, <3>3, EntriesChange
  <2> QED
    BY <2>1, <2>2
<1> QED
  BY <1>1, <1>3, <1>4, <1>6, <1>7 DEF Sound, KeyInv

(* Dropping a submission that is not waiting leaves the ring alone. *)
LEMMA DropIdleKeeps ==
  ASSUME StateInv, Sound, NEW o \in Ops, DropInitial(o) \/ DropCompleted(o)
  PROVE  Sound'
<1>1. /\ state[o] # "Submitted" /\ state' = [state EXCEPT ![o] = "Dropped"]
      /\ UNCHANGED <<slab, queues, unused, sq, cq, stage, userData, panic>>
  BY DEF DropInitial, DropCompleted, completionVars, uringVars, ringVars
<1>2. \A p \in Ops : state'[p] = IF p = o THEN "Dropped" ELSE state[p]
  BY <1>1 DEF StateInv, StateOK
<1>3. PushedOnce'
  BY <1>1, <1>2 DEF Sound, KeyInv, PushedOnce
<1>4. Entries'
  <2>1. \A p \in Ops : /\ Armed(p)' <=> Armed(p)
                       /\ ArmedEntry(p)' <=> ArmedEntry(p)
                       /\ UnreadEntry(p)' <=> UnreadEntry(p)
                       /\ KeyOf(p)' = KeyOf(p)
    BY <1>1 DEF Armed, ArmedEntry, UnreadEntry, KeyOf
  <2>2. \A p \in Ops : state'[p] = "Submitted" => state[p] = "Submitted"
    BY <1>2
  <2> QED
    BY <1>1, <2>1, <2>2 DEF Sound, KeyInv, Entries
<1> QED
  BY <1>1, <1>3, <1>4
     DEF Sound, KeyInv, SqOnce, CqOnce, QueueInv, QueuesPrivate, ResultsPrivate

(* Ring::cancel finds the entry of a waiting submission; unless the         *)
(* operation is multishot and armed, one more completion at most is to      *)
(* come for the Cancelled entry it leaves.                                  *)
LEMMA DropSubmittedKeeps ==
  ASSUME StateInv, Sound, DropArmed = FALSE, NEW o \in Ops, DropSubmitted(o)
  PROVE  panic' = "queue_full" \/ Sound'
<1> DEFINE k == KeyOf(o)
<1>0. StateOK /\ Cancel(o) \in Requests /\ IgnoreKey \in Keys \cup {IgnoreKey}
  BY RequestTypes DEF StateInv
<1>1. /\ state[o] = "Submitted" /\ CancelOp(o)
      /\ state' = [state EXCEPT ![o] = "Dropped"]
      /\ o \in Multishot => ~MustCancel(k)
  BY DEF DropSubmitted
<1>2. /\ k \in Keys
      /\ IF Armed(o) THEN ArmedEntry(o) /\ slab[k].state # "Cancelled" ELSE UnreadEntry(o)
  BY <1>1, OwnEntry DEF Sound, KeyInv, Entries
<1>3. ~CancelPanics(k) /\ (Armed(o) <=> MustCancel(k))
  BY <1>2 DEF CancelPanics, MustCancel, ArmedEntry, UnreadEntry
<1>4. TryCancel(k, o)
  BY <1>1, <1>3 DEF CancelOp
<1>5. QueueInv'
  BY <1>0, <1>2, <1>4, QueueCancel DEF Sound
<1>6. /\ \A p \in Ops : p # o => state'[p] = state[p]
      /\ state'[o] = "Dropped"
      /\ \A l \in Keys : l # k => slab'[l] = slab[l]
      /\ slab'[k] = IF MustCancel(k) THEN Cancelled(o) ELSE Finished
  BY <1>0, <1>1, <1>2, <1>4 DEF TryCancel, StateOK
<1>7. CASE MustCancel(k) /\ Push(Cancel(o), IgnoreKey) /\ panic' = panic
  <2>1. stage[Cancel(o)] = "none"
    BY <1>1 DEF Sound, KeyInv, PushedOnce
  <2>2. SqOnce' /\ CqOnce'
    BY <1>0, <1>7, <2>1, PushKeeps
  <2>3. /\ \A r \in Requests : r # Cancel(o) => stage'[r] = stage[r] /\ userData'[r] = userData[r]
        /\ stage'[Cancel(o)] = "sq"
    BY <1>0, <1>7 DEF Push, StateOK
  <2>4. \A p \in Ops : /\ stage'[Op(p)] = stage[Op(p)] /\ userData'[Op(p)] = userData[Op(p)]
                       /\ p # o => stage'[Cancel(p)] = stage[Cancel(p)]
    BY <2>3, RequestTypes
  <2>5. PushedOnce'
    BY <1>6, <2>4 DEF Sound, KeyInv, PushedOnce
  <2>6. Entries'
    <3>1. Armed(o)' /\ KeyOf(o)' = k
      BY <1>3, <1>7, <2>4 DEF Armed, KeyOf
    <3>2. ArmedEntry(o)'
      BY <1>1, <1>6, <1>7, <3>1 DEF ArmedEntry, Cancelled
    <3> QED
      BY <1>1, <1>2, <1>6, <2>4, <3>1, <3>2, EntriesChange
  <2> QED
    BY <1>5, <1>7, <2>2, <2>5, <2>6 DEF Sound, KeyInv
<1>8. CASE UNCHANGED uringVars /\ panic' = panic
  <2>1. UNCHANGED <<sq, cq, stage, userData>>
    BY <1>8 DEF uringVars
  <2>2. SqOnce' /\ CqOnce'
    BY <2>1 DEF Sound, KeyInv, SqOnce, CqOnce
  <2>3. PushedOnce'
    BY <1>6, <2>1 DEF Sound, KeyInv, PushedOnce
  <2>4. Entries'
    <3>1. (Armed(o)' <=> Armed(o)) /\ KeyOf(o)' = k
      BY <2>1 DEF Armed, KeyOf
    <3>2. Armed(o)' => ArmedEntry(o)'
      BY <1>1, <1>3, <1>6, <3>1 DEF ArmedEntry, Cancelled
    <3> QED
      BY <1>1, <1>2, <1>6, <2>1, <3>1, <3>2, EntriesChange
  <2> QED
    BY <1>5, <1>8, <2>2, <2>3, <2>4 DEF Sound, KeyInv
<1> QED
  BY <1>1, <1>3, <1>7, <1>8 DEF CancelOp, PushCancel

(* A detached request never gets a key. *)
LEMMA SubmitDetachedKeeps ==
  ASSUME StateInv, Sound, NEW d \in Detached, SubmitDetached(d), UNCHANGED submissionVars
  PROVE  panic' = "queue_full" \/ Sound'
<1>1. StateOK /\ Det(d) \in Requests /\ IgnoreKey \in Keys \cup {IgnoreKey}
  BY RequestTypes DEF StateInv
<1>2. CASE Push(Det(d), IgnoreKey) /\ panic' = panic
  <2>1. SqOnce' /\ CqOnce'
    BY <1>1, <1>2, PushKeeps DEF SubmitDetached
  <2>2. UNCHANGED <<slab, queues, unused, state>>
    BY DEF SubmitDetached, completionVars, submissionVars
  <2>3. \A r \in Requests : r # Det(d) => stage'[r] = stage[r] /\ userData'[r] = userData[r]
    BY <1>1, <1>2 DEF Push, StateOK
  <2>4. \A p \in Ops : /\ stage'[Op(p)] = stage[Op(p)] /\ userData'[Op(p)] = userData[Op(p)]
                       /\ stage'[Cancel(p)] = stage[Cancel(p)]
    BY <2>3, RequestTypes
  <2>5. PushedOnce'
    BY <2>2, <2>4 DEF Sound, KeyInv, PushedOnce
  <2>6. Entries'
    <3>1. \A p \in Ops : /\ Armed(p)' <=> Armed(p)
                         /\ ArmedEntry(p)' <=> ArmedEntry(p)
                         /\ UnreadEntry(p)' <=> UnreadEntry(p)
                         /\ KeyOf(p)' = KeyOf(p)
      BY <2>2, <2>4 DEF Armed, ArmedEntry, UnreadEntry, KeyOf
    <3> QED
      BY <2>2, <3>1 DEF Sound, KeyInv, Entries
  <2> QED
    BY <1>2, <2>1, <2>2, <2>5, <2>6
       DEF Sound, KeyInv, QueueInv, QueuesPrivate, ResultsPrivate
<1> QED
  BY <1>2 DEF SubmitDetached

(* Steps of the kernel on a request that is not over keep the entries. *)
LEMMA KernelFrame ==
  ASSUME StateInv, Sound, UNCHANGED <<slab, queues, unused, state, userData, panic>>,
         SqOnce', CqOnce', NEW r \in Requests,
         \A q \in Requests : q # r => stage'[q] = stage[q],
         stage[r] \in {"sq", "kernel", "cq"}, stage'[r] \in {"sq", "kernel", "cq"}
  PROVE  Sound'
<1>1. Entries'
  BY EntriesKeep, RequestTypes
<1>2. PushedOnce'
  <2>1. \A q \in Requests : stage[q] = "none" => stage'[q] = "none"
    OBVIOUS
  <2> QED
    BY <2>1, RequestTypes DEF Sound, KeyInv, PushedOnce
<1> QED
  BY <1>1, <1>2 DEF Sound, KeyInv, QueueInv, QueuesPrivate, ResultsPrivate

(* Handing a request over to the kernel keeps the invariant. *)
LEMMA EnterKeeps ==
  ASSUME StateInv, Sound, UNCHANGED <<completionVars, submissionVars>>,
         EnterSubmit \/ EnterRefused
  PROVE  Sound'
<1>1. UNCHANGED <<slab, queues, unused, state, userData, panic>>
  BY DEF EnterSubmit, EnterRefused, Consume, ConsumeCancel, Refuse, completionVars,
         submissionVars, ringVars
<1>2. CASE Consume
  <2>1. SqOnce' /\ Head(sq) \in Requests /\ stage[Head(sq)] = "sq"
    BY <1>2, ConsumeKeeps DEF Consume, StateInv
  <2>2. /\ \A q \in Requests : q # Head(sq) => stage'[q] = stage[q]
        /\ stage'[Head(sq)] = "kernel"
        /\ cq' = cq
    BY <1>2, <2>1 DEF Consume, StateInv, StateOK
  <2>3. CqOnce'
    <3>1. CqOnce
      BY DEF Sound, KeyInv
    <3>2. \A i \in 1 .. Len(cq) : cq[i] \in Cqes
      BY ElementOfSeq DEF StateInv, StateOK
    <3>3. \A i \in 1 .. Len(cq) : stage'[cq[i].req] = stage[cq[i].req]
      BY <2>1, <2>2, <3>1, <3>2 DEF CqOnce, Cqes
    <3> QED
      BY <1>1, <2>2, <3>1, <3>3 DEF CqOnce
  <2> QED
    BY <1>1, <2>1, <2>2, <2>3, KernelFrame
<1>3. CASE ConsumeCancel \/ Refuse
  <2>1. /\ SqOnce' /\ Head(sq) \in Requests /\ stage[Head(sq)] = "sq"
        /\ cq' = Append(cq, Last(Head(sq)))
        /\ stage' = [stage EXCEPT ![Head(sq)] = "cq"]
    BY <1>3, ConsumeKeeps DEF ConsumeCancel, Refuse, StateInv
  <2>2. /\ \A q \in Requests : q # Head(sq) => stage'[q] = stage[q]
        /\ stage'[Head(sq)] = "cq"
    BY <2>1 DEF StateInv, StateOK
  <2>3. CqOnce'
    <3> DEFINE c == Last(Head(sq))
    <3>1. /\ c \in Cqes /\ c.req = Head(sq) /\ c.userData = userData[c.req] /\ ~c.more
          /\ cq' = Append(cq, c)
      BY <2>1, LastType
    <3> HIDE DEF c
    <3> QED
      BY <1>1, <2>1, <2>2, <3>1, PostKeeps DEF StateInv
  <2> QED
    BY <1>1, <2>1, <2>2, <2>3, KernelFrame
<1> QED
  BY <1>2, <1>3 DEF EnterSubmit, EnterRefused

(* A completion posted by the kernel keeps the invariant. *)
LEMMA KernelKeeps ==
  ASSUME StateInv, Sound, UNCHANGED submissionVars,
         (\E r \in Requests : KernelCompletes(r)) \/ (\E o \in Ops : KernelPostsMore(o))
  PROVE  Sound'
<1>1. ASSUME NEW r \in Requests, KernelCompletes(r)
      PROVE  Sound'
  <2>1. /\ UNCHANGED <<slab, queues, unused, state, userData, panic, sq>>
        /\ stage[r] = "kernel" /\ cq' = Append(cq, Last(r))
        /\ stage' = [stage EXCEPT ![r] = "cq"]
    BY <1>1 DEF KernelCompletes, Complete, completionVars, submissionVars, ringVars
  <2>2. (\A q \in Requests : q # r => stage'[q] = stage[q]) /\ stage'[r] = "cq"
    BY <2>1 DEF StateInv, StateOK
  <2>3. CqOnce'
    <3> DEFINE c == Last(r)
    <3>1. /\ c \in Cqes /\ c.req = r /\ c.userData = userData[c.req] /\ ~c.more
          /\ cq' = Append(cq, c)
      BY <2>1, LastType
    <3> HIDE DEF c
    <3> QED
      BY <2>1, <2>2, <3>1, PostKeeps DEF StateInv
  <2>4. SqOnce'
    BY <2>1, <2>2, SqSame DEF StateInv
  <2> QED
    BY <2>1, <2>2, <2>3, <2>4, KernelFrame
<1>2. ASSUME NEW o \in Ops, KernelPostsMore(o)
      PROVE  Sound'
  <2> DEFINE c == Completion(Op(o), posted[o] + 1, TRUE)
  <2>1. /\ UNCHANGED <<slab, queues, unused, state, userData, panic, sq, stage>>
        /\ stage[Op(o)] = "kernel" /\ cq' = Append(cq, c) /\ o \in Multishot
    BY <1>2 DEF KernelPostsMore, CompleteMore, completionVars, submissionVars, ringVars
  <2>2. /\ c \in Cqes /\ c.req = Op(o) /\ c.userData = userData[c.req] /\ c.more
        /\ c.req.kind = "op" /\ c.req.id = o
    BY RequestTypes DEF StateInv, StateOK, Completion, Cqes, Op
  <2>3. CqOnce'
    <3> HIDE DEF c
    <3> QED
      BY <2>1, <2>2, PostKeeps DEF StateInv
  <2>4. SqOnce'
    BY <2>1, SqSame DEF StateInv
  <2>5. Op(o) \in Requests
    BY RequestTypes
  <2> QED
    BY <2>1, <2>3, <2>4, <2>5, KernelFrame
<1> QED
  BY <1>1, <1>2

(* Entering and leaving Ring::wait keeps the invariant. *)
LEMMA WaitKeeps ==
  ASSUME Sound, UNCHANGED submissionVars, Wait \/ EnterReturn \/ WaitReturns
  PROVE  Sound'
<1>1. UNCHANGED <<slab, queues, unused, sq, cq, stage, userData, state, panic>>
  BY DEF Wait, EnterReturn, WaitReturns, completionVars, uringVars, submissionVars
<1> QED
  BY <1>1
     DEF Sound, KeyInv, QueueInv, SqOnce, CqOnce, PushedOnce, Entries, Armed, ArmedEntry,
         UnreadEntry, KeyOf, QueuesPrivate, ResultsPrivate

(* handle_completions finds the entry of every completion it routes by      *)
(* key, and the entry can take it (completion.rs:55, 222 do not panic).     *)
LEMMA ReapKeeps ==
  ASSUME StateInv, Sound, Reap, UNCHANGED submissionVars
  PROVE  Sound'
<1> DEFINE c == Head(cq)
           k == c.userData
           r == Result(c.req.id, c.n, c.more)
<1>1. /\ CqOnce' /\ SqOnce' /\ c \in Cqes
      /\ stage[c.req] \in {"kernel", "cq"} /\ k = userData[c.req]
      /\ c.more => c.req.kind = "op" /\ c.req.id \in Multishot
      /\ \A q \in Requests : stage'[q] = IF q = c.req /\ ~c.more THEN "done" ELSE stage[q]
  BY PopKeeps DEF Reap, StateInv
<1>2. UNCHANGED <<userData, state>> /\ c.req \in Requests /\ k \in Keys \cup {IgnoreKey}
  BY <1>1 DEF Reap, Pop, submissionVars, Cqes
<1>3. PushedOnce'
  <2>1. \A q \in Requests : stage[q] = "none" => stage'[q] = "none"
    BY <1>1
  <2> QED
    BY <1>2, <2>1, RequestTypes DEF Sound, KeyInv, PushedOnce
<1>4. CASE HandleIgnored
  <2>1. UNCHANGED <<slab, queues, unused, panic>> /\ k = IgnoreKey
    BY <1>4 DEF HandleIgnored, completionVars
  <2>2. \A o \in Ops : c.req # Op(o)
    <3>1. \A o \in Ops : stage[Op(o)] \in {"kernel", "cq"} => userData[Op(o)] \in Keys
      BY DEF Sound, KeyInv, Entries, Armed, KeyOf
    <3> QED
      BY <1>1, <2>1, <3>1, UringAssumption
  <2>3. \A o \in Ops : stage'[Op(o)] = stage[Op(o)]
    BY <1>1, <2>2, RequestTypes
  <2>4. Entries'
    BY <1>2, <2>1, <2>3, EntriesKeep
  <2> QED
    BY <1>1, <1>3, <2>1, <2>4 DEF Sound, KeyInv, QueueInv, QueuesPrivate, ResultsPrivate
<1>5. CASE HandleCompletion
  <2>1. k # IgnoreKey /\ k \in Keys
    BY <1>2, <1>5 DEF HandleCompletion
  <2>2. PICK o \in Ops : c.req = Op(o) /\ c.req.id = o
    <3>1. c.req.kind = "op"
      BY <1>1, <1>2, <2>1 DEF StateInv, Tags
    <3> QED
      BY <1>2, <3>1, RequestTypes
  <2>3. KeyOf(o) = k /\ Armed(o) /\ ArmedEntry(o)
    BY <1>1, <2>2 DEF KeyOf, Armed, Sound, KeyInv, Entries
  <2>4. ~NotifyPanics(k)
    BY <2>3 DEF ArmedEntry, NotifyPanics
  <2>5. TryNotify(k, r) /\ panic' = panic
    BY <1>5, <2>4 DEF HandleCompletion
  <2>6. r \in Results /\ r.op = o /\ r.more = c.more /\ c.more \in BOOLEAN
    BY <1>1, <2>2 DEF Cqes, Result, Results
  <2>7. /\ slab[k].state \in {"Vacant", "Multiple"} => r.op = slab[k].waker
        /\ slab[k].state = "Multiple" => slab[k].more
    BY <2>3, <2>6 DEF ArmedEntry
  <2>8. QueueInv'
    <3> HIDE DEF r, k
    <3> QED
      BY <2>1, <2>5, <2>6, <2>7, QueueNotify DEF StateInv, Sound
  <2>9. /\ \A l \in Keys : l # k => slab'[l] = slab[l]
        /\ \/ slab[k].state = "Vacant" /\ c.more /\ slab'[k] = Multiple(slab[k].waker, NextHandle, TRUE)
           \/ slab[k].state = "Vacant" /\ ~c.more /\ slab'[k] = Single(r)
           \/ slab[k].state = "Multiple" /\ slab'[k] = Multiple(slab[k].waker, slab[k].handle, c.more)
           \/ slab[k].state = "Cancelled" /\ slab'[k] = Finished
    <3>1. slab \in [Keys -> Completions]
      BY DEF StateInv, StateOK
    <3>2. NotifyVacant(k, r) \/ NotifyMultiple(k, r) \/ NotifyCancelled(k, r)
      BY <2>5 DEF TryNotify
    <3>3. r.more = c.more
      BY DEF Result
    <3> HIDE DEF r, k
    <3> QED
      BY <2>1, <2>6, <3>1, <3>2, <3>3 DEF NotifyVacant, NotifyMultiple, NotifyCancelled
  <2>10. Armed(o)' <=> c.more
    BY <1>1, <1>2, <2>2, <2>3 DEF Armed
  <2>11. KeyOf(o)' = k
    BY <1>2, <2>3 DEF KeyOf
  <2>12. slab[k].state = "Cancelled" => ~c.more /\ state[o] # "Submitted"
    BY <1>1, <2>2, <2>3 DEF ArmedEntry, Sound, KeyInv, Entries
  <2>13. Armed(o)' => ArmedEntry(o)' /\ slab'[k].state # "Cancelled"
    BY <2>3, <2>9, <2>10, <2>11, <2>12 DEF ArmedEntry, Multiple
  <2>14. state'[o] = "Submitted" /\ ~Armed(o)' => UnreadEntry(o)'
    BY <1>2, <2>3, <2>6, <2>9, <2>10, <2>11, <2>12 DEF ArmedEntry, UnreadEntry, Multiple, Single
  <2>15. \A p \in Ops : p # o => stage'[Op(p)] = stage[Op(p)]
    BY <1>1, <2>2, RequestTypes
  <2>16. Entries'
    <3> HIDE DEF k
    <3> QED
      BY <1>2, <2>1, <2>2, <2>3, <2>9, <2>11, <2>13, <2>14, <2>15, EntriesChange
  <2> QED
    BY <1>1, <1>3, <2>5, <2>8, <2>16 DEF Sound, KeyInv
<1> QED
  BY <1>4, <1>5 DEF Reap

(* The invariant depends on the variables of the reactor only. *)
LEMMA StutterKeeps ==
  ASSUME UNCHANGED vars
  PROVE  panic' = panic /\ (Sound => Sound')
<1>1. UNCHANGED <<slab, queues, unused, sq, cq, stage, userData, state, panic>>
  BY DEF vars, completionVars, uringVars, ringVars, submissionVars
<1> QED
  BY <1>1
     DEF Sound, KeyInv, QueueInv, SqOnce, CqOnce, PushedOnce, Entries, Armed, ArmedEntry,
         UnreadEntry, KeyOf, QueuesPrivate, ResultsPrivate

(* After the panic of a full submission queue nothing moves. *)
LEMMA StoppedIsFinal ==
  ASSUME Stopped, [Next]_vars
  PROVE  UNCHANGED vars
<1> USE DEF Stopped, Running
<1>1. ASSUME NEW o \in Ops, Poll(o) \/ Drop(o)
      PROVE  FALSE
  BY <1>1 DEF Poll, FirstPoll, PollPending, PollFuture, PollStream, Pollable,
              Drop, DropInitial, DropSubmitted, DropCompleted
<1>2. CASE RingStep
  BY <1>2 DEF RingStep, Wait, EnterSubmit, EnterRefused, EnterReturn, Reap, WaitReturns,
              SubmitDetached, KernelCompletes, KernelPostsMore
<1> QED
  BY <1>1, <1>2 DEF Next, Halted

(* The panic of a full submission queue happens while tasks run. *)
LEMMA QueueFullStops ==
  ASSUME panic = "none", [Next]_vars, panic' = "queue_full"
  PROVE  Stopped'
<1> USE DEF Stopped, Running
<1>1. ASSUME NEW o \in Ops, Poll(o) \/ Drop(o)
      PROVE  pc' = "run"
  BY <1>1 DEF Poll, FirstPoll, Submit, PollPending, PollFuture, PollStream, Pollable, ringVars,
              Drop, DropInitial, DropSubmitted, CancelOp, DropCompleted
<1>2. CASE RingStep
  <2>1. panic' = panic \/ (\E d \in Detached : SubmitDetached(d)) \/ HandleCompletion
    BY <1>2 DEF RingStep, Wait, EnterSubmit, EnterRefused, EnterReturn, Reap, WaitReturns,
                HandleIgnored, KernelCompletes, KernelPostsMore, ringVars
  <2>2. HandleCompletion => panic' # "queue_full"
    BY DEF HandleCompletion, BadKey
  <2> QED
    BY <2>1, <2>2 DEF SubmitDetached
<1>3. UNCHANGED vars => panic' = panic
  BY DEF vars, ringVars
<1> QED
  BY <1>1, <1>2, <1>3 DEF Next, Halted

(* Every step keeps the invariant or panics on a full submission queue,     *)
(* when no armed multishot submission is dropped.                           *)
LEMMA SoundNext ==
  ASSUME DropArmed = FALSE, StateInv, Sound, [Next]_vars
  PROVE  panic' = "queue_full" \/ Sound'
<1>1. ASSUME NEW o \in Ops, Poll(o)
      PROVE  panic' = "queue_full" \/ Sound'
  BY <1>1, FirstPollKeeps, PollPendingKeeps, PollResultKeeps DEF Poll
<1>2. ASSUME NEW o \in Ops, Drop(o)
      PROVE  panic' = "queue_full" \/ Sound'
  BY <1>2, DropIdleKeeps, DropSubmittedKeeps DEF Drop
<1>3. ASSUME NEW d \in Detached, SubmitDetached(d), UNCHANGED submissionVars
      PROVE  panic' = "queue_full" \/ Sound'
  BY <1>3, SubmitDetachedKeeps
<1>4. CASE RingStep /\ UNCHANGED submissionVars
  <2>1. CASE Wait \/ EnterReturn \/ WaitReturns
    BY <1>4, <2>1, WaitKeeps
  <2>2. CASE Reap
    BY <1>4, <2>2, ReapKeeps
  <2>3. CASE EnterSubmit \/ EnterRefused
    <3>1. UNCHANGED completionVars
      BY <2>3 DEF EnterSubmit, EnterRefused
    <3> QED
      BY <1>4, <2>3, <3>1, EnterKeeps
  <2>4. CASE (\E r \in Requests : KernelCompletes(r)) \/ (\E o \in Ops : KernelPostsMore(o))
    BY <1>4, <2>4, KernelKeeps
  <2> QED
    BY <1>3, <1>4, <2>1, <2>2, <2>3, <2>4 DEF RingStep
<1>5. CASE UNCHANGED vars
  BY <1>5, StutterKeeps
<1> QED
  BY <1>1, <1>2, <1>4, <1>5 DEF Next, Halted

(* A new ring satisfies the invariant. *)
LEMMA SoundInit ==
  ASSUME Init
  PROVE  Sound
<1> USE DEF Init, InitRing, InitCompletions, InitUring
<1>1. SqOnce /\ CqOnce
  BY EmptySeq DEF SqOnce, CqOnce
<1>2. PushedOnce /\ Entries
  BY RequestTypes DEF PushedOnce, Entries, Armed
<1>3. /\ Len(unused) = InitialQueues
      /\ \A i \in 1 .. InitialQueues : unused[i] = i /\ queues[i] = <<>>
  BY InitialQueuesAssumption
<1>4. QueueInv
  BY <1>3 DEF QueueInv, QueuesPrivate, ResultsPrivate, Finished
<1> QED
  BY <1>1, <1>2, <1>4 DEF Sound, KeyInv

(* The inductive invariant holds as long as no client drops a multishot     *)
(* submission that may still complete: keys, stages, queues and slab        *)
(* entries agree in every reachable state.                                  *)
THEOREM IInvInductive ==
  ASSUME DropArmed = FALSE
  PROVE  Spec => []IInv
<1>1. Init => IInv
  BY InitTypes, SoundInit DEF IInv
<1>2. IInv /\ [Next]_vars => IInv'
  <2> SUFFICES ASSUME IInv, [Next]_vars
               PROVE  Stopped' \/ Sound'
    BY NextTypes DEF IInv
  <2>1. CASE Stopped
    BY <2>1, StoppedIsFinal DEF Stopped, vars, ringVars
  <2>2. CASE Sound
    BY <2>2, SoundNext, QueueFullStops DEF IInv, Sound
  <2> QED
    BY <2>1, <2>2 DEF IInv
<1> QED
  BY <1>1, <1>2, PTL DEF Spec

(* Under the same condition the lookups of with_completion                  *)
(* (completion.rs:55) and the unreachable! arms of try_cancel and           *)
(* try_notify (182, 222) never panic, whatever the number of operations,    *)
(* keys, queues and detached requests.  drop_armed.cfg shows that the       *)
(* condition cannot be left out.                                            *)
THEOREM KeysValid ==
  ASSUME DropArmed = FALSE
  PROVE  Spec => []KeysStayValid
<1>1. IInv => KeysStayValid
  BY DEF IInv, Sound, Stopped, KeysStayValid
<1> QED
  BY <1>1, IInvInductive, PTL
===============================================================================
