------------------------------ MODULE Submission ------------------------------
(***************************************************************************)
(* The clients of the ring: Submission (submission.rs) drives one Op from  *)
(* its first poll to its result, or to its cancellation when it is         *)
(* dropped first.  Composed with the ring, the completion table and the    *)
(* kernel, this is the whole reactor.                                      *)
(*                                                                         *)
(* An operation is either awaited (polled as a Future, which consumes the  *)
(* Op with its result) or streamed (polled as a Stream, which keeps the Op *)
(* until the last result).  A Submission may be dropped at any time, with  *)
(* one exception a run can ask for: with DropArmed = FALSE no client drops *)
(* a multishot submission the kernel may still complete.                   *)
(***************************************************************************)
EXTENDS Ring, FiniteSets

CONSTANTS
  Awaited,        (* The operations polled as a Future.                   *)
  DropArmed       (* May a client drop an armed multishot submission?     *)

ASSUME SubmissionAssumption ==
  /\ Awaited \subseteq Ops
  /\ Ops \ Multishot \subseteq Awaited
  /\ DropArmed \in BOOLEAN

VARIABLES
  state,          (* SubmissionState, or Dropped.                         *)
  delivered,      (* The results each submission has returned, in order.  *)
  takenTwice      (* Submissions that took their Op out a second time.    *)

submissionVars == <<state, delivered, takenTwice>>
vars == <<completionVars, uringVars, ringVars, submissionVars>>

Init ==
  /\ InitRing
  /\ state = [o \in Ops |-> "Initial"]
  /\ delivered = [o \in Ops |-> <<>>]
  /\ takenTwice = {}

(***************************************************************************)
(* poll and poll_next in state Initial: submit.  state.take() has left     *)
(* Initial behind if the submission panics.                                *)
(***************************************************************************)
FirstPoll(o) ==
  /\ Running
  /\ state[o] = "Initial"
  /\ \E k \in Keys : Submit(o, k)
  /\ state' = [state EXCEPT ![o] = IF SqFull THEN "Initial" ELSE "Submitted"]
  /\ UNCHANGED <<delivered, takenTwice>>

(* A submission is polled again until it has returned its value: an awaited *)
(* one once, a streamed one until it is Completed.                          *)
Pollable(o) ==
  /\ Running
  /\ state[o] = "Submitted"
  /\ o \in Awaited => owner[o] = "submission"

(* poll in state Submitted without a result; the task goes pending. *)
PollPending(o) ==
  /\ Pollable(o)
  /\ ~HasResult(KeyOf(o))
  /\ woken' = woken \ {o}
  /\ panic' = IF slab[KeyOf(o)] = Finished THEN "unexpected_key" ELSE panic
  /\ UNCHANGED <<slab, queues, unused, owner, uringVars, counters, pc, want, batch,
                 submissionVars>>

(* Mutant: no result is the last. *)
NextStateForever(r) == "Submitted"

(* The state a poll that returns r leaves behind. *)
NextState(r) == IF r.more THEN "Submitted" ELSE "Completed"

(* Mutant: the stream gives up its Op with its first item. *)
OwnerAfterFirstItem(o, r) == "dropped"

(* poll_next drops the Op with the last item, and only then. *)
OwnerAfterItem(o, r) == IF r.more THEN owner[o] ELSE "dropped"

(* poll with a result: the Op is taken out to produce the value. *)
PollFuture(o) ==
  LET r == NextResult(KeyOf(o))
  IN  /\ o \in Awaited
      /\ Pollable(o)
      /\ HasResult(KeyOf(o))
      /\ TakeResult(KeyOf(o))
      /\ owner' = [owner EXCEPT ![o] = "caller"]
      /\ woken' = woken \ {o}
      /\ delivered' = [delivered EXCEPT ![o] = Append(@, r)]
      /\ state' = [state EXCEPT ![o] = NextState(r)]
      /\ UNCHANGED <<uringVars, ringVars, takenTwice>>

(* poll_next with a result: the Op stays until the last one.  A stream that *)
(* has returned an item is polled again, so its task counts as woken.       *)
PollStream(o) ==
  LET r == NextResult(KeyOf(o))
  IN  /\ o \notin Awaited
      /\ Pollable(o)
      /\ HasResult(KeyOf(o))
      /\ TakeResult(KeyOf(o))
      /\ owner' = [owner EXCEPT ![o] = OwnerAfterItem(o, r)]
      /\ woken' = IF r.more THEN woken \cup {o} ELSE woken \ {o}
      /\ delivered' = [delivered EXCEPT ![o] = Append(@, r)]
      /\ state' = [state EXCEPT ![o] = NextState(r)]
      /\ UNCHANGED <<uringVars, ringVars, takenTwice>>

(***************************************************************************)
(* PinnedDrop: cancel.                                                     *)
(***************************************************************************)
DropInitial(o) ==
  /\ Running
  /\ state[o] = "Initial"
  /\ owner' = [owner EXCEPT ![o] = "dropped"]
  /\ state' = [state EXCEPT ![o] = "Dropped"]
  /\ UNCHANGED <<slab, queues, unused, woken, uringVars, ringVars, delivered, takenTwice>>

DropSubmitted(o) ==
  /\ Running
  /\ state[o] = "Submitted"
  /\ DropArmed \/ o \notin Multishot \/ ~MustCancel(KeyOf(o))
  /\ CancelOp(o)
  /\ takenTwice' = IF owner[o] = "submission" THEN takenTwice ELSE takenTwice \cup {o}
  /\ state' = [state EXCEPT ![o] = "Dropped"]
  /\ UNCHANGED delivered

DropCompleted(o) ==
  /\ Running
  /\ state[o] = "Completed"
  /\ state' = [state EXCEPT ![o] = "Dropped"]
  /\ UNCHANGED <<completionVars, uringVars, ringVars, delivered, takenTwice>>

Poll(o) == FirstPoll(o) \/ PollPending(o) \/ PollFuture(o) \/ PollStream(o)
Drop(o) == DropInitial(o) \/ DropSubmitted(o) \/ DropCompleted(o)

RingStep ==
  \/ Wait \/ EnterSubmit \/ EnterRefused \/ EnterReturn \/ Reap \/ WaitReturns
  \/ \E d \in Detached : SubmitDetached(d)
  \/ \E r \in Requests : KernelCompletes(r)
  \/ \E o \in Ops : KernelPostsMore(o)

(* The program has ended. *)
Halted == panic # "none" /\ UNCHANGED vars

Next ==
  \/ \E o \in Ops : Poll(o) \/ Drop(o)
  \/ RingStep /\ UNCHANGED submissionVars
  \/ Halted

(***************************************************************************)
(* Fairness.  Under the executor, which drains its task queue before every *)
(* wait (executor.rs:64-73), wait is called over and over, and only when   *)
(* every woken submission has been polled.  The kernel consumes what it is *)
(* given and ends every request that was cancelled, has no cancelling      *)
(* entry (these do not block), or is detached.  Nothing makes a live       *)
(* operation complete.                                                     *)
(***************************************************************************)
Drained == \A o \in woken : ~Pollable(o)
DrainBeforeWait == pc = "run" /\ pc' # "run" => Drained

Ends(r) == r.kind = "detached" \/ r.id \in aborted \cup Uncancellable

Fairness ==
  /\ WF_vars(Drained /\ Wait /\ UNCHANGED submissionVars)
  /\ WF_vars((EnterSubmit \/ EnterReturn) /\ UNCHANGED submissionVars)
  /\ WF_vars((Reap \/ WaitReturns) /\ UNCHANGED submissionVars)
  /\ \A r \in Requests : WF_vars(Ends(r) /\ KernelCompletes(r) /\ UNCHANGED submissionVars)
  /\ \A o \in Ops : WF_vars(o \in woken /\ (PollPending(o) \/ PollFuture(o) \/ PollStream(o)))

Spec == Init /\ [][Next]_vars

(* Next, under the executor. *)
FairNext ==
  \/ \E o \in Ops : Poll(o) \/ Drop(o)
  \/ RingStep /\ UNCHANGED submissionVars /\ DrainBeforeWait
  \/ Halted

FairSpec == Init /\ [][FairNext]_vars /\ Fairness

-----------------------------------------------------------------------------
Completions ==
  [state : {"Finished"}]
    \cup [state : {"Vacant"}, waker : Ops]
    \cup [state : {"Single"}, result : Results]
    \cup [state : {"Multiple"}, waker : Ops, handle : 1 .. Len(queues), more : BOOLEAN]
    \cup [state : {"Cancelled"}, cancel : Ops]

StateOK ==
  /\ slab \in [Keys -> Completions]
  /\ queues \in Seq(Seq(Results))
  /\ unused \in Seq(1 .. Len(queues))
  /\ woken \in SUBSET Ops
  /\ owner \in [Ops -> {"submission", "cancellation", "caller", "dropped"}]
  /\ sq \in Seq(Requests)
  /\ cq \in Seq(Cqes)
  /\ stage \in [Requests -> Stages]
  /\ userData \in [Requests -> Keys \cup {IgnoreKey}]
  /\ posted \in [Ops -> 0 .. MaxMore]
  /\ aborted \in SUBSET Ops
  /\ pc \in {"run", "submit", "reap"}
  /\ batch \in 0 .. Len(cq)
  /\ panic \in Panics
  /\ state \in [Ops -> {"Initial", "Submitted", "Completed", "Dropped"}]
  /\ delivered \in [Ops -> Seq(Results)]
  /\ takenTwice \in SUBSET Ops

CountersOK ==
  /\ active \in Nat
  /\ detached \in Nat
  /\ canceled \in Nat
  /\ want \in Nat

(* Type correctness of the reactor's state (Ring, mod.rs:164-173, and        *)
(* CompletionSet, completion.rs:30-33): counters never underflow (they are   *)
(* u32), handles point into the queues, the batch never outruns the queue.   *)
TypeOK == StateOK /\ CountersOK

(***************************************************************************)
(* Safety.                                                                 *)
(***************************************************************************)
(* The lookups of with_completion (expect "unexpected key",                  *)
(* completion.rs:55) and the unreachable! arms of try_cancel and try_notify  *)
(* never fail: every completion the kernel posts, every poll and every drop  *)
(* finds its own entry in the slab.  Only a full submission queue panics.    *)
KeysStayValid == panic \in {"none", "queue_full"}

(* What the safety contract of Op asks for (op/mod.rs:37-45): while the      *)
(* kernel may still read or write through an operation's pointers, its       *)
(* resources are in the Op of its submission or in a live Cancellation.      *)
ResourcesOutliveKernel ==
  \A o \in Ops : stage[Op(o)] \in {"sq", "kernel"} => owner[o] \in {"submission", "cancellation"}

(* An Op is moved out of its ManuallyDrop once: by its last result or by the *)
(* cancellation (submission.rs:71 and 101), never by both.                   *)
OpTakenOnce == takenTwice = {}

(* A submission with a result to return has its task woken since that task   *)
(* last went pending, though results arrive while tasks do not run and a     *)
(* poll takes one result of many (completion.rs:187-246).                    *)
NoLostWakeup ==
  \A o \in Ops :
    /\ state[o] = "Submitted"
    /\ o \in Awaited => owner[o] = "submission"
    /\ HasResult(KeyOf(o))
    => o \in woken

(* active counts the operations, and detached everything else, whose last    *)
(* completion has not been consumed (ring/mod.rs:223, 243, 264, 316, 322).   *)
Outstanding == {r \in Requests : stage[r] \in {"sq", "kernel", "cq"}}
OutstandingOps == {r \in Outstanding : r.kind = "op"}

CountersExact ==
  panic = "none" =>
    /\ active = Cardinality(OutstandingOps)
    /\ detached = Cardinality(Outstanding \ OutstandingOps)

(* wait never asks for completions that need not come (ring/mod.rs:285-293): *)
(* beyond those posted and those of detached, cancelled and cancelling       *)
(* requests it asks for one more, and only when an operation is live.        *)
Settled ==
  {r \in Outstanding :
     /\ stage[r] # "cq"
     /\ r.kind = "op" => r.id \in Uncancellable \/ stage[Cancel(r.id)] # "none"}

LiveOps == {o \in Ops : stage[Op(o)] \in {"sq", "kernel"} /\ Op(o) \notin Settled}

WaitIsAnswerable ==
  pc = "submit" =>
    want <= Len(cq) + Cardinality(Settled) + (IF LiveOps = {} THEN 0 ELSE 1)

(* An AsyncCancel names its target by key, and keys are reused: it never     *)
(* reaches an operation that has not itself been dropped (mod.rs:251-267).   *)
CancelHitsItsTarget == \A o \in aborted : state[o] = "Dropped"

(* Ring::is_done (mod.rs:192-204) says exactly that every sqe has completed, *)
(* every cqe is consumed and no submission is waiting: no entry of the slab  *)
(* and no result queue leaks.                                                *)
IsDoneIsExact ==
  panic = "none" =>
    (IsDone <=> /\ Outstanding = {}
                /\ \A o \in Ops : state[o] # "Submitted")

(* What the comment on Ring::wait says, "Blocks until one ore more           *)
(* completions" (mod.rs:274): once a completion that wakes a task is posted, *)
(* wait does not go on blocking.                                             *)
WakesSomeone(c) == c.userData # IgnoreKey /\ slab[c.userData].state \in {"Vacant", "Multiple"}

BlocksUntilOneCompletion ==
  (pc = "submit" /\ sq = <<>> /\ \E i \in 1 .. Len(cq) : WakesSomeone(cq[i]))
    => Len(cq) >= want

(***************************************************************************)
(* Action properties.                                                      *)
(***************************************************************************)
(* Dropping a submission drops its waker (completion.rs:155 and 173): a      *)
(* dropped one is never woken by the late completion of its operation.       *)
DroppedNeverWoken ==
  [][\A o \in Ops : state[o] = "Dropped" /\ o \in woken' => o \in woken]_vars

(***************************************************************************)
(* The reactor implements private mailboxes: results are neither lost,     *)
(* duplicated, reordered nor handed to another submission, in spite of     *)
(* reused keys and reused result queues.                                   *)
(***************************************************************************)
PhaseOf(o) ==
  LET c == slab[KeyOf(o)]
  IN  CASE state[o] = "Initial"   -> "idle"
        [] state[o] = "Dropped"   -> "dropped"
        [] state[o] = "Completed" -> "sealed"
        [] OTHER -> IF c.state = "Vacant" \/ (c.state = "Multiple" /\ c.more)
                      THEN "open" ELSE "sealed"

BoxOf(o) ==
  LET c == slab[KeyOf(o)]
  IN  CASE state[o] = "Submitted" /\ c.state = "Single"   -> <<c.result>>
        [] state[o] = "Submitted" /\ c.state = "Multiple" -> queues[c.handle]
        [] OTHER -> <<>>

Promise == INSTANCE Mailbox WITH
  phase <- [o \in Ops |-> PhaseOf(o)],
  box   <- [o \in Ops |-> BoxOf(o)],
  got   <- delivered

RefinesMailbox == Promise!Spec

(***************************************************************************)
(* Liveness.                                                               *)
(***************************************************************************)
(* The last completion of a waiting submission is returned by it, unless it  *)
(* is dropped: wait is not held up for ever by the completions it asked for. *)
CompletionReachesItsTask ==
  \A o \in Ops :
    (state[o] = "Submitted" /\ stage[Op(o)] = "cq")
      ~> (state[o] # "Submitted" \/ panic # "none")

(* Once every submission is dropped the reactor drains: all operations end,  *)
(* all cancellations are dropped, and is_done becomes true.                  *)
Drains ==
  (\A o \in Ops : state[o] = "Dropped") ~> (IsDone \/ panic # "none")
===============================================================================
