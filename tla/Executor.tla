------------------------------- MODULE Executor -------------------------------
(***************************************************************************)
(* The single-threaded executor (inel-executor): a queue of reference-     *)
(* counted tasks, hand-written wakers over Rc<Task>, join handles, and the *)
(* loop that polls every queued task before it waits for the reactor.      *)
(*                                                                         *)
(* The future of a task is arbitrary: between the start and the end of a   *)
(* poll it may submit events to the reactor, abandon or take them, poll or *)
(* drop join handles, spawn tasks and wake itself, in any order.  The      *)
(* reactor is reduced to what the executor sees of it: a submitted event   *)
(* holds a clone of the waker until it fires, wait returns at once when    *)
(* nothing is outstanding and otherwise after at least one completion.     *)
(***************************************************************************)
EXTENDS Integers, Sequences, FiniteSets

CONSTANTS
  Tasks,          (* Every task is spawned at most once.                  *)
  Root,           (* The task of block_on.                                *)
  Events,         (* What tasks submit to the reactor; reusable.          *)
  MaxYields,      (* Bound: how often a task wakes itself.                *)
  None

ASSUME ExecutorAssumption ==
  /\ Root \in Tasks
  /\ MaxYields \in Nat
  /\ None \notin Tasks
  /\ Tasks \cap {"free", "caller", "gone"} = {}

VARIABLES
  queue,          (* The task queue: each entry is an Rc<Task>.           *)
  scheduled,      (* Task.scheduled                                       *)
  refs,           (* The strong count of each Rc<Task>.                   *)
  future,         (* none, pending, complete, or dropped while pending.   *)
  output,         (* The oneshot of each task: empty, sent or closed.     *)
  handle,         (* The task that joins this one, or free, caller, gone. *)
  joiner,         (* The waker registered in each oneshot.                *)
  event,          (* idle, armed, aborting or fired.                      *)
  owner,          (* The task whose submission an event is.               *)
  posted,         (* The events the kernel has completed.                 *)
  batch,          (* Those of them wait has left to handle.               *)
  pc,             (* Where the thread is.                                 *)
  current,        (* The task being polled.                               *)
  yields,
  unpolled        (* Woken since their last poll began.                   *)

taskVars == <<queue, scheduled, refs, unpolled>>
joinVars == <<output, handle, joiner>>
eventVars == <<event, owner, posted>>
loopVars == <<batch, pc, current>>
vars == <<taskVars, future, joinVars, eventVars, loopVars, yields>>

Init ==
  /\ queue = <<>>
  /\ scheduled = [t \in Tasks |-> FALSE]
  /\ refs = [t \in Tasks |-> 0]
  /\ future = [t \in Tasks |-> "none"]
  /\ output = [t \in Tasks |-> "empty"]
  /\ handle = [t \in Tasks |-> "free"]
  /\ joiner = [t \in Tasks |-> None]
  /\ event = [e \in Events |-> "idle"]
  /\ owner = [e \in Events |-> None]
  /\ posted = {}
  /\ batch = {}
  /\ pc = "start"
  /\ current = None
  /\ yields = [t \in Tasks |-> 0]
  /\ unpolled = {}

(***************************************************************************)
(* Task::schedule, and the entries of the waker's vtable on the reference  *)
(* count: a queued task owns one reference.                                *)
(***************************************************************************)
(* Mutant: the flag is not looked at. *)
EnqueueAlways(t) == queue' = Append(queue, t) /\ scheduled' = [scheduled EXCEPT ![t] = TRUE]

Enqueue(t) ==
  /\ scheduled' = [scheduled EXCEPT ![t] = TRUE]
  /\ queue' = IF scheduled[t] THEN queue ELSE Append(queue, t)

Queued(t) == IF scheduled[t] THEN 0 ELSE 1

(* TaskQueue::schedule: the local Rc is dropped, the queue's one stays. *)
NewTask(t) ==
  /\ Enqueue(t)
  /\ refs' = [refs EXCEPT ![t] = 1]
  /\ unpolled' = unpolled \cup {t}

(* Mutant: without the forget, the reference that was only borrowed is lost. *)
WakeByRefDrops(t) ==
  /\ Enqueue(t)
  /\ refs' = [refs EXCEPT ![t] = (@ + Queued(t)) - 1]
  /\ unpolled' = unpolled \cup {t}

(* Mutant: a task that is being polled is not queued. *)
WakeByRefUnlessPolled(t) ==
  /\ unpolled' = unpolled \cup {t}
  /\ IF t = current
       THEN UNCHANGED <<queue, scheduled, refs>>
       ELSE Enqueue(t) /\ refs' = [refs EXCEPT ![t] = @ + Queued(t)]

WakeByRef(t) ==
  /\ Enqueue(t)
  /\ refs' = [refs EXCEPT ![t] = @ + Queued(t)]
  /\ unpolled' = unpolled \cup {t}

(* wake consumes the waker, and so does wake_by_ref followed by its drop. *)
Wake(t) ==
  /\ Enqueue(t)
  /\ refs' = [refs EXCEPT ![t] = (@ + Queued(t)) - 1]
  /\ unpolled' = unpolled \cup {t}

(* Mutant: a clone that does not count. *)
CloneWakerUncounted(t) == UNCHANGED taskVars

CloneWaker(t) == refs' = [refs EXCEPT ![t] = @ + 1] /\ UNCHANGED <<queue, scheduled, unpolled>>
DropWaker(t)  == refs' = [refs EXCEPT ![t] = @ - 1] /\ UNCHANGED <<queue, scheduled, unpolled>>

(***************************************************************************)
(* The loop of Executor::run, entered by block_on.                         *)
(***************************************************************************)
(* A task spawned before block_on is called. *)
SpawnBefore(t) ==
  /\ pc = "start"
  /\ t # Root
  /\ future[t] = "none"
  /\ NewTask(t)
  /\ future' = [future EXCEPT ![t] = "pending"]
  /\ UNCHANGED <<joinVars, eventVars, loopVars, yields>>

BlockOn ==
  /\ pc = "start"
  /\ NewTask(Root)
  /\ future' = [future EXCEPT ![Root] = "pending"]
  /\ handle' = [handle EXCEPT ![Root] = "caller"]
  /\ pc' = "check"
  /\ UNCHANGED <<output, joiner, eventVars, batch, current, yields>>

(* Mutant: done when no task is runnable. *)
IsDoneWhenIdle == queue = <<>>

(* TaskQueue::is_done: every task, with its clone of the sender, is freed. *)
IsDone == \A t \in Tasks : refs[t] = 0

(* ... and then the output of the root is there, or block_on panics. *)
Check ==
  /\ pc = "check"
  /\ pc' = IF ~IsDone THEN "drain" ELSE IF output[Root] = "sent" THEN "returned" ELSE "panicked"
  /\ UNCHANGED <<taskVars, future, joinVars, eventVars, batch, current, yields>>

(* Mutant: the flag is left set while the task is polled. *)
StartPollStillScheduled ==
  /\ pc = "drain"
  /\ queue # <<>>
  /\ queue' = Tail(queue)
  /\ current' = Head(queue)
  /\ refs' = [refs EXCEPT ![Head(queue)] = @ + 1]
  /\ unpolled' = unpolled \ {Head(queue)}
  /\ pc' = "poll"
  /\ UNCHANGED <<scheduled, future, joinVars, eventVars, batch, yields>>

(* One iteration of the drain: the entry of the queue moves to the loop, a  *)
(* clone of it becomes the waker, and Task::poll clears the flag first.     *)
StartPoll ==
  /\ pc = "drain"
  /\ queue # <<>>
  /\ queue' = Tail(queue)
  /\ current' = Head(queue)
  /\ scheduled' = [scheduled EXCEPT ![Head(queue)] = FALSE]
  /\ refs' = [refs EXCEPT ![Head(queue)] = @ + 1]
  /\ unpolled' = unpolled \ {Head(queue)}
  /\ pc' = "poll"
  /\ UNCHANGED <<future, joinVars, eventVars, batch, yields>>

(***************************************************************************)
(* What the future of the current task does while it is polled.            *)
(***************************************************************************)
Polling(t) == pc = "poll" /\ current = t /\ future[t] = "pending"

(* Submission::poll submits with a clone of the waker. *)
Submit(t, e) ==
  /\ Polling(t)
  /\ event[e] = "idle"
  /\ CloneWaker(t)
  /\ event' = [event EXCEPT ![e] = "armed"]
  /\ owner' = [owner EXCEPT ![e] = t]
  /\ UNCHANGED <<posted, future, joinVars, loopVars, yields>>

(* Submission::poll returns the result. *)
TakeResult(t, e) ==
  /\ Polling(t)
  /\ owner[e] = t /\ event[e] = "fired"
  /\ event' = [event EXCEPT ![e] = "idle"]
  /\ owner' = [owner EXCEPT ![e] = None]
  /\ UNCHANGED <<posted, taskVars, future, joinVars, loopVars, yields>>

(* Mutant: the waker of a dropped submission is forgotten. *)
AbandonLeaks(t, e) ==
  /\ Polling(t)
  /\ owner[e] = t /\ event[e] = "armed"
  /\ event' = [event EXCEPT ![e] = "aborting"]
  /\ owner' = [owner EXCEPT ![e] = None]
  /\ UNCHANGED <<taskVars, posted, future, joinVars, loopVars, yields>>

(* A submission is dropped: the reactor drops the waker with it. *)
Abandon(t, e) ==
  /\ Polling(t)
  /\ owner[e] = t
  /\ \/ event[e] = "armed" /\ DropWaker(t) /\ event' = [event EXCEPT ![e] = "aborting"]
     \/ event[e] = "fired" /\ UNCHANGED taskVars /\ event' = [event EXCEPT ![e] = "idle"]
  /\ owner' = [owner EXCEPT ![e] = None]
  /\ UNCHANGED <<posted, future, joinVars, loopVars, yields>>

(* JoinHandle::join: the first poll moves the handle into the task. *)
Join(t, u) ==
  /\ Polling(t)
  /\ future[u] # "none"
  /\ handle[u] \in {"free", t}
  /\ \/ /\ output[u] = "empty"
        /\ IF joiner[u] = t THEN UNCHANGED taskVars ELSE CloneWaker(t)
        /\ joiner' = [joiner EXCEPT ![u] = t]
        /\ handle' = [handle EXCEPT ![u] = t]
     \/ /\ output[u] # "empty"
        /\ handle' = [handle EXCEPT ![u] = "gone"]
        /\ UNCHANGED <<taskVars, joiner>>
  /\ UNCHANGED <<output, future, eventVars, loopVars, yields>>

(* JoinHandle::detach, or a handle dropped: its oneshot forgets the waker. *)
DropHandle(t, u) ==
  /\ Polling(t)
  /\ future[u] # "none"
  /\ handle[u] \in {"free", t}
  /\ IF joiner[u] = t THEN DropWaker(t) ELSE UNCHANGED taskVars
  /\ joiner' = [joiner EXCEPT ![u] = None]
  /\ handle' = [handle EXCEPT ![u] = "gone"]
  /\ UNCHANGED <<output, future, eventVars, loopVars, yields>>

Spawn(t, u) ==
  /\ Polling(t)
  /\ future[u] = "none"
  /\ NewTask(u)
  /\ future' = [future EXCEPT ![u] = "pending"]
  /\ UNCHANGED <<joinVars, eventVars, loopVars, yields>>

WakeSelf(t) ==
  /\ Polling(t)
  /\ yields[t] < MaxYields
  /\ WakeByRef(t)
  /\ yields' = [yields EXCEPT ![t] = @ + 1]
  /\ UNCHANGED <<future, joinVars, eventVars, loopVars>>

Owns(t) == (\E e \in Events : owner[e] = t) \/ (\E u \in Tasks : handle[u] = t)

(* The future is ready, all it held is dropped, and spawn's wrapper sends   *)
(* the result; unless nobody can receive it, the joiner is woken.           *)
Finish(t) ==
  /\ Polling(t)
  /\ ~Owns(t)
  /\ future' = [future EXCEPT ![t] = "complete"]
  /\ output' = [output EXCEPT ![t] = "sent"]
  /\ IF joiner[t] = None THEN UNCHANGED taskVars ELSE Wake(joiner[t])
  /\ joiner' = [joiner EXCEPT ![t] = None]
  /\ UNCHANGED <<handle, eventVars, loopVars, yields>>

(***************************************************************************)
(* The end of an iteration: the waker and the loop's Rc are dropped.  With *)
(* the last reference the task is freed, and a future that is still        *)
(* pending with it: nothing could have woken it any more.                  *)
(***************************************************************************)
EndPoll(t) ==
  /\ pc = "poll" /\ current = t
  /\ refs[t] > 2 \/ future[t] = "complete"
  /\ refs' = [refs EXCEPT ![t] = @ - 2]
  /\ pc' = "drain"
  /\ current' = None
  /\ UNCHANGED <<queue, scheduled, unpolled, future, joinVars, eventVars, batch, yields>>

(* Dropping the pending future drops its submissions, the handles it holds, *)
(* and its own sender, which wakes the joiner with None.                    *)
EndPollForgotten(t) ==
  LET j == joiner[t]
  IN  /\ pc = "poll" /\ current = t
      /\ refs[t] <= 2 /\ future[t] = "pending"
      /\ IF j = None
           THEN refs' = [refs EXCEPT ![t] = @ - 2] /\ UNCHANGED <<queue, scheduled, unpolled>>
           ELSE /\ Enqueue(j)
                /\ refs' = [refs EXCEPT ![t] = @ - 2, ![j] = (@ + Queued(j)) - 1]
                /\ unpolled' = unpolled \cup {j}
      /\ future' = [future EXCEPT ![t] = "dropped"]
      /\ output' = [output EXCEPT ![t] = "closed"]
      /\ joiner' = [joiner EXCEPT ![t] = None]
      /\ handle' = [u \in Tasks |-> IF handle[u] = t THEN "gone" ELSE handle[u]]
      /\ event' = [e \in Events |-> IF owner[e] = t THEN "idle" ELSE event[e]]
      /\ owner' = [e \in Events |-> IF owner[e] = t THEN None ELSE owner[e]]
      /\ pc' = "drain"
      /\ current' = None
      /\ UNCHANGED <<posted, batch, yields>>

(***************************************************************************)
(* Reactor::wait, once the queue is empty.                                 *)
(***************************************************************************)
Outstanding == {e \in Events : event[e] \in {"armed", "aborting"}}

(* Mutant: the reactor is waited for after each poll. *)
EnterWaitEarly ==
  /\ pc = "drain"
  /\ pc' = IF Outstanding = {} THEN "check" ELSE "blocked"
  /\ UNCHANGED <<taskVars, future, joinVars, eventVars, batch, current, yields>>

(* Mutant: wait returns at once when only aborted events are outstanding. *)
EnterWaitForArmed ==
  /\ pc = "drain"
  /\ queue = <<>>
  /\ pc' = IF \E e \in Events : event[e] = "armed" THEN "blocked" ELSE "check"
  /\ UNCHANGED <<taskVars, future, joinVars, eventVars, batch, current, yields>>

EnterWait ==
  /\ pc = "drain"
  /\ queue = <<>>
  /\ pc' = IF Outstanding = {} THEN "check" ELSE "blocked"
  /\ UNCHANGED <<taskVars, future, joinVars, eventVars, batch, current, yields>>

KernelPosts(e) ==
  /\ e \in Outstanding \ posted
  /\ posted' = posted \cup {e}
  /\ UNCHANGED <<taskVars, future, joinVars, event, owner, loopVars, yields>>

WaitWakes ==
  /\ pc = "blocked"
  /\ posted # {}
  /\ batch' = posted
  /\ pc' = "reap"
  /\ UNCHANGED <<taskVars, future, joinVars, eventVars, current, yields>>

Notify(e) ==
  /\ pc = "reap"
  /\ e \in batch
  /\ batch' = batch \ {e}
  /\ posted' = posted \ {e}
  /\ \/ /\ event[e] = "armed"
        /\ Wake(owner[e])
        /\ event' = [event EXCEPT ![e] = "fired"]
     \/ /\ event[e] = "aborting"
        /\ event' = [event EXCEPT ![e] = "idle"]
        /\ UNCHANGED taskVars
  /\ UNCHANGED <<owner, future, joinVars, pc, current, yields>>

WaitReturns ==
  /\ pc = "reap"
  /\ batch = {}
  /\ pc' = "check"
  /\ UNCHANGED <<taskVars, future, joinVars, eventVars, batch, current, yields>>

(* block_on has returned, or panicked. *)
Stopped == pc \in {"returned", "panicked"} /\ UNCHANGED vars

Client(t) ==
  \/ \E e \in Events : Submit(t, e) \/ TakeResult(t, e) \/ Abandon(t, e)
  \/ \E u \in Tasks : Join(t, u) \/ DropHandle(t, u) \/ Spawn(t, u)
  \/ WakeSelf(t)
  \/ Finish(t)

Loop ==
  \/ Check \/ StartPoll
  \/ \E t \in Tasks : EndPoll(t) \/ EndPollForgotten(t)
  \/ EnterWait \/ WaitWakes \/ WaitReturns
  \/ \E e \in Events : Notify(e)

Next ==
  \/ \E t \in Tasks : SpawnBefore(t) \/ Client(t)
  \/ BlockOn
  \/ Loop
  \/ \E e \in Events : KernelPosts(e)
  \/ Stopped

(* The thread runs: block_on is called, every poll of a future returns, and *)
(* the loop goes on.  Nothing makes the kernel complete an event.           *)
Fairness == WF_vars(BlockOn) /\ WF_vars(Loop)

Spec == Init /\ [][Next]_vars
FairSpec == Spec /\ Fairness

-----------------------------------------------------------------------------
StateOK ==
  /\ queue \in Seq(Tasks)
  /\ scheduled \in [Tasks -> BOOLEAN]
  /\ refs \in [Tasks -> Int]
  /\ future \in [Tasks -> {"none", "pending", "complete", "dropped"}]
  /\ output \in [Tasks -> {"empty", "sent", "closed"}]
  /\ handle \in [Tasks -> Tasks \cup {"free", "caller", "gone"}]
  /\ joiner \in [Tasks -> Tasks \cup {None}]
  /\ event \in [Events -> {"idle", "armed", "aborting", "fired"}]
  /\ owner \in [Events -> Tasks \cup {None}]
  /\ posted \in SUBSET Events
  /\ batch \in SUBSET posted
  /\ pc \in {"start", "check", "drain", "poll", "blocked", "reap", "returned", "panicked"}
  /\ current \in Tasks \cup {None}
  /\ pc = "poll" <=> current # None
  /\ yields \in [Tasks -> 0 .. MaxYields]
  /\ unpolled \in SUBSET Tasks

(* Type correctness of the executor's state (executor.rs:12-14,              *)
(* task.rs:13-17): only a task polls, only a posted event is being handled,  *)
(* and no strong count underflows.                                           *)
TypeOK == StateOK /\ \A t \in Tasks : refs[t] >= 0

(***************************************************************************)
(* Safety.                                                                 *)
(***************************************************************************)
InQueue(t) == \E i \in 1 .. Len(queue) : queue[i] = t

(* Task::schedule's flag (task.rs:25-29): a task is in the queue at most     *)
(* once, and exactly when its flag is set, whoever wakes it and whenever.    *)
QueueExact ==
  /\ \A t \in Tasks : scheduled[t] <=> InQueue(t)
  /\ \A i, j \in 1 .. Len(queue) : queue[i] = queue[j] => i = j

(* A task that was woken since its last poll began is queued: a wake that    *)
(* comes while the task is being polled is not lost (task.rs:20-23).         *)
WakesAreQueued == \A t \in unpolled : InQueue(t)

(* The unsafe vtable of the waker (waker.rs:20-40) keeps the strong count    *)
(* of every task equal to the references that exist: in the queue, in the    *)
(* loop and its waker, in the reactor and in the oneshots.                   *)
Waits(t) == {e \in Events : owner[e] = t /\ event[e] = "armed"}
Joins(t) == {u \in Tasks : joiner[u] = t}

Holders(t) ==
  (IF InQueue(t) THEN 1 ELSE 0) + (IF current = t THEN 2 ELSE 0)
    + Cardinality(Waits(t)) + Cardinality(Joins(t))

RefsExact == \A t \in Tasks : refs[t] = Holders(t)

(* The thread never blocks in wait while a task has been woken and not been  *)
(* polled (executor.rs:66-72).                                               *)
BlocksOnlyWhenIdle == pc = "blocked" => unpolled = {}

(* run ends when every task is freed, not when none is runnable              *)
(* (executor.rs:64, task.rs:60): whatever was spawned before or meanwhile    *)
(* has completed, or can never be woken again.                               *)
RunsEveryTask ==
  pc \in {"returned", "panicked"} => \A t \in Tasks : future[t] # "pending"

(* Wakers belong to tasks that exist; the one in a oneshot is its holder's.  *)
Links ==
  /\ \A e \in Events : event[e] = "armed" => owner[e] \in Tasks
  /\ \A e \in Events : owner[e] # None => event[e] \in {"armed", "fired"}
  /\ \A u \in Tasks : joiner[u] # None =>
       joiner[u] = handle[u] /\ output[u] = "empty" /\ future[u] # "none"
  /\ \A t \in Tasks : future[t] = "none" => refs[t] = 0
  /\ pc = "start" => future[Root] = "none"

(* A pending task is held: freeing it drops its future.                      *)
PendingHeld == \A t \in Tasks : future[t] = "pending" => refs[t] > 0

(* The inductive invariant. *)
ExecInv ==
  /\ StateOK /\ QueueExact /\ WakesAreQueued /\ BlocksOnlyWhenIdle
  /\ Links /\ RefsExact /\ PendingHeld /\ RunsEveryTask

(***************************************************************************)
(* Action properties.                                                      *)
(***************************************************************************)
(* A future is dropped unfinished only when nothing can wake it: no event    *)
(* and no oneshot holds its waker, and it is not queued.                     *)
DroppedOnlyWhenForgotten ==
  [][\A t \in Tasks :
       future[t] = "pending" /\ future'[t] = "dropped" =>
         /\ ~InQueue(t)
         /\ \A u \in Tasks : joiner[u] # t
         /\ \A e \in Events : owner[e] = t => event[e] = "fired"]_vars

(***************************************************************************)
(* Liveness.                                                               *)
(***************************************************************************)
(* Every wake is followed by a poll that begins after it. *)
EveryWakeIsPolled == \A t \in Tasks : t \in unpolled ~> t \notin unpolled

(* A completion the kernel has posted is handled: the drain of the queue,    *)
(* which goes on as long as tasks wake tasks (executor.rs:66), ends when no  *)
(* task wakes itself for ever, and wait is then called until run ends.       *)
CompletionIsHandled ==
  \A e \in Events : e \in posted ~> e \notin posted \/ pc \in {"returned", "panicked"}

(* What the message of block_on's expect supposes, "Failed to complete       *)
(* future. Deadlock maybe?" (executor.rs:57): when nothing is runnable and   *)
(* nothing is outstanding, run ends and block_on reports it.                 *)
Deadlocked == pc \in {"check", "drain"} /\ queue = <<>> /\ Outstanding = {}

DeadlockIsReported == Deadlocked ~> pc \in {"returned", "panicked"}
===============================================================================
