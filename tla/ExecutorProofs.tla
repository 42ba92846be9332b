----------------------------- MODULE ExecutorProofs -----------------------------
(***************************************************************************)
(* The invariants of the executor hold for any number of tasks and events: *)
(* first the queue with its flags, then the reference counts.              *)
(***************************************************************************)
EXTENDS Executor, SequenceTheorems, FiniteSetTheorems, TLAPS

(* The part of the state the wakers work on. *)
TaskTypes ==
  /\ queue \in Seq(Tasks)
  /\ scheduled \in [Tasks -> BOOLEAN]
  /\ refs \in [Tasks -> Int]
  /\ unpolled \in SUBSET Tasks

QueueInv == TaskTypes /\ QueueExact /\ WakesAreQueued

(* Task::schedule adds the task to the queue unless it is there already.    *)
LEMMA EnqueueKeeps ==
  ASSUME TaskTypes, QueueExact, NEW t \in Tasks, Enqueue(t)
  PROVE  /\ queue' \in Seq(Tasks)
         /\ scheduled' \in [Tasks -> BOOLEAN]
         /\ QueueExact'
         /\ \A u \in Tasks : InQueue(u)' <=> InQueue(u) \/ u = t
<1>1. CASE scheduled[t]
  BY <1>1 DEF TaskTypes, QueueExact, Enqueue, InQueue
<1>2. CASE ~scheduled[t]
  <2>1. queue' = Append(queue, t) /\ scheduled' = [scheduled EXCEPT ![t] = TRUE]
    BY <1>2 DEF Enqueue
  <2>2. /\ Len(queue) \in Nat
        /\ queue' \in Seq(Tasks)
        /\ Len(queue') = Len(queue) + 1
        /\ \A i \in 1 .. Len(queue) : queue'[i] = queue[i]
        /\ queue'[Len(queue) + 1] = t
    BY <2>1, AppendProperties DEF TaskTypes
  <2>3. \A u \in Tasks : InQueue(u)' <=> InQueue(u) \/ u = t
    BY <2>2 DEF InQueue
  <2>4. \A i \in 1 .. Len(queue) : queue[i] # t
    BY <1>2 DEF QueueExact, InQueue
  <2>5. \A i, j \in 1 .. Len(queue') : queue'[i] = queue'[j] => i = j
    BY <2>2, <2>4 DEF QueueExact
  <2>6. \A u \in Tasks : scheduled'[u] <=> InQueue(u)'
    BY <2>1, <2>3 DEF QueueExact, TaskTypes
  <2> QED
    BY <2>1, <2>2, <2>3, <2>5, <2>6 DEF QueueExact, TaskTypes
<1> QED
  BY <1>1, <1>2

(* Whatever wakes a task leaves it in the queue, once, with its flag set,   *)
(* and touches the strong count of no other task.                           *)
LEMMA WakeKeeps ==
  ASSUME QueueInv, NEW t \in Tasks, NewTask(t) \/ WakeByRef(t) \/ Wake(t)
  PROVE  /\ QueueInv'
         /\ \A u \in Tasks : InQueue(u)' <=> InQueue(u) \/ u = t
         /\ \A u \in Tasks \ {t} : refs'[u] = refs[u]
<1>1. Enqueue(t) /\ unpolled' = unpolled \cup {t}
  BY DEF NewTask, WakeByRef, Wake
<1>2. /\ queue' \in Seq(Tasks)
      /\ scheduled' \in [Tasks -> BOOLEAN]
      /\ QueueExact'
      /\ \A u \in Tasks : InQueue(u)' <=> InQueue(u) \/ u = t
  BY <1>1, EnqueueKeeps DEF QueueInv
<1>3. Queued(t) \in Int
  BY DEF Queued
<1>4. refs' \in [Tasks -> Int] /\ \A u \in Tasks \ {t} : refs'[u] = refs[u]
  BY <1>3 DEF QueueInv, TaskTypes, NewTask, WakeByRef, Wake
<1>5. WakesAreQueued'
  BY <1>1, <1>2 DEF QueueInv, TaskTypes, WakesAreQueued
<1> QED
  BY <1>1, <1>2, <1>4, <1>5 DEF QueueInv, TaskTypes

(* StartPoll takes the head of the queue with its flag and its wakes.       *)
LEMMA StartPollKeeps ==
  ASSUME QueueInv, StartPoll
  PROVE  /\ QueueInv'
         /\ Head(queue) \in Tasks
         /\ \A u \in Tasks : InQueue(u)' <=> InQueue(u) /\ u # Head(queue)
         /\ InQueue(Head(queue))
<1>1. /\ queue \in Seq(Tasks) /\ queue # <<>> /\ Len(queue) \in Nat
      /\ queue' = Tail(queue)
      /\ scheduled' = [scheduled EXCEPT ![Head(queue)] = FALSE]
  BY DEF StartPoll, QueueInv, TaskTypes
<1>2. /\ Head(queue) \in Tasks /\ Head(queue) = queue[1]
      /\ queue' \in Seq(Tasks)
      /\ Len(queue') = Len(queue) - 1 /\ Len(queue) >= 1
      /\ \A i \in 1 .. Len(queue') : queue'[i] = queue[i + 1]
  BY <1>1, HeadTailProperties, EmptySeq
<1>3. \A i \in 1 .. Len(queue') : i + 1 \in 1 .. Len(queue) /\ i + 1 # 1
  BY <1>1, <1>2
<1>4. \A i, j \in 1 .. Len(queue) : queue[i] = queue[j] => i = j
  BY DEF QueueInv, QueueExact
<1>5. \A i \in 1 .. Len(queue) : i # 1 => i - 1 \in 1 .. Len(queue') /\ queue'[i - 1] = queue[i]
  BY <1>1, <1>2
<1>6. \A u \in Tasks : InQueue(u)' <=> InQueue(u) /\ u # Head(queue)
  <2> SUFFICES ASSUME NEW u \in Tasks
               PROVE  InQueue(u)' <=> InQueue(u) /\ u # Head(queue)
    OBVIOUS
  <2>1. InQueue(u)' => InQueue(u) /\ u # Head(queue)
    BY <1>1, <1>2, <1>3, <1>4 DEF InQueue
  <2>2. InQueue(u) /\ u # Head(queue) => InQueue(u)'
    BY <1>2, <1>5 DEF InQueue
  <2> QED
    BY <2>1, <2>2
<1>7. \A i, j \in 1 .. Len(queue') : queue'[i] = queue'[j] => i = j
  BY <1>2, <1>3, <1>4
<1>8. \A u \in Tasks : scheduled'[u] <=> InQueue(u)'
  BY <1>1, <1>2, <1>6 DEF QueueInv, QueueExact, TaskTypes
<1>9. InQueue(Head(queue))
  BY <1>1, <1>2 DEF InQueue
<1>10. TaskTypes'
  BY <1>1, <1>2 DEF StartPoll, QueueInv, TaskTypes
<1>11. WakesAreQueued'
  BY <1>6 DEF StartPoll, QueueInv, TaskTypes, WakesAreQueued
<1> QED
  BY <1>2, <1>6, <1>7, <1>8, <1>9, <1>10, <1>11 DEF QueueInv, QueueExact

(* EndPollForgotten wakes the joiner of the task it frees, if there is one. *)
LEMMA ForgottenKeeps ==
  ASSUME QueueInv, NEW t \in Tasks, joiner[t] \in Tasks \cup {None}, EndPollForgotten(t)
  PROVE  /\ QueueInv'
         /\ \A u \in Tasks : InQueue(u)' <=> InQueue(u) \/ u = joiner[t]
<1>1. CASE joiner[t] = None
  BY <1>1, ExecutorAssumption
     DEF EndPollForgotten, QueueInv, TaskTypes, QueueExact, WakesAreQueued, InQueue
<1>2. CASE joiner[t] # None
  <2> DEFINE j == joiner[t]
  <2>1. j \in Tasks
    BY <1>2
  <2>2. Enqueue(j) /\ unpolled' = unpolled \cup {j}
    BY <1>2 DEF EndPollForgotten
  <2>3. /\ queue' \in Seq(Tasks)
        /\ scheduled' \in [Tasks -> BOOLEAN]
        /\ QueueExact'
        /\ \A u \in Tasks : InQueue(u)' <=> InQueue(u) \/ u = j
    BY <2>1, <2>2, EnqueueKeeps DEF QueueInv
  <2>4. Queued(j) \in Int
    BY DEF Queued
  <2>5. refs' = [refs EXCEPT ![t] = @ - 2, ![j] = (@ + Queued(j)) - 1]
    BY <1>2 DEF EndPollForgotten
  <2>6. refs' \in [Tasks -> Int]
    BY <2>1, <2>4, <2>5 DEF QueueInv, TaskTypes
  <2>7. WakesAreQueued' /\ unpolled' \in SUBSET Tasks
    BY <2>1, <2>2, <2>3 DEF QueueInv, TaskTypes, WakesAreQueued
  <2> QED
    BY <2>3, <2>6, <2>7 DEF QueueInv, TaskTypes
<1> QED
  BY <1>1, <1>2

(* A clone or a drop of a waker changes a strong count and nothing else.    *)
LEMMA CountKeeps ==
  ASSUME QueueInv, NEW t \in Tasks, CloneWaker(t) \/ DropWaker(t)
  PROVE  QueueInv'
<1>1. UNCHANGED <<queue, scheduled, unpolled>> /\ refs' \in [Tasks -> Int]
  BY DEF QueueInv, TaskTypes, CloneWaker, DropWaker
<1> QED
  BY <1>1 DEF QueueInv, TaskTypes, QueueExact, WakesAreQueued, InQueue

(* The queue is as it was when the wakers are left alone.                   *)
LEMMA TaskVarsUnchanged ==
  ASSUME QueueInv, UNCHANGED taskVars
  PROVE  QueueInv'
BY DEF QueueInv, TaskTypes, QueueExact, WakesAreQueued, InQueue, taskVars

(* Every step of the executor keeps its queue exact.                        *)
LEMMA QueueStep ==
  ASSUME StateOK, Links, QueueInv, [Next]_vars
  PROVE  QueueInv'
<1>1. ASSUME NEW t \in Tasks, SpawnBefore(t) PROVE QueueInv'
  BY <1>1, WakeKeeps DEF SpawnBefore
<1>2. CASE BlockOn
  BY <1>2, WakeKeeps, ExecutorAssumption DEF BlockOn
<1>3. ASSUME NEW t \in Tasks, NEW e \in Events, Submit(t, e) \/ TakeResult(t, e) \/ Abandon(t, e)
      PROVE  QueueInv'
  BY <1>3, CountKeeps, TaskVarsUnchanged DEF Submit, TakeResult, Abandon
<1>4. ASSUME NEW t \in Tasks, NEW u \in Tasks, Join(t, u) \/ DropHandle(t, u)
      PROVE  QueueInv'
  BY <1>4, CountKeeps, TaskVarsUnchanged DEF Join, DropHandle
<1>5. ASSUME NEW t \in Tasks, NEW u \in Tasks, Spawn(t, u) PROVE QueueInv'
  BY <1>5, WakeKeeps DEF Spawn
<1>6. ASSUME NEW t \in Tasks, WakeSelf(t) PROVE QueueInv'
  BY <1>6, WakeKeeps DEF WakeSelf
<1>7. ASSUME NEW t \in Tasks, Finish(t) PROVE QueueInv'
  <2>1. joiner[t] = None \/ joiner[t] \in Tasks
    BY DEF StateOK
  <2> QED
    BY <1>7, <2>1, WakeKeeps, TaskVarsUnchanged DEF Finish
<1>8. CASE StartPoll
  BY <1>8, StartPollKeeps
<1>9. ASSUME NEW t \in Tasks, EndPoll(t) PROVE QueueInv'
  BY <1>9 DEF EndPoll, QueueInv, TaskTypes, QueueExact, WakesAreQueued, InQueue
<1>10. ASSUME NEW t \in Tasks, EndPollForgotten(t) PROVE QueueInv'
  BY <1>10, ForgottenKeeps DEF StateOK
<1>11. ASSUME NEW e \in Events, Notify(e) PROVE QueueInv'
  BY <1>11, WakeKeeps, TaskVarsUnchanged DEF Notify, Links
<1>12. CASE \/ Check \/ EnterWait \/ WaitWakes \/ WaitReturns \/ Stopped \/ UNCHANGED vars
            \/ \E e \in Events : KernelPosts(e)
  BY <1>12, TaskVarsUnchanged
     DEF Check, EnterWait, WaitWakes, WaitReturns, Stopped, KernelPosts, vars
<1> QED
  BY <1>1, <1>2, <1>3, <1>4, <1>5, <1>6, <1>7, <1>8, <1>9, <1>10, <1>11, <1>12
     DEF Next, Client, Loop

(* The rest of the state keeps its type.                                    *)
LEMMA StateStep ==
  ASSUME StateOK, Links, QueueInv, [Next]_vars
  PROVE  StateOK'
<1>1. TaskTypes'
  BY QueueStep DEF QueueInv
<1>2. ASSUME NEW t \in Tasks, SpawnBefore(t) \/ WakeSelf(t) \/ Finish(t) PROVE StateOK'
  <2>1. CASE SpawnBefore(t)
    BY <1>1, <2>1 DEF StateOK, TaskTypes, SpawnBefore, joinVars, eventVars, loopVars
  <2>2. CASE WakeSelf(t)
    <3>1. yields' \in [Tasks -> 0 .. MaxYields]
      BY <2>2, ExecutorAssumption DEF StateOK, WakeSelf
    <3> QED
      BY <1>1, <2>2, <3>1 DEF StateOK, TaskTypes, WakeSelf, joinVars, eventVars, loopVars
  <2>3. CASE Finish(t)
    BY <1>1, <2>3 DEF StateOK, TaskTypes, Finish, eventVars, loopVars
  <2> QED
    BY <1>2, <2>1, <2>2, <2>3
<1>3. CASE BlockOn
  BY <1>1, <1>3, ExecutorAssumption DEF StateOK, TaskTypes, BlockOn, eventVars
<1>4. ASSUME NEW t \in Tasks, NEW e \in Events, Submit(t, e) \/ TakeResult(t, e) \/ Abandon(t, e)
      PROVE  StateOK'
  BY ZenonT(60), <1>1, <1>4 DEF StateOK, TaskTypes, Submit, TakeResult, Abandon, joinVars, loopVars
<1>5. ASSUME NEW t \in Tasks, NEW u \in Tasks, Join(t, u) \/ DropHandle(t, u) \/ Spawn(t, u)
      PROVE  StateOK'
  BY ZenonT(60), <1>1, <1>5 DEF StateOK, TaskTypes, Join, DropHandle, Spawn, joinVars, eventVars, loopVars
<1>6. CASE StartPoll
  <2>1. Head(queue) \in Tasks
    BY <1>6, StartPollKeeps
  <2> QED
    BY <1>1, <1>6, <2>1, ExecutorAssumption DEF StateOK, TaskTypes, StartPoll, joinVars, eventVars
<1>7. ASSUME NEW t \in Tasks, EndPoll(t) PROVE StateOK'
  BY <1>1, <1>7, ExecutorAssumption DEF StateOK, TaskTypes, EndPoll, joinVars, eventVars
<1>8. ASSUME NEW t \in Tasks, EndPollForgotten(t) PROVE StateOK'
  BY <1>1, <1>8, ExecutorAssumption DEF StateOK, TaskTypes, EndPollForgotten
<1>9. ASSUME NEW e \in Events, Notify(e) \/ KernelPosts(e) PROVE StateOK'
  BY <1>1, <1>9 DEF StateOK, TaskTypes, Notify, KernelPosts, Outstanding, joinVars, loopVars
<1>10. CASE Check \/ EnterWait \/ WaitWakes \/ WaitReturns
  BY <1>1, <1>10
     DEF StateOK, TaskTypes, Check, EnterWait, WaitWakes, WaitReturns, joinVars, eventVars
<1>11. CASE Stopped \/ UNCHANGED vars
  BY <1>1, <1>11 DEF StateOK, TaskTypes, Stopped, vars, joinVars, eventVars, loopVars
<1> QED
  BY <1>2, <1>3, <1>4, <1>5, <1>6, <1>7, <1>8, <1>9, <1>10, <1>11 DEF Next, Client, Loop

(* wait is entered with an empty queue, and nothing is woken before it      *)
(* returns.                                                                 *)
LEMMA BlocksStep ==
  ASSUME StateOK, QueueInv, BlocksOnlyWhenIdle, [Next]_vars
  PROVE  BlocksOnlyWhenIdle'
<1>1. queue = <<>> => unpolled = {}
  BY DEF QueueInv, TaskTypes, WakesAreQueued, InQueue
<1>2. CASE EnterWait
  BY <1>1, <1>2 DEF EnterWait, BlocksOnlyWhenIdle, taskVars
<1>3. CASE pc' # "blocked"
  BY <1>3 DEF BlocksOnlyWhenIdle
<1>4. CASE (\E e \in Events : KernelPosts(e)) \/ UNCHANGED vars \/ Stopped
  BY <1>4 DEF KernelPosts, vars, taskVars, loopVars, BlocksOnlyWhenIdle, Stopped
<1> QED
  BY <1>2, <1>3, <1>4
     DEF Next, Client, Loop, SpawnBefore, BlockOn, Check, StartPoll, EndPoll, EndPollForgotten,
         WaitWakes, WaitReturns, Notify, Polling, Submit, TakeResult, Abandon, Join, DropHandle,
         Spawn, WakeSelf, Finish, loopVars

(***************************************************************************)
(* The reference counts.                                                   *)
(***************************************************************************)
(* Finitely many tasks and events: otherwise there is nothing to count. *)
Finite == IsFiniteSet(Tasks) /\ IsFiniteSet(Events)

(* So the wakers of a task, in the reactor and in oneshots, can be counted. *)
LEMMA HoldersFinite ==
  ASSUME Finite, NEW t \in Tasks
  PROVE  /\ IsFiniteSet(Waits(t)) /\ Cardinality(Waits(t)) \in Nat
         /\ IsFiniteSet(Joins(t)) /\ Cardinality(Joins(t)) \in Nat
<1>1. IsFiniteSet(Waits(t)) /\ IsFiniteSet(Joins(t))
  BY FS_Subset DEF Finite, Waits, Joins
<1> QED
  BY <1>1, FS_CardinalityType

(* One element more or less changes the size of a finite set by one.        *)
LEMMA OneMore ==
  ASSUME NEW S, IsFiniteSet(S), NEW x, x \notin S
  PROVE  Cardinality(S \cup {x}) = Cardinality(S) + 1
BY FS_AddElement

LEMMA OneLess ==
  ASSUME NEW S, IsFiniteSet(S), NEW x \in S
  PROVE  Cardinality(S \ {x}) = Cardinality(S) - 1
BY FS_RemoveElement

(* A task that somebody holds has been spawned, and its count says so.      *)
LEMMA HeldIsCounted ==
  ASSUME Finite, Links, RefsExact, NEW t \in Tasks
  PROVE  /\ InQueue(t) \/ Waits(t) # {} \/ Joins(t) # {} => refs[t] >= 1 /\ future[t] # "none"
         /\ current = t => refs[t] >= 2 /\ future[t] # "none"
         /\ current = t /\ refs[t] <= 2 => ~InQueue(t) /\ Waits(t) = {} /\ Joins(t) = {}
         /\ refs[t] = 0 => ~InQueue(t) /\ current # t /\ Waits(t) = {} /\ Joins(t) = {}
<1>1. /\ Cardinality(Waits(t)) \in Nat /\ Cardinality(Joins(t)) \in Nat
      /\ Cardinality(Waits(t)) = 0 => Waits(t) = {}
      /\ Cardinality(Joins(t)) = 0 => Joins(t) = {}
  BY HoldersFinite, FS_EmptySet
<1>2. refs[t] = (IF InQueue(t) THEN 1 ELSE 0) + (IF current = t THEN 2 ELSE 0)
                  + Cardinality(Waits(t)) + Cardinality(Joins(t))
  BY DEF RefsExact, Holders
<1>3. /\ Waits(t) # {} => Cardinality(Waits(t)) >= 1
      /\ Joins(t) # {} => Cardinality(Joins(t)) >= 1
  BY <1>1
<1>4. future[t] = "none" => refs[t] = 0
  BY DEF Links
<1> QED
  BY <1>1, <1>2, <1>3, <1>4

(* The reference that Enqueue adds is the one the queue did not have.       *)
LEMMA QueuedIsOne ==
  ASSUME QueueInv, NEW t \in Tasks
  PROVE  Queued(t) = IF InQueue(t) THEN 0 ELSE 1
BY DEF QueueInv, QueueExact, Queued

(* A new task is held by the queue alone (TaskQueue::schedule).             *)
LEMMA NewTaskRefs ==
  ASSUME Finite, QueueInv, Links, RefsExact, NEW t \in Tasks, future[t] = "none", NewTask(t),
         UNCHANGED <<event, owner, joiner, current>>
  PROVE  RefsExact'
<1> SUFFICES ASSUME NEW x \in Tasks PROVE refs'[x] = Holders(x)'
  BY DEF RefsExact
<1>1. Waits(x)' = Waits(x) /\ Joins(x)' = Joins(x)
  BY DEF Waits, Joins
<1>2. InQueue(x)' <=> InQueue(x) \/ x = t
  BY WakeKeeps
<1>3. CASE x # t
  <2>1. refs'[x] = refs[x]
    BY <1>3, WakeKeeps
  <2> QED
    BY <1>1, <1>2, <1>3, <2>1 DEF RefsExact, Holders
<1>4. CASE x = t
  <2>1. refs[t] = 0
    BY DEF Links
  <2>2. ~InQueue(t) /\ current # t /\ Waits(t) = {} /\ Joins(t) = {}
    BY <2>1, HeldIsCounted
  <2>3. refs'[t] = 1
    BY DEF NewTask, QueueInv, TaskTypes
  <2> QED
    BY <1>1, <1>2, <1>4, <2>2, <2>3, FS_EmptySet DEF Holders
<1> QED
  BY <1>3, <1>4

(* Waking by reference adds the reference of the queue, or none.            *)
LEMMA WakeByRefRefs ==
  ASSUME Finite, QueueInv, RefsExact, NEW t \in Tasks, WakeByRef(t),
         UNCHANGED <<event, owner, joiner, current>>
  PROVE  RefsExact'
<1> SUFFICES ASSUME NEW x \in Tasks PROVE refs'[x] = Holders(x)'
  BY DEF RefsExact
<1>1. Waits(x)' = Waits(x) /\ Joins(x)' = Joins(x)
  BY DEF Waits, Joins
<1>2. InQueue(x)' <=> InQueue(x) \/ x = t
  BY WakeKeeps
<1>3. CASE x # t
  <2>1. refs'[x] = refs[x]
    BY <1>3, WakeKeeps
  <2> QED
    BY <1>1, <1>2, <1>3, <2>1 DEF RefsExact, Holders
<1>4. CASE x = t
  <2>1. refs'[t] = refs[t] + Queued(t)
    BY QueuedIsOne DEF WakeByRef, QueueInv, TaskTypes
  <2>2. Cardinality(Waits(t)) \in Nat /\ Cardinality(Joins(t)) \in Nat
    BY HoldersFinite
  <2> QED
    BY <1>1, <1>2, <1>4, <2>1, <2>2, QueuedIsOne DEF RefsExact, Holders
<1> QED
  BY <1>3, <1>4

(* Waking with a waker of an event or of a oneshot moves its reference to   *)
(* the queue, or drops it.                                                  *)
LEMMA WakeRefs ==
  ASSUME Finite, QueueInv, RefsExact, NEW t \in Tasks, Wake(t), current' = current,
         \A x \in Tasks \ {t} : Waits(x)' = Waits(x) /\ Joins(x)' = Joins(x),
         \/ /\ Joins(t)' = Joins(t)
            /\ \E e \in Waits(t) : Waits(t)' = Waits(t) \ {e}
         \/ /\ Waits(t)' = Waits(t)
            /\ \E u \in Joins(t) : Joins(t)' = Joins(t) \ {u}
  PROVE  RefsExact'
<1> SUFFICES ASSUME NEW x \in Tasks PROVE refs'[x] = Holders(x)'
  BY DEF RefsExact
<1>1. InQueue(x)' <=> InQueue(x) \/ x = t
  BY WakeKeeps
<1>2. CASE x # t
  <2>1. refs'[x] = refs[x]
    BY <1>2, WakeKeeps
  <2>2. Waits(x)' = Waits(x) /\ Joins(x)' = Joins(x)
    BY <1>2
  <2> QED
    BY <1>1, <1>2, <2>1, <2>2 DEF RefsExact, Holders
<1>3. CASE x = t
  <2>1. refs'[t] = (refs[t] + Queued(t)) - 1
    BY QueuedIsOne DEF Wake, QueueInv, TaskTypes
  <2>2. /\ Cardinality(Waits(t)) \in Nat /\ Cardinality(Joins(t)) \in Nat
        /\ IsFiniteSet(Waits(t)) /\ IsFiniteSet(Joins(t))
    BY HoldersFinite
  <2>3. Cardinality(Waits(t)') + Cardinality(Joins(t)')
          = (Cardinality(Waits(t)) + Cardinality(Joins(t))) - 1
    <3>1. CASE Joins(t)' = Joins(t) /\ \E e \in Waits(t) : Waits(t)' = Waits(t) \ {e}
      <4>1. Cardinality(Waits(t)') = Cardinality(Waits(t)) - 1
        BY <2>2, <3>1, OneLess
      <4> QED
        BY <2>2, <3>1, <4>1
    <3>2. CASE Waits(t)' = Waits(t) /\ \E u \in Joins(t) : Joins(t)' = Joins(t) \ {u}
      <4>1. Cardinality(Joins(t)') = Cardinality(Joins(t)) - 1
        BY <2>2, <3>2, OneLess
      <4> QED
        BY <2>2, <3>2, <4>1
    <3> QED
      BY <3>1, <3>2
  <2>4. Cardinality(Waits(t)') \in Nat /\ Cardinality(Joins(t)') \in Nat
    <3>1. IsFiniteSet(Waits(t)') /\ IsFiniteSet(Joins(t)')
      BY <2>2, FS_Subset
    <3> QED
      BY <3>1, FS_CardinalityType
  <2> QED
    BY <1>1, <1>3, <2>1, <2>2, <2>3, <2>4, QueuedIsOne DEF RefsExact, Holders
<1> QED
  BY <1>2, <1>3

(* A clone or a drop of the current task's waker goes with one holder more  *)
(* or less (Ring::submit, Submission's drop, the oneshots).                 *)
LEMMA CloneRefs ==
  ASSUME Finite, StateOK, QueueInv, RefsExact, NEW t \in Tasks, CloneWaker(t), current' = current,
         \A x \in Tasks \ {t} : Waits(x)' = Waits(x) /\ Joins(x)' = Joins(x),
         \/ /\ Joins(t)' = Joins(t)
            /\ \E e \in Events \ Waits(t) : Waits(t)' = Waits(t) \cup {e}
         \/ /\ Waits(t)' = Waits(t)
            /\ \E u \in Tasks \ Joins(t) : Joins(t)' = Joins(t) \cup {u}
  PROVE  RefsExact'
<1> SUFFICES ASSUME NEW x \in Tasks PROVE refs'[x] = Holders(x)'
  BY DEF RefsExact
<1>1. InQueue(x)' <=> InQueue(x)
  BY DEF CloneWaker, InQueue
<1>2. CASE x # t
  <2>1. refs'[x] = refs[x] /\ Waits(x)' = Waits(x) /\ Joins(x)' = Joins(x)
    BY <1>2 DEF CloneWaker, StateOK
  <2> QED
    BY <1>1, <2>1 DEF RefsExact, Holders
<1>3. CASE x = t
  <2>1. refs'[t] = refs[t] + 1
    BY DEF CloneWaker, StateOK
  <2>2. /\ Cardinality(Waits(t)) \in Nat /\ Cardinality(Joins(t)) \in Nat
        /\ IsFiniteSet(Waits(t)) /\ IsFiniteSet(Joins(t))
    BY HoldersFinite
  <2>3. \/ /\ Joins(t)' = Joins(t)
           /\ Cardinality(Waits(t)') = Cardinality(Waits(t)) + 1
        \/ /\ Waits(t)' = Waits(t)
           /\ Cardinality(Joins(t)') = Cardinality(Joins(t)) + 1
    BY <2>2, OneMore
  <2> QED
    BY <1>1, <1>3, <2>1, <2>2, <2>3 DEF RefsExact, Holders
<1> QED
  BY <1>2, <1>3

(* The same when a waker is dropped.                                        *)
LEMMA DropRefs ==
  ASSUME Finite, StateOK, QueueInv, RefsExact, NEW t \in Tasks, DropWaker(t), current' = current,
         \A x \in Tasks \ {t} : Waits(x)' = Waits(x) /\ Joins(x)' = Joins(x),
         \/ /\ Joins(t)' = Joins(t)
            /\ \E e \in Waits(t) : Waits(t)' = Waits(t) \ {e}
         \/ /\ Waits(t)' = Waits(t)
            /\ \E u \in Joins(t) : Joins(t)' = Joins(t) \ {u}
  PROVE  RefsExact'
<1> SUFFICES ASSUME NEW x \in Tasks PROVE refs'[x] = Holders(x)'
  BY DEF RefsExact
<1>1. InQueue(x)' <=> InQueue(x)
  BY DEF DropWaker, InQueue
<1>2. CASE x # t
  <2>1. refs'[x] = refs[x] /\ Waits(x)' = Waits(x) /\ Joins(x)' = Joins(x)
    BY <1>2 DEF DropWaker, StateOK
  <2> QED
    BY <1>1, <2>1 DEF RefsExact, Holders
<1>3. CASE x = t
  <2>1. refs'[t] = refs[t] - 1
    BY DEF DropWaker, StateOK
  <2>2. /\ Cardinality(Waits(t)) \in Nat /\ Cardinality(Joins(t)) \in Nat
        /\ IsFiniteSet(Waits(t)) /\ IsFiniteSet(Joins(t))
    BY HoldersFinite
  <2>3. \/ /\ Joins(t)' = Joins(t)
           /\ Cardinality(Waits(t)') = Cardinality(Waits(t)) - 1
        \/ /\ Waits(t)' = Waits(t)
           /\ Cardinality(Joins(t)') = Cardinality(Joins(t)) - 1
    BY <2>2, OneLess
  <2> QED
    BY <1>1, <1>3, <2>1, <2>2, <2>3 DEF RefsExact, Holders
<1> QED
  BY <1>2, <1>3

(* Nothing to count again when no holder changes.                           *)
LEMMA SameRefs ==
  ASSUME RefsExact, UNCHANGED <<queue, refs, current, joiner>>,
         \A x \in Tasks : Waits(x)' = Waits(x)
  PROVE  RefsExact'
BY DEF RefsExact, Holders, InQueue, Joins

(* Submitting, taking and abandoning an event.                              *)
LEMMA EventRefs ==
  ASSUME Finite, StateOK, Links, QueueInv, RefsExact, NEW t \in Tasks, NEW e \in Events,
         Submit(t, e) \/ TakeResult(t, e) \/ Abandon(t, e)
  PROVE  RefsExact'
<1>0. \A x \in Tasks : Joins(x)' = Joins(x)
  BY DEF Submit, TakeResult, Abandon, Joins, joinVars
<1>1. CASE Submit(t, e)
  <2>1. e \notin Waits(t) /\ Waits(t)' = Waits(t) \cup {e}
    BY <1>1 DEF Submit, Waits, StateOK
  <2>2. \A x \in Tasks \ {t} : Waits(x)' = Waits(x)
    BY <1>1 DEF Submit, Waits, StateOK
  <2> QED
    BY <1>0, <1>1, <2>1, <2>2, CloneRefs DEF Submit, loopVars
<1>2. CASE TakeResult(t, e) \/ (Abandon(t, e) /\ event[e] = "fired")
  <2>1. \A x \in Tasks : Waits(x)' = Waits(x)
    BY <1>2 DEF TakeResult, Abandon, Waits, StateOK
  <2> QED
    BY <1>2, <2>1, SameRefs DEF TakeResult, Abandon, taskVars, joinVars, loopVars
<1>3. CASE Abandon(t, e) /\ event[e] # "fired"
  <2>1. e \in Waits(t) /\ Waits(t)' = Waits(t) \ {e}
    BY <1>3, ExecutorAssumption DEF Abandon, Waits, StateOK
  <2>2. \A x \in Tasks \ {t} : Waits(x)' = Waits(x)
    BY <1>3, ExecutorAssumption DEF Abandon, Waits, StateOK
  <2> QED
    BY <1>0, <1>3, <2>1, <2>2, DropRefs DEF Abandon, loopVars
<1> QED
  BY <1>1, <1>2, <1>3

(* Polling and dropping a join handle.                                      *)
LEMMA JoinRefs ==
  ASSUME Finite, StateOK, Links, QueueInv, RefsExact, NEW t \in Tasks, NEW u \in Tasks,
         Join(t, u) \/ DropHandle(t, u)
  PROVE  RefsExact'
<1>0. \A x \in Tasks : Waits(x)' = Waits(x)
  BY DEF Join, DropHandle, Waits, eventVars
<1>1. joiner[u] \in {None, t}
  BY ExecutorAssumption DEF Join, DropHandle, Links, StateOK
<1>2. CASE \/ Join(t, u) /\ (joiner[u] = t \/ output[u] # "empty")
           \/ DropHandle(t, u) /\ joiner[u] # t
  <2>1. joiner' = joiner /\ UNCHANGED taskVars
    BY <1>1, <1>2 DEF Join, DropHandle, StateOK
  <2> QED
    BY <1>0, <1>2, <2>1, SameRefs DEF Join, DropHandle, taskVars, loopVars
<1>3. CASE Join(t, u) /\ joiner[u] # t /\ output[u] = "empty"
  <2>1. u \notin Joins(t) /\ Joins(t)' = Joins(t) \cup {u}
    BY <1>3 DEF Join, Joins, StateOK
  <2>2. \A x \in Tasks \ {t} : Joins(x)' = Joins(x)
    BY <1>1, <1>3, ExecutorAssumption DEF Join, Joins, StateOK
  <2> QED
    BY <1>0, <1>3, <2>1, <2>2, CloneRefs DEF Join, loopVars
<1>4. CASE DropHandle(t, u) /\ joiner[u] = t
  <2>1. u \in Joins(t) /\ Joins(t)' = Joins(t) \ {u}
    BY <1>4, ExecutorAssumption DEF DropHandle, Joins, StateOK
  <2>2. \A x \in Tasks \ {t} : Joins(x)' = Joins(x)
    BY <1>4, ExecutorAssumption DEF DropHandle, Joins, StateOK
  <2> QED
    BY <1>0, <1>4, <2>1, <2>2, DropRefs DEF DropHandle, loopVars
<1> QED
  BY <1>2, <1>3, <1>4

(* A finished task wakes its joiner with the waker of the oneshot.          *)
LEMMA FinishRefs ==
  ASSUME Finite, StateOK, Links, QueueInv, RefsExact, NEW t \in Tasks, Finish(t)
  PROVE  RefsExact'
<1>0. \A x \in Tasks : Waits(x)' = Waits(x)
  BY DEF Finish, Waits, eventVars
<1>1. CASE joiner[t] = None
  <2>1. joiner' = joiner /\ UNCHANGED taskVars
    BY <1>1 DEF Finish, StateOK
  <2> QED
    BY <1>0, <2>1, SameRefs DEF Finish, taskVars, loopVars
<1>2. CASE joiner[t] # None
  <2>0. PICK j \in Tasks : j = joiner[t]
    BY <1>2 DEF StateOK
  <2>1. Wake(j)
    BY <1>2, <2>0 DEF Finish
  <2>2. t \in Joins(j) /\ Joins(j)' = Joins(j) \ {t}
    BY <2>0, ExecutorAssumption DEF Finish, Joins, StateOK
  <2>3. \A x \in Tasks \ {j} : Joins(x)' = Joins(x)
    BY <2>0, ExecutorAssumption DEF Finish, Joins, StateOK
  <2>4. current' = current
    BY DEF Finish, loopVars
  <2> QED
    BY <1>0, <2>1, <2>2, <2>3, <2>4, WakeRefs
<1> QED
  BY <1>1, <1>2

(* The loop takes the queue's reference and makes one more for the waker.   *)
LEMMA StartPollRefs ==
  ASSUME Finite, StateOK, QueueInv, RefsExact, StartPoll
  PROVE  RefsExact'
<1> DEFINE h == Head(queue)
<1>1. /\ h \in Tasks /\ InQueue(h)
      /\ \A u \in Tasks : InQueue(u)' <=> InQueue(u) /\ u # h
  BY StartPollKeeps
<1>2. current = None /\ current' = h /\ refs' = [refs EXCEPT ![h] = @ + 1]
  BY DEF StartPoll, StateOK
<1> SUFFICES ASSUME NEW x \in Tasks PROVE refs'[x] = Holders(x)'
  BY DEF RefsExact
<1>3. Waits(x)' = Waits(x) /\ Joins(x)' = Joins(x)
  BY DEF StartPoll, Waits, Joins, eventVars, joinVars
<1>4. Cardinality(Waits(x)) \in Nat /\ Cardinality(Joins(x)) \in Nat
  BY HoldersFinite
<1>5. refs[x] = (IF InQueue(x) THEN 1 ELSE 0) + (IF current = x THEN 2 ELSE 0)
                  + Cardinality(Waits(x)) + Cardinality(Joins(x))
  BY DEF RefsExact, Holders
<1>6. refs'[x] = IF x = h THEN refs[x] + 1 ELSE refs[x]
  BY <1>1, <1>2 DEF StateOK
<1>7. current # x
  BY <1>2, ExecutorAssumption
<1>8. Holders(x)' = (IF InQueue(x)' THEN 1 ELSE 0) + (IF h = x THEN 2 ELSE 0)
                  + Cardinality(Waits(x)) + Cardinality(Joins(x))
  BY <1>2, <1>3 DEF Holders
<1> QED
  BY <1>1, <1>4, <1>5, <1>6, <1>7, <1>8

(* The loop and the waker let the task go.                                  *)
LEMMA EndPollRefs ==
  ASSUME Finite, StateOK, QueueInv, RefsExact, NEW t \in Tasks, EndPoll(t)
  PROVE  RefsExact'
<1> SUFFICES ASSUME NEW x \in Tasks PROVE refs'[x] = Holders(x)'
  BY DEF RefsExact
<1>1. Waits(x)' = Waits(x) /\ Joins(x)' = Joins(x) /\ (InQueue(x)' <=> InQueue(x))
  BY DEF EndPoll, Waits, Joins, InQueue, eventVars, joinVars
<1>2. Cardinality(Waits(x)) \in Nat /\ Cardinality(Joins(x)) \in Nat
  BY HoldersFinite
<1>3. refs[x] = (IF InQueue(x) THEN 1 ELSE 0) + (IF current = x THEN 2 ELSE 0)
                  + Cardinality(Waits(x)) + Cardinality(Joins(x))
  BY DEF RefsExact, Holders
<1>4. current = t /\ current' = None /\ None # x
  BY ExecutorAssumption DEF EndPoll
<1>5. refs'[x] = IF x = t THEN refs[x] - 2 ELSE refs[x]
  BY DEF EndPoll, StateOK
<1>6. Holders(x)' = (IF InQueue(x) THEN 1 ELSE 0) + 0 + Cardinality(Waits(x)) + Cardinality(Joins(x))
  BY <1>1, <1>4 DEF Holders
<1> QED
  BY <1>2, <1>3, <1>4, <1>5, <1>6

(* A completion wakes its task with the waker of the event.                 *)
LEMMA NotifyRefs ==
  ASSUME Finite, StateOK, Links, QueueInv, RefsExact, NEW e \in Events, Notify(e)
  PROVE  RefsExact'
<1>0. \A x \in Tasks : Joins(x)' = Joins(x)
  BY DEF Notify, Joins, joinVars
<1>1. CASE event[e] = "armed"
  <2>0. PICK o \in Tasks : o = owner[e]
    BY <1>1 DEF Links
  <2>1. Wake(o)
    BY <1>1, <2>0 DEF Notify
  <2>2. e \in Waits(o) /\ Waits(o)' = Waits(o) \ {e}
    BY <1>1, <2>0 DEF Notify, Waits, StateOK
  <2>3. \A x \in Tasks \ {o} : Waits(x)' = Waits(x)
    BY <1>1, <2>0 DEF Notify, Waits, StateOK
  <2>4. current' = current
    BY DEF Notify
  <2> QED
    BY <1>0, <2>1, <2>2, <2>3, <2>4, WakeRefs
<1>2. CASE event[e] # "armed"
  <2>1. \A x \in Tasks : Waits(x)' = Waits(x)
    BY <1>2 DEF Notify, Waits, StateOK
  <2> QED
    BY <1>2, <2>1, SameRefs DEF Notify, taskVars, joinVars
<1> QED
  BY <1>1, <1>2

(* A pending task whose last reference goes holds no waker anywhere; its    *)
(* joiner is woken with the waker of its oneshot.                           *)
LEMMA ForgottenRefs ==
  ASSUME Finite, StateOK, Links, QueueInv, RefsExact, NEW t \in Tasks, EndPollForgotten(t)
  PROVE  RefsExact'
<1>1. current = t /\ current' = None /\ refs[t] <= 2
  BY DEF EndPollForgotten
<1>2. ~InQueue(t) /\ Waits(t) = {} /\ Joins(t) = {} /\ refs[t] = 2
  BY <1>1, HeldIsCounted DEF StateOK
<1>3. \A x \in Tasks : Waits(x)' = Waits(x)
  BY <1>2, ExecutorAssumption DEF EndPollForgotten, Waits, StateOK
<1>4. joiner[t] # t
  BY <1>2 DEF Joins
<1>5. \A x \in Tasks : Joins(x)' = Joins(x) \ {t}
  BY ExecutorAssumption DEF EndPollForgotten, Joins, StateOK
<1>6. \A x \in Tasks : InQueue(x)' <=> InQueue(x) \/ x = joiner[t]
  BY ForgottenKeeps DEF StateOK
<1> SUFFICES ASSUME NEW x \in Tasks PROVE refs'[x] = Holders(x)'
  BY DEF RefsExact
<1>7. /\ Cardinality(Waits(x)) \in Nat /\ Cardinality(Joins(x)) \in Nat
      /\ IsFiniteSet(Waits(x)) /\ IsFiniteSet(Joins(x))
  BY HoldersFinite
<1>8. refs[x] = (IF InQueue(x) THEN 1 ELSE 0) + (IF current = x THEN 2 ELSE 0)
                  + Cardinality(Waits(x)) + Cardinality(Joins(x))
  BY DEF RefsExact, Holders
<1>9. Holders(x)' = (IF InQueue(x)' THEN 1 ELSE 0) + 0 + Cardinality(Waits(x)) + Cardinality(Joins(x)')
  BY <1>1, <1>3, ExecutorAssumption DEF Holders
<1>10. CASE x = t
  <2>1. ~InQueue(x) /\ refs[x] = 2 /\ current = x
    BY <1>1, <1>2, <1>10
  <2>3. ~InQueue(x)' /\ Joins(x)' = Joins(x)
    BY <1>2, <1>4, <1>5, <1>6, <1>10
  <2>2. refs'[x] = refs[x] - 2
    BY <1>4, <1>10 DEF EndPollForgotten, StateOK
  <2> QED
    BY <1>7, <1>8, <1>9, <2>1, <2>2, <2>3
<1>11. CASE x # t /\ x = joiner[t]
  <2>1. t \in Joins(x) /\ Cardinality(Joins(x)') = Cardinality(Joins(x)) - 1
    BY <1>5, <1>7, <1>11, OneLess DEF Joins
  <2>2. refs'[x] = (refs[x] + Queued(x)) - 1
    BY <1>11, QueuedIsOne, ExecutorAssumption DEF EndPollForgotten, StateOK
  <2> QED
    BY <1>1, <1>6, <1>7, <1>8, <1>9, <1>11, <2>1, <2>2, QueuedIsOne
<1>12. CASE x # t /\ x # joiner[t]
  <2>1. Joins(x)' = Joins(x)
    BY <1>5, <1>12 DEF Joins
  <2>2. refs'[x] = refs[x]
    <3>1. CASE joiner[t] = None
      BY <1>12, <3>1 DEF EndPollForgotten, StateOK
    <3>2. CASE joiner[t] # None
      BY <1>12, <3>2 DEF EndPollForgotten, StateOK
    <3> QED
      BY <3>1, <3>2
  <2> QED
    BY <1>1, <1>6, <1>7, <1>8, <1>9, <1>12, <2>1, <2>2
<1> QED
  BY <1>10, <1>11, <1>12

(* Every step of the executor keeps the counts exact.                       *)
LEMMA RefsStep ==
  ASSUME Finite, StateOK, Links, QueueInv, RefsExact, [Next]_vars
  PROVE  RefsExact'
<1>1. ASSUME NEW t \in Tasks, SpawnBefore(t) PROVE RefsExact'
  BY <1>1, NewTaskRefs DEF SpawnBefore, joinVars, eventVars, loopVars
<1>2. CASE BlockOn
  BY <1>2, NewTaskRefs, ExecutorAssumption DEF BlockOn, Links, eventVars
<1>3. ASSUME NEW t \in Tasks, NEW u \in Tasks, Spawn(t, u) PROVE RefsExact'
  BY <1>3, NewTaskRefs DEF Spawn, joinVars, eventVars, loopVars
<1>4. ASSUME NEW t \in Tasks, WakeSelf(t) PROVE RefsExact'
  BY <1>4, WakeByRefRefs DEF WakeSelf, joinVars, eventVars, loopVars
<1>5. CASE \/ Check \/ EnterWait \/ WaitWakes \/ WaitReturns \/ Stopped \/ UNCHANGED vars
           \/ \E e \in Events : KernelPosts(e)
  <2>1. UNCHANGED <<queue, refs, current, joiner, event, owner>>
    BY <1>5 DEF Check, EnterWait, WaitWakes, WaitReturns, Stopped, KernelPosts, vars, taskVars,
                joinVars, eventVars, loopVars
  <2>2. \A x \in Tasks : Waits(x)' = Waits(x)
    BY <2>1 DEF Waits
  <2> QED
    BY <2>1, <2>2, SameRefs
<1> QED
  BY <1>1, <1>2, <1>3, <1>4, <1>5, EventRefs, JoinRefs, FinishRefs, StartPollRefs, EndPollRefs,
     ForgottenRefs, NotifyRefs DEF Next, Client, Loop

(* Every step keeps the oneshots and their wakers linked, and no unspawned  *)
(* task is ever held.                                                       *)
LEMMA LinksStep ==
  ASSUME Finite, StateOK, Links, QueueInv, RefsExact, [Next]_vars
  PROVE  Links'
<1>1. ASSUME NEW t \in Tasks, SpawnBefore(t) PROVE Links'
  <2>1. \A x \in Tasks \ {t} : refs'[x] = refs[x]
    BY <1>1, WakeKeeps DEF SpawnBefore
  <2> QED
    BY <1>1, <2>1, ExecutorAssumption
       DEF SpawnBefore, Links, StateOK, joinVars, eventVars, loopVars
<1>2. CASE BlockOn
  <2>1. \A x \in Tasks \ {Root} : refs'[x] = refs[x]
    BY <1>2, WakeKeeps, ExecutorAssumption DEF BlockOn
  <2> QED
    BY <1>2, <2>1, ExecutorAssumption DEF BlockOn, Links, StateOK, eventVars
<1>3. ASSUME NEW t \in Tasks, NEW e \in Events, Submit(t, e) \/ TakeResult(t, e) \/ Abandon(t, e)
      PROVE  Links'
  <2>1. \A x \in Tasks : x # t => refs'[x] = refs[x]
    BY <1>3 DEF Submit, TakeResult, Abandon, CloneWaker, DropWaker, taskVars, StateOK
  <2>2. \A f \in Events : /\ event'[f] = "armed" => owner'[f] \in Tasks
                          /\ owner'[f] # None => event'[f] \in {"armed", "fired"}
    <3>1. CASE Submit(t, e)
      BY <3>1 DEF Submit, Links, StateOK
    <3>2. CASE TakeResult(t, e)
      BY <3>2 DEF TakeResult, Links, StateOK
    <3>3. CASE Abandon(t, e)
      BY <3>3 DEF Abandon, Links, StateOK
    <3> QED
      BY <1>3, <3>1, <3>2, <3>3
  <2>3. /\ future[t] = "pending" /\ pc = "poll"
        /\ output' = output /\ handle' = handle /\ joiner' = joiner
        /\ future' = future /\ pc' = pc
    BY <1>3 DEF Submit, TakeResult, Abandon, Polling, joinVars, loopVars
  <2>4. \A x \in Tasks : future'[x] = "none" => refs'[x] = 0
    BY <2>1, <2>3 DEF Links
  <2>5. \A u \in Tasks : joiner'[u] # None =>
          joiner'[u] = handle'[u] /\ output'[u] = "empty" /\ future'[u] # "none"
    BY <2>3 DEF Links
  <2> QED
    BY <2>2, <2>3, <2>4, <2>5 DEF Links
<1>4. ASSUME NEW t \in Tasks, NEW u \in Tasks, Join(t, u) \/ DropHandle(t, u) PROVE Links'
  <2>1. \A x \in Tasks : x # t => refs'[x] = refs[x]
    BY <1>4 DEF Join, DropHandle, CloneWaker, DropWaker, taskVars, StateOK
  <2> QED
    BY <1>4, <2>1, ExecutorAssumption
       DEF Join, DropHandle, Polling, Links, StateOK, eventVars, loopVars
<1>5. ASSUME NEW t \in Tasks, NEW u \in Tasks, Spawn(t, u) PROVE Links'
  <2>1. \A x \in Tasks \ {u} : refs'[x] = refs[x]
    BY <1>5, WakeKeeps DEF Spawn
  <2> QED
    BY <1>5, <2>1 DEF Spawn, Polling, Links, StateOK, joinVars, eventVars, loopVars
<1>6. ASSUME NEW t \in Tasks, WakeSelf(t) PROVE Links'
  <2>1. \A x \in Tasks \ {t} : refs'[x] = refs[x]
    BY <1>6, WakeKeeps DEF WakeSelf
  <2> QED
    BY <1>6, <2>1 DEF WakeSelf, Polling, Links, StateOK, joinVars, eventVars, loopVars
<1>7. ASSUME NEW t \in Tasks, Finish(t) PROVE Links'
  <2>1. \A x \in Tasks : future[x] = "none" => refs'[x] = refs[x]
    <3>1. CASE joiner[t] = None
      BY <1>7, <3>1 DEF Finish, taskVars
    <3>2. CASE joiner[t] # None
      <4>0. PICK j \in Tasks : j = joiner[t]
        BY <3>2 DEF StateOK
      <4>1. Wake(j) /\ Joins(j) # {}
        BY <1>7, <3>2, <4>0 DEF Finish, Joins
      <4>2. future[j] # "none"
        BY <4>1, HeldIsCounted
      <4> QED
        BY <4>1, <4>2, WakeKeeps
    <3> QED
      BY <3>1, <3>2
  <2> QED
    BY <1>7, <2>1 DEF Finish, Polling, Links, StateOK, eventVars, loopVars
<1>8. CASE StartPoll
  <2>1. Head(queue) \in Tasks /\ future[Head(queue)] # "none"
    BY <1>8, StartPollKeeps, HeldIsCounted
  <2> QED
    BY <1>8, <2>1 DEF StartPoll, Links, StateOK, joinVars, eventVars
<1>9. ASSUME NEW t \in Tasks, EndPoll(t) PROVE Links'
  <2>1. future[t] # "none"
    BY <1>9, HeldIsCounted DEF EndPoll
  <2> QED
    BY <1>9, <2>1 DEF EndPoll, Links, StateOK, joinVars, eventVars
<1>10. ASSUME NEW t \in Tasks, EndPollForgotten(t) PROVE Links'
  <2>1. Joins(t) = {} /\ Waits(t) = {} /\ joiner[t] # t
    BY <1>10, HeldIsCounted DEF EndPollForgotten, Joins
  <2>2. \A x \in Tasks : future[x] = "none" => refs'[x] = refs[x]
    <3>1. CASE joiner[t] = None
      BY <1>10, <3>1 DEF EndPollForgotten, StateOK
    <3>2. CASE joiner[t] # None
      <4>0. PICK j \in Tasks : j = joiner[t]
        BY <3>2 DEF StateOK
      <4>1. future[j] # "none"
        BY <4>0, HeldIsCounted DEF Joins
      <4> QED
        BY <1>10, <3>2, <4>0, <4>1 DEF EndPollForgotten, StateOK
    <3> QED
      BY <3>1, <3>2
  <2>3. \A e \in Events : /\ event'[e] = "armed" => owner'[e] \in Tasks
                          /\ owner'[e] # None => event'[e] \in {"armed", "fired"}
    BY <1>10 DEF EndPollForgotten, Links, StateOK
  <2>4. \A u \in Tasks : joiner'[u] # None =>
          joiner'[u] = handle'[u] /\ output'[u] = "empty" /\ future'[u] # "none"
    BY <1>10, <2>1 DEF EndPollForgotten, Links, StateOK, Joins
  <2>5. \A x \in Tasks : future'[x] = "none" => refs'[x] = 0
    BY <1>10, <2>2 DEF EndPollForgotten, Links, StateOK
  <2> QED
    BY <1>10, <2>3, <2>4, <2>5 DEF EndPollForgotten, Links
<1>11. ASSUME NEW e \in Events, Notify(e) PROVE Links'
  <2>1. \A x \in Tasks : future[x] = "none" => refs'[x] = refs[x]
    <3>1. CASE event[e] = "armed"
      <4>0. PICK o \in Tasks : o = owner[e]
        BY <3>1 DEF Links
      <4>1. Wake(o) /\ Waits(o) # {}
        BY <1>11, <3>1, <4>0 DEF Notify, Waits
      <4>2. future[o] # "none"
        BY <4>1, HeldIsCounted
      <4> QED
        BY <4>1, <4>2, WakeKeeps
    <3>2. CASE event[e] # "armed"
      BY <1>11, <3>2 DEF Notify, taskVars
    <3> QED
      BY <3>1, <3>2
  <2> QED
    BY ZenonT(60), <1>11, <2>1 DEF Notify, Links, StateOK, joinVars
<1>12. CASE \/ Check \/ EnterWait \/ WaitWakes \/ WaitReturns \/ Stopped \/ UNCHANGED vars
            \/ \E e \in Events : KernelPosts(e)
  BY <1>12 DEF Check, EnterWait, WaitWakes, WaitReturns, Stopped, KernelPosts, vars, taskVars,
               joinVars, eventVars, loopVars, Links
<1> QED
  BY <1>1, <1>2, <1>3, <1>4, <1>5, <1>6, <1>7, <1>8, <1>9, <1>10, <1>11, <1>12
     DEF Next, Client, Loop

(* A task that is still pending is never left without a reference.          *)
LEMMA PendingStep ==
  ASSUME Finite, StateOK, Links, QueueInv, RefsExact, PendingHeld, [Next]_vars
  PROVE  PendingHeld'
<1>0. /\ QueueInv' /\ RefsExact' /\ Links' /\ StateOK'
  BY QueueStep, RefsStep, LinksStep, StateStep
<1> SUFFICES ASSUME NEW x \in Tasks, future'[x] = "pending"
             PROVE  refs'[x] > 0
  BY DEF PendingHeld
<1>1. InQueue(x)' \/ current' = x => refs'[x] > 0
  <2>1. /\ Cardinality(Waits(x)') \in Nat /\ Cardinality(Joins(x)') \in Nat
    <3>1. IsFiniteSet(Waits(x)') /\ IsFiniteSet(Joins(x)')
      BY FS_Subset DEF Finite, Waits, Joins
    <3> QED
      BY <3>1, FS_CardinalityType
  <2>2. refs'[x] = (IF InQueue(x)' THEN 1 ELSE 0) + (IF current' = x THEN 2 ELSE 0)
                     + Cardinality(Waits(x)') + Cardinality(Joins(x)')
    BY <1>0 DEF RefsExact, Holders
  <2> QED
    BY <2>1, <2>2
<1>2. ASSUME NEW t \in Tasks, SpawnBefore(t) PROVE refs'[x] > 0
  <2>1. InQueue(t)' /\ \A u \in Tasks \ {t} : refs'[u] = refs[u]
    BY <1>2, WakeKeeps DEF SpawnBefore
  <2> QED
    BY <1>1, <1>2, <2>1 DEF SpawnBefore, PendingHeld, StateOK
<1>3. CASE BlockOn
  <2>1. InQueue(Root)' /\ \A u \in Tasks \ {Root} : refs'[u] = refs[u]
    BY <1>3, WakeKeeps, ExecutorAssumption DEF BlockOn
  <2> QED
    BY <1>1, <1>3, <2>1 DEF BlockOn, PendingHeld, StateOK
<1>4. ASSUME NEW t \in Tasks, NEW e \in Events, Submit(t, e) \/ TakeResult(t, e) \/ Abandon(t, e)
      PROVE  refs'[x] > 0
  <2>1. current' = t /\ future' = future
    BY <1>4 DEF Submit, TakeResult, Abandon, Polling, loopVars
  <2>2. x # t => refs'[x] = refs[x]
    BY <1>4 DEF Submit, TakeResult, Abandon, CloneWaker, DropWaker, taskVars, StateOK
  <2> QED
    BY <1>1, <2>1, <2>2 DEF PendingHeld
<1>5. ASSUME NEW t \in Tasks, NEW u \in Tasks, Join(t, u) \/ DropHandle(t, u)
      PROVE  refs'[x] > 0
  <2>1. current' = t /\ future' = future
    BY <1>5 DEF Join, DropHandle, Polling, loopVars
  <2>2. x # t => refs'[x] = refs[x]
    BY <1>5 DEF Join, DropHandle, CloneWaker, DropWaker, taskVars, StateOK
  <2> QED
    BY <1>1, <2>1, <2>2 DEF PendingHeld
<1>6. ASSUME NEW t \in Tasks, NEW u \in Tasks, Spawn(t, u) PROVE refs'[x] > 0
  <2>1. InQueue(u)' /\ \A v \in Tasks \ {u} : refs'[v] = refs[v]
    BY <1>6, WakeKeeps DEF Spawn
  <2> QED
    BY <1>1, <1>6, <2>1 DEF Spawn, PendingHeld, StateOK
<1>7. ASSUME NEW t \in Tasks, WakeSelf(t) PROVE refs'[x] > 0
  <2>1. InQueue(t)' /\ \A u \in Tasks \ {t} : refs'[u] = refs[u]
    BY <1>7, WakeKeeps DEF WakeSelf
  <2> QED
    BY <1>1, <1>7, <2>1 DEF WakeSelf, PendingHeld
<1>8. ASSUME NEW t \in Tasks, Finish(t) PROVE refs'[x] > 0
  <2>1. x # t /\ future[x] = "pending"
    BY <1>8 DEF Finish, StateOK
  <2>2. CASE joiner[t] = None
    BY <1>8, <2>1, <2>2 DEF Finish, taskVars, PendingHeld
  <2>3. CASE joiner[t] # None
    <3>0. PICK j \in Tasks : j = joiner[t]
      BY <2>3 DEF StateOK
    <3>1. Wake(j)
      BY <1>8, <2>3, <3>0 DEF Finish
    <3>2. InQueue(j)' /\ \A u \in Tasks \ {j} : refs'[u] = refs[u]
      BY <3>1, WakeKeeps
    <3> QED
      BY <1>1, <2>1, <3>2 DEF PendingHeld
  <2> QED
    BY <2>2, <2>3
<1>9. CASE StartPoll
  <2>1. Head(queue) \in Tasks
    BY <1>9, StartPollKeeps
  <2> QED
    BY <1>9, <2>1 DEF StartPoll, PendingHeld, StateOK
<1>10. ASSUME NEW t \in Tasks, EndPoll(t) PROVE refs'[x] > 0
  BY <1>10 DEF EndPoll, PendingHeld, StateOK
<1>11. ASSUME NEW t \in Tasks, EndPollForgotten(t) PROVE refs'[x] > 0
  <2>1. x # t /\ future[x] = "pending"
    BY <1>11 DEF EndPollForgotten, StateOK
  <2>2. x = joiner[t] => InQueue(x)'
    BY <1>11, ForgottenKeeps DEF StateOK
  <2>3. x # joiner[t] => refs'[x] = refs[x]
    <3>1. CASE joiner[t] = None
      BY <1>11, <2>1, <3>1 DEF EndPollForgotten, StateOK
    <3>2. CASE joiner[t] # None
      BY <1>11, <2>1, <3>2 DEF EndPollForgotten, StateOK
    <3> QED
      BY <3>1, <3>2
  <2> QED
    BY <1>1, <2>1, <2>2, <2>3 DEF PendingHeld
<1>12. ASSUME NEW e \in Events, Notify(e) PROVE refs'[x] > 0
  <2>1. CASE event[e] = "armed"
    <3>0. PICK o \in Tasks : o = owner[e]
      BY <2>1 DEF Links
    <3>1. Wake(o) /\ future' = future
      BY <1>12, <2>1, <3>0 DEF Notify
    <3>2. InQueue(o)' /\ \A u \in Tasks \ {o} : refs'[u] = refs[u]
      BY <3>1, WakeKeeps
    <3> QED
      BY <1>1, <3>1, <3>2 DEF PendingHeld
  <2>2. CASE event[e] # "armed"
    BY <1>12, <2>2 DEF Notify, taskVars, PendingHeld
  <2> QED
    BY <2>1, <2>2
<1>13. CASE \/ Check \/ EnterWait \/ WaitWakes \/ WaitReturns \/ Stopped \/ UNCHANGED vars
            \/ \E e \in Events : KernelPosts(e)
  BY <1>13 DEF Check, EnterWait, WaitWakes, WaitReturns, Stopped, KernelPosts, vars, taskVars,
               PendingHeld
<1> QED
  BY <1>2, <1>3, <1>4, <1>5, <1>6, <1>7, <1>8, <1>9, <1>10, <1>11, <1>12, <1>13
     DEF Next, Client, Loop

(* The loop leaves run only from Check, when every task is freed: no future *)
(* is then pending, and none becomes pending afterwards.                    *)
LEMMA RunsStep ==
  ASSUME StateOK, PendingHeld, RunsEveryTask, [Next]_vars
  PROVE  RunsEveryTask'
<1>1. CASE Check
  BY <1>1 DEF Check, IsDone, PendingHeld, RunsEveryTask
<1>2. CASE pc' \notin {"returned", "panicked"}
  BY <1>2 DEF RunsEveryTask
<1>3. CASE UNCHANGED <<pc, future>>
  BY <1>3 DEF RunsEveryTask
<1>4. \A t \in Tasks : SpawnBefore(t) \/ Client(t) => pc' \notin {"returned", "panicked"}
  BY DEF SpawnBefore, Client, Submit, TakeResult, Abandon, Join, DropHandle, Spawn, WakeSelf,
         Finish, Polling, loopVars
<1>5. BlockOn \/ (Loop /\ ~Check) => pc' \notin {"returned", "panicked"}
  BY DEF BlockOn, Loop, StartPoll, EndPoll, EndPollForgotten, EnterWait, WaitWakes, WaitReturns,
         Notify
<1>6. (\E e \in Events : KernelPosts(e)) \/ Stopped \/ UNCHANGED vars => UNCHANGED <<pc, future>>
  BY DEF KernelPosts, Stopped, vars, loopVars
<1> QED
  BY <1>1, <1>2, <1>3, <1>4, <1>5, <1>6 DEF Next

(* With finitely many tasks and events, all of the executor's invariants    *)
(* are inductive together.                                                  *)
THEOREM ExecInvInductive ==
  ASSUME Finite
  PROVE  Spec => []ExecInv
<1>1. Init => ExecInv
  <2> SUFFICES ASSUME Init PROVE ExecInv
    OBVIOUS
  <2>1. StateOK /\ Links
    BY ExecutorAssumption, EmptySeq DEF Init, StateOK, Links
  <2>2. /\ QueueExact /\ WakesAreQueued /\ BlocksOnlyWhenIdle /\ PendingHeld /\ RunsEveryTask
    BY DEF Init, QueueExact, WakesAreQueued, BlocksOnlyWhenIdle, InQueue, PendingHeld, RunsEveryTask
  <2>3. ASSUME NEW t \in Tasks PROVE refs[t] = Holders(t)
    <3>1. Waits(t) = {} /\ Joins(t) = {} /\ ~InQueue(t) /\ current # t /\ refs[t] = 0
      BY ExecutorAssumption DEF Init, Waits, Joins, InQueue
    <3> QED
      BY <3>1, FS_EmptySet DEF Holders
  <2> QED
    BY <2>1, <2>2, <2>3 DEF ExecInv, RefsExact
<1>2. ExecInv /\ [Next]_vars => ExecInv'
  <2> SUFFICES ASSUME ExecInv, [Next]_vars PROVE ExecInv'
    OBVIOUS
  <2>1. /\ StateOK /\ Links /\ RefsExact /\ BlocksOnlyWhenIdle /\ PendingHeld /\ RunsEveryTask
        /\ QueueInv
    BY DEF ExecInv, QueueInv, TaskTypes, StateOK
  <2>2. /\ StateOK' /\ Links' /\ RefsExact' /\ BlocksOnlyWhenIdle' /\ PendingHeld'
        /\ RunsEveryTask' /\ QueueInv'
    BY <2>1, StateStep, LinksStep, RefsStep, BlocksStep, PendingStep, RunsStep, QueueStep
  <2> QED
    BY <2>2 DEF ExecInv, QueueInv
<1> QED
  BY <1>1, <1>2, PTL DEF Spec

(* The unsafe vtable of the waker (waker.rs:20-40) never frees a task that  *)
(* is referenced, nor leaks one: every strong count is the number of its    *)
(* references, for any number of tasks, events and interleavings.           *)
THEOREM CountsExact ==
  ASSUME Finite
  PROVE  Spec => []RefsExact
<1>1. ExecInv => RefsExact
  BY DEF ExecInv
<1> QED
  BY <1>1, ExecInvInductive, PTL

(* The executor's state has its types; in particular no strong count is     *)
(* decremented below zero (waker.rs:34-40).                                 *)
THEOREM ExecutorTypes ==
  ASSUME Finite
  PROVE  Spec => []TypeOK
<1>1. ExecInv => TypeOK
  <2> SUFFICES ASSUME ExecInv, NEW t \in Tasks PROVE refs[t] >= 0
    BY DEF ExecInv, TypeOK
  <2>1. Cardinality(Waits(t)) \in Nat /\ Cardinality(Joins(t)) \in Nat
    BY HoldersFinite
  <2> QED
    BY <2>1 DEF ExecInv, RefsExact, Holders
<1> QED
  BY <1>1, ExecInvInductive, PTL

(* A task is in the queue exactly when its flag is set, and then once       *)
(* (task.rs:25-29), whoever schedules it.                                   *)
THEOREM QueuedOnce ==
  ASSUME Finite
  PROVE  Spec => []QueueExact
<1>1. ExecInv => QueueExact
  BY DEF ExecInv
<1> QED
  BY <1>1, ExecInvInductive, PTL

(* No wake is lost (task.rs:20-23): a task that is woken, also while it is  *)
(* being polled, is in the queue until its next poll.                       *)
THEOREM WakesKept ==
  ASSUME Finite
  PROVE  Spec => []WakesAreQueued
<1>1. ExecInv => WakesAreQueued
  BY DEF ExecInv
<1> QED
  BY <1>1, ExecInvInductive, PTL

(* The thread never blocks over a task that was woken, and run ends only    *)
(* when no future is pending (executor.rs:64-73).                           *)
THEOREM RunSound ==
  ASSUME Finite
  PROVE  Spec => [](BlocksOnlyWhenIdle /\ RunsEveryTask)
<1>1. ExecInv => BlocksOnlyWhenIdle /\ RunsEveryTask
  BY DEF ExecInv
<1> QED
  BY <1>1, ExecInvInductive, PTL

(* A future is dropped unfinished only when neither the queue, nor the      *)
(* reactor, nor a oneshot holds a waker of its task (waker.rs:38-40).       *)
THEOREM ForgottenOnly ==
  ASSUME Finite
  PROVE  Spec => DroppedOnlyWhenForgotten
<1> DEFINE Dropping(t) == future[t] = "pending" /\ future'[t] = "dropped"
           Unreachable(t) == /\ ~InQueue(t)
                             /\ \A u \in Tasks : joiner[u] # t
                             /\ \A e \in Events : owner[e] = t => event[e] = "fired"
<1>1. ExecInv /\ [Next]_vars => [\A t \in Tasks : Dropping(t) => Unreachable(t)]_vars
  <2> SUFFICES ASSUME ExecInv, Next, NEW t \in Tasks, Dropping(t)
               PROVE  Unreachable(t)
    OBVIOUS
  <2>1. EndPollForgotten(t)
    <3>1. StateOK
      BY DEF ExecInv
    <3>2. \A u \in Tasks : SpawnBefore(u) => FALSE
      BY <3>1 DEF SpawnBefore, StateOK
    <3>3. \A u \in Tasks : Client(u) => FALSE
      BY ZenonT(60), <3>1 DEF Client, Submit, TakeResult, Abandon, Join, DropHandle, Spawn, WakeSelf,
                  Finish, StateOK
    <3>4. ~BlockOn
      BY <3>1 DEF BlockOn, StateOK
    <3>5. Loop => \E u \in Tasks : EndPollForgotten(u)
      BY DEF Loop, Check, StartPoll, EndPoll, EnterWait, WaitWakes, WaitReturns, Notify
    <3>6. ~Stopped /\ \A e \in Events : ~KernelPosts(e)
      BY DEF Stopped, KernelPosts, vars
    <3>7. \A u \in Tasks : EndPollForgotten(u) => u = t
      BY <3>1 DEF EndPollForgotten, StateOK
    <3> QED
      BY <3>2, <3>3, <3>4, <3>5, <3>6, <3>7 DEF Next
  <2>2. current = t /\ refs[t] <= 2
    BY <2>1 DEF EndPollForgotten
  <2>3. ~InQueue(t) /\ Waits(t) = {} /\ Joins(t) = {}
    BY <2>2, HeldIsCounted DEF ExecInv
  <2>4. \A e \in Events : owner[e] = t => event[e] = "fired"
    BY <2>3, ExecutorAssumption DEF ExecInv, Links, Waits
  <2> QED
    BY <2>3, <2>4 DEF Joins
<1> QED
  BY <1>1, ExecInvInductive, PTL DEF Spec, DroppedOnlyWhenForgotten
===============================================================================
