# inel: a verification of the runtime

inel is a single-threaded asynchronous runtime for Linux on io_uring. A thread
owns one executor and one reactor; tasks submit operations to the ring through
futures and are woken by their completions. The runtime is short, mostly
`unsafe`, and its correctness is in the order in which a handful of steps happen:
the kernel completes an operation while its future is being dropped, a key of the
slab is used again while a cancellation that names it is in flight, a task is
woken while it runs, a slot of the file table changes hands while an operation
that names it is queued, a buffer comes back from a read that was dropped. This
directory models the runtime in TLA+, from the slab of completions up to files,
sockets, buffer sets and buffered streams, checks it with TLC on small instances,
and proves the invariants it rests on with TLAPS for every number of tasks,
operations, keys, slots, buffers and bytes.

Paths below are relative to `src/crates/`; `mod.rs`, `completion.rs` and
`register.rs` are those of `inel-reactor/src/ring/`.

## 1. Inventory

| Component | State it keeps | Operations | Correct when |
|---|---|---|---|
| Completion table (`completion.rs`) | slab of `Completion` (Vacant, Single, Multiple, Cancelled, Finished), recycled result queues | insert, cancel, notify, result, is_empty | a key is looked up only while it is valid; an entry leaves when, and only when, both the kernel and the submission are done with it; queues are private and go back to the pool once |
| Ring (`mod.rs`) | `active`, `detached`, `canceled`, the io_uring, three slot registers | submit, submit_detached, cancel, check_result, wait, is_done, slots and buffer registration | counters are exact; `wait` asks for completions that must come; `is_done` is exact |
| Submission (`submission.rs`) | Initial, Submitted(key), Completed; the `Op` in a `ManuallyDrop` | poll, poll_next, drop | the `Op` is moved out once; memory lives as long as the kernel may use it; a result reaches its task |
| Operations (`inel-reactor/src/op/*`, `cancellation.rs`) | buffers, paths, addresses, descriptors | entry, result, cancel, entry_cancel | whatever the entry points to is in the `Cancellation`; no descriptor is lost |
| Slot registers (`register.rs`) | vacant list, allocated range | get, remove, is_full | no slot is handed out twice |
| Direct descriptors, chains (`source.rs`, `op/direct.rs`, `op/link.rs`) | slots of the fixed-file table, IO_LINK | open, accept, register, close, chain | a slot is reused only when the kernel is done with it |
| Buffer groups (`inel-reactor/src/group.rs`, `op/group.rs`, `inel/src/group.rs`) | buffers by id, cancelled buffers, an `Rc` per clone and operation | provide, select on read, give back, recycle, remove, release the id | every buffer is with the kernel or with one owner; the group outlives its reads and is then released |
| Buffers and views (`inel-reactor/src/buffer.rs`, `inel/src/buffer.rs`) | a box or fixed buffer and a range | stable pointer and size, view, unview | a view stays in its buffer |
| Executor (`inel-executor/src/*`) | queue of `Rc<Task>`, the `scheduled` flag, strong counts, oneshots | spawn, block_on, run, wake, clone, drop, join, detach | no wake is lost, no task is queued twice, counts are exact, the loop ends exactly when all tasks have |
| Buffered readers and writers (`inel/src/io/*`) | a view of a buffer, or the operation in flight that has it | fill, consume, write, flush, drop | bytes arrive in order and once; a flush that returns Ok has written all of them |
| Files, sockets, time (`inel/src/fs`, `net`, `time.rs`) | descriptors and sequences or chains of submissions | open, stat, read, write, listen, accept, connect, sleep | descriptors are closed on every path; every result is expected (it is not: section 6) |
| Adapters (`inel/src/compat`) | a buffered reader and writer each | poll_read, poll_write, glue | as for these |
| Global runtime (`inel/src/lib.rs`) | thread-local executor and reactor | init, spawn, block_on, run | the reactor is not borrowed twice |
| Interface, macro (`inel-interface`, `inel-macro`) | none | traits, `#[main]` | - |

How they interact: `Executor::run` drains its queue and calls `Reactor::wait`.
A poll of a task polls submissions, which call `Ring::submit` (with a clone of
the task's waker), `Ring::check_result` and, when dropped, `Ring::cancel`.
`wait` blocks in io_uring_enter and then hands every completion to the
completion table by its key; the table wakes the task (`Waker::wake`), which
puts it into the executor's queue. A join handle is the receiver of a oneshot
whose sender is in the task; it wakes the joining task in the same way. The
functions of `inel` are sequences of submissions, or several at once (chains); a
buffered reader or writer keeps one submission across the calls of its poll
functions; the reads of a buffer set share a group of buffers with the kernel,
through an `Rc` that the operation, or its Cancellation, holds too.

What is hard: everything but the kernel runs on one thread, so the interleaving
is between that thread and the kernel, and among tasks through the queue. A
future can be dropped in any state; a completion can be ahead of or behind the
drop, the cancellation and the reuse of the key; multishot operations complete
many times; `wait` trades the number of completions it blocks for against
deadlock; strong counts are moved through raw pointers; memory and buffers the
kernel uses change their Rust owner while it does. The list of hazards,
each at its line and with the properties aimed at it, is in `PROJECT.json`.

## 2. Modules

| Module | Models | Lines |
|---|---|---|
| `Operations` | constants of the reactor, results | `mod.rs:21-50` |
| `CompletionSet` | the slab, the result queues, `try_cancel`, `try_notify`, `take_result` | `completion.rs:28-246` |
| `Uring` | the kernel, external: submission queue, requests, completion queue, AsyncCancel by user_data, F_MORE, refused entries | - |
| `Ring` | submit, submit_detached, cancel, wait in four steps, handle_completions, is_done | `mod.rs:192-329` |
| `Submission` | Future, Stream and drop on top of the three; `Spec` is the whole reactor with its clients | `submission.rs` |
| `Mailbox` | the abstract promise: each operation has a mailbox, filled in order, read once | - |
| `SubmissionInv` | the inductive invariants | - |
| `SubmissionKeys`, `SubmissionSafety`, `SubmissionMailbox` | theorems about the reactor: keys; resources, counters, wakeups, cancellations; the refinement of `Mailbox` | - |
| `Executor` | queue, flags, wakers, join handles, the loop, with arbitrary futures and a reactor reduced to events | `inel-executor/src` |
| `ExecutorProofs` | theorems about the executor | - |
| `SlotRegister` | get, remove, is_full, as functions on a record | `register.rs:62-101` |
| `Flows` | the calls that submit linked entries, and what these are | `inel/src/fs/func.rs`, `inel/src/net/tcp.rs`, `op/mod.rs:134-167` |
| `LinkedKernel` | the kernel, external: chains, the file table | - |
| `DirectFiles` | manual slots under `exists`, `read_buf`, `write_buf`, `bind_direct`, and the close of direct streams | `inel/src/source.rs`, `func.rs:27-86`, `tcp.rs:82-100`, `361-369` |
| `DirectProofs` | theorems about the direct files | - |
| `OpTable` | what each operation points to, hands to its Cancellation, cancels, decodes and makes; decoders and Cancellations | `op/*.rs`, `cancellation.rs` |
| `CallTable` | the calls of files, sockets and time as sequences of operations | `inel/src/fs`, `inel/src/net`, `time.rs` |
| `Calls` | calls that run, fail, repeat and are dropped: memory and descriptors | `submission.rs`, `inel/src/source.rs`, `net/mod.rs` |
| `CallsProofs` | theorems about calls | - |
| `BufferGroup` | a `ReadBufferSet`, its clones, its reads and adapter, its end | `inel-reactor/src/group.rs`, `op/group.rs`, `inel/src/group.rs`, `reader/group.rs` |
| `BufferGroupProofs` | theorems about buffer groups | - |
| `ByteStream` | the abstract promise of a buffered stream | - |
| `Buffered` | buffered writers and readers with own or shared buffers at the two ends of streams | `inel/src/io/buffered`, `inel-reactor/src/buffer.rs`, `inel/src/group.rs` |
| `BufferedProofs` | `Buffered` implements `ByteStream` | - |
| `MCSubmission`, `MCExecutor`, `MCDirectFiles`, `MCCalls`, `MCBufferGroup`, `MCBuffered` | symmetry and small sets for TLC | - |

### The reactor

Every operation of the ring runs to its end on the reactor's thread and is one
action: `FirstPoll`, `PollPending`, `PollFuture`, `PollStream`, `DropInitial`,
`DropSubmitted`, `DropCompleted` are the arms of `Submission::poll`, `poll_next`
and `cancel` with everything they call in the ring, the table and the submission
queue. `Ring::wait` is the exception because the kernel works while the thread
is inside it: `Wait` computes `want`, `EnterSubmit` hands over one entry,
`EnterRefused` stops early behind an entry the kernel refuses (io_uring_enter
then does not wait), `EnterReturn` leaves when enough completions are there,
`Reap` is one iteration of `handle_completions`, `WaitReturns` its end.
`KernelCompletes` and `KernelPostsMore` happen at any time.

The state is the code's: `slab`, `queues` and `unused` are `CompletionSet`,
`active`, `detached`, `canceled` are the fields of `Ring`, `state` is
`SubmissionState`. Ghosts: `owner` says who holds an operation's resources (the
`Op` in the submission, its `Cancellation`, the caller who got the result, or
nobody), `takenTwice` records a second `ManuallyDrop::take`, `delivered` the
results a submission has returned, `woken` the tasks whose waker was called and
who have not been polled to Pending since. `panic` is the first panic; nothing
moves after it. A payload is abstracted to its number and whether F_MORE was set.

The slab may give any vacant key to a new entry, which is more than
`slab::Slab` does (it prefers the last one freed): the properties do not depend
on the choice. A submission that panics because the submission queue is full is
modelled (`queue_full`), unwinding after it is not.

### The executor

A future is arbitrary: between `StartPoll` and `EndPoll` the current task may
`Submit`, `TakeResult` or `Abandon` events, `Join`, `DropHandle`, `Spawn`,
`WakeSelf` or `Finish`, in any order. An event stands for a submission, with the
waker the reactor holds; `KernelPosts`, `WaitWakes`, `Notify` and `WaitReturns`
are what `wait` does to wakers. `refs` is the strong count of each `Rc<Task>`,
changed only where the code clones or drops one: the queue's entry, the loop's
own reference and its waker, the waker in an event, the waker in a oneshot.
`IsDone` is `sender_count() == 1`: a task holds a clone of the sender until it is
freed. Dropping the last reference of a pending task (`EndPollForgotten`) drops
its future with its submissions, its join handles and the sender of its oneshot,
which wakes the joiner. The ghost `unpolled` is the set of tasks that were woken
after their last poll began.

A task that is freed while it is pending can have events that have fired and were
not taken; an event that is still armed holds a reference. This is a theorem
(`ForgottenOnly`), not an assumption.

### Direct files and chains

`OwnedDirect::reserve` takes an index from the register; operations of the same
flow then name the file by this index before it exists, and IO_LINK is to order
them: open, then read. A flow is one call of `exists`, `read_buf`, `write_buf`,
`bind_direct` (with one address) or the drop of a `DirectTcpStream`, or any
operation of another task (`Others`). `Steps` lists what it submits and `Linked`
which entries carry the flag. `Start` is the first poll of the flow's future: the
slot is reserved and the join polls every submission, so all entries are pushed
before anything else runs. `Finish` is the poll that finds all results there;
`DropFlow` drops the future in the middle: each unfinished submission asks for an
AsyncCancel where its `Op` has one (`entry_cancel`), then `OwnedDirect::drop`
releases the slot. `DropListener` and `DropStream` are the drops of what
`bind_direct` and `accept` returned.

`LinkedKernel` is the same io_uring as `Uring`, with other things abstracted:
keys and counters are gone, and chains and the file table are there. A submission
is cut into chains; `IssueChain` issues the head of the first one, `Succeed` lets
the next be issued (`Issue`), `Break` cancels the rest. An operation looks its
file up when it is issued (`FileOf`); the ghost `used` records whose file it
found. One fact about the kernel is assumed because the code needs it:
`bind_direct` does not link its socket to the bind, so the socket must be
created while its entry is consumed (`CreateSocket`).

### Operations and calls

Every operation may fail, and a descriptor or slot that a success makes may be 0
(stdin closed; no manual slots). `OpTable` is the table of `inel-reactor/src/op`: one row per operation with the
memory its entry points to (`args`: read as the entry is consumed; `data`: used
until it completes), what `Op::cancel` moves into the Cancellation, whether there
is an AsyncCancel, which decoder gets the result, and which descriptor a success
makes. `CallTable` has a row for each asynchronous function of `inel` that awaits
its operations one after the other. In `Calls` each client makes one of them:
`Start` and `Advance` submit, `Enter`, `Complete`, `CompleteMore` and `Reap` are
the reactor and the kernel seen from one operation, `Repeat`, `NextAddress`,
`Return` and `Fail` are what the function does with a result, `Panic` and
`PanicOnItem` what a decoder does with one it does not expect, `TakeItem` and
`EndStream` read a multishot accept, `Drop` is the drop of the future at any
await, and `DropHandle` the drop of what was returned. `alive` is the memory of
the current operation that is allocated, `made` follows each descriptor:
completed, stored for the future, owned by the call, given to the caller, closing
(a detached Close is queued), closed, or lost.

### Buffer groups

The kernel selects a buffer of a group by its id when a read has data, so an id
must stand for one buffer from `put` to `take`, and a read that is dropped must
give its buffer back. `slab` and `cancelled` are the fields of `BufferStorage`;
`pending` and `kernel` are the buffers provided and available; each client has at
most one read. `Provide` is `put` with the ProvideBuffers it submits; `Finish`,
`GiveBack`, `Keep` and `Read` are `ReadBufferSet::read` and `insert`, and, for the
`Adapters`, `create_future` and `post_consume` of `GroupBufReader`. `DropRead` and
`Reap` consume the result of a dropped read into `cancelled`, from where the next
read recycles it. `Holds` counts the `Rc`: when the last one goes (`DropInner`), a
task removes the buffers (`Ask`), the kernel answers (`Enter`), and the id is
released (`Release`), with the assertion that as many were removed as were there.

### Buffered streams

A stream has a writer and, if it is in `Read`, a reader. `PollWrite`,
`BeginFlush`, `FlushDone`, `WriteAfterFlush`, `FlushFailed` and `FlushNothing` are
the branches of `poll_write` and `poll_flush`; a call that returns Pending leaves
the writer `pending`, and the next call, whichever it is, finds the result: that
is how one call is given up and another made. A `GroupBufWriter` obtains a buffer
before it stores a byte (`Obtain`) and returns it after a flush (`ReturnBuffer`).
`BeginFill`, `FillDone` and `Consume` are the reader's. Bytes are numbers in the
order in which the writer accepts them. The completion of a write or a read and
the poll that finds it are two steps.

## 3. What TLC checks

| Run | Instance | Shows |
|---|---|---|
| `single` | three awaited operations (one without a cancelling entry), one detached request, three keys, a submission queue of four that can fill up | `KeysStayValid`, `ResourcesOutliveKernel`, `CountersExact`, `CancelHitsItsTarget`, `IsDoneIsExact`, `DroppedNeverWoken`, `TypeOK` |
| `stream` | two multishot streams with one F_MORE completion each and an awaited operation, two keys, one queue in the pool and room for a second, fair | `RefinesMailbox`, `NoLostWakeup`, `OpTakenOnce`, `IsDoneIsExact` (with result queues, which `single` has none of), `CompletionReachesItsTask`, `Drains` |
| `executor` | three tasks, one event, each task wakes itself at most once, fair | `QueueExact`, `WakesAreQueued`, `RefsExact`, `RunsEveryTask`, `DroppedOnlyWhenForgotten`, `EveryWakeIsPolled`, `CompletionIsHandled`, `TypeOK` |
| `direct` | `exists`, `read_buf`, `write_buf` and `bind_direct` at once, two manual slots, nothing dropped in the middle | `SlotsExclusive`, `IsFullIsExact`, `UsesItsOwnFile`, `SlotsUnused`, `TypeOK` |
| `chains` | two listeners, a closing stream and an operation of another task that may be dropped, two manual slots | `OthersUndisturbed`, `ListenerKeepsItsSocket` |
| `calls` | two clients, each any of 27 calls, two addresses, repetitions or items, descriptors 0 and 3, slots 0 and 1 | `DataOutlivesOperation`, `DescriptorsAccounted`, `TypeOK` |
| `groups` | one caller of read and insert, one buffered reader, two buffers (one of them in the set from the start), two ids, fair | `IdsAccounted`, `OneOwner`, `GroupOutlivesReads`, `RemovedAll`, `GroupIsReleased`, `TypeOK` |
| `buffered` | two writers over one shared set, one of them read by a reader, buffers of two bytes, three bytes each | `RefinesByteStream`, `BuffersExclusive`, `TypeOK` |
| `drop_armed`, `reused_slot`, `trailing_link`, `dangling_entry` | - | expected violations, section 6 |

Why the bounds are enough to be of interest. A key can only be confused by two
operations, one that leaves it late and one that takes it; the third lets a
cancellation of either be in flight meanwhile. One F_MORE completion before the
last one is the least that leaves an entry in Multiple with results unread, with
the kernel not done, and with the order of results visible; one queue in the
pool and a second created on demand reach both branches of
`ResultQueues::handle`. Three operations over two keys make each key used again,
by a stream after an awaited operation and the other way round. The submission
queue of `single` holds four of the seven entries that could be in it, so every
push can fail. Three tasks are the least for a joiner, the task it joins and a
third that drops or spawns either; the event can be posted, handled and abandoned
among all of it. `MaxYields` bounds how often a task wakes itself: a task that
does so for ever keeps the drain of `executor.rs:66` from ending and starves the
reactor, a fact about the code that `CompletionIsHandled` excludes by this bound.
Each operation, detached request and task is used once; keys, queues and events
are reused.

In `calls` two clients are enough because calls share only the reactor, whose
`Enter`, `Reap` and panic concern all of them; two turns give one failure and one
success, or one repetition and an end, or an item that is read and one that is
not; 0 is the descriptor or slot that the decoders panic on, the other one stands
for the rest. In `groups` two readers compete for two buffers and two ids: both can be
with the kernel, one can be selected by a read that was dropped while the other
is recycled, and a buffer can be inserted under the other's old id. In
`buffered` three bytes do not fit into a buffer of two, so a flush in the middle,
a write after it, a short read and a full buffer all happen; the set has one
buffer, so the second writer has one made.

In `direct` four flows share two slots, so `reserve` runs out, slots are returned
in an order other than that in which they were taken, and every slot is used
again; each flow is used once. `chains` leaves out `read_buf` and `write_buf` and
`direct` leaves out other tasks, because `OthersUndisturbed` is false when both
are present, which is what `trailing_link` shows; `Droppable` is empty in
`direct` for the same reason (`reused_slot`).

The passing runs of the reactor and the executor check deadlock too. The runs of
`DirectFiles`, `Calls`, `BufferGroup` and `Buffered` do not: flows, calls, sets
and streams are used once, so the system stops when all have ended.

`RefinesMailbox` is the refinement of `Mailbox!Spec` under the mapping at the
end of `Submission.tla`: an operation's mailbox is open while its entry is Vacant
or Multiple with more to come, its content is the result of a Single or the queue
of a Multiple entry. That results go to the right stream, in order and once, in
spite of reused keys and queues, is the content of this property.

`RefinesByteStream` is the refinement of `ByteStream` by every stream, with the
identity on its four variables: what was accepted, what a flush has confirmed,
what the sink has, what the reader handed out. The rest (views, operations in
flight, results not looked at, buffers that change hands) must never show in them.

### Fairness

`FairSpec` of `Submission`: the executor calls `wait` over and over, after every
woken task has been polled (`executor.rs:64-73`; in TLA+, `FairNext`, which is
`Next` with `DrainBeforeWait`, and the fairness of `Drained /\ Wait`), a woken task is polled, and the thread does
not stop inside `wait`. Of the kernel it is assumed that it takes what it is
given and ends every request that was cancelled by an AsyncCancel, is detached,
or has no cancelling entry (these are operations that do not block). Nothing
makes a live operation complete, and nothing makes the kernel refuse an entry.

`Drains` assumes more than `Executor::run` gives: the loop of `executor.rs:64` calls
`wait` for the last time after the last task has ended, whether or not the reactor
is done then. `Drains` says that a caller of `wait` who goes on, as the tests of the
reactor do, reaches `is_done`; it does not say that `run` returns with a reactor
that is done.

`FairSpec` of `Executor`: `block_on` is called, every poll returns, and the loop
goes on. Nothing makes the kernel complete an event and nothing is assumed of
futures.

`FairSpec` of `BufferGroup`: `wait` is called (`Enter`, `Reap`), the spawned task
is polled (`Ask`, `Release`), and a read whose future was dropped completes, since
its AsyncCancel is executed (`Complete(c) /\ client[c] # "awaiting"`). A read that
somebody awaits may wait for its data for ever. `GroupIsReleased` thus speaks of a
program that goes on: a group whose last read completes after the last `wait` of
`run` stays, and the task that would release it is not spawned.

## 4. What is proved

All proofs are hierarchical TLAPS proofs checked with SMT, Zenon and LS4.

*Reactor* (any sets of operations, keys and detached requests, any sizes):

- `StateCorrect`: types; queue handles are in range; completions of operations
  carry keys.
- `IInvInductive`, `KeysValid`: assuming `DropArmed = FALSE`, no lookup of a key
  fails and no `unreachable!` is reached. `KeysStayValid` is not inductive. What
  makes it so (`SubmissionInv`) relates five things: each request is at most once
  in the submission queue and ends at most once in the completion queue
  (`SqOnce`, `CqOnce`), an AsyncCancel is pushed only for a dropped operation
  (`PushedOnce`), the slab's entry at an operation's key is the one that its
  state and the kernel's progress call for, and two operations with an entry have
  different keys (`Entries`), and result queues are private to their entries and
  disjoint from the pool (`QueueInv`). A run that panicked on a full queue has
  stopped between the two halves of a submit, so the invariant is a disjunction:
  `Sound`, or `Stopped`.
- `OwnersInductive`, `ResourcesSafe`, `OpsTakenOnce`: assuming besides that no
  multishot operation is awaited as a Future (`Awaited \cap Multishot = {}`),
  resources are alive as long as the kernel may use them, and no `Op` is taken
  twice.
- `CountersCorrect`, `TypesCorrect`: assuming `DropArmed = FALSE` and finite sets,
  `active` and `detached` are exactly the numbers of outstanding requests, so the
  `u32`s never underflow. The proof counts the outstanding requests step by step
  with the cardinality theorems.

The next four groups assume `DropArmed = FALSE` only (`DoneIsExact` finite sets as
well, because it compares counters). Each has an invariant of its own on top of
`IInv`, in `SubmissionInv`:

- `HeldInductive`: `HeldInv` says that nothing in the table leaks. Every entry has
  a submission waiting for it or, when cancelled, an armed operation whose last
  completion removes it (`EntriesHeld`); every result queue is unused or in one
  entry (`QueuesHeld`). `IInv` goes from operations to entries; this is the way
  back. `NoLostWakeup` is a part of it.
- `WakeupsKept`, `DroppedStaysAsleep`, `DoneIsExact`: a result that has not been seen
  has woken its task; a dropped submission is never woken, since the waker an
  entry has is of an operation that waits; `is_done`, which looks at the slab,
  the free queues and two counters, is true exactly when nothing is outstanding
  and nobody waits (from right to left needs `HeldInv`: no entry is left over).
- `CancelsHit`: an AsyncCancel names its target by a key, and the key is free for
  the next submission as soon as the target has completed, with the AsyncCancel
  still queued. `CancelInOrder` is why it cannot hit that next one: the
  AsyncCancel is in front of every other operation with its key in the
  submission queue, and none of these is in the kernel. It is preserved
  because requests are pushed behind and taken from the front.
- `NumbersInductive`: the kernel numbers the completions of an operation. `NumberInv`
  says that those in the completion queue are the ones after what the mailbox of
  the operation has received, in that order, as long as somebody waits for them.
- `MailboxRefined`: `Spec` implements `Mailbox`. Every step changes the mailbox of
  at most one operation, in one of five ways (the first poll, a completion that is
  handled, a poll that returns from a Future or from a Stream, a drop), which are
  `Open`, `Receive`, `Take` (twice) and `Drop` of `Mailbox`; the other steps are
  stutters. That the result
  which arrives is the next one is `NumberInv`; that it arrives in the right
  mailbox, although keys and result queues are reused, is `IInv`.

`DropArmed = FALSE` and `Awaited \cap Multishot = {}` are not conveniences: the
violation runs show that the theorems are false without them. Finiteness is
needed to count.

*Executor* (finite sets of tasks and events, needed for cardinalities):

- `ExecInvInductive`: the invariant is `StateOK`, `QueueExact`, `WakesAreQueued`,
  `BlocksOnlyWhenIdle`, `Links`, `RefsExact`, `PendingHeld` and `RunsEveryTask`.
  `QueueExact` with `WakesAreQueued` is inductive over the queue alone; the
  counts need both, since a wake adds a reference exactly when the flag is clear,
  and need `Links`: a waker in a oneshot is that of the handle's holder, and an
  armed event has an owner. `PendingHeld` is what turns `is_done`, a statement
  about counts, into `RunsEveryTask`, one about futures.
- `ExecutorTypes`, `QueuedOnce`, `CountsExact`, `WakesKept`, `RunSound`: the safety properties of the run
  `executor`, each from the invariant.
- `ForgottenOnly`: the action property `DroppedOnlyWhenForgotten`.

*Direct files* (any sets of flows, any number of slots):

- `SlotsAreExclusive`: a manual slot has one owner, and what the register has left
  is nobody's, without duplicates. The invariant `SlotInv` adds that every index
  below `len` is vacant or held (`Accounted`): without it, neither `get` with an
  empty stack nor `is_full` could be judged.
- `FullMeansUnheld`: `is_full` is true exactly when no slot is held. By `SlotInv`
  the vacant list is an injection of positions into the indices below `len`, so
  it is onto, and nothing is held, exactly when the two lengths are equal.
- `DirectTypes`: types, from the invariant `DirectInv`: every request is in the
  submission queue or in one chain, at most once, and its stage says where
  (`Queues`); what a flow has not submitted is nowhere (`Fresh`); the slot a
  request names is fixed before it is queued (`Named`).
- `SlotsNeverReused`: assuming `Droppable \cap Manual = {}` (every flow that holds
  a slot is polled until it returns), a slot that is handed out is named by no
  unfinished operation of another flow. Besides `DirectInv` it needs `Answered`:
  a flow that has returned has all its results. The run `reused_slot` shows that
  the theorem is false without the assumption.

The other three are about chains. Every step has one of six effects on the queue
and the kernel (`StepEffects`: a client pushes; a chain is consumed, and its head
issued; a later entry is issued; an operation succeeds; one ends and breaks its
chain; results are reaped), so each invariant below has one lemma per effect.

- `UsesOwnFile`, assuming `Droppable \cap Manual = {}`. `ChainInv` holds without
  assumptions: what a flow submits behind a link is behind it in the queue and
  in the chain (`BehindLinks`), is issued only after the link succeeded
  (`AfterLinks`), and has no result before it ends (`NoEarlyResult`). On top of it
  `FileInv`: a flow whose file was opened has it in its slot as long as it has the
  slot, since by `SlotsUnused` nobody else makes or closes a file there; so a
  read that is issued behind its open finds that file.
- `OthersLeftAlone`, assuming `Readers = {}` and `Writers = {}`: no entry carries a
  link and ends its flow. Then what is chained behind an entry is of the same
  flow, entry by entry (`LinksOwn`), and a chain that breaks cancels nobody else.
  This holds however other tasks are dropped. `trailing_link` shows that it is
  false with `read_buf` or `write_buf`.
- `ListenersKept`, under both assumptions. The entry of the socket is not linked to
  the bind; the code relies on the order of the queue. `BindInv` says that this is
  enough: a bind is directly behind its socket until that has been created, and is
  never behind a link, so it is issued when the socket is there.

*Calls* (any callers, any bound on addresses and repetitions, any descriptors and
slots, 0 among them):

- `CallsInvInductive`: first the tables are proved to be as the calls need them
  (`Tables`): what an operation uses until it completes is handed over, a success
  that makes a descriptor is never decoded as an error, a stream has one operation
  without memory, the last operation of a repeated call makes nothing. From this,
  for each client: where its operation is (`Place`), what of its memory is allocated
  (`Keeps`), and where each descriptor is (`Accounts`); a descriptor on its way to
  the future is the success of the operation that is there now, so an error never
  drops one, and only a decoder that panics does.
- `DataOutlives`, `NoDescriptorLeft`, `CallTypes`: the properties of the run `calls`.

*Buffer groups* (any clients, buffers and ids), assuming `Rejected = {}`, that the
kernel takes every buffer it is provided, and `IsFiniteSet(Ids)`, for the count:

- `GroupInvInductive`: the invariant is `TypeOK`, `IdsAccounted`, `OneOwner`,
  `GroupOutlivesReads`, `Beginning` (a set that is not open yet has no cancelled
  buffer and no read) and `Removal` (what is asked for, and what the kernel has
  answered, is the number of buffers present). Every action that provides buffers
  does two things at once: it makes of the slab some s, and adds entries to it.
  So the proof of each has two halves: that s agrees with the entries and results
  there are (`Fits`) and with the other owners (`Owns`), and that vacant keys can
  be handed out on top (`ProvideFits`).
- `BuffersAccounted`, `BuffersOwned`, `GroupsOutlive`, `GroupTypes`: the safety
  properties of the run `groups`.
- `RemovalExact`: the assertion in `RemoveBuffers` holds. The entries with the
  kernel and the ids present are in bijection once all reads have gone
  (`ProvidedArePresent`), so the kernel, which removes as many as it has up to the
  number asked for, removes that number.

*Buffered streams* (any streams, capacities, buffers and numbers of bytes):

- `BufferedInvInductive`: the sink has the first bytes accepted, and the writer's
  view the ones from `From(s)` on, which is where the sink ends unless a write is
  done and has not been looked at (`WriterInv`); what was handed out, followed by
  the reader's view or by what its read has brought, is the beginning of the sink
  up to what reads have taken (`ReaderInv`). Runs of consecutive bytes are cut and
  joined by the lemmas about `Bytes`.
- `ImplementsByteStream`: initial states map to initial states, and each action,
  under that invariant, to a step of `ByteStream` or a stutter: one lemma per
  action. With it, nothing that was accepted is lost, repeated or overtaken before
  the reader has it, as long as the writer is not dropped, and every flush that
  returned Ok told the truth.
- `BuffersNotShared`, `BufferedTypes`: the other properties of the run `buffered`.

## 5. Only model-checked

Every safety invariant, action property and refinement of the passing runs is
stated by a theorem, most under named assumptions on the constants. What remains
with TLC:

- All liveness (`CompletionReachesItsTask`, `Drains`, `EveryWakeIsPolled`,
  `CompletionIsHandled`, `GroupIsReleased`). Liveness under fairness and ENABLED
  are beyond this prover.

## 6. Where code and intention part

| Run | Property | What happens |
|---|---|---|
| `drop_armed` | `KeysStayValid` | a dropped multishot operation loses its entry with the first completion after the cancellation, even one with F_MORE (`completion.rs:216`); the next one panics with "unexpected key" or reaches another submission |
| `reused_slot` | `SlotsUnused` | a dropped flow returns its slot while the open that fills it is in flight (`inel/src/source.rs:83`); the next owner's file can be replaced by the late one |
| `trailing_link` | `OthersUndisturbed` | `read_buf` and `write_buf` link their last operation too (`func.rs:52`, `77`): a short read cancels an operation of another task |
| `dangling_entry` | `EntryPointsToLiveMemory` | a `Connect` that is dropped before the next `wait` leaves an entry in the submission queue that points to the address in the dropped `Op` (`op/net.rs:221`; likewise `Timeout`, `Bind`, `RegisterFile`, and the iovecs of vectored reads and writes) |

The modules state more expectations that the code does not meet. They have no run
of their own; each fails on a small variation of a configuration above (name it
as the only INVARIANT, or PROPERTY for `DeadlockIsReported`):

- `OpTakenOnce`, with a multishot operation in `Awaited`: awaited as a Future it
  gives up its `Op` with a result that has F_MORE, and again when it is dropped
  (`submission.rs:71`, `101`).
- `ResourcesOutliveKernel`, with the constants of `drop_armed.cfg`: the completion
  with F_MORE that removes the entry also drops the Cancellation
  (`completion.rs:218`) while the kernel still holds the operation.
- `BlocksUntilOneCompletion`, with two awaited operations: `wait` is documented to
  block until one or more completions (`mod.rs:274`); after cancellations it waits
  for all of those with a completion of another task unread (`mod.rs:285-289`).
- `DeadlockIsReported`, under `FairSpec` with three tasks and `MaxYields = 0`:
  tasks that join each other keep each other alive; `run` spins, and block_on's
  message about a deadlock never comes (`executor.rs:57`, `64`).
- `UnregisteredWhenFull`, with one slot, one `exists` and one listener: `is_done`
  is documented to mean that direct descriptors are unregistered (`mod.rs:195`); a
  released slot keeps its file (`mod.rs:369`).
- `CancelsAreIssued`, with one droppable `read_buf`: the AsyncCancel of a linked
  read joins the chain behind it and waits for its own target (`mod.rs:260`).
- `WritesAreWhole`, with one `write_buf`: a short write fails its assertion
  (`func.rs:61`). `Buffered` has the same assertion of `poll_flush`
  (`writer/generic.rs:120`) as its `panic`.
- `StreamsClosed`, with one stream: the close of a dropped direct stream is linked
  to a shutdown that may fail (`tcp.rs:366`), and is then cancelled.
- `CancelledMemoryFreed`, with `OneStat` for the calls made, or one with a path: a
  Cancellation made from a `Box<T>` gives back a `Box<()>`, which frees nothing,
  and one made from a `CString` frees it without its NUL (`cancellation.rs:141`).
- `ResultsExpected`, with the constants of `calls.cfg`: a reactor without manual
  slots, as `inel/tests/unit/main.rs:85-88` builds one, gets slot 0, which
  `expect_direct` takes for an impossible result (`op/mod.rs:199`), as `expect_fd`
  does descriptor 0; `Timeout` expects to time out or to be cancelled, and panics in
  a debug build when the kernel refuses it (`op/time.rs:27`). `Nop` asserts the same
  way (`op/mod.rs:128`), though the kernel has little reason to fail one.
- `RemovedAll`, with `Rejected = {b1}`: a buffer whose ProvideBuffers failed,
  detached and unobserved, is counted as present (`op/group.rs:83`).

Facts of the code about which nothing in the repository says otherwise: a result
that carries a descriptor and is dropped unread leaks it (`made = "lost"` in
`Calls`), and so does one whose decoder panics; that panic finds the `Submission` in
state Initial with its `Op` taken (`submission.rs:25`, `101`), so that the unwinding
drops the `Op` once more; `poll_close` does not flush, and `compat/hyper.rs:72-74` shuts down a
connection with it (`writer/generic.rs:150`); `register_buffer` does not return
its slot when the kernel refuses (`mod.rs:336`), so `is_done` stays false
(`mod.rs:196`); `reserve` panics when all manual slots are taken.

## 7. Not modelled, and why

- *In the reactor*: an interrupted io_uring_enter (`mod.rs:304` panics on EINTR),
  completion queue overflow, unwinding after a panic, a poll after the result was
  returned, a `Submission` that moves to another task (its waker is that of the
  first poll). The order in which the slab hands out keys is not relied on, and
  that of flume only as FIFO.
- *Registration of fixed buffers* (`register_buffer`, `unregister_buffer`): one
  kernel call around `SlotRegister`, without a future; `is_done` for them is the
  same `is_full`. `BufReader::fix` and `BufWriter::fix` (`reader/stable.rs:32`,
  `writer/stable.rs:39`) take an idle adapter apart, register its buffer and make a
  fixed adapter of it: the adapters are modelled, the move between them is not, nor
  is the buffer with its unread or unwritten bytes that is dropped when the kernel
  refuses the registration. The pointer arithmetic of arbitrary views is `unsafe` memory
  access, not a state.
- *Chains with keys*: `LinkedKernel` has no keys and `Uring` no chains. The product
  is too large for TLC, and nothing in the code relates the two.
- *`ReadGroupMulti`*, which nothing in `inel` uses, and `BufferShareGroup`, which
  forwards to a `ReadBufferSet` and a `WriteBufferSet`.
- *`Calls`* has no chains and no manual slots: the calls that use these are the
  flows of `DirectFiles`.
- *`WriteBufferSet` used directly*: `get`, `insert` and `write` called by the program
  (`inel/src/group.rs:143-159`); `Buffered` has the set under its `GroupBufWriter`s.
- *More than 65536* groups, or buffers of one set, where ids are cut to 16 bits;
  writers of capacity 0 (`poll_write` would recurse for ever); a `with_buffers` of
  more buffers than the submission queue holds.
- *Global runtime*: four functions that forward to a thread-local executor and
  reactor. What could go wrong there is a call of the reactor inside a call of the
  reactor, and the modules take each call as one step.
- *Compatibility adapters*: forward polls to the buffered readers and writers and to
  hyper, rustls and axum, and have no protocol of their own.
- *Interface, macro*: no state.
