--------------------------------- MODULE Calls ---------------------------------
(***************************************************************************)
(* Calls of CallTable.tla that run, are dropped at any await, and lose the *)
(* race with the kernel: what happens to the memory their operations point *)
(* to and to the descriptors they make.                                    *)
(*                                                                         *)
(* The reactor is that of Submission.tla seen from one operation: queued,  *)
(* with the kernel, completed, its result stored for the future.  An       *)
(* AsyncCancel only decides whether ECANCELED is a possible result.        *)
(***************************************************************************)
EXTENDS CallTable

CONSTANTS
  Clients,
  CallsMade,      (* The calls the clients make.                          *)
  Max,            (* Bound: addresses, repetitions, items of a stream.    *)
  Fds,            (* Descriptors the kernel may return (external).        *)
  Slots,          (* Slots it may return: those of the automatic range,   *)
                  (* which starts at manual_direct_files (external).      *)
  None

ASSUME CallsAssumption ==
  /\ CallsMade \subseteq AllCalls
  /\ None \notin CallsMade
  /\ Max \in Nat \ {0}
  /\ Fds \subseteq Nat
  /\ Slots \subseteq Nat

VARIABLES
  call,           (* The call of a client, or None.                       *)
  at,             (* The step it awaits.                                  *)
  turn,           (* The address, repetition or item it is at.            *)
  state,          (* new, awaiting, returned, failed, dropped             *)
  op,             (* none, queued, kernel, cqe, stored, done              *)
  ret,            (* The result of the operation.                         *)
  alive,          (* The memory of the operation that is still allocated. *)
  left,           (* Memory given back with another length.               *)
  made,           (* The descriptors made: none; cqe, stored; owned by    *)
                  (* the call, given to the caller; closing, closed; lost *)
  panic

vars == <<call, at, turn, state, op, ret, alive, left, made, panic>>

Turns == 1 .. Max

ECANCELED == -2
EEXIST == -4
ETIME == -1
ERROR == -3

Init ==
  /\ call = [c \in Clients |-> None]
  /\ at = [c \in Clients |-> 1]
  /\ turn = [c \in Clients |-> 1]
  /\ state = [c \in Clients |-> "new"]
  /\ op = [c \in Clients |-> "none"]
  /\ ret = [c \in Clients |-> 0]
  /\ alive = [c \in Clients |-> {}]
  /\ left = [c \in Clients |-> {}]
  /\ made = [c \in Clients |-> [i \in Turns |-> "none"]]
  /\ panic = FALSE

Step(c) == call[c].steps[at[c]]
IsLast(c) == at[c] = Len(call[c].steps)
Memory(o) == o.args \cup o.data
Multi(c) == call[c].again = "items"

(* The first poll of the Submission of a step. *)
Submit(c, o) ==
  /\ op' = [op EXCEPT ![c] = "queued"]
  /\ alive' = [alive EXCEPT ![c] = Memory(o)]

Start(c) ==
  /\ ~panic
  /\ state[c] = "new"
  /\ \E f \in CallsMade :
       /\ call' = [call EXCEPT ![c] = f]
       /\ Submit(c, f.steps[1])
  /\ state' = [state EXCEPT ![c] = "awaiting"]
  /\ UNCHANGED <<at, turn, ret, left, made, panic>>

-------------------------------------------------------------------------------
(***************************************************************************)
(* The reactor and the kernel.                                             *)
(***************************************************************************)
(* The descriptors of a client that are in state s, moved to state t. *)
Moved(c, s, t) == [i \in Turns |-> IF made[c][i] = s THEN t ELSE made[c][i]]

(* wait enters the kernel: operations and detached Closes are consumed. *)
Enter ==
  /\ ~panic
  /\ \E c \in Clients : op[c] = "queued" \/ \E i \in Turns : made[c][i] = "closing"
  /\ op' = [c \in Clients |-> IF op[c] = "queued" THEN "kernel" ELSE op[c]]
  /\ made' = [c \in Clients |-> Moved(c, "closing", "closed")]
  /\ UNCHANGED <<call, at, turn, state, ret, alive, left, panic>>

(* The results of an operation: every one may fail. *)
Successes(o) ==
  CASE o.makes = "fd"       -> Fds
    [] o.answer = "direct"  -> Slots
    [] o.answer = "one"     -> {1}
    [] o.answer = "length"  -> {0, 1}
    [] o.answer = "timeout" -> {ETIME}
    [] OTHER                -> {0}

Failures(o) == IF o = MkDirAt THEN {ERROR, EEXIST} ELSE {ERROR}

Canceled(c) == IF Step(c).cancels /\ state[c] = "dropped" THEN {ECANCELED} ELSE {}

Makes(c) == [made[c] EXCEPT ![turn[c]] = IF Step(c).makes = "none" THEN @ ELSE "cqe"]

Complete(c) ==
  /\ op[c] = "kernel"
  /\ op' = [op EXCEPT ![c] = "cqe"]
  /\ \/ \E r \in Successes(Step(c)) :
          /\ ret' = [ret EXCEPT ![c] = r]
          /\ made' = [made EXCEPT ![c] = Makes(c)]
     \/ \E r \in Failures(Step(c)) \cup Canceled(c) :
          /\ ret' = [ret EXCEPT ![c] = r]
          /\ UNCHANGED made
  /\ UNCHANGED <<call, at, turn, state, alive, left, panic>>

(* A connection of a multishot accept, with F_MORE. *)
CompleteMore(c) ==
  /\ op[c] = "kernel"
  /\ Multi(c)
  /\ turn[c] < Max
  /\ \E r \in Successes(Step(c)) : ret' = [ret EXCEPT ![c] = r]
  /\ made' = [made EXCEPT ![c] = Makes(c)]
  /\ turn' = [turn EXCEPT ![c] = @ + 1]
  /\ UNCHANGED <<call, at, state, op, alive, left, panic>>

(* What a Cancellation does not give back as it was allocated. *)
NotGivenBack(memory) == {m \in memory : GivenBack(m) # Length(m)}

(* Mutant: the result of a cancelled operation is stored, too. *)
NotifiedAlways(c) == "stored"

(* Completion::try_notify: a result is stored for the future; that of a    *)
(* cancelled operation is only consumed, and its Cancellation dropped.     *)
Notified(c) == IF state[c] = "awaiting" THEN "stored" ELSE "done"

Reap ==
  /\ ~panic
  /\ \E c \in Clients : op[c] = "cqe" \/ \E i \in Turns : made[c][i] = "cqe"
  /\ op' = [c \in Clients |-> IF op[c] = "cqe" THEN Notified(c) ELSE op[c]]
  /\ made' = [c \in Clients |->
                Moved(c, "cqe", IF state[c] = "awaiting" THEN "stored" ELSE "lost")]
  /\ alive' = [c \in Clients |->
                 IF op[c] = "cqe" /\ state[c] # "awaiting" THEN {} ELSE alive[c]]
  /\ left' = [c \in Clients |->
                IF op[c] = "cqe" /\ state[c] # "awaiting"
                THEN NotGivenBack(alive[c]) ELSE left[c]]
  /\ UNCHANGED <<call, at, turn, state, ret, panic>>

-------------------------------------------------------------------------------
(***************************************************************************)
(* The future of a call is polled and finds a result, or is dropped.       *)
(***************************************************************************)
Resumes(c) == ~panic /\ state[c] = "awaiting" /\ op[c] = "stored" /\ ~Multi(c)

(* Op::result: Ok or Err.  create_recursive goes on after EEXIST. *)
Ok(c) ==
  \/ Accepts(Step(c).answer, ret[c])
  \/ call[c] = CreateDirAll /\ ret[c] = EEXIST

Err(c) == Rejects(Step(c).answer, ret[c]) /\ ~Ok(c)

(* Mutant: a call keeps the raw descriptor while it goes on. *)
WrappedNever(c) == made[c]

(* The descriptor a result carries is wrapped by the code that gets it. *)
Wrapped(c) == Moved(c, "stored", "owned")

Advance(c) ==
  /\ Resumes(c) /\ Ok(c) /\ ~IsLast(c)
  /\ at' = [at EXCEPT ![c] = @ + 1]
  /\ Submit(c, call[c].steps[at[c] + 1])
  /\ made' = [made EXCEPT ![c] = Wrapped(c)]
  /\ UNCHANGED <<call, turn, state, ret, left, panic>>

(* More to read or write, or another component of the path. *)
Repeat(c) ==
  /\ Resumes(c) /\ Ok(c) /\ IsLast(c)
  /\ call[c].again = "last"
  /\ Step(c).answer = "length" => ret[c] > 0
  /\ turn[c] < Max
  /\ turn' = [turn EXCEPT ![c] = @ + 1]
  /\ Submit(c, Step(c))
  /\ UNCHANGED <<call, at, state, ret, left, made, panic>>

(* The call ends: its locals are dropped, but for what it returns. *)
Return(c) ==
  /\ Resumes(c) /\ Ok(c) /\ IsLast(c)
  /\ call[c] = ReadPath => ret[c] = 0 \/ turn[c] = Max
  /\ state' = [state EXCEPT ![c] = "returned"]
  /\ op' = [op EXCEPT ![c] = "done"]
  /\ alive' = [alive EXCEPT ![c] = {}]
  /\ made' = [made EXCEPT ![c] =
                [i \in Turns |-> IF @[i] \notin {"stored", "owned"} THEN @[i]
                                 ELSE IF call[c].gives THEN "given" ELSE "closing"]]
  /\ UNCHANGED <<call, at, turn, ret, left, panic>>

(* for_each_addr: the attempt is dropped and the next address tried. *)
NextAddress(c) ==
  /\ Resumes(c) /\ Err(c)
  /\ call[c].again = "address"
  /\ turn[c] < Max
  /\ turn' = [turn EXCEPT ![c] = @ + 1]
  /\ at' = [at EXCEPT ![c] = 1]
  /\ Submit(c, call[c].steps[1])
  /\ made' = [made EXCEPT ![c] = Moved(c, "owned", "closing")]
  /\ UNCHANGED <<call, state, ret, left, panic>>

(* The call returns the error. *)
Fail(c) ==
  /\ Resumes(c) /\ Err(c)
  /\ state' = [state EXCEPT ![c] = "failed"]
  /\ op' = [op EXCEPT ![c] = "done"]
  /\ alive' = [alive EXCEPT ![c] = {}]
  /\ made' = [made EXCEPT ![c] = Moved(c, "owned", "closing")]
  /\ UNCHANGED <<call, at, turn, ret, left, panic>>

(* The decoder panics: the descriptor in the result was never wrapped.     *)
(* The unwinding that follows is not modelled.                             *)
Panic(c) ==
  /\ Resumes(c) /\ Panics(Step(c).answer, ret[c])
  /\ made' = [made EXCEPT ![c] = Moved(c, "stored", "lost")]
  /\ panic' = TRUE
  /\ UNCHANGED <<call, at, turn, state, op, ret, alive, left>>

(* The results of a stream, in order.  Which of the descriptors an item is *)
(* was not kept: it may be any.                                            *)
NextItem(c, i) ==
  /\ ~panic /\ state[c] = "awaiting" /\ Multi(c)
  /\ made[c][i] = "stored"
  /\ \A j \in 1 .. i - 1 : made[c][j] # "stored"

TakeItem(c) ==
  /\ \E i \in Turns :
       /\ NextItem(c, i)
       /\ \E r \in Successes(Step(c)) : Accepts(Step(c).answer, r)
       /\ made' = [made EXCEPT ![c][i] = "given"]
  /\ UNCHANGED <<call, at, turn, state, op, ret, alive, left, panic>>

PanicOnItem(c) ==
  /\ \E i \in Turns :
       /\ NextItem(c, i)
       /\ \E r \in Successes(Step(c)) : Panics(Step(c).answer, r)
       /\ made' = [made EXCEPT ![c][i] = "lost"]
  /\ panic' = TRUE
  /\ UNCHANGED <<call, at, turn, state, op, ret, alive, left>>

EndStream(c) ==
  /\ ~panic /\ state[c] = "awaiting" /\ Multi(c)
  /\ op[c] = "stored"
  /\ \A i \in Turns : made[c][i] # "stored"
  /\ state' = [state EXCEPT ![c] = "returned"]
  /\ op' = [op EXCEPT ![c] = "done"]
  /\ UNCHANGED <<call, at, turn, ret, alive, left, made, panic>>

(* Mutant: the Op has the default cancel, which drops it. *)
HandedOverNothing(c) == {}

(* The memory a dropped future leaves allocated: what its Op hands to the  *)
(* Cancellation, as long as the operation has not completed.               *)
HandedOver(c) == IF op[c] = "stored" THEN {} ELSE alive[c] \cap Step(c).hands

(* The future is dropped: Submission::cancel moves the memory that the Op  *)
(* hands over into the Cancellation and drops the rest; a stored result is *)
(* dropped unread; the locals of the call follow.                          *)
Drop(c) ==
  /\ ~panic
  /\ state[c] = "awaiting"
  /\ state' = [state EXCEPT ![c] = "dropped"]
  /\ op' = [op EXCEPT ![c] = IF @ = "stored" THEN "done" ELSE @]
  /\ alive' = [alive EXCEPT ![c] = HandedOver(c)]
  /\ left' = [left EXCEPT ![c] =
                IF op[c] = "stored" THEN NotGivenBack(alive[c] \cap Step(c).hands) ELSE @]
  /\ made' = [made EXCEPT ![c] =
                [i \in Turns |-> CASE @[i] = "stored" -> "lost"
                                   [] @[i] = "owned"  -> "closing"
                                   [] OTHER           -> @[i]]]
  /\ UNCHANGED <<call, at, turn, ret, panic>>

(* The caller drops the File, TcpStream, ... it was given: OwnedFd::drop,  *)
(* OwnedDirect::drop.                                                      *)
DropHandle(c) ==
  /\ ~panic
  /\ \E i \in Turns :
       /\ made[c][i] = "given"
       /\ made' = [made EXCEPT ![c][i] = "closing"]
  /\ UNCHANGED <<call, at, turn, state, op, ret, alive, left, panic>>

Next ==
  \/ \E c \in Clients :
       \/ Start(c) \/ Complete(c) \/ CompleteMore(c)
       \/ Advance(c) \/ Repeat(c) \/ Return(c) \/ NextAddress(c) \/ Fail(c)
       \/ Panic(c) \/ TakeItem(c) \/ PanicOnItem(c) \/ EndStream(c)
       \/ Drop(c) \/ DropHandle(c)
  \/ Enter \/ Reap

Spec == Init /\ [][Next]_vars

-------------------------------------------------------------------------------
(***************************************************************************)
(* Properties.                                                             *)
(***************************************************************************)
Pieces == {"buf", "iovecs", "path", "target", "stats", "peer", "addr", "abs", "fd"}

(* Values, and which of them belong together: a result is only stored for  *)
(* a call that awaits it, and a call that has ended has nothing in memory. *)
TypeOK ==
  /\ call \in [Clients -> CallsMade \cup {None}]
  /\ turn \in [Clients -> Turns]
  /\ state \in [Clients -> {"new", "awaiting", "returned", "failed", "dropped"}]
  /\ op \in [Clients -> {"none", "queued", "kernel", "cqe", "stored", "done"}]
  /\ ret \in [Clients -> Int]
  /\ alive \in [Clients -> SUBSET Pieces]
  /\ left \in [Clients -> SUBSET Pieces]
  /\ made \in [Clients -> [Turns -> {"none", "cqe", "stored", "owned", "given",
                                   "closing", "closed", "lost"}]]
  /\ panic \in BOOLEAN
  /\ \A c \in Clients : IF call[c] = None THEN state[c] = "new"
                       ELSE at[c] \in 1 .. Len(call[c].steps)
  /\ \A c \in Clients :
       /\ op[c] = "none" <=> state[c] = "new"
       /\ op[c] = "stored" => state[c] = "awaiting"
       /\ state[c] \in {"returned", "failed"} => op[c] = "done" /\ alive[c] = {}

(* The buffers the kernel reads and writes while an operation runs are     *)
(* allocated until it completes, wherever its future is dropped (Op::cancel*)
(* of every operation, submission.rs: cancel, completion.rs: try_cancel).  *)
DataOutlivesOperation ==
  \A c \in Clients : op[c] \in {"queued", "kernel"} => Step(c).data \subseteq alive[c]

(* The kernel finds all an entry points to as it consumes the entry        *)
(* (op/mod.rs, the contract of Op: "those buffers must be valid until the  *)
(* sqe completes or ... ownership must be transferred").                   *)
EntryPointsToLiveMemory ==
  \A c \in Clients : op[c] = "queued" => Step(c).args \subseteq alive[c]

(* No descriptor is left open behind the callers' back: one that a call    *)
(* made is with the call while the call runs and, when it has failed, has  *)
(* been dropped or gives nothing, on its way to be closed.  There are two  *)
(* exceptions, and nobody closes what the result carries then: a future    *)
(* dropped before it has taken the result (op/net.rs, op/file.rs;          *)
(* completion.rs: try_notify, try_cancel), and a decoder that panics on it.*)
DescriptorsAccounted ==
  \A c \in Clients, i \in Turns :
    /\ made[c][i] \in {"stored", "owned"} => state[c] = "awaiting"
    /\ made[c][i] = "owned" => Multi(c) \/ call[c].again = "last" \/ i = turn[c]
    /\ made[c][i] = "given" => call[c].gives /\ (Multi(c) \/ state[c] = "returned")
    /\ made[c][i] = "lost" => state[c] = "dropped" \/ panic
    /\ made[c][i] = "cqe" => op[c] \in {"kernel", "cqe"}

(* Every result the kernel can give is one its operation expects           *)
(* (op/mod.rs: expect_zero, expect_fd, expect_direct, Nop; op/time.rs).    *)
(* The code does not keep this: see slot 0 and Timeout.                    *)
ResultsExpected == ~panic

(* What a cancelled operation leaves in its Cancellation is given back as  *)
(* it was allocated (cancellation.rs: the From implementations).           *)
CancelledMemoryFreed == \A c \in Clients : left[c] = {}

===============================================================================
