------------------------------ MODULE DirectFiles ------------------------------
(***************************************************************************)
(* Direct descriptors and chained operations: OwnedDirect (inel's          *)
(* source.rs) on top of the register of manual slots (register.rs), used   *)
(* by fs/func.rs and net/tcp.rs.                                           *)
(*                                                                         *)
(* A flow is dropped in the middle only if it is in Droppable.  The size   *)
(* of the submission queue, keys and counters are the subject of Ring.tla. *)
(***************************************************************************)
EXTENDS LinkedKernel, SlotRegister, FiniteSets

CONSTANT Droppable

ASSUME DroppableAssumption == Droppable \subseteq Flows \ Streams

VARIABLES
  direct,         (* Ring.direct_files                                    *)
  status,         (* new, busy, open (a listener, a stream), done, dropped *)
  pc,             (* user; entering or waiting, in wait.                  *)
  panic

vars == <<kernelVars, slot, direct, status, pc, panic>>

Init ==
  /\ InitKernel
  /\ slot = [f \in Flows |-> IF f \in Streams THEN f ELSE None]
  /\ direct = NewRegister
  /\ status = [f \in Flows |-> IF f \in Streams THEN "open" ELSE "new"]
  /\ pc = "user"
  /\ panic = "none"

Running == pc = "user" /\ panic = "none"

OperationsOf(f) == [i \in DOMAIN Steps(f) |-> Operation(f, Steps(f)[i])]

(* The first poll: a slot is reserved, and the join of the chain's futures *)
(* submits all of them.                                                    *)
Start(f) ==
  /\ Running
  /\ f \in Manual
  /\ status[f] = "new"
  /\ HasSlot(direct, Size)
  /\ slot' = [slot EXCEPT ![f] = SlotOf(direct)]
  /\ direct' = AfterGet(direct)
  /\ status' = [status EXCEPT ![f] = "busy"]
  /\ Push(OperationsOf(f))
  /\ UNCHANGED <<pc, panic>>

(* OwnedDirect::reserve().unwrap() without a slot. *)
StartWithoutSlot(f) ==
  /\ Running
  /\ f \in Manual
  /\ status[f] = "new"
  /\ ~HasSlot(direct, Size)
  /\ panic' = "no_slot"
  /\ UNCHANGED <<kernelVars, slot, direct, status, pc>>

StartOther(f) ==
  /\ Running
  /\ f \in Others
  /\ status[f] = "new"
  /\ status' = [status EXCEPT ![f] = "busy"]
  /\ Push(OperationsOf(f))
  /\ UNCHANGED <<slot, direct, pc, panic>>

(* OwnedDirect::drop of a manual slot: it is released, and that is all. *)
Release(f) == direct' = AfterRemove(direct, slot[f], Size)

(* Mutant: the flow returns with the first result. *)
ReturnedEarly(f) == status[f] = "busy" /\ \E k \in StepsOf(f) : stage[Operation(f, k)] = "done"

(* Every operation of the flow has returned its result to it. *)
Returned(f) == status[f] = "busy" /\ \A k \in StepsOf(f) : stage[Operation(f, k)] = "done"

AllOk(f) == \A k \in StepsOf(f) : result[Operation(f, k)] = "ok"

(* write_buf asserts that all of the buffer was written. *)
ShortWrite(f) ==
  /\ f \in Writers
  /\ result[Operation(f, "open")] = "ok"
  /\ result[Operation(f, "write")] = "short"

(* Mutant: a listener does not keep its slot. *)
FinishReleasing(f) ==
  /\ Running
  /\ Returned(f)
  /\ status' = [status EXCEPT ![f] = IF f \in Binds /\ AllOk(f) THEN "open" ELSE "done"]
  /\ IF f \in Manual THEN Release(f) ELSE UNCHANGED direct
  /\ panic' = IF ShortWrite(f) THEN "short_write" ELSE panic
  /\ UNCHANGED <<kernelVars, slot, pc>>

(* The flow returns: a bound listener keeps its slot. *)
Finish(f) ==
  /\ Running
  /\ Returned(f)
  /\ IF f \in Binds /\ AllOk(f)
     THEN /\ status' = [status EXCEPT ![f] = "open"]
          /\ UNCHANGED <<direct, panic>>
     ELSE /\ status' = [status EXCEPT ![f] = "done"]
          /\ IF f \in Manual THEN Release(f) ELSE UNCHANGED direct
          /\ panic' = IF ShortWrite(f) THEN "short_write" ELSE panic
  /\ UNCHANGED <<kernelVars, slot, pc>>

(* The cancellations a dropped flow asks for, in the order of its steps. *)
CancelOf(f, k) ==
  IF k \in StepsOf(f) /\ stage[Operation(f, k)] # "done" THEN <<AsyncCancel(f, k)>> ELSE <<>>

Unfinished(f) ==
  CancelOf(f, "open") \o CancelOf(f, "read") \o CancelOf(f, "write") \o CancelOf(f, "other")

(* The future of a flow is dropped: first its operations, then its slot. *)
DropFlow(f) ==
  /\ Running
  /\ status[f] = "busy"
  /\ f \in Droppable
  /\ status' = [status EXCEPT ![f] = "dropped"]
  /\ Push(Unfinished(f))
  /\ IF f \in Manual THEN Release(f) ELSE UNCHANGED direct
  /\ UNCHANGED <<slot, pc, panic>>

DropListener(f) ==
  /\ Running
  /\ f \in Binds
  /\ status[f] = "open"
  /\ status' = [status EXCEPT ![f] = "dropped"]
  /\ Release(f)
  /\ UNCHANGED <<kernelVars, slot, pc, panic>>

(* DirectTcpStream::drop, then OwnedDirect::drop: both entries are detached. *)
DropStream(f) ==
  /\ Running
  /\ f \in Streams
  /\ status[f] = "open"
  /\ status' = [status EXCEPT ![f] = "dropped"]
  /\ Push(OperationsOf(f))
  /\ UNCHANGED <<slot, direct, pc, panic>>

(* wait: the whole queue is submitted, chain by chain. *)
Enter ==
  /\ panic = "none"
  /\ pc \in {"user", "entering"}
  /\ SubmitChain
  /\ pc' = IF sq' = <<>> THEN "waiting" ELSE "entering"
  /\ UNCHANGED <<slot, direct, status, panic>>

Outstanding == \E r \in Requests : stage[r] \notin {"none", "done"}

EnterEmpty ==
  /\ Running
  /\ sq = <<>>
  /\ Outstanding
  /\ pc' = "waiting"
  /\ UNCHANGED <<kernelVars, slot, direct, status, panic>>

(* wait returns with every completion that has arrived. *)
Reap ==
  /\ pc = "waiting"
  /\ \E r \in Requests : stage[r] = "cq"
  /\ stage' = [r \in Requests |-> IF stage[r] = "cq" THEN "done" ELSE stage[r]]
  /\ pc' = "user"
  /\ UNCHANGED <<sq, result, rest, table, used, slot, direct, status, panic>>

Kernel == KernelStep /\ UNCHANGED <<direct, status, pc, panic>>

Client(f) ==
  \/ Start(f) \/ StartWithoutSlot(f) \/ StartOther(f) \/ Finish(f)
  \/ DropFlow(f) \/ DropListener(f) \/ DropStream(f)

Next == (\E f \in Flows : Client(f)) \/ Enter \/ EnterEmpty \/ Reap \/ Kernel

Spec == Init /\ [][Next]_vars

-------------------------------------------------------------------------------
(***************************************************************************)
(* Properties.                                                             *)
(***************************************************************************)
(* The flows that own a manual slot. *)
Holders == {f \in Manual : status[f] \in {"busy", "open"}}

(* Slots, results and positions have their types; only the slots that exist *)
(* are handed out (register.rs: get).                                       *)
TypeOK ==
  /\ sq \in Seq(Requests)
  /\ stage \in [Requests -> {"none", "sq", "linked", "ready", "kernel", "cq", "done"}]
  /\ result \in [Requests -> {"none", "ok", "short", "error", "canceled"}]
  /\ rest \in [Requests -> Seq(Requests)]
  /\ table \in [Slots -> Flows \cup {None}]
  /\ used \in [Requests -> Flows \cup {None}]
  /\ slot \in [Flows -> Slots \cup {None}]
  /\ direct \in [vacant : Seq(SlotRange), len : 0 .. Size]
  /\ status \in [Flows -> {"new", "busy", "open", "done", "dropped"}]
  /\ pc \in {"user", "entering", "waiting"}
  /\ panic \in {"none", "no_slot", "short_write"}

(* A manual slot has one owner, and the register does not have it at the   *)
(* same time, however slots are reserved, kept by listeners and returned   *)
(* (register.rs: get, remove; inel's source.rs: OwnedDirect).              *)
SlotsExclusive ==
  /\ \A f \in Holders :
       /\ slot[f] \in 0 .. direct.len - 1
       /\ ~InSeq(direct.vacant, slot[f])
       /\ \A g \in Holders : slot[f] = slot[g] => f = g
  /\ \A i, j \in DOMAIN direct.vacant : direct.vacant[i] = direct.vacant[j] => i = j

(* is_full, a part of is_done, says whether a manual slot has an owner.    *)
IsFullIsExact == IsFull(direct) <=> Holders = {}

(* A read or write of a chained flow that has an effect has it on the file *)
(* this flow opened, although it names the file by a slot that other flows *)
(* use before and after it (fs/func.rs: read_buf, write_buf).              *)
UsesItsOwnFile ==
  \A f \in Readers \cup Writers : \A k \in StepsOf(f) \ {"open"} :
    result[Operation(f, k)] \in {"ok", "short"} => used[Operation(f, k)] = f

(* A listener that bind_direct has returned is bound, listens, and is      *)
(* accepted from, on one socket, its own (net/tcp.rs: bind_direct, whose   *)
(* socket entry is not linked to the bind that needs it).                  *)
ListenerKeepsItsSocket ==
  \A f \in Binds : status[f] = "open" =>
    /\ table[slot[f]] = f
    /\ used[Operation(f, "bind")] = f
    /\ used[Operation(f, "listen")] = f

(* The flow asked for the cancellation of its operation k, or one of its   *)
(* own operations before k failed.                                         *)
OwnDoing(f, k) ==
  \/ \E c \in AsyncCancels : c = AsyncCancel(f, k) /\ stage[c] # "none"
  \/ \E i, j \in DOMAIN Steps(f) :
       /\ Steps(f)[j] = k
       /\ i < j
       /\ result[Operation(f, Steps(f)[i])] \in {"short", "error", "canceled"}

(* An operation is cancelled by its own flow only: the link of an          *)
(* operation reaches the next one its own flow submits and ends there      *)
(* (op/mod.rs: Chain).                                                     *)
OthersUndisturbed ==
  \A r \in Operations : result[r] = "canceled" => OwnDoing(r.flow, r.kind)

(* A slot that get_direct_slot has handed out is used by no operation of   *)
(* another flow that is still to run (mod.rs: get_direct_slot).            *)
SlotsUnused ==
  \A f \in Holders : \A r \in Operations :
    (r.flow # f /\ stage[r] \in {"sq", "linked", "ready", "kernel"}) => slot[r.flow] # slot[f]

(* An AsyncCancel does not wait, in a chain, for the operation it is to    *)
(* cancel (mod.rs: cancel).                                                *)
CancelsAreIssued ==
  \A c \in AsyncCancels :
    stage[c] = "linked" => stage[Operation(c.flow, c.kind)] \notin {"linked", "ready", "kernel"}

(* When every slot has come back, no direct file is registered             *)
(* (mod.rs: is_done).                                                      *)
UnregisteredWhenFull == IsFull(direct) => \A s \in SlotRange : table[s] = None

(* A dropped stream whose entries have run is closed (net/tcp.rs:          *)
(* DirectTcpStream::drop).                                                 *)
StreamsClosed ==
  \A f \in Streams :
    stage[Operation(f, "close")] = "done" => table[f] = None

(* The assertion of write_buf holds. *)
WritesAreWhole == panic # "short_write"

===============================================================================
