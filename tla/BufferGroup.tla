------------------------------- MODULE BufferGroup -------------------------------
(***************************************************************************)
(* A ReadBufferSet (inel/src/group.rs) and the reads that share it: its    *)
(* group (inel-reactor/src/group.rs), the operations of op/group.rs and    *)
(* the GroupBufReader adapter (io/buffered/reader/group.rs).               *)
(*                                                                         *)
(* A client holds a clone of the set.  It is a caller of read and insert,  *)
(* or, if it is one of the Adapters, a GroupBufReader.  The Rc of the      *)
(* group is counted by Holds: clones and operations that are not yet done. *)
(*                                                                         *)
(* The submission queue is consumed in order, and the RemoveBuffers entry, *)
(* pushed after the last Rc is gone, is the last of its group: it is       *)
(* enough to keep the entries that are queued as a set.                    *)
(***************************************************************************)
EXTENDS Integers, FiniteSets

CONSTANTS
  Clients,
  Adapters,       (* The clients that are a GroupBufReader.               *)
  Buffers,
  Initial,        (* The buffers of with_buffers ({}: empty).             *)
  Rejected,       (* Buffers whose ProvideBuffers fails (an empty slice). *)
  Ids,            (* Keys of the slab.                                    *)
  None

ASSUME BufferGroupAssumption ==
  /\ Adapters \subseteq Clients
  /\ Initial \subseteq Buffers
  /\ Rejected \subseteq Buffers
  /\ None \notin Buffers \cup Ids

VARIABLES
  slab,           (* BufferStorage::buffers.                              *)
  cancelled,      (* BufferStorage::cancelled.                            *)
  pending,        (* ProvideBuffers entries in the submission queue.      *)
  kernel,         (* The buffers the kernel may select.                   *)
  client,         (* none, idle, awaiting, gone                           *)
  held,           (* The buffer a client has received.                    *)
  unread,         (* Its view of that buffer is not empty.                *)
  read,           (* Its ReadGroup: none, queued, kernel, cqe, stored     *)
  result,         (* The buffer id in the flags of the cqe, and its kind. *)
  phase,          (* new, filling, open; dropped, asked, answered: the    *)
                  (* task that Drop spawns; released                      *)
  removed,        (* The result of RemoveBuffers.                         *)
  panic

vars == <<slab, cancelled, pending, kernel, client, held, unread, read, result,
          phase, removed, panic>>

reads == <<client, held, unread, read, result>>

Entry == [id : Ids, buf : Buffers]
Results == [id : Ids \cup {None}, ret : {"data", "eof", "error"}]
NoResult == [id |-> None, ret |-> "error"]

Init ==
  /\ slab = [i \in Ids |-> None]
  /\ cancelled = {}
  /\ pending = {}
  /\ kernel = {}
  /\ client = [c \in Clients |-> "none"]
  /\ held = [c \in Clients |-> None]
  /\ unread = [c \in Clients |-> FALSE]
  /\ read = [c \in Clients |-> "none"]
  /\ result = [c \in Clients |-> NoResult]
  /\ phase = "new"
  /\ removed = 0
  /\ panic = FALSE

-------------------------------------------------------------------------------
(* put, for each of the buffers bs: the slab s hands out vacant keys, and a *)
(* ProvideBuffers entry is pushed with each of them.                       *)
Provide(s, bs) ==
  \E key \in [bs -> {i \in Ids : s[i] = None}] :
    /\ \A b, d \in bs : key[b] = key[d] => b = d
    /\ slab' = [i \in Ids |-> IF \E b \in bs : key[b] = i
                              THEN CHOOSE b \in bs : key[b] = i ELSE s[i]]
    /\ pending' = pending \cup {[id |-> key[b], buf |-> b] : b \in bs}

(* take: the buffer a result has selected, and the slab without it. *)
Taken(c) == IF result[c].id = None THEN None ELSE slab[result[c].id]

(* Mutant: take leaves the buffer in the slab. *)
WithoutNone(ids) == slab

Without(ids) == [i \in Ids |-> IF i \in ids THEN None ELSE slab[i]]

(* Mutant: a Cancellation does not have an Rc. *)
HoldsClones(c) == client'[c] \in {"idle", "awaiting"}

(* Mutant: the Rc of a Cancellation is not dropped with it. *)
HoldsForGood(c) ==
  \/ client'[c] \in {"idle", "awaiting"} \/ read'[c] # "none"
  \/ read[c] = "cqe" /\ client[c] # "awaiting"

(* Whether a client, or its operation, has an Rc of the group. *)
Holds(c) == client'[c] \in {"idle", "awaiting"} \/ read'[c] # "none"

(* ReadBufferSetInner::drop, with the last Rc: spawns the removal. *)
DropInner == phase' = IF \E c \in Clients : Holds(c) THEN phase ELSE "dropped"

Present == {i \in Ids : slab[i] # None}

-------------------------------------------------------------------------------
(* ReadBufferSet::with_buffers: all its ProvideBuffers are submitted. *)
WithBuffers ==
  /\ phase = "new"
  /\ phase' = "filling"
  /\ Provide(slab, Initial)
  /\ UNCHANGED <<cancelled, kernel, reads, removed, panic>>

(* Each has completed, with whatever result; the set is cloned. *)
Filled ==
  /\ phase = "filling"
  /\ pending = {}
  /\ phase' = "open"
  /\ client' = [c \in Clients |-> "idle"]
  /\ UNCHANGED <<slab, cancelled, pending, kernel, held, unread, read, result, removed, panic>>

(* The future of with_buffers is dropped. *)
DropFilling ==
  /\ phase = "filling"
  /\ phase' = "dropped"
  /\ UNCHANGED <<slab, cancelled, pending, kernel, reads, removed, panic>>

(* insert, of a buffer of the caller. *)
InsertNew(c) ==
  /\ client[c] = "idle" /\ c \notin Adapters
  /\ \E b \in Buffers :
       /\ b \notin cancelled /\ \A i \in Ids : slab[i] # b
       /\ \A d \in Clients : held[d] # b
       /\ Provide(slab, {b})
  /\ UNCHANGED <<cancelled, kernel, reads, phase, removed, panic>>

(* insert, of the buffer a read has returned; the adapter does so when a   *)
(* consume leaves its view empty (post_consume), as that of 0 bytes does   *)
(* at the end of the file.                                                 *)
GiveBack(c) ==
  /\ client[c] = "idle" /\ held[c] # None
  /\ Provide(slab, {held[c]})
  /\ held' = [held EXCEPT ![c] = None]
  /\ unread' = [unread EXCEPT ![c] = FALSE]
  /\ UNCHANGED <<cancelled, kernel, client, read, result, phase, removed, panic>>

(* The caller keeps the buffer: it leaves the set. *)
Keep(c) ==
  /\ client[c] = "idle" /\ held[c] # None /\ c \notin Adapters
  /\ held' = [held EXCEPT ![c] = None]
  /\ unread' = [unread EXCEPT ![c] = FALSE]
  /\ UNCHANGED <<slab, cancelled, pending, kernel, client, read, result, phase, removed, panic>>

(* What a read provides first: the cancelled buffers (recycle) and, if it  *)
(* is the adapter's, the buffer of a read that had no data.                *)
Recycled(c) == cancelled \cup ({held[c]} \ {None})

(* ReadBufferSet::read, create_future of the adapter: ReadGroup is polled. *)
Read(c) ==
  /\ client[c] = "idle" /\ read[c] = "none"
  /\ IF c \in Adapters THEN ~unread[c] ELSE held[c] = None
  /\ Provide(slab, Recycled(c))
  /\ cancelled' = {}
  /\ held' = [held EXCEPT ![c] = None]
  /\ client' = [client EXCEPT ![c] = "awaiting"]
  /\ read' = [read EXCEPT ![c] = "queued"]
  /\ UNCHANGED <<kernel, unread, result, phase, removed, panic>>

(* The result of ReadGroup.  An error of ReadBufferSet::read gives the     *)
(* buffer back; the adapter keeps it until the next read.                  *)
Finish(c) ==
  /\ client[c] = "awaiting" /\ read[c] = "stored"
  /\ client' = [client EXCEPT ![c] = "idle"]
  /\ read' = [read EXCEPT ![c] = "none"]
  /\ IF result[c].ret = "error" /\ c \notin Adapters
     THEN /\ Provide(Without({result[c].id}), {Taken(c)} \ {None})
          /\ UNCHANGED <<held, unread>>
     ELSE /\ slab' = Without({result[c].id})
          /\ held' = [held EXCEPT ![c] = Taken(c)]
          /\ unread' = [unread EXCEPT ![c] = result[c].ret = "data"]
          /\ UNCHANGED pending
  /\ UNCHANGED <<cancelled, kernel, result, phase, removed, panic>>

(* Mutant: ReadGroup has the default cancel. *)
ConsumeNothing(cs) == UNCHANGED <<slab, cancelled>>

(* Mutant: mark_cancelled gets the buffer and does not remove it. *)
ConsumePeek(cs) ==
  /\ UNCHANGED slab
  /\ cancelled' = cancelled \cup {slab[i] : i \in {result[c].id : c \in cs} \ {None}}

(* ReadGroup::cancel: consuming, mark_cancelled, for results that are in.  *)
Consume(cs) ==
  LET ids == {result[c].id : c \in cs} \ {None}
  IN  /\ slab' = Without(ids)
      /\ cancelled' = cancelled \cup {slab[i] : i \in ids}

(* Mutant: a stored result is not consumed. *)
CancelLate(c) == UNCHANGED <<slab, cancelled, read>>

(* The operation of a dropped future ends now if its result is stored. *)
Cancel(c) ==
  /\ Consume(IF read[c] = "stored" THEN {c} ELSE {})
  /\ read' = [read EXCEPT ![c] = IF @ = "stored" THEN "none" ELSE @]

(* The future of ReadBufferSet::read is dropped. *)
DropRead(c) ==
  /\ client[c] = "awaiting" /\ c \notin Adapters
  /\ client' = [client EXCEPT ![c] = "idle"]
  /\ Cancel(c)
  /\ UNCHANGED <<pending, kernel, held, unread, result, phase, removed, panic>>

(* A clone is dropped, with a future that borrows it; a GroupBufReader is  *)
(* dropped or taken apart (into_inner), with its buffer.                   *)
DropClone(c) ==
  /\ client[c] \in {"idle", "awaiting"}
  /\ client' = [client EXCEPT ![c] = "gone"]
  /\ held' = [held EXCEPT ![c] = None]
  /\ unread' = [unread EXCEPT ![c] = FALSE]
  /\ Cancel(c)
  /\ DropInner
  /\ UNCHANGED <<pending, kernel, result, removed, panic>>

-------------------------------------------------------------------------------
(* The task that ReadBufferSetInner::drop spawns: RemoveBuffers is polled. *)
Ask ==
  /\ phase = "dropped"
  /\ phase' = "asked"
  /\ removed' = Cardinality(Present)
  /\ UNCHANGED <<slab, cancelled, pending, kernel, reads, panic>>

(* RemoveBuffers::result, and release of the id; or its assertion fails. *)
Release ==
  /\ phase = "answered"
  /\ panic' = (Present # {} /\ removed # Cardinality(Present))
  /\ slab' = [i \in Ids |-> None]
  /\ cancelled' = {}
  /\ phase' = "released"
  /\ UNCHANGED <<pending, kernel, reads, removed>>

(* wait enters the kernel: what is queued is consumed.  External: as many  *)
(* buffers are removed as there are, up to the number asked for.           *)
Enter ==
  LET provided == kernel \cup {p \in pending : p.buf \notin Rejected}
  IN  /\ pending # {} \/ phase = "asked" \/ \E c \in Clients : read[c] = "queued"
      /\ pending' = {}
      /\ read' = [c \in Clients |-> IF read[c] = "queued" THEN "kernel" ELSE read[c]]
      /\ IF phase = "asked"
         THEN \E gone \in SUBSET provided :
                /\ Cardinality(gone) <= removed
                /\ Cardinality(gone) = removed \/ gone = provided
                /\ kernel' = provided \ gone
                /\ removed' = Cardinality(gone)
                /\ phase' = "answered"
         ELSE kernel' = provided /\ UNCHANGED <<removed, phase>>
      /\ UNCHANGED <<slab, cancelled, client, held, unread, result, panic>>

(* External: a read selects a buffer when it has data (or is at the end of *)
(* its file, or fails late), or it fails without one: ENOBUFS, ECANCELED.  *)
Complete(c) ==
  /\ read[c] = "kernel"
  /\ read' = [read EXCEPT ![c] = "cqe"]
  /\ \/ \E p \in kernel, r \in {"data", "eof", "error"} :
          /\ result' = [result EXCEPT ![c] = [id |-> p.id, ret |-> r]]
          /\ kernel' = kernel \ {p}
     \/ /\ result' = [result EXCEPT ![c] = NoResult]
        /\ UNCHANGED kernel
  /\ UNCHANGED <<slab, cancelled, pending, client, held, unread, phase, removed, panic>>

(* handle_completions: the result of a dropped future is consumed and the  *)
(* Cancellation, with its Rc, dropped.                                     *)
Reap ==
  LET done == {c \in Clients : read[c] = "cqe"}
      dead == {c \in done : client[c] # "awaiting"}
  IN  /\ done # {}
      /\ Consume(dead)
      /\ read' = [c \in Clients |-> IF c \in dead THEN "none"
                                    ELSE IF c \in done THEN "stored" ELSE read[c]]
      /\ UNCHANGED client
      /\ DropInner
      /\ UNCHANGED <<pending, kernel, held, unread, result, removed, panic>>

Next ==
  \/ WithBuffers \/ Filled \/ DropFilling
  \/ \E c \in Clients :
       \/ InsertNew(c) \/ GiveBack(c) \/ Keep(c) \/ Read(c) \/ Finish(c)
       \/ DropRead(c) \/ DropClone(c) \/ Complete(c)
  \/ Ask \/ Release \/ Enter \/ Reap

Spec == Init /\ [][Next]_vars

(* The kernel consumes what it is given, reads that are cancelled complete *)
(* and tasks that are spawned or woken are polled (Executor.tla); a read   *)
(* that nobody cancels may wait for its data for ever.                     *)
FairSpec ==
  /\ Spec
  /\ WF_vars(Enter) /\ WF_vars(Reap) /\ WF_vars(Ask) /\ WF_vars(Release)
  /\ \A c \in Clients : WF_vars(Complete(c) /\ client[c] # "awaiting")

-------------------------------------------------------------------------------
(***************************************************************************)
(* Properties.                                                             *)
(***************************************************************************)
(* Values, and which of them belong together: a client has a buffer or a   *)
(* view only between its reads, results wait for the future that reads.    *)
TypeOK ==
  /\ slab \in [Ids -> Buffers \cup {None}]
  /\ cancelled \in SUBSET Buffers
  /\ pending \in SUBSET Entry
  /\ kernel \in SUBSET Entry
  /\ client \in [Clients -> {"none", "idle", "awaiting", "gone"}]
  /\ held \in [Clients -> Buffers \cup {None}]
  /\ unread \in [Clients -> BOOLEAN]
  /\ read \in [Clients -> {"none", "queued", "kernel", "cqe", "stored"}]
  /\ result \in [Clients -> Results]
  /\ phase \in {"new", "filling", "open", "dropped", "asked", "answered", "released"}
  /\ removed \in Nat
  /\ panic \in BOOLEAN
  /\ \A c \in Clients :
       /\ held[c] # None => client[c] = "idle"
       /\ read[c] = "stored" => client[c] = "awaiting"
       /\ client[c] = "awaiting" => read[c] # "none"

(* The result of c has selected a buffer that is still in the slab. *)
Carries(c) == read[c] \in {"cqe", "stored"} /\ result[c].id # None

(* A buffer of the slab is with the kernel under its key, or queued to be, *)
(* or selected by one result that has yet to be looked at: so the kernel   *)
(* only writes to buffers nobody else has, no key names two buffers, and   *)
(* no buffer is forgotten (group.rs: put, take, mark_cancelled; op/group.rs*)
(* result and cancel of ReadGroup).                                        *)
IdsAccounted ==
  /\ \A p \in pending \cup kernel : slab[p.id] = p.buf
  /\ pending \cap kernel = {}
  /\ \A c \in Clients : Carries(c) =>
       /\ slab[result[c].id] # None
       /\ \A p \in pending \cup kernel : p.id # result[c].id
       /\ \A d \in Clients : Carries(d) /\ result[d].id = result[c].id => d = c
  /\ phase # "answered" => \A i \in Ids : slab[i] # None =>
       \/ \E p \in pending \cup kernel : p.id = i
       \/ \E c \in Clients : Carries(c) /\ result[c].id = i

(* A buffer is in the slab once, or cancelled, or with one client (group.rs*)
(* of both crates; the adapter's create_future and post_consume).          *)
OneOwner ==
  /\ \A i, j \in Ids : slab[i] # None /\ slab[i] = slab[j] => i = j
  /\ \A b \in cancelled : \A i \in Ids : slab[i] # b
  /\ \A c \in Clients : held[c] # None =>
       /\ held[c] \notin cancelled
       /\ \A i \in Ids : slab[i] # held[c]
       /\ \A d \in Clients : held[d] = held[c] => d = c

(* The group is dropped only when no operation uses it, and its id, which  *)
(* the next group gets, is released only when the kernel has nothing under *)
(* it any more (ReadBufferSetInner::drop, RemoveBuffers).                  *)
GroupOutlivesReads ==
  /\ phase \in {"dropped", "asked", "answered", "released"} =>
       \A c \in Clients : read[c] = "none" /\ client[c] \in {"none", "gone"}
  /\ phase \in {"answered", "released"} => kernel = {} /\ pending = {}

(* RemoveBuffers removes what the group counts present (op/group.rs: "     *)
(* assert_eq!(removed, present)").                                         *)
RemovedAll == ~panic

(* When its last clone is dropped, the group goes, and its id comes back,  *)
(* whatever reads are still in flight (the Rc in the Cancellation).        *)
Abandoned ==
  /\ phase \notin {"new", "filling"}
  /\ \A c \in Clients : client[c] \in {"none", "gone"}

GroupIsReleased == Abandoned ~> phase = "released"

================================================================================
