---------------------------- MODULE CompletionSet ----------------------------
(***************************************************************************)
(* The completion table of the reactor (ring/completion.rs): a slab of     *)
(* Completion state machines indexed by key, and the recycled result       *)
(* queues of the entries that complete more than once.                     *)
(*                                                                         *)
(* An entry of the slab that is Finished has been removed                  *)
(* (with_completion removes it in the same call), so Finished is also the  *)
(* state of a free key.  Which free key the slab crate hands out next is   *)
(* left open.  A Waker is named by the operation it was submitted with,    *)
(* and so is the Cancellation that keeps that operation's resources.       *)
(***************************************************************************)
EXTENDS Operations, Sequences

CONSTANT
  InitialQueues   (* Result queues allocated up front (4 in the code).    *)

ASSUME InitialQueuesAssumption == InitialQueues \in Nat

VARIABLES
  slab,           (* Keys -> Completion.                                  *)
  queues,         (* The result queues; a handle is an index.             *)
  unused,         (* Stack of the handles that no completion holds.       *)
  woken,          (* The wakers called since their task last went pending.*)
  owner           (* Where the resources of each operation are.           *)

completionVars == <<slab, queues, unused, woken, owner>>

(***************************************************************************)
(* The variants of enum Completion.                                        *)
(***************************************************************************)
Vacant(w)         == [state |-> "Vacant", waker |-> w]
Single(r)         == [state |-> "Single", result |-> r]
Multiple(w, h, m) == [state |-> "Multiple", waker |-> w, handle |-> h, more |-> m]
Cancelled(c)      == [state |-> "Cancelled", cancel |-> c]
Finished          == [state |-> "Finished"]

InitCompletions ==
  /\ slab = [k \in Keys |-> Finished]
  /\ queues = [h \in 1 .. InitialQueues |-> <<>>]
  /\ unused = [h \in 1 .. InitialQueues |-> h]
  /\ woken = {}
  /\ owner = [o \in Ops |-> "submission"]

(* CompletionSet::is_empty: no entry in the slab, every queue unused. *)
IsEmpty ==
  /\ \A k \in Keys : slab[k] = Finished
  /\ Len(queues) = Len(unused)

(* Mutant: a fresh handle that is off by one. *)
NextHandleOffByOne == IF unused = <<>> THEN Len(queues) ELSE unused[Len(unused)]

(* The unused handle that ResultQueues::handle pops, or the next new one. *)
NextHandle == IF unused = <<>> THEN Len(queues) + 1 ELSE unused[Len(unused)]

(* ResultQueues::handle followed by the push of the first result. *)
StoreFirst(r) ==
  \/ /\ unused = <<>>
     /\ queues' = Append(queues, <<r>>)
     /\ unused' = unused
  \/ /\ unused # <<>>
     /\ queues' = [queues EXCEPT ![NextHandle] = Append(@, r)]
     /\ unused' = SubSeq(unused, 1, Len(unused) - 1)

(* Mutant: the handle is never recycled. *)
ReleaseLeaks(h) == queues' = [queues EXCEPT ![h] = <<>>] /\ unused' = unused

(* ResultQueues::release: clear the queue and recycle its handle. *)
Release(h) ==
  /\ queues' = [queues EXCEPT ![h] = <<>>]
  /\ unused' = Append(unused, h)

(***************************************************************************)
(* CompletionSet::insert.                                                  *)
(***************************************************************************)
Insert(k, w) ==
  /\ slab[k] = Finished
  /\ slab' = [slab EXCEPT ![k] = Vacant(w)]
  /\ UNCHANGED <<queues, unused>>

(***************************************************************************)
(* Completion::try_cancel.  Its result tells the ring whether the kernel   *)
(* still has the entry; when it does not, the cancellation has been        *)
(* dropped on the spot.  Its panic is the unreachable! arm.                *)
(***************************************************************************)
CancelPanics(k) == slab[k].state \in {"Finished", "Cancelled"}

(* Mutant: a vacant entry is taken for a finished one. *)
MustCancelWhenArmed(k) == slab[k].state = "Multiple" /\ slab[k].more

MustCancel(k) ==
  \/ slab[k].state = "Vacant"
  \/ slab[k].state = "Multiple" /\ slab[k].more

TryCancel(k, o) ==
  /\ ~CancelPanics(k)
  /\ slab' = [slab EXCEPT ![k] = IF MustCancel(k) THEN Cancelled(o) ELSE Finished]
  /\ owner' = [owner EXCEPT ![o] = IF MustCancel(k) THEN "cancellation" ELSE "dropped"]
  /\ \/ /\ slab[k].state = "Multiple"
        /\ Release(slab[k].handle)
     \/ /\ slab[k].state # "Multiple"
        /\ UNCHANGED <<queues, unused>>

(***************************************************************************)
(* Completion::try_notify.  The arms for Finished (through the removed     *)
(* key, completion.rs:55) and Single panic.                                *)
(***************************************************************************)
NotifyPanics(k) == slab[k].state \in {"Finished", "Single"}

(* Mutant: the first result closes the entry, F_MORE or not. *)
NotifyVacantAsSingle(k, r) ==
  /\ slab[k].state = "Vacant"
  /\ woken' = woken \cup {slab[k].waker}
  /\ slab' = [slab EXCEPT ![k] = Single(r)]
  /\ UNCHANGED <<queues, unused, owner>>

(* Mutant: the entry is removed before its result is taken. *)
NotifyVacantRemoves(k, r) ==
  /\ slab[k].state = "Vacant"
  /\ woken' = woken \cup {slab[k].waker}
  /\ slab' = [slab EXCEPT ![k] = Finished]
  /\ UNCHANGED <<queues, unused, owner>>

NotifyVacant(k, r) ==
  /\ slab[k].state = "Vacant"
  /\ woken' = woken \cup {slab[k].waker}
  /\ \/ /\ r.more
        /\ slab' = [slab EXCEPT ![k] = Multiple(@.waker, NextHandle, TRUE)]
        /\ StoreFirst(r)
     \/ /\ ~r.more
        /\ slab' = [slab EXCEPT ![k] = Single(r)]
        /\ UNCHANGED <<queues, unused>>
  /\ UNCHANGED owner

(* Mutant: only the first result wakes the task. *)
NotifyMultipleSilently(k, r) ==
  /\ slab[k].state = "Multiple"
  /\ queues' = [queues EXCEPT ![slab[k].handle] = Append(@, r)]
  /\ slab' = [slab EXCEPT ![k] = Multiple(@.waker, @.handle, r.more)]
  /\ UNCHANGED <<woken, unused, owner>>

NotifyMultiple(k, r) ==
  /\ slab[k].state = "Multiple"
  /\ woken' = woken \cup {slab[k].waker}
  /\ queues' = [queues EXCEPT ![slab[k].handle] = Append(@, r)]
  /\ slab' = [slab EXCEPT ![k] = Multiple(@.waker, @.handle, r.more)]
  /\ UNCHANGED <<unused, owner>>

(* Mutant: a cancelled entry still wakes its task. *)
NotifyCancelledWakes(k, r) ==
  /\ slab[k].state = "Cancelled"
  /\ woken' = woken \cup {slab[k].cancel}
  /\ slab' = [slab EXCEPT ![k] = Finished]
  /\ owner' = [owner EXCEPT ![slab[k].cancel] = "dropped"]
  /\ UNCHANGED <<queues, unused>>

(* The result is consumed and the cancellation dropped, whether or not the  *)
(* kernel will complete the entry again: the arm never looks at r.more.     *)
NotifyCancelled(k, r) ==
  /\ slab[k].state = "Cancelled"
  /\ slab' = [slab EXCEPT ![k] = Finished]
  /\ owner' = [owner EXCEPT ![slab[k].cancel] = "dropped"]
  /\ UNCHANGED <<queues, unused, woken>>

TryNotify(k, r) ==
  \/ NotifyVacant(k, r)
  \/ NotifyMultiple(k, r)
  \/ NotifyCancelled(k, r)

(***************************************************************************)
(* Completion::take_result.  HasResult tells whether it returns Some, and  *)
(* NextResult what; an entry whose last result is taken is removed.        *)
(***************************************************************************)
HasResult(k) ==
  \/ slab[k].state = "Single"
  \/ slab[k].state = "Multiple" /\ queues[slab[k].handle] # <<>>

NextResult(k) ==
  IF slab[k].state = "Single" THEN slab[k].result ELSE Head(queues[slab[k].handle])

TakeSingle(k) ==
  /\ slab[k].state = "Single"
  /\ slab' = [slab EXCEPT ![k] = Finished]
  /\ UNCHANGED <<queues, unused>>

TakeMultiple(k) ==
  LET h    == slab[k].handle
      rest == Tail(queues[h])
  IN  /\ slab[k].state = "Multiple"
      /\ queues[h] # <<>>
      /\ \/ /\ rest = <<>> /\ ~slab[k].more
            /\ Release(h)
            /\ slab' = [slab EXCEPT ![k] = Finished]
         \/ /\ rest # <<>> \/ slab[k].more
            /\ queues' = [queues EXCEPT ![h] = rest]
            /\ UNCHANGED <<slab, unused>>

TakeResult(k) == TakeSingle(k) \/ TakeMultiple(k)
=============================================================================
