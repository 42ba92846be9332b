--------------------------------- MODULE Ring ---------------------------------
(***************************************************************************)
(* The Ring (ring/mod.rs): it pushes the operations of its clients, counts *)
(* what is outstanding, blocks in io_uring_enter and hands the completions *)
(* to the completion table.                                                *)
(*                                                                         *)
(* Everything but the kernel runs on one thread, so an operation of the    *)
(* ring is one step.  Ring::wait is not: the kernel works while the thread *)
(* is inside it.  wait is split where the kernel can interleave:           *)
(*    "run"     tasks run; wait has not been called                        *)
(*    "submit"  inside io_uring_enter, handing over the submission queue   *)
(*    "reap"    the loop of handle_completions over the batch of           *)
(*              completions that were there when it started                *)
(* A panic (expect, unreachable!) ends the program: nothing moves after it.*)
(***************************************************************************)
EXTENDS CompletionSet, Uring

CONSTANT
  Uncancellable   (* Operations whose entry_cancel is None.               *)

ASSUME UncancellableAssumption == Uncancellable \subseteq Ops

VARIABLES
  active,         (* Ring.active                                          *)
  detached,       (* Ring.detached                                        *)
  canceled,       (* Ring.canceled                                        *)
  pc,             (* Where the reactor's thread is.                       *)
  want,           (* Completions io_uring_enter was asked to wait for.    *)
  batch,          (* Completions handle_completions has left to consume.  *)
  panic           (* The panic that ended the program, if any.            *)

counters == <<active, detached, canceled>>
ringVars == <<active, detached, canceled, pc, want, batch, panic>>

Panics == {"none", "queue_full", "unexpected_key", "unreachable"}

InitRing ==
  /\ InitCompletions
  /\ InitUring
  /\ active = 0 /\ detached = 0 /\ canceled = 0
  /\ pc = "run"
  /\ want = 0
  /\ batch = 0
  /\ panic = "none"

(* Tasks run between two calls of wait, as long as nothing has panicked. *)
Running == pc = "run" /\ panic = "none"

(* The key an operation was submitted under, kept in SubmissionState.       *)
KeyOf(o) == userData[Op(o)]

(* What with_completion panics with when key k has no entry, and what the   *)
(* unreachable! arms panic with when it has one.                            *)
BadKey(k) == IF slab[k] = Finished THEN "unexpected_key" ELSE "unreachable"

(* Mutant: detached requests are forgotten. *)
IsDoneWithoutDetached == active = 0 /\ IsEmpty

(* Ring::is_done, without the three slot registers (see SlotRegister). *)
IsDone == active + detached = 0 /\ IsEmpty

(***************************************************************************)
(* Ring::submit: the entry joins the table before the push that may panic. *)
(***************************************************************************)
Submit(o, k) ==
  /\ Insert(k, o)
  /\ \/ /\ Push(Op(o), k)
        /\ active' = active + 1
        /\ panic' = panic
     \/ /\ SqFull
        /\ panic' = "queue_full"
        /\ UNCHANGED <<uringVars, active>>
  /\ UNCHANGED <<woken, owner, detached, canceled, pc, want, batch>>

(***************************************************************************)
(* Ring::submit_detached.                                                  *)
(***************************************************************************)
SubmitDetached(d) ==
  /\ Running
  /\ stage[Det(d)] = "none"
  /\ \/ /\ Push(Det(d), IgnoreKey)
        /\ detached' = detached + 1
        /\ panic' = panic
     \/ /\ SqFull
        /\ panic' = "queue_full"
        /\ UNCHANGED <<uringVars, detached>>
  /\ UNCHANGED <<completionVars, active, canceled, pc, want, batch>>

(***************************************************************************)
(* Ring::cancel: nothing more to do when the table says the kernel is done *)
(* with the entry or when the operation has no cancelling entry.           *)
(***************************************************************************)
(* Mutant: the cancelling entry is not counted as detached. *)
PushCancelUncounted(o) ==
  \/ /\ Push(Cancel(o), IgnoreKey)
     /\ canceled' = canceled + 1
     /\ UNCHANGED <<detached, panic>>
  \/ /\ SqFull
     /\ panic' = "queue_full"
     /\ UNCHANGED <<uringVars, detached, canceled>>

(* Mutant: the operation is left to the kernel. *)
PushCancelNothing(o) == UNCHANGED <<uringVars, detached, canceled, panic>>

PushCancel(o) ==
  \/ /\ Push(Cancel(o), IgnoreKey)
     /\ detached' = detached + 1
     /\ canceled' = canceled + 1
     /\ panic' = panic
  \/ /\ SqFull
     /\ panic' = "queue_full"
     /\ UNCHANGED <<uringVars, detached, canceled>>

CancelOp(o) ==
  /\ \/ /\ TryCancel(KeyOf(o), o)
        /\ \/ /\ MustCancel(KeyOf(o)) /\ o \notin Uncancellable
              /\ PushCancel(o)
           \/ /\ ~MustCancel(KeyOf(o)) \/ o \in Uncancellable
              /\ UNCHANGED <<uringVars, detached, canceled, panic>>
     \/ /\ CancelPanics(KeyOf(o))
        /\ panic' = BadKey(KeyOf(o))
        /\ UNCHANGED <<slab, queues, unused, owner, uringVars, detached, canceled>>
  /\ UNCHANGED <<woken, active, pc, want, batch>>

(***************************************************************************)
(* Ring::wait = submit_and_wait, then handle_completions.                  *)
(***************************************************************************)
(* Mutant: one more than the cancelled ones, live operations or not. *)
WantOneMore == 1 + 2 * canceled

(* Mutant: all that is outstanding. *)
WantEverything == active + detached

Want ==
  LET w == IF active = canceled THEN 2 * canceled ELSE 1 + 2 * canceled
  IN  IF w = 0 /\ detached > 0 THEN detached ELSE w

Wait ==
  /\ Running
  /\ \/ /\ active + detached = 0
        /\ pc' = "reap"
        /\ batch' = Len(cq)
        /\ want' = want
     \/ /\ active + detached # 0
        /\ pc' = "submit"
        /\ want' = Want
        /\ batch' = batch
  /\ UNCHANGED <<completionVars, uringVars, counters, panic>>

(* io_uring_enter takes the submission queue entry by entry ... *)
EnterSubmit ==
  /\ pc = "submit"
  /\ Consume \/ ConsumeCancel
  /\ UNCHANGED <<completionVars, ringVars>>

(* ... stops early, without waiting, behind an entry it refuses ... *)
EnterRefused ==
  /\ pc = "submit"
  /\ Refuse
  /\ pc' = "reap"
  /\ batch' = Len(cq')
  /\ canceled' = 0
  /\ UNCHANGED <<completionVars, active, detached, want, panic>>

(* ... and otherwise returns once enough completions are there. *)
EnterReturn ==
  /\ pc = "submit"
  /\ sq = <<>>
  /\ Len(cq) >= want
  /\ pc' = "reap"
  /\ batch' = Len(cq)
  /\ canceled' = 0
  /\ UNCHANGED <<completionVars, uringVars, active, detached, want, panic>>

(* Mutant: an ignored completion is counted as an operation's. *)
HandleIgnoredAsActive ==
  /\ Head(cq).userData = IgnoreKey
  /\ active' = active - 1
  /\ UNCHANGED <<completionVars, detached, panic>>

(* One iteration of handle_completions. *)
HandleIgnored ==
  /\ Head(cq).userData = IgnoreKey
  /\ detached' = detached - 1
  /\ UNCHANGED <<completionVars, active, panic>>

(* Mutant: a completion with F_MORE ends the operation too. *)
HandleCompletionAsLast ==
  /\ Head(cq).userData # IgnoreKey
  /\ active' = active - 1
  /\ TryNotify(Head(cq).userData, Result(Head(cq).req.id, Head(cq).n, Head(cq).more))
  /\ UNCHANGED <<detached, panic>>

HandleCompletion ==
  LET c == Head(cq)
      k == c.userData
  IN  /\ k # IgnoreKey
      /\ active' = IF c.more THEN active ELSE active - 1
      /\ \/ /\ TryNotify(k, Result(c.req.id, c.n, c.more))
            /\ panic' = panic
         \/ /\ NotifyPanics(k)
            /\ panic' = BadKey(k)
            /\ UNCHANGED completionVars
      /\ UNCHANGED detached

Reap ==
  /\ pc = "reap" /\ panic = "none"
  /\ batch > 0
  /\ Pop
  /\ batch' = batch - 1
  /\ HandleIgnored \/ HandleCompletion
  /\ UNCHANGED <<canceled, pc, want>>

WaitReturns ==
  /\ pc = "reap" /\ panic = "none"
  /\ batch = 0
  /\ pc' = "run"
  /\ UNCHANGED <<completionVars, uringVars, counters, want, batch, panic>>

(***************************************************************************)
(* The kernel makes progress on its own, wherever the thread is.           *)
(***************************************************************************)
KernelCompletes(r) ==
  /\ panic = "none"
  /\ Complete(r)
  /\ UNCHANGED <<completionVars, ringVars>>

KernelPostsMore(o) ==
  /\ panic = "none"
  /\ CompleteMore(o)
  /\ UNCHANGED <<completionVars, ringVars>>
===============================================================================
