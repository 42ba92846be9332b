-------------------------------- MODULE Buffered --------------------------------
(***************************************************************************)
(* The buffered writers and readers of inel/src/io/buffered at the two     *)
(* ends of a byte stream (a file, a pipe, a connection).  They are polled  *)
(* by callers that may give up one call and make another, and are dropped  *)
(* at any time; the write or read they have begun goes on.                 *)
(*                                                                         *)
(* BufWriter and FixedBufWriter own their buffer.  A GroupBufWriter takes  *)
(* one from a WriteBufferSet (inel/src/group.rs) when it has to store a    *)
(* byte and returns it when it has been flushed.  GroupBufReader's buffers *)
(* are those of BufferGroup.tla.                                           *)
(***************************************************************************)
EXTENDS Integers, Sequences, FiniteSets

CONSTANTS
  Streams,
  Grouped,        (* The streams written by a GroupBufWriter.             *)
  Read,           (* The streams whose other end is a reader of ours.     *)
  Buffers,
  Pooled,         (* The buffers WriteBufferSet::with_buffers allocates.  *)
  Capacity,       (* Of a writer's buffer.                                *)
  ReadCapacity,
  Total,          (* Bound: the bytes a writer is given.                  *)
  None

ASSUME BufferedAssumption ==
  /\ Grouped \subseteq Streams /\ Read \subseteq Streams
  /\ Pooled \subseteq Buffers /\ None \notin Buffers
  /\ Capacity \in Nat \ {0} /\ ReadCapacity \in Nat \ {0}
  /\ Total \in Nat

VARIABLES
  writer,         (* ready, pending, gone (dropped or taken apart)        *)
  buffer,         (* Its buffer, if it has one.                           *)
  stored,         (* The bytes of its view, of a write in flight too.     *)
  write,          (* Its write: none, flight, done                        *)
  wrote,          (* The result of that write.                            *)
  pool,           (* WriteBufferSetInner::buffers.                        *)
  accepted,       (* How many bytes poll_write has accepted.              *)
  promised,       (* How many of them a poll_flush has said are written.  *)
  sunk,           (* External: the bytes the sink has.                    *)
  reader,         (* ready, pending, gone                                 *)
  view,           (* The bytes of the reader's view.                      *)
  fill,           (* Its read: none, flight, done, failed                 *)
  arrived,        (* What that read has put into the buffer.              *)
  taken,          (* External: how many bytes reads have taken.           *)
  got,            (* The bytes the reader has handed out.                 *)
  panic

wvars == <<writer, buffer, stored, write, wrote, pool, accepted, promised, sunk>>
rvars == <<reader, view, fill, arrived, taken, got>>
vars == <<wvars, rvars, panic>>

Lesser(m, n) == IF m < n THEN m ELSE n
Bytes(m, n) == [i \in 1 .. n - m |-> m + i]

(* A writer that is not of a group has a buffer of its own from the start. *)
Init ==
  /\ writer = [s \in Streams |-> "ready"]
  /\ buffer \in [Streams -> (Buffers \ Pooled) \cup {None}]
  /\ \A s, t \in Streams :
       /\ buffer[s] = None <=> s \in Grouped
       /\ buffer[s] = buffer[t] => s = t \/ s \in Grouped
  /\ stored = [s \in Streams |-> <<>>]
  /\ write = [s \in Streams |-> "none"]
  /\ wrote = [s \in Streams |-> 0]
  /\ pool = Pooled
  /\ accepted = [s \in Streams |-> 0]
  /\ promised = [s \in Streams |-> 0]
  /\ sunk = [s \in Streams |-> <<>>]
  /\ reader = [s \in Streams |-> IF s \in Read THEN "ready" ELSE "gone"]
  /\ view = [s \in Streams |-> <<>>]
  /\ fill = [s \in Streams |-> "none"]
  /\ arrived = [s \in Streams |-> <<>>]
  /\ taken = [s \in Streams |-> 0]
  /\ got = [s \in Streams |-> <<>>]
  /\ panic = FALSE

-------------------------------------------------------------------------------
(***************************************************************************)
(* The writer.                                                             *)
(***************************************************************************)
(* WriteBufferSetInner::get: one of the set, or else a new one. *)
Obtainable ==
  IF pool # {} THEN pool ELSE {b \in Buffers \ Pooled : \A s \in Streams : buffer[s] # b}

(* Mutant: get leaves the buffer in the set. *)
ObtainShared(s, b) ==
  IF s \in Grouped /\ buffer[s] = None
  THEN /\ b \in Obtainable
       /\ buffer' = [buffer EXCEPT ![s] = b]
       /\ UNCHANGED pool
  ELSE b = buffer[s] /\ UNCHANGED <<buffer, pool>>

(* pre_write *)
Obtain(s, b) ==
  IF s \in Grouped /\ buffer[s] = None
  THEN /\ b \in Obtainable
       /\ buffer' = [buffer EXCEPT ![s] = b]
       /\ pool' = pool \ {b}
  ELSE /\ b = buffer[s]
       /\ UNCHANGED <<buffer, pool>>

(* Mutant: fill is not limited to the spare capacity. *)
StoreAll(s, kept, n) ==
  /\ stored' = [stored EXCEPT ![s] = kept \o Bytes(accepted[s], accepted[s] + n)]
  /\ accepted' = [accepted EXCEPT ![s] = @ + n]

(* View::fill, after the bytes that kept, with the first of the n bytes.   *)
Store(s, kept, n) ==
  LET room == Lesser(n, Capacity - Len(kept))
  IN  /\ stored' = [stored EXCEPT ![s] = kept \o Bytes(accepted[s], accepted[s] + room)]
      /\ accepted' = [accepted EXCEPT ![s] = @ + room]

Given(s) == 0 .. Total - accepted[s]

(* poll_write, with room in the buffer. *)
PollWrite(s) ==
  /\ writer[s] = "ready" /\ Len(stored[s]) < Capacity
  /\ \E n \in Given(s), b \in Buffers : Obtain(s, b) /\ Store(s, stored[s], n)
  /\ UNCHANGED <<writer, write, wrote, promised, sunk, rvars, panic>>

(* poll_flush of a view that is not empty, poll_write of one that is full: *)
(* the view moves into the future of a write.                              *)
BeginFlush(s) ==
  /\ writer[s] = "ready" /\ stored[s] # <<>>
  /\ writer' = [writer EXCEPT ![s] = "pending"]
  /\ write' = [write EXCEPT ![s] = "flight"]
  /\ UNCHANGED <<buffer, stored, wrote, pool, accepted, promised, sunk, rvars, panic>>

(* poll_flush of an empty view. *)
FlushNothing(s) ==
  /\ writer[s] = "ready" /\ stored[s] = <<>>
  /\ promised' = [promised EXCEPT ![s] = accepted[s]]
  /\ UNCHANGED <<writer, buffer, stored, write, wrote, pool, accepted, sunk, rvars, panic>>

Flushed(s) == writer[s] = "pending" /\ write[s] = "done"

Resume(s) ==
  /\ writer' = [writer EXCEPT ![s] = "ready"]
  /\ write' = [write EXCEPT ![s] = "none"]

(* post_flush *)
ReturnBuffer(s) ==
  IF s \in Grouped
  THEN pool' = pool \cup {buffer[s]} /\ buffer' = [buffer EXCEPT ![s] = None]
  ELSE UNCHANGED <<pool, buffer>>

(* poll_flush finds the write done.  It asserts that all was written. *)
FlushDone(s) ==
  /\ Flushed(s) /\ wrote[s] >= 0
  /\ panic' = (wrote[s] # Len(stored[s]))
  /\ Resume(s)
  /\ stored' = [stored EXCEPT ![s] = <<>>]
  /\ promised' = [promised EXCEPT ![s] = IF panic' THEN @ ELSE accepted[s]]
  /\ ReturnBuffer(s)
  /\ UNCHANGED <<wrote, accepted, sunk, rvars>>

(* poll_write finds it done, and goes on with an empty view. *)
WriteAfterFlush(s) ==
  /\ Flushed(s) /\ wrote[s] = Len(stored[s])
  /\ Resume(s)
  /\ \E n \in Given(s) : Store(s, <<>>, n)
  /\ IF s \in Grouped
     THEN \E b \in pool \cup {buffer[s]} :
            /\ buffer' = [buffer EXCEPT ![s] = b]
            /\ pool' = (pool \cup {buffer[s]}) \ {b}
     ELSE UNCHANGED <<buffer, pool>>
  /\ UNCHANGED <<wrote, promised, sunk, rvars, panic>>

(* Mutant: an error empties the view like a success. *)
FlushFailedReset(s) ==
  /\ Flushed(s) /\ wrote[s] < 0
  /\ Resume(s)
  /\ stored' = [stored EXCEPT ![s] = <<>>]
  /\ UNCHANGED <<buffer, wrote, pool, accepted, promised, sunk, rvars, panic>>

(* Either finds that it failed: the view is kept, to be written again. *)
FlushFailed(s) ==
  /\ Flushed(s) /\ wrote[s] < 0
  /\ Resume(s)
  /\ UNCHANGED <<buffer, stored, wrote, pool, accepted, promised, sunk, rvars, panic>>

(* into_inner, or drop: what is not written is lost; the buffer of a write *)
(* in flight is freed by its Cancellation, when that completes.            *)
DropWriter(s) ==
  /\ writer[s] # "gone"
  /\ writer' = [writer EXCEPT ![s] = "gone"]
  /\ IF write[s] = "flight"
     THEN UNCHANGED <<buffer, stored, write>>
     ELSE /\ buffer' = [buffer EXCEPT ![s] = None]
          /\ stored' = [stored EXCEPT ![s] = <<>>]
          /\ write' = [write EXCEPT ![s] = "none"]
  /\ UNCHANGED <<wrote, pool, accepted, promised, sunk, rvars, panic>>

(* External: the write transfers all, a part, or fails. *)
KernelWrites(s) ==
  /\ write[s] = "flight"
  /\ \E n \in {-1} \cup 1 .. Len(stored[s]) :
       /\ wrote' = [wrote EXCEPT ![s] = n]
       /\ sunk' = [sunk EXCEPT ![s] = IF n < 0 THEN @ ELSE @ \o SubSeq(stored[s], 1, n)]
  /\ IF writer[s] = "gone"
     THEN /\ write' = [write EXCEPT ![s] = "none"]
          /\ buffer' = [buffer EXCEPT ![s] = None]
          /\ stored' = [stored EXCEPT ![s] = <<>>]
     ELSE /\ write' = [write EXCEPT ![s] = "done"]
          /\ UNCHANGED <<buffer, stored>>
  /\ UNCHANGED <<writer, pool, accepted, promised, rvars, panic>>

-------------------------------------------------------------------------------
(***************************************************************************)
(* The reader.                                                             *)
(***************************************************************************)
(* poll_fill_buf (poll_read calls it) of an empty view. *)
BeginFill(s) ==
  /\ reader[s] = "ready" /\ view[s] = <<>>
  /\ reader' = [reader EXCEPT ![s] = "pending"]
  /\ fill' = [fill EXCEPT ![s] = "flight"]
  /\ UNCHANGED <<wvars, view, arrived, taken, got, panic>>

(* poll_fill_buf finds the read done: the view is what was read (nothing   *)
(* at the end of the stream), or empty after an error.                     *)
FillDone(s) ==
  /\ reader[s] = "pending" /\ fill[s] \in {"done", "failed"}
  /\ reader' = [reader EXCEPT ![s] = "ready"]
  /\ view' = [view EXCEPT ![s] = IF fill[s] = "done" THEN arrived[s] ELSE <<>>]
  /\ fill' = [fill EXCEPT ![s] = "none"]
  /\ UNCHANGED <<wvars, arrived, taken, got, panic>>

(* consume, of any number of bytes; poll_read copies them first. *)
Consume(s) ==
  /\ reader[s] = "ready"
  /\ \E n \in 1 .. Len(view[s]) :
       /\ got' = [got EXCEPT ![s] = @ \o SubSeq(view[s], 1, n)]
       /\ view' = [view EXCEPT ![s] = SubSeq(@, n + 1, Len(@))]
  /\ UNCHANGED <<wvars, reader, fill, arrived, taken, panic>>

DropReader(s) ==
  /\ reader[s] # "gone"
  /\ reader' = [reader EXCEPT ![s] = "gone"]
  /\ view' = [view EXCEPT ![s] = <<>>]
  /\ UNCHANGED <<wvars, fill, arrived, taken, got, panic>>

(* External: the read transfers some of what there is, or fails; with      *)
(* nothing left to come it is at the end of the stream.                    *)
KernelReads(s) ==
  /\ fill[s] = "flight"
  /\ LET there == Len(sunk[s]) - taken[s]
         ended == writer[s] = "gone" /\ write[s] = "none" /\ there = 0
     IN  \/ \E n \in (IF ended THEN {0} ELSE 1 .. Lesser(there, ReadCapacity)) :
              /\ fill' = [fill EXCEPT ![s] = "done"]
              /\ arrived' = [arrived EXCEPT ![s] = SubSeq(sunk[s], taken[s] + 1, taken[s] + n)]
              /\ taken' = [taken EXCEPT ![s] = @ + n]
         \/ /\ fill' = [fill EXCEPT ![s] = "failed"]
            /\ UNCHANGED <<arrived, taken>>
  /\ UNCHANGED <<wvars, reader, view, got, panic>>

Next ==
  /\ ~panic
  /\ \E s \in Streams :
       \/ PollWrite(s) \/ BeginFlush(s) \/ FlushNothing(s) \/ FlushDone(s)
       \/ WriteAfterFlush(s) \/ FlushFailed(s) \/ DropWriter(s) \/ KernelWrites(s)
       \/ BeginFill(s) \/ FillDone(s) \/ Consume(s) \/ DropReader(s) \/ KernelReads(s)

Spec == Init /\ [][Next]_vars

-------------------------------------------------------------------------------
(***************************************************************************)
(* Properties.                                                             *)
(***************************************************************************)
(* Values; a view belongs to a state, and a write to a pending writer or   *)
(* to one that is gone.                                                    *)
TypeOK ==
  /\ writer \in [Streams -> {"ready", "pending", "gone"}]
  /\ buffer \in [Streams -> Buffers \cup {None}]
  /\ write \in [Streams -> {"none", "flight", "done"}]
  /\ pool \in SUBSET Buffers
  /\ reader \in [Streams -> {"ready", "pending", "gone"}]
  /\ fill \in [Streams -> {"none", "flight", "done", "failed"}]
  /\ panic \in BOOLEAN
  /\ \A s \in Streams :
       /\ stored[s] \in Seq(1 .. Total) /\ Len(stored[s]) <= Capacity
       /\ view[s] \in Seq(1 .. Total) /\ Len(view[s]) <= ReadCapacity
       /\ arrived[s] \in Seq(1 .. Total) /\ sunk[s] \in Seq(1 .. Total)
       /\ got[s] \in Seq(1 .. Total) /\ taken[s] \in 0 .. Len(sunk[s])
       /\ accepted[s] \in 0 .. Total /\ promised[s] \in 0 .. accepted[s]
       /\ wrote[s] \in -1 .. Capacity
       /\ writer[s] = "pending" <=> write[s] # "none" /\ writer[s] # "gone"
       /\ stored[s] # <<>> => buffer[s] # None

(* The two ends of a stream implement ByteStream, whatever calls are given *)
(* up, writes fail and are tried again, and ends are dropped               *)
(* (io/buffered/writer/generic.rs, reader/generic.rs; buffer.rs: View).    *)
Bytestream(s) == INSTANCE ByteStream WITH
  accepted <- accepted[s], promised <- promised[s], sunk <- sunk[s], got <- got[s]

RefinesByteStream ==
  /\ \A s \in Streams : Bytestream(s)!Init
  /\ [][\A s \in Streams :
         [Bytestream(s)!Next]_<<accepted[s], promised[s], sunk[s], got[s]>>]_vars

(* A buffer is with one writer, or its write in flight, or in the set      *)
(* (io/buffered/writer/group.rs: pre_write, post_flush; group.rs: get and  *)
(* insert; Op::cancel of the write).                                       *)
BuffersExclusive ==
  /\ \A s, t \in Streams : buffer[s] # None /\ buffer[s] = buffer[t] => s = t
  /\ \A s \in Streams : buffer[s] \notin pool

===============================================================================
