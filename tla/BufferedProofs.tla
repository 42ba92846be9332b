----------------------------- MODULE BufferedProofs -----------------------------
(***************************************************************************)
(* Buffered writers and readers implement the byte stream, and writers do  *)
(* not share a buffer, for any number of streams, capacities and bytes.    *)
(***************************************************************************)
EXTENDS Buffered, TLAPS

Domains ==
  /\ writer \in [Streams -> {"ready", "pending", "gone"}]
  /\ buffer \in [Streams -> Buffers \cup {None}]
  /\ stored \in [Streams -> Seq(1 .. Total)]
  /\ write \in [Streams -> {"none", "flight", "done"}]
  /\ wrote \in [Streams -> -1 .. Capacity]
  /\ pool \in SUBSET Buffers
  /\ accepted \in [Streams -> 0 .. Total]
  /\ promised \in [Streams -> 0 .. Total]
  /\ sunk \in [Streams -> Seq(1 .. Total)]
  /\ reader \in [Streams -> {"ready", "pending", "gone"}]
  /\ view \in [Streams -> Seq(1 .. Total)]
  /\ fill \in [Streams -> {"none", "flight", "done", "failed"}]
  /\ arrived \in [Streams -> Seq(1 .. Total)]
  /\ taken \in [Streams -> 0 .. Total]
  /\ got \in [Streams -> Seq(1 .. Total)]
  /\ panic \in BOOLEAN

(* Where the view of a writer begins: a write that is done, and has not    *)
(* been looked at, has moved its first bytes to the sink.                  *)
From(s) ==
  IF write[s] = "done" /\ wrote[s] >= 0 THEN Len(sunk[s]) - wrote[s] ELSE Len(sunk[s])

(* The sink has the first bytes and the view of the writer those that      *)
(* follow, up to the last one accepted; but for a writer that is gone.     *)
WriterInv(s) ==
  /\ sunk[s] = Bytes(0, Len(sunk[s]))
  /\ Len(sunk[s]) <= accepted[s] /\ promised[s] <= accepted[s]
  /\ Len(stored[s]) <= Capacity
  /\ writer[s] = "ready" => write[s] = "none"
  /\ writer[s] = "pending" => write[s] # "none"
  /\ writer[s] = "gone" => write[s] # "done"
  /\ write[s] # "none" => stored[s] # <<>>
  /\ stored[s] # <<>> => buffer[s] # None
  /\ write[s] = "done" => wrote[s] <= Len(sunk[s]) /\ wrote[s] <= Len(stored[s])
  /\ \/ stored[s] = Bytes(From(s), accepted[s])
     \/ writer[s] = "gone" /\ write[s] = "none" /\ stored[s] = <<>>
     \/ panic

(* What was handed out, and then the view or what has arrived for it, are  *)
(* the first bytes of the sink, up to the last one taken from it.          *)
ReaderInv(s) ==
  /\ got[s] = Bytes(0, Len(got[s]))
  /\ Len(got[s]) <= taken[s] /\ taken[s] <= Len(sunk[s])
  /\ Len(view[s]) <= ReadCapacity /\ Len(arrived[s]) <= ReadCapacity
  /\ reader[s] = "ready" => view[s] = Bytes(Len(got[s]), taken[s])
  /\ reader[s] = "pending" =>
       /\ view[s] = <<>>
       /\ fill[s] \in {"flight", "failed"} => Len(got[s]) = taken[s]
       /\ fill[s] = "done" => arrived[s] = Bytes(Len(got[s]), taken[s])
  /\ reader[s] = "ready" => fill[s] = "none"

BufferedInv ==
  /\ Domains
  /\ BuffersExclusive
  /\ \A s \in Streams : WriterInv(s) /\ ReaderInv(s)

-------------------------------------------------------------------------------
(***************************************************************************)
(* Runs of bytes.                                                          *)
(***************************************************************************)
LEMMA BytesLen ==
  ASSUME NEW m \in Nat, NEW n \in Nat, m <= n
  PROVE  Len(Bytes(m, n)) = n - m /\ Bytes(m, n) \in Seq(1 .. n)
BY DEF Bytes

LEMMA BytesIn ==
  ASSUME NEW m \in Nat, NEW n \in Nat, m <= n, n <= Total
  PROVE  Bytes(m, n) \in Seq(1 .. Total)
BY BufferedAssumption DEF Bytes

LEMMA BytesNone ==
  ASSUME NEW n \in Nat
  PROVE  Bytes(n, n) = <<>>
BY DEF Bytes

LEMMA BytesCat ==
  ASSUME NEW m \in Nat, NEW n \in Nat, NEW p \in Nat, m <= n, n <= p
  PROVE  Bytes(m, n) \o Bytes(n, p) = Bytes(m, p)
BY DEF Bytes

LEMMA BytesSub ==
  ASSUME NEW n \in Nat, NEW i \in Nat, NEW j \in Nat, i <= j, j <= n
  PROVE  SubSeq(Bytes(0, n), i + 1, j) = Bytes(i, j)
BY DEF Bytes

LEMMA BytesRest ==
  ASSUME NEW m \in Nat, NEW n \in Nat, NEW i \in Nat, i <= n - m
  PROVE  SubSeq(Bytes(m, n), i + 1, n - m) = Bytes(m + i, n)
BY DEF Bytes

(* A prefix of the view follows what is in the sink. *)
LEMMA BytesMore ==
  ASSUME NEW m \in Nat, NEW n \in Nat, NEW i \in Nat, i <= n - m
  PROVE  Bytes(0, m) \o SubSeq(Bytes(m, n), 1, i) = Bytes(0, m + i)
<1>1. SubSeq(Bytes(m, n), 1, i) = Bytes(m, m + i)
  BY DEF Bytes
<1>2. PICK p \in Nat : p = m + i
  OBVIOUS
<1>3. 0 <= m /\ m <= p
  BY <1>2
<1>4. Bytes(0, m) \o Bytes(m, p) = Bytes(0, p)
  BY <1>3, BytesCat
<1> QED
  BY <1>1, <1>2, <1>4

LEMMA BytesUpto ==
  ASSUME NEW n \in Nat, NEW s \in Streams
  PROVE  Bytes(0, n) = Bytestream(s)!Upto(n)
BY DEF Bytes, Bytestream!Upto

-------------------------------------------------------------------------------
(***************************************************************************)
(* A step of one stream.                                                   *)
(***************************************************************************)
WriterStays(s) ==
  /\ writer'[s] = writer[s] /\ buffer'[s] = buffer[s] /\ stored'[s] = stored[s]
  /\ write'[s] = write[s] /\ wrote'[s] = wrote[s]
  /\ accepted'[s] = accepted[s] /\ promised'[s] = promised[s] /\ sunk'[s] = sunk[s]

ReaderStays(s) ==
  /\ reader'[s] = reader[s] /\ view'[s] = view[s] /\ fill'[s] = fill[s]
  /\ arrived'[s] = arrived[s] /\ taken'[s] = taken[s] /\ got'[s] = got[s]

OthersStay(s) == \A t \in Streams \ {s} : WriterStays(t) /\ ReaderStays(t)

(* What a step of ByteStream sees of a stream. *)
Visible(s) == <<accepted[s], promised[s], sunk[s], got[s]>>

Implements(s) == [Bytestream(s)!Next]_(Visible(s))

Step(s) ==
  /\ OthersStay(s) /\ Domains' /\ BuffersExclusive'
  /\ WriterInv(s)' /\ ReaderInv(s)'
  /\ Implements(s)

LEMMA StepKeeps ==
  ASSUME BufferedInv, ~panic, NEW s \in Streams, Step(s)
  PROVE  BufferedInv' /\ \A t \in Streams : Implements(t)
<1>1. \A t \in Streams \ {s} : WriterInv(t)' /\ ReaderInv(t)' /\ Implements(t)
  <2>1. SUFFICES ASSUME NEW t \in Streams \ {s}
                 PROVE  WriterInv(t)' /\ ReaderInv(t)' /\ Implements(t)
    OBVIOUS
  <2>2. WriterStays(t) /\ ReaderStays(t) /\ WriterInv(t) /\ ReaderInv(t)
    BY DEF Step, OthersStay, BufferedInv
  <2>3. WriterInv(t)'
    BY <2>2 DEF WriterStays, WriterInv, From
  <2>4. ReaderInv(t)'
    BY <2>2 DEF WriterStays, ReaderStays, ReaderInv
  <2>5. Implements(t)
    BY <2>2 DEF WriterStays, ReaderStays, Implements, Visible
  <2> QED
    BY <2>3, <2>4, <2>5
<1> QED
  BY <1>1 DEF Step, BufferedInv

(* A writer obtains a buffer, or has one. *)
LEMMA ObtainKeeps ==
  ASSUME Domains, BuffersExclusive, NEW s \in Streams, NEW b \in Buffers, Obtain(s, b)
  PROVE  /\ buffer' \in [Streams -> Buffers \cup {None}] /\ pool' \in SUBSET Buffers
         /\ buffer'[s] # None /\ \A t \in Streams \ {s} : buffer'[t] = buffer[t]
         /\ BuffersExclusive'
<1>1. b # None /\ None \notin pool
  BY BufferedAssumption DEF Domains
<1>2. CASE s \in Grouped /\ buffer[s] = None
  <2>1. b \in Obtainable /\ buffer' = [buffer EXCEPT ![s] = b] /\ pool' = pool \ {b}
    BY <1>2 DEF Obtain
  <2>2. \A t \in Streams : buffer[t] # b
    BY <2>1 DEF Obtainable, BuffersExclusive
  <2>3. \A t \in Streams : buffer'[t] = IF t = s THEN b ELSE buffer[t]
    BY <2>1 DEF Domains
  <2> QED
    BY <1>1, <2>1, <2>2, <2>3 DEF Domains, BuffersExclusive
<1>3. CASE ~(s \in Grouped /\ buffer[s] = None)
  BY <1>1, <1>3 DEF Obtain, Domains, BuffersExclusive
<1> QED
  BY <1>2, <1>3

LEMMA ReturnKeeps ==
  ASSUME Domains, BuffersExclusive, NEW s \in Streams, buffer[s] # None, ReturnBuffer(s)
  PROVE  /\ buffer' \in [Streams -> Buffers \cup {None}] /\ pool' \in SUBSET Buffers
         /\ \A t \in Streams \ {s} : buffer'[t] = buffer[t]
         /\ BuffersExclusive'
<1>1. CASE s \in Grouped
  <2>1. pool' = pool \cup {buffer[s]} /\ buffer' = [buffer EXCEPT ![s] = None]
    BY <1>1 DEF ReturnBuffer
  <2>2. \A t \in Streams : buffer'[t] = IF t = s THEN None ELSE buffer[t]
    BY <2>1 DEF Domains
  <2>3. None \notin pool'
    BY <2>1, BufferedAssumption DEF Domains
  <2> QED
    BY <2>1, <2>2, <2>3 DEF Domains, BuffersExclusive
<1>2. CASE s \notin Grouped
  BY <1>2 DEF ReturnBuffer, Domains, BuffersExclusive
<1> QED
  BY <1>1, <1>2

(* Bytes are stored behind the ones that were kept. *)
LEMMA StoreKeeps ==
  ASSUME Domains, NEW s \in Streams, NEW k \in Nat, k <= accepted[s],
         NEW kept, kept = Bytes(k, accepted[s]), Len(kept) <= Capacity,
         NEW n \in Given(s), Store(s, kept, n)
  PROVE  /\ stored' \in [Streams -> Seq(1 .. Total)] /\ accepted' \in [Streams -> 0 .. Total]
         /\ \A t \in Streams \ {s} : stored'[t] = stored[t] /\ accepted'[t] = accepted[t]
         /\ accepted[s] <= accepted'[s]
         /\ stored'[s] = Bytes(k, accepted'[s]) /\ Len(stored'[s]) <= Capacity
<1> DEFINE room == Lesser(n, Capacity - Len(kept))
           all == kept \o Bytes(accepted[s], accepted[s] + room)
<1>1. accepted[s] \in Nat /\ Total \in Nat /\ Capacity \in Nat /\ accepted[s] <= Total
  BY BufferedAssumption DEF Domains
<1>2. n \in Nat /\ accepted[s] + n <= Total
  BY <1>1 DEF Given
<1>3. Len(kept) = accepted[s] - k
  BY <1>1, BytesLen
<1>4. room \in Nat /\ room <= n /\ room <= Capacity - Len(kept)
  BY <1>1, <1>2, <1>3 DEF Lesser
<1> DEFINE top == accepted[s] + room
<1>5. stored' = [stored EXCEPT ![s] = all] /\ accepted' = [accepted EXCEPT ![s] = top]
  BY DEF Store
<1> HIDE DEF room
<1>6. top \in Nat /\ accepted[s] <= top /\ top <= Total /\ top - k <= Capacity
  <2>1. room <= Total - accepted[s]
    BY <1>1, <1>2, <1>4
  <2>2. room <= Capacity - (accepted[s] - k)
    BY <1>3, <1>4
  <2> QED
    BY <1>1, <1>4, <2>1, <2>2
<1> HIDE DEF top
<1>7. Bytes(k, accepted[s]) \o Bytes(accepted[s], top) = Bytes(k, top)
  BY <1>1, <1>6, BytesCat
<1>8. all = Bytes(k, top)
  BY <1>7 DEF top
<1>9. k <= top
  BY <1>1, <1>6
<1>10. Len(Bytes(k, top)) = top - k
  BY <1>6, <1>9, BytesLen
<1>11. Bytes(k, top) \in Seq(1 .. Total)
  BY <1>6, <1>9, BytesIn
<1> HIDE DEF all
<1>12. \A t \in Streams : /\ stored'[t] = IF t = s THEN all ELSE stored[t]
                          /\ accepted'[t] = IF t = s THEN top ELSE accepted[t]
  BY <1>5 DEF Domains
<1>13. stored' \in [Streams -> Seq(1 .. Total)] /\ accepted' \in [Streams -> 0 .. Total]
  <2>1. all \in Seq(1 .. Total) /\ top \in 0 .. Total
    BY <1>1, <1>6, <1>8, <1>11
  <2>2. stored \in [Streams -> Seq(1 .. Total)] /\ accepted \in [Streams -> 0 .. Total]
    BY DEF Domains
  <2> QED
    BY <1>5, <2>1, <2>2
<1> QED
  BY <1>6, <1>8, <1>10, <1>12, <1>13

(* More bytes are accepted, or none. *)
LEMMA AcceptImplements ==
  ASSUME NEW s \in Streams, accepted[s] \in Nat, accepted'[s] \in Nat,
         accepted[s] <= accepted'[s], UNCHANGED <<promised, sunk, got>>
  PROVE  Implements(s)
BY DEF Implements, Visible, Bytestream!Next, Bytestream!Accept

LEMMA StutterImplements ==
  ASSUME NEW s \in Streams, UNCHANGED <<accepted, promised, sunk, got>>
  PROVE  Implements(s)
BY DEF Implements, Visible

LEMMA InitHolds ==
  ASSUME Init
  PROVE  BufferedInv /\ \A s \in Streams : Bytestream(s)!Init
<1>1. Domains
  <2>1. 0 \in 0 .. Total /\ 0 \in -1 .. Capacity /\ <<>> \in Seq(1 .. Total)
    BY BufferedAssumption
  <2>2. buffer \in [Streams -> Buffers \cup {None}] /\ pool \in SUBSET Buffers /\ panic \in BOOLEAN
    BY BufferedAssumption DEF Init
  <2>3. /\ writer \in [Streams -> {"ready", "pending", "gone"}]
        /\ reader \in [Streams -> {"ready", "pending", "gone"}]
        /\ write \in [Streams -> {"none", "flight", "done"}]
        /\ fill \in [Streams -> {"none", "flight", "done", "failed"}]
    BY DEF Init
  <2>4. /\ wrote \in [Streams -> -1 .. Capacity] /\ accepted \in [Streams -> 0 .. Total]
        /\ promised \in [Streams -> 0 .. Total] /\ taken \in [Streams -> 0 .. Total]
    BY <2>1 DEF Init
  <2>5. /\ stored \in [Streams -> Seq(1 .. Total)] /\ sunk \in [Streams -> Seq(1 .. Total)]
        /\ view \in [Streams -> Seq(1 .. Total)] /\ arrived \in [Streams -> Seq(1 .. Total)]
        /\ got \in [Streams -> Seq(1 .. Total)]
    BY <2>1 DEF Init
  <2> QED
    BY <2>2, <2>3, <2>4, <2>5 DEF Domains
<1>2. BuffersExclusive
  BY <1>1, BufferedAssumption DEF Init, BuffersExclusive, Domains
<1>3. \A s \in Streams : WriterInv(s) /\ ReaderInv(s)
  <2>1. Bytes(0, 0) = <<>> /\ Len(<<>>) = 0
    BY BytesNone
  <2> QED
    BY <2>1, BufferedAssumption DEF Init, WriterInv, ReaderInv, From
<1>4. \A s \in Streams : Bytestream(s)!Init
  BY DEF Init, Bytestream!Init
<1> QED
  BY <1>1, <1>2, <1>3, <1>4 DEF BufferedInv

-------------------------------------------------------------------------------
(***************************************************************************)
(* The writer's actions.                                                   *)
(***************************************************************************)
LEMMA PollWriteStep ==
  ASSUME BufferedInv, ~panic, NEW s \in Streams, PollWrite(s)
  PROVE  Step(s)
<1> USE DEF rvars
<1>1. Domains /\ BuffersExclusive /\ WriterInv(s) /\ ReaderInv(s)
  BY DEF BufferedInv
<1>2. /\ writer[s] = "ready" /\ Len(stored[s]) < Capacity
      /\ UNCHANGED <<writer, write, wrote, promised, sunk, reader, view, fill, arrived, taken,
                      got, panic>>
  BY DEF PollWrite
<1>3. PICK n \in Given(s), b \in Buffers : Obtain(s, b) /\ Store(s, stored[s], n)
  BY DEF PollWrite
<1>4. /\ buffer' \in [Streams -> Buffers \cup {None}] /\ pool' \in SUBSET Buffers
      /\ buffer'[s] # None /\ \A t \in Streams \ {s} : buffer'[t] = buffer[t]
      /\ BuffersExclusive'
  BY <1>1, <1>3, ObtainKeeps
<1>5. /\ Len(sunk[s]) \in Nat /\ Len(sunk[s]) <= accepted[s] /\ Len(stored[s]) <= Capacity
      /\ accepted[s] \in Nat /\ promised[s] \in Nat /\ Capacity \in Nat
  BY <1>1, <1>2, BufferedAssumption DEF Domains, WriterInv
<1>6. stored[s] = Bytes(Len(sunk[s]), accepted[s])
  BY <1>1, <1>2 DEF WriterInv, From
<1>7. /\ stored' \in [Streams -> Seq(1 .. Total)] /\ accepted' \in [Streams -> 0 .. Total]
      /\ \A t \in Streams \ {s} : stored'[t] = stored[t] /\ accepted'[t] = accepted[t]
      /\ accepted[s] <= accepted'[s]
      /\ stored'[s] = Bytes(Len(sunk[s]), accepted'[s]) /\ Len(stored'[s]) <= Capacity
  BY <1>1, <1>3, <1>5, <1>6, StoreKeeps
<1>8. Domains'
  BY <1>1, <1>2, <1>4, <1>7 DEF Domains
<1>9. OthersStay(s)
  BY <1>2, <1>4, <1>7 DEF OthersStay, WriterStays, ReaderStays
<1>10. WriterInv(s)'
  <2>1. accepted'[s] \in Nat
    BY <1>7
  <2> QED
    BY <1>1, <1>2, <1>4, <1>5, <1>7, <2>1 DEF WriterInv, From
<1>11. ReaderInv(s)'
  BY <1>1, <1>2 DEF ReaderInv
<1>12. Implements(s)
  BY <1>2, <1>5, <1>7, AcceptImplements
<1> QED
  BY <1>4, <1>8, <1>9, <1>10, <1>11, <1>12 DEF Step

LEMMA BeginFlushStep ==
  ASSUME BufferedInv, ~panic, NEW s \in Streams, BeginFlush(s)
  PROVE  Step(s)
<1> USE DEF rvars
<1>1. Domains /\ BuffersExclusive /\ WriterInv(s) /\ ReaderInv(s)
  BY DEF BufferedInv
<1>2. /\ writer[s] = "ready" /\ stored[s] # <<>>
      /\ writer' = [writer EXCEPT ![s] = "pending"] /\ write' = [write EXCEPT ![s] = "flight"]
      /\ UNCHANGED <<buffer, stored, wrote, pool, accepted, promised, sunk, reader, view, fill,
                      arrived, taken, got, panic>>
  BY DEF BeginFlush
<1>3. \A t \in Streams : /\ writer'[t] = IF t = s THEN "pending" ELSE writer[t]
                         /\ write'[t] = IF t = s THEN "flight" ELSE write[t]
  BY <1>1, <1>2 DEF Domains
<1>4. Domains' /\ BuffersExclusive'
  BY <1>1, <1>2 DEF Domains, BuffersExclusive
<1>5. OthersStay(s)
  BY <1>2, <1>3 DEF OthersStay, WriterStays, ReaderStays
<1>6. WriterInv(s)'
  BY <1>1, <1>2, <1>3 DEF WriterInv, From
<1>7. ReaderInv(s)'
  BY <1>1, <1>2 DEF ReaderInv
<1>8. Implements(s)
  BY <1>2, StutterImplements
<1> QED
  BY <1>4, <1>5, <1>6, <1>7, <1>8 DEF Step

LEMMA FlushNothingStep ==
  ASSUME BufferedInv, ~panic, NEW s \in Streams, FlushNothing(s)
  PROVE  Step(s)
<1> USE DEF rvars
<1>1. Domains /\ BuffersExclusive /\ WriterInv(s) /\ ReaderInv(s)
  BY DEF BufferedInv
<1>2. /\ writer[s] = "ready" /\ stored[s] = <<>>
      /\ promised' = [promised EXCEPT ![s] = accepted[s]]
      /\ UNCHANGED <<writer, buffer, stored, write, wrote, pool, accepted, sunk, reader, view,
                      fill, arrived, taken, got, panic>>
  BY DEF FlushNothing
<1>3. \A t \in Streams : promised'[t] = IF t = s THEN accepted[s] ELSE promised[t]
  BY <1>1, <1>2 DEF Domains
<1>4. Domains' /\ BuffersExclusive'
  BY <1>1, <1>2 DEF Domains, BuffersExclusive
<1>5. OthersStay(s)
  BY <1>2, <1>3 DEF OthersStay, WriterStays, ReaderStays
<1>6. /\ Len(sunk[s]) \in Nat /\ accepted[s] \in Nat /\ Len(sunk[s]) <= accepted[s]
      /\ <<>> = Bytes(Len(sunk[s]), accepted[s])
  BY <1>1, <1>2 DEF Domains, WriterInv, From
<1>7. Len(sunk[s]) = accepted[s]
  <2>1. Len(Bytes(Len(sunk[s]), accepted[s])) = accepted[s] - Len(sunk[s])
    BY <1>6, BytesLen
  <2>2. accepted[s] - Len(sunk[s]) = 0
    BY <1>6, <2>1
  <2> QED
    BY <1>6, <2>2
<1>8. WriterInv(s)'
  BY <1>1, <1>2, <1>3, <1>6 DEF WriterInv, From
<1>9. ReaderInv(s)'
  BY <1>1, <1>2 DEF ReaderInv
<1>10. Implements(s)
  BY <1>2, <1>3, <1>7 DEF Implements, Visible, Bytestream!Next, Bytestream!Promise
<1> QED
  BY <1>4, <1>5, <1>8, <1>9, <1>10 DEF Step

(* When a write has been whole, the sink has all there was. *)
LEMMA WholeWrite ==
  ASSUME BufferedInv, ~panic, NEW s \in Streams,
         writer[s] = "pending", write[s] = "done", wrote[s] = Len(stored[s])
  PROVE  Len(sunk[s]) = accepted[s]
<1>1. Domains /\ WriterInv(s)
  BY DEF BufferedInv
<1>2. PICK k \in Nat, a \in Nat, w \in Nat :
        /\ k = Len(sunk[s]) /\ a = accepted[s] /\ w = wrote[s]
        /\ w <= k /\ k <= a
  BY <1>1 DEF Domains, WriterInv
<1>3. w >= 0
  BY <1>2
<1>4. stored[s] = Bytes(k - w, a)
  BY <1>1, <1>2, <1>3 DEF WriterInv, From
<1>5. k - w \in Nat /\ k - w <= a
  <2>1. w <= k /\ k <= a
    BY <1>2
  <2> QED
    BY <2>1
<1>6. Len(Bytes(k - w, a)) = a - (k - w)
  BY <1>5, BytesLen
<1>7. w = a - (k - w)
  BY <1>2, <1>4, <1>6
<1>8. a = k
  BY <1>7
<1> QED
  BY <1>2, <1>8

LEMMA FlushDoneStep ==
  ASSUME BufferedInv, ~panic, NEW s \in Streams, FlushDone(s)
  PROVE  Step(s)
<1> USE DEF rvars
<1>1. Domains /\ BuffersExclusive /\ WriterInv(s) /\ ReaderInv(s)
  BY DEF BufferedInv
<1>2. /\ writer[s] = "pending" /\ write[s] = "done" /\ wrote[s] >= 0
      /\ panic' = (wrote[s] # Len(stored[s]))
      /\ writer' = [writer EXCEPT ![s] = "ready"] /\ write' = [write EXCEPT ![s] = "none"]
      /\ stored' = [stored EXCEPT ![s] = <<>>]
      /\ promised' = [promised EXCEPT ![s] = IF panic' THEN @ ELSE accepted[s]]
      /\ ReturnBuffer(s)
      /\ UNCHANGED <<wrote, accepted, sunk, reader, view, fill, arrived, taken, got>>
  BY DEF FlushDone, Flushed, Resume
<1>3. \A t \in Streams :
        /\ writer'[t] = IF t = s THEN "ready" ELSE writer[t]
        /\ write'[t] = IF t = s THEN "none" ELSE write[t]
        /\ stored'[t] = IF t = s THEN <<>> ELSE stored[t]
        /\ promised'[t] = IF t = s /\ ~panic' THEN accepted[t] ELSE promised[t]
  BY <1>1, <1>2 DEF Domains
<1>4. /\ buffer' \in [Streams -> Buffers \cup {None}] /\ pool' \in SUBSET Buffers
      /\ \A t \in Streams \ {s} : buffer'[t] = buffer[t]
      /\ BuffersExclusive'
  BY <1>1, <1>2, ReturnKeeps DEF WriterInv
<1>5. /\ Len(sunk[s]) \in Nat /\ accepted[s] \in Nat /\ Len(sunk[s]) <= accepted[s]
      /\ wrote[s] \in Int /\ wrote[s] <= Len(sunk[s]) /\ Capacity \in Nat
      /\ promised[s] \in Nat /\ promised[s] <= accepted[s]
  BY <1>1, <1>2, BufferedAssumption DEF Domains, WriterInv
<1>6. ~panic' => Len(sunk[s]) = accepted[s]
  BY <1>2, WholeWrite
<1>7. Domains'
  <2>1. stored' \in [Streams -> Seq(1 .. Total)]
    BY <1>1, <1>2 DEF Domains
  <2>2. promised' \in [Streams -> 0 .. Total]
    BY <1>1, <1>2 DEF Domains
  <2> QED
    BY <1>1, <1>2, <1>4, <2>1, <2>2 DEF Domains
<1>8. OthersStay(s)
  BY <1>2, <1>3, <1>4 DEF OthersStay, WriterStays, ReaderStays
<1>9. WriterInv(s)'
  <2>1. ~panic' => stored'[s] = Bytes(Len(sunk[s]), accepted[s])
    BY <1>3, <1>5, <1>6, BytesNone
  <2>2. Len(<<>>) = 0
    OBVIOUS
  <2> QED
    BY <1>1, <1>2, <1>3, <1>5, <2>1, <2>2 DEF WriterInv, From
<1>10. ReaderInv(s)'
  BY <1>1, <1>2 DEF ReaderInv
<1>11. Implements(s)
  <2>1. CASE panic'
    BY <1>2, <1>3, <2>1 DEF Implements, Visible
  <2>2. CASE ~panic'
    BY <1>2, <1>3, <1>6, <2>2 DEF Implements, Visible, Bytestream!Next, Bytestream!Promise
  <2> QED
    BY <2>1, <2>2
<1> QED
  BY <1>4, <1>7, <1>8, <1>9, <1>10, <1>11 DEF Step

LEMMA WriteAfterFlushStep ==
  ASSUME BufferedInv, ~panic, NEW s \in Streams, WriteAfterFlush(s)
  PROVE  Step(s)
<1> USE DEF rvars
<1>1. Domains /\ BuffersExclusive /\ WriterInv(s) /\ ReaderInv(s)
  BY DEF BufferedInv
<1>2. /\ writer[s] = "pending" /\ write[s] = "done" /\ wrote[s] = Len(stored[s])
      /\ writer' = [writer EXCEPT ![s] = "ready"] /\ write' = [write EXCEPT ![s] = "none"]
      /\ UNCHANGED <<wrote, promised, sunk, reader, view, fill, arrived, taken, got, panic>>
  BY DEF WriteAfterFlush, Flushed, Resume
<1>3. PICK n \in Given(s) : Store(s, <<>>, n)
  BY DEF WriteAfterFlush
<1>4. \A t \in Streams : /\ writer'[t] = IF t = s THEN "ready" ELSE writer[t]
                         /\ write'[t] = IF t = s THEN "none" ELSE write[t]
  BY <1>1, <1>2 DEF Domains
<1>5. /\ Len(sunk[s]) \in Nat /\ accepted[s] \in Nat /\ Len(sunk[s]) <= accepted[s]
      /\ wrote[s] \in Nat /\ wrote[s] <= Len(sunk[s]) /\ Capacity \in Nat
      /\ promised[s] \in Nat /\ promised[s] <= accepted[s]
  BY <1>1, <1>2, BufferedAssumption DEF Domains, WriterInv
<1>6. Len(sunk[s]) = accepted[s]
  BY <1>2, WholeWrite
<1>7. /\ stored' \in [Streams -> Seq(1 .. Total)] /\ accepted' \in [Streams -> 0 .. Total]
      /\ \A t \in Streams \ {s} : stored'[t] = stored[t] /\ accepted'[t] = accepted[t]
      /\ accepted[s] <= accepted'[s]
      /\ stored'[s] = Bytes(accepted[s], accepted'[s]) /\ Len(stored'[s]) <= Capacity
  <2>1. <<>> = Bytes(accepted[s], accepted[s]) /\ Len(<<>>) <= Capacity
    BY <1>5, BytesNone
  <2> QED
    BY <1>1, <1>3, <1>5, <2>1, StoreKeeps
<1>8. /\ buffer' \in [Streams -> Buffers \cup {None}] /\ pool' \in SUBSET Buffers
      /\ buffer'[s] # None /\ \A t \in Streams \ {s} : buffer'[t] = buffer[t]
      /\ BuffersExclusive'
  <2>1. buffer[s] \in Buffers /\ None \notin Buffers
    BY <1>1, <1>2, BufferedAssumption DEF WriterInv, Domains
  <2>2. CASE s \in Grouped
    <3>1. PICK b \in pool \cup {buffer[s]} :
            /\ buffer' = [buffer EXCEPT ![s] = b]
            /\ pool' = (pool \cup {buffer[s]}) \ {b}
      BY <2>2 DEF WriteAfterFlush
    <3>2. \A t \in Streams : buffer'[t] = IF t = s THEN b ELSE buffer[t]
      BY <1>1, <3>1 DEF Domains
    <3>3. b \in Buffers /\ \A t \in Streams \ {s} : buffer[t] # b /\ buffer[t] # buffer[s]
      BY <1>1, <2>1, <3>1 DEF Domains, BuffersExclusive
    <3> QED
      BY <1>1, <2>1, <3>1, <3>2, <3>3 DEF Domains, BuffersExclusive
  <2>3. CASE s \notin Grouped
    BY <1>1, <2>1, <2>3 DEF WriteAfterFlush, Domains, BuffersExclusive
  <2> QED
    BY <2>2, <2>3
<1>9. Domains'
  BY <1>1, <1>2, <1>7, <1>8 DEF Domains
<1>10. OthersStay(s)
  BY <1>2, <1>4, <1>7, <1>8 DEF OthersStay, WriterStays, ReaderStays
<1>11. WriterInv(s)'
  <2>1. accepted'[s] \in Nat
    BY <1>7
  <2> QED
    BY <1>1, <1>2, <1>4, <1>5, <1>6, <1>7, <1>8, <2>1 DEF WriterInv, From
<1>12. ReaderInv(s)'
  BY <1>1, <1>2 DEF ReaderInv
<1>13. Implements(s)
  BY <1>2, <1>5, <1>7, AcceptImplements
<1> QED
  BY <1>8, <1>9, <1>10, <1>11, <1>12, <1>13 DEF Step

LEMMA FlushFailedStep ==
  ASSUME BufferedInv, ~panic, NEW s \in Streams, FlushFailed(s)
  PROVE  Step(s)
<1> USE DEF rvars
<1>1. Domains /\ BuffersExclusive /\ WriterInv(s) /\ ReaderInv(s)
  BY DEF BufferedInv
<1>2. /\ write[s] = "done" /\ writer[s] = "pending" /\ wrote[s] < 0
      /\ writer' = [writer EXCEPT ![s] = "ready"] /\ write' = [write EXCEPT ![s] = "none"]
      /\ UNCHANGED <<buffer, stored, wrote, pool, accepted, promised, sunk, reader, view, fill,
                      arrived, taken, got, panic>>
  BY DEF FlushFailed, Flushed, Resume
<1>3. \A t \in Streams : /\ writer'[t] = IF t = s THEN "ready" ELSE writer[t]
                         /\ write'[t] = IF t = s THEN "none" ELSE write[t]
  BY <1>1, <1>2 DEF Domains
<1>4. Domains' /\ BuffersExclusive'
  BY <1>1, <1>2 DEF Domains, BuffersExclusive
<1>5. OthersStay(s)
  BY <1>2, <1>3 DEF OthersStay, WriterStays, ReaderStays
<1>6. WriterInv(s)'
  <2>1. wrote[s] \in Int /\ ~(wrote[s] >= 0)
    BY <1>1, <1>2 DEF Domains
  <2>2. stored[s] = Bytes(Len(sunk[s]), accepted[s])
    BY <1>1, <1>2, <2>1 DEF WriterInv, From
  <2> QED
    BY <1>1, <1>2, <1>3, <2>2 DEF WriterInv, From
<1>7. ReaderInv(s)'
  BY <1>1, <1>2 DEF ReaderInv
<1>8. Implements(s)
  BY <1>2, StutterImplements
<1> QED
  BY <1>4, <1>5, <1>6, <1>7, <1>8 DEF Step

LEMMA DropWriterStep ==
  ASSUME BufferedInv, ~panic, NEW s \in Streams, DropWriter(s)
  PROVE  Step(s)
<1> USE DEF rvars
<1>1. Domains /\ BuffersExclusive /\ WriterInv(s) /\ ReaderInv(s)
  BY DEF BufferedInv
<1>2. /\ writer[s] # "gone" /\ writer' = [writer EXCEPT ![s] = "gone"]
      /\ UNCHANGED <<wrote, pool, accepted, promised, sunk, reader, view, fill, arrived, taken,
                      got, panic>>
  BY DEF DropWriter
<1>3. \A t \in Streams : writer'[t] = IF t = s THEN "gone" ELSE writer[t]
  BY <1>1, <1>2 DEF Domains
<1>4. ReaderInv(s)'
  BY <1>1, <1>2 DEF ReaderInv
<1>5. Implements(s)
  BY <1>2, StutterImplements
<1>6. CASE write[s] = "flight"
  <2>1. UNCHANGED <<buffer, stored, write>>
    BY <1>6 DEF DropWriter
  <2>2. Domains' /\ BuffersExclusive'
    BY <1>1, <1>2, <2>1 DEF Domains, BuffersExclusive
  <2>3. OthersStay(s)
    BY <1>2, <1>3, <2>1 DEF OthersStay, WriterStays, ReaderStays
  <2>4. WriterInv(s)'
    BY <1>1, <1>2, <1>3, <1>6, <2>1 DEF WriterInv, From
  <2> QED
    BY <1>4, <1>5, <2>2, <2>3, <2>4 DEF Step
<1>7. CASE write[s] # "flight"
  <2>1. /\ buffer' = [buffer EXCEPT ![s] = None] /\ stored' = [stored EXCEPT ![s] = <<>>]
        /\ write' = [write EXCEPT ![s] = "none"]
    BY <1>7 DEF DropWriter
  <2>2. \A t \in Streams :
          /\ buffer'[t] = IF t = s THEN None ELSE buffer[t]
          /\ stored'[t] = IF t = s THEN <<>> ELSE stored[t]
          /\ write'[t] = IF t = s THEN "none" ELSE write[t]
    BY <1>1, <2>1 DEF Domains
  <2>3. Domains'
    <3>1. stored' \in [Streams -> Seq(1 .. Total)]
      BY <1>1, <2>1 DEF Domains
    <3> QED
      BY <1>1, <1>2, <2>1, <3>1 DEF Domains
  <2>4. BuffersExclusive'
    BY <1>1, <1>2, <2>2, BufferedAssumption DEF Domains, BuffersExclusive
  <2>5. OthersStay(s)
    BY <1>2, <1>3, <2>2 DEF OthersStay, WriterStays, ReaderStays
  <2>6. WriterInv(s)'
    <3>1. Len(<<>>) = 0 /\ 0 <= Capacity
      BY BufferedAssumption
    <3> QED
      BY <1>1, <1>2, <1>3, <2>2, <3>1 DEF WriterInv, From
  <2> QED
    BY <1>4, <1>5, <2>3, <2>4, <2>5, <2>6 DEF Step
<1> QED
  BY <1>6, <1>7

LEMMA KernelWritesStep ==
  ASSUME BufferedInv, ~panic, NEW s \in Streams, KernelWrites(s)
  PROVE  Step(s)
<1> USE DEF rvars
<1>1. Domains /\ BuffersExclusive /\ WriterInv(s) /\ ReaderInv(s)
  BY DEF BufferedInv
<1>2. PICK n \in {-1} \cup 1 .. Len(stored[s]) :
        /\ wrote' = [wrote EXCEPT ![s] = n]
        /\ sunk' = [sunk EXCEPT ![s] = IF n < 0 THEN @ ELSE @ \o SubSeq(stored[s], 1, n)]
  BY DEF KernelWrites
<1>3. /\ write[s] = "flight"
      /\ UNCHANGED <<writer, pool, accepted, promised, reader, view, fill, arrived, taken, got,
                      panic>>
  BY DEF KernelWrites
<1>4. PICK k \in Nat, a \in Nat :
        /\ k = Len(sunk[s]) /\ a = accepted[s] /\ k <= a /\ a <= Total
        /\ sunk[s] = Bytes(0, k) /\ stored[s] = Bytes(k, a)
  BY <1>1, <1>3 DEF Domains, WriterInv, From
<1>5. Len(stored[s]) = a - k /\ Len(stored[s]) <= Capacity /\ Capacity \in Nat
  <2>1. k <= a
    BY <1>4
  <2>2. Len(Bytes(k, a)) = a - k
    BY <2>1, BytesLen
  <2> QED
    BY <1>1, <1>4, <2>2, BufferedAssumption DEF WriterInv
<1>6. n = -1 \/ (n \in Nat /\ n # 0 /\ k + n <= a)
  <2>1. n = -1 \/ (n \in Int /\ 1 <= n /\ n <= a - k)
    BY <1>5
  <2> QED
    BY <2>1
<1> DEFINE m == IF n = -1 THEN k ELSE k + n
<1>7. m \in Nat /\ k <= m /\ m <= a /\ m <= Total
  <2>1. k <= a /\ a <= Total /\ Total \in Nat
    BY <1>4, BufferedAssumption
  <2> QED
    BY <1>6, <2>1
<1>8. (IF n < 0 THEN sunk[s] ELSE sunk[s] \o SubSeq(stored[s], 1, n)) = Bytes(0, m)
  <2>1. CASE n = -1
    BY <1>4, <2>1
  <2>2. CASE n # -1
    <3>1. n \in Nat /\ ~(n < 0) /\ n <= a - k /\ m = k + n
      BY <1>6, <2>2
    <3>2. Bytes(0, k) \o SubSeq(Bytes(k, a), 1, n) = Bytes(0, k + n)
      BY <3>1, BytesMore
    <3> HIDE DEF m
    <3> QED
      BY <1>4, <3>1, <3>2
  <2> QED
    BY <2>1, <2>2
<1> HIDE DEF m
<1>9. Len(Bytes(0, m)) = m /\ Bytes(0, m) \in Seq(1 .. Total)
  BY <1>7, BytesLen, BytesIn
<1>10. \A t \in Streams : /\ sunk'[t] = IF t = s THEN Bytes(0, m) ELSE sunk[t]
                          /\ wrote'[t] = IF t = s THEN n ELSE wrote[t]
  BY <1>1, <1>2, <1>8 DEF Domains
<1>11. sunk' \in [Streams -> Seq(1 .. Total)] /\ wrote' \in [Streams -> -1 .. Capacity]
  <2>1. n \in -1 .. Capacity
    BY <1>5
  <2> QED
    BY <1>1, <1>2, <1>8, <1>9, <2>1 DEF Domains
<1>12. Implements(s)
  <2>1. CASE n = -1
    BY <1>3, <1>4, <1>10, <2>1 DEF Implements, Visible, m
  <2>2. CASE n # -1
    <3>1. m \in Len(sunk[s]) + 1 .. accepted[s]
      BY <1>4, <1>6, <1>7, <2>2 DEF m
    <3>2. sunk'[s] = Bytestream(s)!Upto(m)
      BY <1>7, <1>10, BytesUpto
    <3> QED
      BY <1>3, <3>1, <3>2 DEF Implements, Visible, Bytestream!Next, Bytestream!Sink
  <2> QED
    BY <2>1, <2>2
<1>13. ReaderInv(s)'
  <2>1. taken[s] \in Nat /\ taken[s] <= Len(sunk[s]) /\ Len(sunk[s]) <= Len(sunk'[s])
    BY <1>1, <1>4, <1>7, <1>9, <1>10 DEF Domains, ReaderInv
  <2>2. taken[s] <= Len(sunk'[s])
    BY <1>4, <1>7, <1>9, <1>10, <2>1
  <2> QED
    BY <1>1, <1>3, <2>2 DEF ReaderInv
<1>14. CASE writer[s] = "gone"
  <2>1. /\ buffer' = [buffer EXCEPT ![s] = None] /\ stored' = [stored EXCEPT ![s] = <<>>]
        /\ write' = [write EXCEPT ![s] = "none"]
    BY <1>14 DEF KernelWrites
  <2>2. \A t \in Streams :
          /\ buffer'[t] = IF t = s THEN None ELSE buffer[t]
          /\ stored'[t] = IF t = s THEN <<>> ELSE stored[t]
          /\ write'[t] = IF t = s THEN "none" ELSE write[t]
    BY <1>1, <2>1 DEF Domains
  <2>3. Domains'
    <3>1. stored' \in [Streams -> Seq(1 .. Total)]
      BY <1>1, <2>1 DEF Domains
    <3> QED
      BY <1>1, <1>3, <1>11, <2>1, <3>1 DEF Domains
  <2>4. BuffersExclusive'
    BY <1>1, <1>3, <2>2, BufferedAssumption DEF Domains, BuffersExclusive
  <2>5. OthersStay(s)
    BY <1>3, <1>10, <2>2 DEF OthersStay, WriterStays, ReaderStays
  <2>6. WriterInv(s)'
    <3>1. Len(<<>>) = 0 /\ 0 <= Capacity
      BY BufferedAssumption
    <3> QED
      BY <1>1, <1>3, <1>4, <1>7, <1>9, <1>10, <1>14, <2>2, <3>1 DEF WriterInv, From
  <2> QED
    BY <1>12, <1>13, <2>3, <2>4, <2>5, <2>6 DEF Step
<1>15. CASE writer[s] # "gone"
  <2>1. write' = [write EXCEPT ![s] = "done"] /\ UNCHANGED <<buffer, stored>>
    BY <1>15 DEF KernelWrites
  <2>2. \A t \in Streams : write'[t] = IF t = s THEN "done" ELSE write[t]
    BY <1>1, <2>1 DEF Domains
  <2>3. Domains' /\ BuffersExclusive'
    BY <1>1, <1>3, <1>11, <2>1 DEF Domains, BuffersExclusive
  <2>4. OthersStay(s)
    BY <1>3, <1>10, <2>1, <2>2 DEF OthersStay, WriterStays, ReaderStays
  <2>5. From(s)' = k
    <3>1. From(s)' = IF n >= 0 THEN m - n ELSE m
      BY <1>9, <1>10, <2>2 DEF From
    <3> QED
      BY <1>6, <3>1 DEF m
  <2>6. n <= m /\ n <= Len(stored[s])
    BY <1>5, <1>6 DEF m
  <2>7. stored'[s] = Bytes(From(s)', accepted'[s])
    BY <1>3, <1>4, <2>1, <2>5
  <2>8. /\ sunk'[s] = Bytes(0, Len(sunk'[s])) /\ Len(sunk'[s]) <= accepted'[s]
        /\ wrote'[s] <= Len(sunk'[s]) /\ wrote'[s] <= Len(stored'[s])
    BY <1>3, <1>4, <1>7, <1>9, <1>10, <2>1, <2>6
  <2>9. WriterInv(s)'
    BY <1>1, <1>3, <1>15, <2>1, <2>2, <2>7, <2>8 DEF WriterInv
  <2> QED
    BY <1>12, <1>13, <2>3, <2>4, <2>9 DEF Step
<1> QED
  BY <1>14, <1>15

-------------------------------------------------------------------------------
(***************************************************************************)
(* The reader's actions.                                                   *)
(***************************************************************************)
(* They leave the writer alone. *)
LEMMA ReaderStep ==
  ASSUME BufferedInv, ~panic, NEW s \in Streams, UNCHANGED <<wvars, panic>>,
         Domains', \A t \in Streams \ {s} : ReaderStays(t), ReaderInv(s)', Implements(s)
  PROVE  Step(s)
<1> USE DEF wvars
<1>1. Domains /\ BuffersExclusive /\ WriterInv(s)
  BY DEF BufferedInv
<1>2. BuffersExclusive'
  BY <1>1 DEF BuffersExclusive
<1>3. OthersStay(s)
  BY DEF OthersStay, WriterStays
<1>4. WriterInv(s)'
  BY <1>1 DEF WriterInv, From
<1> QED
  BY <1>2, <1>3, <1>4 DEF Step

LEMMA BeginFillStep ==
  ASSUME BufferedInv, ~panic, NEW s \in Streams, BeginFill(s)
  PROVE  Step(s)
<1>1. Domains /\ ReaderInv(s)
  BY DEF BufferedInv
<1>2. /\ reader[s] = "ready" /\ view[s] = <<>>
      /\ reader' = [reader EXCEPT ![s] = "pending"] /\ fill' = [fill EXCEPT ![s] = "flight"]
      /\ UNCHANGED <<wvars, view, arrived, taken, got, panic>>
  BY DEF BeginFill
<1>3. \A t \in Streams : /\ reader'[t] = IF t = s THEN "pending" ELSE reader[t]
                         /\ fill'[t] = IF t = s THEN "flight" ELSE fill[t]
  BY <1>1, <1>2 DEF Domains
<1>4. Domains'
  BY <1>1, <1>2 DEF Domains, wvars
<1>5. \A t \in Streams \ {s} : ReaderStays(t)
  BY <1>2, <1>3 DEF ReaderStays
<1>6. Len(got[s]) = taken[s]
  <2>1. PICK g \in Nat, k \in Nat : /\ g = Len(got[s]) /\ k = taken[s] /\ g <= k
                                  /\ <<>> = Bytes(g, k)
    BY <1>1, <1>2 DEF Domains, ReaderInv
  <2>2. Len(Bytes(g, k)) = k - g
    <3>1. g <= k
      BY <2>1
    <3> QED
      BY <3>1, BytesLen
  <2>3. k - g = 0
    BY <2>1, <2>2
  <2>4. k = g
    BY <2>3
  <2> QED
    BY <2>1, <2>4
<1>7. ReaderInv(s)'
  BY <1>1, <1>2, <1>3, <1>6 DEF ReaderInv, wvars
<1>8. Implements(s)
  BY <1>2, StutterImplements DEF wvars
<1> QED
  BY <1>2, <1>4, <1>5, <1>7, <1>8, ReaderStep

LEMMA FillDoneStep ==
  ASSUME BufferedInv, ~panic, NEW s \in Streams, FillDone(s)
  PROVE  Step(s)
<1>1. Domains /\ ReaderInv(s)
  BY DEF BufferedInv
<1>2. /\ reader[s] = "pending" /\ fill[s] \in {"done", "failed"}
      /\ reader' = [reader EXCEPT ![s] = "ready"]
      /\ view' = [view EXCEPT ![s] = IF fill[s] = "done" THEN arrived[s] ELSE <<>>]
      /\ fill' = [fill EXCEPT ![s] = "none"]
      /\ UNCHANGED <<wvars, arrived, taken, got, panic>>
  BY DEF FillDone
<1>3. \A t \in Streams :
        /\ reader'[t] = IF t = s THEN "ready" ELSE reader[t]
        /\ view'[t] = IF t = s THEN (IF fill[s] = "done" THEN arrived[s] ELSE <<>>) ELSE view[t]
        /\ fill'[t] = IF t = s THEN "none" ELSE fill[t]
  BY <1>1, <1>2 DEF Domains
<1>4. Domains'
  <2>1. view' \in [Streams -> Seq(1 .. Total)]
    <3>1. <<>> \in Seq(1 .. Total) /\ arrived[s] \in Seq(1 .. Total)
      BY <1>1 DEF Domains
    <3>2. (IF fill[s] = "done" THEN arrived[s] ELSE <<>>) \in Seq(1 .. Total)
      BY <3>1
    <3> QED
      BY <1>1, <1>2, <3>2 DEF Domains
  <2> QED
    BY <1>1, <1>2, <2>1 DEF Domains, wvars
<1>5. \A t \in Streams \ {s} : ReaderStays(t)
  BY <1>2, <1>3 DEF ReaderStays
<1>6. ReaderInv(s)'
  <2>1. CASE fill[s] = "done"
    BY <1>1, <1>2, <1>3, <2>1 DEF ReaderInv, wvars
  <2>2. CASE fill[s] = "failed"
    <3>1. taken[s] \in Nat /\ Len(got[s]) = taken[s] /\ view'[s] = <<>>
      BY <1>1, <1>2, <1>3, <2>2 DEF Domains, ReaderInv
    <3>2. view'[s] = Bytes(taken[s], taken[s]) /\ Len(view'[s]) = 0 /\ 0 <= ReadCapacity
      BY <3>1, BytesNone, BufferedAssumption
    <3> QED
      BY <1>1, <1>2, <1>3, <3>1, <3>2 DEF ReaderInv, wvars
  <2> QED
    BY <1>2, <2>1, <2>2
<1>7. Implements(s)
  BY <1>2, StutterImplements DEF wvars
<1> QED
  BY <1>2, <1>4, <1>5, <1>6, <1>7, ReaderStep

LEMMA ConsumeStep ==
  ASSUME BufferedInv, ~panic, NEW s \in Streams, Consume(s)
  PROVE  Step(s)
<1>1. Domains /\ ReaderInv(s)
  BY DEF BufferedInv
<1>2. PICK n \in 1 .. Len(view[s]) :
        /\ got' = [got EXCEPT ![s] = @ \o SubSeq(view[s], 1, n)]
        /\ view' = [view EXCEPT ![s] = SubSeq(@, n + 1, Len(@))]
  BY DEF Consume
<1>3. reader[s] = "ready" /\ UNCHANGED <<wvars, reader, fill, arrived, taken, panic>>
  BY DEF Consume
<1>4. PICK g \in Nat, k \in Nat :
        /\ g = Len(got[s]) /\ k = taken[s] /\ g <= k /\ k <= Total
        /\ k <= Len(sunk[s]) /\ got[s] = Bytes(0, g) /\ view[s] = Bytes(g, k)
  BY <1>1, <1>3 DEF Domains, ReaderInv
<1>5. Len(view[s]) = k - g /\ Len(view[s]) <= ReadCapacity /\ ReadCapacity \in Nat
  <2>1. g <= k
    BY <1>4
  <2>2. Len(Bytes(g, k)) = k - g
    BY <2>1, BytesLen
  <2> QED
    BY <1>1, <1>4, <2>2, BufferedAssumption DEF ReaderInv
<1> DEFINE m == g + n
<1>6. n \in Nat /\ 1 <= n /\ n <= k - g /\ m \in Nat /\ g + 1 <= m /\ m <= k /\ m <= Total
      /\ k <= Total
  <2>1. n \in Int /\ 1 <= n /\ n <= k - g
    BY <1>5
  <2>2. k <= Total /\ Total \in Nat
    BY <1>4, BufferedAssumption
  <2> QED
    BY <2>1, <2>2
<1>7. got[s] \o SubSeq(view[s], 1, n) = Bytes(0, m)
  <2>1. Bytes(0, g) \o SubSeq(Bytes(g, k), 1, n) = Bytes(0, g + n)
    BY <1>6, BytesMore
  <2> QED
    BY <1>4, <2>1
<1>8. SubSeq(view[s], n + 1, Len(view[s])) = Bytes(m, k)
  <2>1. SubSeq(Bytes(g, k), n + 1, k - g) = Bytes(g + n, k)
    BY <1>6, BytesRest
  <2> QED
    BY <1>4, <1>5, <2>1
<1> HIDE DEF m
<1>9. /\ Len(Bytes(0, m)) = m /\ Bytes(0, m) \in Seq(1 .. Total)
      /\ Len(Bytes(m, k)) = k - m /\ Bytes(m, k) \in Seq(1 .. Total)
  <2>1. m \in Nat /\ m <= k /\ m <= Total /\ k <= Total /\ 0 <= m
    BY <1>6
  <2>2. Len(Bytes(0, m)) = m /\ Len(Bytes(m, k)) = k - m
    <3>1. Len(Bytes(0, m)) = m - 0
      BY <2>1, BytesLen
    <3>2. Len(Bytes(m, k)) = k - m
      BY <2>1, BytesLen
    <3> QED
      BY <2>1, <3>1, <3>2
  <2>3. Bytes(0, m) \in Seq(1 .. Total)
    BY <2>1, BytesIn
  <2>4. Bytes(m, k) \in Seq(1 .. Total)
    BY <2>1, BytesIn
  <2> QED
    BY <2>2, <2>3, <2>4
<1>10. \A t \in Streams : /\ got'[t] = IF t = s THEN Bytes(0, m) ELSE got[t]
                          /\ view'[t] = IF t = s THEN Bytes(m, k) ELSE view[t]
  BY <1>1, <1>2, <1>7, <1>8 DEF Domains
<1>11. Domains'
  <2>1. got' \in [Streams -> Seq(1 .. Total)] /\ view' \in [Streams -> Seq(1 .. Total)]
    BY <1>1, <1>2, <1>7, <1>8, <1>9 DEF Domains
  <2> QED
    BY <1>1, <1>3, <2>1 DEF Domains, wvars
<1>12. \A t \in Streams \ {s} : ReaderStays(t)
  BY <1>3, <1>10 DEF ReaderStays
<1>13. ReaderInv(s)'
  <2>1. Len(got'[s]) = m /\ m <= k /\ k - m <= ReadCapacity
    BY <1>5, <1>6, <1>9, <1>10
  <2> QED
    BY <1>1, <1>3, <1>4, <1>9, <1>10, <2>1 DEF ReaderInv, wvars
<1>14. Implements(s)
  <2>1. m \in Len(got[s]) + 1 .. Len(sunk[s])
    <3>1. PICK l \in Nat : l = Len(sunk[s]) /\ k <= l
      BY <1>1, <1>4 DEF Domains
    <3>2. m \in g + 1 .. l
      BY <1>6, <3>1
    <3> QED
      BY <1>4, <3>1, <3>2
  <2>2. got'[s] = Bytestream(s)!Upto(m)
    BY <1>6, <1>10, BytesUpto
  <2> QED
    BY <1>3, <2>1, <2>2 DEF Implements, Visible, Bytestream!Next, Bytestream!Receive, wvars
<1> QED
  BY <1>3, <1>11, <1>12, <1>13, <1>14, ReaderStep

LEMMA DropReaderStep ==
  ASSUME BufferedInv, ~panic, NEW s \in Streams, DropReader(s)
  PROVE  Step(s)
<1>1. Domains /\ ReaderInv(s)
  BY DEF BufferedInv
<1>2. /\ reader' = [reader EXCEPT ![s] = "gone"] /\ view' = [view EXCEPT ![s] = <<>>]
      /\ UNCHANGED <<wvars, fill, arrived, taken, got, panic>>
  BY DEF DropReader
<1>3. \A t \in Streams : /\ reader'[t] = IF t = s THEN "gone" ELSE reader[t]
                         /\ view'[t] = IF t = s THEN <<>> ELSE view[t]
  BY <1>1, <1>2 DEF Domains
<1>4. Domains'
  <2>1. view' \in [Streams -> Seq(1 .. Total)]
    BY <1>1, <1>2 DEF Domains
  <2> QED
    BY <1>1, <1>2, <2>1 DEF Domains, wvars
<1>5. \A t \in Streams \ {s} : ReaderStays(t)
  BY <1>2, <1>3 DEF ReaderStays
<1>6. ReaderInv(s)'
  <2>1. Len(<<>>) = 0 /\ 0 <= ReadCapacity
    BY BufferedAssumption
  <2> QED
    BY <1>1, <1>2, <1>3, <2>1 DEF ReaderInv, wvars
<1>7. Implements(s)
  BY <1>2, StutterImplements DEF wvars
<1> QED
  BY <1>2, <1>4, <1>5, <1>6, <1>7, ReaderStep

LEMMA KernelReadsStep ==
  ASSUME BufferedInv, ~panic, NEW s \in Streams, KernelReads(s)
  PROVE  Step(s)
<1>1. Domains /\ WriterInv(s) /\ ReaderInv(s)
  BY DEF BufferedInv
<1>2. fill[s] = "flight" /\ UNCHANGED <<wvars, reader, view, got, panic>>
  BY DEF KernelReads
<1>3. Implements(s)
  BY <1>2, StutterImplements DEF wvars
<1>4. CASE fill' = [fill EXCEPT ![s] = "failed"] /\ UNCHANGED <<arrived, taken>>
  <2>1. \A t \in Streams : fill'[t] = IF t = s THEN "failed" ELSE fill[t]
    BY <1>1, <1>4 DEF Domains
  <2>2. Domains'
    BY <1>1, <1>2, <1>4 DEF Domains, wvars
  <2>3. \A t \in Streams \ {s} : ReaderStays(t)
    BY <1>2, <1>4, <2>1 DEF ReaderStays
  <2>4. ReaderInv(s)'
    BY <1>1, <1>2, <1>4, <2>1 DEF ReaderInv, wvars
  <2> QED
    BY <1>2, <1>3, <2>2, <2>3, <2>4, ReaderStep
<1>5. CASE \E n \in {0} \cup 1 .. Lesser(Len(sunk[s]) - taken[s], ReadCapacity) :
             /\ n <= Len(sunk[s]) - taken[s]
             /\ fill' = [fill EXCEPT ![s] = "done"]
             /\ arrived' = [arrived EXCEPT ![s] = SubSeq(sunk[s], taken[s] + 1, taken[s] + n)]
             /\ taken' = [taken EXCEPT ![s] = @ + n]
  <2>1. PICK n \in {0} \cup 1 .. Lesser(Len(sunk[s]) - taken[s], ReadCapacity) :
          /\ n <= Len(sunk[s]) - taken[s]
          /\ fill' = [fill EXCEPT ![s] = "done"]
          /\ arrived' = [arrived EXCEPT ![s] = SubSeq(sunk[s], taken[s] + 1, taken[s] + n)]
          /\ taken' = [taken EXCEPT ![s] = @ + n]
    BY <1>5
  <2>2. PICK t0 \in Nat, l \in Nat :
          /\ t0 = taken[s] /\ l = Len(sunk[s]) /\ t0 <= l /\ l <= Total
          /\ sunk[s] = Bytes(0, l) /\ Len(got[s]) <= t0
    BY <1>1, BufferedAssumption DEF Domains, WriterInv, ReaderInv
  <2>3. n \in Nat /\ n <= l - t0 /\ n <= ReadCapacity
    <3>1. ReadCapacity \in Nat /\ n <= l - t0
      BY <2>1, <2>2, BufferedAssumption
    <3>2. n = 0 \/ (n \in Int /\ 1 <= n /\ n <= Lesser(l - t0, ReadCapacity))
      BY <2>1, <2>2
    <3> QED
      BY <3>1, <3>2 DEF Lesser
  <2>4. PICK m \in Nat : m = t0 + n /\ t0 <= m /\ m <= l /\ m <= Total /\ m - t0 <= ReadCapacity
    <3>1. l <= Total /\ Total \in Nat
      BY <2>2, BufferedAssumption
    <3> QED
      BY <2>3, <3>1
  <2>5. SubSeq(sunk[s], taken[s] + 1, taken[s] + n) = Bytes(t0, m)
    <3>1. t0 <= m /\ m <= l
      BY <2>4
    <3>2. SubSeq(Bytes(0, l), t0 + 1, m) = Bytes(t0, m)
      BY <3>1, BytesSub
    <3> QED
      BY <2>2, <2>4, <3>2
  <2>6. Len(Bytes(t0, m)) = m - t0 /\ Bytes(t0, m) \in Seq(1 .. Total)
    <3>1. t0 <= m /\ m <= Total
      BY <2>4
    <3> QED
      BY <3>1, BytesLen, BytesIn
  <2>7. \A t \in Streams :
          /\ fill'[t] = IF t = s THEN "done" ELSE fill[t]
          /\ arrived'[t] = IF t = s THEN Bytes(t0, m) ELSE arrived[t]
          /\ taken'[t] = IF t = s THEN m ELSE taken[t]
    BY <1>1, <2>1, <2>2, <2>4, <2>5 DEF Domains
  <2>8. Domains'
    <3>1. arrived' \in [Streams -> Seq(1 .. Total)]
      BY <1>1, <2>1, <2>5, <2>6 DEF Domains
    <3>2. taken' \in [Streams -> 0 .. Total]
      <4>1. m \in 0 .. Total /\ taken' = [taken EXCEPT ![s] = m]
        BY <2>1, <2>2, <2>4, BufferedAssumption
      <4> QED
        BY <1>1, <4>1 DEF Domains
    <3> QED
      BY <1>1, <1>2, <2>1, <3>1, <3>2 DEF Domains, wvars
  <2>9. \A t \in Streams \ {s} : ReaderStays(t)
    BY <1>2, <2>7 DEF ReaderStays
  <2>10. ReaderInv(s)'
    <3>1. Len(got[s]) \in Nat /\ Len(got[s]) <= m
      <4>1. PICK g \in Nat : g = Len(got[s]) /\ g <= t0
        BY <1>1, <2>2 DEF Domains
      <4> QED
        BY <2>4, <4>1
    <3>2. reader[s] = "pending" => Len(got[s]) = t0
      BY <1>1, <1>2, <2>2 DEF ReaderInv
    <3>3. reader[s] # "ready"
      BY <1>1, <1>2 DEF ReaderInv
    <3> QED
      BY <1>1, <1>2, <2>2, <2>4, <2>6, <2>7, <3>1, <3>2, <3>3 DEF ReaderInv, wvars
  <2> QED
    BY <1>2, <1>3, <2>8, <2>9, <2>10, ReaderStep
<1> QED
  <2>1. 0 <= Len(sunk[s]) - taken[s]
    BY <1>1 DEF Domains, ReaderInv
  <2>2. \A n \in 1 .. Lesser(Len(sunk[s]) - taken[s], ReadCapacity) :
          n <= Len(sunk[s]) - taken[s]
    <3> DEFINE left == Len(sunk[s]) - taken[s]
    <3>1. left \in Int /\ ReadCapacity \in Nat
      BY <1>1, BufferedAssumption DEF Domains
    <3> HIDE DEF left
    <3>2. \A n \in 1 .. Lesser(left, ReadCapacity) : n <= left
      BY <3>1 DEF Lesser
    <3> QED
      BY <3>2 DEF left
  <2> QED
    BY <1>4, <1>5, <2>1, <2>2 DEF KernelReads

-------------------------------------------------------------------------------
LEMMA EveryStep ==
  ASSUME BufferedInv, [Next]_vars
  PROVE  BufferedInv' /\ \A s \in Streams : Implements(s)
<1>1. CASE UNCHANGED vars
  <2>1. UNCHANGED <<writer, buffer, stored, write, wrote, pool, accepted, promised, sunk,
                    reader, view, fill, arrived, taken, got, panic>>
    BY <1>1 DEF vars, wvars, rvars
  <2>2. Domains' /\ BuffersExclusive'
    BY <2>1 DEF BufferedInv, Domains, BuffersExclusive
  <2>3. \A s \in Streams : WriterInv(s)' /\ ReaderInv(s)'
    BY <2>1 DEF BufferedInv, WriterInv, ReaderInv, From
  <2>4. \A s \in Streams : Implements(s)
    BY <2>1, StutterImplements
  <2> QED
    BY <2>2, <2>3, <2>4 DEF BufferedInv
<1>2. CASE Next
  <2>1. ~panic
    BY <1>2 DEF Next
  <2>2. PICK s \in Streams :
          \/ PollWrite(s) \/ BeginFlush(s) \/ FlushNothing(s) \/ FlushDone(s)
          \/ WriteAfterFlush(s) \/ FlushFailed(s) \/ DropWriter(s) \/ KernelWrites(s)
          \/ BeginFill(s) \/ FillDone(s) \/ Consume(s) \/ DropReader(s) \/ KernelReads(s)
    BY <1>2 DEF Next
  <2>3. Step(s)
    BY <2>1, <2>2, PollWriteStep, BeginFlushStep, FlushNothingStep, FlushDoneStep,
       WriteAfterFlushStep, FlushFailedStep, DropWriterStep, KernelWritesStep,
       BeginFillStep, FillDoneStep, ConsumeStep, DropReaderStep, KernelReadsStep
  <2> QED
    BY <2>1, <2>3, StepKeeps
<1> QED
  BY <1>1, <1>2

(* The invariant the others rest on. *)
THEOREM BufferedInvInductive == Spec => []BufferedInv
<1>1. Init => BufferedInv
  BY InitHolds
<1>2. BufferedInv /\ [Next]_vars => BufferedInv'
  BY EveryStep
<1> QED
  BY <1>1, <1>2, PTL DEF Spec

(* Types, and what a pending writer has in flight, for any capacities      *)
(* (writer/generic.rs: BufWriterState; reader/generic.rs: BufReaderState). *)
THEOREM BufferedTypes == Spec => []TypeOK
<1>1. ASSUME BufferedInv
      PROVE  TypeOK
  <2>1. ASSUME NEW s \in Streams
        PROVE  /\ stored[s] \in Seq(1 .. Total) /\ Len(stored[s]) <= Capacity
               /\ view[s] \in Seq(1 .. Total) /\ Len(view[s]) <= ReadCapacity
               /\ arrived[s] \in Seq(1 .. Total) /\ sunk[s] \in Seq(1 .. Total)
               /\ got[s] \in Seq(1 .. Total)
               /\ wrote[s] \in -1 .. Capacity
               /\ writer[s] = "pending" <=> write[s] # "none" /\ writer[s] # "gone"
               /\ stored[s] # <<>> => buffer[s] # None
    BY <1>1 DEF BufferedInv, Domains, WriterInv, ReaderInv
  <2>2. ASSUME NEW s \in Streams
        PROVE  taken[s] \in 0 .. Len(sunk[s])
    BY <1>1 DEF BufferedInv, Domains, ReaderInv
  <2>3. ASSUME NEW s \in Streams
        PROVE  accepted[s] \in 0 .. Total /\ promised[s] \in 0 .. accepted[s]
    BY <1>1 DEF BufferedInv, Domains, WriterInv
  <2> QED
    BY <1>1, <2>1, <2>2, <2>3 DEF BufferedInv, Domains, TypeOK
<1> QED
  BY <1>1, BufferedInvInductive, PTL

(* No buffer is in two places: with two writers, or with one and in the    *)
(* set (writer/group.rs: pre_write, post_flush; group.rs: get and insert). *)
THEOREM BuffersNotShared == Spec => []BuffersExclusive
BY BufferedInvInductive, PTL DEF BufferedInv

(* The two ends of a stream implement ByteStream: bytes come out in order, *)
(* once, and a flush that returns Ok has written all of them               *)
(* (writer/generic.rs, reader/generic.rs).                                 *)
THEOREM ImplementsByteStream == Spec => RefinesByteStream
<1>1. Init => \A s \in Streams : Bytestream(s)!Init
  BY InitHolds
<1>2. BufferedInv /\ [Next]_vars =>
        [\A s \in Streams :
          [Bytestream(s)!Next]_<<accepted[s], promised[s], sunk[s], got[s]>>]_vars
  BY EveryStep DEF Implements, Visible
<1> QED
  BY <1>1, <1>2, BufferedInvInductive, PTL DEF Spec, RefinesByteStream

===============================================================================
