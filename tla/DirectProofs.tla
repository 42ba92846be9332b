----------------------------- MODULE DirectProofs -----------------------------
(***************************************************************************)
(* The register of manual slots, the direct files it stands for, and the   *)
(* requests in the linked queue, for any number of flows and slots.        *)
(***************************************************************************)
EXTENDS DirectFiles, SequenceTheorems, FiniteSetTheorems, TLAPS

(***************************************************************************)
(* Slots.                                                                  *)
(***************************************************************************)
SlotTypes ==
  /\ direct \in [vacant : Seq(SlotRange), len : 0 .. Size]
  /\ slot \in [Flows -> Slots \cup {None}]
  /\ status \in [Flows -> {"new", "busy", "open", "done", "dropped"}]

(* The indices below len are the vacant ones and those that are held. *)
Accounted ==
  /\ \A i \in DOMAIN direct.vacant : direct.vacant[i] \in 0 .. direct.len - 1
  /\ \A s \in 0 .. direct.len - 1 :
       InSeq(direct.vacant, s) \/ \E f \in Holders : slot[f] = s

SlotInv == SlotTypes /\ SlotsExclusive /\ Accounted

(* get hands out an index that nobody holds. *)
LEMMA GetKeeps ==
  ASSUME SlotInv, NEW f \in Manual, f \notin Holders, HasSlot(direct, Size),
         slot' = [slot EXCEPT ![f] = SlotOf(direct)],
         direct' = AfterGet(direct),
         status' = [status EXCEPT ![f] = "busy"]
  PROVE  SlotInv'
<1> DEFINE v == direct.vacant
           n == direct.len
<1>1. /\ v \in Seq(SlotRange) /\ n \in 0 .. Size /\ n \in Nat /\ Size \in Nat
      /\ Len(v) \in Nat /\ DOMAIN v = 1 .. Len(v)
      /\ f \in Flows
  BY FlowsAssumption DEF SlotInv, SlotTypes, Manual, Flows
<1>a. \A i, j \in 1 .. Len(v) : v[i] = v[j] => i = j
  BY <1>1 DEF SlotInv, SlotsExclusive
<1>2. Holders' = Holders \cup {f}
  BY <1>1 DEF Holders, SlotInv, SlotTypes, Manual, Flows
<1>3. \A g \in Holders : g # f /\ g \in Flows /\ slot'[g] = slot[g]
  BY <1>1 DEF Holders, SlotInv, SlotTypes, Manual, Flows
<1>4. CASE v # <<>>
  <2> DEFINE w == SubSeq(v, 1, Len(v) - 1)
  <2>1. /\ Len(v) >= 1
        /\ w \in Seq(SlotRange)
        /\ Len(w) = Len(v) - 1
        /\ DOMAIN w = 1 .. Len(v) - 1
        /\ \A i \in 1 .. Len(v) - 1 : w[i] = v[i]
    BY <1>1, <1>4, SubSeqProperties, EmptySeq
  <2>2. direct' = [vacant |-> w, len |-> n] /\ slot'[f] = v[Len(v)]
    BY <1>1, <1>4 DEF AfterGet, SlotOf, SlotInv, SlotTypes
  <2>3. \A s : InSeq(v, s) <=> InSeq(w, s) \/ s = v[Len(v)]
    <3> TAKE s
    <3>1. ASSUME InSeq(v, s) PROVE InSeq(w, s) \/ s = v[Len(v)]
      <4>1. PICK i \in 1 .. Len(v) : v[i] = s
        BY <1>1, <3>1 DEF InSeq
      <4>2. CASE i = Len(v)
        BY <4>1, <4>2
      <4>3. CASE i # Len(v)
        <5>1. i \in DOMAIN w /\ w[i] = s
          BY <4>1, <4>3, <1>1, <2>1
        <5> QED BY <5>1 DEF InSeq
      <4> QED BY <4>2, <4>3
    <3>2. ASSUME InSeq(w, s) \/ s = v[Len(v)] PROVE InSeq(v, s)
      BY <3>2, <1>1, <2>1 DEF InSeq
    <3> QED BY <3>1, <3>2
  <2>4. ~InSeq(w, v[Len(v)])
    <3> SUFFICES ASSUME NEW i \in 1 .. Len(v) - 1, w[i] = v[Len(v)] PROVE FALSE
      BY <2>1 DEF InSeq
    <3>1. i \in 1 .. Len(v) /\ Len(v) \in 1 .. Len(v) /\ i # Len(v)
      BY <1>1, <2>1
    <3>2. v[i] = v[Len(v)]
      BY <2>1
    <3> HIDE DEF v, w
    <3> QED BY <3>1, <3>2, <1>a
  <2>5. SlotTypes'
    BY <1>1, <2>1, <2>2 DEF SlotInv, SlotTypes, Slots
  <2>6. SlotsExclusive'
    <3>1. \A i, j \in DOMAIN w : w[i] = w[j] => i = j
      <4>1. \A i \in DOMAIN w : i \in 1 .. Len(v) /\ w[i] = v[i]
        BY <1>1, <2>1
      <4> HIDE DEF v, w
      <4> QED BY <4>1, <1>a
    <3>2. slot'[f] \in 0 .. n - 1
      BY <1>1, <2>1, <2>2 DEF SlotInv, Accounted
    <3>3. \A g \in Holders : slot[g] \in 0 .. n - 1 /\ ~InSeq(w, slot[g]) /\ slot[g] # v[Len(v)]
      BY <2>3 DEF SlotInv, SlotsExclusive
    <3> QED BY <1>2, <1>3, <2>2, <2>4, <3>1, <3>2, <3>3 DEF SlotInv, SlotsExclusive
  <2>7. Accounted'
    <3>1. \A i \in DOMAIN w : w[i] \in 0 .. n - 1
      BY <1>1, <2>1 DEF SlotInv, Accounted
    <3>2. \A s \in 0 .. n - 1 : InSeq(w, s) \/ \E g \in Holders' : slot'[g] = s
      BY <1>2, <1>3, <2>2, <2>3 DEF SlotInv, Accounted
    <3> QED BY <2>2, <3>1, <3>2 DEF Accounted
  <2> QED BY <2>5, <2>6, <2>7 DEF SlotInv
<1>5. CASE v = <<>>
  <2>1. direct' = [vacant |-> v, len |-> n + 1] /\ slot'[f] = n /\ n + 1 \in 0 .. Size
    BY <1>1, <1>5 DEF AfterGet, SlotOf, HasSlot, SlotInv, SlotTypes
  <2>2. \A s : ~InSeq(v, s)
    BY <1>5 DEF InSeq
  <2>3. SlotTypes'
    BY <1>1, <2>1 DEF SlotInv, SlotTypes, Slots, SlotRange
  <2>4. SlotsExclusive'
    <3>1. \A g \in Holders : slot[g] \in 0 .. n - 1 /\ slot[g] # n
      BY <1>1 DEF SlotInv, SlotsExclusive
    <3>2. \A g \in Holders' : slot'[g] \in 0 .. (n + 1) - 1
      BY <1>1, <1>2, <1>3, <2>1, <3>1
    <3> QED BY <1>2, <1>3, <1>5, <2>1, <2>2, <3>1, <3>2 DEF SlotInv, SlotsExclusive
  <2>5. Accounted'
    <3>1. \A s \in 0 .. n - 1 : \E g \in Holders : slot[g] = s
      BY <2>2 DEF SlotInv, Accounted
    <3>2. \A s \in 0 .. (n + 1) - 1 : s = n \/ s \in 0 .. n - 1
      BY <1>1
    <3> QED BY <1>2, <1>3, <1>5, <2>1, <3>1, <3>2 DEF Accounted
  <2> QED BY <2>3, <2>4, <2>5 DEF SlotInv
<1> QED BY <1>4, <1>5

(* remove takes back the index of a holder that is one no longer. *)
LEMMA RemoveKeeps ==
  ASSUME SlotInv, NEW f \in Holders, Release(f), slot' = slot,
         NEW t \in {"done", "dropped"}, status' = [status EXCEPT ![f] = t]
  PROVE  SlotInv'
<1> DEFINE v == direct.vacant
           n == direct.len
           w == Append(v, slot[f])
<1>1. /\ v \in Seq(SlotRange) /\ n \in 0 .. Size /\ n \in Nat /\ Size \in Nat
      /\ Len(v) \in Nat /\ DOMAIN v = 1 .. Len(v)
      /\ f \in Flows /\ slot[f] \in 0 .. n - 1 /\ slot[f] \in SlotRange
  BY FlowsAssumption DEF SlotInv, SlotTypes, SlotsExclusive, Holders, Manual, Flows, SlotRange
<1>a. /\ \A i, j \in 1 .. Len(v) : v[i] = v[j] => i = j
      /\ \A i \in 1 .. Len(v) : v[i] # slot[f]
  BY <1>1 DEF SlotInv, SlotsExclusive, InSeq
<1>2. Holders' = Holders \ {f}
  BY <1>1 DEF Holders, SlotInv, SlotTypes, Manual, Flows
<1>3. direct' = [vacant |-> w, len |-> n]
  <2>1. slot[f] < Size
    BY <1>1 DEF SlotRange
  <2>2. direct' = [direct EXCEPT !.vacant = Append(@, slot[f])]
    BY <2>1 DEF Release, AfterRemove
  <2> QED BY <2>2 DEF SlotInv, SlotTypes
<1>4. /\ w \in Seq(SlotRange)
      /\ DOMAIN w = 1 .. Len(v) + 1
      /\ \A i \in 1 .. Len(v) : w[i] = v[i]
      /\ w[Len(v) + 1] = slot[f]
  BY <1>1, AppendProperties
<1>5. \A s : InSeq(w, s) <=> InSeq(v, s) \/ s = slot[f]
  <2> TAKE s
  <2>1. ASSUME InSeq(w, s) PROVE InSeq(v, s) \/ s = slot[f]
    <3>1. PICK i \in 1 .. Len(v) + 1 : w[i] = s
      BY <2>1, <1>4 DEF InSeq
    <3> QED BY <3>1, <1>1, <1>4 DEF InSeq
  <2>2. ASSUME InSeq(v, s) \/ s = slot[f] PROVE InSeq(w, s)
    BY <2>2, <1>1, <1>4 DEF InSeq
  <2> QED BY <2>1, <2>2
<1>6. SlotTypes'
  BY <1>1, <1>3, <1>4 DEF SlotInv, SlotTypes
<1>7. SlotsExclusive'
  <2>1. \A i, j \in DOMAIN w : w[i] = w[j] => i = j
    BY <1>1, <1>a, <1>4
  <2>2. \A g \in Holders' : slot'[g] \in 0 .. n - 1 /\ ~InSeq(w, slot'[g])
    BY <1>2, <1>5 DEF SlotInv, SlotsExclusive
  <2> QED BY <1>2, <1>3, <2>1, <2>2 DEF SlotInv, SlotsExclusive
<1>8. Accounted'
  <2>1. \A i \in DOMAIN w : w[i] \in 0 .. n - 1
    BY <1>1, <1>4 DEF SlotInv, Accounted
  <2>2. \A s \in 0 .. n - 1 : InSeq(w, s) \/ \E g \in Holders' : slot'[g] = s
    BY <1>2, <1>5 DEF SlotInv, Accounted
  <2> QED BY <1>3, <2>1, <2>2 DEF Accounted
<1> QED BY <1>6, <1>7, <1>8 DEF SlotInv

(* What does not touch the register, the slots or the holders. *)
LEMMA SameHolders ==
  ASSUME SlotInv, UNCHANGED <<direct, slot>>, Holders' = Holders,
         status' \in [Flows -> {"new", "busy", "open", "done", "dropped"}]
  PROVE  SlotInv'
BY DEF SlotInv, SlotTypes, SlotsExclusive, Accounted, InSeq

LEMMA SlotInit == Init => SlotInv
<1> SUFFICES ASSUME Init PROVE SlotInv
  OBVIOUS
<1>1. Holders = {}
  BY FlowsAssumption DEF Init, Holders, Manual, Flows
<1>2. direct = [vacant |-> <<>>, len |-> 0] /\ Size \in Nat
  BY FlowsAssumption DEF Init, NewRegister
<1>3. SlotTypes
  BY <1>2 DEF Init, SlotTypes, Slots, Flows
<1> QED BY <1>1, <1>2, <1>3 DEF SlotInv, SlotsExclusive, Accounted, InSeq

LEMMA SlotStep == SlotInv /\ [Next]_vars => SlotInv'
<1> SUFFICES ASSUME SlotInv, [Next]_vars PROVE SlotInv'
  OBVIOUS
<1>0. \A f : f \in Manual => f \in Flows /\ f \notin Streams /\ f \notin Others
  BY FlowsAssumption DEF Manual, Flows
<1> USE <1>0
<1>1. ASSUME NEW f \in Flows, Start(f) PROVE SlotInv'
  BY <1>1, GetKeeps DEF Start, Holders
<1>2. ASSUME NEW f \in Flows, Finish(f) PROVE SlotInv'
  <2>1. CASE f \in Binds /\ AllOk(f)
    <3>1. status[f] = "busy" /\ status' = [status EXCEPT ![f] = "open"] /\ UNCHANGED <<direct, slot>>
      BY <1>2, <2>1 DEF Finish, Returned
    <3> QED BY <3>1, SameHolders DEF Holders, SlotInv, SlotTypes
  <2>2. CASE ~(f \in Binds /\ AllOk(f)) /\ f \in Manual
    <3>1. f \in Holders /\ status' = [status EXCEPT ![f] = "done"] /\ Release(f) /\ slot' = slot
      BY <1>2, <2>2 DEF Finish, Returned, Holders
    <3> QED BY <3>1, RemoveKeeps
  <2>3. CASE f \notin Manual
    <3>1. status' = [status EXCEPT ![f] = "done"] /\ UNCHANGED <<direct, slot>>
      BY <1>2, <2>3 DEF Finish, Manual
    <3> QED BY <3>1, <2>3, SameHolders DEF Holders, SlotInv, SlotTypes
  <2> QED BY <2>1, <2>2, <2>3
<1>3. ASSUME NEW f \in Flows, DropFlow(f) PROVE SlotInv'
  <2>1. CASE f \in Manual
    BY <1>3, <2>1, RemoveKeeps DEF DropFlow, Holders
  <2>2. CASE f \notin Manual
    BY <1>3, <2>2, SameHolders DEF DropFlow, Holders, SlotInv, SlotTypes
  <2> QED BY <2>1, <2>2
<1>4. ASSUME NEW f \in Flows, DropListener(f) PROVE SlotInv'
  BY <1>4, RemoveKeeps DEF DropListener, Holders, Manual
<1>5. ASSUME NEW f \in Flows, StartWithoutSlot(f) \/ StartOther(f) \/ DropStream(f) PROVE SlotInv'
  BY <1>5, SameHolders DEF StartWithoutSlot, StartOther, DropStream, Holders, SlotInv, SlotTypes
<1>6. ASSUME UNCHANGED <<direct, slot, status>> PROVE SlotInv'
  BY <1>6, SameHolders DEF Holders, SlotInv, SlotTypes
<1>7. CASE Enter \/ EnterEmpty \/ Reap \/ Kernel \/ UNCHANGED vars
  BY <1>6, <1>7 DEF Enter, EnterEmpty, Reap, Kernel, KernelStep, vars
<1> QED BY <1>1, <1>2, <1>3, <1>4, <1>5, <1>7 DEF Next, Client

(* The slot a manual flow holds is its own, for any number of flows and    *)
(* slots: reserve, finish and drop in any order (register.rs, source.rs).  *)
THEOREM SlotsAreExclusive == Spec => []SlotsExclusive
<1>1. SlotInv => SlotsExclusive
  BY DEF SlotInv
<1> QED BY <1>1, SlotInit, SlotStep, PTL DEF Spec

(* is_full compares two lengths: the map from positions to vacant indices  *)
(* is injective, so it is onto exactly when nothing is held.               *)
LEMMA FullIsExact == SlotInv => IsFullIsExact
<1> SUFFICES ASSUME SlotInv PROVE IsFullIsExact
  OBVIOUS
<1> DEFINE v == direct.vacant
           n == direct.len
           S == 1 .. Len(v)
           T == 0 .. n - 1
<1>1. v \in Seq(SlotRange) /\ Len(v) \in Nat /\ DOMAIN v = S /\ n \in Nat /\ n \in Int
  BY FlowsAssumption DEF SlotInv, SlotTypes
<1>2. v \in [S -> T]
  BY <1>1 DEF SlotInv, Accounted
<1>3. v \in Injection(S, T)
  BY <1>1, <1>2 DEF SlotInv, SlotsExclusive, Injection, IsInjective
<1>4. IsFiniteSet(S) /\ Cardinality(S) = Len(v) /\ IsFiniteSet(T) /\ Cardinality(T) = n
  <2>1. n - 1 \in Int /\ Len(v) \in Int /\ 0 \in Int /\ 1 \in Int
    BY <1>1
  <2>2. IsFiniteSet(1 .. Len(v)) /\ Cardinality(1 .. Len(v)) = IF 1 > Len(v) THEN 0 ELSE Len(v) - 1 + 1
    BY <2>1, FS_Interval
  <2>3. IsFiniteSet(0 .. n - 1) /\ Cardinality(0 .. n - 1) = IF 0 > n - 1 THEN 0 ELSE n - 1 - 0 + 1
    BY <2>1, FS_Interval
  <2>4. /\ (IF 1 > Len(v) THEN 0 ELSE Len(v) - 1 + 1) = Len(v)
        /\ (IF 0 > n - 1 THEN 0 ELSE n - 1 - 0 + 1) = n
    BY <1>1
  <2> QED BY <2>2, <2>3, <2>4
<1>5. Len(v) = n <=> v \in Surjection(S, T)
  BY <1>3, <1>4, FS_Injection
<1>6. v \in Surjection(S, T) <=> \A s \in T : InSeq(v, s)
  BY <1>1, <1>2 DEF Surjection, InSeq
<1>7. (\A s \in T : InSeq(v, s)) <=> Holders = {}
  BY DEF SlotInv, SlotsExclusive, Accounted
<1> QED BY <1>5, <1>6, <1>7 DEF IsFullIsExact, IsFull

(* The part of is_done that counts the manual slots is exact.              *)
THEOREM FullMeansUnheld == Spec => []IsFullIsExact
BY FullIsExact, SlotInit, SlotStep, PTL DEF Spec

-------------------------------------------------------------------------------
(***************************************************************************)
(* Every request of a flow is in one place at a time: in the submission    *)
(* queue, behind one issued entry, issued, or back.  From this follow the  *)
(* types of the direct files and, if only other flows are dropped, that a  *)
(* slot is never named by an operation of an earlier owner.                *)
(***************************************************************************)

QueueTypes ==
  /\ sq \in Seq(Requests)
  /\ stage \in [Requests -> {"none", "sq", "linked", "ready", "kernel", "cq", "done"}]
  /\ result \in [Requests -> {"none", "ok", "short", "error", "canceled"}]
  /\ rest \in [Requests -> Seq(Requests)]
  /\ table \in [Slots -> Flows \cup {None}]
  /\ used \in [Requests -> Flows \cup {None}]

LoopTypes ==
  /\ pc \in {"user", "entering", "waiting"}
  /\ panic \in {"none", "no_slot", "short_write"}

(* The queue and the chains hold every request at most once, and the stage *)
(* of a request says where it is.                                          *)
Queues ==
  /\ \A i \in DOMAIN sq : stage[sq[i]] = "sq"
  /\ \A i, j \in DOMAIN sq : sq[i] = sq[j] => i = j
  /\ \A r \in Requests : \A i \in DOMAIN rest[r] : stage[rest[r][i]] = "linked"
  /\ \A r, q \in Requests : \A i \in DOMAIN rest[r] : \A j \in DOMAIN rest[q] :
       rest[r][i] = rest[q][j] => r = q /\ i = j

(* What has not been submitted yet. *)
Fresh ==
  /\ \A f \in Flows : \A k \in StepsOf(f) :
       stage[Operation(f, k)] # "none" =>
         status[f] # "new" /\ (f \in Streams => status[f] = "dropped")
  /\ \A r \in AsyncCancels : stage[r] # "none" => status[r.flow] = "dropped"

(* The slots that flows name. *)
Named ==
  /\ \A f \in Streams : slot[f] = f /\ status[f] \in {"open", "dropped"}
  /\ \A f \in Manual : status[f] # "new" => slot[f] \in SlotRange
  /\ \A f \in Others : slot[f] = None

DirectInv == SlotInv /\ QueueTypes /\ LoopTypes /\ Queues /\ Fresh /\ Named

(***************************************************************************)
(* Requests.                                                               *)
(***************************************************************************)
LEMMA StepsFacts ==
  ASSUME NEW f \in Flows
  PROVE  /\ Steps(f) \in Seq(Kinds)
         /\ DOMAIN Steps(f) = 1 .. Len(Steps(f))
         /\ \A i, j \in DOMAIN Steps(f) : Steps(f)[i] = Steps(f)[j] => i = j
<1>1. CASE f \in Exists
  <2>1. Steps(f) = <<"open">>
    BY <1>1, FlowsAssumption DEF Steps
  <2> QED BY <2>1 DEF Kinds
<1>2. CASE f \in Readers
  <2>1. Steps(f) = <<"open", "read">>
    BY <1>2, FlowsAssumption DEF Steps
  <2> QED BY <2>1 DEF Kinds
<1>3. CASE f \in Writers
  <2>1. Steps(f) = <<"open", "write">>
    BY <1>3, FlowsAssumption DEF Steps
  <2> QED BY <2>1 DEF Kinds
<1>4. CASE f \in Binds
  <2>1. Steps(f) = <<"socket", "bind", "listen">>
    BY <1>4, FlowsAssumption DEF Steps
  <2> QED BY <2>1 DEF Kinds
<1>5. CASE f \in Streams
  <2>1. Steps(f) = <<"shutdown", "close">>
    BY <1>5, FlowsAssumption DEF Steps
  <2> QED BY <2>1 DEF Kinds
<1>6. CASE f \in Others
  <2>1. Steps(f) = <<"other">>
    BY <1>6, FlowsAssumption DEF Steps
  <2> QED BY <2>1 DEF Kinds
<1> QED BY <1>1, <1>2, <1>3, <1>4, <1>5, <1>6 DEF Flows

LEMMA RequestFacts ==
  /\ \A f \in Flows : \A k \in StepsOf(f) : Operation(f, k) \in Operations
  /\ \A r \in Operations : /\ r.flow \in Flows
                           /\ r.kind \in StepsOf(r.flow)
                           /\ r = Operation(r.flow, r.kind)
                           /\ r.cancel = FALSE
  /\ \A f \in Flows : \A k \in StepsOf(f) \cap Cancellable : AsyncCancel(f, k) \in AsyncCancels
  /\ \A r \in AsyncCancels : /\ r.flow \in Flows
                             /\ r.kind \in StepsOf(r.flow) \cap Cancellable
                             /\ r = AsyncCancel(r.flow, r.kind)
                             /\ r.cancel = TRUE
  /\ Operations \subseteq Requests /\ AsyncCancels \subseteq Requests
  /\ \A r \in Requests : r \in Operations \/ r \in AsyncCancels
<1>1. \A r : r \in Operations <=> \E f \in Flows : \E k \in StepsOf(f) : r = Operation(f, k)
  BY DEF Operations
<1>2. \A r : r \in AsyncCancels <=>
        \E f \in Flows : \E k \in StepsOf(f) \cap Cancellable : r = AsyncCancel(f, k)
  BY DEF AsyncCancels
<1>3. \A f, k : /\ Operation(f, k).flow = f
                /\ Operation(f, k).kind = k
                /\ Operation(f, k).cancel = FALSE
                /\ AsyncCancel(f, k).flow = f
                /\ AsyncCancel(f, k).kind = k
                /\ AsyncCancel(f, k).cancel = TRUE
  BY DEF Operation, AsyncCancel
<1>4. \A r \in Operations : /\ r.flow \in Flows
                            /\ r.kind \in StepsOf(r.flow)
                            /\ r = Operation(r.flow, r.kind)
                            /\ r.cancel = FALSE
  BY <1>1, <1>3
<1>5. \A r \in AsyncCancels : /\ r.flow \in Flows
                              /\ r.kind \in StepsOf(r.flow) \cap Cancellable
                              /\ r = AsyncCancel(r.flow, r.kind)
                              /\ r.cancel = TRUE
  BY <1>2, <1>3
<1> QED BY <1>1, <1>2, <1>4, <1>5 DEF Requests

(* The entries of a flow, as Start and the drops push them. *)
LEMMA OperationsOfFacts ==
  ASSUME NEW f \in Flows
  PROVE  /\ OperationsOf(f) \in Seq(Requests)
         /\ \A i \in DOMAIN OperationsOf(f) :
              \E k \in StepsOf(f) : OperationsOf(f)[i] = Operation(f, k)
         /\ \A i, j \in DOMAIN OperationsOf(f) :
              OperationsOf(f)[i] = OperationsOf(f)[j] => i = j
<1>1. /\ Len(Steps(f)) \in Nat /\ DOMAIN Steps(f) = 1 .. Len(Steps(f))
      /\ \A i, j \in DOMAIN Steps(f) : Steps(f)[i] = Steps(f)[j] => i = j
  BY StepsFacts
<1>2. \A i \in 1 .. Len(Steps(f)) : Steps(f)[i] \in StepsOf(f)
  BY <1>1 DEF StepsOf
<1>3. \A i \in 1 .. Len(Steps(f)) : Operation(f, Steps(f)[i]) \in Requests
  BY <1>2, RequestFacts
<1>4. \A k, l : Operation(f, k) = Operation(f, l) => k = l
  BY DEF Operation
<1> QED BY <1>1, <1>2, <1>3, <1>4 DEF OperationsOf

(***************************************************************************)
(* Steps of the queues.                                                    *)
(***************************************************************************)
(* The kernel moves only what it holds. *)
Moved ==
  \A x \in Requests : stage'[x] # stage[x] =>
    /\ stage[x] \in {"sq", "linked", "ready", "kernel"}
    /\ stage'[x] \in {"linked", "ready", "kernel", "cq"}

LEMMA PushKeeps ==
  ASSUME QueueTypes, Queues, NEW s \in Seq(Requests), Push(s),
         \A i \in DOMAIN s : stage[s[i]] = "none",
         \A i, j \in DOMAIN s : s[i] = s[j] => i = j
  PROVE  /\ QueueTypes' /\ Queues'
         /\ \A x \in Requests : stage'[x] = IF InSeq(s, x) THEN "sq" ELSE stage[x]
<1> DEFINE m == Len(sq)
<1>1. /\ m \in Nat /\ Len(s) \in Nat /\ DOMAIN sq = 1 .. m /\ DOMAIN s = 1 .. Len(s)
      /\ sq' = sq \o s
  BY DEF QueueTypes, Push
<1>2. /\ sq' \in Seq(Requests)
      /\ Len(sq') = m + Len(s)
      /\ DOMAIN sq' = 1 .. m + Len(s)
      /\ \A i \in 1 .. m + Len(s) : sq'[i] = IF i <= m THEN sq[i] ELSE s[i - m]
  BY <1>1, ConcatProperties DEF QueueTypes
<1>3. /\ \A x \in Requests : stage'[x] = IF InSeq(s, x) THEN "sq" ELSE stage[x]
      /\ QueueTypes'
      /\ rest' = rest
  BY <1>2 DEF QueueTypes, Push
<1>4. \A i \in 1 .. Len(s) : s[i] \in Requests /\ InSeq(s, s[i]) /\ stage[s[i]] = "none"
  BY <1>1 DEF InSeq
<1>5. /\ \A i \in 1 .. m : sq[i] \in Requests /\ stage[sq[i]] = "sq"
      /\ \A i, j \in 1 .. m : sq[i] = sq[j] => i = j
  <2>1. \A i \in 1 .. m : sq[i] \in Requests
    BY <1>1 DEF QueueTypes
  <2>2. \A i \in 1 .. m : stage[sq[i]] = "sq"
    BY <1>1 DEF Queues
  <2>3. \A i, j \in 1 .. m : sq[i] = sq[j] => i = j
    BY <1>1 DEF Queues
  <2> QED BY <2>1, <2>2, <2>3
<1> HIDE DEF m
<1>6. \A x \in Requests : InSeq(s, x) => stage[x] = "none"
  BY <1>4, <1>1 DEF InSeq
<1>7. \A i \in 1 .. m + Len(s) : i <= m \/ i - m \in 1 .. Len(s)
  BY <1>1
<1>8. \A i \in DOMAIN sq' : stage'[sq'[i]] = "sq"
  BY <1>1, <1>2, <1>3, <1>4, <1>5, <1>7
<1>9. \A i, j \in DOMAIN sq' : sq'[i] = sq'[j] => i = j
  <2> SUFFICES ASSUME NEW i \in 1 .. m + Len(s), NEW j \in 1 .. m + Len(s), sq'[i] = sq'[j]
               PROVE  i = j
    BY <1>2
  <2>1. CASE i <= m /\ j <= m
    <3>1. i \in 1 .. m /\ j \in 1 .. m /\ sq'[i] = sq[i] /\ sq'[j] = sq[j]
      BY <2>1, <1>1, <1>2
    <3> QED BY <3>1, <1>5
  <2>2. CASE i > m /\ j > m
    <3>1. i - m \in 1 .. Len(s) /\ j - m \in 1 .. Len(s)
      BY <2>2, <1>1
    <3>2. sq'[i] = s[i - m] /\ sq'[j] = s[j - m]
      BY <2>2, <1>1, <1>2
    <3>3. i - m = j - m
      BY <3>1, <3>2, <1>1
    <3> QED BY <3>3, <1>1
  <2>3. CASE i <= m /\ j > m
    <3>1. i \in 1 .. m /\ j - m \in 1 .. Len(s) /\ sq'[i] = sq[i] /\ sq'[j] = s[j - m]
      BY <2>3, <1>1, <1>2
    <3> QED BY <3>1, <1>4, <1>5
  <2>4. CASE i > m /\ j <= m
    <3>1. j \in 1 .. m /\ i - m \in 1 .. Len(s) /\ sq'[j] = sq[j] /\ sq'[i] = s[i - m]
      BY <2>4, <1>1, <1>2
    <3> QED BY <3>1, <1>4, <1>5
  <2> QED BY <2>1, <2>2, <2>3, <2>4, <1>1
<1>10. \A r \in Requests : \A i \in DOMAIN rest[r] : rest[r][i] \in Requests
  BY DEF QueueTypes
<1>11. \A r \in Requests : \A i \in DOMAIN rest[r] : stage'[rest[r][i]] = "linked"
  BY <1>3, <1>6, <1>10 DEF Queues
<1> QED BY <1>3, <1>8, <1>9, <1>11 DEF Queues

(* The file an operation that has been submitted finds is one of the table. *)
LEMMA FileType ==
  ASSUME SlotInv, QueueTypes, Fresh, Named, NEW r \in Requests, stage[r] # "none"
  PROVE  FileOf(r) \in Flows \cup {None}
<1>1. CASE r.cancel \/ r.kind \in {"open", "socket", "other"}
  BY <1>1 DEF FileOf
<1>2. CASE ~(r.cancel \/ r.kind \in {"open", "socket", "other"})
  <2>1. r \in Operations
    BY <1>2, RequestFacts
  <2> DEFINE f == r.flow
  <2>2. f \in Flows /\ r.kind \in StepsOf(f) /\ r = Operation(f, r.kind)
    BY <2>1, RequestFacts
  <2>3. CASE f \in Others
    <3>1. Steps(f) = <<"other">>
      BY <2>3, FlowsAssumption DEF Steps
    <3> QED BY <3>1, <2>2, <1>2 DEF StepsOf
  <2>4. CASE f \in Streams
    <3>1. slot[f] \in Slots
      BY <2>4 DEF Named, Slots
    <3> QED BY <3>1, <1>2 DEF FileOf, QueueTypes
  <2>5. CASE f \in Manual
    <3>1. status[f] # "new"
      BY <2>2 DEF Fresh
    <3>2. slot[f] \in Slots
      BY <3>1, <2>5 DEF Named, Slots
    <3> QED BY <3>2, <1>2 DEF FileOf, QueueTypes
  <2> QED BY <2>2, <2>3, <2>4, <2>5 DEF Flows, Manual
<1> QED BY <1>1, <1>2

LEMMA TableType ==
  ASSUME QueueTypes, NEW r \in Requests
  PROVE  TableAfter(r) \in [Slots -> Flows \cup {None}]
<1>1. r.flow \in Flows
  BY RequestFacts
<1> QED BY <1>1 DEF TableAfter, QueueTypes

(* wait consumes the first chain of the queue. *)
LEMMA SubmitKeeps ==
  ASSUME SlotInv, QueueTypes, Queues, Fresh, Named, SubmitChain
  PROVE  QueueTypes' /\ Queues' /\ Moved
<1> DEFINE m == Len(sq)
           h == sq[1]
<1>1. /\ m = Len(sq) /\ h = sq[1]
      /\ m \in Nat /\ DOMAIN sq = 1 .. m /\ m >= 1 /\ 1 \in DOMAIN sq
      /\ h \in Requests /\ stage[h] = "sq"
      /\ \A i \in 1 .. m : sq[i] \in Requests /\ stage[sq[i]] = "sq"
      /\ \A i, j \in 1 .. m : sq[i] = sq[j] => i = j
  BY EmptySeq DEF SubmitChain, QueueTypes, Queues
<1>r. \A r, q \in Requests : \A i \in DOMAIN rest[r] : \A j \in DOMAIN rest[q] :
        rest[r][i] = rest[q][j] => r = q /\ i = j
  BY DEF Queues
<1>2. \A r \in Requests : \A i \in DOMAIN rest[r] :
        rest[r][i] \in Requests /\ stage[rest[r][i]] = "linked"
  BY DEF QueueTypes, Queues
<1> HIDE DEF m, h
<1>4. CASE CreateSocket(h)
  <2>1. /\ sq' \in Seq(Requests)
        /\ DOMAIN sq' = 1 .. m - 1
        /\ \A i \in 1 .. m - 1 : sq'[i] = sq[i + 1]
    BY <1>1, <1>4, HeadTailProperties DEF CreateSocket, QueueTypes
  <2>2. /\ stage' = [stage EXCEPT ![h] = "cq"] /\ rest' = rest
        /\ \A x \in Requests : stage'[x] = IF x = h THEN "cq" ELSE stage[x]
    BY <1>1, <1>4 DEF CreateSocket, QueueTypes
  <2>3. QueueTypes'
    <3>1. table' \in [Slots -> Flows \cup {None}]
      BY <1>1, <1>4, TableType DEF CreateSocket, QueueTypes
    <3>2. result' \in [Requests -> {"none", "ok", "short", "error", "canceled"}]
      BY <1>1, <1>4 DEF CreateSocket, QueueTypes
    <3> QED BY <1>4, <2>1, <2>2, <3>1, <3>2 DEF CreateSocket, QueueTypes
  <2>4. \A i \in 1 .. m - 1 : sq'[i] # h /\ i + 1 \in 1 .. m
    <3> SUFFICES ASSUME NEW i \in 1 .. m - 1 PROVE sq'[i] # h /\ i + 1 \in 1 .. m
      OBVIOUS
    <3>1. i + 1 \in 1 .. m /\ i + 1 # 1 /\ 1 \in 1 .. m
      BY <1>1
    <3> QED BY <3>1, <1>1, <2>1
  <2>5. /\ \A i \in DOMAIN sq' : stage'[sq'[i]] = "sq"
        /\ \A i, j \in DOMAIN sq' : sq'[i] = sq'[j] => i = j
    BY <1>1, <2>1, <2>2, <2>4
  <2>6. Queues'
    BY <1>1, <1>2, <1>r, <2>2, <2>5 DEF Queues
  <2> QED BY <1>1, <2>2, <2>3, <2>6 DEF Moved
<1>5. ASSUME NEW n \in DOMAIN sq, IssueChain(h, n) PROVE QueueTypes' /\ Queues' /\ Moved
  <2> DEFINE w == SubSeq(sq, 2, n)
  <2>1. /\ n \in 1 .. m
        /\ w \in Seq(Requests)
        /\ DOMAIN w = 1 .. n - 1
        /\ \A i \in 1 .. n - 1 : w[i] = sq[i + 1]
    <3>1. n \in Int /\ 2 \in Int /\ \A i \in 2 .. n : sq[i] \in Requests
      BY <1>1
    <3>2. /\ w \in Seq(Requests)
          /\ Len(w) = IF 2 <= n THEN n - 2 + 1 ELSE 0
          /\ \A i \in 1 .. n - 2 + 1 : w[i] = sq[2 + i - 1]
      BY <3>1, SubSeqProperties
    <3> QED BY <3>2, <1>1
  <2>2. /\ sq' \in Seq(Requests)
        /\ DOMAIN sq' = 1 .. m - n
        /\ \A i \in 1 .. m - n : sq'[i] = sq[n + i]
    <3>1. n + 1 \in Int /\ m \in Int /\ \A i \in n + 1 .. m : sq[i] \in Requests
      BY <1>1
    <3>2. /\ sq' \in Seq(Requests)
          /\ Len(sq') = IF n + 1 <= m THEN m - (n + 1) + 1 ELSE 0
          /\ \A i \in 1 .. m - (n + 1) + 1 : sq'[i] = sq[(n + 1) + i - 1]
      <4>1. sq' = SubSeq(sq, n + 1, m)
        BY <1>1, <1>5 DEF IssueChain
      <4> QED BY <3>1, <4>1, SubSeqProperties
    <3>3. Len(sq') = m - n /\ m - (n + 1) + 1 = m - n /\ n \in Nat
      BY <3>2, <1>1, <2>1
    <3>4. DOMAIN sq' = 1 .. m - n
      BY <3>2, <3>3
    <3>5. \A i \in 1 .. m - n : sq'[i] = sq[n + i]
      <4> TAKE i \in 1 .. m - n
      <4>1. sq'[i] = sq[(n + 1) + i - 1]
        BY <3>2, <3>3
      <4>2. (n + 1) + i - 1 = n + i
        BY <3>3, <1>1
      <4> QED BY <4>1, <4>2
    <3> QED BY <3>2, <3>4, <3>5
  <2>a. /\ \A x \in Requests : InSeq(w, x) => stage[x] = "sq" /\ x # h
        /\ \A i \in 1 .. n - 1 : w[i] \in Requests /\ InSeq(w, w[i]) /\ i + 1 \in 1 .. m
    <3>1. \A i \in 1 .. n - 1 : /\ i + 1 \in 1 .. m /\ w[i] = sq[i + 1]
                                /\ w[i] \in Requests /\ stage[w[i]] = "sq" /\ w[i] # h
      <4> TAKE i \in 1 .. n - 1
      <4>1. i + 1 \in 1 .. m /\ i + 1 # 1 /\ 1 \in 1 .. m
        BY <1>1, <2>1
      <4> QED BY <4>1, <1>1, <2>1
    <3> QED BY <3>1, <2>1 DEF InSeq
  <2>3. /\ \A x \in Requests : stage'[x] = IF x = h THEN "kernel"
                                           ELSE IF InSeq(w, x) THEN "linked" ELSE stage[x]
        /\ \A x \in Requests : rest'[x] = IF x = h THEN w ELSE rest[x]
        /\ stage' \in [Requests -> {"none", "sq", "linked", "ready", "kernel", "cq", "done"}]
        /\ rest' \in [Requests -> Seq(Requests)]
    <3>1. /\ stage' = [x \in Requests |-> CASE x = h -> "kernel"
                                            [] InSeq(w, x) -> "linked"
                                            [] OTHER -> stage[x]]
          /\ rest' = [rest EXCEPT ![h] = w]
      BY <1>5 DEF IssueChain
    <3>2. w \in Seq(Requests)
      BY <2>1
    <3> HIDE DEF w
    <3>3. /\ \A x \in Requests : rest'[x] = IF x = h THEN w ELSE rest[x]
          /\ rest' \in [Requests -> Seq(Requests)]
      BY <1>1, <3>1, <3>2 DEF QueueTypes
    <3>4. \A x \in Requests : stage'[x] = IF x = h THEN "kernel"
                                         ELSE IF InSeq(w, x) THEN "linked" ELSE stage[x]
      <4> TAKE x \in Requests
      <4>1. stage'[x] = CASE x = h -> "kernel" [] InSeq(w, x) -> "linked" [] OTHER -> stage[x]
        BY <3>1
      <4>2. CASE x = h
        BY <4>1, <4>2, <1>1, <2>a DEF InSeq
      <4>3. CASE x # h /\ InSeq(w, x)
        BY <4>1, <4>3 DEF InSeq
      <4>4. CASE x # h /\ ~InSeq(w, x)
        BY <4>1, <4>4 DEF InSeq
      <4> QED BY <4>2, <4>3, <4>4
    <3>5. stage' \in [Requests -> {"none", "sq", "linked", "ready", "kernel", "cq", "done"}]
      BY <3>1, <3>4 DEF QueueTypes
    <3> QED BY <3>3, <3>4, <3>5
  <2>4. QueueTypes'
    <3>1. FileOf(h) \in Flows \cup {None}
      BY <1>1, FileType
    <3> QED BY <3>1, <1>5, <2>2, <2>3 DEF IssueChain, QueueTypes
  <2>6. \A i \in DOMAIN sq' : stage'[sq'[i]] = "sq"
    <3> SUFFICES ASSUME NEW i \in 1 .. m - n PROVE stage'[sq[n + i]] = "sq"
      BY <2>2
    <3>1. n + i \in 1 .. m /\ sq[n + i] # h
      <4>1. n + i \in 1 .. m /\ n + i # 1 /\ 1 \in 1 .. m
        BY <1>1, <2>1
      <4> QED BY <4>1, <1>1
    <3>2. ~InSeq(w, sq[n + i])
      <4> SUFFICES ASSUME NEW j \in 1 .. n - 1, w[j] = sq[n + i] PROVE FALSE
        BY <2>1 DEF InSeq
      <4>1. j + 1 \in 1 .. m /\ sq[j + 1] = sq[n + i]
        BY <1>1, <2>1
      <4>2. j + 1 = n + i
        BY <4>1, <3>1, <1>1, SMTT(60)
      <4> QED BY <4>2, <2>1
    <3>3. sq[n + i] \in Requests /\ stage[sq[n + i]] = "sq"
      BY <3>1, <1>1
    <3> QED BY <3>1, <3>2, <3>3, <2>3
  <2>7. \A i, j \in DOMAIN sq' : sq'[i] = sq'[j] => i = j
    <3> SUFFICES ASSUME NEW i \in 1 .. m - n, NEW j \in 1 .. m - n, sq'[i] = sq'[j]
                 PROVE  i = j
      BY <2>2
    <3>1. n + i \in 1 .. m /\ n + j \in 1 .. m /\ sq[n + i] = sq[n + j]
      BY <1>1, <2>1, <2>2
    <3>2. n + i = n + j
      BY <1>1, <3>1
    <3> QED BY <3>2, <1>1, <2>1
  <2> HIDE DEF w
  <2>8. \A r \in Requests : \A i \in DOMAIN rest'[r] : stage'[rest'[r][i]] = "linked"
    <3> SUFFICES ASSUME NEW r \in Requests, NEW i \in DOMAIN rest'[r]
                 PROVE  stage'[rest'[r][i]] = "linked"
      OBVIOUS
    <3>1. CASE r = h
      BY <3>1, <2>1, <2>3, <2>a
    <3>2. CASE r # h
      <4>1. rest'[r] = rest[r]
        BY <3>2, <2>3
      <4>2. rest[r][i] \in Requests /\ stage[rest[r][i]] = "linked"
        BY <4>1, <1>2
      <4>3. rest[r][i] # h /\ ~InSeq(w, rest[r][i])
        BY <4>2, <1>1, <2>a
      <4> QED BY <4>1, <4>2, <4>3, <2>3
    <3> QED BY <3>1, <3>2
  <2>9. \A r, q \in Requests : \A i \in DOMAIN rest'[r] : \A j \in DOMAIN rest'[q] :
          rest'[r][i] = rest'[q][j] => r = q /\ i = j
    <3> SUFFICES ASSUME NEW r \in Requests, NEW q \in Requests,
                        NEW i \in DOMAIN rest'[r], NEW j \in DOMAIN rest'[q],
                        rest'[r][i] = rest'[q][j]
                 PROVE  r = q /\ i = j
      OBVIOUS
    <3>1. CASE r # h /\ q # h
      <4>1. rest'[r] = rest[r] /\ rest'[q] = rest[q]
        BY <3>1, <2>3
      <4> QED BY <4>1, <1>r
    <3>2. CASE r = h /\ q = h
      <4>1. i \in 1 .. n - 1 /\ j \in 1 .. n - 1 /\ w[i] = w[j]
        BY <3>2, <1>1, <2>1, <2>3
      <4>2. i + 1 = j + 1
        BY <4>1, <1>1, <2>1, <2>a
      <4> QED BY <3>2, <4>1, <4>2
    <3>3. CASE r = h /\ q # h
      <4>1. stage[rest'[r][i]] = "sq"
        BY <3>3, <1>1, <2>1, <2>3, <2>a
      <4>2. rest'[q] = rest[q]
        BY <3>3, <2>3
      <4>3. stage[rest'[q][j]] = "linked"
        BY <4>2, <1>2
      <4> QED BY <4>1, <4>3
    <3>4. CASE r # h /\ q = h
      <4>1. stage[rest'[q][j]] = "sq"
        BY <3>4, <1>1, <2>1, <2>3, <2>a
      <4>2. rest'[r] = rest[r]
        BY <3>4, <2>3
      <4>3. stage[rest'[r][i]] = "linked"
        BY <4>2, <1>2
      <4> QED BY <4>1, <4>3
    <3> QED BY <3>1, <3>2, <3>3, <3>4
  <2>10. Moved
    BY <1>1, <2>3, <2>a DEF Moved
  <2> QED BY <2>4, <2>6, <2>7, <2>8, <2>9, <2>10 DEF Queues
<1> QED BY <1>1, <1>4, <1>5 DEF SubmitChain

(* The next entry of a chain is issued. *)
LEMMA IssueKeeps ==
  ASSUME SlotInv, QueueTypes, Queues, Fresh, Named, NEW r \in Requests, Issue(r)
  PROVE  QueueTypes' /\ Queues' /\ Moved
<1>1. /\ \A x \in Requests : stage'[x] = IF x = r THEN "kernel" ELSE stage[x]
      /\ stage[r] = "ready" /\ UNCHANGED <<sq, rest>>
  BY DEF Issue, QueueTypes
<1>2. QueueTypes'
  <2>1. FileOf(r) \in Flows \cup {None}
    BY <1>1, FileType
  <2> QED BY <2>1 DEF Issue, QueueTypes
<1>3. \A i \in DOMAIN sq : sq[i] \in Requests /\ stage[sq[i]] = "sq"
  BY DEF QueueTypes, Queues
<1>4. \A q \in Requests : \A i \in DOMAIN rest[q] :
        rest[q][i] \in Requests /\ stage[rest[q][i]] = "linked"
  BY DEF QueueTypes, Queues
<1>5. \A i \in DOMAIN sq : stage'[sq[i]] = "sq"
  BY <1>1, <1>3
<1>6. \A q \in Requests : \A i \in DOMAIN rest[q] : stage'[rest[q][i]] = "linked"
  BY <1>1, <1>4
<1>7. Queues'
  BY <1>1, <1>5, <1>6 DEF Queues
<1> QED BY <1>1, <1>2, <1>7 DEF Moved

(* An operation ends and the next of its chain, if any, may be issued. *)
LEMMA SucceedKeeps ==
  ASSUME QueueTypes, Queues, NEW r \in Requests, Succeed(r)
  PROVE  QueueTypes' /\ Queues' /\ Moved
<1>1. /\ table' \in [Slots -> Flows \cup {None}]
      /\ result' \in [Requests -> {"none", "ok", "short", "error", "canceled"}]
      /\ UNCHANGED <<sq, used>> /\ stage[r] = "kernel"
  BY TableType DEF Succeed, QueueTypes
<1>2. \A i \in DOMAIN sq : sq[i] \in Requests /\ stage[sq[i]] = "sq"
  BY DEF QueueTypes, Queues
<1>3. \A q \in Requests : \A i \in DOMAIN rest[q] :
        rest[q][i] \in Requests /\ stage[rest[q][i]] = "linked"
  BY DEF QueueTypes, Queues
<1>d. \A p, q \in Requests : \A i \in DOMAIN rest[p] : \A j \in DOMAIN rest[q] :
        rest[p][i] = rest[q][j] => p = q /\ i = j
  BY DEF Queues
<1>4. CASE rest[r] = <<>>
  <2>1. /\ \A x \in Requests : stage'[x] = IF x = r THEN "cq" ELSE stage[x]
        /\ stage' \in [Requests -> {"none", "sq", "linked", "ready", "kernel", "cq", "done"}]
        /\ rest' = rest
    BY <1>4 DEF Succeed, QueueTypes
  <2>2. \A i \in DOMAIN sq : stage'[sq[i]] = "sq"
    BY <1>1, <1>2, <2>1
  <2>3. \A q \in Requests : \A i \in DOMAIN rest[q] : stage'[rest[q][i]] = "linked"
    BY <1>1, <1>3, <2>1
  <2>4. Queues'
    BY <1>1, <2>1, <2>2, <2>3 DEF Queues
  <2>5. QueueTypes'
    BY <1>1, <2>1 DEF QueueTypes
  <2> QED BY <1>1, <2>1, <2>4, <2>5 DEF Moved
<1>5. CASE rest[r] # <<>>
  <2> DEFINE n == Head(rest[r])
             t == Tail(rest[r])
  <2>1. /\ rest[r] \in Seq(Requests) /\ 1 \in DOMAIN rest[r] /\ n = rest[r][1]
        /\ n \in Requests /\ t \in Seq(Requests)
        /\ \A i \in DOMAIN t : /\ i + 1 \in DOMAIN rest[r] /\ t[i] = rest[r][i + 1]
                               /\ i \in Nat
    <3>1. /\ rest[r] \in Seq(Requests) /\ rest[r] # <<>>
      BY <1>5 DEF QueueTypes
    <3>2. /\ Len(rest[r]) \in Nat \ {0} /\ DOMAIN rest[r] = 1 .. Len(rest[r])
          /\ n \in Requests /\ t \in Seq(Requests)
          /\ Len(t) = Len(rest[r]) - 1
          /\ \A i \in 1 .. Len(t) : t[i] = rest[r][i + 1]
      BY <3>1, EmptySeq, HeadTailProperties
    <3> QED BY <3>1, <3>2
  <2>2. n # r /\ stage[n] = "linked"
    BY <2>1, <1>1, <1>3
  <2>3. /\ stage' = [stage EXCEPT ![r] = "cq", ![n] = "ready"]
        /\ rest' = [rest EXCEPT ![r] = <<>>, ![n] = t]
    BY <1>5 DEF Succeed
  <2> HIDE DEF n, t
  <2>4. /\ \A x \in Requests : stage'[x] = IF x = n THEN "ready" ELSE IF x = r THEN "cq" ELSE stage[x]
        /\ stage' \in [Requests -> {"none", "sq", "linked", "ready", "kernel", "cq", "done"}]
    BY <2>1, <2>2, <2>3 DEF QueueTypes
  <2>5. /\ \A x \in Requests : rest'[x] = IF x = n THEN t ELSE IF x = r THEN <<>> ELSE rest[x]
        /\ rest' \in [Requests -> Seq(Requests)]
    <3>1. <<>> \in Seq(Requests)
      OBVIOUS
    <3>2. \A x \in Requests : rest'[x] = IF x = n THEN t ELSE IF x = r THEN <<>> ELSE rest[x]
      BY <2>1, <2>2, <2>3 DEF QueueTypes
    <3>3. rest' \in [Requests -> Seq(Requests)]
      BY <2>1, <2>3, <3>1 DEF QueueTypes
    <3> QED BY <3>2, <3>3
  <2>6. \A i \in DOMAIN sq : stage'[sq[i]] = "sq"
    BY <1>1, <1>2, <2>2, <2>4
  <2>7. \A q \in Requests : \A i \in DOMAIN rest'[q] :
          \E p \in Requests : \E j \in DOMAIN rest[p] :
            /\ rest'[q][i] = rest[p][j] /\ rest[p][j] # n
            /\ q = n => p = r /\ j = i + 1 /\ i \in Nat
            /\ q # n => p = q /\ j = i /\ p # r
    <3> TAKE q \in Requests
    <3> TAKE i \in DOMAIN rest'[q]
    <3>1. CASE q = n
      <4>1. i + 1 \in DOMAIN rest[r] /\ rest'[q][i] = rest[r][i + 1] /\ i \in Nat
        BY <3>1, <2>1, <2>5
      <4>2. i \in 1 .. Len(t)
        BY <3>1, <2>1, <2>5
      <4>5. i + 1 # 1
        BY <4>2
      <4>3. rest[r][i + 1] # n
        BY <4>1, <4>5, <1>d, <2>1
      <4> QED BY <3>1, <4>1, <4>3
    <3>2. CASE q = r
      BY <3>2, <2>2, <2>5
    <3>3. CASE q # n /\ q # r
      <4>1. rest'[q] = rest[q]
        BY <3>3, <2>5
      <4>2. rest[q][i] # n
        BY <4>1, <3>3, <1>d, <2>1
      <4> QED BY <3>3, <4>1, <4>2
    <3> QED BY <3>1, <3>2, <3>3
  <2>8. \A q \in Requests : \A i \in DOMAIN rest'[q] : stage'[rest'[q][i]] = "linked"
    <3> TAKE q \in Requests
    <3> TAKE i \in DOMAIN rest'[q]
    <3>1. PICK p \in Requests : \E j \in DOMAIN rest[p] :
            rest'[q][i] = rest[p][j] /\ rest[p][j] # n
      BY <2>7
    <3>2. PICK j \in DOMAIN rest[p] : rest'[q][i] = rest[p][j] /\ rest[p][j] # n
      BY <3>1
    <3>3. rest[p][j] # r /\ rest[p][j] \in Requests /\ stage[rest[p][j]] = "linked"
      BY <1>1, <1>3
    <3> QED BY <3>2, <3>3, <2>4
  <2>9. \A p, q \in Requests : \A i \in DOMAIN rest'[p] : \A j \in DOMAIN rest'[q] :
          rest'[p][i] = rest'[q][j] => p = q /\ i = j
    <3> SUFFICES ASSUME NEW p \in Requests, NEW q \in Requests,
                        NEW i \in DOMAIN rest'[p], NEW j \in DOMAIN rest'[q],
                        rest'[p][i] = rest'[q][j]
                 PROVE  p = q /\ i = j
      OBVIOUS
    <3>1. PICK a \in Requests : \E k \in DOMAIN rest[a] :
            /\ rest'[p][i] = rest[a][k]
            /\ p = n => a = r /\ k = i + 1 /\ i \in Nat
            /\ p # n => a = p /\ k = i /\ a # r
      BY <2>7
    <3>2. PICK k \in DOMAIN rest[a] :
            /\ rest'[p][i] = rest[a][k]
            /\ p = n => a = r /\ k = i + 1 /\ i \in Nat
            /\ p # n => a = p /\ k = i /\ a # r
      BY <3>1
    <3>3. PICK b \in Requests : \E l \in DOMAIN rest[b] :
            /\ rest'[q][j] = rest[b][l]
            /\ q = n => b = r /\ l = j + 1 /\ j \in Nat
            /\ q # n => b = q /\ l = j /\ b # r
      BY <2>7
    <3>4. PICK l \in DOMAIN rest[b] :
            /\ rest'[q][j] = rest[b][l]
            /\ q = n => b = r /\ l = j + 1 /\ j \in Nat
            /\ q # n => b = q /\ l = j /\ b # r
      BY <3>3
    <3>5. a = b /\ k = l
      <4>1. rest[a][k] = rest[b][l]
        BY <3>2, <3>4
      <4> QED BY <4>1, <1>d
    <3>6. CASE p = n
      BY <3>2, <3>4, <3>5, <3>6
    <3>7. CASE p # n
      BY <3>2, <3>4, <3>5, <3>7
    <3> QED BY <3>6, <3>7
  <2>10. Queues'
    BY <1>1, <2>6, <2>8, <2>9 DEF Queues
  <2>11. QueueTypes'
    BY <1>1, <2>4, <2>5 DEF QueueTypes
  <2> QED BY <1>1, <2>2, <2>4, <2>10, <2>11 DEF Moved
<1> QED BY <1>4, <1>5

(* An operation ends, and the rest of its chain with it; an AsyncCancel c  *)
(* may end at the same time.                                               *)
LEMMA BreakKeeps ==
  ASSUME QueueTypes, Queues, NEW r \in Requests, NEW c \in Requests,
         stage[r] = "kernel", stage[c] = "kernel",
         result' \in [Requests -> {"none", "ok", "short", "error", "canceled"}],
         \A x \in Requests : stage'[x] = IF x \in {c, r} \/ InSeq(rest[r], x)
                                        THEN "cq" ELSE stage[x],
         stage' \in [Requests -> {"none", "sq", "linked", "ready", "kernel", "cq", "done"}],
         rest' = [rest EXCEPT ![r] = <<>>],
         UNCHANGED <<sq, table, used>>
  PROVE  QueueTypes' /\ Queues' /\ Moved
<1>1. /\ \A x \in Requests : rest'[x] = IF x = r THEN <<>> ELSE rest[x]
      /\ rest' \in [Requests -> Seq(Requests)]
  BY DEF QueueTypes
<1>2. \A i \in DOMAIN sq : sq[i] \in Requests /\ stage[sq[i]] = "sq"
  BY DEF QueueTypes, Queues
<1>3. \A q \in Requests : \A i \in DOMAIN rest[q] :
        rest[q][i] \in Requests /\ stage[rest[q][i]] = "linked"
  BY DEF QueueTypes, Queues
<1>4. \A p, q \in Requests : \A i \in DOMAIN rest[p] : \A j \in DOMAIN rest[q] :
        rest[p][i] = rest[q][j] => p = q /\ i = j
  BY DEF Queues
<1>5. \A x \in Requests : InSeq(rest[r], x) => stage[x] = "linked"
  BY <1>3 DEF InSeq
<1>6. \A i \in DOMAIN sq : stage'[sq[i]] = "sq"
  BY <1>2, <1>5
<1>7. \A q \in Requests : \A i \in DOMAIN rest'[q] : q # r /\ rest'[q] = rest[q]
  BY <1>1
<1>8. \A q \in Requests : \A i \in DOMAIN rest'[q] : stage'[rest'[q][i]] = "linked"
  <2> TAKE q \in Requests
  <2> TAKE i \in DOMAIN rest'[q]
  <2>1. q # r /\ rest'[q] = rest[q] /\ rest[q][i] \in Requests /\ stage[rest[q][i]] = "linked"
    BY <1>7, <1>3
  <2>2. ~InSeq(rest[r], rest[q][i])
    BY <2>1, <1>4 DEF InSeq
  <2> QED BY <2>1, <2>2
<1>9. Queues'
  BY <1>4, <1>6, <1>7, <1>8 DEF Queues
<1>10. QueueTypes'
  BY <1>1 DEF QueueTypes
<1>11. Moved
  BY <1>5 DEF Moved
<1> QED BY <1>9, <1>10, <1>11

LEMMA KernelKeeps ==
  ASSUME SlotInv, QueueTypes, Queues, Fresh, Named, KernelStep
  PROVE  QueueTypes' /\ Queues' /\ Moved
<1>1. ASSUME NEW r \in Requests, NEW res \in {"error", "short"}, stage[r] = "kernel", Break(r, res)
      PROVE  QueueTypes' /\ Queues' /\ Moved
  <2>1. result' \in [Requests -> {"none", "ok", "short", "error", "canceled"}]
    BY <1>1 DEF Break, QueueTypes, InSeq
  <2>2. /\ \A x \in Requests : stage'[x] = IF x \in {r, r} \/ InSeq(rest[r], x) THEN "cq" ELSE stage[x]
        /\ stage' \in [Requests -> {"none", "sq", "linked", "ready", "kernel", "cq", "done"}]
    BY <1>1 DEF Break, QueueTypes, InSeq
  <2> QED BY <1>1, <2>1, <2>2, BreakKeeps DEF Break
<1>2. ASSUME NEW c \in Requests, Cancel(c) PROVE QueueTypes' /\ Queues' /\ Moved
  <2> DEFINE r == Operation(c.flow, c.kind)
  <2>1. r \in Requests
    BY <1>2, RequestFacts DEF Cancel
  <2>2. CASE Break(c, "error")
    BY <1>1, <1>2, <2>2 DEF Cancel
  <2>3. CASE ~Break(c, "error")
    <3>1. /\ stage[c] = "kernel" /\ stage[r] = "kernel"
          /\ result' = [x \in Requests |-> CASE x = c -> "ok"
                                             [] x = r \/ InSeq(rest[r], x) -> "canceled"
                                             [] OTHER -> result[x]]
          /\ stage' = [x \in Requests |-> IF x \in {c, r} \/ InSeq(rest[r], x)
                                          THEN "cq" ELSE stage[x]]
          /\ rest' = [rest EXCEPT ![r] = <<>>]
          /\ UNCHANGED <<sq, table, used>>
      BY <1>2, <2>3 DEF Cancel
    <3> HIDE DEF r
    <3>2. result' \in [Requests -> {"none", "ok", "short", "error", "canceled"}]
      BY <3>1 DEF QueueTypes, InSeq
    <3>3. /\ \A x \in Requests : stage'[x] = IF x \in {c, r} \/ InSeq(rest[r], x) THEN "cq" ELSE stage[x]
          /\ stage' \in [Requests -> {"none", "sq", "linked", "ready", "kernel", "cq", "done"}]
      BY <3>1 DEF QueueTypes, InSeq
    <3> QED BY <2>1, <3>1, <3>2, <3>3, BreakKeeps
  <2> QED BY <2>2, <2>3
<1>3. ASSUME NEW r \in Requests, Fail(r) PROVE QueueTypes' /\ Queues' /\ Moved
  BY <1>1, <1>3 DEF Fail
<1> QED BY <1>2, <1>3, IssueKeeps, SucceedKeeps DEF KernelStep

(***************************************************************************)
(* Steps of the flows.                                                     *)
(***************************************************************************)
LEMMA ConcatDistinct ==
  ASSUME NEW S, NEW s \in Seq(S), NEW t \in Seq(S),
         \A i, j \in DOMAIN s : s[i] = s[j] => i = j,
         \A i, j \in DOMAIN t : t[i] = t[j] => i = j,
         \A x : ~(InSeq(s, x) /\ InSeq(t, x))
  PROVE  /\ s \o t \in Seq(S)
         /\ \A i, j \in DOMAIN (s \o t) : (s \o t)[i] = (s \o t)[j] => i = j
         /\ \A x : InSeq(s \o t, x) => InSeq(s, x) \/ InSeq(t, x)
<1> DEFINE m == Len(s)
           n == Len(t)
           w == s \o t
<1>1. /\ m \in Nat /\ n \in Nat /\ DOMAIN s = 1 .. m /\ DOMAIN t = 1 .. n
      /\ w \in Seq(S) /\ DOMAIN w = 1 .. m + n
      /\ \A i \in 1 .. m + n : w[i] = IF i <= m THEN s[i] ELSE t[i - m]
  BY ConcatProperties
<1>2. \A i \in 1 .. m : InSeq(s, s[i])
  BY <1>1 DEF InSeq
<1>3. \A i \in 1 .. n : InSeq(t, t[i])
  BY <1>1 DEF InSeq
<1> HIDE DEF m, n, w
<1>4. \A i \in 1 .. m + n : \/ i \in 1 .. m /\ w[i] = s[i]
                            \/ i > m /\ i - m \in 1 .. n /\ w[i] = t[i - m]
  BY <1>1
<1>5. \A i, j \in DOMAIN w : w[i] = w[j] => i = j
  <2> SUFFICES ASSUME NEW i \in 1 .. m + n, NEW j \in 1 .. m + n, w[i] = w[j] PROVE i = j
    BY <1>1
  <2>1. CASE i \in 1 .. m /\ w[i] = s[i] /\ j \in 1 .. m /\ w[j] = s[j]
    BY <2>1, <1>1
  <2>2. CASE /\ i > m /\ i - m \in 1 .. n /\ w[i] = t[i - m]
             /\ j > m /\ j - m \in 1 .. n /\ w[j] = t[j - m]
    <3>1. i - m = j - m
      BY <2>2, <1>1
    <3> QED BY <3>1, <1>1
  <2>3. CASE \/ i \in 1 .. m /\ w[i] = s[i] /\ j - m \in 1 .. n /\ w[j] = t[j - m]
             \/ j \in 1 .. m /\ w[j] = s[j] /\ i - m \in 1 .. n /\ w[i] = t[i - m]
    BY <2>3, <1>2, <1>3
  <2> QED BY <2>1, <2>2, <2>3, <1>4
<1>6. \A x : InSeq(w, x) => InSeq(s, x) \/ InSeq(t, x)
  <2> SUFFICES ASSUME NEW x, InSeq(w, x) PROVE InSeq(s, x) \/ InSeq(t, x)
    OBVIOUS
  <2>1. PICK i \in 1 .. m + n : w[i] = x
    BY <1>1 DEF InSeq
  <2> QED BY <2>1, <1>2, <1>3, <1>4
<1> QED BY <1>1, <1>5, <1>6 DEF w

LEMMA CancelOfFacts ==
  ASSUME NEW f \in Flows, NEW k \in Cancellable
  PROVE  /\ CancelOf(f, k) \in Seq(AsyncCancels)
         /\ \A i, j \in DOMAIN CancelOf(f, k) : i = j
         /\ \A x : InSeq(CancelOf(f, k), x) => x = AsyncCancel(f, k)
<1>1. CASE k \in StepsOf(f) /\ stage[Operation(f, k)] # "done"
  <2>1. CancelOf(f, k) = <<AsyncCancel(f, k)>> /\ AsyncCancel(f, k) \in AsyncCancels
    BY <1>1, RequestFacts DEF CancelOf
  <2> QED BY <2>1 DEF InSeq
<1>2. CASE ~(k \in StepsOf(f) /\ stage[Operation(f, k)] # "done")
  <2>1. CancelOf(f, k) = <<>>
    BY <1>2 DEF CancelOf
  <2> QED BY <2>1 DEF InSeq
<1> QED BY <1>1, <1>2

LEMMA UnfinishedFacts ==
  ASSUME NEW f \in Flows
  PROVE  /\ Unfinished(f) \in Seq(AsyncCancels)
         /\ \A i, j \in DOMAIN Unfinished(f) : Unfinished(f)[i] = Unfinished(f)[j] => i = j
         /\ \A x : InSeq(Unfinished(f), x) => x.flow = f
<1> DEFINE a == CancelOf(f, "open")
           b == CancelOf(f, "read")
           c == CancelOf(f, "write")
           d == CancelOf(f, "other")
<1>1. /\ AsyncCancel(f, "open") # AsyncCancel(f, "read")
      /\ AsyncCancel(f, "open") # AsyncCancel(f, "write")
      /\ AsyncCancel(f, "open") # AsyncCancel(f, "other")
      /\ AsyncCancel(f, "read") # AsyncCancel(f, "write")
      /\ AsyncCancel(f, "read") # AsyncCancel(f, "other")
      /\ AsyncCancel(f, "write") # AsyncCancel(f, "other")
      /\ \A k : AsyncCancel(f, k).flow = f
  BY DEF AsyncCancel
<1>2. /\ a \in Seq(AsyncCancels) /\ \A i, j \in DOMAIN a : i = j
      /\ \A x : InSeq(a, x) => x = AsyncCancel(f, "open")
  BY CancelOfFacts DEF Cancellable
<1>3. /\ b \in Seq(AsyncCancels) /\ \A i, j \in DOMAIN b : i = j
      /\ \A x : InSeq(b, x) => x = AsyncCancel(f, "read")
  BY CancelOfFacts DEF Cancellable
<1>4. /\ c \in Seq(AsyncCancels) /\ \A i, j \in DOMAIN c : i = j
      /\ \A x : InSeq(c, x) => x = AsyncCancel(f, "write")
  BY CancelOfFacts DEF Cancellable
<1>5. /\ d \in Seq(AsyncCancels) /\ \A i, j \in DOMAIN d : i = j
      /\ \A x : InSeq(d, x) => x = AsyncCancel(f, "other")
  BY CancelOfFacts DEF Cancellable
<1> HIDE DEF a, b, c, d
<1>6. /\ a \o b \in Seq(AsyncCancels)
      /\ \A i, j \in DOMAIN (a \o b) : (a \o b)[i] = (a \o b)[j] => i = j
      /\ \A x : InSeq(a \o b, x) => x = AsyncCancel(f, "open") \/ x = AsyncCancel(f, "read")
  <2>1. \A x : ~(InSeq(a, x) /\ InSeq(b, x))
    BY <1>1, <1>2, <1>3
  <2>2. /\ a \o b \in Seq(AsyncCancels)
        /\ \A i, j \in DOMAIN (a \o b) : (a \o b)[i] = (a \o b)[j] => i = j
        /\ \A x : InSeq(a \o b, x) => InSeq(a, x) \/ InSeq(b, x)
    BY <2>1, <1>2, <1>3, ConcatDistinct
  <2> QED BY <2>2, <1>2, <1>3
<1> DEFINE e == a \o b
<1>e. /\ e \in Seq(AsyncCancels)
      /\ \A i, j \in DOMAIN e : e[i] = e[j] => i = j
      /\ \A x : InSeq(e, x) => x = AsyncCancel(f, "open") \/ x = AsyncCancel(f, "read")
  BY <1>6
<1> HIDE DEF e
<1>7. /\ e \o c \in Seq(AsyncCancels)
      /\ \A i, j \in DOMAIN (e \o c) : (e \o c)[i] = (e \o c)[j] => i = j
      /\ \A x : InSeq(e \o c, x) =>
           x \in {AsyncCancel(f, "open"), AsyncCancel(f, "read"), AsyncCancel(f, "write")}
  <2>1. \A x : ~(InSeq(e, x) /\ InSeq(c, x))
    BY <1>1, <1>4, <1>e
  <2>2. /\ e \o c \in Seq(AsyncCancels)
        /\ \A i, j \in DOMAIN (e \o c) : (e \o c)[i] = (e \o c)[j] => i = j
        /\ \A x : InSeq(e \o c, x) => InSeq(e, x) \/ InSeq(c, x)
    BY <2>1, <1>4, <1>e, ConcatDistinct
  <2> QED BY <2>2, <1>4, <1>e
<1> DEFINE g == e \o c
<1>f. /\ g \in Seq(AsyncCancels)
      /\ \A i, j \in DOMAIN g : g[i] = g[j] => i = j
      /\ \A x : InSeq(g, x) =>
           x \in {AsyncCancel(f, "open"), AsyncCancel(f, "read"), AsyncCancel(f, "write")}
  BY <1>7
<1> HIDE DEF g
<1>8. /\ g \o d \in Seq(AsyncCancels)
      /\ \A i, j \in DOMAIN (g \o d) : (g \o d)[i] = (g \o d)[j] => i = j
      /\ \A x : InSeq(g \o d, x) => x.flow = f
  <2>1. \A x : ~(InSeq(g, x) /\ InSeq(d, x))
    BY <1>1, <1>5, <1>f
  <2>2. /\ g \o d \in Seq(AsyncCancels)
        /\ \A i, j \in DOMAIN (g \o d) : (g \o d)[i] = (g \o d)[j] => i = j
        /\ \A x : InSeq(g \o d, x) => InSeq(g, x) \/ InSeq(d, x)
    BY <2>1, <1>5, <1>f, ConcatDistinct
  <2>3. \A x : InSeq(g, x) => x.flow = f
    BY <1>1, <1>f
  <2>4. \A x : InSeq(d, x) => x.flow = f
    BY <1>1, <1>5
  <2> QED BY <2>2, <2>3, <2>4
<1>9. Unfinished(f) = g \o d
  BY DEF Unfinished, a, b, c, d, e, g
<1> QED BY <1>8, <1>9

LEMMA DirectInit == Init => DirectInv
<1> SUFFICES ASSUME Init PROVE DirectInv
  OBVIOUS
<1>1. SlotInv
  BY SlotInit
<1>2. /\ sq = <<>> /\ rest = [r \in Requests |-> <<>>]
      /\ stage = [r \in Requests |-> "none"] /\ result = [r \in Requests |-> "none"]
      /\ used = [r \in Requests |-> None]
      /\ table = [s \in Slots |-> IF s \in Streams THEN s ELSE None]
      /\ slot = [f \in Flows |-> IF f \in Streams THEN f ELSE None]
      /\ status = [f \in Flows |-> IF f \in Streams THEN "open" ELSE "new"]
      /\ pc = "user" /\ panic = "none"
  BY DEF Init, InitKernel
<1>3. Streams \subseteq Flows /\ Others \subseteq Flows /\ Manual \subseteq Flows
  BY DEF Flows, Manual
<1>4. QueueTypes
  BY <1>2, <1>3 DEF QueueTypes
<1>5. Queues
  BY <1>2 DEF Queues
<1>6. Fresh
  BY <1>2, RequestFacts DEF Fresh
<1>7. Named
  BY <1>2, <1>3, FlowsAssumption DEF Named, Manual
<1> QED BY <1>1, <1>2, <1>4, <1>5, <1>6, <1>7 DEF DirectInv, LoopTypes

(* A flow goes on: its status changes, and its requests may be pushed. *)
LEMMA FreshFlow ==
  ASSUME Fresh, NEW f \in Flows, NEW t \in {"busy", "open", "done", "dropped"},
         status \in [Flows -> {"new", "busy", "open", "done", "dropped"}],
         status' = [status EXCEPT ![f] = t], status[f] # "dropped",
         f \in Streams => t = "dropped",
         \A x \in Requests : stage'[x] # stage[x] =>
           x.flow = f /\ (x \in AsyncCancels => t = "dropped")
  PROVE  Fresh'
<1>1. \A g \in Flows : status'[g] = IF g = f THEN t ELSE status[g]
  OBVIOUS
<1>2. ASSUME NEW g \in Flows, NEW k \in StepsOf(g), stage'[Operation(g, k)] # "none"
      PROVE  status'[g] # "new" /\ (g \in Streams => status'[g] = "dropped")
  <2>1. CASE g = f
    BY <2>1, <1>1
  <2>2. CASE g # f
    <3>1. Operation(g, k) \in Requests /\ Operation(g, k).flow = g
      BY RequestFacts DEF Operation
    <3>2. stage[Operation(g, k)] # "none"
      BY <3>1, <2>2, <1>2
    <3> QED BY <3>2, <2>2, <1>1 DEF Fresh
  <2> QED BY <2>1, <2>2
<1>3. ASSUME NEW r \in AsyncCancels, stage'[r] # "none" PROVE status'[r.flow] = "dropped"
  <2>1. r.flow \in Flows /\ r \in Requests
    BY RequestFacts
  <2>2. CASE stage'[r] # stage[r]
    BY <2>1, <2>2, <1>1
  <2>3. CASE stage'[r] = stage[r]
    BY <2>1, <2>3, <1>1, <1>3 DEF Fresh
  <2> QED BY <2>2, <2>3
<1> QED BY <1>2, <1>3 DEF Fresh

(* No flow goes on, and nothing new is pushed. *)
LEMMA FreshSame ==
  ASSUME Fresh, UNCHANGED status,
         \A x \in Requests : stage'[x] # "none" => stage[x] # "none"
  PROVE  Fresh'
BY RequestFacts DEF Fresh

LEMMA NamedFlow ==
  ASSUME Named, NEW f \in Flows, NEW t,
         status \in [Flows -> {"new", "busy", "open", "done", "dropped"}],
         UNCHANGED slot, status' = [status EXCEPT ![f] = t],
         f \in Streams => t = "dropped",
         f \in Manual => status[f] # "new"
  PROVE  Named'
<1>1. \A g \in Flows : status'[g] = IF g = f THEN t ELSE status[g]
  OBVIOUS
<1>2. Streams \subseteq Flows /\ Manual \subseteq Flows
  BY DEF Flows, Manual
<1> QED BY <1>1, <1>2 DEF Named

(* A result that a flow has taken stays taken. *)
Settled == \A x \in Requests : stage[x] = "done" => stage'[x] = "done"

KeepsAll == QueueTypes' /\ LoopTypes' /\ Queues' /\ Fresh' /\ Named' /\ Settled

LEMMA StartKeeps ==
  ASSUME DirectInv, SlotInv', NEW f \in Flows, Start(f)
  PROVE  KeepsAll
<1> DEFINE s == OperationsOf(f)
<1>1. /\ f \in Manual /\ f \notin Streams /\ f \notin Others
      /\ status[f] = "new" /\ status' = [status EXCEPT ![f] = "busy"]
      /\ status \in [Flows -> {"new", "busy", "open", "done", "dropped"}]
      /\ slot \in [Flows -> Slots \cup {None}]
      /\ slot' = [slot EXCEPT ![f] = SlotOf(direct)]
      /\ Push(s) /\ UNCHANGED <<pc, panic>>
  BY FlowsAssumption DEF Start, Manual, DirectInv, SlotInv, SlotTypes
<1>2. /\ s \in Seq(Requests)
      /\ \A i, j \in DOMAIN s : s[i] = s[j] => i = j
      /\ \A i \in DOMAIN s : \E k \in StepsOf(f) : s[i] = Operation(f, k)
  BY OperationsOfFacts
<1> HIDE DEF s
<1>3. \A i \in DOMAIN s : stage[s[i]] = "none"
  BY <1>1, <1>2 DEF DirectInv, Fresh
<1>4. /\ QueueTypes' /\ Queues'
      /\ \A x \in Requests : stage'[x] = IF InSeq(s, x) THEN "sq" ELSE stage[x]
  BY <1>1, <1>2, <1>3, PushKeeps DEF DirectInv
<1>5. \A x : InSeq(s, x) => x.flow = f /\ x.cancel = FALSE /\ stage[x] = "none"
  BY <1>2, <1>3 DEF InSeq, Operation
<1>6. \A x \in Requests : stage'[x] # stage[x] => x.flow = f /\ x \notin AsyncCancels
  BY <1>4, <1>5, RequestFacts
<1>7. Fresh'
  BY <1>1, <1>6, FreshFlow DEF DirectInv
<1>8. Named'
  <2>1. slot'[f] \in SlotRange
    <3>1. f \in Holders'
      BY <1>1 DEF Holders
    <3>2. slot'[f] \in 0 .. direct'.len - 1 /\ direct'.len \in 0 .. Size
      BY <3>1 DEF SlotInv, SlotsExclusive, SlotTypes
    <3> QED BY <3>2, FlowsAssumption DEF SlotRange
  <2>2. \A g \in Flows : /\ status'[g] = IF g = f THEN "busy" ELSE status[g]
                         /\ g # f => slot'[g] = slot[g]
    BY <1>1
  <2>3. Streams \subseteq Flows /\ Manual \subseteq Flows /\ Others \subseteq Flows
    BY DEF Flows, Manual
  <2> QED BY <1>1, <2>1, <2>2, <2>3 DEF DirectInv, Named
<1>9. Settled
  BY <1>4, <1>5 DEF Settled
<1> QED BY <1>1, <1>4, <1>7, <1>8, <1>9 DEF KeepsAll, DirectInv, LoopTypes

LEMMA StartOtherKeeps ==
  ASSUME DirectInv, NEW f \in Flows, StartOther(f) \/ DropStream(f)
  PROVE  KeepsAll
<1> DEFINE s == OperationsOf(f)
           t == IF f \in Streams THEN "dropped" ELSE "busy"
<1>1. /\ f \notin Manual /\ status[f] # "dropped" /\ status' = [status EXCEPT ![f] = t]
      /\ (f \in Streams => status[f] = "open") /\ (f \notin Streams => status[f] = "new")
      /\ status \in [Flows -> {"new", "busy", "open", "done", "dropped"}]
      /\ Push(s) /\ UNCHANGED <<slot, pc, panic>>
  BY FlowsAssumption DEF StartOther, DropStream, Manual, DirectInv, SlotInv, SlotTypes
<1>2. /\ s \in Seq(Requests)
      /\ \A i, j \in DOMAIN s : s[i] = s[j] => i = j
      /\ \A i \in DOMAIN s : \E k \in StepsOf(f) : s[i] = Operation(f, k)
  BY OperationsOfFacts
<1>t. t \in {"busy", "open", "done", "dropped"} /\ (f \in Streams => t = "dropped")
  OBVIOUS
<1> HIDE DEF s, t
<1>3. \A i \in DOMAIN s : stage[s[i]] = "none"
  BY <1>1, <1>2 DEF DirectInv, Fresh
<1>4. /\ QueueTypes' /\ Queues'
      /\ \A x \in Requests : stage'[x] = IF InSeq(s, x) THEN "sq" ELSE stage[x]
  BY <1>1, <1>2, <1>3, PushKeeps DEF DirectInv
<1>5. \A x : InSeq(s, x) => x.flow = f /\ x.cancel = FALSE /\ stage[x] = "none"
  BY <1>2, <1>3 DEF InSeq, Operation
<1>6. \A x \in Requests : stage'[x] # stage[x] => x.flow = f /\ x \notin AsyncCancels
  BY <1>4, <1>5, RequestFacts
<1>7. Fresh'
  BY <1>1, <1>t, <1>6, FreshFlow DEF DirectInv
<1>8. Named'
  BY <1>1, <1>t, NamedFlow DEF DirectInv
<1>9. Settled
  BY <1>4, <1>5 DEF Settled
<1> QED BY <1>1, <1>4, <1>7, <1>8, <1>9 DEF KeepsAll, DirectInv, LoopTypes

LEMMA DropFlowKeeps ==
  ASSUME DirectInv, NEW f \in Flows, DropFlow(f)
  PROVE  KeepsAll
<1> DEFINE s == Unfinished(f)
<1>1. /\ status[f] = "busy" /\ status' = [status EXCEPT ![f] = "dropped"]
      /\ status \in [Flows -> {"new", "busy", "open", "done", "dropped"}]
      /\ Push(s) /\ UNCHANGED <<slot, pc, panic>>
  BY DEF DropFlow, DirectInv, SlotInv, SlotTypes
<1>2. /\ s \in Seq(AsyncCancels)
      /\ \A i, j \in DOMAIN s : s[i] = s[j] => i = j
      /\ \A x : InSeq(s, x) => x.flow = f
  BY UnfinishedFacts
<1> HIDE DEF s
<1>3. \A i \in DOMAIN s : s[i] \in AsyncCancels /\ s[i].flow = f /\ stage[s[i]] = "none"
  <2>1. \A i \in DOMAIN s : s[i] \in AsyncCancels /\ s[i].flow = f
    BY <1>2 DEF InSeq
  <2> QED BY <2>1, <1>1 DEF DirectInv, Fresh
<1>4. s \in Seq(Requests)
  BY <1>2, RequestFacts
<1>5. /\ QueueTypes' /\ Queues'
      /\ \A x \in Requests : stage'[x] = IF InSeq(s, x) THEN "sq" ELSE stage[x]
  BY <1>1, <1>2, <1>3, <1>4, PushKeeps DEF DirectInv
<1>6. \A x \in Requests : stage'[x] # stage[x] => x.flow = f
  BY <1>2, <1>5
<1>7. Fresh'
  BY <1>1, <1>6, FreshFlow DEF DirectInv
<1>8. Named'
  BY <1>1, NamedFlow DEF DirectInv
<1>9. Settled
  BY <1>3, <1>5 DEF Settled, InSeq
<1> QED BY <1>1, <1>5, <1>7, <1>8, <1>9 DEF KeepsAll, DirectInv, LoopTypes

(* Steps that leave the queues alone. *)
LEMMA FinishKeeps ==
  ASSUME DirectInv, NEW f \in Flows, Finish(f) \/ DropListener(f)
  PROVE  KeepsAll
<1>1. PICK t \in {"open", "done", "dropped"} : status' = [status EXCEPT ![f] = t]
  BY DEF Finish, DropListener
<1>2. /\ status[f] \in {"busy", "open"}
      /\ status[f] = "busy" \/ f \in Binds
      /\ status \in [Flows -> {"new", "busy", "open", "done", "dropped"}]
      /\ UNCHANGED <<kernelVars, slot, pc>> /\ LoopTypes'
  BY DEF Finish, DropListener, Returned, DirectInv, SlotInv, SlotTypes, LoopTypes
<1>3. f \notin Streams
  BY <1>2, FlowsAssumption DEF DirectInv, Named
<1>4. QueueTypes' /\ Queues' /\ Settled /\ \A x \in Requests : stage'[x] = stage[x]
  BY <1>2 DEF DirectInv, QueueTypes, Queues, kernelVars, Settled
<1>5. Fresh'
  BY <1>1, <1>2, <1>3, <1>4, FreshFlow DEF DirectInv
<1>6. Named'
  BY <1>1, <1>2, <1>3, NamedFlow DEF DirectInv
<1> QED BY <1>2, <1>4, <1>5, <1>6 DEF KeepsAll

LEMMA ReapKeeps ==
  ASSUME DirectInv, Reap
  PROVE  KeepsAll
<1>1. /\ \A x \in Requests : stage'[x] = IF stage[x] = "cq" THEN "done" ELSE stage[x]
      /\ stage' \in [Requests -> {"none", "sq", "linked", "ready", "kernel", "cq", "done"}]
      /\ UNCHANGED <<sq, result, rest, table, used, slot, status, panic>> /\ pc' = "user"
  BY DEF Reap, DirectInv, QueueTypes
<1>2. \A i \in DOMAIN sq : sq[i] \in Requests /\ stage[sq[i]] = "sq"
  BY DEF DirectInv, QueueTypes, Queues
<1>3. \A q \in Requests : \A i \in DOMAIN rest[q] :
        rest[q][i] \in Requests /\ stage[rest[q][i]] = "linked"
  BY DEF DirectInv, QueueTypes, Queues
<1>4. \A i \in DOMAIN sq : stage'[sq[i]] = "sq"
  BY <1>1, <1>2
<1>5. \A q \in Requests : \A i \in DOMAIN rest[q] : stage'[rest[q][i]] = "linked"
  BY <1>1, <1>3
<1>6. Queues'
  BY <1>1, <1>4, <1>5 DEF DirectInv, Queues
<1>7. QueueTypes'
  BY <1>1 DEF DirectInv, QueueTypes
<1>8. Fresh'
  BY <1>1, FreshSame DEF DirectInv
<1> QED BY <1>1, <1>6, <1>7, <1>8 DEF KeepsAll, DirectInv, LoopTypes, Named, Settled

LEMMA LoopKeeps ==
  ASSUME DirectInv, Enter \/ EnterEmpty \/ Kernel \/ UNCHANGED vars \/ \E f \in Flows : StartWithoutSlot(f)
  PROVE  KeepsAll
<1>1. CASE Enter \/ Kernel
  <2>1. QueueTypes' /\ Queues' /\ Moved /\ UNCHANGED <<slot, status>> /\ LoopTypes'
    <3>1. CASE Enter
      BY <3>1, SubmitKeeps DEF Enter, DirectInv, LoopTypes
    <3>2. CASE Kernel
      BY <3>2, KernelKeeps DEF Kernel, KernelStep, DirectInv, LoopTypes
    <3> QED BY <1>1, <3>1, <3>2
  <2>2. \A x \in Requests : stage'[x] # "none" => stage[x] # "none"
    BY <2>1 DEF Moved
  <2>3. Fresh'
    BY <2>1, <2>2, FreshSame DEF DirectInv
  <2>4. Settled
    BY <2>1 DEF Moved, Settled
  <2> QED BY <2>1, <2>3, <2>4 DEF KeepsAll, DirectInv, Named
<1>2. CASE UNCHANGED <<kernelVars, slot, status>> /\ LoopTypes'
  BY <1>2 DEF KeepsAll, DirectInv, QueueTypes, Queues, Fresh, Named, Settled, kernelVars
<1>3. CASE EnterEmpty \/ UNCHANGED vars \/ \E f \in Flows : StartWithoutSlot(f)
  BY <1>2, <1>3 DEF EnterEmpty, StartWithoutSlot, vars, DirectInv, LoopTypes
<1> QED BY <1>1, <1>3

LEMMA DirectStep == DirectInv /\ [Next]_vars => DirectInv' /\ Settled
<1> SUFFICES ASSUME DirectInv, [Next]_vars PROVE DirectInv' /\ Settled
  OBVIOUS
<1>1. SlotInv'
  BY SlotStep DEF DirectInv
<1>2. KeepsAll
  BY <1>1, StartKeeps, StartOtherKeeps, DropFlowKeeps, FinishKeeps, ReapKeeps, LoopKeeps
  DEF Next, Client
<1> QED BY <1>1, <1>2 DEF KeepsAll, DirectInv

(* Requests, files and slots keep their types, for any number of flows and *)
(* slots: an entry is in the submission queue or in one chain, once.       *)
THEOREM DirectTypes == Spec => []TypeOK
<1>1. DirectInv => TypeOK
  BY DEF DirectInv, SlotInv, SlotTypes, QueueTypes, LoopTypes, TypeOK
<1> QED BY <1>1, DirectInit, DirectStep, PTL DEF Spec

(***************************************************************************)
(* Slots, when no flow is dropped before it returns.                       *)
(***************************************************************************)
(* The operations of a flow that has returned have all been answered. *)
Answered ==
  \A f \in Manual : status[f] \notin {"new", "busy"} =>
    \A k \in StepsOf(f) : stage[Operation(f, k)] = "done"

LEMMA AnsweredStep ==
  ASSUME Droppable \cap Manual = {}, DirectInv, Answered, [Next]_vars
  PROVE  Answered'
<1>1. Settled /\ status \in [Flows -> {"new", "busy", "open", "done", "dropped"}]
  BY DirectStep DEF DirectInv, SlotInv, SlotTypes
<1> SUFFICES ASSUME NEW g \in Manual, status'[g] \notin {"new", "busy"}, NEW k \in StepsOf(g)
             PROVE  stage'[Operation(g, k)] = "done"
  BY DEF Answered
<1>2. g \in Flows /\ g \notin Streams /\ g \notin Others
  BY FlowsAssumption DEF Manual, Flows
<1>3. Operation(g, k) \in Requests
  BY <1>2, RequestFacts
<1>4. CASE status[g] \notin {"new", "busy"}
  BY <1>1, <1>3, <1>4 DEF Answered, Settled
<1>5. CASE status[g] \in {"new", "busy"}
  <2>1. PICK f \in Flows : Client(f) /\ status' # status
    BY <1>5 DEF Next, Enter, EnterEmpty, Reap, Kernel, vars
  <2>2. f = g
    BY <1>1, <1>2, <1>5, <2>1 DEF Client, Start, StartWithoutSlot, StartOther, Finish, DropFlow,
         DropListener, DropStream
  <2>3. Finish(g)
    <3>1. ~Start(g)
      BY <1>1, <1>2 DEF Start
    <3>2. ~StartWithoutSlot(g) /\ ~StartOther(g) /\ ~DropStream(g)
      BY <1>2, <2>1 DEF StartWithoutSlot, StartOther, DropStream
    <3>3. ~DropFlow(g)
      BY DEF DropFlow
    <3>4. ~DropListener(g)
      BY <1>5 DEF DropListener
    <3> QED BY <2>1, <2>2, <3>1, <3>2, <3>3, <3>4 DEF Client
  <2> QED BY <1>1, <1>3, <2>3 DEF Finish, Returned, Settled
<1> QED BY <1>4, <1>5

(* Nothing is submitted yet. *)
LEMMA AnsweredInit == Init => Answered
BY FlowsAssumption DEF Init, Answered, Manual, Flows

(* A flow that holds a slot has the only unfinished operations that name it. *)
LEMMA UnusedSlots == DirectInv /\ Answered => SlotsUnused
<1> SUFFICES ASSUME DirectInv, Answered, NEW f \in Holders, NEW r \in Operations, r.flow # f,
                    stage[r] \in {"sq", "linked", "ready", "kernel"}
             PROVE  slot[r.flow] # slot[f]
  BY DEF SlotsUnused
<1>1. f \in Manual /\ slot[f] \in SlotRange /\ slot[f] \in Nat
  BY FlowsAssumption DEF Holders, DirectInv, Named, SlotRange
<1>2. r.flow \in Flows /\ r.kind \in StepsOf(r.flow) /\ r = Operation(r.flow, r.kind)
  BY RequestFacts
<1>3. CASE r.flow \in Streams
  BY <1>1, <1>3, FlowsAssumption DEF DirectInv, Named
<1>4. CASE r.flow \in Others
  BY <1>1, <1>4, FlowsAssumption DEF DirectInv, Named
<1>5. CASE r.flow \in Manual
  <2>1. status[r.flow] # "new"
    BY <1>2 DEF DirectInv, Fresh
  <2>2. stage[r] # "done"
    OBVIOUS
  <2>3. status[r.flow] = "busy"
    BY <1>2, <1>5, <2>1, <2>2 DEF Answered
  <2>4. r.flow \in Holders
    BY <1>5, <2>3 DEF Holders
  <2> QED BY <2>4 DEF DirectInv, SlotInv, SlotsExclusive
<1> QED BY <1>2, <1>3, <1>4, <1>5 DEF Flows, Manual

(* A slot that was handed out is named by no earlier owner's operation, if *)
(* every flow that holds a slot is polled until it returns (get_direct_slot *)
(* in mod.rs; OwnedDirect::drop in inel's source.rs does not check it).    *)
THEOREM SlotsNeverReused ==
  ASSUME Droppable \cap Manual = {}
  PROVE  Spec => []SlotsUnused
<1>1. Init => DirectInv /\ Answered
  BY DirectInit, AnsweredInit
<1>2. DirectInv /\ Answered /\ [Next]_vars => DirectInv' /\ Answered'
  BY DirectStep, AnsweredStep
<1> QED BY <1>1, <1>2, UnusedSlots, PTL DEF Spec

-------------------------------------------------------------------------------
(***************************************************************************)
(* Chains: which file an operation finds, and who cancels whom.            *)
(***************************************************************************)
(* The entries p and r are a link and what is behind it in its own flow. *)
Follows(p, r) ==
  /\ p.flow = r.flow /\ ~p.cancel /\ ~r.cancel
  /\ <<p.kind, r.kind>> \in {<<"open", "read">>, <<"open", "write">>,
                             <<"bind", "listen">>, <<"shutdown", "close">>}

(* r is submitted behind a link of its own flow. *)
IsBehind(r) == ~r.cancel /\ r.kind \in {"read", "write", "listen", "close"}

Over == {"cq", "done"}

(* Which flows have an operation of which kind. *)
LEMMA FlowKinds ==
  ASSUME NEW r \in Requests, ~r.cancel
  PROVE  /\ r \in Operations /\ r.flow \in Flows /\ r = Operation(r.flow, r.kind)
         /\ r.kind \in Kinds
         /\ r.kind = "open" => r.flow \in Exists \cup Readers \cup Writers
         /\ r.kind = "read" => r.flow \in Readers
         /\ r.kind = "write" => r.flow \in Writers
         /\ r.kind \in {"socket", "bind", "listen"} => r.flow \in Binds
         /\ r.kind \in {"shutdown", "close"} => r.flow \in Streams
         /\ r.kind = "other" => r.flow \in Others
<1>1. r \in Operations /\ r.flow \in Flows /\ r.kind \in StepsOf(r.flow)
      /\ r = Operation(r.flow, r.kind)
  BY RequestFacts
<1> DEFINE f == r.flow
<1>2. CASE f \in Exists
  <2>1. Steps(f) = <<"open">>
    BY <1>2, FlowsAssumption DEF Steps
  <2>2. StepsOf(f) = {"open"}
    BY <2>1 DEF StepsOf
  <2> QED BY <1>1, <1>2, <2>2 DEF Kinds
<1>3. CASE f \in Readers
  <2>1. Steps(f) = <<"open", "read">>
    BY <1>3, FlowsAssumption DEF Steps
  <2>2. StepsOf(f) = {"open", "read"}
    BY <2>1 DEF StepsOf
  <2> QED BY <1>1, <1>3, <2>2 DEF Kinds
<1>4. CASE f \in Writers
  <2>1. Steps(f) = <<"open", "write">>
    BY <1>4, FlowsAssumption DEF Steps
  <2>2. StepsOf(f) = {"open", "write"}
    BY <2>1 DEF StepsOf
  <2> QED BY <1>1, <1>4, <2>2 DEF Kinds
<1>5. CASE f \in Binds
  <2>1. Steps(f) = <<"socket", "bind", "listen">>
    BY <1>5, FlowsAssumption DEF Steps
  <2>2. StepsOf(f) = {"socket", "bind", "listen"}
    BY <2>1 DEF StepsOf
  <2> QED BY <1>1, <1>5, <2>2 DEF Kinds
<1>6. CASE f \in Streams
  <2>1. Steps(f) = <<"shutdown", "close">>
    BY <1>6, FlowsAssumption DEF Steps
  <2>2. StepsOf(f) = {"shutdown", "close"}
    BY <2>1 DEF StepsOf
  <2> QED BY <1>1, <1>6, <2>2 DEF Kinds
<1>7. CASE f \in Others
  <2>1. Steps(f) = <<"other">>
    BY <1>7, FlowsAssumption DEF Steps
  <2>2. StepsOf(f) = {"other"}
    BY <2>1 DEF StepsOf
  <2> QED BY <1>1, <1>7, <2>2 DEF Kinds
<1> QED BY <1>1, <1>2, <1>3, <1>4, <1>5, <1>6, <1>7 DEF Flows

(* What a flow submits is linked as chain says, and bind is behind socket. *)
LEMMA StepsLinked ==
  ASSUME NEW f \in Flows
  PROVE  /\ \A i \in DOMAIN OperationsOf(f) :
              /\ IsBehind(OperationsOf(f)[i]) =>
                   i > 1 /\ Follows(OperationsOf(f)[i - 1], OperationsOf(f)[i])
              /\ OperationsOf(f)[i].kind = "bind" =>
                   i > 1 /\ OperationsOf(f)[i - 1] = Operation(f, "socket")
              /\ Linked(OperationsOf(f)[i]) /\ f \notin Readers \cup Writers =>
                   i < Len(OperationsOf(f)) /\ Follows(OperationsOf(f)[i], OperationsOf(f)[i + 1])
         /\ DOMAIN OperationsOf(f) = 1 .. Len(OperationsOf(f)) /\ Len(OperationsOf(f)) \in Nat
<1>0. /\ DOMAIN Steps(f) = 1 .. Len(Steps(f)) /\ Len(Steps(f)) \in Nat
      /\ OperationsOf(f) = [i \in DOMAIN Steps(f) |-> Operation(f, Steps(f)[i])]
  BY StepsFacts DEF OperationsOf
<1>1. CASE f \in Exists \cup Others
  <2>1. /\ f \in Exists => Steps(f) = <<"open">>
        /\ f \in Others => Steps(f) = <<"other">>
    BY <1>1, FlowsAssumption DEF Steps
  <2>2. /\ DOMAIN OperationsOf(f) = 1 .. 1 /\ Len(OperationsOf(f)) = 1
        /\ f \in Exists => OperationsOf(f)[1] = Operation(f, "open")
        /\ f \in Others => OperationsOf(f)[1] = Operation(f, "other")
    BY <1>0, <1>1, <2>1
  <2> QED BY <1>1, <2>2, FlowsAssumption DEF IsBehind, Linked, Operation
<1>2. CASE f \in Readers \cup Writers \cup Streams
  <2>1. /\ f \in Readers => Steps(f) = <<"open", "read">>
        /\ f \in Writers => Steps(f) = <<"open", "write">>
        /\ f \in Streams => Steps(f) = <<"shutdown", "close">>
    BY <1>2, FlowsAssumption DEF Steps
  <2>2. /\ DOMAIN OperationsOf(f) = 1 .. 2 /\ Len(OperationsOf(f)) = 2
        /\ f \in Readers => OperationsOf(f)[1] = Operation(f, "open")
                         /\ OperationsOf(f)[2] = Operation(f, "read")
        /\ f \in Writers => OperationsOf(f)[1] = Operation(f, "open")
                         /\ OperationsOf(f)[2] = Operation(f, "write")
        /\ f \in Streams => OperationsOf(f)[1] = Operation(f, "shutdown")
                         /\ OperationsOf(f)[2] = Operation(f, "close")
    BY <1>0, <1>2, <2>1
  <2>3. \A i \in 1 .. 2 : i = 1 \/ i = 2
    OBVIOUS
  <2>4. /\ \A k : ~Operation(f, k).cancel /\ Operation(f, k).kind = k /\ Operation(f, k).flow = f
    BY DEF Operation
  <2>5. /\ ~IsBehind(OperationsOf(f)[1]) /\ OperationsOf(f)[1].kind # "bind"
        /\ OperationsOf(f)[2].kind # "bind" /\ Follows(OperationsOf(f)[1], OperationsOf(f)[2])
        /\ f \in Streams => ~Linked(OperationsOf(f)[2])
    BY <1>2, <2>2, <2>4 DEF IsBehind, Linked, Follows
  <2> QED BY <1>2, <2>2, <2>3, <2>5
<1>3. CASE f \in Binds
  <2>1. Steps(f) = <<"socket", "bind", "listen">>
    BY <1>3, FlowsAssumption DEF Steps
  <2>2. /\ DOMAIN OperationsOf(f) = 1 .. 3 /\ Len(OperationsOf(f)) = 3
        /\ OperationsOf(f)[1] = Operation(f, "socket")
        /\ OperationsOf(f)[2] = Operation(f, "bind")
        /\ OperationsOf(f)[3] = Operation(f, "listen")
    BY <1>0, <1>3, <2>1
  <2>3. \A i \in 1 .. 3 : i = 1 \/ i = 2 \/ i = 3
    OBVIOUS
  <2>4. /\ \A k : ~Operation(f, k).cancel /\ Operation(f, k).kind = k /\ Operation(f, k).flow = f
    BY DEF Operation
  <2>5. /\ ~IsBehind(OperationsOf(f)[1]) /\ ~IsBehind(OperationsOf(f)[2])
        /\ OperationsOf(f)[1].kind # "bind" /\ OperationsOf(f)[3].kind # "bind"
        /\ Follows(OperationsOf(f)[2], OperationsOf(f)[3])
        /\ ~Linked(OperationsOf(f)[1]) /\ ~Linked(OperationsOf(f)[3])
    BY <2>2, <2>4 DEF IsBehind, Linked, Follows
  <2> QED BY <1>3, <2>2, <2>3, <2>5
<1> QED BY <1>1, <1>2, <1>3 DEF Flows

(* What is behind a link has one link in front of it. *)
LEMMA FollowsFacts ==
  ASSUME NEW p \in Requests, NEW r \in Requests, Follows(p, r)
  PROVE  /\ Linked(p) /\ IsBehind(r) /\ ~IsBehind(p) /\ p # r /\ p.kind # "socket"
         /\ ~p.cancel /\ ~r.cancel /\ p.flow = r.flow
         /\ \A q \in Requests : Follows(q, r) => q = p
<1>1. /\ p = Operation(p.flow, p.kind) /\ p.flow \in Flows /\ ~p.cancel /\ ~r.cancel
      /\ r.kind = "read" => r.flow \in Readers
      /\ r.kind = "write" => r.flow \in Writers
  BY FlowKinds DEF Follows
<1>2. Linked(p)
  BY <1>1, FlowsAssumption DEF Follows, Linked
<1>3. ASSUME NEW q \in Requests, Follows(q, r)
      PROVE  q = p
  <2>1. q = Operation(q.flow, q.kind)
    BY <1>3, FlowKinds DEF Follows
  <2> QED BY <1>1, <1>3, <2>1 DEF Follows
<1> QED BY <1>1, <1>2, <1>3 DEF Follows, IsBehind

(* A client pushes the operations of a flow, or some AsyncCancels.         *)
Pushes(s) ==
  /\ s \in Seq(Requests) /\ Len(s) \in Nat
  /\ \/ s \in Seq(AsyncCancels)
     \/ \E f \in Flows : s = OperationsOf(f)
  /\ DOMAIN sq' = 1 .. Len(sq) + Len(s)
  /\ \A i \in DOMAIN sq' : sq'[i] = IF i <= Len(sq) THEN sq[i] ELSE s[i - Len(sq)]
  /\ \A i \in 1 .. Len(s) : stage[s[i]] = "none"
  /\ \A x \in Requests : stage'[x] = IF InSeq(s, x) THEN "sq" ELSE stage[x]
  /\ UNCHANGED <<result, rest, table, used>>

(* The kernel consumes the first n entries, a chain: a socket is created,  *)
(* or the first entry is issued and the others linked to it.               *)
Consumes(n) ==
  LET h == sq[1]
  IN  /\ h \in Requests /\ stage[h] = "sq"
      /\ \A i \in 1 .. n - 1 : Linked(sq[i])
      /\ ~Linked(sq[n]) \/ n = Len(sq)
      /\ DOMAIN sq' = 1 .. Len(sq) - n
      /\ \A i \in DOMAIN sq' : sq'[i] = sq[n + i]
      /\ \/ /\ h.kind = "socket" /\ ~h.cancel
            /\ \A x \in Requests : stage'[x] = IF x = h THEN "cq" ELSE stage[x]
            /\ \A x \in Requests : x # h => result'[x] = result[x]
            /\ \/ result'[h] = "ok" /\ table' = TableAfter(h)
               \/ result'[h] = "error" /\ UNCHANGED table
            /\ UNCHANGED <<rest, used>>
         \/ /\ h.kind # "socket"
            /\ stage'[h] = "kernel"
            /\ \A i \in 2 .. n : stage'[sq[i]] = "linked"
            /\ \A x \in Requests : x # h =>
                 \/ stage'[x] = stage[x]
                 \/ stage'[x] = "linked" /\ stage[x] = "sq" /\ \E i \in 2 .. n : x = sq[i]
            /\ DOMAIN rest'[h] = 1 .. n - 1
            /\ \A i \in 1 .. n - 1 : rest'[h][i] = sq[i + 1]
            /\ \A x \in Requests : x # h => rest'[x] = rest[x]
            /\ \A x \in Requests : used'[x] = IF x = h THEN FileOf(h) ELSE used[x]
            /\ UNCHANGED <<result, table>>

(* The kernel issues r, which was behind a link. *)
Issues(r) ==
  /\ stage[r] = "ready"
  /\ \A x \in Requests : stage'[x] = IF x = r THEN "kernel" ELSE stage[x]
  /\ \A x \in Requests : used'[x] = IF x = r THEN FileOf(r) ELSE used[x]
  /\ UNCHANGED <<sq, result, rest, table>>

(* The operation r succeeds, and what is behind it is ready. *)
Succeeds(r) ==
  /\ stage[r] = "kernel" /\ ~r.cancel
  /\ stage'[r] = "cq" /\ rest'[r] = <<>>
  /\ \A x \in Requests : result'[x] = IF x = r THEN "ok" ELSE result[x]
  /\ table' = TableAfter(r)
  /\ UNCHANGED <<sq, used>>
  /\ \/ /\ rest[r] = <<>>
        /\ \A x \in Requests : x # r => stage'[x] = stage[x] /\ rest'[x] = rest[x]
     \/ \E n \in Requests :
          /\ n # r /\ n = rest[r][1] /\ 1 \in DOMAIN rest[r] /\ stage[n] = "linked"
          /\ stage'[n] = "ready"
          /\ DOMAIN rest'[n] = 1 .. Len(rest[r]) - 1
          /\ \A i \in DOMAIN rest'[n] : rest'[n][i] = rest[r][i + 1]
          /\ \A x \in Requests : x # r /\ x # n => stage'[x] = stage[x] /\ rest'[x] = rest[x]

(* The request r ends without success, its chain with it, and c as well if *)
(* it is the AsyncCancel of r.                                             *)
Ends(r, c) ==
  /\ stage[r] = "kernel" /\ stage[c] = "kernel"
  /\ rest'[r] = <<>>
  /\ \A x \in Requests : x # r => rest'[x] = rest[x]
  /\ \A x \in Requests :
       IF x \in {r, c} \/ InSeq(rest[r], x) THEN stage'[x] = "cq"
                                            ELSE stage'[x] = stage[x] /\ result'[x] = result[x]
  /\ \A x \in Requests : InSeq(rest[r], x) => result'[x] = "canceled" /\ stage[x] = "linked"
  /\ \/ c = r /\ result'[r] \in {"error", "short"}
     \/ c = AsyncCancel(r.flow, r.kind) /\ c.cancel /\ result'[r] = "canceled"
  /\ UNCHANGED <<sq, table, used>>

Reaps ==
  /\ \A x \in Requests : stage'[x] = IF stage[x] = "cq" THEN "done" ELSE stage[x]
  /\ UNCHANGED <<sq, result, rest, table, used>>

(***************************************************************************)
(* Every step has one of these effects on the queue and the kernel.        *)
(***************************************************************************)
LEMMA PushEffects ==
  ASSUME QueueTypes, NEW s \in Seq(Requests), Push(s),
         (\E f \in Flows : s = OperationsOf(f)) \/ s \in Seq(AsyncCancels),
         \A i \in DOMAIN s : stage[s[i]] = "none"
  PROVE  Pushes(s)
<1>1. /\ Len(sq) \in Nat /\ Len(s) \in Nat /\ DOMAIN s = 1 .. Len(s)
      /\ DOMAIN (sq \o s) = 1 .. Len(sq) + Len(s)
      /\ \A i \in 1 .. Len(sq) + Len(s) : (sq \o s)[i] = IF i <= Len(sq) THEN sq[i] ELSE s[i - Len(sq)]
  BY ConcatProperties DEF QueueTypes
<1> QED BY <1>1 DEF Pushes, Push

(* A chain is consumed. *)
LEMMA SubmitEffects ==
  ASSUME QueueTypes, Queues, SubmitChain
  PROVE  \E n \in 1 .. Len(sq) : Consumes(n)
<1> DEFINE m == Len(sq)
           h == sq[1]
<1>1. /\ m \in Nat /\ DOMAIN sq = 1 .. m /\ m >= 1 /\ h \in Requests /\ stage[h] = "sq"
      /\ \A i \in 1 .. m : sq[i] \in Requests /\ stage[sq[i]] = "sq"
      /\ \A i, j \in 1 .. m : sq[i] = sq[j] => i = j
  BY EmptySeq DEF SubmitChain, QueueTypes, Queues
<1>2. ASSUME CreateSocket(h)
      PROVE  Consumes(1)
  <2>1. /\ DOMAIN sq' = 1 .. m - 1
        /\ \A i \in 1 .. m - 1 : sq'[i] = sq[1 + i]
    BY <1>1, <1>2, HeadTailProperties DEF CreateSocket, QueueTypes
  <2>2. h.kind = "socket" /\ ~h.cancel
    BY <1>1, <1>2, RequestFacts DEF CreateSocket, Cancellable
  <2>3. ~Linked(sq[1])
    BY <2>2 DEF Linked
  <2>4. \A x \in Requests : stage'[x] = IF x = h THEN "cq" ELSE stage[x]
    BY <1>1, <1>2 DEF CreateSocket, QueueTypes
  <2>5. /\ \A x \in Requests : x # h => result'[x] = result[x]
        /\ \/ result'[h] = "ok" /\ table' = TableAfter(h)
           \/ result'[h] = "error" /\ UNCHANGED table
    <3>1. PICK res \in {"ok", "error"} :
            /\ result' = [result EXCEPT ![h] = res]
            /\ res = "ok" => table' = TableAfter(h)
            /\ res = "error" => UNCHANGED table
      BY <1>2 DEF CreateSocket
    <3>2. /\ \A x \in Requests : x # h => result'[x] = result[x]
          /\ result'[h] = res
      BY <1>1, <3>1 DEF QueueTypes
    <3> QED BY <3>1, <3>2
  <2>7. UNCHANGED <<rest, used>>
    BY <1>2 DEF CreateSocket
  <2>6. \A i \in 1 .. 1 - 1 : Linked(sq[i])
    OBVIOUS
  <2> QED BY <1>1, <2>1, <2>2, <2>3, <2>4, <2>5, <2>6, <2>7 DEF Consumes
<1>3. ASSUME NEW n \in 1 .. m, IssueChain(h, n)
      PROVE  Consumes(n)
  <2> DEFINE w == SubSeq(sq, 2, n)
  <2>1. /\ DOMAIN w = 1 .. n - 1
        /\ \A i \in 1 .. n - 1 : w[i] = sq[i + 1]
    <3>1. n \in Int /\ 2 \in Int /\ \A i \in 2 .. n : sq[i] \in Requests
      BY <1>1
    <3>2. /\ w \in Seq(Requests)
          /\ Len(w) = IF 2 <= n THEN n - 2 + 1 ELSE 0
          /\ \A i \in 1 .. n - 2 + 1 : w[i] = sq[2 + i - 1]
      BY <3>1, SubSeqProperties
    <3> QED BY <3>2, <1>1
  <2>2. /\ DOMAIN sq' = 1 .. m - n
        /\ \A i \in 1 .. m - n : sq'[i] = sq[n + i]
    <3>1. n + 1 \in Int /\ m \in Int /\ \A i \in n + 1 .. m : sq[i] \in Requests
      BY <1>1
    <3>2. /\ sq' \in Seq(Requests)
          /\ Len(sq') = IF n + 1 <= m THEN m - (n + 1) + 1 ELSE 0
          /\ \A i \in 1 .. m - (n + 1) + 1 : sq'[i] = sq[(n + 1) + i - 1]
      <4>1. sq' = SubSeq(sq, n + 1, m)
        BY <1>1, <1>3 DEF IssueChain
      <4> QED BY <3>1, <4>1, SubSeqProperties
    <3>8. n \in Nat /\ m \in Nat /\ n <= m
      BY <1>1
    <3> DEFINE l == Len(sq')
    <3>6. l = IF n + 1 <= m THEN m - (n + 1) + 1 ELSE 0
      BY <3>2
    <3> HIDE DEF m, l
    <3>7. l = m - n /\ m - (n + 1) + 1 = m - n /\ n \in Nat
      BY <3>8, <3>6
    <3>3. Len(sq') = m - n /\ m - (n + 1) + 1 = m - n /\ n \in Nat
      BY <3>7 DEF l
    <3>4. DOMAIN sq' = 1 .. m - n
      BY <3>2, <3>3
    <3>5. \A i \in 1 .. m - n : sq'[i] = sq[n + i]
      <4> TAKE i \in 1 .. m - n
      <4>1. sq'[i] = sq[(n + 1) + i - 1]
        BY <3>2, <3>3
      <4>2. (n + 1) + i - 1 = n + i
        BY <3>3, <1>1
      <4> QED BY <4>1, <4>2
    <3> QED BY <3>4, <3>5
  <2>3. /\ stage' = [x \in Requests |-> CASE x = h -> "kernel"
                                          [] InSeq(w, x) -> "linked"
                                          [] OTHER -> stage[x]]
        /\ rest' = [rest EXCEPT ![h] = w]
        /\ used' = [used EXCEPT ![h] = FileOf(h)]
        /\ h.kind # "socket" /\ IsChain(n) /\ UNCHANGED <<result, table>>
    BY <1>3 DEF IssueChain
  <2>4. \A x \in Requests : InSeq(w, x) => stage[x] = "sq" /\ x # h
    <3> SUFFICES ASSUME NEW i \in 1 .. n - 1 PROVE stage[w[i]] = "sq" /\ w[i] # h
      BY <2>1 DEF InSeq
    <3>1. i + 1 \in 1 .. m /\ i + 1 # 1 /\ 1 \in 1 .. m
      BY <1>1
    <3> QED BY <3>1, <1>1, <2>1
  <2>5. \A i \in 2 .. n : sq[i] \in Requests /\ InSeq(w, sq[i])
    <3> TAKE i \in 2 .. n
    <3>1. i - 1 \in 1 .. n - 1 /\ i \in 1 .. m /\ (i - 1) + 1 = i
      BY <1>1
    <3> QED BY <3>1, <1>1, <2>1 DEF InSeq
  <2>6. /\ DOMAIN rest'[h] = 1 .. n - 1
        /\ \A i \in 1 .. n - 1 : rest'[h][i] = sq[i + 1]
        /\ \A x \in Requests : x # h => rest'[x] = rest[x]
    BY <1>1, <2>1, <2>3 DEF QueueTypes
  <2> HIDE DEF w
  <2>7. /\ stage'[h] = "kernel"
        /\ \A i \in 2 .. n : stage'[sq[i]] = "linked"
        /\ \A x \in Requests : x # h =>
             \/ stage'[x] = stage[x]
             \/ stage'[x] = "linked" /\ stage[x] = "sq" /\ \E i \in 2 .. n : x = sq[i]
    <3>1. \A x \in Requests : /\ x = h => stage'[x] = "kernel"
                              /\ x # h /\ InSeq(w, x) => stage'[x] = "linked"
                              /\ x # h /\ ~InSeq(w, x) => stage'[x] = stage[x]
      <4> TAKE x \in Requests
      <4>1. stage'[x] = CASE x = h -> "kernel" [] InSeq(w, x) -> "linked" [] OTHER -> stage[x]
        BY <2>3
      <4>2. CASE x = h
        BY <4>1, <4>2, <1>1, <2>4 DEF InSeq
      <4>3. CASE x # h /\ InSeq(w, x)
        BY <4>1, <4>3 DEF InSeq
      <4>4. CASE x # h /\ ~InSeq(w, x)
        BY <4>1, <4>4 DEF InSeq
      <4> QED BY <4>2, <4>3, <4>4
    <3>2. \A x \in Requests : InSeq(w, x) => \E i \in 2 .. n : x = sq[i]
      <4> SUFFICES ASSUME NEW i \in 1 .. n - 1 PROVE \E j \in 2 .. n : w[i] = sq[j]
        BY <2>1 DEF InSeq
      <4>1. i + 1 \in 2 .. n
        BY <1>1
      <4> QED BY <4>1, <2>1
    <3> QED BY <3>1, <3>2, <1>1, <2>4, <2>5
  <2>8. \A x \in Requests : used'[x] = IF x = h THEN FileOf(h) ELSE used[x]
    BY <1>1, <2>3 DEF QueueTypes
  <2> QED BY <1>1, <2>2, <2>3, <2>6, <2>7, <2>8 DEF Consumes, IsChain
<1> QED BY <1>1, <1>2, <1>3 DEF SubmitChain

(* An operation succeeds. *)
LEMMA SucceedEffects ==
  ASSUME QueueTypes, Queues, NEW r \in Requests, Succeed(r)
  PROVE  Succeeds(r)
<1>1. /\ stage[r] = "kernel" /\ ~r.cancel /\ table' = TableAfter(r) /\ UNCHANGED <<sq, used>>
      /\ \A x \in Requests : result'[x] = IF x = r THEN "ok" ELSE result[x]
  BY DEF Succeed, QueueTypes
<1>2. rest[r] \in Seq(Requests) /\ \A i \in DOMAIN rest[r] : stage[rest[r][i]] = "linked"
  BY DEF QueueTypes, Queues
<1>3. CASE rest[r] = <<>>
  <2>1. /\ stage' = [stage EXCEPT ![r] = "cq"] /\ UNCHANGED rest
    BY <1>3 DEF Succeed
  <2> QED BY <1>1, <1>3, <2>1 DEF Succeeds, QueueTypes
<1>4. CASE rest[r] # <<>>
  <2> DEFINE n == rest[r][1]
             t == Tail(rest[r])
  <2>1. /\ stage' = [stage EXCEPT ![r] = "cq", ![n] = "ready"]
        /\ rest' = [rest EXCEPT ![r] = <<>>, ![n] = t]
    BY <1>4 DEF Succeed
  <2>2. /\ Len(rest[r]) \in Nat /\ Len(rest[r]) >= 1 /\ DOMAIN rest[r] = 1 .. Len(rest[r])
    BY <1>2, <1>4, EmptySeq
  <2>3. 1 \in DOMAIN rest[r] /\ n \in Requests /\ stage[n] = "linked" /\ n # r
    BY <1>1, <1>2, <2>2
  <2>4. /\ DOMAIN t = 1 .. Len(rest[r]) - 1
        /\ \A i \in 1 .. Len(rest[r]) - 1 : t[i] = rest[r][i + 1]
    BY <1>2, <1>4, <2>2, HeadTailProperties
  <2> HIDE DEF n, t
  <2>5. /\ \A x \in Requests : stage'[x] = IF x = n THEN "ready" ELSE IF x = r THEN "cq" ELSE stage[x]
        /\ \A x \in Requests : rest'[x] = IF x = n THEN t ELSE IF x = r THEN <<>> ELSE rest[x]
    BY <2>1, <2>3 DEF QueueTypes
  <2>6. /\ DOMAIN rest'[n] = 1 .. Len(rest[r]) - 1
        /\ \A i \in DOMAIN rest'[n] : rest'[n][i] = rest[r][i + 1]
    BY <2>3, <2>4, <2>5
  <2>7. n = rest[r][1]
    BY DEF n
  <2> QED BY <1>1, <2>3, <2>5, <2>6, <2>7 DEF Succeeds
<1> QED BY <1>3, <1>4

(* An operation fails or is short, and what is behind it is cancelled. *)
LEMMA BreakEffects ==
  ASSUME QueueTypes, Queues, NEW r \in Requests, NEW res \in {"error", "short"},
         stage[r] = "kernel", Break(r, res)
  PROVE  Ends(r, r)
<1>1. \A x \in Requests : InSeq(rest[r], x) => stage[x] = "linked"
  BY DEF Queues, InSeq
<1>2. ~InSeq(rest[r], r)
  BY <1>1
<1>3. /\ \A x \in Requests : x # r /\ InSeq(rest[r], x) => result'[x] = "canceled"
      /\ \A x \in Requests : x # r /\ ~InSeq(rest[r], x) => result'[x] = result[x]
      /\ result'[r] = res
  BY <1>2 DEF Break, InSeq
<1>4. \A x \in Requests : stage'[x] = IF x = r \/ InSeq(rest[r], x) THEN "cq" ELSE stage[x]
  BY DEF Break, InSeq
<1>5. \A x \in Requests : rest'[x] = IF x = r THEN <<>> ELSE rest[x]
  BY DEF Break, QueueTypes
<1>6. \A x \in Requests :
        IF x \in {r, r} \/ InSeq(rest[r], x) THEN stage'[x] = "cq"
                                             ELSE stage'[x] = stage[x] /\ result'[x] = result[x]
  BY <1>3, <1>4
<1>7. \A x \in Requests : InSeq(rest[r], x) => result'[x] = "canceled" /\ stage[x] = "linked"
  BY <1>1, <1>3, <1>2
<1>8. UNCHANGED <<sq, table, used>>
  BY DEF Break
<1> QED BY <1>3, <1>5, <1>6, <1>7, <1>8 DEF Ends

(* An AsyncCancel ends, with the operation it is for or without. *)
LEMMA CancelEffects ==
  ASSUME QueueTypes, Queues, NEW c \in Requests, Cancel(c)
  PROVE  \E r \in Requests : Ends(r, c)
<1> DEFINE r == Operation(c.flow, c.kind)
<1>1. r \in Requests /\ ~r.cancel /\ c.cancel /\ c = AsyncCancel(r.flow, r.kind)
  BY RequestFacts DEF Cancel, Operation
<1>2. CASE Break(c, "error")
  BY <1>2, BreakEffects DEF Cancel
<1>3. CASE ~Break(c, "error")
  <2>1. /\ stage[c] = "kernel" /\ stage[r] = "kernel"
        /\ result' = [x \in Requests |-> CASE x = c -> "ok"
                                           [] x = r \/ InSeq(rest[r], x) -> "canceled"
                                           [] OTHER -> result[x]]
        /\ stage' = [x \in Requests |-> IF x \in {c, r} \/ InSeq(rest[r], x)
                                        THEN "cq" ELSE stage[x]]
        /\ rest' = [rest EXCEPT ![r] = <<>>]
        /\ UNCHANGED <<sq, table, used>>
    BY <1>3 DEF Cancel
  <2> HIDE DEF r
  <2>2. \A x \in Requests : InSeq(rest[r], x) => stage[x] = "linked"
    BY <1>1 DEF Queues, InSeq
  <2>3. ~InSeq(rest[r], r) /\ ~InSeq(rest[r], c) /\ r # c
    BY <1>1, <2>1, <2>2
  <2>4. /\ \A x \in Requests : x # c /\ InSeq(rest[r], x) => result'[x] = "canceled"
        /\ \A x \in Requests : x # c /\ x # r /\ ~InSeq(rest[r], x) => result'[x] = result[x]
        /\ result'[r] = "canceled"
    BY <1>1, <2>1, <2>3 DEF InSeq
  <2>5. \A x \in Requests : stage'[x] = IF x \in {c, r} \/ InSeq(rest[r], x) THEN "cq" ELSE stage[x]
    BY <2>1 DEF InSeq
  <2>6. \A x \in Requests : rest'[x] = IF x = r THEN <<>> ELSE rest[x]
    BY <1>1, <2>1 DEF QueueTypes
  <2> QED BY <1>1, <2>1, <2>2, <2>4, <2>5, <2>6, <2>3 DEF Ends
<1> QED BY <1>2, <1>3

(* What a step does to the queue, the kernel and the files. *)
Effect ==
  \/ \E s \in Seq(Requests) : Pushes(s)
  \/ \E n \in 1 .. Len(sq) : Consumes(n)
  \/ \E r \in Requests : Issues(r) \/ Succeeds(r) \/ \E c \in Requests : Ends(r, c)
  \/ Reaps
  \/ UNCHANGED kernelVars

(* There is no other effect. *)
LEMMA StepEffects ==
  ASSUME DirectInv, [Next]_vars
  PROVE  Effect
<1>1. QueueTypes /\ Queues
  BY DEF DirectInv
<1>2. ASSUME NEW f \in Flows, Start(f) \/ StartOther(f) \/ DropStream(f)
      PROVE  Effect
  <2> DEFINE s == OperationsOf(f)
  <2>1. /\ s \in Seq(Requests)
        /\ \A i \in DOMAIN s : \E k \in StepsOf(f) : s[i] = Operation(f, k)
    BY OperationsOfFacts
  <2>2. status[f] = "new" \/ (f \in Streams /\ status[f] = "open")
    BY <1>2 DEF Start, StartOther, DropStream
  <2>3. \A i \in DOMAIN s : stage[s[i]] = "none"
    <3> HIDE DEF s
    <3> QED BY <2>1, <2>2 DEF DirectInv, Fresh
  <2>4. Push(s)
    BY <1>2 DEF Start, StartOther, DropStream
  <2>5. Pushes(s)
    <3>1. \E g \in Flows : s = OperationsOf(g)
      OBVIOUS
    <3> HIDE DEF s
    <3> QED BY <1>1, <2>1, <2>3, <2>4, <3>1, PushEffects
  <2> QED BY <2>1, <2>5 DEF Effect
<1>3. ASSUME NEW f \in Flows, DropFlow(f)
      PROVE  Effect
  <2> DEFINE s == Unfinished(f)
  <2>1. s \in Seq(AsyncCancels) /\ \A x : InSeq(s, x) => x.flow = f
    BY UnfinishedFacts
  <2>2. Push(s) /\ status[f] = "busy"
    BY <1>3 DEF DropFlow
  <2> HIDE DEF s
  <2>3. s \in Seq(Requests)
    BY <2>1, RequestFacts
  <2>4. \A i \in DOMAIN s : stage[s[i]] = "none"
    <3>1. \A i \in DOMAIN s : s[i] \in AsyncCancels /\ s[i].flow = f
      BY <2>1 DEF InSeq
    <3> QED BY <2>2, <3>1 DEF DirectInv, Fresh
  <2> QED BY <1>1, <2>1, <2>2, <2>3, <2>4, PushEffects DEF Effect
<1>4. ASSUME NEW f \in Flows, StartWithoutSlot(f) \/ Finish(f) \/ DropListener(f)
      PROVE  Effect
  BY <1>4 DEF StartWithoutSlot, Finish, DropListener, Effect
<1>5. CASE Enter
  BY <1>1, <1>5, SubmitEffects DEF Enter, Effect
<1>6. CASE Reap
  <2>1. Reaps
    BY <1>6 DEF Reap, Reaps
  <2> QED BY <2>1 DEF Effect
<1>7. CASE EnterEmpty \/ UNCHANGED vars
  BY <1>7 DEF EnterEmpty, vars, Effect
<1>8. CASE Kernel
  <2> SUFFICES ASSUME NEW r \in Requests, Issue(r) \/ Succeed(r) \/ Fail(r) \/ Cancel(r)
               PROVE  Effect
    BY <1>8 DEF Kernel, KernelStep
  <2>1. CASE Issue(r)
    <3>1. Issues(r)
      BY <1>1, <2>1 DEF Issue, Issues, QueueTypes
    <3> QED BY <3>1 DEF Effect
  <2>2. CASE Succeed(r)
    BY <1>1, <2>2, SucceedEffects DEF Effect
  <2>3. CASE Fail(r)
    BY <1>1, <2>3, BreakEffects DEF Fail, Effect
  <2>4. CASE Cancel(r)
    BY <1>1, <2>4, CancelEffects DEF Effect
  <2> QED BY <2>1, <2>2, <2>3, <2>4
<1> QED BY <1>2, <1>3, <1>4, <1>5, <1>6, <1>7, <1>8 DEF Next, Client

(* What is in front of the i-th entry chained behind q. *)
Before(q, i) == IF i = 1 THEN q ELSE rest[q][i - 1]

(* An operation that has not ended has no result. *)
NoEarlyResult == \A r \in Requests : stage[r] \notin Over => result[r] = "none"

(* An entry submitted behind a link stays behind it. *)
BehindLinks ==
  /\ \A i \in DOMAIN sq : IsBehind(sq[i]) => i > 1 /\ Follows(sq[i - 1], sq[i])
  /\ \A q \in Requests : \A i \in DOMAIN rest[q] :
       IsBehind(rest[q][i]) => Follows(Before(q, i), rest[q][i])

(* It is issued when the link has succeeded, and ends after it. *)
AfterLinks ==
  \A p, r \in Requests : Follows(p, r) =>
    /\ stage[r] \in {"ready", "kernel"} \cup Over => stage[p] \in Over
    /\ stage[r] \in {"ready", "kernel"} => result[p] = "ok"

ChainInv == NoEarlyResult /\ BehindLinks /\ AfterLinks

(* Where the entries of the queue and of the chains are. *)
LEMMA QueueFacts ==
  ASSUME QueueTypes, Queues
  PROVE  /\ Len(sq) \in Nat /\ DOMAIN sq = 1 .. Len(sq)
         /\ \A i \in DOMAIN sq : sq[i] \in Requests /\ stage[sq[i]] = "sq"
         /\ \A q \in Requests : /\ Len(rest[q]) \in Nat /\ DOMAIN rest[q] = 1 .. Len(rest[q])
                                /\ \A i \in DOMAIN rest[q] :
                                     rest[q][i] \in Requests /\ stage[rest[q][i]] = "linked"
BY DEF QueueTypes, Queues

(* Nothing is queued at first. *)
LEMMA ChainInit == Init => ChainInv
<1> SUFFICES ASSUME Init PROVE ChainInv
  OBVIOUS
<1>1. /\ sq = <<>> /\ \A r \in Requests : rest[r] = <<>> /\ stage[r] = "none" /\ result[r] = "none"
  BY DEF Init, InitKernel
<1>2. DOMAIN sq = {} /\ \A r \in Requests : DOMAIN rest[r] = {}
  BY <1>1
<1> QED BY <1>1, <1>2 DEF ChainInv, NoEarlyResult, BehindLinks, AfterLinks, Over

(* What has ended stays, with its result. *)
LEMMA OverStays ==
  ASSUME QueueTypes, Queues, Effect
  PROVE  \A x \in Requests : stage[x] \in Over => stage'[x] \in Over /\ result'[x] = result[x]
<1> SUFFICES ASSUME NEW x \in Requests, stage[x] \in Over
             PROVE  stage'[x] \in Over /\ result'[x] = result[x]
  OBVIOUS
<1>1. ASSUME NEW s \in Seq(Requests), Pushes(s) PROVE stage'[x] \in Over /\ result'[x] = result[x]
  <2>1. ~InSeq(s, x)
    BY <1>1 DEF Pushes, InSeq, Over
  <2> QED BY <1>1, <2>1 DEF Pushes
<1>2. ASSUME NEW n \in 1 .. Len(sq), Consumes(n) PROVE stage'[x] \in Over /\ result'[x] = result[x]
  BY <1>2 DEF Consumes, Over
<1>3. ASSUME NEW r \in Requests, Issues(r) PROVE stage'[x] \in Over /\ result'[x] = result[x]
  BY <1>3 DEF Issues, Over
<1>4. ASSUME NEW r \in Requests, Succeeds(r) PROVE stage'[x] \in Over /\ result'[x] = result[x]
  BY <1>4 DEF Succeeds, Over
<1>5. ASSUME NEW r \in Requests, NEW c \in Requests, Ends(r, c)
      PROVE  stage'[x] \in Over /\ result'[x] = result[x]
  BY <1>5 DEF Ends, Over
<1>6. CASE Reaps
  BY <1>6 DEF Reaps, Over
<1>7. CASE UNCHANGED kernelVars
  BY <1>7 DEF kernelVars
<1> QED BY <1>1, <1>2, <1>3, <1>4, <1>5, <1>6, <1>7 DEF Effect

(* ChainInv is kept by every effect: a client pushes, *)
LEMMA PushChains ==
  ASSUME QueueTypes, Queues, ChainInv, NEW s \in Seq(Requests), Pushes(s)
  PROVE  ChainInv'
<1> DEFINE m == Len(sq)
<1>1. /\ m \in Nat /\ DOMAIN sq = 1 .. m /\ Len(s) \in Nat /\ DOMAIN s = 1 .. Len(s)
      /\ DOMAIN sq' = 1 .. m + Len(s)
      /\ \A i \in DOMAIN sq' : sq'[i] = IF i <= m THEN sq[i] ELSE s[i - m]
      /\ \A i \in 1 .. Len(s) : stage[s[i]] = "none" /\ s[i] \in Requests
      /\ \A x \in Requests : stage'[x] = IF InSeq(s, x) THEN "sq" ELSE stage[x]
      /\ UNCHANGED <<result, rest, table, used>>
  BY QueueFacts DEF Pushes
<1>2. \A x \in Requests : stage[x] # "none" => stage'[x] = stage[x]
  BY <1>1 DEF InSeq
<1>3. NoEarlyResult'
  BY <1>1 DEF ChainInv, NoEarlyResult, InSeq, Over
<1>4. \A i \in 1 .. Len(s) : IsBehind(s[i]) => i > 1 /\ Follows(s[i - 1], s[i])
  <2>1. CASE s \in Seq(AsyncCancels)
    <3>1. \A i \in 1 .. Len(s) : s[i].cancel = TRUE
      BY <1>1, <2>1, RequestFacts
    <3> QED BY <3>1 DEF IsBehind
  <2>2. CASE \E f \in Flows : s = OperationsOf(f)
    BY <2>2, <1>1, StepsLinked
  <2> QED BY <2>1, <2>2 DEF Pushes
<1>5. ASSUME NEW i \in DOMAIN sq', IsBehind(sq'[i]) PROVE i > 1 /\ Follows(sq'[i - 1], sq'[i])
  <2>1. CASE i <= m
    <3>1. i \in DOMAIN sq /\ sq'[i] = sq[i]
      BY <1>1, <2>1
    <3>2. i > 1 /\ Follows(sq[i - 1], sq[i])
      BY <1>5, <3>1 DEF ChainInv, BehindLinks
    <3>3. i - 1 \in DOMAIN sq' /\ i - 1 <= m
      BY <1>1, <3>1, <3>2
    <3> QED BY <1>1, <3>1, <3>2, <3>3
  <2>2. CASE i > m
    <3> DEFINE j == i - m
    <3>1. j \in 1 .. Len(s) /\ sq'[i] = s[j]
      BY <1>1, <2>2
    <3>2. j > 1 /\ Follows(s[j - 1], s[j])
      BY <1>4, <1>5, <3>1
    <3>3. i - 1 \in DOMAIN sq' /\ ~(i - 1 <= m) /\ (i - 1) - m = j - 1
      BY <1>1, <3>1, <3>2
    <3>4. sq'[i - 1] = s[j - 1]
      BY <1>1, <3>3
    <3>5. i > 1
      BY <1>1, <3>1, <3>2
    <3> QED BY <3>1, <3>2, <3>4, <3>5
  <2> QED BY <1>1, <2>1, <2>2
<1>6. BehindLinks'
  BY <1>1, <1>5 DEF ChainInv, BehindLinks, Before
<1>7. AfterLinks'
  BY <1>1, <1>2 DEF ChainInv, AfterLinks, Over
<1> QED BY <1>3, <1>6, <1>7 DEF ChainInv

(* the kernel consumes a chain, *)
LEMMA ConsumeChains ==
  ASSUME QueueTypes, Queues, ChainInv, NEW n \in 1 .. Len(sq), Consumes(n)
  PROVE  ChainInv'
<1> DEFINE m == Len(sq)
           h == sq[1]
<1>0. m \in Nat /\ n \in Nat /\ 1 <= n /\ n <= m /\ 1 \in DOMAIN sq
  BY QueueFacts
<1>1. /\ DOMAIN sq = 1 .. m /\ h \in Requests /\ stage[h] = "sq"
      /\ \A i \in 1 .. m : sq[i] \in Requests /\ stage[sq[i]] = "sq"
      /\ ~Linked(sq[n]) \/ n = m
      /\ DOMAIN sq' = 1 .. m - n
      /\ \A i \in DOMAIN sq' : sq'[i] = sq[n + i]
  BY QueueFacts DEF Consumes
<1>2. ~IsBehind(h)
  BY <1>0 DEF ChainInv, BehindLinks
<1>3. \/ /\ \A x \in Requests : stage'[x] = IF x = h THEN "cq" ELSE stage[x]
         /\ h.kind = "socket" /\ UNCHANGED rest
      \/ /\ stage'[h] = "kernel"
         /\ \A x \in Requests : x # h => \/ stage'[x] = stage[x]
                                         \/ stage[x] = "sq" /\ stage'[x] = "linked"
         /\ UNCHANGED result
         /\ DOMAIN rest'[h] = 1 .. n - 1
         /\ \A i \in 1 .. n - 1 : rest'[h][i] = sq[i + 1]
         /\ \A x \in Requests : x # h => rest'[x] = rest[x]
  BY DEF Consumes
<1>4. \A x \in Requests : x # h => result'[x] = result[x]
  BY DEF Consumes
<1>10. h = sq[1]
  OBVIOUS
<1> HIDE DEF m, h
<1>5. NoEarlyResult'
  BY <1>1, <1>3, <1>4 DEF ChainInv, NoEarlyResult, Over
<1>6. ASSUME NEW i \in DOMAIN sq', IsBehind(sq'[i]) PROVE i > 1 /\ Follows(sq'[i - 1], sq'[i])
  <2>1. n + i \in 1 .. m /\ sq'[i] = sq[n + i] /\ i \in 1 .. m - n
    BY <1>0, <1>1
  <2>2. Follows(sq[n + i - 1], sq[n + i])
    BY <1>1, <1>6, <2>1 DEF ChainInv, BehindLinks
  <2>3. i # 1
    <3> SUFFICES ASSUME i = 1 PROVE FALSE
      OBVIOUS
    <3>1. n + i - 1 = n /\ n # m /\ n \in 1 .. m
      BY <1>0, <1>1, <2>1
    <3>2. Linked(sq[n])
      BY <1>1, <2>1, <2>2, <3>1, FollowsFacts
    <3> QED BY <1>1, <3>1, <3>2
  <2>4. i > 1 /\ i - 1 \in DOMAIN sq' /\ n + (i - 1) = n + i - 1
    BY <1>0, <1>1, <2>1, <2>3
  <2>5. sq'[i - 1] = sq[n + i - 1]
    BY <1>1, <2>4
  <2> QED BY <2>1, <2>2, <2>4, <2>5
<1>7. ASSUME NEW q \in Requests, NEW i \in DOMAIN rest'[q], IsBehind(rest'[q][i])
      PROVE  Follows(Before(q, i)', rest'[q][i])
  <2>1. CASE rest'[q] = rest[q]
    BY <1>7, <2>1 DEF ChainInv, BehindLinks, Before
  <2>2. CASE rest'[q] # rest[q]
    <3>1. /\ q = h /\ DOMAIN rest'[h] = 1 .. n - 1
          /\ \A j \in 1 .. n - 1 : rest'[h][j] = sq[j + 1]
      BY <1>3, <2>2
    <3>2. /\ i \in 1 .. n - 1 /\ i + 1 \in 1 .. m /\ rest'[q][i] = sq[i + 1] /\ (i + 1) - 1 = i
      BY <1>0, <3>1
    <3>3. Follows(sq[i], sq[i + 1])
      BY <1>1, <1>7, <3>2 DEF ChainInv, BehindLinks
    <3>4. Before(q, i)' = sq[i]
      <4>1. CASE i = 1
        BY <1>10, <4>1, <3>1 DEF Before
      <4>2. CASE i # 1
        <5>1. i - 1 \in 1 .. n - 1 /\ (i - 1) + 1 = i
          BY <1>0, <4>2, <3>2
        <5>2. rest'[h][i - 1] = sq[i]
          BY <3>1, <5>1
        <5> QED BY <4>2, <3>1, <5>2 DEF Before
      <4> QED BY <4>1, <4>2
    <3> QED BY <3>2, <3>3, <3>4
  <2> QED BY <2>1, <2>2
<1>8. BehindLinks'
  BY <1>6, <1>7 DEF BehindLinks
<1>9. AfterLinks'
  <2> SUFFICES ASSUME NEW p \in Requests, NEW r \in Requests, Follows(p, r),
                      stage'[r] \in {"ready", "kernel"} \cup Over
               PROVE  /\ stage'[p] \in Over
                      /\ stage'[r] \in {"ready", "kernel"} => result'[p] = "ok"
    BY DEF AfterLinks
  <2>1. r # h
    BY <1>2, FollowsFacts
  <2>2. stage'[r] = stage[r]
    BY <1>3, <2>1 DEF Over
  <2>3. /\ stage[p] \in Over
        /\ stage[r] \in {"ready", "kernel"} => result[p] = "ok"
    BY <2>2 DEF ChainInv, AfterLinks
  <2>4. p # h /\ stage'[p] = stage[p] /\ result'[p] = result[p]
    BY <1>1, <1>3, <1>4, <2>3 DEF Over
  <2> QED BY <2>2, <2>3, <2>4
<1> QED BY <1>5, <1>8, <1>9 DEF ChainInv

(* issues what is ready, or its results are reaped, *)
LEMMA IssueChains ==
  ASSUME QueueTypes, Queues, ChainInv, (\E r \in Requests : Issues(r)) \/ Reaps
  PROVE  ChainInv'
<1>1. /\ UNCHANGED <<sq, result, rest>>
      /\ \A x \in Requests : \/ stage'[x] = stage[x]
                             \/ stage[x] = "ready" /\ stage'[x] = "kernel"
                             \/ stage[x] = "cq" /\ stage'[x] = "done"
  BY DEF Issues, Reaps
<1>2. NoEarlyResult'
  BY <1>1 DEF ChainInv, NoEarlyResult, Over
<1>3. BehindLinks'
  BY <1>1 DEF ChainInv, BehindLinks, Before
<1>4. AfterLinks'
  BY <1>1 DEF ChainInv, AfterLinks, Over
<1> QED BY <1>2, <1>3, <1>4 DEF ChainInv

(* an operation succeeds, *)
LEMMA SucceedChains ==
  ASSUME QueueTypes, Queues, ChainInv, NEW r \in Requests, Succeeds(r)
  PROVE  ChainInv'
<1>1. /\ stage[r] = "kernel" /\ stage'[r] = "cq" /\ rest'[r] = <<>> /\ UNCHANGED sq
      /\ \A x \in Requests : result'[x] = IF x = r THEN "ok" ELSE result[x]
  BY DEF Succeeds
<1>2. CASE \A x \in Requests : x # r => stage'[x] = stage[x] /\ rest'[x] = rest[x]
  <2>1. NoEarlyResult'
    BY <1>1, <1>2 DEF ChainInv, NoEarlyResult, Over
  <2>2. BehindLinks'
    BY <1>1, <1>2 DEF ChainInv, BehindLinks, Before
  <2>3. AfterLinks'
    BY <1>1, <1>2 DEF ChainInv, AfterLinks, Over
  <2> QED BY <2>1, <2>2, <2>3 DEF ChainInv
<1>3. ASSUME NEW n \in Requests,
             /\ n # r /\ n = rest[r][1] /\ 1 \in DOMAIN rest[r] /\ stage[n] = "linked"
             /\ stage'[n] = "ready"
             /\ DOMAIN rest'[n] = 1 .. Len(rest[r]) - 1
             /\ \A i \in DOMAIN rest'[n] : rest'[n][i] = rest[r][i + 1]
             /\ \A x \in Requests : x # r /\ x # n => stage'[x] = stage[x] /\ rest'[x] = rest[x]
      PROVE  ChainInv'
  <2>1. NoEarlyResult'
    BY <1>1, <1>3 DEF ChainInv, NoEarlyResult, Over
  <2>2. ASSUME NEW q \in Requests, NEW i \in DOMAIN rest'[q], IsBehind(rest'[q][i])
        PROVE  Follows(Before(q, i)', rest'[q][i])
    <3>1. CASE q # r /\ q # n
      <4>1. rest'[q] = rest[q]
        BY <1>3, <3>1
      <4> QED BY <2>2, <4>1 DEF ChainInv, BehindLinks, Before
    <3>2. CASE q = n
      <4>1. /\ i \in 1 .. Len(rest[r]) - 1 /\ Len(rest[r]) \in Nat
            /\ DOMAIN rest[r] = 1 .. Len(rest[r]) /\ rest'[q][i] = rest[r][i + 1]
        BY <1>3, <3>2, QueueFacts
      <4>2. i + 1 \in DOMAIN rest[r] /\ i + 1 # 1 /\ (i + 1) - 1 = i
        BY <4>1
      <4>3. Follows(rest[r][i], rest[r][i + 1])
        <5>1. Follows(Before(r, i + 1), rest[r][i + 1])
          BY <2>2, <4>1, <4>2 DEF ChainInv, BehindLinks
        <5> QED BY <4>2, <5>1 DEF Before
      <4>4. Before(q, i)' = rest[r][i]
        <5>1. CASE i = 1
          BY <1>3, <3>2, <5>1 DEF Before
        <5>2. CASE i # 1
          <6>1. i - 1 \in 1 .. Len(rest[r]) - 1 /\ (i - 1) + 1 = i
            BY <4>1, <5>2
          <6>2. rest'[n][i - 1] = rest[r][i]
            BY <1>3, <6>1
          <6> QED BY <3>2, <5>2, <6>2 DEF Before
        <5> QED BY <5>1, <5>2
      <4> QED BY <4>1, <4>3, <4>4
    <3> QED BY <1>1, <2>2, <3>1, <3>2
  <2>3. BehindLinks'
    BY <1>1, <2>2 DEF ChainInv, BehindLinks
  <2>4. IsBehind(n) => Follows(r, n)
    BY <1>3 DEF ChainInv, BehindLinks, Before
  <2>5. AfterLinks'
    <3> SUFFICES ASSUME NEW p \in Requests, NEW x \in Requests, Follows(p, x),
                        stage'[x] \in {"ready", "kernel"} \cup Over
                 PROVE  /\ stage'[p] \in Over
                        /\ stage'[x] \in {"ready", "kernel"} => result'[p] = "ok"
      BY DEF AfterLinks
    <3>1. CASE x = n
      <4>1. p = r
        BY <2>4, <3>1, FollowsFacts
      <4> QED BY <1>1, <4>1 DEF Over
    <3>2. CASE x # n
      <4>1. stage[x] \in {"ready", "kernel"} \cup Over /\ (x # r => stage'[x] = stage[x])
        BY <1>1, <1>3, <3>2
      <4>2. stage[p] \in Over /\ (stage[x] \in {"ready", "kernel"} => result[p] = "ok")
        BY <4>1 DEF ChainInv, AfterLinks
      <4>3. p # r /\ p # n /\ stage'[p] = stage[p] /\ result'[p] = result[p]
        BY <1>1, <1>3, <4>2 DEF Over
      <4> QED BY <1>1, <4>1, <4>2, <4>3
    <3> QED BY <3>1, <3>2
  <2> QED BY <2>1, <2>3, <2>5 DEF ChainInv
<1> QED BY <1>2, <1>3 DEF Succeeds

(* or ends with its chain. *)
LEMMA EndChains ==
  ASSUME QueueTypes, Queues, ChainInv, NEW r \in Requests, NEW c \in Requests, Ends(r, c)
  PROVE  ChainInv'
<1>1. /\ stage[r] = "kernel" /\ stage[c] = "kernel" /\ rest'[r] = <<>> /\ UNCHANGED sq
      /\ \A x \in Requests : x # r => rest'[x] = rest[x]
      /\ \A x \in Requests : \/ stage'[x] = stage[x] /\ result'[x] = result[x]
                             \/ x \in {r, c} /\ stage'[x] = "cq"
                             \/ InSeq(rest[r], x) /\ stage[x] = "linked" /\ stage'[x] = "cq"
      /\ \A x \in Requests : x \in {r, c} \/ InSeq(rest[r], x) => stage'[x] = "cq"
  BY DEF Ends
<1>2. NoEarlyResult'
  BY <1>1 DEF ChainInv, NoEarlyResult, Over
<1>3. BehindLinks'
  BY <1>1 DEF ChainInv, BehindLinks, Before
<1>4. AfterLinks'
  <2> SUFFICES ASSUME NEW p \in Requests, NEW x \in Requests, Follows(p, x),
                      stage'[x] \in {"ready", "kernel"} \cup Over
               PROVE  /\ stage'[p] \in Over
                      /\ stage'[x] \in {"ready", "kernel"} => result'[p] = "ok"
    BY DEF AfterLinks
  <2>1. CASE InSeq(rest[r], x) /\ stage[x] = "linked" /\ stage'[x] = "cq"
    <3>1. PICK i \in DOMAIN rest[r] : rest[r][i] = x
      BY <2>1 DEF InSeq
    <3>2. Follows(Before(r, i), x)
      BY <3>1, FollowsFacts DEF ChainInv, BehindLinks
    <3>3. Before(r, i) = r \/ (InSeq(rest[r], Before(r, i)) /\ Before(r, i) \in Requests)
      <4>1. CASE i = 1
        BY <4>1 DEF Before
      <4>2. CASE i # 1
        <5>1. i - 1 \in DOMAIN rest[r]
          BY <3>1, <4>2, QueueFacts
        <5>2. rest[r][i - 1] \in Requests
          BY <5>1, QueueFacts
        <5> QED BY <4>2, <5>1, <5>2 DEF Before, InSeq
      <4> QED BY <4>1, <4>2
    <3>4. p = Before(r, i)
      BY <3>2, <3>3, FollowsFacts
    <3> QED BY <1>1, <2>1, <3>3, <3>4 DEF Over
  <2>2. CASE x \in {r, c} /\ stage'[x] = "cq"
    <3>1. stage[p] \in Over
      BY <1>1, <2>2 DEF ChainInv, AfterLinks
    <3>2. stage'[p] \in Over
      BY <1>1, <3>1 DEF Over
    <3> QED BY <2>2, <3>2
  <2>3. CASE stage'[x] = stage[x]
    <3>1. stage[p] \in Over /\ (stage[x] \in {"ready", "kernel"} => result[p] = "ok")
      BY <2>3 DEF ChainInv, AfterLinks
    <3>2. stage'[p] = stage[p] /\ result'[p] = result[p]
      BY <1>1, <3>1 DEF Over
    <3> QED BY <2>3, <3>1, <3>2
  <2> QED BY <1>1, <2>1, <2>2, <2>3
<1> QED BY <1>2, <1>3, <1>4 DEF ChainInv

(* So it is kept by every step. *)
LEMMA ChainStep ==
  ASSUME DirectInv, ChainInv, [Next]_vars
  PROVE  ChainInv'
<1>1. QueueTypes /\ Queues /\ Effect
  BY StepEffects DEF DirectInv
<1>2. CASE UNCHANGED kernelVars
  <2>1. UNCHANGED <<sq, stage, result, rest>>
    BY <1>2 DEF kernelVars
  <2> QED BY <2>1 DEF ChainInv, NoEarlyResult, BehindLinks, AfterLinks, Before
<1> QED
  BY <1>1, <1>2, PushChains, ConsumeChains, IssueChains, SucceedChains, EndChains DEF Effect

(* A success is that of an operation the kernel has, or of a socket. *)
LEMMA ResultChanges ==
  ASSUME QueueTypes, Queues, Effect, NEW x \in Requests, ~x.cancel, result'[x] \in {"ok", "short"}
  PROVE  \/ result'[x] = result[x]
         \/ stage[x] = "kernel" \/ (x.kind = "socket" /\ stage[x] = "sq")
<1>1. ASSUME NEW n \in 1 .. Len(sq), Consumes(n)
      PROVE  result'[x] = result[x] \/ (x.kind = "socket" /\ stage[x] = "sq")
  BY <1>1 DEF Consumes
<1>2. ASSUME NEW r \in Requests, Succeeds(r) PROVE result'[x] = result[x] \/ stage[x] = "kernel"
  BY <1>2 DEF Succeeds
<1>3. ASSUME NEW r \in Requests, NEW c \in Requests, Ends(r, c)
      PROVE  result'[x] = result[x] \/ stage[x] = "kernel"
  <2>1. ~InSeq(rest[r], x)
    BY <1>3 DEF Ends
  <2> QED BY <1>3, <2>1 DEF Ends
<1>4. CASE UNCHANGED result
  BY <1>4
<1> QED BY <1>1, <1>2, <1>3, <1>4 DEF Effect, Pushes, Issues, Reaps, kernelVars

(* The table changes as an operation succeeds. *)
LEMMA TableChanges ==
  ASSUME QueueTypes, Queues, Effect
  PROVE  \/ UNCHANGED table /\ \A x \in Requests : ~x.cancel /\ result'[x] = "ok" => result[x] = "ok"
         \/ \E r \in Requests :
              /\ ~r.cancel /\ stage[r] \in {"sq", "kernel"} /\ table' = TableAfter(r)
              /\ \A x \in Requests : x # r => result'[x] = result[x]
<1>1. ASSUME NEW n \in 1 .. Len(sq), Consumes(n), ~UNCHANGED result
      PROVE  LET r == sq[1]
             IN  /\ r \in Requests /\ ~r.cancel /\ stage[r] = "sq"
                 /\ table' = TableAfter(r) \/ (UNCHANGED table /\ result'[r] = "error")
                 /\ \A x \in Requests : x # r => result'[x] = result[x]
  BY <1>1 DEF Consumes
<1>2. ASSUME NEW n \in 1 .. Len(sq), Consumes(n), UNCHANGED result
      PROVE  UNCHANGED table \/
             LET r == sq[1]
             IN  /\ r \in Requests /\ ~r.cancel /\ stage[r] = "sq" /\ table' = TableAfter(r)
  BY <1>2 DEF Consumes
<1>3. ASSUME NEW r \in Requests, Succeeds(r)
      PROVE  /\ ~r.cancel /\ stage[r] = "kernel" /\ table' = TableAfter(r)
             /\ \A x \in Requests : x # r => result'[x] = result[x]
  BY <1>3 DEF Succeeds
<1>4. ASSUME NEW r \in Requests, NEW c \in Requests, Ends(r, c)
      PROVE  /\ UNCHANGED table
             /\ \A x \in Requests : ~x.cancel /\ result'[x] = "ok" => result[x] = "ok"
  <2> SUFFICES ASSUME NEW x \in Requests, ~x.cancel, result'[x] = "ok" PROVE result[x] = "ok"
    BY <1>4 DEF Ends
  <2>1. ~InSeq(rest[r], x) /\ x # r
    BY <1>4 DEF Ends
  <2>2. x # c
    BY <1>4, <2>1 DEF Ends
  <2> QED BY <1>4, <2>1, <2>2 DEF Ends
<1>5. CASE UNCHANGED <<table, result>>
  BY <1>5
<1>6. ASSUME NEW n \in 1 .. Len(sq), Consumes(n)
      PROVE  \/ UNCHANGED table /\ \A x \in Requests : ~x.cancel /\ result'[x] = "ok" => result[x] = "ok"
             \/ \E r \in Requests :
                  /\ ~r.cancel /\ stage[r] \in {"sq", "kernel"} /\ table' = TableAfter(r)
                  /\ \A x \in Requests : x # r => result'[x] = result[x]
  <2> DEFINE h == sq[1]
  <2>1. CASE UNCHANGED result
    <3>1. \/ UNCHANGED table
          \/ h \in Requests /\ ~h.cancel /\ stage[h] = "sq" /\ table' = TableAfter(h)
      BY <1>2, <1>6, <2>1
    <3> HIDE DEF h
    <3> QED BY <2>1, <3>1
  <2>2. CASE ~UNCHANGED result
    <3>1. /\ h \in Requests /\ ~h.cancel /\ stage[h] = "sq"
          /\ table' = TableAfter(h) \/ (UNCHANGED table /\ result'[h] = "error")
          /\ \A x \in Requests : x # h => result'[x] = result[x]
      BY <1>1, <1>6, <2>2
    <3> HIDE DEF h
    <3>2. CASE table' = TableAfter(h)
      BY <3>1, <3>2
    <3>3. CASE UNCHANGED table /\ result'[h] = "error"
      <4>1. \A x \in Requests : result'[x] = "ok" => result[x] = "ok"
        BY <3>1, <3>3
      <4> QED BY <3>3, <4>1
    <3> QED BY <3>1, <3>2, <3>3
  <2> QED BY <2>1, <2>2
<1> QED
  BY <1>3, <1>4, <1>5, <1>6 DEF Effect, Pushes, Issues, Reaps, kernelVars

(* An operation finds its file when it is issued. *)
LEMMA UseChanges ==
  ASSUME QueueTypes, Queues, Effect, NEW x \in Requests
  PROVE  \/ used'[x] = used[x] /\ (stage'[x] = "kernel" => stage[x] = "kernel")
         \/ /\ used'[x] = FileOf(x) /\ UNCHANGED <<table, result>>
            /\ stage[x] = "ready" \/ (stage[x] = "sq" /\ 1 \in DOMAIN sq /\ x = sq[1])
<1>1. ASSUME NEW s \in Seq(Requests), Pushes(s)
      PROVE  used'[x] = used[x] /\ (stage'[x] = "kernel" => stage[x] = "kernel")
  BY <1>1 DEF Pushes
<1>2. ASSUME NEW n \in 1 .. Len(sq), Consumes(n)
      PROVE  \/ used'[x] = used[x] /\ (stage'[x] = "kernel" => stage[x] = "kernel")
             \/ /\ used'[x] = FileOf(x) /\ UNCHANGED <<table, result>>
                /\ stage[x] = "sq" /\ 1 \in DOMAIN sq /\ x = sq[1]
  <2>1. 1 \in DOMAIN sq
    BY QueueFacts
  <2> QED BY <1>2, <2>1 DEF Consumes
<1>3. ASSUME NEW r \in Requests, Issues(r)
      PROVE  \/ used'[x] = used[x] /\ (stage'[x] = "kernel" => stage[x] = "kernel")
             \/ used'[x] = FileOf(x) /\ UNCHANGED <<table, result>> /\ stage[x] = "ready"
  BY <1>3 DEF Issues
<1>4. ASSUME NEW r \in Requests, Succeeds(r)
      PROVE  used'[x] = used[x] /\ (stage'[x] = "kernel" => stage[x] = "kernel")
  BY <1>4 DEF Succeeds
<1>5. ASSUME NEW r \in Requests, NEW c \in Requests, Ends(r, c)
      PROVE  used'[x] = used[x] /\ (stage'[x] = "kernel" => stage[x] = "kernel")
  BY <1>5 DEF Ends
<1>6. CASE Reaps \/ UNCHANGED kernelVars
  BY <1>6 DEF Reaps, kernelVars
<1> QED BY <1>1, <1>2, <1>3, <1>4, <1>5, <1>6 DEF Effect

(* A flow gets a slot as it starts, and names no other until it has it no  *)
(* more.                                                                   *)
LEMMA HolderStep ==
  ASSUME DirectInv, [Next]_vars, NEW f \in Holders'
  PROVE  /\ f \in Manual /\ f \in Flows
         /\ status[f] = "new" \/ (f \in Holders /\ slot'[f] = slot[f])
<1>1. f \in Manual /\ f \in Flows /\ f \notin Streams /\ f \notin Others
      /\ status'[f] \in {"busy", "open"}
      /\ status \in [Flows -> {"new", "busy", "open", "done", "dropped"}]
      /\ slot \in [Flows -> Slots \cup {None}]
  BY FlowsAssumption DEF Holders, Manual, Flows, DirectInv, SlotInv, SlotTypes
<1>2. CASE UNCHANGED <<slot, status>>
  BY <1>1, <1>2 DEF Holders
<1>3. ASSUME NEW g \in Flows, Client(g), status[f] # "new"
      PROVE  f \in Holders /\ slot'[f] = slot[f]
  <2>1. CASE Start(g) \/ StartWithoutSlot(g) \/ StartOther(g)
    BY <1>1, <1>3, <2>1 DEF Start, StartWithoutSlot, StartOther, Holders
  <2>2. CASE Finish(g)
    BY <1>1, <2>2 DEF Finish, Returned, Holders
  <2>3. CASE DropFlow(g) \/ DropListener(g) \/ DropStream(g)
    BY <1>1, <2>3 DEF DropFlow, DropListener, DropStream, Holders
  <2> QED BY <1>3, <2>1, <2>2, <2>3 DEF Client
<1> QED
  BY <1>1, <1>2, <1>3 DEF Next, Enter, EnterEmpty, Reap, Kernel, KernelStep, vars

(* While an operation is under way its flow has the slot it names. *)
LEMMA BusyHolds ==
  ASSUME DirectInv, Answered, NEW r \in Requests, ~r.cancel, r.flow \in Manual,
         stage[r] \notin {"none", "done"}
  PROVE  r.flow \in Holders
<1>1. r.flow \in Flows /\ r.kind \in StepsOf(r.flow) /\ r = Operation(r.flow, r.kind)
  BY RequestFacts
<1>2. status[r.flow] # "new"
  BY <1>1 DEF DirectInv, Fresh
<1>3. status[r.flow] \in {"new", "busy"}
  BY <1>1 DEF Answered
<1> QED BY <1>2, <1>3 DEF Holders

(* The operation that makes the file of a flow. *)
Opener(f) == Operation(f, IF f \in Binds THEN "socket" ELSE "open")

(* It is the only one of the flow that touches the table. *)
LEMMA OpenerFacts ==
  ASSUME NEW f \in Manual
  PROVE  /\ Opener(f) \in Requests /\ Opener(f).flow = f /\ ~Opener(f).cancel
         /\ Opener(f).kind \in StepsOf(f) /\ Opener(f).kind \in {"open", "socket"} /\ f \in Flows
         /\ \A r \in Requests : ~r.cancel /\ r.flow = f =>
              /\ r.kind \in {"open", "socket"} => r = Opener(f)
              /\ r.kind # "close"
<1>1. f \in Flows /\ f \notin Streams /\ Opener(f).flow = f /\ ~Opener(f).cancel
  BY FlowsAssumption DEF Manual, Flows, Opener, Operation
<1>2. /\ f \in Binds => "socket" \in StepsOf(f)
      /\ f \notin Binds => "open" \in StepsOf(f)
  <2>1. /\ f \in Exists => Steps(f) = <<"open">>
        /\ f \in Readers => Steps(f) = <<"open", "read">>
        /\ f \in Writers => Steps(f) = <<"open", "write">>
        /\ f \in Binds => Steps(f) = <<"socket", "bind", "listen">>
    BY FlowsAssumption DEF Steps
  <2>2. 1 \in DOMAIN Steps(f) /\ Steps(f)[1] = IF f \in Binds THEN "socket" ELSE "open"
    BY <2>1, FlowsAssumption DEF Manual
  <2> QED BY <2>2 DEF StepsOf
<1>3. Opener(f).kind = IF f \in Binds THEN "socket" ELSE "open"
  BY DEF Opener, Operation
<1>4. Opener(f) \in Requests
  BY <1>1, <1>2, RequestFacts DEF Opener
<1>5. ASSUME NEW r \in Requests, ~r.cancel, r.flow = f
      PROVE  /\ r.kind \in {"open", "socket"} => r = Opener(f)
             /\ r.kind # "close"
  BY <1>1, <1>5, FlowKinds, FlowsAssumption DEF Opener
<1> QED BY <1>1, <1>2, <1>3, <1>4, <1>5

(* Nobody else makes or closes a file in a slot that a flow holds. *)
LEMMA FilesKept ==
  ASSUME DirectInv, SlotsUnused, NEW f \in Holders,
         NEW r \in Requests, ~r.cancel, stage[r] \in {"sq", "kernel"}, table' = TableAfter(r)
  PROVE  table'[slot[f]] = IF r = Opener(f) THEN f ELSE table[slot[f]]
<1>1. /\ f \in Manual /\ status[f] # "new" /\ slot[f] \in Slots
      /\ table \in [Slots -> Flows \cup {None}]
  BY DEF Holders, DirectInv, Named, QueueTypes, Slots
<1>2. r \in Operations
  BY FlowKinds
<1>3. CASE r.flow # f
  <2>1. slot[r.flow] # slot[f]
    BY <1>2, <1>3 DEF SlotsUnused
  <2>2. table'[slot[f]] = table[slot[f]]
    BY <1>1, <2>1 DEF TableAfter
  <2>3. r # Opener(f)
    BY <1>1, <1>3, OpenerFacts
  <2> QED BY <2>2, <2>3
<1>4. CASE r.flow = f
  <2>1. /\ r.kind \in {"open", "socket"} <=> r = Opener(f)
        /\ r.kind # "close"
    BY <1>1, <1>4, OpenerFacts
  <2> QED BY <1>1, <1>4, <2>1 DEF TableAfter
<1> QED BY <1>3, <1>4

(* A flow whose file was opened has it in its slot as long as it has the   *)
(* slot, and what reads or writes was issued on that file.                 *)
FilesInPlace == \A f \in Holders : result[Opener(f)] = "ok" => table[slot[f]] = f

OnOwnFile ==
  \A r \in Requests :
    /\ ~r.cancel /\ r.kind \in {"read", "write"}
    /\ stage[r] = "kernel" \/ result[r] \in {"ok", "short"}
    => used[r] = r.flow

FileInv == FilesInPlace /\ OnOwnFile

(* With the rest of what holds as long as no flow with a slot is dropped. *)
PolledInv == DirectInv /\ Answered /\ SlotsUnused /\ ChainInv

(* Only its own opener makes a file in the slot of a flow. *)
LEMMA FilesInPlaceStep ==
  ASSUME PolledInv, FilesInPlace, [Next]_vars
  PROVE  FilesInPlace'
<1>1. QueueTypes /\ Queues /\ Effect
  BY StepEffects DEF DirectInv, PolledInv
<1> SUFFICES ASSUME NEW f \in Holders', result'[Opener(f)] = "ok"
             PROVE  table'[slot'[f]] = f
  BY DEF FilesInPlace, Opener
<1> DEFINE o == Opener(f)
<1>2. f \in Manual /\ f \in Flows /\ (status[f] = "new" \/ (f \in Holders /\ slot'[f] = slot[f]))
  BY HolderStep DEF PolledInv
<1>3. o \in Requests /\ ~o.cancel /\ o.flow = f /\ o.kind \in StepsOf(f)
      /\ o = Operation(f, o.kind)
  BY <1>2, OpenerFacts, FlowKinds
<1>4. CASE status[f] = "new"
  <2>1. stage[o] = "none"
    BY <1>2, <1>3, <1>4 DEF PolledInv, DirectInv, Fresh
  <2>2. result[o] = "none"
    BY <1>3, <2>1 DEF PolledInv, ChainInv, NoEarlyResult, Over
  <2> QED BY <1>1, <1>3, <2>1, <2>2, ResultChanges
<1>5. CASE f \in Holders /\ slot'[f] = slot[f]
  <2>1. CASE UNCHANGED table /\ \A x \in Requests : ~x.cancel /\ result'[x] = "ok" => result[x] = "ok"
    BY <1>3, <1>5, <2>1 DEF FilesInPlace
  <2>2. ASSUME NEW r \in Requests, ~r.cancel, stage[r] \in {"sq", "kernel"}, table' = TableAfter(r),
               \A x \in Requests : x # r => result'[x] = result[x]
        PROVE  table'[slot[f]] = f
    <3>1. table'[slot[f]] = IF r = o THEN f ELSE table[slot[f]]
      BY <1>5, <2>2, FilesKept DEF PolledInv
    <3>2. r # o => result[o] = "ok"
      BY <1>3, <2>2
    <3> QED BY <1>5, <3>1, <3>2 DEF FilesInPlace
  <2> QED BY <1>1, <1>5, <2>1, <2>2, TableChanges
<1> QED BY <1>2, <1>4, <1>5

(* A flow under way whose file was opened finds its own file. *)
LEMMA FindsOwnFile ==
  ASSUME PolledInv, FilesInPlace, NEW r \in Requests, ~r.cancel, r.flow \in Manual,
         r.kind \notin {"open", "socket", "other"},
         stage[r] \notin {"none", "done"}, result[Opener(r.flow)] = "ok"
  PROVE  FileOf(r) = r.flow
<1>1. r.flow \in Holders
  BY BusyHolds DEF PolledInv
<1> QED BY <1>1 DEF FilesInPlace, FileOf

(* A read or write is issued behind the open that made its file. *)
LEMMA OnOwnFileStep ==
  ASSUME PolledInv, FileInv, [Next]_vars
  PROVE  OnOwnFile'
<1>1. QueueTypes /\ Queues /\ Effect
  BY StepEffects DEF DirectInv, PolledInv
<1> SUFFICES ASSUME NEW r \in Requests, ~r.cancel, r.kind \in {"read", "write"},
                    stage'[r] = "kernel" \/ result'[r] \in {"ok", "short"}
             PROVE  used'[r] = r.flow
  BY DEF OnOwnFile
<1>2. CASE used'[r] = used[r] /\ (stage'[r] = "kernel" => stage[r] = "kernel")
  <2>1. stage[r] = "kernel" \/ result[r] \in {"ok", "short"}
    BY <1>1, <1>2, ResultChanges
  <2> QED BY <1>2, <2>1 DEF FileInv, OnOwnFile
<1>3. CASE used'[r] = FileOf(r) /\ stage[r] = "ready"
  <2> DEFINE p == Operation(r.flow, "open")
  <2>1. /\ r.flow \in Readers \cup Writers /\ r.flow \in Manual /\ r.flow \notin Binds
        /\ p = Opener(r.flow)
    BY FlowKinds, FlowsAssumption DEF Manual, Opener
  <2>2. p \in Requests /\ Follows(p, r)
    BY <2>1, OpenerFacts DEF Follows, Operation
  <2>3. result[p] = "ok"
    BY <1>3, <2>2 DEF PolledInv, ChainInv, AfterLinks
  <2> QED BY <1>3, <2>1, <2>3, FindsOwnFile DEF FileInv
<1>4. CASE 1 \in DOMAIN sq /\ r = sq[1]
  BY <1>4 DEF PolledInv, ChainInv, BehindLinks, IsBehind
<1> QED BY <1>1, <1>2, <1>3, <1>4, UseChanges

(* What is polled until it returns has its slot to itself. *)
LEMMA PolledStep ==
  ASSUME Droppable \cap Manual = {}, DirectInv, Answered, ChainInv
  PROVE  PolledInv
BY UnusedSlots DEF PolledInv

(* A read or write that has an effect has it on the file its own flow      *)
(* opened, though it names the file by a slot that others use before and   *)
(* after it (fs/func.rs: read_buf, write_buf), if every flow with a slot   *)
(* is polled until it returns.                                             *)
THEOREM UsesOwnFile ==
  ASSUME Droppable \cap Manual = {}
  PROVE  Spec => []UsesItsOwnFile
<1> DEFINE Inv == DirectInv /\ Answered /\ ChainInv /\ FileInv
<1>1. Init => Inv
  <2> SUFFICES ASSUME Init PROVE Inv
    OBVIOUS
  <2>1. DirectInv /\ ChainInv /\ Answered
    BY DirectInit, ChainInit, AnsweredInit
  <2>2. \A r \in Requests : stage[r] = "none" /\ result[r] = "none"
    BY DEF Init, InitKernel
  <2>3. FilesInPlace
    BY <2>2, OpenerFacts DEF FilesInPlace, Holders
  <2>4. OnOwnFile
    BY <2>2 DEF OnOwnFile
  <2> QED BY <2>1, <2>3, <2>4 DEF FileInv
<1>2. Inv /\ [Next]_vars => Inv'
  <2> SUFFICES ASSUME Inv, [Next]_vars PROVE Inv'
    OBVIOUS
  <2>1. PolledInv
    BY PolledStep
  <2>2. DirectInv' /\ Answered' /\ ChainInv'
    BY DirectStep, AnsweredStep, ChainStep
  <2>3. FileInv'
    BY <2>1, FilesInPlaceStep, OnOwnFileStep DEF FileInv
  <2> QED BY <2>2, <2>3
<1>3. Inv => UsesItsOwnFile
  <2> SUFFICES ASSUME FileInv, NEW f \in Readers \cup Writers, NEW k \in StepsOf(f) \ {"open"},
                      result[Operation(f, k)] \in {"ok", "short"}
               PROVE  used[Operation(f, k)] = f
    BY DEF UsesItsOwnFile
  <2>1. f \in Flows
    BY DEF Flows
  <2>2. /\ f \in Readers => Steps(f) = <<"open", "read">>
        /\ f \in Writers => Steps(f) = <<"open", "write">>
    BY FlowsAssumption DEF Steps
  <2>3. k \in {"read", "write"}
    BY <2>2 DEF StepsOf
  <2>4. /\ Operation(f, k) \in Requests /\ ~Operation(f, k).cancel
        /\ Operation(f, k).flow = f /\ Operation(f, k).kind = k
    BY <2>1, RequestFacts DEF Operation
  <2> QED BY <2>3, <2>4 DEF FileInv, OnOwnFile
<1> HIDE DEF Inv
<1> QED BY <1>1, <1>2, <1>3, PTL DEF Spec

(* A link is in front of what its own flow links to it, and nothing else   *)
(* is chained.                                                             *)
LinksOwn ==
  /\ \A i \in DOMAIN sq : Linked(sq[i]) => i + 1 \in DOMAIN sq /\ Follows(sq[i], sq[i + 1])
  /\ \A q \in Requests : \A i \in DOMAIN rest[q] : Follows(Before(q, i), rest[q][i])

(* LinksOwn is kept as a client pushes, *)
LEMMA PushLinks ==
  ASSUME Readers = {}, Writers = {}, QueueTypes, Queues, LinksOwn,
         NEW s \in Seq(Requests), Pushes(s)
  PROVE  LinksOwn'
<1> DEFINE m == Len(sq)
<1>1. /\ m \in Nat /\ DOMAIN sq = 1 .. m /\ Len(s) \in Nat /\ DOMAIN s = 1 .. Len(s)
      /\ DOMAIN sq' = 1 .. m + Len(s)
      /\ \A i \in DOMAIN sq' : sq'[i] = IF i <= m THEN sq[i] ELSE s[i - m]
      /\ UNCHANGED rest
  BY QueueFacts DEF Pushes
<1> HIDE DEF m
<1>2. \A j \in 1 .. Len(s) : Linked(s[j]) => j + 1 \in DOMAIN s /\ Follows(s[j], s[j + 1])
  <2>1. CASE s \in Seq(AsyncCancels)
    <3>1. \A j \in 1 .. Len(s) : s[j].cancel = TRUE
      BY <1>1, <2>1, RequestFacts
    <3> QED BY <3>1 DEF Linked
  <2>2. CASE \E f \in Flows : s = OperationsOf(f)
    BY <2>2, <1>1, StepsLinked
  <2> QED BY <2>1, <2>2 DEF Pushes
<1>3. ASSUME NEW i \in DOMAIN sq', Linked(sq'[i])
      PROVE  i + 1 \in DOMAIN sq' /\ Follows(sq'[i], sq'[i + 1])
  <2>1. CASE i <= m
    <3>1. i \in DOMAIN sq /\ sq'[i] = sq[i]
      BY <1>1, <2>1
    <3>2. i + 1 \in DOMAIN sq /\ Follows(sq[i], sq[i + 1])
      BY <1>3, <3>1 DEF LinksOwn
    <3>3. i + 1 \in DOMAIN sq' /\ i + 1 <= m
      BY <1>1, <3>1, <3>2
    <3> QED BY <1>1, <3>1, <3>2, <3>3
  <2>2. CASE i > m
    <3> DEFINE j == i - m
    <3>1. j \in 1 .. Len(s) /\ sq'[i] = s[j]
      BY <1>1, <2>2
    <3>2. j + 1 \in DOMAIN s /\ Follows(s[j], s[j + 1])
      BY <1>2, <1>3, <3>1
    <3>3. i + 1 \in DOMAIN sq' /\ ~(i + 1 <= m) /\ (i + 1) - m = j + 1
      BY <1>1, <3>1, <3>2
    <3>4. sq'[i + 1] = s[j + 1]
      BY <1>1, <3>3
    <3> QED BY <3>1, <3>2, <3>3, <3>4
  <2> QED BY <1>1, <2>1, <2>2
<1> QED BY <1>1, <1>3 DEF LinksOwn, Before

(* as a chain is consumed, *)
LEMMA ConsumeLinks ==
  ASSUME QueueTypes, Queues, LinksOwn, NEW n \in 1 .. Len(sq), Consumes(n)
  PROVE  LinksOwn'
<1> DEFINE m == Len(sq)
           h == sq[1]
<1>0. m \in Nat /\ n \in Nat /\ 1 <= n /\ n <= m
  BY QueueFacts
<1>1. /\ DOMAIN sq = 1 .. m
      /\ \A i \in 1 .. n - 1 : Linked(sq[i])
      /\ DOMAIN sq' = 1 .. m - n
      /\ \A i \in DOMAIN sq' : sq'[i] = sq[n + i]
  BY QueueFacts DEF Consumes
<1>2. \/ UNCHANGED rest
      \/ /\ DOMAIN rest'[h] = 1 .. n - 1
         /\ \A i \in 1 .. n - 1 : rest'[h][i] = sq[i + 1]
         /\ \A x \in Requests : x # h => rest'[x] = rest[x]
  BY DEF Consumes
<1>5. h = sq[1]
  OBVIOUS
<1> HIDE DEF m, h
<1>3. ASSUME NEW i \in DOMAIN sq', Linked(sq'[i])
      PROVE  i + 1 \in DOMAIN sq' /\ Follows(sq'[i], sq'[i + 1])
  <2>1. n + i \in 1 .. m /\ sq'[i] = sq[n + i] /\ i \in 1 .. m - n
    BY <1>0, <1>1
  <2>2. (n + i) + 1 \in DOMAIN sq /\ Follows(sq[n + i], sq[(n + i) + 1])
    BY <1>1, <1>3, <2>1 DEF LinksOwn
  <2>3. i + 1 \in DOMAIN sq' /\ n + (i + 1) = (n + i) + 1
    BY <1>0, <1>1, <2>1, <2>2
  <2>4. sq'[i + 1] = sq[(n + i) + 1]
    BY <1>1, <2>3
  <2> QED BY <2>1, <2>2, <2>3, <2>4
<1>4. ASSUME NEW q \in Requests, NEW i \in DOMAIN rest'[q]
      PROVE  Follows(Before(q, i)', rest'[q][i])
  <2>1. CASE rest'[q] = rest[q]
    BY <1>4, <2>1 DEF LinksOwn, Before
  <2>2. CASE rest'[q] # rest[q]
    <3>1. /\ q = h /\ DOMAIN rest'[h] = 1 .. n - 1
          /\ \A j \in 1 .. n - 1 : rest'[h][j] = sq[j + 1]
      BY <1>2, <2>2
    <3>2. /\ i \in 1 .. n - 1 /\ i \in DOMAIN sq /\ rest'[q][i] = sq[i + 1]
      BY <1>0, <1>1, <3>1
    <3>3. Follows(sq[i], sq[i + 1])
      BY <1>1, <3>2 DEF LinksOwn
    <3>4. Before(q, i)' = sq[i]
      <4>1. CASE i = 1
        BY <1>5, <4>1, <3>1 DEF Before
      <4>2. CASE i # 1
        <5>1. i - 1 \in 1 .. n - 1 /\ (i - 1) + 1 = i
          BY <1>0, <4>2, <3>2
        <5>2. rest'[h][i - 1] = sq[i]
          BY <3>1, <5>1
        <5> QED BY <4>2, <3>1, <5>2 DEF Before
      <4> QED BY <4>1, <4>2
    <3> QED BY <3>2, <3>3, <3>4
  <2> QED BY <2>1, <2>2
<1> QED BY <1>3, <1>4 DEF LinksOwn

(* A chain that is no more. *)
LEMMA EndedLinks ==
  ASSUME LinksOwn, NEW r \in Requests, UNCHANGED sq, rest'[r] = <<>>,
         \A x \in Requests : x # r => rest'[x] = rest[x]
  PROVE  LinksOwn'
<1>1. ASSUME NEW q \in Requests, NEW i \in DOMAIN rest'[q]
      PROVE  Follows(Before(q, i)', rest'[q][i])
  <2>1. q # r
    BY <1>1
  <2>2. rest'[q] = rest[q]
    BY <2>1
  <2> QED BY <1>1, <2>2 DEF LinksOwn, Before
<1> QED BY <1>1 DEF LinksOwn

(* and as the next of a chain takes over the rest of it. *)
LEMMA SucceedLinks ==
  ASSUME QueueTypes, Queues, LinksOwn, NEW r \in Requests, Succeeds(r)
  PROVE  LinksOwn'
<1>1. stage[r] = "kernel" /\ rest'[r] = <<>> /\ UNCHANGED sq
  BY DEF Succeeds
<1>2. CASE \A x \in Requests : x # r => rest'[x] = rest[x]
  BY <1>1, <1>2, EndedLinks
<1>3. ASSUME NEW n \in Requests,
             /\ n # r /\ n = rest[r][1] /\ 1 \in DOMAIN rest[r]
             /\ DOMAIN rest'[n] = 1 .. Len(rest[r]) - 1
             /\ \A i \in DOMAIN rest'[n] : rest'[n][i] = rest[r][i + 1]
             /\ \A x \in Requests : x # r /\ x # n => rest'[x] = rest[x]
      PROVE  LinksOwn'
  <2>1. ASSUME NEW q \in Requests, NEW i \in DOMAIN rest'[q]
        PROVE  Follows(Before(q, i)', rest'[q][i])
    <3>1. CASE q # r /\ q # n
      <4>1. rest'[q] = rest[q]
        BY <1>3, <3>1
      <4> QED BY <2>1, <4>1 DEF LinksOwn, Before
    <3>2. CASE q = n
      <4>1. /\ i \in 1 .. Len(rest[r]) - 1 /\ Len(rest[r]) \in Nat
            /\ DOMAIN rest[r] = 1 .. Len(rest[r]) /\ rest'[q][i] = rest[r][i + 1]
        BY <1>3, <3>2, QueueFacts
      <4>2. i + 1 \in DOMAIN rest[r] /\ i + 1 # 1 /\ (i + 1) - 1 = i
        BY <4>1
      <4>3. Follows(rest[r][i], rest[r][i + 1])
        <5>1. Follows(Before(r, i + 1), rest[r][i + 1])
          BY <4>2 DEF LinksOwn
        <5> QED BY <4>2, <5>1 DEF Before
      <4>4. Before(q, i)' = rest[r][i]
        <5>1. CASE i = 1
          BY <1>3, <3>2, <5>1 DEF Before
        <5>2. CASE i # 1
          <6>1. i - 1 \in 1 .. Len(rest[r]) - 1 /\ (i - 1) + 1 = i
            BY <4>1, <5>2
          <6>2. rest'[n][i - 1] = rest[r][i]
            BY <1>3, <6>1
          <6> QED BY <3>2, <5>2, <6>2 DEF Before
        <5> QED BY <5>1, <5>2
      <4> QED BY <4>1, <4>3, <4>4
    <3> QED BY <1>1, <2>1, <3>1, <3>2
  <2> QED BY <1>1, <2>1 DEF LinksOwn
<1> QED BY <1>2, <1>3 DEF Succeeds

(* As long as no read or write, which carry a link, can be the last entry  *)
(* of a flow.                                                              *)
LEMMA LinksStep ==
  ASSUME Readers = {}, Writers = {}, DirectInv, LinksOwn, [Next]_vars
  PROVE  LinksOwn'
<1>1. QueueTypes /\ Queues /\ Effect
  BY StepEffects DEF DirectInv
<1>2. ASSUME NEW r \in Requests, NEW c \in Requests, Ends(r, c) PROVE LinksOwn'
  <2>1. UNCHANGED sq /\ rest'[r] = <<>> /\ \A x \in Requests : x # r => rest'[x] = rest[x]
    BY <1>2 DEF Ends
  <2> QED BY <2>1, EndedLinks
<1>3. CASE UNCHANGED <<sq, rest>>
  BY <1>3 DEF LinksOwn, Before
<1> QED
  BY <1>1, <1>2, <1>3, PushLinks, ConsumeLinks, SucceedLinks
  DEF Effect, Issues, Reaps, kernelVars

(* Nothing is linked at first. *)
LEMMA LinksInit == Init => LinksOwn
<1> SUFFICES ASSUME Init PROVE LinksOwn
  OBVIOUS
<1>1. /\ sq = <<>> /\ \A r \in Requests : rest[r] = <<>>
  BY DEF Init, InitKernel
<1>2. DOMAIN sq = {} /\ \A r \in Requests : DOMAIN rest[r] = {}
  BY <1>1
<1> QED BY <1>1, <1>2 DEF LinksOwn

(* What is behind a link is a later step of its flow. *)
LEMMA FollowsSteps ==
  ASSUME NEW p \in Requests, NEW r \in Requests, Follows(p, r)
  PROVE  \E i, j \in DOMAIN Steps(r.flow) :
           /\ Steps(r.flow)[j] = r.kind /\ i < j
           /\ Operation(r.flow, Steps(r.flow)[i]) = p
<1> DEFINE f == r.flow
<1>1. /\ ~r.cancel /\ ~p.cancel /\ p.flow = f /\ p = Operation(f, p.kind)
      /\ <<p.kind, r.kind>> \in {<<"open", "read">>, <<"open", "write">>,
                                 <<"bind", "listen">>, <<"shutdown", "close">>}
  BY FlowKinds DEF Follows
<1>2. CASE r.kind = "read"
  <2>1. Steps(f) = <<"open", "read">>
    BY <1>1, <1>2, FlowKinds, FlowsAssumption DEF Steps
  <2>2. 1 \in DOMAIN Steps(f) /\ 2 \in DOMAIN Steps(f) /\ Steps(f)[1] = p.kind /\ Steps(f)[2] = r.kind
    BY <1>1, <1>2, <2>1
  <2> QED BY <1>1, <2>2
<1>3. CASE r.kind = "write"
  <2>1. Steps(f) = <<"open", "write">>
    BY <1>1, <1>3, FlowKinds, FlowsAssumption DEF Steps
  <2>2. 1 \in DOMAIN Steps(f) /\ 2 \in DOMAIN Steps(f) /\ Steps(f)[1] = p.kind /\ Steps(f)[2] = r.kind
    BY <1>1, <1>3, <2>1
  <2> QED BY <1>1, <2>2
<1>4. CASE r.kind = "listen"
  <2>1. Steps(f) = <<"socket", "bind", "listen">>
    BY <1>1, <1>4, FlowKinds, FlowsAssumption DEF Steps
  <2>2. 2 \in DOMAIN Steps(f) /\ 3 \in DOMAIN Steps(f) /\ Steps(f)[2] = p.kind /\ Steps(f)[3] = r.kind
    BY <1>1, <1>4, <2>1
  <2> QED BY <1>1, <2>2
<1>5. CASE r.kind = "close"
  <2>1. Steps(f) = <<"shutdown", "close">>
    BY <1>1, <1>5, FlowKinds, FlowsAssumption DEF Steps
  <2>2. 1 \in DOMAIN Steps(f) /\ 2 \in DOMAIN Steps(f) /\ Steps(f)[1] = p.kind /\ Steps(f)[2] = r.kind
    BY <1>1, <1>5, <2>1
  <2> QED BY <1>1, <2>2
<1> QED BY <1>1, <1>2, <1>3, <1>4, <1>5

(* The reason a flow has to expect a cancellation does not go away. *)
LEMMA DoingStays ==
  ASSUME QueueTypes, Queues, NoEarlyResult, Effect, NEW f \in Flows, NEW k, OwnDoing(f, k)
  PROVE  OwnDoing(f, k)'
<1>1. \A x \in Requests : stage[x] # "none" => stage'[x] # "none"
  BY DEF Effect, Pushes, Consumes, Issues, Succeeds, Ends, Reaps, kernelVars
<1>2. CASE \E c \in AsyncCancels : c = AsyncCancel(f, k) /\ stage[c] # "none"
  BY <1>1, <1>2, RequestFacts DEF OwnDoing
<1>3. ASSUME NEW i \in DOMAIN Steps(f), NEW j \in DOMAIN Steps(f),
             Steps(f)[j] = k, i < j, result[Operation(f, Steps(f)[i])] \in {"short", "error", "canceled"}
      PROVE  OwnDoing(f, k)'
  <2> DEFINE p == Operation(f, Steps(f)[i])
  <2>1. p \in Requests
    BY RequestFacts DEF StepsOf
  <2>2. result'[p] = result[p]
    BY <1>3, <2>1, OverStays DEF NoEarlyResult
  <2> QED BY <1>3, <2>2 DEF OwnDoing
<1> QED BY <1>2, <1>3 DEF OwnDoing

(* A chain that breaks is that of one flow. *)
LEMMA UndisturbedStep ==
  ASSUME DirectInv, ChainInv, LinksOwn, OthersUndisturbed, [Next]_vars
  PROVE  OthersUndisturbed'
<1>1. QueueTypes /\ Queues /\ Effect /\ NoEarlyResult
  BY StepEffects DEF DirectInv, ChainInv
<1> SUFFICES ASSUME NEW x \in Operations, result'[x] = "canceled"
             PROVE  OwnDoing(x.flow, x.kind)'
  BY DEF OthersUndisturbed, OwnDoing
<1>2. x \in Requests /\ x.flow \in Flows /\ x = Operation(x.flow, x.kind) /\ ~x.cancel
  BY RequestFacts
<1>3. CASE result[x] = "canceled"
  BY <1>1, <1>2, <1>3, DoingStays DEF OthersUndisturbed
<1>4. ASSUME NEW r \in Requests, NEW c \in Requests, Ends(r, c), result[x] # "canceled"
      PROVE  OwnDoing(x.flow, x.kind)'
  <2>1. CASE x = r
    <3>1. c = AsyncCancel(x.flow, x.kind) /\ c \in AsyncCancels
      BY <1>4, <2>1, RequestFacts DEF Ends
    <3>2. stage'[c] # "none"
      BY <1>4 DEF Ends
    <3> QED BY <3>1, <3>2 DEF OwnDoing
  <2>2. CASE InSeq(rest[r], x)
    <3>1. PICK i \in DOMAIN rest[r] : rest[r][i] = x
      BY <2>2 DEF InSeq
    <3> DEFINE p == Before(r, i)
    <3>2. Follows(p, x)
      BY <3>1 DEF LinksOwn
    <3>3. p \in Requests /\ result'[p] \in {"short", "error", "canceled"}
      <4>1. CASE i = 1
        BY <1>4, <4>1 DEF Before, Ends
      <4>2. CASE i # 1
        <5>1. i - 1 \in DOMAIN rest[r]
          BY <1>1, <3>1, <4>2, QueueFacts
        <5>2. rest[r][i - 1] \in Requests /\ InSeq(rest[r], rest[r][i - 1])
          BY <1>1, <5>1, QueueFacts DEF InSeq
        <5>3. result'[rest[r][i - 1]] = "canceled"
          BY <1>4, <5>2 DEF Ends
        <5> QED BY <4>2, <5>2, <5>3 DEF Before
      <4> QED BY <4>1, <4>2
    <3> HIDE DEF p
    <3>4. PICK j, k \in DOMAIN Steps(x.flow) :
            /\ Steps(x.flow)[k] = x.kind /\ j < k /\ Operation(x.flow, Steps(x.flow)[j]) = p
      BY <1>2, <3>2, <3>3, FollowsSteps
    <3> QED BY <3>3, <3>4 DEF OwnDoing
  <2>3. CASE x # r /\ ~InSeq(rest[r], x)
    <3>1. x = c
      BY <1>2, <1>4, <2>3 DEF Ends
    <3> QED BY <1>2, <1>4, <2>3, <3>1 DEF Ends
  <2> QED BY <2>1, <2>2, <2>3
<1>5. ASSUME ~\E r \in Requests : \E c \in Requests : Ends(r, c)
      PROVE  result[x] = "canceled"
  BY <1>1, <1>2, <1>5 DEF Effect, Pushes, Consumes, Issues, Succeeds, Reaps, kernelVars
<1> QED BY <1>3, <1>4, <1>5

(* An operation is cancelled by its own flow only (op/mod.rs: Chain), if   *)
(* no entry with a link is the last of its flow, as the read and write of  *)
(* a chained call are; other tasks may be dropped at any time.             *)
THEOREM OthersLeftAlone ==
  ASSUME Readers = {}, Writers = {}
  PROVE  Spec => []OthersUndisturbed
<1> DEFINE Inv == DirectInv /\ ChainInv /\ LinksOwn /\ OthersUndisturbed
<1>1. Init => Inv
  <2>1. Init => OthersUndisturbed
    <3> SUFFICES ASSUME Init PROVE OthersUndisturbed
      OBVIOUS
    <3>1. \A r \in Requests : result[r] = "none"
      BY DEF Init, InitKernel
    <3> QED BY <3>1, RequestFacts DEF OthersUndisturbed
  <2> QED BY <2>1, DirectInit, ChainInit, LinksInit
<1>2. Inv /\ [Next]_vars => Inv'
  BY DirectStep, ChainStep, LinksStep, UndisturbedStep
<1>3. Inv => OthersUndisturbed
  OBVIOUS
<1> HIDE DEF Inv
<1> QED BY <1>1, <1>2, <1>3, PTL DEF Spec

IsBind(r) == ~r.cancel /\ r.kind = "bind"

(* A bind is behind the entry of its socket until that has been consumed,  *)
(* and is never behind a link.                                             *)
BindInv ==
  /\ \A i \in DOMAIN sq : IsBind(sq[i]) =>
       \/ stage[Opener(sq[i].flow)] \in Over
       \/ i > 1 /\ sq[i - 1] = Opener(sq[i].flow)
  /\ \A r \in Requests : IsBind(r) =>
       /\ stage[r] \in {"none", "sq", "kernel"} \cup Over
       /\ stage[r] \in {"kernel"} \cup Over => stage[Opener(r.flow)] \in Over

(* What binds and listens was issued on the socket of the same flow. *)
OnOwnSocket ==
  \A r \in Requests :
    /\ ~r.cancel /\ r.kind \in {"bind", "listen"}
    /\ stage[r] = "kernel" \/ result[r] = "ok"
    /\ result[Opener(r.flow)] = "ok"
    => used[r] = r.flow

ListenersOk == \A f \in Binds : status[f] = "open" => AllOk(f)

SocketInv == BindInv /\ OnOwnSocket /\ ListenersOk

(* Binding and listening are for listeners, which open with a socket. *)
LEMMA BindFacts ==
  ASSUME NEW r \in Requests, ~r.cancel, r.kind \in {"bind", "listen"}
  PROVE  /\ r.flow \in Binds /\ r.flow \in Manual /\ r.flow \in Flows
         /\ Opener(r.flow) \in Requests /\ Opener(r.flow) = Operation(r.flow, "socket")
         /\ ~Opener(r.flow).cancel /\ Opener(r.flow).kind = "socket" /\ Opener(r.flow).flow = r.flow
<1>1. r.flow \in Binds /\ r.flow \in Manual /\ r.flow \in Flows
  BY FlowKinds DEF Manual, Flows
<1> QED BY <1>1, OpenerFacts DEF Opener, Operation

(* A bind does not overtake the socket in the queue. *)
LEMMA BindQueue ==
  ASSUME DirectInv, LinksOwn, BindInv, Effect,
         NEW i \in DOMAIN sq', IsBind(sq'[i])
  PROVE  \/ stage'[Opener(sq'[i].flow)] \in Over
         \/ i > 1 /\ sq'[i - 1] = Opener(sq'[i].flow)
<1> DEFINE m == Len(sq)
           Goal == \/ stage'[Opener(sq'[i].flow)] \in Over
                   \/ i > 1 /\ sq'[i - 1] = Opener(sq'[i].flow)
<1>0. QueueTypes /\ Queues
  BY DEF DirectInv
<1>1. m \in Nat /\ DOMAIN sq = 1 .. m /\ \A j \in DOMAIN sq : sq[j] \in Requests
  BY <1>0, QueueFacts
<1>2. \A r \in Requests : IsBind(r) =>
        Opener(r.flow) \in Requests /\ Opener(r.flow).kind = "socket" /\ ~Opener(r.flow).cancel
  BY BindFacts DEF IsBind
<1>3. \A j \in DOMAIN sq : IsBind(sq[j]) /\ stage[Opener(sq[j].flow)] \in Over =>
        stage'[Opener(sq[j].flow)] \in Over
  BY <1>0, <1>1, <1>2, OverStays
<1>4. CASE UNCHANGED sq
  BY <1>3, <1>4 DEF BindInv
<1>5. ASSUME NEW s \in Seq(Requests), Pushes(s)
      PROVE  Goal
  <2>1. /\ DOMAIN sq' = 1 .. m + Len(s) /\ Len(s) \in Nat /\ DOMAIN s = 1 .. Len(s)
        /\ \A j \in DOMAIN sq' : sq'[j] = IF j <= m THEN sq[j] ELSE s[j - m]
    BY <1>5 DEF Pushes
  <2> HIDE DEF m
  <2>2. CASE i <= m
    <3>1. i \in DOMAIN sq /\ sq'[i] = sq[i] /\ (i > 1 => sq'[i - 1] = sq[i - 1])
      BY <1>1, <2>1, <2>2
    <3> QED BY <1>3, <3>1 DEF BindInv
  <2>3. CASE i > m
    <3> DEFINE j == i - m
    <3>1. j \in 1 .. Len(s) /\ sq'[i] = s[j]
      BY <1>1, <2>1, <2>3
    <3>2. s \notin Seq(AsyncCancels)
      <4> SUFFICES ASSUME s \in Seq(AsyncCancels) PROVE FALSE
        OBVIOUS
      <4>1. s[j] \in AsyncCancels
        BY <2>1, <3>1
      <4> QED BY <3>1, <4>1, RequestFacts DEF IsBind
    <3>3. PICK f \in Flows : s = OperationsOf(f)
      BY <1>5, <3>2 DEF Pushes
    <3>4. j > 1 /\ s[j - 1] = Operation(f, "socket") /\ s[j].flow = f
      BY <2>1, <3>1, <3>3, StepsLinked, OperationsOfFacts DEF IsBind, Operation
    <3>5. i - 1 \in DOMAIN sq' /\ ~(i - 1 <= m) /\ (i - 1) - m = j - 1 /\ i > 1
      BY <1>1, <2>1, <3>1, <3>4
    <3>6. sq'[i - 1] = s[j - 1]
      BY <2>1, <3>5
    <3>7. s[j] \in Requests
      BY <2>1, <3>1
    <3>8. Opener(f) = Operation(f, "socket")
      BY <3>1, <3>4, <3>7, BindFacts DEF IsBind
    <3> QED BY <3>1, <3>4, <3>5, <3>6, <3>8
  <2> QED BY <1>1, <2>1, <2>2, <2>3
<1>6. ASSUME NEW n \in 1 .. Len(sq), Consumes(n)
      PROVE  Goal
  <2> DEFINE o == Opener(sq'[i].flow)
  <2>1. /\ m \in Nat /\ n \in Nat /\ 1 <= n /\ n <= m
        /\ DOMAIN sq' = 1 .. m - n
        /\ \A j \in DOMAIN sq' : sq'[j] = sq[n + j]
        /\ \A j \in 1 .. n - 1 : Linked(sq[j])
    BY <1>1, <1>6 DEF Consumes
  <2>7. sq[1].kind = "socket" => stage'[sq[1]] = "cq"
    BY <1>6 DEF Consumes
  <2> HIDE DEF m
  <2>2. n + i \in DOMAIN sq /\ n + i > 1 /\ sq'[i] = sq[n + i] /\ i \in Nat /\ i >= 1
    BY <1>1, <2>1
  <2>3. stage[o] \in Over \/ sq[n + i - 1] = o
    BY <2>2 DEF BindInv
  <2>4. CASE stage[o] \in Over
    BY <1>3, <2>2, <2>4
  <2>5. CASE sq[n + i - 1] = o /\ i > 1
    <3>1. i - 1 \in DOMAIN sq' /\ n + (i - 1) = n + i - 1
      BY <2>1, <2>2, <2>5
    <3>2. sq'[i - 1] = sq[n + i - 1]
      BY <2>1, <3>1
    <3> QED BY <2>5, <3>2
  <2>6. CASE sq[n + i - 1] = o /\ i = 1
    <3>1. sq[n] = o /\ n \in DOMAIN sq /\ o.kind = "socket" /\ sq'[i] \in Requests
      BY <1>1, <1>2, <2>1, <2>2, <2>6
    <3>2. n = 1
      <4> SUFFICES ASSUME n # 1 PROVE FALSE
        OBVIOUS
      <4>1. n - 1 \in 1 .. n - 1 /\ n - 1 \in DOMAIN sq /\ (n - 1) + 1 = n
        BY <1>1, <2>1
      <4>2. Follows(sq[n - 1], sq[n])
        BY <2>1, <4>1 DEF LinksOwn
      <4> QED BY <3>1, <4>2 DEF Follows
    <3> QED BY <2>7, <3>1, <3>2 DEF Over
  <2> QED BY <2>2, <2>3, <2>4, <2>5, <2>6
<1> QED
  BY <1>4, <1>5, <1>6 DEF Effect, Issues, Succeeds, Ends, Reaps, kernelVars

(* A bind is never behind a link, and issued when its socket is done. *)
LEMMA BindStage ==
  ASSUME DirectInv, LinksOwn, BindInv, Effect, NEW r \in Requests, IsBind(r)
  PROVE  /\ stage'[r] \in {"none", "sq", "kernel"} \cup Over
         /\ stage'[r] \in {"kernel"} \cup Over => stage'[Opener(r.flow)] \in Over
<1> DEFINE o == Opener(r.flow)
<1>0. QueueTypes /\ Queues
  BY DEF DirectInv
<1>1. o \in Requests
  BY BindFacts DEF IsBind
<1>2. stage[o] \in Over => stage'[o] \in Over
  BY <1>0, <1>1, OverStays
<1>3. /\ stage[r] \in {"none", "sq", "kernel"} \cup Over
      /\ stage[r] \in {"kernel"} \cup Over => stage[o] \in Over
  BY DEF BindInv
<1> HIDE DEF o
<1>4. ASSUME \/ stage'[r] = stage[r]
             \/ stage'[r] = "sq"
             \/ stage[r] \in {"kernel", "cq"} /\ stage'[r] \in Over
      PROVE  /\ stage'[r] \in {"none", "sq", "kernel"} \cup Over
             /\ stage'[r] \in {"kernel"} \cup Over => stage'[o] \in Over
  BY <1>2, <1>3, <1>4 DEF Over
<1>5. ASSUME NEW s \in Seq(Requests), Pushes(s) PROVE stage'[r] = stage[r] \/ stage'[r] = "sq"
  BY <1>5 DEF Pushes
<1>6. ASSUME NEW n \in 1 .. Len(sq), Consumes(n)
      PROVE  stage'[r] = stage[r] \/ (stage'[r] = "kernel" /\ stage[o] \in Over)
  <2>1. CASE r = sq[1]
    <3>1. 1 \in DOMAIN sq
      BY <1>0, QueueFacts
    <3>2. stage[o] \in Over
      BY <2>1, <3>1 DEF BindInv, o
    <3>3. stage'[r] = "kernel"
      BY <1>6, <2>1 DEF Consumes, IsBind
    <3> QED BY <3>2, <3>3
  <2>2. CASE r # sq[1]
    <3>1. stage'[r] = stage[r] \/ \E i \in 2 .. n : r = sq[i]
      BY <1>6, <2>2 DEF Consumes
    <3>2. ASSUME NEW i \in 2 .. n, r = sq[i] PROVE FALSE
      <4>1. i - 1 \in 1 .. n - 1 /\ i - 1 \in DOMAIN sq /\ (i - 1) + 1 = i
        BY <1>0, <3>2, QueueFacts
      <4>2. Linked(sq[i - 1])
        BY <1>6, <4>1 DEF Consumes
      <4>3. Follows(sq[i - 1], sq[i])
        BY <4>1, <4>2 DEF LinksOwn
      <4> QED BY <3>2, <4>3 DEF Follows, IsBind
    <3> QED BY <3>1, <3>2
  <2> QED BY <2>1, <2>2
<1>7. ASSUME NEW x \in Requests, Issues(x) PROVE stage'[r] = stage[r]
  <2>1. r # x
    BY <1>3, <1>7 DEF Issues, Over
  <2> QED BY <1>7, <2>1 DEF Issues
<1>8. ASSUME NEW x \in Requests, Succeeds(x)
      PROVE  stage'[r] = stage[r] \/ (stage[r] = "kernel" /\ stage'[r] \in Over)
  BY <1>3, <1>8 DEF Succeeds, Over
<1>9. ASSUME NEW x \in Requests, NEW c \in Requests, Ends(x, c)
      PROVE  stage'[r] = stage[r] \/ (stage[r] = "kernel" /\ stage'[r] \in Over)
  BY <1>3, <1>9 DEF Ends, Over
<1>10. CASE Reaps \/ UNCHANGED kernelVars
  BY <1>10, <1>4 DEF Reaps, kernelVars, Over, o
<1>11. ASSUME NEW n \in 1 .. Len(sq), Consumes(n)
       PROVE  /\ stage'[r] \in {"none", "sq", "kernel"} \cup Over
              /\ stage'[r] \in {"kernel"} \cup Over => stage'[o] \in Over
  BY <1>2, <1>4, <1>6, <1>11
<1> QED BY <1>4, <1>5, <1>7, <1>8, <1>9, <1>10, <1>11 DEF Effect, o

(* A bind and a listen are not issued before the socket's entry is done. *)
LEMMA SocketFirst ==
  ASSUME ChainInv, BindInv, NEW r \in Requests, ~r.cancel, r.kind \in {"bind", "listen"},
         stage[r] \in {"kernel"} \cup Over
  PROVE  stage[Opener(r.flow)] \in Over
<1>1. CASE r.kind = "bind"
  BY <1>1 DEF BindInv, IsBind
<1>2. CASE r.kind = "listen"
  <2> DEFINE b == Operation(r.flow, "bind")
  <2>1. r.flow \in Binds /\ r.flow \in Flows
    BY BindFacts
  <2>2. Steps(r.flow) = <<"socket", "bind", "listen">>
    BY <2>1, FlowsAssumption DEF Steps
  <2>3. 2 \in DOMAIN Steps(r.flow) /\ Steps(r.flow)[2] = "bind"
    BY <2>2
  <2>4. "bind" \in StepsOf(r.flow)
    BY <2>3 DEF StepsOf
  <2>5. b \in Requests /\ IsBind(b) /\ b.flow = r.flow /\ Follows(b, r)
    BY <1>2, <2>1, <2>4, RequestFacts DEF Operation, IsBind, Follows
  <2>6. stage[b] \in Over
    BY <2>5 DEF ChainInv, AfterLinks
  <2> QED BY <2>5, <2>6 DEF BindInv
<1> QED BY <1>1, <1>2

(* A bind or listen that is issued finds the socket of its flow. *)
LEMMA OnOwnSocketStep ==
  ASSUME PolledInv, FilesInPlace, BindInv, OnOwnSocket, [Next]_vars
  PROVE  OnOwnSocket'
<1>1. QueueTypes /\ Queues /\ Effect
  BY StepEffects DEF DirectInv, PolledInv
<1> SUFFICES ASSUME NEW r \in Requests, ~r.cancel, r.kind \in {"bind", "listen"},
                    stage'[r] = "kernel" \/ result'[r] = "ok",
                    result'[Opener(r.flow)] = "ok"
             PROVE  used'[r] = r.flow
  BY DEF OnOwnSocket, Opener
<1> DEFINE o == Opener(r.flow)
<1>2. o \in Requests /\ r.flow \in Manual
  BY BindFacts
<1>3. CASE used'[r] = used[r] /\ (stage'[r] = "kernel" => stage[r] = "kernel")
  <2>1. stage[r] = "kernel" \/ result[r] = "ok"
    BY <1>1, <1>3, ResultChanges
  <2>2. stage[r] \in {"kernel"} \cup Over
    BY <2>1 DEF PolledInv, ChainInv, NoEarlyResult
  <2>3. stage[o] \in Over
    BY <2>2, SocketFirst DEF PolledInv
  <2>4. result[o] = "ok"
    BY <1>1, <1>2, <2>3, OverStays
  <2> QED BY <1>3, <2>1, <2>4 DEF OnOwnSocket
<1>4. CASE used'[r] = FileOf(r) /\ UNCHANGED result /\ stage[r] \in {"ready", "sq"}
  BY <1>2, <1>4, FindsOwnFile
<1> QED BY <1>1, <1>3, <1>4, UseChanges

(* The results of a listener that is kept stay as they are. *)
LEMMA ListenersOkStep ==
  ASSUME PolledInv, ListenersOk, [Next]_vars
  PROVE  ListenersOk'
<1>1. QueueTypes /\ Queues /\ Effect
  BY StepEffects DEF DirectInv, PolledInv
<1> SUFFICES ASSUME NEW f \in Binds, status'[f] = "open" PROVE AllOk(f)'
  BY DEF ListenersOk
<1>2. f \in Manual /\ f \in Flows /\ f \notin Streams /\ f \notin Others
  BY FlowsAssumption DEF Manual, Flows
<1>3. CASE status[f] = "open"
  <2> SUFFICES ASSUME NEW k \in StepsOf(f) PROVE result'[Operation(f, k)] = "ok"
    BY DEF AllOk
  <2>1. Operation(f, k) \in Requests /\ stage[Operation(f, k)] \in Over /\ result[Operation(f, k)] = "ok"
    BY <1>2, <1>3, RequestFacts DEF PolledInv, Answered, Over, ListenersOk, AllOk
  <2> QED BY <1>1, <2>1, OverStays
<1>4. CASE status[f] # "open"
  <2>1. status \in [Flows -> {"new", "busy", "open", "done", "dropped"}]
    BY DEF PolledInv, DirectInv, SlotInv, SlotTypes
  <2>2. PICK g \in Flows : Client(g) /\ status' # status
    BY <1>4 DEF Next, Enter, EnterEmpty, Reap, Kernel, vars
  <2>3. ~(Start(g) \/ StartWithoutSlot(g) \/ StartOther(g) \/ DropFlow(g) \/ DropListener(g) \/ DropStream(g))
    BY <1>2, <1>4, <2>1 DEF Start, StartWithoutSlot, StartOther, DropFlow, DropListener, DropStream
  <2>4. Finish(g)
    BY <2>2, <2>3 DEF Client
  <2>5. g = f /\ AllOk(f) /\ UNCHANGED result
    BY <1>2, <1>4, <2>1, <2>4 DEF Finish, kernelVars
  <2> QED BY <2>5 DEF AllOk
<1> QED BY <1>3, <1>4

(* The listener that bind_direct returns is bound, listens and is accepted *)
(* from on its own socket, though that socket's entry is not linked to the *)
(* bind (net/tcp.rs: bind_direct), if every flow with a slot is polled     *)
(* until it returns and none ends with a link.                             *)
THEOREM ListenersKept ==
  ASSUME Droppable \cap Manual = {}, Readers = {}, Writers = {}
  PROVE  Spec => []ListenerKeepsItsSocket
<1> DEFINE Inv == DirectInv /\ Answered /\ ChainInv /\ LinksOwn /\ FilesInPlace /\ SocketInv
<1>1. Init => Inv
  <2> SUFFICES ASSUME Init PROVE Inv
    OBVIOUS
  <2>1. DirectInv /\ ChainInv /\ Answered /\ LinksOwn
    BY DirectInit, ChainInit, AnsweredInit, LinksInit
  <2>2. sq = <<>> /\ \A r \in Requests : stage[r] = "none" /\ result[r] = "none"
    BY DEF Init, InitKernel
  <2>3. FilesInPlace
    BY <2>2, OpenerFacts DEF FilesInPlace, Holders
  <2>4. BindInv
    <3>1. DOMAIN sq = {}
      BY <2>2
    <3> QED BY <2>2, <3>1 DEF BindInv, Over
  <2>5. OnOwnSocket
    BY <2>2 DEF OnOwnSocket
  <2>6. ListenersOk
    BY FlowsAssumption DEF Init, ListenersOk, Flows
  <2> QED BY <2>1, <2>3, <2>4, <2>5, <2>6 DEF SocketInv
<1>2. Inv /\ [Next]_vars => Inv'
  <2> SUFFICES ASSUME Inv, [Next]_vars PROVE Inv'
    OBVIOUS
  <2>1. PolledInv /\ Effect
    BY PolledStep, StepEffects
  <2>2. DirectInv' /\ Answered' /\ ChainInv' /\ LinksOwn' /\ FilesInPlace'
    BY <2>1, DirectStep, AnsweredStep, ChainStep, LinksStep, FilesInPlaceStep
  <2>3. BindInv'
    <3>1. \A i \in DOMAIN sq' : IsBind(sq'[i]) =>
            \/ stage'[Opener(sq'[i].flow)] \in Over
            \/ i > 1 /\ sq'[i - 1] = Opener(sq'[i].flow)
      BY <2>1, BindQueue DEF SocketInv
    <3>2. \A r \in Requests : IsBind(r) =>
            /\ stage'[r] \in {"none", "sq", "kernel"} \cup Over
            /\ stage'[r] \in {"kernel"} \cup Over => stage'[Opener(r.flow)] \in Over
      BY <2>1, BindStage DEF SocketInv
    <3> QED BY <3>1, <3>2 DEF BindInv, Opener, IsBind
  <2>4. OnOwnSocket' /\ ListenersOk'
    BY <2>1, OnOwnSocketStep, ListenersOkStep DEF SocketInv
  <2> QED BY <2>2, <2>3, <2>4 DEF SocketInv
<1>3. Inv => ListenerKeepsItsSocket
  <2> SUFFICES ASSUME DirectInv, FilesInPlace, SocketInv, NEW f \in Binds, status[f] = "open"
               PROVE  /\ table[slot[f]] = f
                      /\ used[Operation(f, "bind")] = f
                      /\ used[Operation(f, "listen")] = f
    BY DEF ListenerKeepsItsSocket
  <2>1. f \in Holders /\ f \in Flows
    BY DEF Holders, Manual, Flows
  <2>2. Steps(f) = <<"socket", "bind", "listen">>
    BY FlowsAssumption DEF Steps
  <2>3. {"socket", "bind", "listen"} \subseteq StepsOf(f)
    <3>1. /\ 1 \in DOMAIN Steps(f) /\ 2 \in DOMAIN Steps(f) /\ 3 \in DOMAIN Steps(f)
          /\ Steps(f)[1] = "socket" /\ Steps(f)[2] = "bind" /\ Steps(f)[3] = "listen"
      BY <2>2
    <3> QED BY <3>1 DEF StepsOf
  <2>4. \A k \in {"socket", "bind", "listen"} :
          /\ Operation(f, k) \in Requests /\ result[Operation(f, k)] = "ok"
          /\ Operation(f, k).flow = f /\ Operation(f, k).kind = k /\ ~Operation(f, k).cancel
    BY <2>1, <2>3, RequestFacts DEF SocketInv, ListenersOk, AllOk, Operation
  <2>5. Opener(f) = Operation(f, "socket")
    BY DEF Opener
  <2> QED BY <2>1, <2>4, <2>5 DEF FilesInPlace, SocketInv, OnOwnSocket
<1> HIDE DEF Inv
<1> QED BY <1>1, <1>2, <1>3, PTL DEF Spec

===============================================================================
