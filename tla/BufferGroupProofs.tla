--------------------------- MODULE BufferGroupProofs ---------------------------
(***************************************************************************)
(* The invariants of a buffer group hold for any number of clients,        *)
(* buffers and ids, as long as the kernel accepts every buffer.            *)
(***************************************************************************)
EXTENDS BufferGroup, FiniteSetTheorems, TLAPS

(* Nothing has happened before the first buffers are submitted, and no     *)
(* client exists before they are in.                                       *)
Beginning ==
  /\ phase \in {"new", "filling"} =>
       cancelled = {} /\ \A c \in Clients : client[c] = "none"
  /\ phase = "new" => pending = {} /\ kernel = {} /\ \A i \in Ids : slab[i] = None
  /\ \A c \in Clients : client[c] = "none" => read[c] = "none"

(* RemoveBuffers asks for, and gets, as many buffers as the slab has. *)
Removal ==
  /\ phase \in {"asked", "answered"} => removed = Cardinality(Present)
  /\ phase = "released" => \A i \in Ids : slab[i] = None

GroupInv == TypeOK /\ IdsAccounted /\ OneOwner /\ GroupOutlivesReads /\ Beginning /\ Removal

-------------------------------------------------------------------------------
(***************************************************************************)
(* What an action makes of the slab is s, and then it may provide more.    *)
(* Fits(s): s agrees with the entries there are and with the results that  *)
(* are in after the action; Owns(s): and with the other owners then.       *)
(***************************************************************************)
Fits(s) ==
  /\ s \in [Ids -> Buffers \cup {None}]
  /\ \A p \in pending \cup kernel : s[p.id] = p.buf
  /\ \A c \in Clients : Carries(c)' =>
       /\ s[result'[c].id] # None
       /\ \A p \in pending \cup kernel : p.id # result'[c].id
       /\ \A d \in Clients : Carries(d)' /\ result'[d].id = result'[c].id => d = c
  /\ \A i \in Ids : s[i] # None =>
       \/ \E p \in pending \cup kernel : p.id = i
       \/ \E c \in Clients : Carries(c)' /\ result'[c].id = i

Owns(s) ==
  /\ \A i, j \in Ids : s[i] # None /\ s[i] = s[j] => i = j
  /\ \A b \in cancelled' : \A i \in Ids : s[i] # b
  /\ \A c \in Clients : held'[c] # None =>
       /\ held'[c] \notin cancelled'
       /\ \A i \in Ids : s[i] # held'[c]
       /\ \A d \in Clients : held'[d] = held'[c] => d = c

(* The slab hands out vacant keys, a different one for each buffer, and    *)
(* leaves the others as they are (ProvideBuffer::entry, put).              *)
LEMMA Provided ==
  ASSUME pending \in SUBSET Entry,
         NEW s \in [Ids -> Buffers \cup {None}], NEW bs \in SUBSET Buffers,
         Provide(s, bs)
  PROVE  /\ slab' \in [Ids -> Buffers \cup {None}]
         /\ pending \subseteq pending' /\ pending' \in SUBSET Entry
         /\ \A i \in Ids : s[i] # None => slab'[i] = s[i]
         /\ \A i \in Ids : slab'[i] # None /\ s[i] = None =>
              /\ slab'[i] \in bs
              /\ \E p \in pending' : p.id = i
         /\ \A i, j \in Ids : slab'[i] # None /\ s[i] = None /\ s[j] = None
              /\ slab'[i] = slab'[j] => i = j
         /\ \A p \in pending' \ pending :
              p.id \in Ids /\ s[p.id] = None /\ slab'[p.id] = p.buf
<1>1. PICK key \in [bs -> {i \in Ids : s[i] = None}] :
        /\ \A b, d \in bs : key[b] = key[d] => b = d
        /\ slab' = [i \in Ids |-> IF \E b \in bs : key[b] = i
                                  THEN CHOOSE b \in bs : key[b] = i ELSE s[i]]
        /\ pending' = pending \cup {[id |-> key[b], buf |-> b] : b \in bs}
  BY DEF Provide
<1>2. \A b \in bs : key[b] \in Ids /\ s[key[b]] = None
  BY <1>1
<1>3. \A i \in Ids : (\E b \in bs : key[b] = i) => slab'[i] \in bs /\ key[slab'[i]] = i
  BY <1>1
<1>4. \A i \in Ids : ~(\E b \in bs : key[b] = i) => slab'[i] = s[i]
  BY <1>1
<1>5. \A b \in bs : slab'[key[b]] = b
  BY <1>1, <1>2, <1>3
<1>6. slab' \in [Ids -> Buffers \cup {None}]
  <2>1. slab' = [i \in Ids |-> slab'[i]]
    BY <1>1
  <2> QED
    BY <2>1, <1>3, <1>4
<1>7. \A b \in bs : [id |-> key[b], buf |-> b] \in Entry
  BY <1>2 DEF Entry
<1>8. pending \subseteq pending' /\ pending' \in SUBSET Entry
  BY <1>1, <1>7
<1>9. \A i \in Ids : s[i] # None => slab'[i] = s[i]
  BY <1>2, <1>4
<1>10. \A i \in Ids : slab'[i] # None /\ s[i] = None => slab'[i] \in bs /\ key[slab'[i]] = i
  BY <1>3, <1>4
<1>11. \A i \in Ids : slab'[i] # None /\ s[i] = None =>
         slab'[i] \in bs /\ \E p \in pending' : p.id = i
  <2>1. \A b \in bs : \E p \in pending' : p.id = key[b]
    <3>1. \A b \in bs : [id |-> key[b], buf |-> b] \in pending'
      BY <1>1
    <3> QED
      BY <3>1
  <2> QED
    BY <2>1, <1>10
<1>12. \A p \in pending' \ pending :
         p.id \in Ids /\ s[p.id] = None /\ slab'[p.id] = p.buf
  BY <1>1, <1>2, <1>5
<1> QED
  BY <1>6, <1>8, <1>9, <1>10, <1>11, <1>12

(* Buffers that nobody has can be provided. *)
LEMMA ProvideFits ==
  ASSUME TypeOK, pending \cap kernel = {}, result' \in [Clients -> Results],
         None \notin cancelled', NEW s, NEW bs \in SUBSET Buffers,
         Fits(s), Owns(s), Provide(s, bs), kernel' = kernel,
         \A b \in bs : /\ b \notin cancelled'
                       /\ \A i \in Ids : s[i] # b
                       /\ \A c \in Clients : held'[c] # b
  PROVE  /\ slab' \in [Ids -> Buffers \cup {None}]
         /\ pending' \in SUBSET Entry
         /\ IdsAccounted' /\ OneOwner'
<1>1. s \in [Ids -> Buffers \cup {None}] /\ pending \in SUBSET Entry /\ kernel \in SUBSET Entry
  BY DEF Fits, TypeOK
<1>2. /\ slab' \in [Ids -> Buffers \cup {None}]
      /\ pending \subseteq pending' /\ pending' \in SUBSET Entry
      /\ \A i \in Ids : s[i] # None => slab'[i] = s[i]
      /\ \A i \in Ids : slab'[i] # None /\ s[i] = None =>
           /\ slab'[i] \in bs
           /\ \E p \in pending' : p.id = i
      /\ \A i, j \in Ids : slab'[i] # None /\ s[i] = None /\ s[j] = None
           /\ slab'[i] = slab'[j] => i = j
      /\ \A p \in pending' \ pending :
           p.id \in Ids /\ s[p.id] = None /\ slab'[p.id] = p.buf
  BY <1>1, Provided
<1>3. \A p \in pending \cup kernel :
        p.id \in Ids /\ p.buf \in Buffers /\ s[p.id] = p.buf /\ s[p.id] # None
  BY <1>1, BufferGroupAssumption DEF Fits, Entry
<1>4. \A p \in pending' \cup kernel' : slab'[p.id] = p.buf
  BY <1>2, <1>3
<1>5. pending' \cap kernel' = {}
  BY <1>2, <1>3
<1>6. \A c \in Clients : Carries(c)' => result'[c].id \in Ids /\ s[result'[c].id] # None
  BY DEF Fits, Carries, Results
<1>7. \A c \in Clients : Carries(c)' =>
        /\ slab'[result'[c].id] # None
        /\ \A p \in pending' \cup kernel' : p.id # result'[c].id
        /\ \A d \in Clients : Carries(d)' /\ result'[d].id = result'[c].id => d = c
  <2>1. SUFFICES ASSUME NEW c \in Clients, Carries(c)'
                 PROVE  /\ slab'[result'[c].id] # None
                        /\ \A p \in pending' \cup kernel' : p.id # result'[c].id
                        /\ \A d \in Clients : Carries(d)' /\ result'[d].id = result'[c].id
                             => d = c
    OBVIOUS
  <2>2. slab'[result'[c].id] # None
    BY <2>1, <1>2, <1>6
  <2>3. \A p \in pending' \ pending : p.id # result'[c].id
    BY <2>1, <1>2, <1>6
  <2>4. \A p \in pending \cup kernel : p.id # result'[c].id
    BY <2>1 DEF Fits
  <2>5. \A d \in Clients : Carries(d)' /\ result'[d].id = result'[c].id => d = c
    BY <2>1 DEF Fits
  <2> QED
    BY <2>2, <2>3, <2>4, <2>5
<1>8. \A i \in Ids : slab'[i] # None =>
        \/ \E p \in pending' \cup kernel' : p.id = i
        \/ \E c \in Clients : Carries(c)' /\ result'[c].id = i
  <2>1. SUFFICES ASSUME NEW i \in Ids, slab'[i] # None, s[i] # None
                 PROVE  \/ \E p \in pending' \cup kernel' : p.id = i
                        \/ \E c \in Clients : Carries(c)' /\ result'[c].id = i
    BY <1>2
  <2> QED
    BY <2>1, <1>2 DEF Fits
<1>9. IdsAccounted'
  BY <1>4, <1>5, <1>7, <1>8 DEF IdsAccounted
<1>10. \A i, j \in Ids : slab'[i] # None /\ slab'[i] = slab'[j] => i = j
  <2>1. SUFFICES ASSUME NEW i \in Ids, NEW j \in Ids, slab'[i] # None, slab'[i] = slab'[j]
                 PROVE  i = j
    OBVIOUS
  <2>2. CASE s[i] # None /\ s[j] # None
    BY <2>1, <2>2, <1>2 DEF Owns
  <2>3. CASE s[i] = None /\ s[j] = None
    BY <2>1, <2>3, <1>2
  <2>4. CASE s[i] = None /\ s[j] # None
    BY <2>1, <2>4, <1>2
  <2>5. CASE s[i] # None /\ s[j] = None
    BY <2>1, <2>5, <1>2
  <2> QED
    BY <2>2, <2>3, <2>4, <2>5
<1>11. \A i \in Ids : slab'[i] # None => slab'[i] \in bs \/ (s[i] # None /\ slab'[i] = s[i])
  BY <1>2
<1>12. \A b \in cancelled' : \A i \in Ids : slab'[i] # b
  <2>1. SUFFICES ASSUME NEW b \in cancelled', NEW i \in Ids, slab'[i] = b
                 PROVE  FALSE
    OBVIOUS
  <2> QED
    BY <2>1, <1>11 DEF Owns
<1>13. \A c \in Clients : held'[c] # None => \A i \in Ids : slab'[i] # held'[c]
  BY <1>11 DEF Owns
<1>14. OneOwner'
  BY <1>10, <1>12, <1>13 DEF OneOwner, Owns
<1> QED
  BY <1>2, <1>9, <1>14

(* An action that provides nothing. *)
LEMMA SlabBecomes ==
  ASSUME NEW s, Fits(s), Owns(s), slab' = s, UNCHANGED <<pending, kernel>>, pending \cap kernel = {}
  PROVE  slab' \in [Ids -> Buffers \cup {None}] /\ IdsAccounted' /\ OneOwner'
BY DEF Fits, Owns, IdsAccounted, OneOwner

(* What an action takes from the slab, it takes from results (take, and    *)
(* ReadGroup::cancel).                                                     *)
LEMMA WithoutFits ==
  ASSUME TypeOK, IdsAccounted, phase # "answered", result' = result, NEW ids,
         \A i \in ids \cap Ids : \E c \in Clients : Carries(c) /\ result[c].id = i,
         \A c \in Clients : Carries(c)' <=> Carries(c) /\ result[c].id \notin ids
  PROVE  Fits(Without(ids))
<1> DEFINE s == Without(ids)
<1>1. s \in [Ids -> Buffers \cup {None}] /\ \A i \in Ids : s[i] = IF i \in ids THEN None ELSE slab[i]
  BY DEF TypeOK, Without
<1>2. \A p \in pending \cup kernel : p.id \in Ids /\ slab[p.id] = p.buf
  BY DEF TypeOK, Entry, IdsAccounted
<1>3. \A p \in pending \cup kernel : p.id \notin ids
  BY <1>2 DEF IdsAccounted
<1>4. \A c \in Clients : Carries(c) => result[c].id \in Ids
  BY DEF TypeOK, Results, Carries
<1>5. \A c \in Clients : Carries(c)' =>
        /\ s[result'[c].id] # None
        /\ \A p \in pending \cup kernel : p.id # result'[c].id
        /\ \A d \in Clients : Carries(d)' /\ result'[d].id = result'[c].id => d = c
  BY <1>1, <1>4 DEF IdsAccounted
<1>6. \A i \in Ids : s[i] # None =>
        \/ \E p \in pending \cup kernel : p.id = i
        \/ \E c \in Clients : Carries(c)' /\ result'[c].id = i
  <2>1. SUFFICES ASSUME NEW i \in Ids, s[i] # None, ~ \E p \in pending \cup kernel : p.id = i
                 PROVE  \E c \in Clients : Carries(c)' /\ result'[c].id = i
    OBVIOUS
  <2>2. i \notin ids /\ slab[i] # None
    BY <2>1, <1>1
  <2>3. PICK c \in Clients : Carries(c) /\ result[c].id = i
    BY <2>1, <2>2 DEF IdsAccounted
  <2> QED
    BY <2>2, <2>3
<1> QED
  BY <1>1, <1>2, <1>3, <1>5, <1>6 DEF Fits

LEMMA SlabFits ==
  ASSUME TypeOK, IdsAccounted, phase # "answered", result' = result,
         \A c \in Clients : Carries(c)' <=> Carries(c)
  PROVE  Fits(slab)
<1>1. Without({}) = slab
  BY DEF Without, TypeOK
<1>2. Fits(Without({}))
  BY WithoutFits
<1> QED
  BY <1>1, <1>2

(* Those buffers become cancelled; clients may lose theirs. *)
LEMMA WithoutOwns ==
  ASSUME TypeOK, OneOwner, NEW ids,
         \A i \in ids \cap Ids : slab[i] # None,
         \A b \in cancelled' : b \in cancelled \/ \E i \in ids \cap Ids : b = slab[i],
         \A c \in Clients : held'[c] \in {held[c], None}
  PROVE  Owns(Without(ids)) /\ None \notin cancelled'
<1> DEFINE s == Without(ids)
<1>1. \A i \in Ids : s[i] = IF i \in ids THEN None ELSE slab[i]
  BY DEF Without
<1>2. \A b \in cancelled' : b # None
  BY BufferGroupAssumption DEF TypeOK
<1>3. \A i, j \in Ids : s[i] # None /\ s[i] = s[j] => i = j
  BY <1>1 DEF OneOwner
<1>4. \A b \in cancelled' : \A i \in Ids : s[i] # b
  BY <1>1, <1>2 DEF OneOwner
<1>5. \A c \in Clients : held'[c] # None =>
        /\ held'[c] \notin cancelled'
        /\ \A i \in Ids : s[i] # held'[c]
        /\ \A d \in Clients : held'[d] = held'[c] => d = c
  BY <1>1 DEF OneOwner
<1> QED
  BY <1>2, <1>3, <1>4, <1>5 DEF Owns

LEMMA SlabOwns ==
  ASSUME TypeOK, OneOwner, cancelled' \subseteq cancelled,
         \A c \in Clients : held'[c] \in {held[c], None}
  PROVE  Owns(slab) /\ None \notin cancelled'
<1>1. Without({}) = slab
  BY DEF Without, TypeOK
<1>2. Owns(Without({})) /\ None \notin cancelled'
  BY WithoutOwns
<1> QED
  BY <1>1, <1>2

(* ReadGroup::cancel, of results that are in. *)
LEMMA ConsumeKeeps ==
  ASSUME TypeOK, IdsAccounted, OneOwner, phase # "answered",
         NEW cs \in SUBSET Clients, Consume(cs), UNCHANGED <<pending, kernel, result>>,
         \A c \in cs : read[c] \in {"cqe", "stored"} /\ read'[c] = "none",
         \A c \in Clients \ cs :
           read'[c] \in {"cqe", "stored"} <=> read[c] \in {"cqe", "stored"},
         \A c \in Clients : held'[c] \in {held[c], None}
  PROVE  /\ slab' \in [Ids -> Buffers \cup {None}] /\ cancelled' \in SUBSET Buffers
         /\ IdsAccounted' /\ OneOwner'
<1> DEFINE ids == {result[c].id : c \in cs} \ {None}
<1>1. slab' = Without(ids) /\ cancelled' = cancelled \cup {slab[i] : i \in ids}
  BY DEF Consume
<1>2. \A i \in ids : \E c \in cs : Carries(c) /\ result[c].id = i
  BY DEF Carries
<1>3. \A c \in Clients : Carries(c) => result[c].id \in Ids /\ slab[result[c].id] # None
  BY DEF TypeOK, Results, Carries, IdsAccounted
<1>4. \A c \in Clients : Carries(c)' <=> Carries(c) /\ result[c].id \notin ids
  <2>1. \A c \in cs : Carries(c) => result[c].id \in ids
    BY DEF Carries
  <2>2. \A c \in Clients \ cs : Carries(c) => result[c].id \notin ids
    <3>1. SUFFICES ASSUME NEW c \in Clients \ cs, Carries(c), result[c].id \in ids
                   PROVE  FALSE
      OBVIOUS
    <3>2. PICK d \in cs : Carries(d) /\ result[d].id = result[c].id
      BY <1>2, <3>1
    <3> QED
      BY <3>1, <3>2 DEF IdsAccounted
  <2> QED
    BY <2>1, <2>2 DEF Carries
<1>5. Fits(Without(ids))
  <2> HIDE DEF ids
  <2> QED
    BY <1>2, <1>4, WithoutFits
<1>6. \A i \in ids : i \in Ids /\ slab[i] # None /\ slab[i] \in Buffers
  BY <1>2, <1>3 DEF TypeOK
<1>7. Owns(Without(ids))
  <2> HIDE DEF ids
  <2> QED
    BY <1>1, <1>6, WithoutOwns
<1>8. cancelled' \in SUBSET Buffers
  BY <1>1, <1>6 DEF TypeOK
<1> QED
  BY <1>1, <1>5, <1>7, <1>8, SlabBecomes DEF IdsAccounted

(* A client that reads, or may, has a group that is open. *)
LEMMA InUse ==
  ASSUME GroupInv, NEW c \in Clients, client[c] \in {"idle", "awaiting"} \/ read[c] # "none"
  PROVE  phase = "open"
BY DEF GroupInv, TypeOK, GroupOutlivesReads, Beginning

-------------------------------------------------------------------------------
(***************************************************************************)
(* The actions, one by one.                                                *)
(***************************************************************************)
LEMMA InitInv == Init => GroupInv
<1> SUFFICES ASSUME Init PROVE GroupInv
  OBVIOUS
<1>1. TypeOK
  BY DEF Init, TypeOK, Entry, Results, NoResult
<1>2. IdsAccounted /\ OneOwner /\ GroupOutlivesReads
  BY DEF Init, IdsAccounted, OneOwner, GroupOutlivesReads, Carries
<1>3. Beginning /\ Removal
  BY DEF Init, Beginning, Removal
<1> QED
  BY <1>1, <1>2, <1>3 DEF GroupInv

LEMMA WithBuffersInv == GroupInv /\ WithBuffers => GroupInv'
<1> SUFFICES ASSUME GroupInv, WithBuffers PROVE GroupInv'
  OBVIOUS
<1> USE DEF reads
<1>1. TypeOK /\ IdsAccounted /\ OneOwner /\ GroupOutlivesReads /\ Beginning /\ Removal
  BY DEF GroupInv
<1>2. /\ phase = "new" /\ phase' = "filling" /\ Provide(slab, Initial)
      /\ UNCHANGED <<cancelled, kernel, client, held, unread, read, result, removed, panic>>
  BY DEF WithBuffers
<1>3. cancelled = {} /\ (\A i \in Ids : slab[i] = None) /\ \A c \in Clients : client[c] = "none"
  BY <1>1, <1>2 DEF Beginning
<1>4. Initial \in SUBSET Buffers /\ None \notin Buffers
  BY BufferGroupAssumption
<1>5. \A c \in Clients : held[c] = None
  BY <1>1, <1>3 DEF TypeOK
<1>6. Fits(slab)
  BY <1>1, <1>2, SlabFits DEF Carries
<1>7. Owns(slab) /\ None \notin cancelled'
  BY <1>1, <1>2, SlabOwns
<1>8. /\ slab' \in [Ids -> Buffers \cup {None}] /\ pending' \in SUBSET Entry
      /\ IdsAccounted' /\ OneOwner'
  <2>1. \A b \in Initial : /\ b \notin cancelled'
                           /\ \A i \in Ids : slab[i] # b
                           /\ \A c \in Clients : held'[c] # b
    BY <1>2, <1>3, <1>4, <1>5
  <2>2. pending \cap kernel = {} /\ result' \in [Clients -> Results]
    BY <1>1, <1>2 DEF IdsAccounted, TypeOK
  <2> QED
    BY <1>1, <1>2, <1>4, <1>6, <1>7, <2>1, <2>2, ProvideFits
<1>9. TypeOK'
  BY <1>1, <1>2, <1>8 DEF TypeOK
<1>10. GroupOutlivesReads' /\ Beginning' /\ Removal'
  BY <1>1, <1>2, <1>3 DEF GroupOutlivesReads, Beginning, Removal
<1> QED
  BY <1>8, <1>9, <1>10 DEF GroupInv

(* Actions that leave the slab and what is in the kernel alone. *)
LEMMA PhasesInv ==
  ASSUME IsFiniteSet(Ids)
  PROVE  GroupInv /\ (Filled \/ DropFilling \/ Ask) => GroupInv'
<1> SUFFICES ASSUME GroupInv, Filled \/ DropFilling \/ Ask PROVE GroupInv'
  OBVIOUS
<1> USE DEF reads
<1>1. TypeOK /\ IdsAccounted /\ OneOwner /\ GroupOutlivesReads /\ Beginning /\ Removal
  BY DEF GroupInv
<1>2. /\ phase \in {"filling", "dropped"} /\ phase' \in {"open", "dropped", "asked"}
      /\ UNCHANGED <<slab, cancelled, pending, kernel, held, unread, read, result, panic>>
  BY DEF Filled, DropFilling, Ask
<1>3. \A c \in Clients : read[c] = "none"
  BY <1>1, <1>2 DEF GroupOutlivesReads, Beginning
<1>4. Fits(slab)
  BY <1>1, <1>2, SlabFits DEF Carries
<1>5. Owns(slab)
  BY <1>1, <1>2, SlabOwns
<1>6. IdsAccounted' /\ OneOwner'
  BY <1>1, <1>2, <1>4, <1>5, SlabBecomes DEF IdsAccounted
<1>7. CASE Filled
  <2>1. TypeOK'
    BY <1>1, <1>3, <1>7 DEF Filled, TypeOK
  <2>2. GroupOutlivesReads' /\ Beginning' /\ Removal'
    BY <1>1, <1>3, <1>7 DEF Filled, GroupOutlivesReads, Beginning, Removal
  <2> QED
    BY <1>6, <2>1, <2>2 DEF GroupInv
<1>8. CASE DropFilling
  <2>1. TypeOK'
    BY <1>1, <1>8 DEF DropFilling, TypeOK
  <2>2. GroupOutlivesReads' /\ Beginning' /\ Removal'
    BY <1>1, <1>3, <1>8 DEF DropFilling, GroupOutlivesReads, Beginning, Removal
  <2> QED
    BY <1>6, <2>1, <2>2 DEF GroupInv
<1>9. CASE Ask
  <2>1. Cardinality(Present) \in Nat
    BY FS_Subset, FS_CardinalityType DEF Present
  <2>2. TypeOK'
    BY <1>1, <1>9, <2>1 DEF Ask, TypeOK
  <2>3. Present' = Present
    BY <1>9 DEF Ask, Present
  <2>4. GroupOutlivesReads' /\ Beginning' /\ Removal'
    BY <1>1, <1>3, <1>9, <2>3 DEF Ask, GroupOutlivesReads, Beginning, Removal
  <2> QED
    BY <1>6, <2>2, <2>4 DEF GroupInv
<1> QED
  BY <1>7, <1>8, <1>9

(* While the group is open, phases have nothing to say. *)
LEMMA OpenInv ==
  ASSUME phase' = "open", TypeOK', IdsAccounted', OneOwner',
         \A c \in Clients : client'[c] = "none" => read'[c] = "none"
  PROVE  GroupInv'
BY DEF GroupInv, GroupOutlivesReads, Beginning, Removal

LEMMA InsertNewInv ==
  ASSUME GroupInv, NEW c \in Clients, InsertNew(c)
  PROVE  GroupInv'
<1> USE DEF reads
<1>1. TypeOK /\ IdsAccounted /\ OneOwner /\ Beginning
  BY DEF GroupInv
<1>2. PICK b \in Buffers :
        /\ b \notin cancelled /\ \A i \in Ids : slab[i] # b
        /\ \A d \in Clients : held[d] # b
        /\ Provide(slab, {b})
  BY DEF InsertNew
<1>3. phase = "open"
  BY InUse DEF InsertNew
<1>4. UNCHANGED <<cancelled, kernel, client, held, unread, read, result, phase, removed, panic>>
  BY DEF InsertNew
<1>5. Fits(slab)
  BY <1>1, <1>3, <1>4, SlabFits DEF Carries
<1>6. Owns(slab) /\ None \notin cancelled'
  BY <1>1, <1>4, SlabOwns
<1>7. pending \cap kernel = {} /\ result' \in [Clients -> Results]
  BY <1>1, <1>4 DEF IdsAccounted, TypeOK
<1>8. /\ slab' \in [Ids -> Buffers \cup {None}] /\ pending' \in SUBSET Entry
      /\ IdsAccounted' /\ OneOwner'
  BY <1>1, <1>2, <1>4, <1>5, <1>6, <1>7, ProvideFits
<1>9. TypeOK'
  BY <1>1, <1>4, <1>8 DEF TypeOK
<1> QED
  BY <1>1, <1>3, <1>4, <1>8, <1>9, OpenInv DEF Beginning

LEMMA GiveBackInv ==
  ASSUME GroupInv, NEW c \in Clients, GiveBack(c)
  PROVE  GroupInv'
<1>1. TypeOK /\ IdsAccounted /\ OneOwner /\ Beginning
  BY DEF GroupInv
<1>2. phase = "open"
  BY InUse DEF GiveBack
<1>3. /\ Provide(slab, {held[c]}) /\ held[c] # None
      /\ held' = [held EXCEPT ![c] = None] /\ unread' = [unread EXCEPT ![c] = FALSE]
      /\ UNCHANGED <<cancelled, kernel, client, read, result, phase, removed, panic>>
  BY DEF GiveBack
<1>4. \A d \in Clients : held'[d] = IF d = c THEN None ELSE held[d]
  BY <1>1, <1>3 DEF TypeOK
<1>5. Fits(slab)
  BY <1>1, <1>2, <1>3, SlabFits DEF Carries
<1>6. Owns(slab) /\ None \notin cancelled'
  BY <1>1, <1>3, <1>4, SlabOwns
<1>7. pending \cap kernel = {} /\ result' \in [Clients -> Results] /\ {held[c]} \in SUBSET Buffers
  BY <1>1, <1>3 DEF IdsAccounted, TypeOK
<1>8. /\ held[c] \notin cancelled'
      /\ \A i \in Ids : slab[i] # held[c]
      /\ \A d \in Clients : held'[d] # held[c]
  BY <1>1, <1>3, <1>4 DEF OneOwner
<1>9. /\ slab' \in [Ids -> Buffers \cup {None}] /\ pending' \in SUBSET Entry
      /\ IdsAccounted' /\ OneOwner'
  BY <1>1, <1>3, <1>5, <1>6, <1>7, <1>8, ProvideFits
<1>10. TypeOK'
  BY <1>1, <1>3, <1>4, <1>9 DEF TypeOK
<1> QED
  BY <1>1, <1>2, <1>3, <1>9, <1>10, OpenInv DEF Beginning

LEMMA KeepInv ==
  ASSUME GroupInv, NEW c \in Clients, Keep(c)
  PROVE  GroupInv'
<1>1. TypeOK /\ IdsAccounted /\ OneOwner /\ Beginning
  BY DEF GroupInv
<1>2. phase = "open"
  BY InUse DEF Keep
<1>3. /\ held' = [held EXCEPT ![c] = None] /\ unread' = [unread EXCEPT ![c] = FALSE]
      /\ UNCHANGED <<slab, cancelled, pending, kernel, client, read, result, phase, removed, panic>>
  BY DEF Keep
<1>4. \A d \in Clients : held'[d] = IF d = c THEN None ELSE held[d]
  BY <1>1, <1>3 DEF TypeOK
<1>5. Fits(slab)
  BY <1>1, <1>2, <1>3, SlabFits DEF Carries
<1>6. Owns(slab)
  BY <1>1, <1>3, <1>4, SlabOwns
<1>7. IdsAccounted' /\ OneOwner'
  BY <1>1, <1>3, <1>5, <1>6, SlabBecomes DEF IdsAccounted
<1>8. TypeOK'
  BY <1>1, <1>3, <1>4 DEF TypeOK
<1> QED
  BY <1>1, <1>2, <1>3, <1>7, <1>8, OpenInv DEF Beginning

LEMMA ReadInv ==
  ASSUME GroupInv, NEW c \in Clients, Read(c)
  PROVE  GroupInv'
<1>1. TypeOK /\ IdsAccounted /\ OneOwner /\ Beginning
  BY DEF GroupInv
<1>2. phase = "open"
  BY InUse DEF Read
<1>3. /\ read[c] = "none" /\ Provide(slab, Recycled(c)) /\ cancelled' = {}
      /\ held' = [held EXCEPT ![c] = None]
      /\ client' = [client EXCEPT ![c] = "awaiting"]
      /\ read' = [read EXCEPT ![c] = "queued"]
      /\ UNCHANGED <<kernel, unread, result, phase, removed, panic>>
  BY DEF Read
<1>4. \A d \in Clients : /\ held'[d] = IF d = c THEN None ELSE held[d]
                         /\ read'[d] = IF d = c THEN "queued" ELSE read[d]
                         /\ client'[d] = IF d = c THEN "awaiting" ELSE client[d]
  BY <1>1, <1>3 DEF TypeOK
<1>5. Fits(slab)
  <2>1. \A d \in Clients : Carries(d)' <=> Carries(d)
    BY <1>3, <1>4 DEF Carries
  <2> QED
    BY <2>1, <1>1, <1>2, <1>3, SlabFits
<1>6. Owns(slab) /\ None \notin cancelled'
  BY <1>1, <1>3, <1>4, SlabOwns
<1>7. /\ pending \cap kernel = {} /\ result' \in [Clients -> Results]
      /\ Recycled(c) \in SUBSET Buffers
  BY <1>1, <1>3 DEF IdsAccounted, TypeOK, Recycled
<1>8. \A b \in Recycled(c) : /\ b \notin cancelled'
                             /\ \A i \in Ids : slab[i] # b
                             /\ \A d \in Clients : held'[d] # b
  <2>1. SUFFICES ASSUME NEW b \in Recycled(c)
                 PROVE  (\A i \in Ids : slab[i] # b) /\ \A d \in Clients : held'[d] # b
    BY <1>3
  <2>2. b # None
    BY <1>7, BufferGroupAssumption
  <2>3. CASE b \in cancelled
    BY <1>1, <1>4, <2>2, <2>3 DEF OneOwner
  <2>4. CASE b = held[c]
    BY <1>1, <1>4, <2>2, <2>4 DEF OneOwner
  <2> QED
    BY <2>3, <2>4 DEF Recycled
<1>9. /\ slab' \in [Ids -> Buffers \cup {None}] /\ pending' \in SUBSET Entry
      /\ IdsAccounted' /\ OneOwner'
  BY <1>1, <1>3, <1>5, <1>6, <1>7, <1>8, ProvideFits
<1>10. TypeOK'
  BY <1>1, <1>3, <1>4, <1>9 DEF TypeOK
<1> QED
  BY <1>1, <1>2, <1>3, <1>4, <1>9, <1>10, OpenInv DEF Beginning

LEMMA FinishInv ==
  ASSUME GroupInv, NEW c \in Clients, Finish(c)
  PROVE  GroupInv'
<1> DEFINE ids == {result[c].id}
<1>1. TypeOK /\ IdsAccounted /\ OneOwner /\ Beginning
  BY DEF GroupInv
<1>2. phase = "open"
  BY InUse DEF Finish
<1>3. /\ client[c] = "awaiting" /\ read[c] = "stored"
      /\ client' = [client EXCEPT ![c] = "idle"]
      /\ read' = [read EXCEPT ![c] = "none"]
      /\ UNCHANGED <<cancelled, kernel, result, phase, removed, panic>>
  BY DEF Finish
<1>4. \A d \in Clients : /\ read'[d] = IF d = c THEN "none" ELSE read[d]
                         /\ client'[d] = IF d = c THEN "idle" ELSE client[d]
  BY <1>1, <1>3 DEF TypeOK
<1>5. held[c] = None
  BY <1>1, <1>3 DEF TypeOK
<1>6. result[c].id # None =>
        /\ Carries(c) /\ result[c].id \in Ids
        /\ slab[result[c].id] # None /\ slab[result[c].id] \in Buffers
  BY <1>1, <1>3 DEF TypeOK, Results, Carries, IdsAccounted
<1>7. Fits(Without(ids))
  <2>1. \A i \in ids \cap Ids : \E d \in Clients : Carries(d) /\ result[d].id = i
    BY <1>6, BufferGroupAssumption
  <2>2. \A d \in Clients : Carries(d)' <=> Carries(d) /\ result[d].id \notin ids
    BY <1>1, <1>3, <1>4, <1>6 DEF Carries, IdsAccounted
  <2> HIDE DEF ids
  <2> QED
    BY <1>1, <1>2, <1>3, <2>1, <2>2, WithoutFits
<1>8. /\ pending \cap kernel = {} /\ result' \in [Clients -> Results]
      /\ None \notin cancelled' /\ Taken(c) \in Buffers \cup {None}
      /\ Taken(c) # None => result[c].id # None /\ Taken(c) = slab[result[c].id]
  BY <1>1, <1>3, <1>6, BufferGroupAssumption DEF IdsAccounted, TypeOK, Taken
<1>9. /\ slab' \in [Ids -> Buffers \cup {None}] /\ pending' \in SUBSET Entry
      /\ held' \in [Clients -> Buffers \cup {None}] /\ unread' \in [Clients -> BOOLEAN]
      /\ \A d \in Clients : held'[d] # None => d = c \/ held'[d] = held[d]
      /\ IdsAccounted' /\ OneOwner'
  <2>1. CASE result[c].ret = "error" /\ c \notin Adapters
    <3>1. Provide(Without(ids), {Taken(c)} \ {None}) /\ UNCHANGED <<held, unread>>
      BY <2>1 DEF Finish
    <3>2. Owns(Without(ids))
      <4>1. \A i \in ids \cap Ids : slab[i] # None
        BY <1>6, BufferGroupAssumption
      <4> HIDE DEF ids
      <4> QED
        BY <1>1, <1>3, <3>1, <4>1, WithoutOwns
    <3>3. \A b \in {Taken(c)} \ {None} :
            /\ b \notin cancelled'
            /\ \A i \in Ids : Without(ids)[i] # b
            /\ \A d \in Clients : held'[d] # b
      BY <1>1, <1>3, <1>6, <1>8, <3>1 DEF OneOwner, Without
    <3>4. /\ slab' \in [Ids -> Buffers \cup {None}] /\ pending' \in SUBSET Entry
          /\ IdsAccounted' /\ OneOwner'
      <4> DEFINE bs == {Taken(c)} \ {None}
      <4>1. bs \in SUBSET Buffers
        BY <1>8
      <4> HIDE DEF ids, bs
      <4> QED
        BY <1>1, <1>3, <1>7, <1>8, <3>1, <3>2, <3>3, <4>1, ProvideFits DEF bs
    <3> QED
      BY <1>1, <3>1, <3>4 DEF TypeOK
  <2>2. CASE ~(result[c].ret = "error" /\ c \notin Adapters)
    <3>1. /\ slab' = Without(ids) /\ held' = [held EXCEPT ![c] = Taken(c)]
          /\ unread' = [unread EXCEPT ![c] = result[c].ret = "data"]
          /\ UNCHANGED pending
      BY <2>2 DEF Finish
    <3>2. \A d \in Clients : held'[d] = IF d = c THEN Taken(c) ELSE held[d]
      BY <1>1, <3>1 DEF TypeOK
    <3>3. Owns(Without(ids))
      <4>1. \A i \in Ids : Without(ids)[i] = IF i \in ids THEN None ELSE slab[i]
        BY DEF Without
      <4>2. \A i, j \in Ids : Without(ids)[i] # None /\ Without(ids)[i] = Without(ids)[j] => i = j
        BY <1>1, <4>1 DEF OneOwner
      <4>3. \A b \in cancelled' : \A i \in Ids : Without(ids)[i] # b
        BY <1>1, <1>3, <1>8, <4>1 DEF OneOwner
      <4>4. Taken(c) # None =>
              /\ Taken(c) \notin cancelled'
              /\ \A i \in Ids : Without(ids)[i] # Taken(c)
              /\ \A d \in Clients : held[d] # Taken(c)
        <5>1. SUFFICES ASSUME Taken(c) # None
                       PROVE  /\ Taken(c) \notin cancelled'
                              /\ \A i \in Ids : Without(ids)[i] # Taken(c)
                              /\ \A d \in Clients : held[d] # Taken(c)
          OBVIOUS
        <5>2. /\ result[c].id \in Ids /\ slab[result[c].id] = Taken(c)
              /\ cancelled' = cancelled
          BY <1>3, <1>6, <1>8, <5>1
        <5>3. Taken(c) \notin cancelled' /\ \A d \in Clients : held[d] # Taken(c)
          BY <1>1, <5>1, <5>2 DEF OneOwner
        <5>4. \A i \in Ids : slab[i] = Taken(c) => i \in ids
          BY <1>1, <5>1, <5>2 DEF OneOwner
        <5> QED
          BY <4>1, <5>1, <5>3, <5>4
      <4>5. \A d \in Clients : held[d] # None =>
              /\ held[d] \notin cancelled'
              /\ \A i \in Ids : Without(ids)[i] # held[d]
              /\ \A e \in Clients : held[e] = held[d] => e = d
        BY <1>1, <1>3, <4>1 DEF OneOwner
      <4> QED
        BY <3>2, <4>2, <4>3, <4>4, <4>5 DEF Owns
    <3>4. slab' \in [Ids -> Buffers \cup {None}] /\ IdsAccounted' /\ OneOwner'
      <4> HIDE DEF ids
      <4> QED
        BY <1>3, <1>7, <1>8, <3>1, <3>3, SlabBecomes
    <3> QED
      BY <1>1, <1>8, <3>1, <3>2, <3>4 DEF TypeOK
  <2> QED
    BY <2>1, <2>2
<1>10. TypeOK'
  BY <1>1, <1>3, <1>4, <1>9 DEF TypeOK
<1> QED
  BY <1>1, <1>2, <1>3, <1>4, <1>9, <1>10, OpenInv DEF Beginning

LEMMA DropReadInv ==
  ASSUME GroupInv, NEW c \in Clients, DropRead(c)
  PROVE  GroupInv'
<1> DEFINE cs == IF read[c] = "stored" THEN {c} ELSE {}
<1>1. TypeOK /\ IdsAccounted /\ OneOwner /\ Beginning
  BY DEF GroupInv
<1>2. phase = "open"
  BY InUse DEF DropRead
<1>3. /\ client' = [client EXCEPT ![c] = "idle"] /\ Consume(cs)
      /\ read' = [read EXCEPT ![c] = IF @ = "stored" THEN "none" ELSE @]
      /\ UNCHANGED <<pending, kernel, held, unread, result, phase, removed, panic>>
  BY DEF DropRead, Cancel
<1>4. \A d \in Clients :
        /\ read'[d] = IF d \in cs THEN "none" ELSE read[d]
        /\ client'[d] = IF d = c THEN "idle" ELSE client[d]
  BY <1>1, <1>3 DEF TypeOK
<1>5. cs \in SUBSET Clients /\ \A d \in cs : read[d] = "stored"
  OBVIOUS
<1>6. /\ slab' \in [Ids -> Buffers \cup {None}] /\ cancelled' \in SUBSET Buffers
      /\ IdsAccounted' /\ OneOwner'
  <2> HIDE DEF cs
  <2> QED
    BY <1>1, <1>2, <1>3, <1>4, <1>5, ConsumeKeeps
<1>7. TypeOK'
  BY <1>1, <1>3, <1>4, <1>6 DEF TypeOK
<1> QED
  BY <1>1, <1>2, <1>3, <1>4, <1>6, <1>7, OpenInv DEF Beginning

(* Whether or not the last Rc was dropped. *)
LEMMA DropInnerInv ==
  ASSUME phase = "open", DropInner, TypeOK', IdsAccounted', OneOwner',
         \A c \in Clients : client'[c] = "none" => read'[c] = "none"
  PROVE  GroupInv'
<1>1. CASE \E c \in Clients : Holds(c)
  BY <1>1, OpenInv DEF DropInner
<1>2. CASE ~ \E c \in Clients : Holds(c)
  <2>1. phase' = "dropped"
    BY <1>2 DEF DropInner
  <2>2. \A c \in Clients : read'[c] = "none" /\ client'[c] \in {"none", "gone"}
    BY <1>2 DEF Holds, TypeOK
  <2> QED
    BY <2>1, <2>2 DEF GroupInv, GroupOutlivesReads, Beginning, Removal
<1> QED
  BY <1>1, <1>2

LEMMA DropCloneInv ==
  ASSUME GroupInv, NEW c \in Clients, DropClone(c)
  PROVE  GroupInv'
<1> DEFINE cs == IF read[c] = "stored" THEN {c} ELSE {}
<1>1. TypeOK /\ IdsAccounted /\ OneOwner /\ Beginning
  BY DEF GroupInv
<1>2. phase = "open"
  BY InUse DEF DropClone
<1>3. /\ client' = [client EXCEPT ![c] = "gone"] /\ held' = [held EXCEPT ![c] = None]
      /\ unread' = [unread EXCEPT ![c] = FALSE] /\ Consume(cs)
      /\ read' = [read EXCEPT ![c] = IF @ = "stored" THEN "none" ELSE @]
      /\ DropInner
      /\ UNCHANGED <<pending, kernel, result, removed, panic>>
  BY DEF DropClone, Cancel
<1>4. \A d \in Clients :
        /\ read'[d] = IF d \in cs THEN "none" ELSE read[d]
        /\ client'[d] = IF d = c THEN "gone" ELSE client[d]
        /\ held'[d] = IF d = c THEN None ELSE held[d]
  BY <1>1, <1>3 DEF TypeOK
<1>5. cs \in SUBSET Clients /\ \A d \in cs : read[d] = "stored"
  OBVIOUS
<1>6. /\ slab' \in [Ids -> Buffers \cup {None}] /\ cancelled' \in SUBSET Buffers
      /\ IdsAccounted' /\ OneOwner'
  <2> HIDE DEF cs
  <2> QED
    BY <1>1, <1>2, <1>3, <1>4, <1>5, ConsumeKeeps
<1>7. phase' \in {phase, "dropped"}
  BY <1>3 DEF DropInner
<1>8. TypeOK'
  BY <1>1, <1>3, <1>4, <1>6, <1>7 DEF TypeOK
<1> QED
  BY <1>1, <1>2, <1>3, <1>4, <1>6, <1>8, DropInnerInv DEF Beginning

LEMMA ReapInv == GroupInv /\ Reap => GroupInv'
<1> SUFFICES ASSUME GroupInv, Reap PROVE GroupInv'
  OBVIOUS
<1> DEFINE done == {c \in Clients : read[c] = "cqe"}
           dead == {c \in done : client[c] # "awaiting"}
<1>1. TypeOK /\ IdsAccounted /\ OneOwner /\ Beginning
  BY DEF GroupInv
<1>2. /\ done # {} /\ Consume(dead)
      /\ read' = [c \in Clients |-> IF c \in dead THEN "none"
                                    ELSE IF c \in done THEN "stored" ELSE read[c]]
      /\ DropInner
      /\ UNCHANGED <<client, pending, kernel, held, unread, result, removed, panic>>
  BY DEF Reap
<1>3. phase = "open"
  BY <1>2, InUse
<1>4. \A c \in Clients :
        /\ c \in dead => read[c] = "cqe" /\ read'[c] = "none"
        /\ c \notin dead => (read'[c] \in {"cqe", "stored"} <=> read[c] \in {"cqe", "stored"})
        /\ client[c] = "none" => read'[c] = "none"
  BY <1>1, <1>2 DEF Beginning
<1>5. dead \in SUBSET Clients
  OBVIOUS
<1>6. /\ slab' \in [Ids -> Buffers \cup {None}] /\ cancelled' \in SUBSET Buffers
      /\ IdsAccounted' /\ OneOwner'
  <2> HIDE DEF dead
  <2> QED
    BY <1>1, <1>2, <1>3, <1>4, <1>5, ConsumeKeeps
<1>7. phase' \in {phase, "dropped"}
  BY <1>2 DEF DropInner
<1>8. TypeOK'
  BY <1>1, <1>2, <1>6, <1>7 DEF TypeOK
<1> QED
  BY <1>2, <1>3, <1>4, <1>6, <1>8, DropInnerInv

LEMMA CompleteInv ==
  ASSUME GroupInv, NEW c \in Clients, Complete(c)
  PROVE  GroupInv'
<1>1. TypeOK /\ IdsAccounted /\ OneOwner /\ Beginning
  BY DEF GroupInv
<1>2. /\ read[c] = "kernel" /\ read' = [read EXCEPT ![c] = "cqe"]
      /\ UNCHANGED <<slab, cancelled, pending, client, held, unread, phase, removed, panic>>
  BY DEF Complete
<1>3. phase = "open"
  BY <1>2, InUse
<1>4. \A d \in Clients : read'[d] = IF d = c THEN "cqe" ELSE read[d]
  BY <1>1, <1>2 DEF TypeOK
<1>5. OneOwner'
  BY <1>1, <1>2 DEF OneOwner
<1>6. CASE \E p \in kernel, r \in {"data", "eof", "error"} :
             /\ result' = [result EXCEPT ![c] = [id |-> p.id, ret |-> r]]
             /\ kernel' = kernel \ {p}
  <2>1. PICK p \in kernel, r \in {"data", "eof", "error"} :
          /\ result' = [result EXCEPT ![c] = [id |-> p.id, ret |-> r]]
          /\ kernel' = kernel \ {p}
    BY <1>6
  <2>2. p.id \in Ids /\ p.id # None /\ slab[p.id] # None
    BY <1>1, <2>1, BufferGroupAssumption DEF TypeOK, IdsAccounted, Entry
  <2>3. \A q \in (pending \cup kernel) \ {p} : q.id # p.id
    BY <1>1, <2>1 DEF TypeOK, IdsAccounted, Entry
  <2>4. \A d \in Clients : result'[d] = IF d = c THEN [id |-> p.id, ret |-> r] ELSE result[d]
    BY <1>1, <2>1 DEF TypeOK
  <2>5. p \notin pending
    BY <1>1, <2>1 DEF IdsAccounted
  <2>6. \A d \in Clients : Carries(d)' <=> d = c \/ Carries(d)
    BY <1>4, <2>2, <2>4 DEF Carries
  <2>7. ~Carries(c)
    BY <1>2 DEF Carries
  <2>8. TypeOK'
    <3>1. [id |-> p.id, ret |-> r] \in Results
      BY <2>1, <2>2 DEF Results
    <3> QED
      BY <1>1, <1>2, <1>4, <2>1, <3>1 DEF TypeOK
  <2>9. IdsAccounted'
    <3>1. /\ \A q \in pending' \cup kernel' : slab'[q.id] = q.buf
          /\ pending' \cap kernel' = {}
      BY <1>1, <1>2, <2>1 DEF IdsAccounted
    <3>2. \A d \in Clients : Carries(d)' =>
            /\ slab'[result'[d].id] # None
            /\ \A q \in pending' \cup kernel' : q.id # result'[d].id
            /\ \A e \in Clients : Carries(e)' /\ result'[e].id = result'[d].id => e = d
      <4>1. SUFFICES ASSUME NEW d \in Clients, Carries(d)'
                     PROVE  /\ slab'[result'[d].id] # None
                            /\ \A q \in pending' \cup kernel' : q.id # result'[d].id
                            /\ \A e \in Clients :
                                 Carries(e)' /\ result'[e].id = result'[d].id => e = d
        OBVIOUS
      <4>2. \A e \in Clients : Carries(e) => result[e].id # p.id
        BY <1>1, <2>1 DEF IdsAccounted
      <4>3. CASE d = c
        BY <1>2, <2>1, <2>2, <2>3, <2>4, <2>5, <2>6, <4>2, <4>3
      <4>4. CASE d # c
        BY <1>1, <1>2, <2>1, <2>4, <2>6, <4>1, <4>2, <4>4 DEF IdsAccounted
      <4> QED
        BY <4>3, <4>4
    <3>3. \A i \in Ids : slab'[i] # None =>
            \/ \E q \in pending' \cup kernel' : q.id = i
            \/ \E d \in Clients : Carries(d)' /\ result'[d].id = i
      <4>1. SUFFICES ASSUME NEW i \in Ids, slab[i] # None, i # p.id
                     PROVE  \/ \E q \in pending' \cup kernel' : q.id = i
                            \/ \E d \in Clients : Carries(d)' /\ result'[d].id = i
        BY <1>2, <2>4, <2>6
      <4>2. CASE \E q \in pending \cup kernel : q.id = i
        BY <1>2, <2>1, <4>1, <4>2
      <4>3. CASE \E d \in Clients : Carries(d) /\ result[d].id = i
        BY <2>4, <2>6, <2>7, <4>3
      <4> QED
        BY <1>1, <1>3, <4>1, <4>2, <4>3 DEF IdsAccounted
    <3> QED
      BY <3>1, <3>2, <3>3 DEF IdsAccounted
  <2> QED
    BY <1>1, <1>2, <1>3, <1>4, <1>5, <2>8, <2>9, OpenInv DEF Beginning
<1>7. CASE result' = [result EXCEPT ![c] = NoResult] /\ UNCHANGED kernel
  <2>1. \A d \in Clients : result'[d] = IF d = c THEN NoResult ELSE result[d]
    BY <1>1, <1>7 DEF TypeOK
  <2>2. \A d \in Clients : Carries(d)' <=> Carries(d)
    BY <1>2, <1>4, <2>1 DEF Carries, NoResult
  <2>3. ~Carries(c)
    BY <1>2 DEF Carries
  <2>4. TypeOK'
    BY <1>1, <1>2, <1>4, <1>7 DEF TypeOK, NoResult, Results
  <2>5. IdsAccounted'
    <3>1. \A d \in Clients : Carries(d)' =>
            /\ slab'[result'[d].id] # None
            /\ \A q \in pending' \cup kernel' : q.id # result'[d].id
            /\ \A e \in Clients : Carries(e)' /\ result'[e].id = result'[d].id => e = d
      BY <1>1, <1>2, <1>7, <2>1, <2>2, <2>3 DEF IdsAccounted
    <3>2. \A i \in Ids : slab'[i] # None =>
            \/ \E q \in pending' \cup kernel' : q.id = i
            \/ \E d \in Clients : Carries(d)' /\ result'[d].id = i
      BY <1>1, <1>2, <1>3, <1>7, <2>1, <2>2, <2>3 DEF IdsAccounted
    <3> QED
      BY <1>1, <1>2, <1>7, <3>1, <3>2 DEF IdsAccounted
  <2> QED
    BY <1>1, <1>2, <1>3, <1>4, <1>5, <2>4, <2>5, OpenInv DEF Beginning
<1> QED
  BY <1>6, <1>7 DEF Complete

(* When no read is left, the kernel has, or is about to be given, exactly  *)
(* the buffers of the slab.                                                *)
LEMMA ProvidedArePresent ==
  ASSUME GroupInv, IsFiniteSet(Ids), phase = "asked"
  PROVE  /\ IsFiniteSet(kernel \cup pending)
         /\ Cardinality(kernel \cup pending) = Cardinality(Present)
<1> DEFINE provided == kernel \cup pending
           g == [i \in Present |-> [id |-> i, buf |-> slab[i]]]
<1>1. TypeOK /\ IdsAccounted /\ GroupOutlivesReads
  BY DEF GroupInv
<1>2. \A p \in provided : /\ p.id \in Present /\ p.buf = slab[p.id]
                          /\ p = [id |-> p.id, buf |-> p.buf]
  BY <1>1, BufferGroupAssumption DEF TypeOK, IdsAccounted, Entry, Present
<1>3. \A i \in Present : g[i] \in provided
  <2>1. SUFFICES ASSUME NEW i \in Present PROVE [id |-> i, buf |-> slab[i]] \in provided
    OBVIOUS
  <2>2. \A c \in Clients : ~Carries(c)
    BY <1>1 DEF GroupOutlivesReads, Carries
  <2>3. PICK p \in provided : p.id = i
    BY <1>1, <2>1, <2>2 DEF IdsAccounted, Present
  <2> QED
    BY <1>2, <2>3
<1>4. g \in Bijection(Present, provided)
  <2>1. g \in [Present -> provided]
    BY <1>3
  <2>2. \A i, j \in Present : g[i] = g[j] => i = j
    OBVIOUS
  <2>3. \A p \in provided : \E i \in Present : g[i] = p
    BY <1>2
  <2> QED
    BY <2>1, <2>2, <2>3 DEF Bijection, Injection, Surjection, IsInjective
<1>5. IsFiniteSet(Present)
  BY FS_Subset DEF Present
<1>6. ExistsBijection(Present, provided)
  BY <1>4 DEF ExistsBijection
<1> HIDE DEF provided
<1>7. IsFiniteSet(provided) /\ Cardinality(provided) = Cardinality(Present)
  BY <1>5, <1>6, FS_Bijection
<1> QED
  BY <1>7 DEF provided

LEMMA EnterInv ==
  ASSUME Rejected = {}, IsFiniteSet(Ids)
  PROVE  GroupInv /\ Enter => GroupInv'
<1> SUFFICES ASSUME GroupInv, Enter PROVE GroupInv'
  OBVIOUS
<1> DEFINE provided == kernel \cup pending
<1>1. TypeOK /\ IdsAccounted /\ OneOwner /\ GroupOutlivesReads /\ Beginning /\ Removal
  BY DEF GroupInv
<1>2. /\ pending' = {}
      /\ read' = [c \in Clients |-> IF read[c] = "queued" THEN "kernel" ELSE read[c]]
      /\ UNCHANGED <<slab, cancelled, client, held, unread, result, panic>>
  BY DEF Enter
<1>3. /\ \A c \in Clients : Carries(c)' <=> Carries(c)
      /\ \A c \in Clients : read[c] = "none" => read'[c] = "none"
  BY <1>2 DEF Carries
<1>4. OneOwner'
  BY <1>1, <1>2 DEF OneOwner
<1>5. Present' = Present
  BY <1>2 DEF Present
<1>6. CASE phase = "asked"
  <2>1. PICK gone \in SUBSET provided :
          /\ Cardinality(gone) <= removed
          /\ Cardinality(gone) = removed \/ gone = provided
          /\ kernel' = provided \ gone
          /\ removed' = Cardinality(gone)
          /\ phase' = "answered"
    BY <1>6 DEF Enter
  <2>2. IsFiniteSet(provided) /\ Cardinality(provided) = removed /\ removed = Cardinality(Present)
    BY <1>1, <1>6, ProvidedArePresent DEF Removal
  <2>3. gone = provided /\ removed' = removed
    <3> HIDE DEF provided
    <3> QED
      BY <2>1, <2>2, FS_Subset
  <2>4. kernel' = {}
    BY <2>1, <2>3
  <2>5. \A c \in Clients : read[c] = "none" /\ client[c] \in {"none", "gone"}
    BY <1>1, <1>6 DEF GroupOutlivesReads
  <2>6. TypeOK'
    BY <1>1, <1>2, <2>1, <2>3, <2>4, <2>5 DEF TypeOK
  <2>7. IdsAccounted'
    BY <1>2, <1>3, <2>1, <2>4, <2>5 DEF IdsAccounted, Carries
  <2>8. GroupOutlivesReads' /\ Beginning' /\ Removal'
    BY <1>2, <1>3, <1>5, <2>1, <2>2, <2>3, <2>4, <2>5 DEF GroupOutlivesReads, Beginning, Removal
  <2> QED
    BY <1>4, <2>6, <2>7, <2>8 DEF GroupInv
<1>7. CASE phase # "asked"
  <2>1. kernel' = provided /\ UNCHANGED <<removed, phase>>
    BY <1>7 DEF Enter
  <2>2. TypeOK'
    <3>1. \A c \in Clients :
            /\ read'[c] = "stored" <=> read[c] = "stored"
            /\ read'[c] = "none" <=> read[c] = "none"
            /\ read'[c] \in {"none", "queued", "kernel", "cqe", "stored"}
      BY <1>1, <1>2 DEF TypeOK
    <3>2. read' \in [Clients -> {"none", "queued", "kernel", "cqe", "stored"}]
      BY <1>2, <3>1
    <3> QED
      BY <1>1, <1>2, <2>1, <3>1, <3>2 DEF TypeOK
  <2>3. IdsAccounted'
    <3>1. pending' \cup kernel' = pending \cup kernel /\ pending' \cap kernel' = {}
      BY <1>2, <2>1
    <3> QED
      BY <1>1, <1>2, <1>3, <2>1, <3>1 DEF IdsAccounted
  <2>4. GroupOutlivesReads' /\ Beginning' /\ Removal'
    <3>1. phase # "new"
      BY <1>1, BufferGroupAssumption DEF Beginning, Enter
    <3>2. GroupOutlivesReads'
      BY <1>1, <1>2, <1>3, <2>1 DEF GroupOutlivesReads
    <3> QED
      BY <1>1, <1>2, <1>3, <1>5, <1>7, <2>1, <3>1, <3>2 DEF Beginning, Removal
  <2> QED
    BY <1>4, <2>2, <2>3, <2>4 DEF GroupInv
<1> QED
  BY <1>6, <1>7

LEMMA ReleaseInv == GroupInv /\ Release => GroupInv' /\ ~panic'
<1> SUFFICES ASSUME GroupInv, Release PROVE GroupInv' /\ ~panic'
  OBVIOUS
<1> USE DEF reads
<1>1. TypeOK /\ IdsAccounted /\ OneOwner /\ GroupOutlivesReads /\ Beginning /\ Removal
  BY DEF GroupInv
<1>2. /\ phase = "answered" /\ phase' = "released" /\ slab' = [i \in Ids |-> None]
      /\ cancelled' = {}
      /\ UNCHANGED <<pending, kernel, client, held, unread, read, result, removed>>
  BY DEF Release
<1>3. \A c \in Clients : read[c] = "none" /\ client[c] \in {"none", "gone"} /\ held[c] = None
  BY <1>1, <1>2 DEF GroupOutlivesReads, TypeOK
<1>4. pending = {} /\ kernel = {}
  BY <1>1, <1>2 DEF GroupOutlivesReads
<1>5. panic' = FALSE
  BY <1>1, <1>2 DEF Release, Removal
<1>6. TypeOK'
  BY <1>1, <1>2, <1>5 DEF TypeOK
<1>7. IdsAccounted' /\ OneOwner'
  BY <1>2, <1>3, <1>4 DEF IdsAccounted, OneOwner, Carries
<1>8. GroupOutlivesReads' /\ Beginning' /\ Removal'
  BY <1>1, <1>2, <1>3, <1>4 DEF GroupOutlivesReads, Beginning, Removal
<1> QED
  BY <1>5, <1>6, <1>7, <1>8 DEF GroupInv

-------------------------------------------------------------------------------
(* GroupInv is inductive, and the assertion of RemoveBuffers never fails   *)
(* (op/group.rs), as long as the kernel accepts the buffers it is provided.*)
THEOREM GroupInvInductive ==
  ASSUME Rejected = {}, IsFiniteSet(Ids)
  PROVE  Spec => [](GroupInv /\ RemovedAll)
<1>1. Init => GroupInv /\ RemovedAll
  BY InitInv DEF Init, RemovedAll
<1>2. GroupInv /\ RemovedAll /\ [Next]_vars => (GroupInv /\ RemovedAll)'
  <2> SUFFICES ASSUME GroupInv, ~panic, [Next]_vars PROVE GroupInv' /\ ~panic'
    BY DEF RemovedAll
  <2>1. CASE WithBuffers
    BY <2>1, WithBuffersInv DEF WithBuffers
  <2>2. CASE Filled \/ DropFilling \/ Ask
    BY <2>2, PhasesInv DEF Filled, DropFilling, Ask
  <2>3. ASSUME NEW c \in Clients, InsertNew(c) PROVE GroupInv' /\ ~panic'
    BY <2>3, InsertNewInv DEF InsertNew
  <2>4. ASSUME NEW c \in Clients, GiveBack(c) PROVE GroupInv' /\ ~panic'
    BY <2>4, GiveBackInv DEF GiveBack
  <2>5. ASSUME NEW c \in Clients, Keep(c) PROVE GroupInv' /\ ~panic'
    BY <2>5, KeepInv DEF Keep
  <2>6. ASSUME NEW c \in Clients, Read(c) PROVE GroupInv' /\ ~panic'
    BY <2>6, ReadInv DEF Read
  <2>7. ASSUME NEW c \in Clients, Finish(c) PROVE GroupInv' /\ ~panic'
    BY <2>7, FinishInv DEF Finish
  <2>8. ASSUME NEW c \in Clients, DropRead(c) PROVE GroupInv' /\ ~panic'
    BY <2>8, DropReadInv DEF DropRead
  <2>9. ASSUME NEW c \in Clients, DropClone(c) PROVE GroupInv' /\ ~panic'
    BY <2>9, DropCloneInv DEF DropClone
  <2>10. ASSUME NEW c \in Clients, Complete(c) PROVE GroupInv' /\ ~panic'
    BY <2>10, CompleteInv DEF Complete
  <2>11. CASE Release
    BY <2>11, ReleaseInv
  <2>12. CASE Enter
    BY <2>12, EnterInv DEF Enter
  <2>13. CASE Reap
    BY <2>13, ReapInv DEF Reap
  <2>14. CASE UNCHANGED vars
    <3>1. UNCHANGED <<slab, cancelled, pending, kernel, client, held, unread, read, result,
                      phase, removed, panic>>
      BY <2>14 DEF vars
    <3>2. TypeOK' /\ IdsAccounted' /\ OneOwner'
      BY <3>1 DEF GroupInv, TypeOK, IdsAccounted, OneOwner, Carries
    <3>3. GroupOutlivesReads' /\ Beginning' /\ Removal'
      BY <3>1 DEF GroupInv, GroupOutlivesReads, Beginning, Removal, Present
    <3> QED
      BY <3>1, <3>2, <3>3 DEF GroupInv
  <2> QED
    BY <2>1, <2>2, <2>3, <2>4, <2>5, <2>6, <2>7, <2>8, <2>9, <2>10, <2>11, <2>12, <2>13, <2>14
    DEF Next
<1> QED
  BY <1>1, <1>2, PTL DEF Spec

(* Types, as a consequence. *)
THEOREM GroupTypes ==
  ASSUME Rejected = {}, IsFiniteSet(Ids)
  PROVE  Spec => []TypeOK
BY GroupInvInductive, PTL DEF GroupInv

(* A buffer of the slab is with the kernel under its key, or on the way    *)
(* there, or selected by one result (group.rs: put, take, mark_cancelled). *)
THEOREM BuffersAccounted ==
  ASSUME Rejected = {}, IsFiniteSet(Ids)
  PROVE  Spec => []IdsAccounted
BY GroupInvInductive, PTL DEF GroupInv

(* A buffer has one owner, whatever is read, dropped and given back.       *)
THEOREM BuffersOwned ==
  ASSUME Rejected = {}, IsFiniteSet(Ids)
  PROVE  Spec => []OneOwner
BY GroupInvInductive, PTL DEF GroupInv

(* The group outlives its reads, and its id what the kernel has under it   *)
(* (ReadBufferSetInner::drop, the Rc in the Cancellation of ReadGroup).    *)
THEOREM GroupsOutlive ==
  ASSUME Rejected = {}, IsFiniteSet(Ids)
  PROVE  Spec => []GroupOutlivesReads
BY GroupInvInductive, PTL DEF GroupInv

(* RemoveBuffers removes what the group counts present (op/group.rs).      *)
THEOREM RemovalExact ==
  ASSUME Rejected = {}, IsFiniteSet(Ids)
  PROVE  Spec => []RemovedAll
BY GroupInvInductive, PTL

===============================================================================
