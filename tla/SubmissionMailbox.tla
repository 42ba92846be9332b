-------------------------- MODULE SubmissionMailbox --------------------------
(***************************************************************************)
(* The reactor implements Mailbox.  NumberInv, inductive on top of IInv,   *)
(* says that the completions of a waiting operation reach its mailbox one  *)
(* by one and in order; with it, every step of the reactor is a step of one*)
(* mailbox, or of none.                                                    *)
(***************************************************************************)
EXTENDS SubmissionSafety

(* What Received counts, while o waits: the results it has returned and     *)
(* those in its entry.                                                      *)
LEMMA ReceivedNat ==
  ASSUME StateInv, Sound, NEW o \in Ops, state[o] = "Submitted"
  PROVE  /\ BoxOf(o) = BoxAt(KeyOf(o)) /\ BoxOf(o) \in Seq(Results)
         /\ Received(o) \in Nat /\ Posted(o) \in Nat
<1>1. KeyOf(o) \in Keys /\ StateOK
  BY OwnEntry DEF StateInv
<1>2. BoxOf(o) = BoxAt(KeyOf(o))
  BY DEF BoxOf, BoxAt
<1>3. BoxAt(KeyOf(o)) \in Seq(Results)
  <2>1. CASE slab[KeyOf(o)].state = "Single"
    <3>1. slab[KeyOf(o)].result \in Results
      BY <1>1, <2>1 DEF StateOK, Completions
    <3> QED
      BY <2>1, <3>1 DEF BoxAt
  <2>2. CASE slab[KeyOf(o)].state = "Multiple"
    BY <1>1, <2>2, Handles DEF BoxAt
  <2> QED
    BY <2>1, <2>2 DEF BoxAt
<1>4. Len(delivered[o]) \in Nat /\ Len(BoxOf(o)) \in Nat
  BY <1>1, <1>2, <1>3, LenProperties DEF StateOK
<1>5. posted[o] \in Nat
  BY <1>1, UringAssumption DEF StateOK
<1> QED
  BY <1>2, <1>3, <1>4, <1>5 DEF Received, Posted

(* The completion queue holds completions. *)
LEMMA CqTypes ==
  ASSUME StateOK
  PROVE  cq \in Seq(Cqes) /\ \A i \in 1 .. Len(cq) : cq[i] \in Cqes /\ cq[i].n \in Nat
<1>1. cq \in Seq(Cqes)
  BY DEF StateOK
<1>2. \A i \in 1 .. Len(cq) : cq[i] \in Cqes
  BY <1>1, LenProperties
<1> QED
  BY <1>1, <1>2 DEF Cqes

(* The kernel posts the next completion of o, or one of another request. *)
LEMMA NumberedPost ==
  ASSUME StateOK, NEW o \in Ops, Numbered(o), Received(o) \in Nat, Posted(o) \in Nat,
         NEW c \in Cqes, cq' = Append(cq, c), Received(o)' = Received(o),
         IF c.req = Op(o) THEN c.n = Posted(o) + 1 /\ Posted(o)' = Posted(o) + 1
                          ELSE Posted(o)' = Posted(o)
  PROVE  Numbered(o)'
<1>1. /\ Len(cq) \in Nat /\ Len(cq') = Len(cq) + 1 /\ cq'[Len(cq) + 1] = c
      /\ \A i \in 1 .. Len(cq) : cq'[i] = cq[i] /\ i \in 1 .. Len(cq')
      /\ \A i \in 1 .. Len(cq') : i \in 1 .. Len(cq) \/ i = Len(cq) + 1
  BY AppendProperties, LenProperties DEF StateOK
<1>2. \A i \in 1 .. Len(cq) : cq[i].n \in Nat
  BY CqTypes
<1>3. CASE c.req = Op(o)
  <2>1. /\ Received(o)' <= Posted(o)'
        /\ \A i \in 1 .. Len(cq') : cq'[i].req = Op(o) =>
             Received(o)' < cq'[i].n /\ cq'[i].n <= Posted(o)'
    BY <1>1, <1>2, <1>3 DEF Numbered
  <2>2. \A i, j \in 1 .. Len(cq') : cq'[i].req = Op(o) /\ cq'[j].req = Op(o) /\ i < j => cq'[i].n < cq'[j].n
    <3>1. \A i \in 1 .. Len(cq) : cq[i].req = Op(o) => cq[i].n < c.n
      BY <1>2, <1>3 DEF Numbered
    <3>2. \A i, j \in 1 .. Len(cq) : cq[i].req = Op(o) /\ cq[j].req = Op(o) /\ i < j => cq[i].n < cq[j].n
      BY DEF Numbered
    <3> QED
      BY <1>1, <3>1, <3>2
  <2>3. ASSUME NEW n \in Received(o)' + 1 .. Posted(o)'
        PROVE  \E i \in 1 .. Len(cq') : cq'[i].req = Op(o) /\ cq'[i].n = n
    <3>1. CASE n = Posted(o) + 1
      <4>1. Len(cq) + 1 \in 1 .. Len(cq')
        BY <1>1
      <4> QED
        BY <1>1, <1>3, <3>1, <4>1
    <3>2. CASE n # Posted(o) + 1
      <4>1. n \in Received(o) + 1 .. Posted(o)
        BY <1>3, <2>3, <3>2
      <4>2. PICK i \in 1 .. Len(cq) : cq[i].req = Op(o) /\ cq[i].n = n
        BY <4>1 DEF Numbered
      <4> QED
        BY <1>1, <4>2
    <3> QED
      BY <3>1, <3>2
  <2> QED
    BY <2>1, <2>2, <2>3 DEF Numbered
<1>4. CASE c.req # Op(o)
  <2>1. \A i \in 1 .. Len(cq') : cq'[i].req = Op(o) => i \in 1 .. Len(cq) /\ cq'[i] = cq[i]
    BY <1>1, <1>4
  <2>2. /\ Received(o)' <= Posted(o)'
        /\ \A i \in 1 .. Len(cq') : cq'[i].req = Op(o) =>
             Received(o)' < cq'[i].n /\ cq'[i].n <= Posted(o)'
        /\ \A i, j \in 1 .. Len(cq') : cq'[i].req = Op(o) /\ cq'[j].req = Op(o) /\ i < j => cq'[i].n < cq'[j].n
    BY <1>4, <2>1 DEF Numbered
  <2>3. \A n \in Received(o)' + 1 .. Posted(o)' :
          \E i \in 1 .. Len(cq') : cq'[i].req = Op(o) /\ cq'[i].n = n
    BY <1>1, <1>4 DEF Numbered
  <2> QED
    BY <2>2, <2>3 DEF Numbered
<1> QED
  BY <1>3, <1>4

(* The completion at the head of the queue is the next one of its           *)
(* operation.                                                               *)
LEMMA HeadIsNext ==
  ASSUME StateOK, NEW o \in Ops, Numbered(o), Received(o) \in Nat, Posted(o) \in Nat,
         cq # <<>>, Head(cq).req = Op(o)
  PROVE  Head(cq).n = Received(o) + 1
<1>1. Len(cq) \in Nat /\ 1 <= Len(cq) /\ Head(cq) = cq[1]
  BY HeadTail DEF StateOK
<1>2. \A i \in 1 .. Len(cq) : cq[i].n \in Nat
  BY CqTypes
<1>3. Received(o) < cq[1].n /\ cq[1].n <= Posted(o)
  BY <1>1 DEF Numbered
<1>4. Received(o) + 1 \in Received(o) + 1 .. Posted(o)
  BY <1>1, <1>2, <1>3
<1>5. PICK i \in 1 .. Len(cq) : cq[i].req = Op(o) /\ cq[i].n = Received(o) + 1
  BY <1>4 DEF Numbered
<1>6. i # 1 => cq[1].n < cq[i].n
  BY <1>1, <1>5 DEF Numbered
<1> QED
  BY <1>1, <1>2, <1>3, <1>5, <1>6

(* The reactor consumes it. *)
LEMMA NumberedPop ==
  ASSUME StateOK, NEW o \in Ops, Numbered(o), Received(o) \in Nat, Posted(o) \in Nat,
         cq # <<>>, cq' = Tail(cq), Posted(o)' = Posted(o),
         Received(o)' = IF Head(cq).req = Op(o) THEN Received(o) + 1 ELSE Received(o)
  PROVE  Numbered(o)'
<1>1. /\ Len(cq) \in Nat /\ 1 <= Len(cq) /\ Head(cq) = cq[1] /\ Len(cq') = Len(cq) - 1
      /\ \A i \in 1 .. Len(cq') : i + 1 \in 1 .. Len(cq) /\ cq'[i] = cq[i + 1]
      /\ \A i \in 1 .. Len(cq) : i # 1 => i - 1 \in 1 .. Len(cq') /\ cq'[i - 1] = cq[i]
  BY HeadTail DEF StateOK
<1>2. \A i \in 1 .. Len(cq) : cq[i].n \in Nat
  BY CqTypes
<1>3. cq[1].req = Op(o) => cq[1].n = Received(o) + 1
  BY <1>1, HeadIsNext
<1>4. /\ \A i \in 1 .. Len(cq) : cq[i].req = Op(o) => Received(o) < cq[i].n /\ cq[i].n <= Posted(o)
      /\ \A i, j \in 1 .. Len(cq) : cq[i].req = Op(o) /\ cq[j].req = Op(o) /\ i < j => cq[i].n < cq[j].n
  BY DEF Numbered
<1>5. \A i \in 1 .. Len(cq) : i # 1 /\ cq[i].req = Op(o) => Received(o)' < cq[i].n
  BY <1>1, <1>2, <1>3, <1>4
<1>6. Received(o)' <= Posted(o)'
  BY <1>1, <1>2, <1>3, <1>4 DEF Numbered
<1>7. \A i \in 1 .. Len(cq') : cq'[i].req = Op(o) => Received(o)' < cq'[i].n /\ cq'[i].n <= Posted(o)'
  BY <1>1, <1>4, <1>5
<1>8. \A i, j \in 1 .. Len(cq') : cq'[i].req = Op(o) /\ cq'[j].req = Op(o) /\ i < j => cq'[i].n < cq'[j].n
  BY <1>1, <1>4
<1>9. ASSUME NEW n \in Received(o)' + 1 .. Posted(o)'
      PROVE  \E i \in 1 .. Len(cq') : cq'[i].req = Op(o) /\ cq'[i].n = n
  <2>1. n \in Received(o) + 1 .. Posted(o)
    BY <1>9
  <2>2. PICK i \in 1 .. Len(cq) : cq[i].req = Op(o) /\ cq[i].n = n
    BY <2>1 DEF Numbered
  <2>3. i # 1
    BY <1>1, <1>3, <1>9, <2>2
  <2> QED
    BY <1>1, <2>2, <2>3
<1> QED
  BY <1>6, <1>7, <1>8, <1>9 DEF Numbered

(* What a step does to the completions that are posted: nothing, or it      *)
(* posts one, numbered after those of its request before it, or the reactor *)
(* consumes the oldest.                                                     *)
LEMMA PostedSteps ==
  ASSUME StateInv, Sound, [Next]_vars
  PROVE  /\ \/ ~Reap /\ UNCHANGED cq /\ \A p \in Ops : Posted(p)' = Posted(p)
            \/ /\ ~Reap
               /\ \E c \in Cqes :
                    /\ cq' = Append(cq, c)
                    /\ \A p \in Ops : IF c.req = Op(p)
                                        THEN c.n = Posted(p) + 1 /\ Posted(p)' = Posted(p) + 1
                                        ELSE Posted(p)' = Posted(p)
            \/ Reap /\ \A p \in Ops : Posted(p)' = Posted(p)
         /\ \A p \in Ops : posted'[p] = posted[p] \/ stage[Op(p)] = "kernel"
<1>0. /\ StateOK /\ stage \in [Requests -> Stages] /\ posted \in [Ops -> 0 .. MaxMore]
      /\ 0 .. MaxMore \subseteq Nat
      /\ userData \in [Requests -> Keys \cup {IgnoreKey}]
  BY UringAssumption DEF StateInv, StateOK
<1>1. ASSUME UNCHANGED posted,
             \A r \in Requests : stage'[r] \in {"cq", "done"} <=> stage[r] \in {"cq", "done"}
      PROVE  \A p \in Ops : Posted(p)' = Posted(p)
  BY <1>1, RequestTypes DEF Posted
<1>2. ASSUME UNCHANGED uringVars, pc = "run" \/ ~Reap
      PROVE  /\ ~Reap /\ UNCHANGED cq /\ \A p \in Ops : Posted(p)' = Posted(p)
             /\ \A p \in Ops : posted'[p] = posted[p]
  BY <1>2 DEF uringVars, Posted, Reap
<1>3. ASSUME NEW r \in Requests, NEW u, Push(r, u), stage[r] = "none", pc = "run"
      PROVE  /\ ~Reap /\ UNCHANGED cq /\ \A p \in Ops : Posted(p)' = Posted(p)
             /\ \A p \in Ops : posted'[p] = posted[p]
  <2>1. UNCHANGED <<cq, posted>> /\ \A q \in Requests : stage'[q] = IF q = r THEN "sq" ELSE stage[q]
    BY <1>0, <1>3 DEF Push
  <2> QED
    BY <1>1, <1>3, <2>1 DEF Reap
<1>4. ASSUME NEW o \in Ops, Poll(o) \/ Drop(o)
      PROVE  /\ ~Reap /\ UNCHANGED cq /\ \A p \in Ops : Posted(p)' = Posted(p)
             /\ \A p \in Ops : posted'[p] = posted[p]
  <2>1. Op(o) \in Requests /\ Cancel(o) \in Requests
    BY RequestTypes
  <2>2. CASE FirstPoll(o)
    BY <1>2, <1>3, <2>1, <2>2 DEF FirstPoll, Submit, Running, Sound, KeyInv, PushedOnce
  <2>3. CASE DropSubmitted(o)
    <3>1. pc = "run" /\ CancelOp(o) /\ stage[Cancel(o)] = "none"
      BY <2>3 DEF DropSubmitted, Running, Sound, KeyInv, PushedOnce
    <3> QED
      BY <1>2, <1>3, <2>1, <3>1 DEF CancelOp, PushCancel
  <2>4. CASE PollPending(o) \/ PollFuture(o) \/ PollStream(o) \/ DropInitial(o) \/ DropCompleted(o)
    BY <1>2, <2>4 DEF PollPending, PollFuture, PollStream, Pollable, DropInitial, DropCompleted, Running
  <2> QED
    BY <1>4, <2>2, <2>3, <2>4 DEF Poll, Drop
<1>5. ASSUME NEW d \in Detached, SubmitDetached(d)
      PROVE  /\ ~Reap /\ UNCHANGED cq /\ \A p \in Ops : Posted(p)' = Posted(p)
             /\ \A p \in Ops : posted'[p] = posted[p]
  BY <1>2, <1>3, <1>5, RequestTypes DEF SubmitDetached, Running
<1>6. ASSUME NEW r \in Requests, NEW c, c = Last(r), cq' = Append(cq, c), UNCHANGED posted,
             stage[r] \in {"sq", "kernel"}, stage' = [stage EXCEPT ![r] = "cq"]
      PROVE  /\ c \in Cqes
             /\ \A p \in Ops : IF c.req = Op(p)
                                 THEN c.n = Posted(p) + 1 /\ Posted(p)' = Posted(p) + 1
                                 ELSE Posted(p)' = Posted(p)
  <2>1. /\ c.req = r /\ c \in Cqes
        /\ \A p \in Ops : r = Op(p) => c.n = posted[p] + 1
    BY <1>0, <1>6, RequestTypes DEF Last, Completion, Cqes, Op
  <2>2. \A q \in Requests : stage'[q] = IF q = r THEN "cq" ELSE stage[q]
    BY <1>0, <1>6
  <2>3. ASSUME NEW p \in Ops, r = Op(p)
        PROVE  Posted(p) = posted[p] /\ Posted(p)' = posted[p] + 1
    BY <1>0, <1>6, <2>2, <2>3 DEF Posted
  <2>4. ASSUME NEW p \in Ops, r # Op(p)
        PROVE  Posted(p)' = Posted(p)
    BY <1>6, <2>2, <2>4, RequestTypes DEF Posted
  <2> QED
    BY <2>1, <2>3, <2>4
<1>7. ASSUME EnterSubmit \/ EnterRefused
      PROVE  /\ ~Reap /\ UNCHANGED posted
             /\ \/ UNCHANGED cq /\ \A p \in Ops : Posted(p)' = Posted(p)
                \/ \E c \in Cqes :
                    /\ cq' = Append(cq, c)
                    /\ \A p \in Ops : IF c.req = Op(p)
                                        THEN c.n = Posted(p) + 1 /\ Posted(p)' = Posted(p) + 1
                                        ELSE Posted(p)' = Posted(p)
  <2>1. /\ sq # <<>> /\ sq' = Tail(sq) /\ UNCHANGED posted /\ pc = "submit"
        /\ \/ stage' = [stage EXCEPT ![Head(sq)] = "kernel"] /\ UNCHANGED cq
           \/ stage' = [stage EXCEPT ![Head(sq)] = "cq"] /\ cq' = Append(cq, Last(Head(sq)))
    BY <1>7 DEF EnterSubmit, EnterRefused, Consume, ConsumeCancel, Refuse
  <2>2. Head(sq) \in Requests /\ stage[Head(sq)] = "sq"
    BY <1>0, <2>1, ConsumeKeeps
  <2>3. CASE stage' = [stage EXCEPT ![Head(sq)] = "kernel"] /\ UNCHANGED cq
    <3>1. \A r \in Requests : stage'[r] \in {"cq", "done"} <=> stage[r] \in {"cq", "done"}
      BY <1>0, <2>2, <2>3
    <3> QED
      BY <1>1, <2>1, <2>3, <3>1 DEF Reap
  <2>4. CASE stage' = [stage EXCEPT ![Head(sq)] = "cq"] /\ cq' = Append(cq, Last(Head(sq)))
    BY <1>6, <2>1, <2>2, <2>4 DEF Reap
  <2> QED
    BY <2>1, <2>3, <2>4
<1>8. ASSUME NEW r \in Requests, KernelCompletes(r), ~Reap
      PROVE  /\ UNCHANGED posted
             /\ \E c \in Cqes :
                    /\ cq' = Append(cq, c)
                    /\ \A p \in Ops : IF c.req = Op(p)
                                        THEN c.n = Posted(p) + 1 /\ Posted(p)' = Posted(p) + 1
                                        ELSE Posted(p)' = Posted(p)
  BY <1>6, <1>8 DEF KernelCompletes, Complete
<1>9. ASSUME NEW o \in Ops, KernelPostsMore(o), ~Reap
      PROVE  /\ \A p \in Ops : posted'[p] = posted[p] \/ stage[Op(p)] = "kernel"
             /\ \E c \in Cqes :
                    /\ cq' = Append(cq, c)
                    /\ \A p \in Ops : IF c.req = Op(p)
                                        THEN c.n = Posted(p) + 1 /\ Posted(p)' = Posted(p) + 1
                                        ELSE Posted(p)' = Posted(p)
  <2> DEFINE c == Completion(Op(o), posted[o] + 1, TRUE)
  <2>1. /\ stage[Op(o)] = "kernel" /\ cq' = Append(cq, c) /\ UNCHANGED stage
        /\ posted' = [posted EXCEPT ![o] = @ + 1]
    BY <1>9 DEF KernelPostsMore, CompleteMore
  <2>2. c \in Cqes /\ c.req = Op(o) /\ c.n = posted[o] + 1
    BY <1>0, RequestTypes DEF Completion, Cqes
  <2>3. Posted(o) = posted[o] /\ Posted(o)' = posted[o] + 1
    BY <1>0, <2>1 DEF Posted
  <2>4. \A p \in Ops : p # o => Posted(p)' = Posted(p) /\ posted'[p] = posted[p] /\ c.req # Op(p)
    BY <1>0, <2>1, <2>2, RequestTypes DEF Posted
  <2> HIDE DEF c
  <2> QED
    BY <2>1, <2>2, <2>3, <2>4
<1>10. ASSUME Reap
       PROVE  /\ UNCHANGED posted /\ \A p \in Ops : Posted(p)' = Posted(p)
  <2>1. cq # <<>> /\ stage[Head(cq).req] \in {"kernel", "cq"} /\ UNCHANGED posted
        /\ \A r \in Requests : stage'[r] = IF r = Head(cq).req /\ ~Head(cq).more THEN "done" ELSE stage[r]
    BY <1>0, <1>10, PopKeeps DEF Reap, Pop
  <2>2. ~Head(cq).more => stage[Head(cq).req] = "cq"
    <3>1. Head(cq) = cq[1] /\ 1 \in 1 .. Len(cq)
      BY <1>0, <2>1, HeadTail, CqTypes
    <3> QED
      BY <3>1 DEF Sound, KeyInv, CqOnce
  <2> QED
    BY <1>1, <2>1, <2>2
<1>11. ASSUME Wait \/ EnterReturn \/ WaitReturns, ~Reap
       PROVE  /\ UNCHANGED cq /\ \A p \in Ops : Posted(p)' = Posted(p)
              /\ \A p \in Ops : posted'[p] = posted[p]
  BY <1>2, <1>11 DEF Wait, EnterReturn, WaitReturns
<1>12. ASSUME UNCHANGED vars, ~Reap
       PROVE  /\ UNCHANGED cq /\ \A p \in Ops : Posted(p)' = Posted(p)
              /\ \A p \in Ops : posted'[p] = posted[p]
  BY <1>2, <1>12 DEF vars
<1>13. CASE Reap
  BY <1>10, <1>13
<1>14. CASE ~Reap
  <2>1. CASE \E o \in Ops : Poll(o) \/ Drop(o)
    BY <1>4, <2>1
  <2>2. CASE \E d \in Detached : SubmitDetached(d)
    BY <1>5, <2>2
  <2>3. CASE EnterSubmit \/ EnterRefused
    BY <1>7, <2>3
  <2>4. CASE \E r \in Requests : KernelCompletes(r)
    BY <1>8, <1>14, <2>4
  <2>5. CASE \E o \in Ops : KernelPostsMore(o)
    BY <1>9, <1>14, <2>5
  <2>6. CASE Wait \/ EnterReturn \/ WaitReturns \/ UNCHANGED vars
    BY <1>11, <1>12, <1>14, <2>6
  <2> QED
    BY <1>14, <2>1, <2>2, <2>3, <2>4, <2>5, <2>6 DEF Next, RingStep, Halted
<1> QED
  BY <1>13, <1>14

(* What a step does to the results of a submission that goes on waiting:    *)
(* only the reactor adds one, when it consumes a completion of it.          *)
LEMMA ReceivedSteps ==
  ASSUME DropArmed = FALSE, StateInv, Sound, [Next]_vars,
         NEW p \in Ops, state'[p] = "Submitted", ~FirstPoll(p)
  PROVE  /\ state[p] = "Submitted"
         /\ Received(p)' = IF Reap /\ Head(cq).req = Op(p) THEN Received(p) + 1 ELSE Received(p)
<1>0. StateOK
  BY DEF StateInv
<1>1. ASSUME Undisturbed(p)
      PROVE  state[p] = "Submitted" /\ Received(p)' = Received(p)
  <2>1. state[p] = "Submitted" /\ delivered'[p] = delivered[p]
    BY <1>1 DEF Undisturbed
  <2>2. PICK k \in Keys : KeyOf(p) = k /\ userData'[Op(p)] = k /\ BoxAt(k)' = BoxAt(k)
    BY <1>1, <2>1 DEF Undisturbed
  <2>3. BoxOf(p) = BoxAt(k)
    BY <2>1, <2>2 DEF BoxOf, BoxAt
  <2>4. BoxOf(p)' = BoxAt(k)'
    BY <2>2 DEF BoxOf, BoxAt, KeyOf
  <2> QED
    BY <2>1, <2>2, <2>3, <2>4 DEF Received
<1>2. CASE PollFuture(p) \/ PollStream(p)
  <2>1. PICK k \in Keys, r \in Results :
          /\ k = KeyOf(p) /\ state[p] = "Submitted"
          /\ BoxAt(k)' = Tail(BoxAt(k)) /\ BoxAt(k) \in Seq(Results) /\ BoxAt(k) # <<>>
          /\ delivered' = [delivered EXCEPT ![p] = Append(@, r)]
          /\ UNCHANGED <<uringVars, ringVars>>
    BY <1>2, TakeFacts
  <2>2. ~Reap
    BY <1>2 DEF PollFuture, PollStream, Pollable, Running, Reap
  <2>3. BoxOf(p) = BoxAt(k) /\ BoxOf(p)' = Tail(BoxAt(k))
    <3>1. KeyOf(p)' = k
      BY <2>1 DEF KeyOf, uringVars
    <3>2. BoxOf(p)' = BoxAt(k)'
      BY <3>1 DEF BoxOf, BoxAt
    <3> QED
      BY <2>1, <3>2 DEF BoxOf, BoxAt
  <2>4. /\ Len(BoxAt(k)) \in Nat /\ Len(Tail(BoxAt(k))) = Len(BoxAt(k)) - 1
    BY <2>1, HeadTail
  <2>5. /\ delivered[p] \in Seq(Results) /\ delivered'[p] = Append(delivered[p], r)
    BY <1>0, <2>1 DEF StateOK
  <2>6. Len(delivered'[p]) = Len(delivered[p]) + 1 /\ Len(delivered[p]) \in Nat
    BY <2>5, AppendProperties, LenProperties
  <2> QED
    BY <2>1, <2>2, <2>3, <2>4, <2>6 DEF Received
<1>3. CASE DropSubmitted(p)
  BY <1>0, <1>3 DEF DropSubmitted, StateOK
<1>4. ASSUME Reap, UNCHANGED submissionVars, NEW k \in Keys, NEW r \in Results, Notified(p, k, r)
      PROVE  state[p] = "Submitted" /\ Head(cq).req = Op(p) /\ Received(p)' = Received(p) + 1
  <2>1. /\ Head(cq).req = Op(p) /\ k = KeyOf(p) /\ Armed(p)
        /\ slab[k].state # "Cancelled" => BoxAt(k) \in Seq(Results) /\ BoxAt(k)' = Append(BoxAt(k), r)
    BY <1>4 DEF Notified
  <2>2. UNCHANGED <<state, delivered, userData>>
    BY <1>4 DEF submissionVars, Reap, Pop
  <2>3. slab[k].state # "Cancelled"
    BY <2>1, <2>2 DEF Sound, KeyInv, Entries
  <2>4. BoxOf(p) = BoxAt(k) /\ BoxOf(p)' = BoxAt(k)'
    <3>1. KeyOf(p)' = k
      BY <2>1, <2>2 DEF KeyOf
    <3> QED
      BY <2>1, <2>2, <3>1 DEF BoxOf, BoxAt
  <2>5. /\ BoxOf(p)' = Append(BoxAt(k), r)
        /\ Len(Append(BoxAt(k), r)) = Len(BoxAt(k)) + 1 /\ Len(BoxAt(k)) \in Nat
    BY <2>1, <2>3, <2>4, AppendProperties, LenProperties
  <2>6. Len(delivered[p]) \in Nat
    BY <1>0, LenProperties DEF StateOK
  <2>7. delivered'[p] = delivered[p] /\ state[p] = "Submitted"
    BY <2>2
  <2>8. Received(p)' = Received(p) + 1
    <3> DEFINE m == Len(BoxOf(p))
               n == Len(BoxOf(p)')
               d == Len(delivered[p])
    <3>1. m \in Nat /\ n = m + 1
      BY <2>4, <2>5
    <3>2. d \in Nat
      BY <2>6
    <3> HIDE DEF m, n, d
    <3>3. d + n = (d + m) + 1
      BY <3>1, <3>2
    <3>4. Received(p) = d + m /\ Received(p)' = d + n
      BY <2>7 DEF Received, m, n, d
    <3> QED
      BY <3>3, <3>4
  <2> QED
    BY <2>1, <2>7, <2>8
<1>5. ASSUME Reap, state[p] = "Submitted", Head(cq).req = Op(p)
      PROVE  Disturbs(p) /\ ~Quiet
  <2>1. Head(cq).userData = KeyOf(p) /\ KeyOf(p) \in Keys
    BY <1>0, <1>5, PopKeeps, OwnEntry DEF Reap, KeyOf
  <2>2. Head(cq).userData # IgnoreKey
    BY <2>1, UringAssumption
  <2>3. UNCHANGED submissionVars
    <3>1. ~Running
      BY <1>5 DEF Reap, Running
    <3> QED
      BY <3>1 DEF Next, Poll, Drop, FirstPoll, PollPending, PollFuture, PollStream, Pollable, DropInitial,
                  DropSubmitted, DropCompleted, Halted, vars
  <2>4. PICK o \in Ops, k \in Keys, r \in Results : Notified(o, k, r)
    BY <1>5, <2>2, <2>3, NotifyFacts
  <2>5. o = p
    BY <1>5, <2>4, RequestTypes DEF Notified
  <2>6. ~Quiet
    <3>1. ~UNCHANGED vars
      <4>1. batch' = batch - 1 /\ batch \in Nat
        BY <1>0, <1>5 DEF Reap, StateOK
      <4> QED
        BY <4>1 DEF vars, ringVars
    <3> QED
      BY <1>5, <2>2, <3>1 DEF Quiet, PollPending, Pollable, DropInitial, DropCompleted, Running, Reap
  <2> QED
    BY <1>5, <2>2, <2>3, <2>4, <2>5, <2>6 DEF Disturbs
<1>6. CASE Disturbs(p)
  BY <1>2, <1>3, <1>4, <1>6 DEF Disturbs
<1>7. CASE Undisturbed(p) /\ ~Disturbs(p)
  BY <1>1, <1>5, <1>7
<1> QED
  BY <1>6, <1>7, StepDisturbs

-------------------------------------------------------------------------------
(* A submission that begins to wait has nothing posted and nothing received. *)
LEMMA NumberedFirst ==
  ASSUME DropArmed = FALSE, StateInv, Sound, NumberInv, NEW p \in Ops, FirstPoll(p),
         state'[p] = "Submitted"
  PROVE  Numbered(p)'
<1>1. PICK k \in Keys :
        /\ slab'[k] = Vacant(p) /\ state[p] = "Initial" /\ stage[Op(p)] = "none"
        /\ UNCHANGED <<delivered, cq, posted>>
        /\ \/ state'[p] = "Submitted" /\ userData'[Op(p)] = k /\ stage'[Op(p)] = "sq"
           \/ UNCHANGED state
  BY SubmitFacts DEF uringVars
<1>2. userData'[Op(p)] = k /\ stage'[Op(p)] = "sq"
  BY <1>1
<1>3. delivered'[p] = <<>> /\ posted'[p] = 0
  BY <1>1 DEF NumberInv
<1>4. BoxOf(p)' = <<>>
  BY <1>1, <1>2 DEF BoxOf, KeyOf, Vacant
<1>5. Len(<<>>) = 0
  OBVIOUS
<1>6. Received(p)' = 0 /\ Posted(p)' = 0
  BY <1>2, <1>3, <1>4, <1>5 DEF Received, Posted
<1>7. \A i \in 1 .. Len(cq) : cq[i].req # Op(p)
  BY <1>1 DEF Sound, KeyInv, CqOnce
<1>8. \A i \in 1 .. Len(cq') : cq'[i].req # Op(p)
  BY <1>1, <1>7
<1> QED
  BY <1>6, <1>8 DEF Numbered

(* Every step keeps the completions of waiting operations in sequence. *)
LEMMA NumberNext ==
  ASSUME DropArmed = FALSE, StateInv, Sound, NumberInv, [Next]_vars
  PROVE  NumberInv'
<1>0. StateOK
  BY DEF StateInv
<1>1. ASSUME NEW p \in Ops, state'[p] = "Initial"
      PROVE  delivered'[p] = <<>> /\ posted'[p] = 0
  <2>1. state[p] = "Initial" /\ delivered'[p] = delivered[p]
    <3>1. CASE Undisturbed(p)
      BY <1>1, <3>1 DEF Undisturbed
    <3>2. CASE FirstPoll(p)
      BY <3>2 DEF FirstPoll
    <3>3. CASE PollFuture(p) \/ PollStream(p) \/ DropSubmitted(p)
      BY <1>0, <1>1, <3>3 DEF PollFuture, PollStream, NextState, DropSubmitted, StateOK
    <3>4. CASE UNCHANGED submissionVars
      BY <1>1, <3>4 DEF submissionVars
    <3> QED
      BY <3>1, <3>2, <3>3, <3>4, StepDisturbs DEF Disturbs
  <2>2. stage[Op(p)] # "kernel"
    BY <2>1 DEF Sound, KeyInv, PushedOnce
  <2>3. posted'[p] = posted[p]
    BY <2>2, PostedSteps
  <2> QED
    BY <2>1, <2>3 DEF NumberInv
<1>2. ASSUME NEW p \in Ops, state'[p] = "Submitted", ~FirstPoll(p)
      PROVE  Numbered(p)'
  <2>1. /\ state[p] = "Submitted" /\ Numbered(p)
        /\ Received(p) \in Nat /\ Posted(p) \in Nat
    BY <1>2, ReceivedSteps, ReceivedNat DEF NumberInv
  <2>2. Received(p)' = IF Reap /\ Head(cq).req = Op(p) THEN Received(p) + 1 ELSE Received(p)
    BY <1>2, ReceivedSteps
  <2>3. CASE ~Reap /\ UNCHANGED cq /\ Posted(p)' = Posted(p)
    BY <2>1, <2>2, <2>3 DEF Numbered
  <2>4. ASSUME ~Reap, NEW c \in Cqes, cq' = Append(cq, c),
               IF c.req = Op(p) THEN c.n = Posted(p) + 1 /\ Posted(p)' = Posted(p) + 1
                                ELSE Posted(p)' = Posted(p)
        PROVE  Numbered(p)'
    BY <1>0, <2>1, <2>2, <2>4, NumberedPost
  <2>5. CASE Reap /\ Posted(p)' = Posted(p)
    <3>1. cq # <<>> /\ cq' = Tail(cq)
      BY <2>5 DEF Reap, Pop
    <3> QED
      BY <1>0, <2>1, <2>2, <2>5, <3>1, NumberedPop
  <2> QED
    BY <2>3, <2>4, <2>5, PostedSteps
<1> QED
  BY <1>1, <1>2, NumberedFirst DEF NumberInv

(* Nothing is posted or received in a new ring. *)
LEMMA NumberInit ==
  ASSUME Init
  PROVE  NumberInv
BY DEF Init, InitRing, InitUring, NumberInv

(* NumberInv is inductive on top of IInv: the results of a waiting          *)
(* operation are those in its mailbox and then those in the completion      *)
(* queue, each once and in the order they were posted (ring/mod.rs:         *)
(* handle_completions; completion.rs: try_notify).                          *)
THEOREM NumbersInductive ==
  ASSUME DropArmed = FALSE
  PROVE  Spec => []NumberInv
<1>1. Init => NumberInv
  BY NumberInit
<1>2. IInv /\ NumberInv /\ [Next]_vars => NumberInv'
  <2> SUFFICES ASSUME IInv, NumberInv, [Next]_vars
               PROVE  NumberInv'
    OBVIOUS
  <2>1. CASE Stopped
    <3>1. UNCHANGED <<state, slab, queues, stage, userData, posted, cq, delivered>>
      BY <2>1, StoppedIsFinal DEF vars, completionVars, uringVars, submissionVars
    <3>2. \A o \in Ops : Received(o)' = Received(o) /\ Posted(o)' = Posted(o)
      BY <3>1 DEF Received, Posted, BoxOf, KeyOf
    <3> QED
      BY <3>1, <3>2 DEF NumberInv, Numbered
  <2>2. CASE Sound
    BY <2>2, NumberNext DEF IInv
  <2> QED
    BY <2>1, <2>2 DEF IInv
<1> QED
  BY <1>1, <1>2, IInvInductive, PTL DEF Spec

(***************************************************************************)
(* The refinement.                                                         *)
(***************************************************************************)
(* The mailbox of p does not change. *)
Still(p) ==
  /\ PhaseOf(p)' = PhaseOf(p)
  /\ BoxOf(p)' = BoxOf(p)
  /\ delivered'[p] = delivered[p]

(* What a step does not disturb keeps its mailbox. *)
LEMMA UndisturbedIsStill ==
  ASSUME NEW p \in Ops, StateInv, Undisturbed(p), state'[p] = state[p]
  PROVE  Still(p)
<1>1. CASE state[p] = "Submitted"
  <2>1. PICK k \in Keys :
          /\ KeyOf(p) = k /\ userData'[Op(p)] = k
          /\ slab'[k] = slab[k] /\ BoxAt(k)' = BoxAt(k)
    BY <1>1 DEF Undisturbed
  <2>2. BoxOf(p) = BoxAt(k)
    BY <1>1, <2>1 DEF BoxOf, BoxAt
  <2>3. BoxOf(p)' = BoxAt(k)'
    BY <1>1, <2>1 DEF BoxOf, BoxAt, KeyOf
  <2>4. PhaseOf(p)' = PhaseOf(p)
    BY <1>1, <2>1 DEF PhaseOf, KeyOf
  <2> QED
    BY <2>1, <2>2, <2>3, <2>4 DEF Still, Undisturbed
<1>2. CASE state[p] # "Submitted"
  <2>1. BoxOf(p) = <<>> /\ BoxOf(p)' = <<>>
    BY <1>2 DEF BoxOf
  <2>2. PhaseOf(p)' = PhaseOf(p)
    <3>1. state[p] \in {"Initial", "Dropped", "Completed"}
      BY <1>2 DEF StateInv, StateOK
    <3> QED
      BY <3>1 DEF PhaseOf
  <2> QED
    BY <1>2, <2>1, <2>2 DEF Still, Undisturbed
<1> QED
  BY <1>1, <1>2

(* A step that changes the mailbox of o only. *)
LEMMA OneMailbox ==
  ASSUME NEW o \in Ops, \A p \in Ops : p # o => Still(p), StateInv, StateInv',
         \/ Still(o)
         \/ /\ PhaseOf(o) = "idle" /\ PhaseOf(o)' = "open"
            /\ BoxOf(o)' = BoxOf(o) /\ delivered'[o] = delivered[o]
         \/ /\ PhaseOf(o) \in {"open", "sealed"} /\ PhaseOf(o)' = PhaseOf(o) /\ BoxOf(o) # <<>>
            /\ delivered'[o] = Append(delivered[o], Head(BoxOf(o))) /\ BoxOf(o)' = Tail(BoxOf(o))
         \/ /\ PhaseOf(o)' = "dropped" /\ BoxOf(o)' = <<>> /\ delivered'[o] = delivered[o]
         \/ /\ PhaseOf(o) = "open" /\ delivered'[o] = delivered[o]
            /\ \E m \in BOOLEAN :
                 /\ m => o \in Multishot
                 /\ BoxOf(o)' = Append(BoxOf(o), Result(o, Len(delivered[o]) + Len(BoxOf(o)) + 1, m))
                 /\ PhaseOf(o)' = IF m THEN "open" ELSE "sealed"
  PROVE  [Promise!Next]_(Promise!mailboxVars)
<1> DEFINE ph == [p \in Ops |-> PhaseOf(p)]
           bx == [p \in Ops |-> BoxOf(p)]
<1>0. /\ delivered \in [Ops -> Seq(Results)] /\ delivered' \in [Ops -> Seq(Results')]
  BY DEF StateInv, StateOK
<1>1. /\ ph' = [ph EXCEPT ![o] = PhaseOf(o)']
      /\ bx' = [bx EXCEPT ![o] = BoxOf(o)']
      /\ delivered' = [delivered EXCEPT ![o] = delivered'[o]]
  BY <1>0 DEF Still
<1>2. ph[o] = PhaseOf(o) /\ bx[o] = BoxOf(o)
  OBVIOUS
<1> HIDE DEF ph, bx
<1>3. CASE Still(o)
  <2>1. UNCHANGED <<ph, bx, delivered>>
    BY <1>0, <1>3 DEF Still, ph, bx
  <2> QED
    BY <2>1 DEF Promise!mailboxVars, ph, bx
<1>4. CASE /\ PhaseOf(o) = "idle" /\ PhaseOf(o)' = "open"
           /\ BoxOf(o)' = BoxOf(o) /\ delivered'[o] = delivered[o]
  <2>1. /\ ph[o] = "idle" /\ ph' = [ph EXCEPT ![o] = "open"] /\ UNCHANGED <<bx, delivered>>
    BY <1>0, <1>1, <1>2, <1>4 DEF bx
  <2>2. Promise!Open(o)
    BY <2>1 DEF Promise!Open, ph, bx
  <2> QED
    BY <2>2 DEF Promise!Next
<1>5. CASE /\ PhaseOf(o) \in {"open", "sealed"} /\ PhaseOf(o)' = PhaseOf(o) /\ BoxOf(o) # <<>>
           /\ delivered'[o] = Append(delivered[o], Head(BoxOf(o))) /\ BoxOf(o)' = Tail(BoxOf(o))
  <2>1. /\ ph[o] \in {"open", "sealed"} /\ bx[o] # <<>>
        /\ delivered' = [delivered EXCEPT ![o] = Append(@, Head(bx[o]))]
        /\ bx' = [bx EXCEPT ![o] = Tail(@)]
        /\ UNCHANGED ph
    <3>1. UNCHANGED ph
      BY <1>5 DEF Still, ph
    <3> QED
      BY <1>0, <1>1, <1>2, <1>5, <3>1
  <2>2. Promise!Take(o)
    BY <2>1 DEF Promise!Take, ph, bx
  <2> QED
    BY <2>2 DEF Promise!Next
<1>6. CASE PhaseOf(o)' = "dropped" /\ BoxOf(o)' = <<>> /\ delivered'[o] = delivered[o]
  <2>1. /\ ph' = [ph EXCEPT ![o] = "dropped"] /\ bx' = [bx EXCEPT ![o] = <<>>]
        /\ UNCHANGED delivered
    BY <1>0, <1>1, <1>6
  <2>2. Promise!Drop(o)
    BY <2>1 DEF Promise!Drop, ph, bx
  <2> QED
    BY <2>2 DEF Promise!Next
<1>7. ASSUME PhaseOf(o) = "open", delivered'[o] = delivered[o], NEW m \in BOOLEAN,
             m => o \in Multishot,
             BoxOf(o)' = Append(BoxOf(o), Result(o, Len(delivered[o]) + Len(BoxOf(o)) + 1, m)),
             PhaseOf(o)' = IF m THEN "open" ELSE "sealed"
      PROVE  Promise!Next
  <2>1. /\ ph[o] = "open" /\ ph' = [ph EXCEPT ![o] = IF m THEN "open" ELSE "sealed"]
        /\ bx' = [bx EXCEPT ![o] = Append(@, Result(o, Len(delivered[o]) + Len(@) + 1, m))]
        /\ UNCHANGED delivered
    BY <1>0, <1>1, <1>2, <1>7
  <2>2. Promise!Receive(o, m)
    BY <1>7, <2>1 DEF Promise!Receive, Promise!Result, Result, ph, bx
  <2> QED
    BY <2>2 DEF Promise!Next
<1> QED
  BY <1>3, <1>4, <1>5, <1>6, <1>7

(* The five ways in which a step of the reactor disturbs a submission are   *)
(* the five things that can happen to its mailbox.                          *)
LEMMA DisturbedMailbox ==
  ASSUME DropArmed = FALSE, StateInv, StateInv', Sound, NumberInv, NEW o \in Ops, Disturbs(o),
         \A p \in Ops : p # o => Still(p)
  PROVE  [Promise!Next]_(Promise!mailboxVars)
<1>0. StateOK
  BY DEF StateInv
<1>1. CASE FirstPoll(o)
  <2>1. PICK k \in Keys :
          /\ slab'[k] = Vacant(o) /\ state[o] = "Initial" /\ UNCHANGED delivered
          /\ (state'[o] = "Submitted" /\ userData'[Op(o)] = k) \/ UNCHANGED state
    BY <1>1, SubmitFacts
  <2>2. PhaseOf(o) = "idle" /\ BoxOf(o) = <<>>
    BY <2>1 DEF PhaseOf, BoxOf
  <2>3. CASE UNCHANGED state
    <3>1. PhaseOf(o)' = "idle" /\ BoxOf(o)' = <<>>
      BY <2>1, <2>3 DEF PhaseOf, BoxOf
    <3> QED
      BY <2>1, <2>2, <3>1, OneMailbox DEF Still
  <2>4. CASE state'[o] = "Submitted" /\ userData'[Op(o)] = k
    <3>1. PhaseOf(o)' = "open" /\ BoxOf(o)' = <<>>
      BY <2>1, <2>4 DEF PhaseOf, BoxOf, KeyOf, Vacant
    <3> QED
      BY <2>1, <2>2, <3>1, OneMailbox
  <2> QED
    BY <2>1, <2>3, <2>4
<1>2. CASE PollFuture(o) \/ PollStream(o)
  <2>1. PICK k \in Keys, r \in Results :
          /\ k = KeyOf(o) /\ state[o] = "Submitted"
          /\ r = Head(BoxAt(k)) /\ BoxAt(k)' = Tail(BoxAt(k)) /\ BoxAt(k) # <<>>
          /\ IF r.more THEN slab' = slab ELSE slab'[k] = Finished
          /\ slab[k].state \in {"Single", "Multiple"}
          /\ slab[k].state = "Multiple" /\ slab[k].more => r.more
          /\ slab[k].state = "Single" => ~r.more
          /\ state'[o] = IF r.more THEN "Submitted" ELSE "Completed"
          /\ delivered' = [delivered EXCEPT ![o] = Append(@, r)]
          /\ UNCHANGED uringVars
    BY <1>2, TakeFacts
  <2>2. BoxOf(o) = BoxAt(k) /\ KeyOf(o)' = k
    BY <2>1 DEF BoxOf, BoxAt, KeyOf, uringVars
  <2>3. PhaseOf(o) = IF slab[k].state = "Multiple" /\ slab[k].more THEN "open" ELSE "sealed"
    BY <2>1 DEF PhaseOf
  <2>4. PhaseOf(o)' = PhaseOf(o) /\ BoxOf(o)' = BoxAt(k)'
    <3>1. CASE r.more
      BY <2>1, <2>2, <2>3, <3>1 DEF PhaseOf, BoxOf, BoxAt
    <3>2. CASE ~r.more
      BY <2>1, <2>2, <2>3, <3>2 DEF PhaseOf, BoxOf, BoxAt, Finished
    <3> QED
      BY <3>1, <3>2
  <2>5. delivered'[o] = Append(delivered[o], r)
    BY <1>0, <2>1 DEF StateOK
  <2> QED
    BY <2>1, <2>2, <2>3, <2>4, <2>5, OneMailbox
<1>3. CASE DropSubmitted(o)
  <2>1. state'[o] = "Dropped" /\ UNCHANGED delivered
    BY <1>0, <1>3 DEF DropSubmitted, StateOK
  <2>2. PhaseOf(o)' = "dropped" /\ BoxOf(o)' = <<>>
    BY <2>1 DEF PhaseOf, BoxOf
  <2> QED
    BY <2>1, <2>2, OneMailbox
<1>4. ASSUME Reap, UNCHANGED submissionVars, NEW k \in Keys, NEW r \in Results, Notified(o, k, r)
      PROVE  [Promise!Next]_(Promise!mailboxVars)
  <2>1. /\ Head(cq).req = Op(o) /\ r = Result(o, Head(cq).n, Head(cq).more)
        /\ k = KeyOf(o) /\ Armed(o) /\ ArmedEntry(o)
        /\ \/ slab[k].state = "Vacant" /\ r.more /\ slab'[k] = Multiple(o, NextHandle, TRUE)
           \/ slab[k].state = "Vacant" /\ ~r.more /\ slab'[k] = Single(r)
           \/ slab[k].state = "Multiple" /\ slab'[k] = Multiple(o, slab[k].handle, r.more)
           \/ slab[k].state = "Cancelled"
        /\ slab[k].state # "Cancelled" => BoxAt(k)' = Append(BoxAt(k), r)
        /\ r.more => o \in Multishot
    BY <1>4 DEF Notified
  <2>2. UNCHANGED <<state, delivered, userData>> /\ cq # <<>>
    BY <1>4 DEF submissionVars, Reap, Pop
  <2>3. KeyOf(o)' = k
    BY <2>1, <2>2 DEF KeyOf
  <2>4. CASE state[o] # "Submitted"
    <3>1. PhaseOf(o)' = PhaseOf(o)
      BY <1>0, <2>2, <2>4 DEF PhaseOf, StateOK
    <3>2. BoxOf(o) = <<>> /\ BoxOf(o)' = <<>>
      BY <2>2, <2>4 DEF BoxOf
    <3> QED
      BY <2>2, <3>1, <3>2, OneMailbox DEF Still
  <2>5. CASE state[o] = "Submitted"
    <3>1. slab[k].state # "Cancelled"
      BY <2>1, <2>5 DEF Sound, KeyInv, Entries
    <3>2. PhaseOf(o) = "open"
      BY <2>1, <2>5, <3>1 DEF PhaseOf, ArmedEntry
    <3>3. PhaseOf(o)' = IF r.more THEN "open" ELSE "sealed"
      BY <2>1, <2>2, <2>3, <2>5, <3>1 DEF PhaseOf, Multiple, Single
    <3>4. BoxOf(o) = BoxAt(k) /\ BoxOf(o)' = BoxAt(k)'
      BY <2>1, <2>2, <2>3, <2>5 DEF BoxOf, BoxAt
    <3>5. r = Result(o, Len(delivered[o]) + Len(BoxOf(o)) + 1, r.more)
      <4>1. Head(cq).n = Received(o) + 1
        BY <1>0, <2>1, <2>2, <2>5, ReceivedNat, HeadIsNext DEF NumberInv
      <4> QED
        BY <2>1, <4>1 DEF Received, Result
    <3>6. r.more \in BOOLEAN
      BY DEF Results
    <3> QED
      BY <2>1, <2>2, <3>1, <3>2, <3>3, <3>4, <3>5, <3>6, OneMailbox
  <2> QED
    BY <2>4, <2>5
<1> QED
  BY <1>1, <1>2, <1>3, <1>4 DEF Disturbs

(* Every step of the reactor is a step of the mailboxes, or none.           *)
LEMMA MailboxStep ==
  ASSUME DropArmed = FALSE, StateInv, StateInv', Sound, NumberInv, [Next]_vars
  PROVE  [Promise!Next]_(Promise!mailboxVars)
<1>0. StateOK /\ StateOK'
  BY DEF StateInv
<1>1. ASSUME NEW o \in Ops, Disturbs(o), \A p \in Ops : p # o => Undisturbed(p)
      PROVE  [Promise!Next]_(Promise!mailboxVars)
  <2>1. \A p \in Ops : p # o => state'[p] = state[p]
    <3>1. CASE UNCHANGED state
      BY <3>1
    <3>2. CASE \E s : state' = [state EXCEPT ![o] = s]
      BY <1>0, <3>2 DEF StateOK
    <3> QED
      BY <1>1, <3>1, <3>2 DEF Disturbs, FirstPoll, PollFuture, PollStream, DropSubmitted, submissionVars
  <2>2. \A p \in Ops : p # o => Still(p)
    BY <1>1, <2>1, UndisturbedIsStill
  <2> QED
    BY <1>1, <2>2, DisturbedMailbox
<1>2. ASSUME Quiet, \A p \in Ops : Undisturbed(p)
      PROVE  [Promise!Next]_(Promise!mailboxVars)
  <2>1. CASE UNCHANGED state
    <3>1. \A p \in Ops : Still(p)
      BY <1>2, <2>1, UndisturbedIsStill
    <3>2. [p \in Ops |-> PhaseOf(p)'] = [p \in Ops |-> PhaseOf(p)]
          /\ [p \in Ops |-> BoxOf(p)'] = [p \in Ops |-> BoxOf(p)]
      BY <3>1 DEF Still
    <3>3. UNCHANGED delivered
      BY <1>0, <3>1 DEF Still, StateOK
    <3> QED
      BY <3>2, <3>3 DEF Promise!mailboxVars
  <2>2. ASSUME NEW o \in Ops, DropInitial(o) \/ DropCompleted(o)
        PROVE  [Promise!Next]_(Promise!mailboxVars)
    <3>1. /\ state' = [state EXCEPT ![o] = "Dropped"] /\ UNCHANGED delivered
      BY <2>2 DEF DropInitial, DropCompleted
    <3>2. state'[o] = "Dropped" /\ \A p \in Ops : p # o => state'[p] = state[p]
      BY <1>0, <3>1 DEF StateOK
    <3>3. \A p \in Ops : p # o => Still(p)
      BY <1>2, <3>2, UndisturbedIsStill
    <3>4. PhaseOf(o)' = "dropped" /\ BoxOf(o)' = <<>>
      BY <3>2 DEF PhaseOf, BoxOf
    <3> QED
      BY <3>1, <3>3, <3>4, OneMailbox
  <2> QED
    BY <1>2, <2>1, <2>2 DEF Quiet, PollPending, submissionVars, vars
<1> QED
  BY <1>1, <1>2, StepDisturbs

(* A new ring has idle, empty mailboxes. *)
LEMMA MailboxInit ==
  ASSUME Init
  PROVE  Promise!Init
<1>1. /\ state = [o \in Ops |-> "Initial"] /\ delivered = [o \in Ops |-> <<>>]
  BY DEF Init
<1>2. \A o \in Ops : PhaseOf(o) = "idle" /\ BoxOf(o) = <<>>
  BY <1>1 DEF PhaseOf, BoxOf
<1> QED
  BY <1>1, <1>2 DEF Promise!Init

(* The reactor implements private mailboxes: whatever keys and result       *)
(* queues are reused, a submission gets each of its own results once, in    *)
(* order, and no other (completion.rs; ring/mod.rs: handle_completions).    *)
THEOREM MailboxRefined ==
  ASSUME DropArmed = FALSE
  PROVE  Spec => RefinesMailbox
<1>1. Init => Promise!Init
  BY MailboxInit
<1>2. IInv /\ IInv' /\ NumberInv /\ [Next]_vars => [Promise!Next]_(Promise!mailboxVars)
  <2> SUFFICES ASSUME IInv, IInv', NumberInv, [Next]_vars
               PROVE  [Promise!Next]_(Promise!mailboxVars)
    OBVIOUS
  <2>1. CASE Stopped
    <3>1. UNCHANGED <<state, slab, queues, userData, delivered>>
      BY <2>1, StoppedIsFinal DEF vars, completionVars, uringVars, submissionVars
    <3>2. \A p \in Ops : PhaseOf(p)' = PhaseOf(p) /\ BoxOf(p)' = BoxOf(p)
      BY <3>1 DEF PhaseOf, BoxOf, KeyOf
    <3> QED
      BY <3>1, <3>2 DEF Promise!mailboxVars
  <2>2. CASE Sound
    BY <2>2, MailboxStep DEF IInv
  <2> QED
    BY <2>1, <2>2 DEF IInv
<1> QED
  BY <1>1, <1>2, IInvInductive, NumbersInductive, PTL DEF Spec, RefinesMailbox, Promise!Spec
===============================================================================
