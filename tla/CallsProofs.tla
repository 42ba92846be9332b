------------------------------- MODULE CallsProofs -------------------------------
(***************************************************************************)
(* Calls that run, fail, repeat and are dropped keep the memory the kernel *)
(* uses, and every descriptor they make is accounted for, for any number   *)
(* of callers, addresses and repetitions.                                  *)
(***************************************************************************)
EXTENDS Calls, TLAPS

-------------------------------------------------------------------------------
(***************************************************************************)
(* The tables.                                                             *)
(***************************************************************************)
Outcomes(o) == Successes(o) \cup Failures(o) \cup {ECANCELED}

(* What the rows of OpTable have in common: memory that is used until the  *)
(* operation completes is handed over, and a success that makes a          *)
(* descriptor is never decoded as an error.                                *)
GoodOp(o) ==
  /\ o.args \subseteq Pieces /\ o.data \subseteq Pieces
  /\ o.data \subseteq o.hands
  /\ Outcomes(o) \subseteq Int
  /\ o.makes # "none" => \A r \in Successes(o) : ~Rejects(o.answer, r)

(* And those of CallTable. *)
GoodCall(f) ==
  /\ Len(f.steps) \in Nat \ {0}
  /\ \A i \in 1 .. Len(f.steps) : GoodOp(f.steps[i])
  /\ f.again = "items" => /\ Len(f.steps) = 1 /\ f.gives
                          /\ Memory(f.steps[1]) = {}
  /\ f.again = "last" => f.steps[Len(f.steps)].makes = "none"

LEMMA PlainOps ==
  /\ GoodOp(Nop) /\ GoodOp(Timeout)
  /\ GoodOp(Read) /\ GoodOp(Write)
  /\ GoodOp(FSync) /\ GoodOp(FTruncate) /\ GoodOp(FAdvise)
  /\ GoodOp(Statx) /\ GoodOp(MkDirAt) /\ GoodOp(LinkAt)
  /\ GoodOp(SymlinkAt) /\ GoodOp(UnlinkAt)
  /\ GoodOp(Bind) /\ GoodOp(Connect) /\ GoodOp(Listen) /\ GoodOp(Shutdown)
<1> USE CallsAssumption DEF GoodOp, Outcomes, Successes, Failures,
    Rejects, Pieces, ERROR, EEXIST, ECANCELED, ETIME, Plain
<1>1. GoodOp(Nop)
  BY DEF Nop
<1>2. GoodOp(Read)
  BY DEF Read
<1>3. GoodOp(Write)
  BY DEF Write
<1>4. GoodOp(FSync)
  BY DEF FSync
<1>5. GoodOp(FAdvise)
  BY DEF FAdvise
<1>6. GoodOp(Statx)
  BY DEF Statx
<1>7. GoodOp(MkDirAt)
  BY DEF MkDirAt
<1>8. GoodOp(LinkAt)
  BY DEF LinkAt
<1>9. GoodOp(Bind)
  BY DEF Bind
<1>10. GoodOp(Connect)
  BY DEF Connect
<1>11. GoodOp(Listen)
  BY DEF Listen
<1>12. GoodOp(Shutdown)
  BY DEF Shutdown
<1>13. GoodOp(Timeout)
  BY DEF Timeout
<1> QED
  BY <1>1, <1>2, <1>3, <1>4, <1>5, <1>6, <1>7, <1>8, <1>9, <1>10, <1>11, <1>12, <1>13
  DEF FTruncate, FSync, UnlinkAt, SymlinkAt

LEMMA MakingOps ==
  /\ GoodOp(OpenAt) /\ GoodOp(OpenAtAuto)
  /\ GoodOp(Socket) /\ GoodOp(SocketAuto)
  /\ GoodOp(Accept) /\ GoodOp(AcceptAuto)
  /\ GoodOp(AcceptMulti) /\ GoodOp(AcceptMultiAuto)
  /\ GoodOp(RegisterFile) /\ GoodOp(InstallSlot)
<1> USE CallsAssumption DEF GoodOp, Outcomes, Successes, Failures,
    Rejects, Pieces, ERROR, EEXIST, ECANCELED, ETIME, Plain
<1>1. GoodOp(OpenAt)
  BY DEF OpenAt
<1>2. GoodOp(OpenAtAuto)
  BY DEF OpenAtAuto, OpenAt
<1>3. GoodOp(Socket)
  BY DEF Socket
<1>4. GoodOp(SocketAuto)
  BY DEF SocketAuto, Socket
<1>5. GoodOp(Accept)
  BY DEF Accept
<1>6. GoodOp(AcceptAuto)
  BY DEF AcceptAuto, Accept
<1>7. GoodOp(AcceptMulti)
  BY DEF AcceptMulti
<1>8. GoodOp(AcceptMultiAuto)
  BY DEF AcceptMultiAuto
<1>9. GoodOp(RegisterFile)
  BY DEF RegisterFile
<1>10. GoodOp(InstallSlot)
  BY DEF InstallSlot
<1> QED
  BY <1>1, <1>2, <1>3, <1>4, <1>5, <1>6, <1>7, <1>8, <1>9, <1>10

(* A call of one operation that gives nothing, or gives what it has made. *)
LEMMA OneStep ==
  ASSUME NEW o, GoodOp(o)
  PROVE  GoodCall(Call(<<o>>)) /\ GoodCall(Giving(<<o>>))
BY DEF GoodCall, Call, Giving

LEMMA FileCalls ==
  /\ GoodCall(OpenFile) /\ GoodCall(OpenDirect) /\ GoodCall(FileMetadata)
  /\ GoodCall(Sync) /\ GoodCall(Truncate) /\ GoodCall(Advise)
  /\ GoodCall(MakeDirect) /\ GoodCall(MakeRegular)
  /\ GoodCall(CreateFile) /\ GoodCall(CreateDir) /\ GoodCall(HardLink)
  /\ GoodCall(SoftLink) /\ GoodCall(RemovePath)
BY PlainOps, MakingOps, OneStep
   DEF OpenFile, OpenDirect, FileMetadata, Sync, Truncate, Advise, MakeDirect, MakeRegular,
       CreateFile, CreateDir, HardLink, SoftLink, RemovePath

LEMMA OtherCalls ==
  /\ GoodCall(AcceptStream) /\ GoodCall(AcceptDirect) /\ GoodCall(ShutdownHow)
  /\ GoodCall(Sleep) /\ GoodCall(Instant)
BY PlainOps, MakingOps, OneStep
   DEF AcceptStream, AcceptDirect, ShutdownHow, Sleep, Instant

LEMMA LongCalls ==
  /\ GoodCall(ReadPath) /\ GoodCall(WritePath) /\ GoodCall(PathMetadata)
  /\ GoodCall(CreateDirAll) /\ GoodCall(BindListener)
  /\ GoodCall(ConnectStream) /\ GoodCall(ConnectDirect)
<1> USE PlainOps, MakingOps DEF GoodCall, Call, Giving
<1>1. Read.makes = "none" /\ Write.makes = "none" /\ MkDirAt.makes = "none"
  BY DEF Read, Write, MkDirAt, Plain
<1>2. GoodCall(ReadPath)
  BY <1>1 DEF ReadPath
<1>3. GoodCall(WritePath)
  BY <1>1 DEF WritePath
<1>4. GoodCall(PathMetadata)
  BY DEF PathMetadata
<1>5. GoodCall(CreateDirAll)
  BY <1>1 DEF CreateDirAll
<1>6. GoodCall(BindListener)
  BY DEF BindListener
<1>7. GoodCall(ConnectStream)
  BY DEF ConnectStream
<1>8. GoodCall(ConnectDirect)
  BY DEF ConnectDirect
<1> QED
  BY <1>2, <1>3, <1>4, <1>5, <1>6, <1>7, <1>8

LEMMA StreamCalls ==
  GoodCall(Incoming) /\ GoodCall(DirectIncoming)
<1>1. Memory(AcceptMulti) = {} /\ Memory(AcceptMultiAuto) = {}
  BY DEF Memory, AcceptMulti, AcceptMultiAuto, Plain
<1> QED
  BY <1>1, MakingOps DEF GoodCall, Giving, Call, Incoming, DirectIncoming

(* The tables are as the calls need them. *)
LEMMA Tables ==
  ASSUME NEW f \in CallsMade
  PROVE  GoodCall(f)
BY CallsAssumption, FileCalls, OtherCalls, LongCalls, StreamCalls DEF AllCalls

-------------------------------------------------------------------------------
(***************************************************************************)
(* The invariant.                                                          *)
(***************************************************************************)
Places == {"none", "cqe", "stored", "owned", "given", "closing", "closed", "lost"}

Domains ==
  /\ call \in [Clients -> CallsMade \cup {None}]
  /\ at \in [Clients -> Nat \ {0}]
  /\ turn \in [Clients -> Turns]
  /\ state \in [Clients -> {"new", "awaiting", "returned", "failed", "dropped"}]
  /\ op \in [Clients -> {"none", "queued", "kernel", "cqe", "stored", "done"}]
  /\ ret \in [Clients -> Int]
  /\ alive \in [Clients -> SUBSET Pieces]
  /\ left \in [Clients -> SUBSET Pieces]
  /\ made \in [Clients -> [Turns -> Places]]
  /\ panic \in BOOLEAN

(* Where a call is, and its operation. *)
Place(c) ==
  /\ state[c] = "new" => at[c] = 1 /\ op[c] = "none" /\ alive[c] = {}
  /\ state[c] # "new" =>
       /\ call[c] \in CallsMade /\ at[c] \in 1 .. Len(call[c].steps)
       /\ op[c] # "none"
  /\ op[c] = "stored" => state[c] = "awaiting"
  /\ state[c] \in {"returned", "failed"} => op[c] = "done" /\ alive[c] = {}
  /\ op[c] \in {"cqe", "stored"} => ret[c] \in Outcomes(Step(c))

(* Its memory: all of it while the call awaits, later what was handed over. *)
Keeps(c) ==
  /\ state[c] # "new" => alive[c] \subseteq Memory(Step(c))
  /\ op[c] \in {"queued", "kernel"} => Step(c).data \subseteq alive[c]
  /\ op[c] \in {"queued", "kernel"} /\ state[c] = "awaiting" =>
       Memory(Step(c)) \subseteq alive[c]

(* Its descriptors: one that is on its way to the future is the success of *)
(* the operation that is there now, but for those of a stream.             *)
Accounts(c) ==
  \A i \in Turns :
    /\ state[c] = "new" => made[c][i] = "none"
    /\ made[c][i] \in {"cqe", "stored"} /\ ~Multi(c) =>
         /\ i = turn[c] /\ op[c] = made[c][i]
         /\ Step(c).makes # "none" /\ ret[c] \in Successes(Step(c))
    /\ made[c][i] \in {"stored", "owned"} => state[c] = "awaiting"
    /\ made[c][i] = "owned" => ~Multi(c) /\ (call[c].again = "last" \/ i = turn[c])
    /\ made[c][i] = "given" => call[c].gives /\ (Multi(c) \/ state[c] = "returned")
    /\ made[c][i] = "lost" => state[c] = "dropped" \/ panic
    /\ made[c][i] = "cqe" => op[c] \in {"kernel", "cqe"}

Client(c) == Place(c) /\ Keeps(c) /\ Accounts(c)

CallsInv == Domains /\ \A c \in Clients : Client(c)

(* What a step of another client leaves as it is. *)
Stays(d) ==
  /\ call'[d] = call[d] /\ at'[d] = at[d] /\ turn'[d] = turn[d] /\ state'[d] = state[d]
  /\ op'[d] = op[d] /\ ret'[d] = ret[d] /\ alive'[d] = alive[d] /\ made'[d] = made[d]
  /\ panic => panic'

LEMMA StaysClient ==
  ASSUME NEW d, Client(d), Stays(d)
  PROVE  Client(d)'
<1>1. Step(d)' = Step(d) /\ (Multi(d)' <=> Multi(d))
  BY DEF Stays, Step, Multi
<1>2. Place(d)'
  BY <1>1 DEF Client, Place, Stays
<1>3. Keeps(d)'
  BY <1>1 DEF Client, Keeps, Stays
<1>4. Accounts(d)'
  BY <1>1 DEF Client, Accounts, Stays
<1> QED
  BY <1>2, <1>3, <1>4 DEF Client

(* The invariant after a step of one client. *)
LEMMA OneClient ==
  ASSUME CallsInv, Domains', NEW c \in Clients, Client(c)',
         \A d \in Clients \ {c} : Stays(d)
  PROVE  CallsInv'
<1>1. ASSUME NEW d \in Clients
      PROVE  Client(d)'
  <2>1. CASE d = c
    BY <2>1
  <2>2. CASE d # c
    BY <2>2, StaysClient DEF CallsInv
  <2> QED
    BY <2>1, <2>2
<1> QED
  BY <1>1 DEF CallsInv

(* What the tables say of a client that has made a call. *)
LEMMA Known ==
  ASSUME CallsInv, NEW c \in Clients, state[c] # "new"
  PROVE  /\ call[c] \in CallsMade /\ GoodCall(call[c]) /\ GoodOp(Step(c))
         /\ at[c] \in 1 .. Len(call[c].steps)
         /\ Memory(Step(c)) \subseteq Pieces
<1>1. call[c] \in CallsMade /\ at[c] \in 1 .. Len(call[c].steps)
  BY DEF CallsInv, Client, Place
<1>2. GoodCall(call[c])
  BY <1>1, Tables
<1>3. GoodOp(Step(c))
  BY <1>1, <1>2 DEF GoodCall, Step
<1> QED
  BY <1>1, <1>2, <1>3 DEF GoodOp, Memory

(* A stream gives what it makes, and has one operation, without memory.   *)
LEMMA OneOperation ==
  ASSUME CallsInv, NEW c \in Clients, state[c] # "new", Multi(c)
  PROVE  Memory(Step(c)) = {} /\ call[c].gives /\ alive[c] = {}
<1>1. GoodCall(call[c]) /\ at[c] \in 1 .. Len(call[c].steps)
  BY Known
<1>2. Memory(Step(c)) = {} /\ call[c].gives
  BY <1>1 DEF GoodCall, Multi, Step
<1> QED
  BY <1>2 DEF CallsInv, Client, Keeps

(* A descriptor moves from one place to another. *)
LEMMA MovedIn ==
  ASSUME CallsInv, NEW c \in Clients, NEW p \in Places, NEW q \in Places
  PROVE  /\ Moved(c, p, q) \in [Turns -> Places]
         /\ \A i \in Turns : Moved(c, p, q)[i] = IF made[c][i] = p THEN q ELSE made[c][i]
BY DEF CallsInv, Domains, Moved

LEMMA Begins ==
  ASSUME Init
  PROVE  CallsInv
<1>1. 1 \in Turns /\ 1 \in Nat \ {0}
  BY CallsAssumption DEF Turns
<1>2. Domains
  <2>1. panic \in BOOLEAN
    BY DEF Init
  <2>2. made \in [Clients -> [Turns -> Places]]
    BY DEF Init, Places
  <2> QED
    BY <1>1, <2>1, <2>2 DEF Init, Domains
<1>3. \A c \in Clients : Client(c)
  BY DEF Init, Client, Place, Keeps, Accounts
<1> QED
  BY <1>2, <1>3 DEF CallsInv

-------------------------------------------------------------------------------
(***************************************************************************)
(* The steps.                                                              *)
(***************************************************************************)
LEMMA StartStep ==
  ASSUME CallsInv, NEW c \in Clients, Start(c)
  PROVE  CallsInv'
<1>1. PICK f \in CallsMade :
        call' = [call EXCEPT ![c] = f] /\ Submit(c, f.steps[1])
  BY DEF Start
<1>2. state[c] = "new" /\ state' = [state EXCEPT ![c] = "awaiting"]
      /\ UNCHANGED <<at, turn, ret, left, made, panic>>
  BY DEF Start
<1>3. Domains /\ Client(c)
  BY DEF CallsInv
<1>4. GoodCall(f) /\ 1 \in 1 .. Len(f.steps)
  <2>1. GoodCall(f)
    BY Tables
  <2>2. Len(f.steps) \in Nat \ {0}
    BY <2>1 DEF GoodCall
  <2> QED
    BY <2>1, <2>2
<1>5. GoodOp(f.steps[1]) /\ Memory(f.steps[1]) \subseteq Pieces
  BY <1>4 DEF GoodCall, GoodOp, Memory
<1>6. op' = [op EXCEPT ![c] = "queued"] /\ alive' = [alive EXCEPT ![c] = Memory(f.steps[1])]
  BY <1>1 DEF Submit
<1>7. Domains'
  BY <1>1, <1>2, <1>3, <1>5, <1>6 DEF Domains
<1>8. /\ call'[c] = f /\ at'[c] = 1 /\ state'[c] = "awaiting" /\ op'[c] = "queued"
      /\ alive'[c] = Memory(f.steps[1]) /\ made'[c] = made[c] /\ Step(c)' = f.steps[1]
  BY <1>1, <1>2, <1>3, <1>6 DEF Domains, Client, Place, Step
<1>9. Place(c)'
  BY <1>4, <1>8 DEF Place
<1>10. Keeps(c)'
  BY <1>8 DEF Keeps, Memory
<1>11. Accounts(c)'
  BY <1>2, <1>3, <1>8 DEF Client, Accounts
<1>12. \A d \in Clients \ {c} : Stays(d)
  BY <1>1, <1>2, <1>3, <1>6 DEF Domains, Stays
<1> QED
  BY <1>7, <1>9, <1>10, <1>11, <1>12, OneClient DEF Client

LEMMA CompleteStep ==
  ASSUME CallsInv, NEW c \in Clients, Complete(c)
  PROVE  CallsInv'
<1>1. op[c] = "kernel" /\ op' = [op EXCEPT ![c] = "cqe"]
      /\ UNCHANGED <<call, at, turn, state, alive, left, panic>>
  BY DEF Complete
<1>2. Domains /\ Client(c) /\ state[c] # "new"
  BY <1>1 DEF CallsInv, Client, Place
<1>3. GoodOp(Step(c)) /\ turn[c] \in Turns
  BY <1>2, Known DEF Domains
<1>4. Step(c)' = Step(c) /\ (Multi(c)' <=> Multi(c))
  BY <1>1 DEF Step, Multi
<1>5. \A d \in Clients \ {c} : op'[d] = op[d]
  BY <1>1, <1>2 DEF Domains
<1>6. ASSUME NEW r \in Successes(Step(c)),
             ret' = [ret EXCEPT ![c] = r], made' = [made EXCEPT ![c] = Makes(c)]
      PROVE  CallsInv'
  <2>1. r \in Outcomes(Step(c)) /\ r \in Int
    BY <1>3 DEF GoodOp, Outcomes
  <2>2. /\ Makes(c) \in [Turns -> Places]
        /\ \A i \in Turns : Makes(c)[i] =
             IF i = turn[c] /\ Step(c).makes # "none" THEN "cqe" ELSE made[c][i]
    BY <1>2, <1>3 DEF Makes, Domains, Places
  <2>3. Domains'
    BY <1>1, <1>2, <1>6, <2>1, <2>2 DEF Domains
  <2>4. ret'[c] = r /\ op'[c] = "cqe" /\ made'[c] = Makes(c)
    BY <1>1, <1>2, <1>6 DEF Domains
  <2>5. Place(c)' /\ Keeps(c)'
    BY <1>1, <1>2, <1>4, <2>1, <2>4 DEF Client, Place, Keeps
  <2>6. Accounts(c)'
    BY <1>1, <1>2, <1>4, <2>2, <2>4 DEF Client, Accounts, Place
  <2>7. \A d \in Clients \ {c} : Stays(d)
    BY <1>1, <1>2, <1>5, <1>6 DEF Domains, Stays
  <2> QED
    BY <2>3, <2>5, <2>6, <2>7, OneClient DEF Client
<1>7. ASSUME NEW r \in Failures(Step(c)) \cup Canceled(c),
             ret' = [ret EXCEPT ![c] = r], UNCHANGED made
      PROVE  CallsInv'
  <2>1. r \in Outcomes(Step(c)) /\ r \in Int
    BY <1>3 DEF GoodOp, Outcomes, Canceled
  <2>2. Domains'
    BY <1>1, <1>2, <1>7, <2>1 DEF Domains
  <2>3. ret'[c] = r /\ op'[c] = "cqe" /\ made'[c] = made[c]
    BY <1>1, <1>2, <1>7 DEF Domains
  <2>4. Place(c)' /\ Keeps(c)'
    BY <1>1, <1>2, <1>4, <2>1, <2>3 DEF Client, Place, Keeps
  <2>5. Accounts(c)'
    BY <1>1, <1>2, <1>4, <2>3 DEF Client, Accounts, Place
  <2>6. \A d \in Clients \ {c} : Stays(d)
    BY <1>1, <1>2, <1>5, <1>7 DEF Domains, Stays
  <2> QED
    BY <2>2, <2>4, <2>5, <2>6, OneClient DEF Client
<1> QED
  BY <1>6, <1>7 DEF Complete

LEMMA CompleteMoreStep ==
  ASSUME CallsInv, NEW c \in Clients, CompleteMore(c)
  PROVE  CallsInv'
<1>1. /\ op[c] = "kernel" /\ Multi(c) /\ turn[c] < Max
      /\ made' = [made EXCEPT ![c] = Makes(c)]
      /\ turn' = [turn EXCEPT ![c] = @ + 1]
      /\ UNCHANGED <<call, at, state, op, alive, left, panic>>
  BY DEF CompleteMore
<1>2. PICK r \in Successes(Step(c)) : ret' = [ret EXCEPT ![c] = r]
  BY DEF CompleteMore
<1>3. Domains /\ Client(c) /\ state[c] # "new"
  BY <1>1 DEF CallsInv, Client, Place
<1>4. r \in Int
  BY <1>3, Known DEF GoodOp, Outcomes
<1>5. turn[c] \in Turns /\ turn[c] + 1 \in Turns
  BY <1>1, <1>3, CallsAssumption DEF Domains, Turns
<1>6. /\ Makes(c) \in [Turns -> Places]
      /\ \A i \in Turns : Makes(c)[i] = "cqe" \/ Makes(c)[i] = made[c][i]
  BY <1>3, <1>5 DEF Makes, Domains, Places
<1>7. Domains'
  BY <1>1, <1>2, <1>3, <1>4, <1>5, <1>6 DEF Domains
<1>8. made'[c] = Makes(c) /\ Step(c)' = Step(c) /\ (Multi(c)' <=> Multi(c))
  BY <1>1, <1>3 DEF Domains, Step, Multi
<1>9. Place(c)' /\ Keeps(c)'
  BY <1>1, <1>3, <1>8 DEF Client, Place, Keeps
<1>10. Accounts(c)'
  BY <1>1, <1>3, <1>6, <1>8 DEF Client, Accounts
<1>11. \A d \in Clients \ {c} : Stays(d)
  BY <1>1, <1>2, <1>3 DEF Domains, Stays
<1> QED
  BY <1>7, <1>9, <1>10, <1>11, OneClient DEF Client

(* The future resumes: its operation has a result, and what it has made is *)
(* the descriptor of this turn.                                            *)
LEMMA Resumed ==
  ASSUME CallsInv, NEW c \in Clients, Resumes(c)
  PROVE  /\ state[c] = "awaiting" /\ op[c] = "stored" /\ ~Multi(c)
         /\ \A i \in Turns : made[c][i] # "cqe"
         /\ \A i \in Turns : made[c][i] = "stored" =>
              i = turn[c] /\ Step(c).makes # "none" /\ ~Err(c)
<1>1. state[c] = "awaiting" /\ op[c] = "stored" /\ ~Multi(c)
  BY DEF Resumes
<1>2. GoodOp(Step(c))
  BY <1>1, Known
<1>3. \A i \in Turns : made[c][i] # "cqe"
  BY <1>1 DEF CallsInv, Client, Accounts
<1>4. ASSUME NEW i \in Turns, made[c][i] = "stored"
      PROVE  i = turn[c] /\ Step(c).makes # "none" /\ ~Err(c)
  <2>1. i = turn[c] /\ Step(c).makes # "none" /\ ret[c] \in Successes(Step(c))
    BY <1>1, <1>4 DEF CallsInv, Client, Accounts
  <2> QED
    BY <1>2, <2>1 DEF GoodOp, Err
<1> QED
  BY <1>1, <1>2, <1>3, <1>4 DEF GoodOp

(* A call submits its operation n, in turn t: what it has made is its own, *)
(* or on its way to be closed.                                             *)
Resubmits(c, n, t, m) ==
  /\ n \in 1 .. Len(call[c].steps) /\ t \in Turns /\ m \in [Turns -> Places]
  /\ op' = [op EXCEPT ![c] = "queued"]
  /\ alive' = [alive EXCEPT ![c] = Memory(call[c].steps[n])]
  /\ at' = [at EXCEPT ![c] = n]
  /\ turn' = [turn EXCEPT ![c] = t]
  /\ made' = [made EXCEPT ![c] = m]
  /\ UNCHANGED <<call, state, ret, left, panic>>
  /\ \A i \in Turns :
       /\ m[i] # "cqe" /\ m[i] # "stored"
       /\ m[i] = "owned" => call[c].again = "last" \/ i = t
       /\ m[i] \in {"given", "lost"} => m[i] = made[c][i]

LEMMA ResubmitsStep ==
  ASSUME CallsInv, NEW c \in Clients, Resumes(c),
         NEW n, NEW t, NEW m, Resubmits(c, n, t, m)
  PROVE  CallsInv'
<1> USE DEF Resubmits
<1>1. state[c] = "awaiting" /\ ~Multi(c) /\ Domains /\ Client(c)
  BY Resumed DEF CallsInv
<1>2. GoodCall(call[c]) /\ call[c] \in CallsMade /\ n \in Nat \ {0}
  <2>1. GoodCall(call[c]) /\ call[c] \in CallsMade
    BY <1>1, Known
  <2>2. n \in 1 .. Len(call[c].steps) /\ Len(call[c].steps) \in Nat
    BY <2>1 DEF GoodCall
  <2> QED
    BY <2>1, <2>2
<1>3. GoodOp(call[c].steps[n]) /\ Memory(call[c].steps[n]) \subseteq Pieces
  BY <1>2 DEF GoodCall, GoodOp, Memory
<1>4. /\ op' = [op EXCEPT ![c] = "queued"]
      /\ alive' = [alive EXCEPT ![c] = Memory(call[c].steps[n])]
  OBVIOUS
<1>5. Domains'
  BY <1>1, <1>2, <1>3, <1>4 DEF Domains
<1>6. /\ call'[c] = call[c] /\ at'[c] = n /\ turn'[c] = t /\ state'[c] = "awaiting"
      /\ op'[c] = "queued" /\ alive'[c] = Memory(call[c].steps[n]) /\ made'[c] = m
      /\ Step(c)' = call[c].steps[n] /\ ~Multi(c)'
  BY <1>1, <1>4 DEF Domains, Step, Multi
<1>7. Place(c)'
  BY <1>2, <1>6 DEF Place
<1>8. Keeps(c)'
  BY <1>6 DEF Keeps, Memory
<1>9. Accounts(c)'
  BY <1>1, <1>6 DEF Client, Accounts
<1>10. \A d \in Clients \ {c} : Stays(d)
  BY <1>1, <1>4 DEF Domains, Stays
<1> QED
  BY <1>5, <1>7, <1>8, <1>9, <1>10, OneClient DEF Client

LEMMA AdvanceStep ==
  ASSUME CallsInv, NEW c \in Clients, Advance(c)
  PROVE  CallsInv'
<1>1. /\ Resumes(c) /\ ~IsLast(c)
      /\ at' = [at EXCEPT ![c] = @ + 1]
      /\ Submit(c, call[c].steps[at[c] + 1])
      /\ made' = [made EXCEPT ![c] = Wrapped(c)]
      /\ UNCHANGED <<call, turn, state, ret, left, panic>>
  BY DEF Advance
<1>2. /\ Domains /\ Accounts(c) /\ ~Multi(c) /\ state[c] = "awaiting"
      /\ \A i \in Turns : made[c][i] # "cqe" /\ (made[c][i] = "stored" => i = turn[c])
  BY <1>1, Resumed DEF CallsInv, Client
<1>3. at[c] + 1 \in 1 .. Len(call[c].steps)
  <2>1. at[c] \in 1 .. Len(call[c].steps) /\ Len(call[c].steps) \in Nat /\ at[c] # Len(call[c].steps)
    BY <1>1, <1>2, Known DEF IsLast, GoodCall
  <2> QED
    BY <2>1
<1>4. /\ Wrapped(c) \in [Turns -> Places]
      /\ \A i \in Turns : Wrapped(c)[i] = IF made[c][i] = "stored" THEN "owned" ELSE made[c][i]
  BY MovedIn DEF Wrapped, Places
<1>5. \A i \in Turns :
        /\ Wrapped(c)[i] # "cqe" /\ Wrapped(c)[i] # "stored"
        /\ Wrapped(c)[i] = "owned" => call[c].again = "last" \/ i = turn[c]
        /\ Wrapped(c)[i] \in {"given", "lost"} => Wrapped(c)[i] = made[c][i]
  BY <1>2, <1>4 DEF Accounts
<1>6. turn[c] \in Turns /\ turn' = [turn EXCEPT ![c] = turn[c]]
      /\ at' = [at EXCEPT ![c] = at[c] + 1]
  BY <1>1, <1>2 DEF Domains
<1> QED
  <2>1. Resubmits(c, at[c] + 1, turn[c], Wrapped(c))
    BY <1>1, <1>3, <1>4, <1>5, <1>6 DEF Resubmits, Submit
  <2> QED
    BY <1>1, <2>1, ResubmitsStep

LEMMA RepeatStep ==
  ASSUME CallsInv, NEW c \in Clients, Repeat(c)
  PROVE  CallsInv'
<1>1. /\ Resumes(c) /\ IsLast(c) /\ call[c].again = "last" /\ turn[c] < Max
      /\ turn' = [turn EXCEPT ![c] = @ + 1]
      /\ Submit(c, Step(c))
      /\ UNCHANGED <<call, at, state, ret, left, made, panic>>
  BY DEF Repeat
<1>2. /\ Domains /\ state[c] = "awaiting"
      /\ \A i \in Turns : made[c][i] # "cqe" /\ (made[c][i] = "stored" => Step(c).makes # "none")
  BY <1>1, Resumed DEF CallsInv
<1>3. at[c] \in 1 .. Len(call[c].steps) /\ Step(c).makes = "none"
  BY <1>1, <1>2, Known DEF GoodCall, IsLast, Step
<1>4. turn[c] + 1 \in Turns
  BY <1>1, <1>2, CallsAssumption DEF Domains, Turns
<1>5. made[c] \in [Turns -> Places] /\ made' = [made EXCEPT ![c] = made[c]]
      /\ at' = [at EXCEPT ![c] = at[c]] /\ turn' = [turn EXCEPT ![c] = turn[c] + 1]
  BY <1>1, <1>2 DEF Domains
<1>6. Submit(c, call[c].steps[at[c]])
  BY <1>1 DEF Step
<1>7. \A i \in Turns :
        /\ made[c][i] # "cqe" /\ made[c][i] # "stored"
        /\ made[c][i] = "owned" => call[c].again = "last" \/ i = turn[c] + 1
        /\ made[c][i] \in {"given", "lost"} => made[c][i] = made[c][i]
  BY <1>1, <1>2, <1>3
<1> QED
  <2>1. Resubmits(c, at[c], turn[c] + 1, made[c])
    BY <1>1, <1>3, <1>4, <1>5, <1>6, <1>7 DEF Resubmits, Submit
  <2> QED
    BY <1>1, <2>1, ResubmitsStep

LEMMA NextAddressStep ==
  ASSUME CallsInv, NEW c \in Clients, NextAddress(c)
  PROVE  CallsInv'
<1>1. /\ Resumes(c) /\ Err(c) /\ turn[c] < Max
      /\ turn' = [turn EXCEPT ![c] = @ + 1]
      /\ at' = [at EXCEPT ![c] = 1]
      /\ Submit(c, call[c].steps[1])
      /\ made' = [made EXCEPT ![c] = Moved(c, "owned", "closing")]
      /\ UNCHANGED <<call, state, ret, left, panic>>
  BY DEF NextAddress
<1>2. /\ Domains /\ state[c] = "awaiting"
      /\ \A i \in Turns : made[c][i] # "cqe" /\ made[c][i] # "stored"
  BY <1>1, Resumed DEF CallsInv
<1>3. 1 \in 1 .. Len(call[c].steps)
  BY <1>2, Known DEF GoodCall
<1>4. turn[c] + 1 \in Turns /\ turn' = [turn EXCEPT ![c] = turn[c] + 1]
  BY <1>1, <1>2, CallsAssumption DEF Domains, Turns
<1> DEFINE m == Moved(c, "owned", "closing")
<1>5. /\ m \in [Turns -> Places]
      /\ \A i \in Turns : m[i] = IF made[c][i] = "owned" THEN "closing" ELSE made[c][i]
  BY MovedIn DEF Places
<1>6. \A i \in Turns :
        /\ m[i] # "cqe" /\ m[i] # "stored"
        /\ m[i] = "owned" => call[c].again = "last" \/ i = turn[c] + 1
        /\ m[i] \in {"given", "lost"} => m[i] = made[c][i]
  BY <1>2, <1>5
<1>7. made' = [made EXCEPT ![c] = m]
  BY <1>1
<1> HIDE DEF m
<1> QED
  <2>1. Resubmits(c, 1, turn[c] + 1, m)
    BY <1>1, <1>3, <1>4, <1>5, <1>6, <1>7 DEF Resubmits, Submit
  <2> QED
    BY <1>1, <2>1, ResubmitsStep

(* A call ends: what it has made is given, or on its way to be closed.     *)
LEMMA Ends ==
  ASSUME CallsInv, NEW c \in Clients, state[c] = "awaiting",
         NEW st \in {"returned", "failed"}, NEW m \in [Turns -> Places],
         state' = [state EXCEPT ![c] = st],
         op' = [op EXCEPT ![c] = "done"],
         alive' = [alive EXCEPT ![c] = {}],
         made' = [made EXCEPT ![c] = m], UNCHANGED <<call, at, turn, ret, left, panic>>,
         \A i \in Turns :
           /\ m[i] \notin {"cqe", "stored", "owned", "lost"}
           /\ m[i] = "given" => call[c].gives /\ (Multi(c) \/ st = "returned")
  PROVE  CallsInv'
<1>1. Domains /\ Client(c)
  BY DEF CallsInv
<1>2. Domains'
  BY <1>1 DEF Domains
<1>3. /\ state'[c] = st /\ op'[c] = "done" /\ alive'[c] = {} /\ made'[c] = m
      /\ Step(c)' = Step(c) /\ (Multi(c)' <=> Multi(c))
  BY <1>1 DEF Domains, Step, Multi
<1>4. Place(c)' /\ Keeps(c)'
  BY <1>1, <1>3 DEF Client, Place, Keeps
<1>5. Accounts(c)'
  BY <1>1, <1>3 DEF Client, Accounts
<1>6. \A d \in Clients \ {c} : Stays(d)
  BY <1>1 DEF Domains, Stays
<1> QED
  BY <1>2, <1>4, <1>5, <1>6, OneClient DEF Client

LEMMA ReturnStep ==
  ASSUME CallsInv, NEW c \in Clients, Return(c)
  PROVE  CallsInv'
<1> DEFINE m == [i \in Turns |-> IF made[c][i] \notin {"stored", "owned"} THEN made[c][i]
                                 ELSE IF call[c].gives THEN "given" ELSE "closing"]
<1>1. /\ Resumes(c)
      /\ state' = [state EXCEPT ![c] = "returned"]
      /\ op' = [op EXCEPT ![c] = "done"]
      /\ alive' = [alive EXCEPT ![c] = {}]
      /\ UNCHANGED <<call, at, turn, ret, left, panic>>
  BY DEF Return
<1>2. made' = [made EXCEPT ![c] = m]
  BY DEF Return, CallsInv, Domains
<1>3. /\ state[c] = "awaiting" /\ Accounts(c) /\ made[c] \in [Turns -> Places]
      /\ \A i \in Turns : made[c][i] # "cqe"
  BY <1>1, Resumed DEF CallsInv, Client, Domains
<1>4. m \in [Turns -> Places]
  BY <1>3 DEF Places
<1>5. \A i \in Turns :
        /\ m[i] \notin {"cqe", "stored", "owned", "lost"}
        /\ m[i] = "given" => call[c].gives
  BY <1>1, <1>3 DEF Accounts, Resumes
<1> HIDE DEF m
<1> QED
  BY <1>1, <1>2, <1>3, <1>4, <1>5, Ends

LEMMA FailStep ==
  ASSUME CallsInv, NEW c \in Clients, Fail(c)
  PROVE  CallsInv'
<1> DEFINE m == Moved(c, "owned", "closing")
<1>1. /\ Resumes(c) /\ Err(c)
      /\ state' = [state EXCEPT ![c] = "failed"]
      /\ op' = [op EXCEPT ![c] = "done"]
      /\ alive' = [alive EXCEPT ![c] = {}]
      /\ made' = [made EXCEPT ![c] = m]
      /\ UNCHANGED <<call, at, turn, ret, left, panic>>
  BY DEF Fail
<1>2. /\ state[c] = "awaiting" /\ Accounts(c) /\ ~Multi(c)
      /\ \A i \in Turns : made[c][i] # "cqe" /\ made[c][i] # "stored"
  BY <1>1, Resumed DEF CallsInv, Client
<1>3. /\ m \in [Turns -> Places]
      /\ \A i \in Turns : m[i] = IF made[c][i] = "owned" THEN "closing" ELSE made[c][i]
  BY MovedIn DEF Places
<1>4. \A i \in Turns : m[i] \notin {"cqe", "stored", "owned", "lost", "given"}
  BY <1>1, <1>2, <1>3 DEF Accounts, Resumes
<1> HIDE DEF m
<1> QED
  BY <1>1, <1>2, <1>3, <1>4, Ends

LEMMA EndStreamStep ==
  ASSUME CallsInv, NEW c \in Clients, EndStream(c)
  PROVE  CallsInv'
<1>1. /\ state[c] = "awaiting" /\ Multi(c) /\ op[c] = "stored"
      /\ \A i \in Turns : made[c][i] # "stored"
      /\ state' = [state EXCEPT ![c] = "returned"]
      /\ op' = [op EXCEPT ![c] = "done"]
      /\ UNCHANGED <<call, at, turn, ret, alive, left, made, panic>>
  BY DEF EndStream
<1>2. Domains /\ Client(c) /\ alive[c] = {}
  BY <1>1, OneOperation DEF CallsInv
<1>3. Domains'
  BY <1>1, <1>2 DEF Domains
<1>4. /\ state'[c] = "returned" /\ op'[c] = "done" /\ alive'[c] = {}
      /\ made'[c] = made[c] /\ Step(c)' = Step(c) /\ Multi(c)'
  BY <1>1, <1>2 DEF Domains, Step, Multi
<1>5. Place(c)' /\ Keeps(c)'
  BY <1>1, <1>2, <1>4 DEF Client, Place, Keeps
<1>6. \A i \in Turns : made[c][i] # "owned"
  BY <1>1, <1>2 DEF Client, Accounts
<1>7. Accounts(c)'
  BY <1>1, <1>2, <1>4, <1>6 DEF Client, Accounts
<1>8. \A d \in Clients \ {c} : Stays(d)
  BY <1>1, <1>2 DEF Domains, Stays
<1> QED
  BY <1>3, <1>5, <1>7, <1>8, OneClient DEF Client

(* A descriptor changes its place, and nothing else changes.               *)
LEMMA Moves ==
  ASSUME CallsInv, NEW c \in Clients, NEW i \in Turns, NEW q \in Places,
         made[c][i] \notin {"none", "lost"}, q \notin {"none", "cqe", "stored", "owned", "lost"},
         q = "given" => call[c].gives /\ Multi(c),
         made' = [made EXCEPT ![c][i] = q],
         UNCHANGED <<call, at, turn, state, op, ret, alive, left, panic>>
  PROVE  CallsInv'
<1>1. Domains /\ Client(c)
  BY DEF CallsInv
<1>2. made[c] \in [Turns -> Places] /\ made' = [made EXCEPT ![c] = [made[c] EXCEPT ![i] = q]]
  BY <1>1 DEF Domains
<1>3. Domains'
  BY <1>1, <1>2 DEF Domains
<1>4. /\ \A j \in Turns : made'[c][j] = IF j = i THEN q ELSE made[c][j]
      /\ Step(c)' = Step(c) /\ (Multi(c)' <=> Multi(c))
  BY <1>1, <1>2 DEF Domains, Step, Multi
<1>5. Place(c)' /\ Keeps(c)'
  BY <1>1, <1>4 DEF Client, Place, Keeps
<1>6. Accounts(c)'
  BY <1>1, <1>4 DEF Client, Accounts
<1>7. \A d \in Clients \ {c} : Stays(d)
  BY <1>1, <1>2 DEF Domains, Stays
<1> QED
  BY <1>3, <1>5, <1>6, <1>7, OneClient DEF Client

(* A decoder panics, and the descriptors of some results are lost.         *)
LEMMA Loses ==
  ASSUME CallsInv, NEW c \in Clients, NEW m \in [Turns -> Places],
         state[c] = "awaiting",
         \A i \in Turns : m[i] = made[c][i] \/ m[i] = "lost",
         made' = [made EXCEPT ![c] = m], panic' = TRUE,
         UNCHANGED <<call, at, turn, state, op, ret, alive, left>>
  PROVE  CallsInv'
<1>1. Domains /\ Client(c)
  BY DEF CallsInv
<1>2. Domains'
  BY <1>1 DEF Domains
<1>3. made'[c] = m /\ Step(c)' = Step(c) /\ (Multi(c)' <=> Multi(c))
  BY <1>1 DEF Domains, Step, Multi
<1>4. Place(c)' /\ Keeps(c)'
  BY <1>1, <1>3 DEF Client, Place, Keeps
<1>5. Accounts(c)'
  BY <1>1, <1>3 DEF Client, Accounts
<1>6. \A d \in Clients \ {c} : Stays(d)
  BY <1>1 DEF Domains, Stays
<1> QED
  BY <1>2, <1>4, <1>5, <1>6, OneClient DEF Client

LEMMA PanicStep ==
  ASSUME CallsInv, NEW c \in Clients, Panic(c)
  PROVE  CallsInv'
<1> DEFINE m == Moved(c, "stored", "lost")
<1>1. /\ state[c] = "awaiting" /\ made' = [made EXCEPT ![c] = m] /\ panic' = TRUE
      /\ UNCHANGED <<call, at, turn, state, op, ret, alive, left>>
  BY DEF Panic, Resumes
<1>2. m \in [Turns -> Places] /\ \A i \in Turns : m[i] = made[c][i] \/ m[i] = "lost"
  BY MovedIn DEF Places
<1> HIDE DEF m
<1> QED
  BY <1>1, <1>2, Loses

LEMMA PanicOnItemStep ==
  ASSUME CallsInv, NEW c \in Clients, PanicOnItem(c)
  PROVE  CallsInv'
<1>1. PICK i \in Turns : NextItem(c, i) /\ made' = [made EXCEPT ![c][i] = "lost"]
  BY DEF PanicOnItem
<1>2. panic' = TRUE /\ UNCHANGED <<call, at, turn, state, op, ret, alive, left>>
  BY DEF PanicOnItem
<1>3. state[c] = "awaiting" /\ made[c] \in [Turns -> Places] /\ made \in [Clients -> [Turns -> Places]]
  BY <1>1 DEF NextItem, CallsInv, Domains
<1> DEFINE m == [made[c] EXCEPT ![i] = "lost"]
<1>4. made' = [made EXCEPT ![c] = m]
  BY <1>1, <1>3
<1>5. m \in [Turns -> Places] /\ \A j \in Turns : m[j] = made[c][j] \/ m[j] = "lost"
  BY <1>3 DEF Places
<1> HIDE DEF m
<1> QED
  BY <1>2, <1>3, <1>4, <1>5, Loses

LEMMA TakeItemStep ==
  ASSUME CallsInv, NEW c \in Clients, TakeItem(c)
  PROVE  CallsInv'
<1>1. state[c] = "awaiting" /\ Multi(c)
      /\ UNCHANGED <<call, at, turn, state, op, ret, alive, left, panic>>
  BY DEF TakeItem, NextItem
<1>2. PICK i \in Turns : made[c][i] = "stored" /\ made' = [made EXCEPT ![c][i] = "given"]
  BY DEF TakeItem, NextItem
<1>3. call[c].gives
  BY <1>1, OneOperation
<1> QED
  <2>1. /\ made[c][i] \notin {"none", "lost"} /\ "given" \in Places
        /\ "given" \notin {"none", "cqe", "stored", "owned", "lost"}
    BY <1>2 DEF Places
  <2> QED
    BY <1>1, <1>2, <1>3, <2>1, Moves

LEMMA DropHandleStep ==
  ASSUME CallsInv, NEW c \in Clients, DropHandle(c)
  PROVE  CallsInv'
<1>1. UNCHANGED <<call, at, turn, state, op, ret, alive, left, panic>>
  BY DEF DropHandle
<1>2. PICK i \in Turns : made[c][i] = "given" /\ made' = [made EXCEPT ![c][i] = "closing"]
  BY DEF DropHandle
<1> QED
  BY <1>1, <1>2, Moves DEF Places

LEMMA DropStep ==
  ASSUME CallsInv, NEW c \in Clients, Drop(c)
  PROVE  CallsInv'
<1> DEFINE m == [i \in Turns |-> CASE made[c][i] = "stored" -> "lost"
                                   [] made[c][i] = "owned"  -> "closing"
                                   [] OTHER                 -> made[c][i]]
<1>1. /\ state[c] = "awaiting"
      /\ state' = [state EXCEPT ![c] = "dropped"]
      /\ op' = [op EXCEPT ![c] = IF @ = "stored" THEN "done" ELSE @]
      /\ alive' = [alive EXCEPT ![c] = HandedOver(c)]
      /\ UNCHANGED <<call, at, turn, ret, panic>>
  BY DEF Drop
<1>2. Domains /\ Client(c) /\ GoodOp(Step(c)) /\ Memory(Step(c)) \subseteq Pieces
  BY <1>1, Known DEF CallsInv
<1>3. made' = [made EXCEPT ![c] = m]
  BY <1>2 DEF Drop, Domains
<1>4. left' \in [Clients -> SUBSET Pieces]
  <2>1. left' = [left EXCEPT ![c] =
          IF op[c] = "stored" THEN NotGivenBack(alive[c] \cap Step(c).hands) ELSE @]
    BY DEF Drop
  <2>2. alive[c] \subseteq Pieces
    BY <1>2 DEF Domains
  <2>3. NotGivenBack(alive[c] \cap Step(c).hands) \subseteq Pieces
    BY <2>2 DEF NotGivenBack
  <2> QED
    BY <1>2, <2>1, <2>3 DEF Domains
<1>5. /\ m \in [Turns -> Places]
      /\ \A i \in Turns : m[i] = IF made[c][i] = "stored" THEN "lost"
                                 ELSE IF made[c][i] = "owned" THEN "closing" ELSE made[c][i]
  BY <1>2 DEF Domains, Places
<1> HIDE DEF m
<1>6. HandedOver(c) = IF op[c] = "stored" THEN {} ELSE alive[c] \cap Step(c).hands
  BY DEF HandedOver
<1>7. HandedOver(c) \subseteq alive[c] /\ HandedOver(c) \subseteq Pieces
  BY <1>2, <1>6 DEF Domains
<1>8. Domains'
  BY <1>1, <1>2, <1>3, <1>4, <1>5, <1>7 DEF Domains
<1>9. /\ state'[c] = "dropped" /\ op'[c] = (IF op[c] = "stored" THEN "done" ELSE op[c])
      /\ alive'[c] = HandedOver(c) /\ made'[c] = m
      /\ Step(c)' = Step(c) /\ (Multi(c)' <=> Multi(c))
  BY <1>1, <1>2, <1>3 DEF Domains, Step, Multi
<1>10. Place(c)'
  BY <1>1, <1>2, <1>9 DEF Client, Place
<1>11. Keeps(c)'
  BY <1>1, <1>2, <1>6, <1>7, <1>9 DEF Client, Keeps, GoodOp
<1>12. Accounts(c)'
  BY <1>1, <1>2, <1>5, <1>9 DEF Client, Accounts
<1>13. \A d \in Clients \ {c} : Stays(d)
  BY <1>1, <1>2, <1>3 DEF Domains, Stays
<1> QED
  BY <1>8, <1>10, <1>11, <1>12, <1>13, OneClient DEF Client

LEMMA EnterStep ==
  ASSUME CallsInv, Enter
  PROVE  CallsInv'
<1>1. /\ op' = [c \in Clients |-> IF op[c] = "queued" THEN "kernel" ELSE op[c]]
      /\ made' = [c \in Clients |-> Moved(c, "closing", "closed")]
      /\ UNCHANGED <<call, at, turn, state, ret, alive, left, panic>>
  BY DEF Enter
<1>2. Domains
  BY DEF CallsInv
<1>3. \A c \in Clients : Moved(c, "closing", "closed") \in [Turns -> Places]
  BY MovedIn DEF Places
<1>4. Domains'
  BY <1>1, <1>2, <1>3 DEF Domains
<1>5. ASSUME NEW c \in Clients
      PROVE  Client(c)'
  <2>1. /\ op'[c] = (IF op[c] = "queued" THEN "kernel" ELSE op[c])
        /\ \A i \in Turns : made'[c][i] = IF made[c][i] = "closing" THEN "closed" ELSE made[c][i]
        /\ Step(c)' = Step(c) /\ (Multi(c)' <=> Multi(c)) /\ Client(c)
    BY <1>1, MovedIn DEF Places, Step, Multi, CallsInv
  <2>2. Place(c)' /\ Keeps(c)'
    BY <1>1, <2>1 DEF Client, Place, Keeps
  <2>3. Accounts(c)'
    BY <1>1, <2>1 DEF Client, Accounts
  <2> QED
    BY <2>2, <2>3 DEF Client
<1> QED
  BY <1>4, <1>5 DEF CallsInv

LEMMA ReapStep ==
  ASSUME CallsInv, Reap
  PROVE  CallsInv'
<1>1. /\ op' = [c \in Clients |-> IF op[c] = "cqe" THEN Notified(c) ELSE op[c]]
      /\ made' = [c \in Clients |->
                    Moved(c, "cqe", IF state[c] = "awaiting" THEN "stored" ELSE "lost")]
      /\ alive' = [c \in Clients |->
                     IF op[c] = "cqe" /\ state[c] # "awaiting" THEN {} ELSE alive[c]]
      /\ left' = [c \in Clients |->
                    IF op[c] = "cqe" /\ state[c] # "awaiting"
                    THEN NotGivenBack(alive[c]) ELSE left[c]]
      /\ UNCHANGED <<call, at, turn, state, ret, panic>>
  BY DEF Reap
<1>2. Domains
  BY DEF CallsInv
<1>3. \A c \in Clients :
        /\ Moved(c, "cqe", IF state[c] = "awaiting" THEN "stored" ELSE "lost") \in [Turns -> Places]
        /\ \A i \in Turns :
             Moved(c, "cqe", IF state[c] = "awaiting" THEN "stored" ELSE "lost")[i] =
               IF made[c][i] = "cqe" THEN IF state[c] = "awaiting" THEN "stored" ELSE "lost"
               ELSE made[c][i]
  <2> TAKE c \in Clients
  <2> DEFINE q == IF state[c] = "awaiting" THEN "stored" ELSE "lost"
  <2>1. "cqe" \in Places /\ q \in Places
    BY DEF Places
  <2> HIDE DEF q
  <2>2. /\ Moved(c, "cqe", q) \in [Turns -> Places]
        /\ \A i \in Turns : Moved(c, "cqe", q)[i] = IF made[c][i] = "cqe" THEN q ELSE made[c][i]
    BY <2>1, MovedIn
  <2> QED
    BY <2>2 DEF q
<1>4. Domains'
  <2>1. \A c \in Clients : NotGivenBack(alive[c]) \subseteq Pieces
    BY <1>2 DEF NotGivenBack, Domains
  <2>2. left' \in [Clients -> SUBSET Pieces] /\ alive' \in [Clients -> SUBSET Pieces]
    BY <1>1, <1>2, <2>1 DEF Domains
  <2>3. made' \in [Clients -> [Turns -> Places]]
    BY <1>1, <1>3
  <2>4. op' \in [Clients -> {"none", "queued", "kernel", "cqe", "stored", "done"}]
    BY <1>1, <1>2 DEF Notified, Domains
  <2> QED
    BY <1>1, <1>2, <2>2, <2>3, <2>4 DEF Domains
<1>5. ASSUME NEW c \in Clients
      PROVE  Client(c)'
  <2>1. /\ op'[c] = IF op[c] = "cqe" THEN IF state[c] = "awaiting" THEN "stored" ELSE "done"
                    ELSE op[c]
        /\ alive'[c] = IF op[c] = "cqe" /\ state[c] # "awaiting" THEN {} ELSE alive[c]
    BY <1>1 DEF Notified
  <2>2. \A i \in Turns : made'[c][i] =
          IF made[c][i] = "cqe" THEN IF state[c] = "awaiting" THEN "stored" ELSE "lost"
          ELSE made[c][i]
    BY <1>1, <1>3
  <2>3. Step(c)' = Step(c) /\ (Multi(c)' <=> Multi(c)) /\ Client(c)
    BY <1>1 DEF Step, Multi, CallsInv
  <2>4. Place(c)' /\ Keeps(c)'
    BY <1>1, <2>1, <2>3 DEF Client, Place, Keeps
  <2>5. Accounts(c)'
    <3>1. op[c] \in {"kernel", "cqe"} => state[c] \in {"awaiting", "dropped"}
      BY <1>2, <2>3 DEF Client, Place, Domains
    <3> QED
      BY <1>1, <2>1, <2>2, <2>3, <3>1 DEF Client, Accounts
  <2> QED
    BY <2>4, <2>5 DEF Client
<1> QED
  BY <1>4, <1>5 DEF CallsInv

LEMMA Steps ==
  ASSUME CallsInv, [Next]_vars
  PROVE  CallsInv'
<1>1. CASE UNCHANGED vars
  <2>1. UNCHANGED <<call, at, turn, state, op, ret, alive, left, made, panic>>
    BY <1>1 DEF vars
  <2>2. Domains'
    BY <2>1 DEF CallsInv, Domains
  <2>3. \A c \in Clients : Client(c)'
    BY <2>1, StaysClient DEF CallsInv, Stays
  <2> QED
    BY <2>2, <2>3 DEF CallsInv
<1>2. CASE Next
  <2>1. CASE Enter
    BY <2>1, EnterStep
  <2>2. CASE Reap
    BY <2>2, ReapStep
  <2>3. ASSUME NEW c \in Clients,
               \/ Start(c) \/ Complete(c) \/ CompleteMore(c)
               \/ Advance(c) \/ Repeat(c) \/ Return(c) \/ NextAddress(c) \/ Fail(c)
               \/ Panic(c) \/ TakeItem(c) \/ PanicOnItem(c) \/ EndStream(c)
               \/ Drop(c) \/ DropHandle(c)
        PROVE  CallsInv'
    BY <2>3, StartStep, CompleteStep, CompleteMoreStep, AdvanceStep, RepeatStep, ReturnStep,
       NextAddressStep, FailStep, PanicStep, TakeItemStep, PanicOnItemStep, EndStreamStep,
       DropStep, DropHandleStep
  <2> QED
    BY <1>2, <2>1, <2>2, <2>3 DEF Next
<1> QED
  BY <1>1, <1>2

-------------------------------------------------------------------------------
(* The invariant the others rest on: where the memory and the descriptors  *)
(* of a call are at each await (submission.rs, source.rs).                 *)
THEOREM CallsInvInductive ==
  Spec => []CallsInv
<1>1. Init => CallsInv
  BY Begins
<1>2. CallsInv /\ [Next]_vars => CallsInv'
  BY Steps
<1> QED
  BY <1>1, <1>2, PTL DEF Spec

(* Types, and that a call that has ended has nothing in memory.            *)
THEOREM CallTypes ==
  Spec => []TypeOK
<1>1. ASSUME CallsInv
      PROVE  TypeOK
  <2>1. Domains
    BY <1>1 DEF CallsInv
  <2>2. ASSUME NEW c \in Clients
        PROVE  /\ IF call[c] = None THEN state[c] = "new"
                  ELSE at[c] \in 1 .. Len(call[c].steps)
               /\ op[c] = "none" <=> state[c] = "new"
               /\ op[c] = "stored" => state[c] = "awaiting"
               /\ state[c] \in {"returned", "failed"} => op[c] = "done" /\ alive[c] = {}
    <3>1. Place(c)
      BY <1>1 DEF CallsInv, Client
    <3>2. CASE state[c] = "new"
      <4>1. call[c] # None => Len(call[c].steps) \in Nat \ {0}
        BY <2>1, Tables DEF Domains, GoodCall
      <4> QED
        BY <3>1, <3>2, <4>1 DEF Place
    <3>3. CASE state[c] # "new"
      BY <3>1, <3>3, CallsAssumption DEF Place
    <3> QED
      BY <3>2, <3>3
  <2> QED
    BY <2>1, <2>2 DEF TypeOK, Domains, Places
<1> QED
  BY <1>1, CallsInvInductive, PTL

(* The buffers the kernel uses are allocated until the operation completes *)
(* (Op::cancel, submission.rs: cancel).                                    *)
THEOREM DataOutlives ==
  Spec => []DataOutlivesOperation
<1>1. CallsInv => DataOutlivesOperation
  BY DEF CallsInv, Client, Keeps, DataOutlivesOperation
<1> QED
  BY <1>1, CallsInvInductive, PTL

(* No descriptor is left open but that of a result dropped unread, or one  *)
(* a decoder panics on (source.rs: OwnedFd, OwnedDirect; net/tcp.rs,       *)
(* fs/func.rs; op/mod.rs: expect_direct).                                  *)
THEOREM NoDescriptorLeft ==
  Spec => []DescriptorsAccounted
<1>1. CallsInv => DescriptorsAccounted
  BY DEF CallsInv, Client, Accounts, DescriptorsAccounted
<1> QED
  BY <1>1, CallsInvInductive, PTL

===============================================================================
