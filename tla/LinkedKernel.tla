------------------------------ MODULE LinkedKernel ------------------------------
(***************************************************************************)
(* The io_uring of Uring.tla seen with links and direct files instead of   *)
(* keys and counters (external: modelled from how the code uses it).       *)
(*                                                                         *)
(* A chain is a run of entries of one submission, each with IO_LINK but    *)
(* the last.  Its first entry is issued, each next one when the one before *)
(* it has succeeded; a failed or short one cancels the rest.  An operation *)
(* on a direct file finds the file when it is issued.                      *)
(***************************************************************************)
EXTENDS Flows

VARIABLES
  sq,             (* The submission queue.                                *)
  stage,          (* none, sq, linked, ready, kernel, cq or done.         *)
  result,         (* ok, short, error or canceled.                        *)
  rest,           (* The entries chained behind an issued one.            *)
  table,          (* The flow whose file is in a slot.                    *)
  used,           (* The flow whose file an operation was issued on.      *)
  slot            (* The slot the operations of a flow name.              *)

kernelVars == <<sq, stage, result, rest, table, used>>

InitKernel ==
  /\ sq = <<>>
  /\ stage = [r \in Requests |-> "none"]
  /\ result = [r \in Requests |-> "none"]
  /\ rest = [r \in Requests |-> <<>>]
  /\ table = [s \in Slots |-> IF s \in Streams THEN s ELSE None]
  /\ used = [r \in Requests |-> None]

InSeq(s, r) == \E i \in DOMAIN s : s[i] = r

(* Entries are pushed, in order. *)
Push(s) ==
  /\ sq' = sq \o s
  /\ stage' = [r \in Requests |-> IF InSeq(s, r) THEN "sq" ELSE stage[r]]
  /\ UNCHANGED <<result, rest, table, used>>

(* The file an operation finds when it is issued. *)
FileOf(r) ==
  IF r.cancel \/ r.kind \in {"open", "socket", "other"} THEN None ELSE table[slot[r.flow]]

(* What a successful operation leaves in the table. *)
TableAfter(r) ==
  CASE r.kind \in {"open", "socket"} -> [table EXCEPT ![slot[r.flow]] = r.flow]
    [] r.kind = "close"              -> [table EXCEPT ![slot[r.flow]] = None]
    [] OTHER                         -> table

(* The first n entries of the queue are a chain. *)
IsChain(n) ==
  /\ \A i \in 1 .. n - 1 : Linked(sq[i])
  /\ ~Linked(sq[n]) \/ n = Len(sq)

(* A socket is created as its entry is consumed: bind_direct relies on it. *)
CreateSocket(r) ==
  /\ r.kind = "socket"
  /\ sq' = Tail(sq)
  /\ stage' = [stage EXCEPT ![r] = "cq"]
  /\ \/ /\ result' = [result EXCEPT ![r] = "ok"]
        /\ table' = TableAfter(r)
     \/ /\ result' = [result EXCEPT ![r] = "error"]
        /\ UNCHANGED table
  /\ UNCHANGED <<rest, used>>

(* The first chain of the queue is consumed and its head issued. *)
IssueChain(r, n) ==
  LET followers == SubSeq(sq, 2, n)
  IN  /\ r.kind # "socket"
      /\ IsChain(n)
      /\ sq' = SubSeq(sq, n + 1, Len(sq))
      /\ stage' = [x \in Requests |-> CASE x = r -> "kernel"
                                        [] InSeq(followers, x) -> "linked"
                                        [] OTHER -> stage[x]]
      /\ rest' = [rest EXCEPT ![r] = followers]
      /\ used' = [used EXCEPT ![r] = FileOf(r)]
      /\ UNCHANGED <<result, table>>

SubmitChain ==
  /\ sq # <<>>
  /\ CreateSocket(sq[1]) \/ \E n \in DOMAIN sq : IssueChain(sq[1], n)

(* Socket operations and close fail without a file.  (A read may succeed: *)
(* the ring is built with stdin in every manual slot.)                    *)
NeedsFile(r) == r.kind \in {"bind", "listen", "shutdown", "close"}

(* An operation succeeds and the next of its chain may be issued. *)
Succeed(r) ==
  /\ stage[r] = "kernel"
  /\ ~r.cancel
  /\ NeedsFile(r) => used[r] # None
  /\ result' = [result EXCEPT ![r] = "ok"]
  /\ table' = TableAfter(r)
  /\ IF rest[r] = <<>>
     THEN /\ stage' = [stage EXCEPT ![r] = "cq"]
          /\ UNCHANGED rest
     ELSE LET next == Head(rest[r])
          IN  /\ stage' = [stage EXCEPT ![r] = "cq", ![next] = "ready"]
              /\ rest' = [rest EXCEPT ![r] = <<>>, ![next] = Tail(rest[r])]
  /\ UNCHANGED <<sq, used>>

(* The next of a chain is issued, which is when it finds its file. *)
Issue(r) ==
  /\ stage[r] = "ready"
  /\ stage' = [stage EXCEPT ![r] = "kernel"]
  /\ used' = [used EXCEPT ![r] = FileOf(r)]
  /\ UNCHANGED <<sq, result, rest, table>>

(* An operation ends with res, and its chain with it. *)
Break(r, res) ==
  /\ result' = [x \in Requests |-> CASE x = r -> res
                                     [] InSeq(rest[r], x) -> "canceled"
                                     [] OTHER -> result[x]]
  /\ stage' = [x \in Requests |-> IF x = r \/ InSeq(rest[r], x) THEN "cq" ELSE stage[x]]
  /\ rest' = [rest EXCEPT ![r] = <<>>]
  /\ UNCHANGED <<sq, table, used>>

Fail(r) ==
  /\ stage[r] = "kernel"
  /\ ~r.cancel
  /\ r.kind # "other"
  /\ r.kind = "close" => used[r] = None
  /\ \/ Break(r, "error")
     \/ r.kind \in {"read", "write"} /\ Break(r, "short")

(* An AsyncCancel finds an issued operation, or comes too late or too early. *)
Cancel(c) ==
  LET r == Operation(c.flow, c.kind)
  IN  /\ c.cancel
      /\ stage[c] = "kernel"
      /\ \/ /\ stage[r] = "kernel"
            /\ result' = [x \in Requests |-> CASE x = c -> "ok"
                                               [] x = r \/ InSeq(rest[r], x) -> "canceled"
                                               [] OTHER -> result[x]]
            /\ stage' = [x \in Requests |-> IF x \in {c, r} \/ InSeq(rest[r], x)
                                            THEN "cq" ELSE stage[x]]
            /\ rest' = [rest EXCEPT ![r] = <<>>]
            /\ UNCHANGED <<sq, table, used>>
         \/ Break(c, "error")

KernelStep ==
  /\ \E r \in Requests : Issue(r) \/ Succeed(r) \/ Fail(r) \/ Cancel(r)
  /\ UNCHANGED slot

===============================================================================
