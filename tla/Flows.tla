--------------------------------- MODULE Flows ---------------------------------
(***************************************************************************)
(* The calls that put several linked entries into the submission queue,    *)
(* and what they are made of.  A flow is one call: exists, read_buf or     *)
(* write_buf (fs/func.rs), bind_direct with one address, the drop of a     *)
(* DirectTcpStream (net/tcp.rs), or another operation of another task.     *)
(***************************************************************************)
EXTENDS Integers, Sequences

CONSTANTS
  Exists, Readers, Writers, Binds, Streams, Others,
  Size,           (* manual_direct_files                                  *)
  None

Flows == Exists \cup Readers \cup Writers \cup Binds \cup Streams \cup Others

(* The flows that reserve a manual direct slot. *)
Manual == Exists \cup Readers \cup Writers \cup Binds

ASSUME FlowsAssumption ==
  /\ Size \in Nat
  /\ None \notin Flows \cup Nat
  /\ Streams \cap Nat = {}
  /\ Exists \cap (Readers \cup Writers \cup Binds \cup Streams \cup Others) = {}
  /\ Readers \cap (Writers \cup Binds \cup Streams \cup Others) = {}
  /\ Writers \cap (Binds \cup Streams \cup Others) = {}
  /\ Binds \cap (Streams \cup Others) = {}
  /\ Streams \cap Others = {}

SlotRange == 0 .. Size - 1

(* The slot of a stream lies in the range the kernel allocates from; it is *)
(* named after the stream.                                                 *)
Slots == SlotRange \cup Streams

(* The operations of a flow, in the order it submits them. *)
Steps(f) ==
  CASE f \in Exists  -> <<"open">>
    [] f \in Readers -> <<"open", "read">>
    [] f \in Writers -> <<"open", "write">>
    [] f \in Binds   -> <<"socket", "bind", "listen">>
    [] f \in Streams -> <<"shutdown", "close">>
    [] f \in Others  -> <<"other">>

Kinds == {"open", "read", "write", "socket", "bind", "listen", "shutdown", "close", "other"}

(* Those whose Op has an entry_cancel. *)
Cancellable == {"open", "read", "write", "other"}

(* The operation of a flow, and the AsyncCancel that names it. *)
Operation(f, k) == [flow |-> f, kind |-> k, cancel |-> FALSE]
AsyncCancel(f, k) == [flow |-> f, kind |-> k, cancel |-> TRUE]

StepsOf(f) == {Steps(f)[i] : i \in DOMAIN Steps(f)}
Operations == UNION {{Operation(f, k) : k \in StepsOf(f)} : f \in Flows}
AsyncCancels == UNION {{AsyncCancel(f, k) : k \in StepsOf(f) \cap Cancellable} : f \in Flows}
Requests == Operations \cup AsyncCancels

(* Mutant: open is not chained to the read or write. *)
LinkedAfterOpen(r) == ~r.cancel /\ r.kind \in {"read", "write", "bind", "shutdown"}

(* Mutant: listen is chained too. *)
LinkedListen(r) ==
  /\ ~r.cancel
  /\ \/ r.kind \in {"read", "write", "bind", "shutdown", "listen"}
     \/ r.kind = "open" /\ r.flow \notin Exists

(* chain: the entry carries IO_LINK. *)
Linked(r) ==
  /\ ~r.cancel
  /\ \/ r.kind \in {"read", "write", "bind", "shutdown"}
     \/ r.kind = "open" /\ r.flow \notin Exists

===============================================================================
