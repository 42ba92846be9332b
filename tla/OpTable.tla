-------------------------------- MODULE OpTable --------------------------------
(***************************************************************************)
(* What each operation of inel-reactor/src/op hands to the kernel, and     *)
(* what it does when its future is dropped:                                *)
(*                                                                         *)
(*   args     memory its entry points to, read as the entry is consumed    *)
(*            (external: paths, addresses, iovecs and timespecs are copied *)
(*            then)                                                        *)
(*   data     memory its entry points to, used until it completes          *)
(*   hands    memory that Op::cancel moves into the Cancellation           *)
(*   cancels  Op::entry_cancel returns an entry                            *)
(*   answer   how Op::result (or MultiOp::next) decodes the result         *)
(*   makes    the descriptor a success creates, which the result carries   *)
(*                                                                         *)
(* A file opened into a slot the caller has reserved (OpenAtDirect,        *)
(* SocketFixed, AcceptFixed) is the slot's: see DirectFiles.tla.           *)
(***************************************************************************)
EXTENDS Integers

(* An operation without memory and with the default methods of Op. *)
Plain == [args |-> {}, data |-> {}, hands |-> {}, cancels |-> TRUE,
          answer |-> "zero", makes |-> "none"]

Nop == [Plain EXCEPT !.answer = "nop"]

-------------------------------------------------------------------------------
(* op/read.rs and op/write.rs. *)
Read  == [Plain EXCEPT !.data = {"buf"}, !.hands = {"buf"}, !.answer = "length"]
Write == [Plain EXCEPT !.data = {"buf"}, !.hands = {"buf"}, !.answer = "length"]

ReadFixed  == Read
WriteFixed == Write

(* The buffers are combined into one Cancellation; the iovecs are not. *)
ReadVectored  == [Read EXCEPT !.args = {"iovecs"}]
WriteVectored == [Write EXCEPT !.args = {"iovecs"}]

(* The array of iovecs is a field of the Op itself. *)
ReadVectoredExact  == ReadVectored
WriteVectoredExact == WriteVectored

-------------------------------------------------------------------------------
(* op/file.rs. *)
OpenAt == [Plain EXCEPT !.args = {"path"}, !.hands = {"path"}, !.answer = "fd", !.makes = "fd"]
OpenAtDirect == [OpenAt EXCEPT !.answer = "zero", !.makes = "none"]
OpenAtAuto == [OpenAt EXCEPT !.answer = "direct", !.makes = "slot"]

Close == [Plain EXCEPT !.cancels = FALSE]
FSync == Plain
FTruncate == Plain
FAdvise == [Plain EXCEPT !.cancels = FALSE]
FAllocate == [Plain EXCEPT !.cancels = FALSE]

Statx == [Plain EXCEPT !.data = {"stats"}, !.hands = {"stats"}]

MkDirAt == [Plain EXCEPT !.args = {"path"}, !.hands = {"path"}]

-------------------------------------------------------------------------------
(* op/link.rs. *)
LinkAt == [Plain EXCEPT !.args = {"path", "target"}, !.hands = {"path", "target"}]
SymlinkAt == LinkAt
UnlinkAt == MkDirAt

-------------------------------------------------------------------------------
(* op/net.rs. *)
Socket == [Plain EXCEPT !.cancels = FALSE, !.answer = "fd", !.makes = "fd"]
SocketFixed == [Plain EXCEPT !.cancels = FALSE]
SocketAuto == [Socket EXCEPT !.answer = "direct", !.makes = "slot"]

(* The address is a field of the Op, and cancel is the default one. *)
Bind == [Plain EXCEPT !.args = {"addr"}, !.cancels = FALSE]
Connect == [Plain EXCEPT !.args = {"addr"}]

Listen == [Plain EXCEPT !.cancels = FALSE]
Shutdown == [Plain EXCEPT !.cancels = FALSE]

(* The address of the peer is written to a box as the connection arrives. *)
Accept == [Plain EXCEPT !.data = {"peer"}, !.hands = {"peer"}, !.answer = "fd", !.makes = "fd"]
AcceptFixed == [Accept EXCEPT !.answer = "zero", !.makes = "none"]
AcceptAuto == [Accept EXCEPT !.answer = "direct", !.makes = "slot"]

(* Multishot: no address. *)
AcceptMulti == [Plain EXCEPT !.answer = "fd", !.makes = "fd"]
AcceptMultiAuto == [Plain EXCEPT !.answer = "direct", !.makes = "slot"]

-------------------------------------------------------------------------------
(* op/time.rs and op/direct.rs: the timespec and the descriptor the kernel *)
(* replaces by a slot are fields of the Op, and cancel is the default one. *)
Timeout == [Plain EXCEPT !.args = {"abs"}, !.answer = "timeout"]
RegisterFile == [Plain EXCEPT !.args = {"fd"}, !.cancels = FALSE,
                              !.answer = "one", !.makes = "slot"]
InstallSlot == [Plain EXCEPT !.cancels = FALSE, !.answer = "fd", !.makes = "fd"]

-------------------------------------------------------------------------------
(* op/mod.rs (util, Nop) and op/time.rs: the results a decoder returns as  *)
(* Ok, those it returns as Err, and those it panics on.                    *)
Accepts(answer, ret) ==
  CASE answer = "zero"    -> ret = 0
    [] answer = "fd"      -> ret >= 1
    [] answer = "direct"  -> ret >= 1
    [] answer = "length"  -> ret >= 0
    [] answer = "one"     -> ret = 1
    [] answer = "nop"     -> ret \in {0, -2}
    [] answer = "timeout" -> TRUE

(* Nop and Timeout return nothing, and never an error. *)
Rejects(answer, ret) == answer \notin {"nop", "timeout"} /\ ret < 0

(* Nop expects 0 or ECANCELED.  Timeout expects ETIME or ECANCELED, but    *)
(* with a debug_assert: on another result a debug build panics, a release  *)
(* build returns.                                                          *)
Panics(answer, ret) ==
  IF answer = "timeout" THEN ret \notin {-1, -2}
  ELSE ~Accepts(answer, ret) /\ ~Rejects(answer, ret)

(* cancellation.rs: a Cancellation keeps a pointer and a length, and gives *)
(* the allocation back with that length.  Lengths are counted in the       *)
(* elements of the container (a CString: one, and its NUL).                *)
Length(memory) == CASE memory \in {"path", "target"} -> 2
                    [] OTHER                         -> 1

(* From<Box<T>> gives back a Box<()>, From<CString> a Vec<u8> without the  *)
(* NUL, From<Box<[T]>> (a buffer) its slice.                               *)
GivenBack(memory) == CASE memory \in {"stats", "peer"}   -> 0
                       [] memory \in {"path", "target"}  -> 1
                       [] OTHER                          -> 1

===============================================================================
