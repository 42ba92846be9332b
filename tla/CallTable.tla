------------------------------- MODULE CallTable -------------------------------
(***************************************************************************)
(* The asynchronous functions of inel (fs, net, time) that await their     *)
(* operations one after the other.                                         *)
(*                                                                         *)
(*   steps   the operations, in order                                      *)
(*   again   what is done more than once: the whole call, for the next     *)
(*           address after an error; the last step, until it is done; the  *)
(*           results of a multishot operation                              *)
(*   gives   the descriptor it made is returned, not dropped at the end    *)
(*                                                                         *)
(* A descriptor is wrapped (OwnedFd, OwnedDirect::Auto, or File, TcpStream *)
(* around them) as soon as the await that made it returns.                 *)
(***************************************************************************)
EXTENDS OpTable, Sequences

Call(steps) == [steps |-> steps, again |-> "no", gives |-> FALSE]
Giving(steps) == [Call(steps) EXCEPT !.gives = TRUE]

(* fs/file.rs: OpenOptions, File, DirectFile. *)
OpenFile     == Giving(<<OpenAt>>)
OpenDirect   == Giving(<<OpenAtAuto>>)
FileMetadata == Call(<<Statx>>)
Sync         == Call(<<FSync>>)
Truncate     == Call(<<FTruncate>>)
Advise       == Call(<<FAdvise>>)
MakeDirect   == Giving(<<RegisterFile>>)
MakeRegular  == Giving(<<InstallSlot>>)

(* fs/func.rs, fs/dir.rs. *)
ReadPath      == [Call(<<OpenAt, FAdvise, Read>>) EXCEPT !.again = "last"]
WritePath     == [Call(<<OpenAt, Write>>) EXCEPT !.again = "last"]
PathMetadata  == Call(<<OpenAt, Statx>>)
CreateFile    == Call(<<OpenAt>>)
CreateDir     == Call(<<MkDirAt>>)
CreateDirAll  == [Call(<<MkDirAt>>) EXCEPT !.again = "last"]
HardLink      == Call(<<LinkAt>>)
SoftLink      == Call(<<SymlinkAt>>)
RemovePath    == Call(<<UnlinkAt>>)

(* net/tcp.rs.  (bind_direct, a chain, is a flow of Flows.tla.) *)
BindListener  == [Giving(<<Socket, Bind, Listen>>) EXCEPT !.again = "address"]
ConnectStream == [Giving(<<Socket, Connect>>) EXCEPT !.again = "address"]
ConnectDirect == [Giving(<<SocketAuto, Connect>>) EXCEPT !.again = "address"]
AcceptStream  == Giving(<<Accept>>)
AcceptDirect  == Giving(<<AcceptAuto>>)
ShutdownHow   == Call(<<Shutdown>>)
Incoming      == [Giving(<<AcceptMulti>>) EXCEPT !.again = "items"]
DirectIncoming == [Giving(<<AcceptMultiAuto>>) EXCEPT !.again = "items"]

(* time.rs. *)
Sleep   == Call(<<Timeout>>)
Instant == Call(<<Nop>>)

AllCalls ==
  {OpenFile, OpenDirect, FileMetadata, Sync, Truncate, Advise, MakeDirect, MakeRegular,
   ReadPath, WritePath, PathMetadata, CreateFile, CreateDir, CreateDirAll, HardLink,
   SoftLink, RemovePath, BindListener, ConnectStream, ConnectDirect, AcceptStream,
   AcceptDirect, ShutdownHow, Incoming, DirectIncoming, Sleep, Instant}

===============================================================================
