-------------------------------- MODULE MCCalls --------------------------------
(* Calls with two clients that make any call. *)
EXTENDS Calls, TLC

Symmetry == Permutations(Clients)

(* The calls whose entries point into the Op itself. *)
OneConnect == {ConnectStream}
OneStat == {FileMetadata}
================================================================================
