------------------------- MODULE MCSerialInterfaces -------------------------
(* Two values of most settings, one rate POSIX cannot read back, one parameter *)
(* that only an overflow makes valid, and timeouts on each side of each limit. *)
EXTENDS SerialInterfaces

AllKinds == KnownKinds
MCTenths == {0, 12, 65536 + 3}
MCSeconds == {0, 1, 61, 200}
=============================================================================
