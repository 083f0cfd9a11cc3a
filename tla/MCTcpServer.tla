---------------------------- MODULE MCTcpServer -----------------------------
(* TcpServer on small instances. *)
EXTENDS TcpServer

\* Timeouts: wait forever; longer than one select.
MCTimeouts == {-1, 3}

=============================================================================
