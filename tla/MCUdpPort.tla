----------------------------- MODULE MCUdpPort ------------------------------
(* UdpPort on small instances. *)
EXTENDS UdpPort

\* Timeouts: wait forever; longer than one select.
MCTimeouts == {-1, 3}

=============================================================================
