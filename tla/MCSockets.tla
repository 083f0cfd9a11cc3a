------------------------------ MODULE MCSockets ------------------------------
(***************************************************************************)
(* Small instances of Sockets.                                             *)
(***************************************************************************)
EXTENDS Sockets

StreamsAndDatagrams == {"tcpclient", "tcp", "udp", "udpport"}
SmallSizes == {0, 1, 3}
SmallCounts == {0, 2}
SmallElements == {1, 2}
SmallTimeouts == {-5, -1, 0, 1500}
SmallPorts == {-1, 7, 65536}
=============================================================================
