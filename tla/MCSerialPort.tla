---------------------------- MODULE MCSerialPort ----------------------------
(* SerialPort on small instances; a tick is a twentieth of a second. *)
EXTENDS SerialPort

\* Timeouts: wait forever; none; less than a tenth; one step that is not a whole
\* tenth; several steps; 2 seconds.
MCTimeouts == {-1, 0, 1, 7, 14, 40}
MCFewTimeouts == {-1, 3, 40}

=============================================================================
