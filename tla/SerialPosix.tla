---------------------------- MODULE SerialPosix -----------------------------
(* octave_serial on POSIX (serial_class_lin.cc) with the functions of       *)
(* __srl_properties__.cc: its copy is a termios, applied by tcsetattr; the  *)
(* lines are not part of it and are read and written with ioctl.            *)
EXTENDS SerialLine

\* mutant of Apply: the copy is sent before it is changed.
ApplyEarly(f, c) == Send(f, c, [config EXCEPT !.DTR = port.DTR, !.RTS = port.RTS])

\* tcsetattr sends the whole copy; a rate above 230400 is sent and not read back.
Apply(f, c) == Send(f, c, [c EXCEPT !.DTR = port.DTR, !.RTS = port.RTS])

ReportedBauds ==
  {0, 50, 75, 110, 134, 150, 200, 300, 600, 1200, 1800, 2400, 4800, 9600, 19200,
   38400, 57600, 115200, 230400}
SettableBauds ==
  ReportedBauds \cup
  {460800, 500000, 576000, 921600, 1000000, 1152000, 2000000, 3000000, 3500000, 4000000}

set_baudrate(b) == b \in SettableBauds /\ Set("baud", b) /\ Apply("baud", [config EXCEPT !.baud = b])
set_stopbits(n) == n \in {1, 2} /\ Set("stop", n) /\ Apply("stop", [config EXCEPT !.stop = n])
\* CSIZE is cleared before the new size is set.
set_bytesize(n) == n \in 5 .. 8 /\ Set("size", n) /\ Apply("size", [config EXCEPT !.size = n])
set_parity(p) == Set("parity", p) /\ Apply("parity", [config EXCEPT !.parity = p])

get_baudrate == IF config.baud \in ReportedBauds THEN config.baud ELSE -1
get_stopbits == config.stop
get_bytesize == config.size
get_parity == config.parity

\* VTIME for a timeout in tenths: the timeout up to 10, else 5.
Step(t) == IF t < 0 \/ t > 10 THEN 5 ELSE t

\* In tenths of a second.  The object changes before the port.
set_timeout(t) ==
  /\ t \in -1 .. 255
  /\ Called("timeout")
  /\ timeout' = t * Tenth
  /\ blocking' = (t < 0)
  /\ Apply("step", [config EXCEPT !.step = Step(t) * Tenth])
  /\ UNCHANGED <<kind, queued, status, driving, asked, before, unseen, call>>

\* TIOCMGET; that it fails is ignored, and the status then is what it was.
get_control_line_status == status' \in {status, LinesOn}

\* TIOCMSET
Driven(on) == [port EXCEPT !.DTR = Level("DTR" \in on), !.RTS = Level("RTS" \in on)]

\* mutant of set_control_line: the status of an earlier call is used.
set_control_line_stale(l, on) ==
  /\ Drive(l, on)
  /\ unseen' = {}
  /\ UNCHANGED <<config, status, fate>>

\* The status is read with TIOCMGET, whose outcome is ignored.
set_control_line(l, on) ==
  /\ Drive(l, on)
  /\ \/ status' = LinesOn /\ unseen' = {}
     \/ status' = status /\ unseen' = Lines
  /\ UNCHANGED <<config, fate>>

\* It is changed and written with TIOCMSET, whose outcome is ignored as well; then the line
\* is read for the answer.
DriveLine ==
  /\ driving # NotDriving
  /\ LET on == IF driving.on THEN status \cup {driving.line} ELSE status \ {driving.line} IN
     /\ port' \in {port, Driven(on)}
     /\ status' \in {on, {l \in Lines : port'[l] = "on"}}
  /\ driving' = NotDriving
  /\ unseen' = {}
  /\ UNCHANGED <<kind, queued, config, timeout, blocking, asked, before, fate, calls,
                 call, answer>>

\* CD, CTS, DSR and RI are each read in turn; what they are is not modelled.
srl_pinstatus ==
  /\ Callable
  /\ get_control_line_status
  /\ answer' = [NoAnswer EXCEPT !.op = "pins"]
  /\ UNCHANGED <<kind, port, queued, config, timeout, blocking, driving, asked, before, fate,
                 unseen, calls, call>>

\* ::read takes what there is as soon as there is something, waiting VTIME at most; the
\* time it waits before the first byte is not counted.
ReadSome ==
  /\ Reading /\ queued > 0
  /\ Took(Smaller(queued, call.need - call.got), 0)

\* mutant of ReadNothing: VTIME is counted as hundredths.
ReadNothingHundredths ==
  /\ Reading /\ queued = 0
  /\ Empty(call.left - (config.step \div 10))

ReadNothing ==
  /\ Reading /\ queued = 0
  /\ Empty(call.left - config.step)

\* Output (0), input (1) or both (2).
flush(q) ==
  /\ Callable
  /\ q \in 0 .. 2
  /\ queued' = IF q = 0 THEN queued ELSE 0
  /\ answer' = [NoAnswer EXCEPT !.op = "flush"]
  /\ UNCHANGED <<settings, call>>

\* The properties of the object, each set through a function of its own, which passes an
\* int on to a parameter that may be narrower.
srl_flush(q) == flush(AsUnsignedShort(q))
srl_requesttosend(on) == set_control_line("RTS", on)
srl_dataterminalready(on) == set_control_line("DTR", on)
srl_timeout(n) == set_timeout(AsShort(n))
srl_baudrate(b) == set_baudrate(b)
srl_bytesize(n) == set_bytesize(AsUnsignedShort(n))
srl_stopbits(n) == set_stopbits(AsUnsignedShort(n))
srl_parity(p) == set_parity(p)

Setters ==
  \/ \E b \in Bauds : srl_baudrate(b)
  \/ \E n \in Stopbits : srl_stopbits(n)
  \/ \E n \in Sizes : srl_bytesize(n)
  \/ \E p \in Parities : srl_parity(p)
  \/ \E n \in Tenths : srl_timeout(n)
  \/ \E on \in BOOLEAN : srl_requesttosend(on) \/ srl_dataterminalready(on)

ReadLoop == ReadSome \/ ReadNothing
Next == Setters \/ DriveLine \/ srl_pinstatus \/ ReadLoop \/ \E q \in 0 .. 2 : srl_flush(q)
=============================================================================
