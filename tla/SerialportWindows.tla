------------------------- MODULE SerialportWindows --------------------------
(* octave_serialport on Windows (serialport_class_win32.cc) with the functions *)
(* of __srlp_properties__.cc.  As octave_serial there, with a timeout in       *)
(* seconds and flow control, which changes the copy and is not sent.           *)
EXTENDS SerialLine

\* SetCommState
Apply(f, c) == Send(f, c, [c EXCEPT !.step = port.step])

\* The rate as it is; one that is refused stays in the copy: error comes before it is
\* restored.
set_baudrate(b) == Set("baud", b) /\ Apply("baud", [config EXCEPT !.baud = b])
set_stopbits(n) == n \in {1, 2} /\ Set("stop", n) /\ Apply("stop", [config EXCEPT !.stop = n])
set_databits(n) == n \in 5 .. 8 /\ Set("size", n) /\ Apply("size", [config EXCEPT !.size = n])
set_parity(p) == Set("parity", p) /\ Apply("parity", [config EXCEPT !.parity = p])

get_baudrate == config.baud
get_stopbits == config.stop
get_databits == config.size
get_parity == config.parity

\* mutant of Step: whole seconds.
StepSeconds(t) ==
  IF t < 0 THEN 50 * Tick ELSE Smaller((t \div (1000 * Tick)) * 1000 * Tick, 50 * Tick)

\* ReadTotalTimeoutConstant in whole milliseconds, at most 50; the rest of one is lost.
Step(t) == IF t < 0 THEN 50 * Tick ELSE Smaller((t \div Tick) * Tick, 50 * Tick)

set_timeout(t) ==
  LET c == [config EXCEPT !.step = Step(t)] IN
  /\ t \in -1000 * Tick .. 255000 * Tick
  /\ Called("timeout")
  /\ timeout' = t
  /\ blocking' = (t < 0)
  /\ config' = c
  /\ port' \in {port, [port EXCEPT !.step = c.step]}
  /\ UNCHANGED <<kind, queued, status, driving, asked, before, fate, unseen, call>>

\* The copy only: DTR is on again, and RTS as the mode has it.
set_flowcontrol(f) ==
  /\ Set("flow", f)
  /\ config' = [config EXCEPT !.flow = f, !.DTR = "on",
                              !.RTS = IF f = "hardware" THEN "handshake" ELSE "on"]
  /\ fate' = Fated("flow", "unsent")
  /\ UNCHANGED port

get_flowcontrol == config.flow

\* GetCommState: the copy becomes what the port has, but for the waiting.
Refreshed == [port EXCEPT !.step = config.step]

\* GetCommState replaces the copy; that it fails is ignored, and the copy then is what it
\* was.
get_control_line_status ==
  \/ config' = Refreshed /\ fate' = Dropped(fate)
  \/ UNCHANGED <<config, fate>>

\* The copy is refreshed, or not.
set_control_line(l, on) ==
  /\ Drive(l, on)
  /\ \/ config' = Refreshed /\ fate' = Dropped(fate) /\ unseen' = {}
     \/ UNCHANGED <<config, fate>> /\ unseen' = Fields \cup Lines
  /\ UNCHANGED status

\* It is changed and sent as a whole, with what it may still have that the port has not
\* taken; the outcome is ignored.  Then the line is read for the answer.
DriveLine ==
  /\ driving # NotDriving
  /\ \E taken \in BOOLEAN, reread \in BOOLEAN :
       LET c == [config EXCEPT ![driving.line] = Level(driving.on)]
           fates == IF taken THEN Fated(driving.line, "applied") ELSE fate IN
       /\ port' = IF taken THEN [c EXCEPT !.step = port.step] ELSE port
       /\ config' = IF reread THEN [port' EXCEPT !.step = config.step] ELSE c
       /\ fate' = IF reread THEN Dropped(fates) ELSE fates
  /\ driving' = NotDriving
  /\ unseen' = {}
  /\ UNCHANGED <<kind, queued, status, timeout, blocking, asked, before, calls, call, answer>>

\* Each pin is read in turn; RingIndicator is told the other way round (not modelled).
srlp_pinstatus ==
  /\ Callable
  /\ get_control_line_status
  /\ answer' = [NoAnswer EXCEPT !.op = "pins"]
  /\ UNCHANGED <<kind, port, queued, status, timeout, blocking, driving, asked, before, unseen,
                 calls, call>>

\* ReadFile waits for all that is asked for, up to its constant, then gives what there is.
ReadSome ==
  /\ Reading /\ queued > 0
  /\ LET k == Smaller(queued, call.need - call.got) IN
     Took(k, IF k = call.need - call.got \/ blocking THEN 0 ELSE port.step)
\* What is left is a double: taking steps from it may leave a residue where it should be 0.
ReadNothing ==
  /\ Reading /\ queued = 0
  /\ \E residue \in 0 .. 1 :
       /\ residue = 1 => call.left = config.step /\ config.step < timeout
       /\ Empty(call.left - config.step + residue)

\* PurgeComm; that it fails is not told.
flush(q) ==
  /\ Callable
  /\ q \in 0 .. 2
  /\ queued' \in {queued, IF q = 0 THEN queued ELSE 0}
  /\ answer' = [NoAnswer EXCEPT !.op = "flush"]
  /\ UNCHANGED <<settings, call>>

\* The properties of the object, each set through a function of its own, which passes an
\* int on to a parameter that may be narrower.
srlp_flush(q) == flush(AsUnsignedShort(q))
srlp_requesttosend(on) == set_control_line("RTS", on)
srlp_dataterminalready(on) == set_control_line("DTR", on)
srlp_timeout(t) == set_timeout(t)
srlp_baudrate(b) == set_baudrate(b)
srlp_databits(n) == set_databits(AsUnsignedShort(n))
srlp_stopbits(n) == set_stopbits(AsUnsignedShort(n))
srlp_parity(p) == set_parity(p)
srlp_flowcontrol(f) == set_flowcontrol(f)

Setters ==
  \/ \E b \in Bauds : srlp_baudrate(b)
  \/ \E n \in Stopbits : srlp_stopbits(n)
  \/ \E n \in Sizes : srlp_databits(n)
  \/ \E p \in Parities : srlp_parity(p)
  \/ \E f \in Flows : srlp_flowcontrol(f)
  \/ \E t \in Seconds : srlp_timeout(t)
  \/ \E on \in BOOLEAN : srlp_requesttosend(on) \/ srlp_dataterminalready(on)

ReadLoop == ReadSome \/ ReadNothing
Next == Setters \/ DriveLine \/ srlp_pinstatus \/ ReadLoop \/ \E q \in 0 .. 2 : srlp_flush(q)
=============================================================================
