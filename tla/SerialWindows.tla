--------------------------- MODULE SerialWindows ----------------------------
(* octave_serial on Windows (serial_class_win32.cc): its copy is a DCB, which *)
(* has the lines as well, applied by SetCommState and refreshed from the port *)
(* whenever a line is read; waiting is set apart, by SetCommTimeouts.         *)
EXTENDS SerialLine

\* SetCommState
Apply(f, c) == Send(f, c, [c EXCEPT !.step = port.step])

\* The rate as it is; one that is refused stays in the copy: error comes before it is
\* restored.
set_baudrate(b) == Set("baud", b) /\ Apply("baud", [config EXCEPT !.baud = b])
set_stopbits(n) == n \in {1, 2} /\ Set("stop", n) /\ Apply("stop", [config EXCEPT !.stop = n])
set_bytesize(n) == n \in 5 .. 8 /\ Set("size", n) /\ Apply("size", [config EXCEPT !.size = n])
set_parity(p) == Set("parity", p) /\ Apply("parity", [config EXCEPT !.parity = p])

get_baudrate == config.baud
get_stopbits == config.stop
get_bytesize == config.size
get_parity == config.parity

\* ReadTotalTimeoutConstant for a timeout in tenths, which is 100 ms each.
Step(t) == IF t < 0 \/ t > 10 THEN 5 ELSE t

set_timeout(t) ==
  LET c == [config EXCEPT !.step = Step(t) * Tenth] IN
  /\ t \in -1 .. 255
  /\ Called("timeout")
  /\ timeout' = t * Tenth
  /\ blocking' = (t < 0)
  /\ config' = c
  /\ port' \in {port, [port EXCEPT !.step = c.step]}
  /\ UNCHANGED <<kind, queued, status, driving, asked, before, fate, unseen, call>>

\* GetCommState: the copy becomes what the port has, but for the waiting.
Refreshed == [port EXCEPT !.step = config.step]

\* GetCommState replaces the copy; that it fails is ignored, and the copy then is what it
\* was.
get_control_line_status ==
  \/ config' = Refreshed /\ fate' = Dropped(fate)
  \/ UNCHANGED <<config, fate>>

\* The copy is refreshed, or not.
set_control_line(l, on) ==
  /\ Drive(l, on)
  /\ \/ config' = Refreshed /\ fate' = Dropped(fate) /\ unseen' = {}
     \/ UNCHANGED <<config, fate>> /\ unseen' = Fields \cup Lines
  /\ UNCHANGED status

\* It is changed and sent as a whole, with what it may still have that the port has not
\* taken; the outcome is ignored.  Then the line is read for the answer.
DriveLine ==
  /\ driving # NotDriving
  /\ \E taken \in BOOLEAN, reread \in BOOLEAN :
       LET c == [config EXCEPT ![driving.line] = Level(driving.on)]
           fates == IF taken THEN Fated(driving.line, "applied") ELSE fate IN
       /\ port' = IF taken THEN [c EXCEPT !.step = port.step] ELSE port
       /\ config' = IF reread THEN [port' EXCEPT !.step = config.step] ELSE c
       /\ fate' = IF reread THEN Dropped(fates) ELSE fates
  /\ driving' = NotDriving
  /\ unseen' = {}
  /\ UNCHANGED <<kind, queued, status, timeout, blocking, asked, before, calls, call, answer>>

srl_pinstatus ==
  /\ Callable
  /\ get_control_line_status
  /\ answer' = [NoAnswer EXCEPT !.op = "pins"]
  /\ UNCHANGED <<kind, port, queued, status, timeout, blocking, driving, asked, before, unseen,
                 calls, call>>

\* ReadFile waits for all that is asked for, up to its constant, then gives what there is.
ReadSome ==
  /\ Reading /\ queued > 0
  /\ LET k == Smaller(queued, call.need - call.got) IN
     Took(k, IF k = call.need - call.got \/ blocking THEN 0 ELSE port.step)
ReadNothing ==
  /\ Reading /\ queued = 0
  /\ Empty(call.left - config.step)

\* PurgeComm; that it fails is not told.
flush(q) ==
  /\ Callable
  /\ q \in 0 .. 2
  /\ queued' \in {queued, IF q = 0 THEN queued ELSE 0}
  /\ answer' = [NoAnswer EXCEPT !.op = "flush"]
  /\ UNCHANGED <<settings, call>>

Setters ==
  \/ \E b \in Bauds : set_baudrate(b)
  \/ \E n \in Stopbits : set_stopbits(AsUnsignedShort(n))
  \/ \E n \in Sizes : set_bytesize(AsUnsignedShort(n))
  \/ \E p \in Parities : set_parity(p)
  \/ \E n \in Tenths : set_timeout(AsShort(n))
  \/ \E l \in Lines, on \in BOOLEAN : set_control_line(l, on)

ReadLoop == ReadSome \/ ReadNothing
Next == Setters \/ DriveLine \/ srl_pinstatus \/ ReadLoop \/ \E q \in 0 .. 2 : flush(q)
=============================================================================
