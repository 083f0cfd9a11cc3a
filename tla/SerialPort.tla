----------------------------- MODULE SerialPort -----------------------------
(***************************************************************************)
(* The serialport interface on POSIX: octave_serialport                    *)
(* (serialport_class_lin.cc) and the Octave-language read and flush        *)
(* (inst/@octave_serialport).  The object keeps a copy of the termios of   *)
(* the port; its setters change the copy and have tcsetattr apply it.  A   *)
(* read waits in steps of VTIME.  The object is open throughout.           *)
(***************************************************************************)
EXTENDS Integers, Sequences

CONSTANTS
  Tenth,         \* ticks per tenth of a second, the unit of VTIME
  Bauds, Databits, Stopbits, Parities, Flows,  \* values given to the setters
  Timeouts,      \* Timeout values a program sets, in ticks; < 0 waits forever
  Counts,        \* element counts given to read
  ElementSizes,  \* bytes per element of the precisions given to read
  MaxSend        \* bound: bytes that reach the port

ASSUME TickAssumption == Tenth \in Nat \ {0}
ASSUME SettingAssumption ==
  /\ Databits \subseteq 5 .. 8
  /\ Stopbits \subseteq {1, 2}
  /\ Parities \subseteq {"none", "even", "odd"}
  /\ Flows \subseteq {"none", "hardware", "software"}
  /\ Timeouts \subseteq Int
ASSUME ReadAssumption ==
  /\ Counts \subseteq Nat
  /\ ElementSizes \subseteq Nat \ {0}
  /\ MaxSend \in Nat

VARIABLES
  \* the port
  port,          \* the termios in force
  sent,          \* how many bytes have reached the port
  taken,         \* how many of them have left its queue
  \* the object
  config,        \* its copy of the termios
  timeout,       \* the Timeout property
  asked,         \* history: the last value given to each setter of a line setting
  driver,        \* what tcsetattr did with config the last time: applied, refused
  \* the running call
  call,          \* its arguments and local variables
  buf,           \* what earlier calls of __srlp_read__ returned (tmp in read.m)
  got,           \* what the running call of __srlp_read__ has read
  result         \* what the latest read or flush told the program

linevars == <<sent, taken>>
setvars == <<port, config, timeout, asked, driver>>
callvars == <<call, buf, got, result>>
vars == <<port, sent, taken, config, timeout, asked, driver, call, buf, got, result>>

-----------------------------------------------------------------------------
\* Values

Line == "line"                   \* the one source of bytes
Byte == {Line} \X (Nat \ {0})    \* <<Line, i>>: the i-th byte that reached the port
MaxVtime == 5

\* The bytes i+1 .. j.
Segment(i, j) == [k \in 1 .. (j - i) |-> <<Line, i + k>>]

Smaller(x, y) == IF x <= y THEN x ELSE y

\* The rates set_baudrate knows, and those get_baudrate knows.
ReportedBauds ==
  {0, 50, 75, 110, 134, 150, 200, 300, 600, 1200, 1800, 2400, 4800, 9600, 19200,
   38400, 57600, 115200, 230400}
SettableBauds ==
  ReportedBauds \cup
  {460800, 500000, 576000, 921600, 1000000, 1152000, 2000000, 3000000, 3500000, 4000000}

Termios ==
  [baud : SettableBauds, size : 5 .. 8, stop : {1, 2}, parenb : {0, 1}, parodd : {0, 1},
   ixonoff : {0, 1}, crtscts : {0, 1}, vtime : 0 .. MaxVtime]

\* 8n1 at 9600, reads that wait half a second: what open applies.
OpenTermios ==
  [baud |-> 9600, size |-> 8, stop |-> 1, parenb |-> 0, parodd |-> 0,
   ixonoff |-> 0, crtscts |-> 0, vtime |-> MaxVtime]

\* get_parity, get_flowcontrol, get_baudrate
ParityOf(c) == IF c.parenb = 0 THEN "none" ELSE IF c.parodd = 1 THEN "odd" ELSE "even"
FlowOf(c) == IF c.crtscts = 1 THEN "hardware" ELSE IF c.ixonoff = 1 THEN "software" ELSE "none"
BaudOf(c) == IF c.baud \in ReportedBauds THEN c.baud ELSE -1

\* VTIME for a timeout: whole tenths, at most five.
VtimeOf(t) == IF t < 0 THEN MaxVtime ELSE Smaller(t \div Tenth, MaxVtime)

\* blocking_read
Blocking == timeout < 0

NumBytesAvailable == sent - taken

IdleCall ==
  [op |-> "idle", need |-> 0, tosize |-> 1, left |-> 0, waited |-> 0, base |-> 0, avail |-> 0]

\* An answer that says nothing of a running call.
Answer(op, status, why) ==
  [op |-> op, status |-> status, why |-> why, bytes |-> << >>, need |-> 0,
   avail |-> 0, tmo |-> 0, waited |-> 0, slice |-> 0]

NoResult == Answer("none", "none", "none")

Asked ==
  [baud : SettableBauds, size : 5 .. 8, stop : {1, 2}, parity : {"none", "even", "odd"},
   flow : {"none", "hardware", "software"}]

CallType ==
  [op : {"idle", "read"}, need : Nat, tosize : Nat \ {0}, left : Int, waited : Nat,
   base : Nat, avail : Nat]

ResultType ==
  [op : {"none", "read", "flush"}, status : {"none", "ok", "flushed", "error"},
   why : {"none", "full", "timeout", "torn", "interrupt"}, bytes : Seq(Byte),
   need : Nat, avail : Nat, tmo : Int, waited : Nat, slice : Nat]

TypeOK ==
  /\ port \in Termios
  /\ sent \in Nat
  /\ taken \in 0 .. sent
  /\ config \in Termios
  /\ timeout \in Int
  /\ asked \in Asked
  /\ driver \in {"applied", "refused"}
  /\ call \in CallType
  /\ buf \in Seq(Byte)
  /\ got \in Seq(Byte)
  /\ result \in ResultType

\* The object right after open has succeeded.
Init ==
  /\ port = OpenTermios
  /\ sent = 0
  /\ taken = 0
  /\ config = OpenTermios
  /\ timeout = -1
  /\ asked = [baud |-> 9600, size |-> 8, stop |-> 1, parity |-> "none", flow |-> "none"]
  /\ driver = "applied"
  /\ call = IdleCall
  /\ buf = << >>
  /\ got = << >>
  /\ result = NoResult

-----------------------------------------------------------------------------
\* The line (external)

Arrive ==
  /\ sent < MaxSend
  /\ sent' = sent + 1
  /\ UNCHANGED <<taken, setvars, callvars>>

-----------------------------------------------------------------------------
\* Setters

Callable == call.op = "idle"

\* mutant of Apply: tcsetattr is called before the copy is changed.
ApplyEarly(c) ==
  /\ config' = c
  /\ \/ /\ port' = config
        /\ driver' = "applied"
     \/ /\ port' = port
        /\ driver' = "refused"

\* The copy becomes c; tcsetattr applies it to the port or refuses it (external).
Apply(c) ==
  /\ config' = c
  /\ \/ /\ port' = c
        /\ driver' = "applied"
     \/ /\ port' = port
        /\ driver' = "refused"

SetBaudrate(b) ==
  /\ Callable
  /\ b \in SettableBauds
  /\ Apply([config EXCEPT !.baud = b])
  /\ asked' = [asked EXCEPT !.baud = b]
  /\ UNCHANGED <<timeout, linevars, callvars>>

SetDatabits(n) ==
  /\ Callable
  /\ n \in 5 .. 8
  /\ Apply([config EXCEPT !.size = n])
  /\ asked' = [asked EXCEPT !.size = n]
  /\ UNCHANGED <<timeout, linevars, callvars>>

SetStopbits(n) ==
  /\ Callable
  /\ n \in {1, 2}
  /\ Apply([config EXCEPT !.stop = n])
  /\ asked' = [asked EXCEPT !.stop = n]
  /\ UNCHANGED <<timeout, linevars, callvars>>

\* Parity "none" leaves PARODD as it is.
SetParity(p) ==
  /\ Callable
  /\ \/ p = "none" /\ Apply([config EXCEPT !.parenb = 0])
     \/ p = "even" /\ Apply([config EXCEPT !.parenb = 1, !.parodd = 0])
     \/ p = "odd" /\ Apply([config EXCEPT !.parenb = 1, !.parodd = 1])
  /\ asked' = [asked EXCEPT !.parity = p]
  /\ UNCHANGED <<timeout, linevars, callvars>>

\* mutant of SetFlowcontrol: software flow control leaves CRTSCTS as it is.
SetFlowcontrolKeeps(f) ==
  /\ Callable
  /\ \/ f = "none" /\ Apply([config EXCEPT !.ixonoff = 0, !.crtscts = 0])
     \/ f = "hardware" /\ Apply([config EXCEPT !.ixonoff = 0, !.crtscts = 1])
     \/ f = "software" /\ Apply([config EXCEPT !.ixonoff = 1])
  /\ asked' = [asked EXCEPT !.flow = f]
  /\ UNCHANGED <<timeout, linevars, callvars>>

SetFlowcontrol(f) ==
  /\ Callable
  /\ \/ f = "none" /\ Apply([config EXCEPT !.ixonoff = 0, !.crtscts = 0])
     \/ f = "hardware" /\ Apply([config EXCEPT !.ixonoff = 0, !.crtscts = 1])
     \/ f = "software" /\ Apply([config EXCEPT !.ixonoff = 1, !.crtscts = 0])
  /\ asked' = [asked EXCEPT !.flow = f]
  /\ UNCHANGED <<timeout, linevars, callvars>>

\* The property changes first; tcsetattr is called only for another VTIME.
SetTimeout(t) ==
  /\ Callable
  /\ t >= -10 * Tenth
  /\ timeout' = t
  /\ \/ /\ config.vtime = VtimeOf(t)
        /\ UNCHANGED <<config, port, driver>>
     \/ /\ config.vtime # VtimeOf(t)
        /\ Apply([config EXCEPT !.vtime = VtimeOf(t)])
  /\ UNCHANGED <<asked, linevars, callvars>>

-----------------------------------------------------------------------------
\* Reading

\* The call returns to the program; slice is the VTIME the port has used.
Finish(status, why, bytes, waited) ==
  /\ result' = [op |-> "read", status |-> status, why |-> why, bytes |-> bytes,
                need |-> call.need, avail |-> call.avail, tmo |-> timeout,
                waited |-> waited, slice |-> port.vtime]
  /\ call' = IdleCall
  /\ buf' = << >>
  /\ got' = << >>

\* read (dev, cnt, precision): nothing is read for no elements.
Read(cnt, ts) ==
  /\ Callable
  /\ \/ /\ cnt = 0
        /\ result' = Answer("read", "ok", "full")
        /\ UNCHANGED <<call, buf, got>>
     \/ /\ cnt > 0
        /\ call' = [op |-> "read", need |-> cnt * ts, tosize |-> ts, left |-> timeout,
                    waited |-> 0, base |-> taken, avail |-> NumBytesAvailable]
        /\ buf' = << >>
        /\ got' = << >>
        /\ result' = NoResult
  /\ UNCHANGED <<linevars, setvars>>

\* read.m has the bytes b; typecast raises when an element is torn.
Return(b, why, waited) ==
  \/ /\ Len(b) % call.tosize = 0
     /\ Finish("ok", why, b, waited)
  \/ /\ Len(b) % call.tosize # 0
     /\ Finish("error", "torn", << >>, waited)

\* ::read finds bytes in the queue: it takes those asked for.
Take ==
  /\ call.op = "read"
  /\ taken < sent
  /\ LET k == Smaller(call.need - Len(buf) - Len(got), sent - taken)
         more == got \o Segment(taken, taken + k)
     IN /\ taken' = taken + k
        /\ \/ /\ Len(buf) + Len(more) = call.need
              /\ Return(buf \o more, "full", call.waited)
           \/ /\ Len(buf) + Len(more) < call.need
              /\ got' = more
              /\ UNCHANGED <<call, buf, result>>
  /\ UNCHANGED <<sent, setvars>>

\* mutant of ReadAgain: the bytes of a short call are forgotten.
ReadAgainForgets ==
  /\ buf' = buf
  /\ got' = << >>
  /\ call' = [call EXCEPT !.left = timeout, !.waited = 0]
  /\ UNCHANGED result

\* __srlp_read__ returned less than it was asked for: read.m asks for the rest.
ReadAgain ==
  /\ buf' = buf \o got
  /\ got' = << >>
  /\ call' = [call EXCEPT !.left = timeout, !.waited = 0]
  /\ UNCHANGED result

\* mutant of LeftAfter: VTIME is counted as seconds.
LeftAfterSeconds == IF config.vtime = 0 THEN 0 ELSE call.left - config.vtime * 10 * Tenth

\* The wait left after a step that found nothing; none if VTIME is 0.
LeftAfter == IF config.vtime = 0 THEN 0 ELSE call.left - config.vtime * Tenth

\* A step of VTIME has passed without a byte: the call waits on, or __srlp_read__
\* ends, and with it the whole read unless it got something.
StepOver ==
  LET waited == call.waited + port.vtime * Tenth
  IN \/ /\ LeftAfter > 0
        /\ call' = [call EXCEPT !.left = LeftAfter, !.waited = waited]
        /\ UNCHANGED <<buf, got, result>>
     \/ /\ LeftAfter <= 0
        /\ got # << >>
        /\ ReadAgain
     \/ /\ LeftAfter <= 0
        /\ got = << >>
        /\ Return(buf, "timeout", waited)

\* mutant of Silence: the timeout counts only while nothing was read.
SilenceUnread ==
  /\ call.op = "read"
  /\ taken = sent
  /\ ~Blocking
  /\ got = << >>
  /\ StepOver
  /\ UNCHANGED <<linevars, setvars>>

\* mutant of Silence: a step is counted before the queue is looked at.
SilenceFirst ==
  /\ call.op = "read"
  /\ ~Blocking
  /\ StepOver
  /\ UNCHANGED <<linevars, setvars>>

\* ::read returns nothing after VTIME.  A blocking read goes on for ever: its
\* empty steps change nothing and are left to stuttering.
Silence ==
  /\ call.op = "read"
  /\ taken = sent
  /\ ~Blocking
  /\ StepOver
  /\ UNCHANGED <<linevars, setvars>>

\* The user interrupts (OCTAVE_QUIT, or ::read failing with EINTR).
Interrupt ==
  /\ call.op = "read"
  /\ Finish("error", "interrupt", << >>, call.waited)
  /\ UNCHANGED <<linevars, setvars>>

\* flush (dev): tcflush drops what is queued.
Flush ==
  /\ Callable
  /\ taken' = sent
  /\ result' = Answer("flush", "flushed", "none")
  /\ UNCHANGED <<sent, setvars, call, buf, got>>

-----------------------------------------------------------------------------

ReadLoop == Take \/ Silence

Next ==
  \/ Arrive
  \/ \E b \in Bauds : SetBaudrate(b)
  \/ \E n \in Databits : SetDatabits(n)
  \/ \E n \in Stopbits : SetStopbits(n)
  \/ \E p \in Parities : SetParity(p)
  \/ \E f \in Flows : SetFlowcontrol(f)
  \/ \E t \in Timeouts : SetTimeout(t)
  \/ \E cnt \in Counts : \E ts \in ElementSizes : Read(cnt, ts)
  \/ ReadLoop
  \/ Interrupt
  \/ Flush

Spec == Init /\ [][Next]_vars

\* A running call is scheduled; the line, the program and the user are not fair.
FairSpec == Spec /\ WF_vars(ReadLoop)

-----------------------------------------------------------------------------
\* Properties

\* Whatever setters were called and refused before, each property reports the
\* value last given to it: the flags of one setting never disturb another, and no
\* earlier mode leaves a flag behind.  Rates above 230400 are excepted.
SettingsReported ==
  /\ asked.baud \in ReportedBauds => BaudOf(config) = asked.baud
  /\ config.size = asked.size
  /\ config.stop = asked.stop
  /\ ParityOf(config) = asked.parity
  /\ FlowOf(config) = asked.flow

\* The port differs from what the object believes only after a refusal that no
\* accepted change has followed; otherwise it waits in the steps that the Timeout
\* property calls for, although a new Timeout is not always sent to it.
PortFollowsObject ==
  driver = "applied" => port = config /\ port.vtime = VtimeOf(timeout)

\* A read that came up empty has waited its timeout rounded up to steps of VTIME,
\* and not at all for a timeout below a tenth of a second.  (The port must use the
\* VTIME the object counts with.)
SilenceMatchesTimeout ==
  result.why = "timeout" /\ result.slice = VtimeOf(result.tmo) =>
    IF result.tmo < Tenth
    THEN result.waited = 0
    ELSE /\ result.tmo <= result.waited
         /\ result.waited < result.tmo + result.slice * Tenth

\* A read of no more than NumBytesAvailable never waits and always gets it all,
\* unless the user interrupts it.
AvailableNeverWaits ==
  result.op = "read" /\ result.need <= result.avail =>
    /\ result.waited = 0
    /\ result.why \in {"full", "interrupt"}

\* The bytes consumed by calls that have been answered.
Mark == [s \in {Line} |-> IF call.op = "idle" THEN taken ELSE call.base]

Stream == INSTANCE ByteStream
  WITH Source <- {Line}, sent <- [s \in {Line} |-> sent], mark <- Mark,
       last <- [status |-> result.status, bytes |-> result.bytes]

\* The object implements the byte stream: a read put together from several calls
\* of __srlp_read__ has no gap and no repetition, and bytes vanish only with a
\* flush or an error.
ImplementsByteStream == Stream!Spec

\* A read with a timeout returns, even while tcsetattr has refused its VTIME.
TimedReadReturns == (call.op = "read" /\ ~Blocking) ~> (call.op = "idle")

=============================================================================
