------------------------- MODULE SerialPort_proofs -------------------------
(***************************************************************************)
(* Proofs about SerialPort, for every tick length, every set of settings   *)
(* and every value of the other constants.                                 *)
(***************************************************************************)
EXTENDS SerialPort, TLAPS

-----------------------------------------------------------------------------
\* The inductive invariant, part by part

\* Accepted or refused, the copy always holds the VTIME of the Timeout property.
ConfigInv == config.vtime = VtimeOf(timeout)

\* s is the piece of the line that follows its i-th byte.
Piece(s, i) ==
  /\ s \in Seq(Byte)
  /\ \A x \in 1 .. Len(s) : s[x] = <<Line, i + x>>

\* A running call still lacks part of the whole elements it asked for and has told
\* the program nothing yet; what it has is exactly what it took from the queue.
CallInv ==
  call.op = "read" =>
    /\ Len(buf) + Len(got) < call.need
    /\ call.need % call.tosize = 0
    /\ result = NoResult
    /\ taken = call.base + Len(buf) + Len(got)
    /\ Piece(buf, call.base)
    /\ Piece(got, call.base + Len(buf))

\* What was available when a call began is still there or was taken by it, and a
\* read of no more than that has not waited.
AvailInv ==
  call.op = "read" =>
    /\ call.base + call.avail <= sent
    /\ call.need <= call.avail => call.waited = 0

\* While the port counts as the object does, the time waited and the time left
\* make up the timeout; nothing is waited for a timeout below a tenth.
WaitInv ==
  call.op = "read" /\ timeout >= 0 =>
    /\ call.left > 0 \/ call.left = timeout
    /\ timeout < Tenth => call.waited = 0
    /\ port.vtime = config.vtime => call.waited + call.left = timeout

IInv ==
  /\ TypeOK
  /\ SettingsReported
  /\ ConfigInv
  /\ PortFollowsObject
  /\ CallInv
  /\ AvailInv
  /\ WaitInv
  /\ SilenceMatchesTimeout
  /\ AvailableNeverWaits

-----------------------------------------------------------------------------
\* Facts about the operators

\* VTIME is at most five tenths, and zero exactly for timeouts below a tenth.
LEMMA VtimeBounds ==
  ASSUME NEW t \in Int
  PROVE  /\ VtimeOf(t) \in 0 .. MaxVtime
         /\ 0 <= t /\ t < Tenth => VtimeOf(t) = 0
         /\ Tenth <= t => VtimeOf(t) >= 1
  <1>1. ASSUME 0 <= t
        PROVE  /\ t \div Tenth \in Nat
               /\ t < Tenth => t \div Tenth = 0
               /\ Tenth <= t => t \div Tenth >= 1
    BY <1>1, TickAssumption
  <1> QED BY <1>1 DEF VtimeOf, Smaller, MaxVtime

\* The length of a step: a whole number of tenths.
LEMMA StepBounds ==
  ASSUME NEW v \in Nat
  PROVE  /\ v * Tenth \in Nat
         /\ v = 0 => v * Tenth = 0
         /\ v > 0 => v * Tenth > 0
  BY TickAssumption

LEMMA SmallerBounds ==
  ASSUME NEW x \in Int, NEW y \in Int, 0 < x, 0 < y
  PROVE  Smaller(x, y) \in Nat /\ Smaller(x, y) <= x /\ Smaller(x, y) <= y
  BY DEF Smaller

LEMMA ProductWhole ==
  ASSUME NEW x \in Nat \ {0}, NEW s \in Nat \ {0}
  PROVE  x * s \in Nat /\ x * s > 0 /\ (x * s) % s = 0
  OBVIOUS

LEMMA OpenTermiosType == OpenTermios \in Termios
  BY DEF OpenTermios, Termios, SettableBauds, ReportedBauds, MaxVtime

LEMMA IdleCallType == IdleCall \in CallType
  BY DEF IdleCall, CallType

\* A running call's clocks move within their types.
LEMMA CallWaits ==
  ASSUME NEW r \in CallType, NEW left \in Int, NEW waited \in Nat
  PROVE  [r EXCEPT !.left = left, !.waited = waited] \in CallType
  BY DEF CallType

LEMMA AnswerType ==
  ASSUME NEW op \in {"none", "read", "flush"}, NEW status \in {"none", "ok", "flushed"},
         NEW why \in {"none", "full"}
  PROVE  Answer(op, status, why) \in ResultType
  BY DEF Answer, ResultType

LEMMA NoResultType == NoResult \in ResultType
  BY AnswerType DEF NoResult

\* A segment of the line is a sequence of its bytes, in order.
LEMMA SegmentShape ==
  ASSUME NEW i \in Nat, NEW k \in Nat
  PROVE  Piece(Segment(i, i + k), i) /\ Len(Segment(i, i + k)) = k
  <1>1. (i + k) - i = k
    OBVIOUS
  <1>2. \A x \in 1 .. k : <<Line, i + x>> \in Byte
    BY DEF Byte
  <1> QED BY <1>1, <1>2 DEF Segment, Piece

-----------------------------------------------------------------------------
\* The initial state

LEMMA InitIInv == Init => IInv
  <1> SUFFICES ASSUME Init PROVE IInv
    OBVIOUS
  <1>1. TypeOK
    <2>1. buf \in Seq(Byte) /\ got \in Seq(Byte)
      BY DEF Init
    <2>2. asked \in Asked
      BY DEF Init, Asked, SettableBauds, ReportedBauds
    <2> QED
      BY <2>1, <2>2, OpenTermiosType, IdleCallType, NoResultType DEF Init, TypeOK
  <1>2. SettingsReported
    BY DEF Init, SettingsReported, OpenTermios, BaudOf, ParityOf, FlowOf
  <1>3. ConfigInv /\ PortFollowsObject
    BY DEF Init, ConfigInv, PortFollowsObject, OpenTermios, VtimeOf
  <1>4. CallInv /\ AvailInv /\ WaitInv
    BY DEF Init, CallInv, AvailInv, WaitInv, IdleCall
  <1>5. SilenceMatchesTimeout /\ AvailableNeverWaits
    BY DEF Init, SilenceMatchesTimeout, AvailableNeverWaits, NoResult, Answer
  <1> QED
    BY <1>1, <1>2, <1>3, <1>4, <1>5 DEF IInv

-----------------------------------------------------------------------------
\* The line and the setters

\* With no call running nothing is said of one.
LEMMA IdleParts ==
  ASSUME call'.op = "idle"
  PROVE  CallInv' /\ AvailInv' /\ WaitInv'
  BY DEF CallInv, AvailInv, WaitInv

LEMMA ArriveIInv ==
  ASSUME IInv, Arrive
  PROVE  IInv'
  <1> USE DEF IInv, Arrive, setvars, callvars
  <1>1. TypeOK'
    BY DEF TypeOK
  <1>2. SettingsReported' /\ ConfigInv' /\ PortFollowsObject'
    BY DEF SettingsReported, ConfigInv, PortFollowsObject
  <1>3. CallInv' /\ WaitInv'
    BY DEF CallInv, WaitInv
  <1>4. AvailInv'
    BY DEF AvailInv, TypeOK, CallType
  <1>5. SilenceMatchesTimeout' /\ AvailableNeverWaits'
    BY DEF SilenceMatchesTimeout, AvailableNeverWaits
  <1> QED BY <1>1, <1>2, <1>3, <1>4, <1>5

\* Whatever the copy becomes, the port follows it or the refusal is remembered.
LEMMA ApplyPort ==
  ASSUME NEW c \in Termios, NEW t \in Int, c.vtime = VtimeOf(t),
         port \in Termios, timeout' = t, Apply(c)
  PROVE  /\ config' = c /\ config' \in Termios /\ port' \in Termios
         /\ driver' \in {"applied", "refused"}
         /\ ConfigInv' /\ PortFollowsObject'
  BY DEF Apply, ConfigInv, PortFollowsObject

\* A setter leaves the line and the answers alone, and no call is running.
LEMMA SetterIInv ==
  ASSUME IInv, Callable, UNCHANGED <<linevars, callvars>>,
         NEW c \in Termios, NEW t \in Int, c.vtime = VtimeOf(t),
         timeout' = t, Apply(c), asked' \in Asked, SettingsReported'
  PROVE  IInv'
  <1> USE DEF Callable, linevars, callvars
  <1>1. /\ config' \in Termios /\ port' \in Termios
        /\ driver' \in {"applied", "refused"} /\ ConfigInv' /\ PortFollowsObject'
    BY ApplyPort DEF IInv, TypeOK
  <1>2. TypeOK'
    BY <1>1 DEF IInv, TypeOK
  <1>3. CallInv' /\ AvailInv' /\ WaitInv'
    BY IdleParts
  <1>4. SilenceMatchesTimeout' /\ AvailableNeverWaits'
    BY DEF IInv, SilenceMatchesTimeout, AvailableNeverWaits
  <1> QED BY <1>1, <1>2, <1>3, <1>4 DEF IInv

\* The setters of a line setting leave the Timeout property and VTIME alone.
LEMMA LineSetterIInv ==
  ASSUME IInv, Callable, UNCHANGED <<timeout, linevars, callvars>>,
         NEW c \in Termios, c.vtime = config.vtime,
         Apply(c), asked' \in Asked, SettingsReported'
  PROVE  IInv'
  <1>1. timeout' = timeout /\ timeout \in Int /\ c.vtime = VtimeOf(timeout)
    BY DEF IInv, TypeOK, ConfigInv
  <1>2. UNCHANGED <<linevars, callvars>>
    OBVIOUS
  <1> QED BY <1>1, <1>2, SetterIInv

LEMMA SetBaudrateIInv ==
  ASSUME IInv, NEW b, SetBaudrate(b)
  PROVE  IInv'
  <1> DEFINE c == [config EXCEPT !.baud = b]
  <1>1. c \in Termios /\ c.vtime = config.vtime
    BY DEF IInv, TypeOK, Termios, SetBaudrate
  <1>2. Apply(c) /\ Callable /\ UNCHANGED <<timeout, linevars, callvars>>
    BY DEF SetBaudrate
  <1>3. asked' \in Asked
    BY DEF IInv, TypeOK, Asked, SetBaudrate
  <1>4. SettingsReported'
    BY <1>2 DEF IInv, TypeOK, Termios, Asked, SetBaudrate, Apply, SettingsReported,
                BaudOf, ParityOf, FlowOf
  <1> QED BY <1>1, <1>2, <1>3, <1>4, LineSetterIInv

LEMMA SetDatabitsIInv ==
  ASSUME IInv, NEW n, SetDatabits(n)
  PROVE  IInv'
  <1> DEFINE c == [config EXCEPT !.size = n]
  <1>1. c \in Termios /\ c.vtime = config.vtime
    BY DEF IInv, TypeOK, Termios, SetDatabits
  <1>2. Apply(c) /\ Callable /\ UNCHANGED <<timeout, linevars, callvars>>
    BY DEF SetDatabits
  <1>3. asked' \in Asked
    BY DEF IInv, TypeOK, Asked, SetDatabits
  <1>4. SettingsReported'
    BY <1>2 DEF IInv, TypeOK, Termios, Asked, SetDatabits, Apply, SettingsReported,
                BaudOf, ParityOf, FlowOf
  <1> QED BY <1>1, <1>2, <1>3, <1>4, LineSetterIInv

LEMMA SetStopbitsIInv ==
  ASSUME IInv, NEW n, SetStopbits(n)
  PROVE  IInv'
  <1> DEFINE c == [config EXCEPT !.stop = n]
  <1>1. c \in Termios /\ c.vtime = config.vtime
    BY DEF IInv, TypeOK, Termios, SetStopbits
  <1>2. Apply(c) /\ Callable /\ UNCHANGED <<timeout, linevars, callvars>>
    BY DEF SetStopbits
  <1>3. asked' \in Asked
    BY DEF IInv, TypeOK, Asked, SetStopbits
  <1>4. SettingsReported'
    BY <1>2 DEF IInv, TypeOK, Termios, Asked, SetStopbits, Apply, SettingsReported,
                BaudOf, ParityOf, FlowOf
  <1> QED BY <1>1, <1>2, <1>3, <1>4, LineSetterIInv

\* Each parity mode sets the flags it needs, whatever the mode before left.
LEMMA SetParityIInv ==
  ASSUME IInv, NEW p, SetParity(p)
  PROVE  IInv'
  <1>0. PICK c \in {[config EXCEPT !.parenb = 0],
                    [config EXCEPT !.parenb = 1, !.parodd = 0],
                    [config EXCEPT !.parenb = 1, !.parodd = 1]} :
          /\ Apply(c)
          /\ p \in {"none", "even", "odd"}
          /\ ParityOf(c) = p
    BY DEF SetParity, ParityOf, IInv, TypeOK, Termios
  <1>1. c \in Termios /\ c.vtime = config.vtime
    BY <1>0 DEF IInv, TypeOK, Termios
  <1>2. Callable /\ UNCHANGED <<timeout, linevars, callvars>>
    BY DEF SetParity
  <1>3. asked' \in Asked
    BY <1>0 DEF IInv, TypeOK, Asked, SetParity
  <1>4. SettingsReported'
    <2>1. /\ BaudOf(c) = BaudOf(config) /\ c.size = config.size
          /\ c.stop = config.stop /\ FlowOf(c) = FlowOf(config)
      BY <1>0 DEF BaudOf, FlowOf, IInv, TypeOK, Termios
    <2>2. config' = c /\ asked' = [asked EXCEPT !.parity = p] /\ asked \in Asked
      BY <1>0 DEF Apply, SetParity, IInv, TypeOK
    <2> QED BY <1>0, <2>1, <2>2 DEF IInv, SettingsReported, Asked
  <1> QED BY <1>0, <1>1, <1>2, <1>3, <1>4, LineSetterIInv

\* Each flow control mode sets both flags.
LEMMA SetFlowcontrolIInv ==
  ASSUME IInv, NEW f, SetFlowcontrol(f)
  PROVE  IInv'
  <1>0. PICK c \in {[config EXCEPT !.ixonoff = 0, !.crtscts = 0],
                    [config EXCEPT !.ixonoff = 0, !.crtscts = 1],
                    [config EXCEPT !.ixonoff = 1, !.crtscts = 0]} :
          /\ Apply(c)
          /\ f \in {"none", "hardware", "software"}
          /\ FlowOf(c) = f
    BY DEF SetFlowcontrol, FlowOf, IInv, TypeOK, Termios
  <1>1. c \in Termios /\ c.vtime = config.vtime
    BY <1>0 DEF IInv, TypeOK, Termios
  <1>2. Callable /\ UNCHANGED <<timeout, linevars, callvars>>
    BY DEF SetFlowcontrol
  <1>3. asked' \in Asked
    BY <1>0 DEF IInv, TypeOK, Asked, SetFlowcontrol
  <1>4. SettingsReported'
    <2>1. /\ BaudOf(c) = BaudOf(config) /\ c.size = config.size
          /\ c.stop = config.stop /\ ParityOf(c) = ParityOf(config)
      BY <1>0 DEF BaudOf, ParityOf, IInv, TypeOK, Termios
    <2>2. config' = c /\ asked' = [asked EXCEPT !.flow = f] /\ asked \in Asked
      BY <1>0 DEF Apply, SetFlowcontrol, IInv, TypeOK
    <2> QED BY <1>0, <2>1, <2>2 DEF IInv, SettingsReported, Asked
  <1> QED BY <1>0, <1>1, <1>2, <1>3, <1>4, LineSetterIInv

\* The copy follows the Timeout property even when the port need not be told.
LEMMA SetTimeoutIInv ==
  ASSUME IInv, NEW t \in Timeouts, SetTimeout(t)
  PROVE  IInv'
  <1>1. /\ Callable /\ t \in Int /\ timeout' = t /\ asked' = asked
        /\ UNCHANGED <<linevars, callvars>>
    BY SettingAssumption DEF SetTimeout
  <1>2. CASE config.vtime = VtimeOf(t) /\ UNCHANGED <<config, port, driver>>
    <2> USE DEF Callable, linevars, callvars
    <2>1. TypeOK'
      BY <1>1, <1>2 DEF IInv, TypeOK
    <2>2. SettingsReported' /\ ConfigInv' /\ PortFollowsObject'
      BY <1>1, <1>2 DEF IInv, SettingsReported, ConfigInv, PortFollowsObject
    <2>3. CallInv' /\ AvailInv' /\ WaitInv'
      BY <1>1, IdleParts
    <2>4. SilenceMatchesTimeout' /\ AvailableNeverWaits'
      BY <1>1 DEF IInv, SilenceMatchesTimeout, AvailableNeverWaits
    <2> QED BY <2>1, <2>2, <2>3, <2>4 DEF IInv
  <1>3. CASE Apply([config EXCEPT !.vtime = VtimeOf(t)])
    <2> DEFINE c == [config EXCEPT !.vtime = VtimeOf(t)]
    <2>1. c \in Termios /\ c.vtime = VtimeOf(t)
      BY <1>1, VtimeBounds DEF IInv, TypeOK, Termios
    <2>2. asked' \in Asked
      BY <1>1 DEF IInv, TypeOK
    <2>3. SettingsReported'
      BY <1>1, <1>3 DEF IInv, TypeOK, Termios, Apply, SettingsReported,
                        BaudOf, ParityOf, FlowOf
    <2> QED BY <1>1, <1>3, <2>1, <2>2, <2>3, SetterIInv
  <1> QED BY <1>2, <1>3 DEF SetTimeout

-----------------------------------------------------------------------------
\* Reading

\* What a running read is known to be.
LEMMA RunningRead ==
  ASSUME IInv, call.op = "read"
  PROVE  /\ call \in CallType
         /\ call.need \in Nat /\ call.tosize \in Nat \ {0} /\ call.left \in Int
         /\ call.waited \in Nat /\ call.base \in Nat /\ call.avail \in Nat
         /\ buf \in Seq(Byte) /\ got \in Seq(Byte)
         /\ Len(buf) \in Nat /\ Len(got) \in Nat
         /\ sent \in Nat /\ taken \in Nat /\ taken <= sent
         /\ timeout \in Int
         /\ Len(buf) + Len(got) < call.need
         /\ call.need % call.tosize = 0
         /\ taken = call.base + Len(buf) + Len(got)
         /\ call.base + call.avail <= sent
  BY DEF IInv, TypeOK, CallType, CallInv, AvailInv

\* The settings stay what they are while bytes are read.
LEMMA QuietSettings ==
  ASSUME IInv, UNCHANGED setvars
  PROVE  SettingsReported' /\ ConfigInv' /\ PortFollowsObject'
  BY DEF IInv, setvars, SettingsReported, ConfigInv, PortFollowsObject

\* A read that finishes leaves the object idle, and its answer speaks of the
\* arguments of the call.
LEMMA FinishIInv ==
  ASSUME IInv, call.op = "read", UNCHANGED <<sent, setvars>>,
         taken' \in 0 .. sent,
         NEW status \in {"ok", "error"},
         NEW why \in {"full", "timeout", "torn", "interrupt"},
         NEW bytes \in Seq(Byte), NEW waited \in Nat,
         Finish(status, why, bytes, waited),
         why = "timeout" /\ port.vtime = VtimeOf(timeout) =>
           IF timeout < Tenth
           THEN waited = 0
           ELSE timeout <= waited /\ waited < timeout + port.vtime * Tenth,
         call.need <= call.avail => waited = 0 /\ why \in {"full", "interrupt"}
  PROVE  IInv'
  <1> USE DEF setvars
  <1>1. port.vtime \in Nat
    BY DEF IInv, TypeOK, Termios
  <1>2. /\ result' \in ResultType /\ result'.why = why /\ result'.need = call.need
        /\ result'.avail = call.avail /\ result'.tmo = timeout
        /\ result'.waited = waited /\ result'.slice = port.vtime
    BY <1>1, RunningRead DEF Finish, ResultType
  <1>3. call' = IdleCall /\ buf' \in Seq(Byte) /\ got' \in Seq(Byte)
    BY DEF Finish
  <1>4. TypeOK'
    BY <1>2, <1>3, IdleCallType DEF IInv, TypeOK
  <1>5. CallInv' /\ AvailInv' /\ WaitInv'
    BY <1>3, IdleParts DEF IdleCall
  <1>6. SilenceMatchesTimeout' /\ AvailableNeverWaits'
    <2>1. SilenceMatchesTimeout'
      BY <1>2 DEF SilenceMatchesTimeout
    <2>2. AvailableNeverWaits'
      BY <1>2 DEF AvailableNeverWaits
    <2> QED BY <2>1, <2>2
  <1> QED BY <1>4, <1>5, <1>6, QuietSettings DEF IInv

LEMMA ReadIInv ==
  ASSUME IInv, NEW cnt \in Counts, NEW ts \in ElementSizes, Read(cnt, ts)
  PROVE  IInv'
  <1> USE DEF Callable, linevars, setvars
  <1>1. UNCHANGED <<linevars, setvars>> /\ cnt \in Nat /\ ts \in Nat \ {0}
    BY ReadAssumption DEF Read
  <1>2. sent \in Nat /\ taken \in Nat /\ taken <= sent /\ timeout \in Int
    BY DEF IInv, TypeOK
  <1>3. CASE /\ cnt = 0
             /\ result' = Answer("read", "ok", "full")
             /\ UNCHANGED <<call, buf, got>>
    <2>1. /\ result' \in ResultType /\ result'.why = "full"
          /\ result'.waited = 0
      BY <1>3, AnswerType DEF Answer
    <2>2. TypeOK'
      BY <1>1, <1>3, <2>1 DEF IInv, TypeOK
    <2>3. CallInv' /\ AvailInv' /\ WaitInv'
      BY <1>3, IdleParts DEF Read
    <2>4. SilenceMatchesTimeout' /\ AvailableNeverWaits'
      BY <2>1 DEF SilenceMatchesTimeout, AvailableNeverWaits
    <2> QED BY <1>1, <2>2, <2>3, <2>4, QuietSettings DEF IInv
  <1>4. CASE /\ cnt > 0
             /\ call' = [op |-> "read", need |-> cnt * ts, tosize |-> ts, left |-> timeout,
                         waited |-> 0, base |-> taken, avail |-> NumBytesAvailable]
             /\ buf' = << >>
             /\ got' = << >>
             /\ result' = NoResult
    <2>1. cnt * ts \in Nat /\ cnt * ts > 0 /\ (cnt * ts) % ts = 0
      BY <1>1, <1>4, ProductWhole
    <2>2. NumBytesAvailable \in Nat /\ taken + NumBytesAvailable = sent
      BY <1>2 DEF NumBytesAvailable
    <2>3. call' \in CallType
      BY <1>1, <1>2, <1>4, <2>1, <2>2 DEF CallType
    <2>4. TypeOK'
      BY <1>1, <1>4, <2>3, NoResultType DEF IInv, TypeOK
    <2>5. CallInv'
      BY <1>1, <1>2, <1>4, <2>1 DEF CallInv, Piece
    <2>6. AvailInv' /\ WaitInv'
      BY <1>1, <1>2, <1>4, <2>2 DEF AvailInv, WaitInv
    <2>7. SilenceMatchesTimeout' /\ AvailableNeverWaits'
      BY <1>4 DEF SilenceMatchesTimeout, AvailableNeverWaits, NoResult, Answer
    <2> QED BY <1>1, <2>4, <2>5, <2>6, <2>7, QuietSettings DEF IInv
  <1> QED BY <1>3, <1>4 DEF Read

\* Bytes that read.m returns: whole elements are handed over, others raise.
LEMMA ReturnIInv ==
  ASSUME IInv, call.op = "read", UNCHANGED <<sent, setvars>>,
         taken' \in 0 .. sent,
         NEW b \in Seq(Byte), NEW why \in {"full", "timeout"}, NEW waited \in Nat,
         Return(b, why, waited),
         why = "timeout" /\ port.vtime = VtimeOf(timeout) =>
           IF timeout < Tenth
           THEN waited = 0
           ELSE timeout <= waited /\ waited < timeout + port.vtime * Tenth,
         call.need <= call.avail => waited = 0 /\ why = "full",
         why = "full" => Len(b) = call.need
  PROVE  IInv'
  <1>1. CASE Len(b) % call.tosize = 0 /\ Finish("ok", why, b, waited)
    BY <1>1, FinishIInv
  <1>2. CASE Len(b) % call.tosize # 0 /\ Finish("error", "torn", << >>, waited)
    <2>1. << >> \in Seq(Byte)
      OBVIOUS
    <2>2. ~ (call.need <= call.avail)
      BY <1>2, RunningRead
    <2> QED BY <1>2, <2>1, <2>2, FinishIInv
  <1> QED BY <1>1, <1>2 DEF Return

\* Two pieces of the line put together.
LEMMA JoinPieces ==
  ASSUME NEW i \in Nat, NEW s, NEW t, Piece(s, i), Piece(t, i + Len(s))
  PROVE  Piece(s \o t, i) /\ Len(s \o t) = Len(s) + Len(t)
  <1>1. s \in Seq(Byte) /\ t \in Seq(Byte)
    BY DEF Piece
  <1>2. s \o t \in Seq(Byte) /\ Len(s \o t) = Len(s) + Len(t)
    BY <1>1
  <1>3. ASSUME NEW x \in 1 .. Len(s \o t) PROVE (s \o t)[x] = <<Line, i + x>>
    <2>1. CASE x <= Len(s)
      BY <2>1, <1>1, <1>2 DEF Piece
    <2>2. CASE x > Len(s)
      <3>1. (s \o t)[x] = t[x - Len(s)] /\ x - Len(s) \in 1 .. Len(t)
        BY <2>2, <1>1, <1>2
      <3>2. (i + Len(s)) + (x - Len(s)) = i + x
        BY <1>1, <1>2
      <3> QED BY <3>1, <3>2 DEF Piece
    <2> QED BY <2>1, <2>2, <1>1, <1>2
  <1> QED BY <1>2, <1>3 DEF Piece

\* What ::read takes from the queue is some of it, and no more than is asked for.
LEMMA TakeShape ==
  ASSUME IInv, Take
  PROVE  \E k \in Nat, more \in Seq(Byte), all \in Seq(Byte) :
           /\ all = buf \o more
           /\ taken' = taken + k /\ taken + k <= sent
           /\ Len(more) = Len(got) + k /\ Len(all) = Len(buf) + Len(more)
           /\ Piece(more, call.base + Len(buf)) /\ Piece(all, call.base)
           /\ \/ /\ Len(buf) + Len(more) = call.need
                 /\ Return(all, "full", call.waited)
              \/ /\ Len(buf) + Len(more) < call.need
                 /\ got' = more
                 /\ UNCHANGED <<call, buf, result>>
  <1> DEFINE k == Smaller(call.need - Len(buf) - Len(got), sent - taken)
             more == got \o Segment(taken, taken + k)
             all == buf \o more
  <1>1. call.op = "read" /\ taken < sent
    BY DEF Take
  <1>2. /\ call.need \in Nat /\ call.base \in Nat /\ Len(buf) \in Nat /\ Len(got) \in Nat
        /\ sent \in Nat /\ taken \in Nat
        /\ buf \in Seq(Byte) /\ got \in Seq(Byte)
        /\ taken = call.base + Len(buf) + Len(got)
        /\ Len(buf) + Len(got) < call.need
    BY <1>1, RunningRead
  <1>3. k \in Nat /\ taken + k <= sent
    <2>1. /\ call.need - Len(buf) - Len(got) \in Int /\ 0 < call.need - Len(buf) - Len(got)
          /\ sent - taken \in Int /\ 0 < sent - taken
      BY <1>1, <1>2
    <2>2. k \in Nat /\ k <= sent - taken
      BY <2>1, SmallerBounds
    <2> HIDE DEF k
    <2> QED BY <1>2, <2>2
  <1>4. /\ taken' = taken + k
        /\ \/ /\ Len(buf) + Len(more) = call.need
              /\ Return(all, "full", call.waited)
           \/ /\ Len(buf) + Len(more) < call.need
              /\ got' = more
              /\ UNCHANGED <<call, buf, result>>
    BY DEF Take
  <1> HIDE DEF k
  <1>5. Piece(more, call.base + Len(buf)) /\ Len(more) = Len(got) + k
    <2>1. Piece(got, call.base + Len(buf))
      BY <1>1 DEF IInv, CallInv
    <2>2. Piece(Segment(taken, taken + k), taken) /\ Len(Segment(taken, taken + k)) = k
      BY <1>2, <1>3, SegmentShape
    <2>3. call.base + Len(buf) \in Nat /\ taken = (call.base + Len(buf)) + Len(got)
      BY <1>2
    <2> QED BY <2>1, <2>2, <2>3, JoinPieces
  <1> HIDE DEF more
  <1>6. Piece(all, call.base) /\ Len(all) = Len(buf) + Len(more)
    <2>1. Piece(buf, call.base)
      BY <1>1 DEF IInv, CallInv
    <2> QED BY <1>2, <1>5, <2>1, JoinPieces
  <1> HIDE DEF all
  <1>7. all = buf \o more
    BY DEF all
  <1>8. more \in Seq(Byte) /\ all \in Seq(Byte)
    BY <1>5, <1>6 DEF Piece
  <1> QED BY <1>3, <1>4, <1>5, <1>6, <1>7, <1>8

LEMMA TakeIInv ==
  ASSUME IInv, Take
  PROVE  IInv'
  <1>1. PICK k \in Nat, more \in Seq(Byte), all \in Seq(Byte) :
           /\ all = buf \o more
           /\ taken' = taken + k /\ taken + k <= sent
           /\ Len(more) = Len(got) + k /\ Len(all) = Len(buf) + Len(more)
           /\ Piece(more, call.base + Len(buf)) /\ Piece(all, call.base)
           /\ \/ /\ Len(buf) + Len(more) = call.need
                 /\ Return(all, "full", call.waited)
              \/ /\ Len(buf) + Len(more) < call.need
                 /\ got' = more
                 /\ UNCHANGED <<call, buf, result>>
    BY TakeShape
  <1>2. call.op = "read" /\ UNCHANGED <<sent, setvars>>
    BY DEF Take
  <1>3. taken' \in 0 .. sent
    <2>1. taken' = taken + k /\ taken + k <= sent
      BY <1>1
    <2>2. taken \in Nat /\ sent \in Nat
      BY <1>2, RunningRead
    <2> QED BY <2>1, <2>2
  <1>4. CASE Len(buf) + Len(more) = call.need /\ Return(all, "full", call.waited)
    <2>1. /\ call.waited \in Nat /\ Len(all) = call.need
          /\ call.need <= call.avail => call.waited = 0
      BY <1>1, <1>2, <1>4, RunningRead DEF IInv, AvailInv
    <2> QED BY <1>2, <1>3, <1>4, <2>1, ReturnIInv
  <1>5. CASE /\ Len(buf) + Len(more) < call.need
             /\ got' = more
             /\ UNCHANGED <<call, buf, result>>
    <2> USE DEF setvars
    <2>1. TypeOK'
      BY <1>2, <1>3, <1>5 DEF IInv, TypeOK
    <2>2. CallInv'
      <3>1. taken' = call.base + Len(buf) + Len(more)
        BY <1>1, <1>2, RunningRead
      <3> QED BY <1>1, <1>5, <3>1 DEF IInv, CallInv
    <2>3. AvailInv' /\ WaitInv'
      BY <1>2, <1>5 DEF IInv, AvailInv, WaitInv
    <2>4. SilenceMatchesTimeout' /\ AvailableNeverWaits'
      BY <1>5 DEF IInv, SilenceMatchesTimeout, AvailableNeverWaits
    <2> QED BY <1>2, <2>1, <2>2, <2>3, <2>4, QuietSettings DEF IInv
  <1> QED BY <1>1, <1>4, <1>5

\* What a step of VTIME adds to the wait and takes from what is left of it.
LEMMA StepTaken ==
  ASSUME IInv, call.op = "read", ~Blocking
  PROVE  /\ timeout \in Nat
         /\ port.vtime * Tenth \in Nat /\ config.vtime * Tenth \in Nat
         /\ port.vtime \in Nat /\ config.vtime \in Nat
         /\ LeftAfter \in Int
         /\ LeftAfter > 0 => config.vtime > 0
         /\ config.vtime > 0 => config.vtime * Tenth > 0
         /\ config.vtime = VtimeOf(timeout)
         /\ timeout < Tenth => config.vtime = 0
         /\ Tenth <= timeout => config.vtime > 0
         /\ config.vtime > 0 => LeftAfter = call.left - config.vtime * Tenth
         /\ config.vtime = 0 => LeftAfter = 0
  <1>1. /\ timeout \in Nat /\ port.vtime \in Nat /\ config.vtime \in Nat
        /\ config.vtime = VtimeOf(timeout) /\ call.left \in Int
    <2>1. call.left \in Int /\ timeout \in Int
      BY RunningRead
    <2>2. port.vtime \in Nat /\ config.vtime \in Nat
      BY DEF IInv, TypeOK, Termios, MaxVtime
    <2> QED BY <2>1, <2>2 DEF IInv, ConfigInv, Blocking
  <1>2. port.vtime * Tenth \in Nat
    BY <1>1, StepBounds
  <1>3. /\ config.vtime * Tenth \in Nat
        /\ config.vtime > 0 => config.vtime * Tenth > 0
    BY <1>1, StepBounds
  <1>4. /\ timeout < Tenth => config.vtime = 0
        /\ Tenth <= timeout => config.vtime > 0
    BY <1>1, VtimeBounds, TickAssumption
  <1> QED BY <1>1, <1>2, <1>3, <1>4 DEF LeftAfter

LEMMA SilenceIInv ==
  ASSUME IInv, Silence
  PROVE  IInv'
  <1> DEFINE step == port.vtime * Tenth
             waited == call.waited + step
  <1>1. /\ call.op = "read" /\ taken = sent /\ ~Blocking
        /\ UNCHANGED <<sent, taken, setvars>>
    BY DEF Silence, linevars
  <1>2. /\ call \in CallType /\ call.need \in Nat /\ call.left \in Int
        /\ call.waited \in Nat /\ call.base \in Nat /\ call.avail \in Nat
        /\ buf \in Seq(Byte) /\ got \in Seq(Byte)
        /\ Len(buf) \in Nat /\ Len(got) \in Nat /\ sent \in Nat
        /\ call.avail < call.need
    BY <1>1, RunningRead
  <1>3. /\ timeout \in Nat /\ step \in Nat /\ waited \in Nat /\ LeftAfter \in Int
    BY <1>1, <1>2, StepTaken
  <1>4. taken' \in 0 .. sent
    BY <1>1, <1>2
  <1>5. CASE /\ LeftAfter > 0
             /\ call' = [call EXCEPT !.left = LeftAfter, !.waited = waited]
             /\ UNCHANGED <<buf, got, result>>
    <2> USE DEF setvars
    <2>1. call' \in CallType /\ call'.op = "read" /\ call'.need = call.need
          /\ call'.tosize = call.tosize /\ call'.base = call.base
          /\ call'.avail = call.avail /\ call'.left = LeftAfter /\ call'.waited = waited
      BY <1>1, <1>2, <1>3, <1>5 DEF CallType
    <2>2. TypeOK'
      BY <1>1, <1>5, <2>1 DEF IInv, TypeOK
    <2>3. CallInv' /\ AvailInv'
      BY <1>1, <1>2, <1>5, <2>1 DEF IInv, CallInv, AvailInv
    <2>4. WaitInv'
      <3>1. port.vtime = config.vtime => call.waited + call.left = timeout
        BY <1>1, <1>3 DEF IInv, WaitInv
      <3>2. LeftAfter = call.left - config.vtime * Tenth /\ config.vtime * Tenth \in Nat
        BY <1>1, <1>5, StepTaken
      <3>3. ASSUME port.vtime = config.vtime
            PROVE  waited + LeftAfter = timeout
        <4>1. step = config.vtime * Tenth /\ LeftAfter = call.left - step
          BY <3>2, <3>3
        <4>2. timeout \in Int /\ call.left \in Int /\ call.waited \in Int /\ step \in Int
              /\ call.waited + call.left = timeout
          BY <1>2, <1>3, <3>1, <3>3
        <4> HIDE DEF step
        <4> QED BY <4>1, <4>2
      <3>4. ~ (timeout < Tenth)
        BY <1>1, <1>3, <1>5, StepTaken
      <3> HIDE DEF waited
      <3> QED BY <1>1, <1>5, <2>1, <3>3, <3>4 DEF WaitInv
    <2>5. SilenceMatchesTimeout' /\ AvailableNeverWaits'
      BY <1>5 DEF IInv, SilenceMatchesTimeout, AvailableNeverWaits
    <2> QED BY <1>1, <2>2, <2>3, <2>4, <2>5, QuietSettings DEF IInv
  <1>6. CASE LeftAfter <= 0 /\ got # << >> /\ ReadAgain
    <2> USE DEF setvars
    <2>1. call' \in CallType /\ call'.op = "read" /\ call'.need = call.need
          /\ call'.tosize = call.tosize /\ call'.base = call.base
          /\ call'.avail = call.avail /\ call'.left = timeout /\ call'.waited = 0
      <3>1. call' = [call EXCEPT !.left = timeout, !.waited = 0]
        BY <1>6 DEF ReadAgain
      <3>2. call' \in CallType
        <4>1. call \in CallType /\ timeout \in Int /\ 0 \in Nat
          BY <1>2, <1>3
        <4> QED BY <3>1, <4>1, CallWaits, Zenon
      <3> QED BY <1>1, <1>2, <3>1, <3>2 DEF CallType
    <2>2. Piece(buf', call.base) /\ buf' \in Seq(Byte) /\ Len(buf') = Len(buf) + Len(got)
      <3>1. Piece(buf, call.base) /\ Piece(got, call.base + Len(buf))
        BY <1>1 DEF IInv, CallInv
      <3>2. buf' = buf \o got
        BY <1>6 DEF ReadAgain
      <3>3. Piece(buf', call.base) /\ Len(buf') = Len(buf) + Len(got)
        BY <1>2, <3>1, <3>2, JoinPieces
      <3> QED BY <3>3 DEF Piece
    <2>3. got' = << >> /\ got' \in Seq(Byte) /\ Len(got') = 0 /\ result' = result
      BY <1>6 DEF ReadAgain
    <2>4. TypeOK'
      BY <1>1, <2>1, <2>2, <2>3 DEF IInv, TypeOK
    <2>5. CallInv'
      <3>1. /\ call.need % call.tosize = 0 /\ result = NoResult
            /\ Len(buf) + Len(got) < call.need
            /\ taken = call.base + Len(buf) + Len(got)
        BY <1>1 DEF IInv, CallInv
      <3>2. /\ Len(buf') + Len(got') < call'.need
            /\ taken' = call'.base + Len(buf') + Len(got')
        BY <1>1, <1>2, <2>1, <2>2, <2>3, <3>1
      <3>3. Piece(buf', call'.base) /\ Piece(got', call'.base + Len(buf'))
        BY <2>1, <2>2, <2>3 DEF Piece
      <3> QED BY <2>1, <2>3, <3>1, <3>2, <3>3 DEF CallInv
    <2>6. AvailInv'
      BY <1>1, <1>2, <2>1 DEF IInv, AvailInv
    <2>7. WaitInv'
      BY <1>1, <1>3, <2>1 DEF WaitInv
    <2>8. SilenceMatchesTimeout' /\ AvailableNeverWaits'
      BY <2>3 DEF IInv, SilenceMatchesTimeout, AvailableNeverWaits
    <2> QED BY <1>1, <2>4, <2>5, <2>6, <2>7, <2>8, QuietSettings DEF IInv
  <1>7. CASE LeftAfter <= 0 /\ Return(buf, "timeout", waited)
    <2>1. ASSUME port.vtime = VtimeOf(timeout)
          PROVE  IF timeout < Tenth
                 THEN waited = 0
                 ELSE timeout <= waited /\ waited < timeout + step
      <3>1. port.vtime = config.vtime /\ call.waited + call.left = timeout
            /\ (call.left > 0 \/ call.left = timeout)
        BY <1>1, <1>3, <2>1, StepTaken DEF IInv, WaitInv
      <3>2. CASE timeout < Tenth
        <4>1. port.vtime = 0 /\ step = 0
          BY <1>1, <3>1, <3>2, StepTaken, StepBounds
        <4>2. call.waited = 0
          BY <1>1, <1>3, <3>2 DEF IInv, WaitInv
        <4> QED BY <3>2, <4>1, <4>2
      <3>3. CASE Tenth <= timeout
        <4>1. config.vtime > 0 /\ LeftAfter = call.left - step /\ step > 0
          BY <1>1, <3>1, <3>3, StepTaken
        <4>2. call.left > 0
          BY <1>3, <3>1, <3>3, TickAssumption
        <4> HIDE DEF step
        <4> QED BY <1>2, <1>3, <1>7, <3>1, <3>3, <4>1, <4>2, TickAssumption
      <3> QED BY <1>3, <3>2, <3>3, TickAssumption
    <2> HIDE DEF waited
    <2> QED BY <1>1, <1>2, <1>3, <1>4, <1>7, <2>1, ReturnIInv
  <1> QED BY <1>5, <1>6, <1>7 DEF Silence, StepOver

LEMMA InterruptIInv ==
  ASSUME IInv, Interrupt
  PROVE  IInv'
  <1>1. /\ call.op = "read" /\ UNCHANGED <<sent, taken, setvars>>
        /\ Finish("error", "interrupt", << >>, call.waited)
    BY DEF Interrupt, linevars
  <1>2. /\ taken' \in 0 .. sent /\ call.waited \in Nat
        /\ call.need <= call.avail => call.waited = 0
    BY <1>1, RunningRead DEF IInv, AvailInv
  <1>3. << >> \in Seq(Byte)
    OBVIOUS
  <1> QED BY <1>1, <1>2, <1>3, FinishIInv

LEMMA FlushIInv ==
  ASSUME IInv, Flush
  PROVE  IInv'
  <1> USE DEF Callable, setvars
  <1>1. /\ call.op = "idle" /\ UNCHANGED <<sent, setvars, call, buf, got>>
        /\ taken' = sent /\ result' = Answer("flush", "flushed", "none")
    BY DEF Flush
  <1>2. TypeOK'
    BY <1>1, AnswerType DEF IInv, TypeOK
  <1>3. CallInv' /\ AvailInv' /\ WaitInv'
    BY <1>1, IdleParts
  <1>4. SilenceMatchesTimeout' /\ AvailableNeverWaits'
    BY <1>1 DEF SilenceMatchesTimeout, AvailableNeverWaits, Answer
  <1> QED BY <1>1, <1>2, <1>3, <1>4, QuietSettings DEF IInv

-----------------------------------------------------------------------------
\* Every step

LEMMA NextIInv == IInv /\ [Next]_vars => IInv'
  <1> SUFFICES ASSUME IInv, [Next]_vars PROVE IInv'
    OBVIOUS
  <1>1. CASE Arrive
    BY <1>1, ArriveIInv
  <1>2. CASE \E b \in Bauds : SetBaudrate(b)
    BY <1>2, SetBaudrateIInv
  <1>3. CASE \E n \in Databits : SetDatabits(n)
    BY <1>3, SetDatabitsIInv
  <1>4. CASE \E n \in Stopbits : SetStopbits(n)
    BY <1>4, SetStopbitsIInv
  <1>5. CASE \E p \in Parities : SetParity(p)
    BY <1>5, SetParityIInv
  <1>6. CASE \E f \in Flows : SetFlowcontrol(f)
    BY <1>6, SetFlowcontrolIInv
  <1>7. CASE \E t \in Timeouts : SetTimeout(t)
    BY <1>7, SetTimeoutIInv
  <1>8. CASE \E cnt \in Counts : \E ts \in ElementSizes : Read(cnt, ts)
    BY <1>8, ReadIInv
  <1>9. CASE ReadLoop
    BY <1>9, TakeIInv, SilenceIInv DEF ReadLoop
  <1>10. CASE Interrupt
    BY <1>10, InterruptIInv
  <1>11. CASE Flush
    BY <1>11, FlushIInv
  <1>12. CASE UNCHANGED vars
    <2> USE <1>12 DEF vars, setvars
    <2>1. TypeOK'
      BY DEF IInv, TypeOK
    <2>2. CallInv' /\ AvailInv' /\ WaitInv'
      BY DEF IInv, CallInv, AvailInv, WaitInv
    <2>3. SilenceMatchesTimeout' /\ AvailableNeverWaits'
      BY DEF IInv, SilenceMatchesTimeout, AvailableNeverWaits
    <2> QED BY <2>1, <2>2, <2>3, QuietSettings DEF IInv
  <1> QED BY <1>1, <1>2, <1>3, <1>4, <1>5, <1>6, <1>7, <1>8, <1>9, <1>10, <1>11, <1>12
          DEF Next

\* The strengthened invariant holds in every reachable state.
THEOREM InductiveInvariant == Spec => []IInv
  <1> QED BY InitIInv, NextIInv, PTL DEF Spec

\* Every variable keeps its type, whatever settings a program chooses.
THEOREM TypeCorrect == Spec => []TypeOK
  <1>1. IInv => TypeOK
    BY DEF IInv
  <1> QED BY <1>1, InductiveInvariant, PTL

\* get of a property of the line reports what set gave it last, after any sequence
\* of settings and refusals (the getters and setters of serialport_class_lin.cc).
THEOREM SettingsAreReported == Spec => []SettingsReported
  <1>1. IInv => SettingsReported
    BY DEF IInv
  <1> QED BY <1>1, InductiveInvariant, PTL

\* The port runs with the object's termios and the VTIME of its Timeout unless
\* tcsetattr refused the last change it was given.
THEOREM PortFollows == Spec => []PortFollowsObject
  <1>1. IInv => PortFollowsObject
    BY DEF IInv
  <1> QED BY <1>1, InductiveInvariant, PTL

\* A read that comes up empty has waited its timeout rounded up to a whole number of
\* steps (the loop of octave_serialport::read inside the loop of read.m).
THEOREM SilencesMatchTimeouts == Spec => []SilenceMatchesTimeout
  <1>1. IInv => SilenceMatchesTimeout
    BY DEF IInv
  <1> QED BY <1>1, InductiveInvariant, PTL

\* A read of what NumBytesAvailable reports never waits (the same loops).
THEOREM AvailableReadsNeverWait == Spec => []AvailableNeverWaits
  <1>1. IInv => AvailableNeverWaits
    BY DEF IInv
  <1> QED BY <1>1, InductiveInvariant, PTL

-----------------------------------------------------------------------------
\* The byte stream

Last == [status |-> result.status, bytes |-> result.bytes]
LineSent == [s \in {Line} |-> sent]

LEMMA InitStream == Init => Stream!Init
  BY DEF Init, Stream!Init, Stream!Answer, Mark, IdleCall, NoResult, Answer

\* The abstract mark and count have one entry.
LEMMA OneSource ==
  ASSUME NEW i, NEW j
  PROVE  [[s \in {Line} |-> i] EXCEPT ![Line] = j] = [s \in {Line} |-> j]
  OBVIOUS

\* A piece of the line is a segment of the abstract stream.
LEMMA PieceIsSegment ==
  ASSUME NEW i \in Nat, NEW s, Piece(s, i)
  PROVE  s = Stream!Segment(Line, i, i + Len(s))
  <1> DEFINE t == [k \in 1 .. Len(s) |-> <<Line, i + k>>]
  <1>1. s \in Seq(Byte) /\ Len(s) \in Nat /\ DOMAIN s = 1 .. Len(s)
    BY DEF Piece
  <1>2. s = [k \in 1 .. Len(s) |-> s[k]]
    BY <1>1
  <1>3. [k \in 1 .. Len(s) |-> s[k]] = t
    BY DEF Piece
  <1>4. Stream!Segment(Line, i, i + Len(s)) = t
    <2>1. (i + Len(s)) - i = Len(s)
      BY <1>1
    <2> QED BY <2>1 DEF Stream!Segment
  <1> QED BY <1>2, <1>3, <1>4

\* The mark of a running call stays where the call began.
LEMMA MarkValue ==
  /\ call.op = "idle" => Mark = [s \in {Line} |-> taken]
  /\ call.op # "idle" => Mark = [s \in {Line} |-> call.base]
  BY DEF Mark

\* Bytes consumed by a call that is answered: handed over, or lost and reported.
LEMMA AnswerStream ==
  ASSUME NEW i \in Nat, NEW j \in Nat, i <= j, j <= sent, sent \in Nat,
         UNCHANGED sent, Mark = [s \in {Line} |-> i], Mark' = [s \in {Line} |-> j],
         NEW status, NEW bytes, Last' = [status |-> status, bytes |-> bytes],
         \/ status = "ok" /\ bytes = Stream!Segment(Line, i, j)
         \/ status \in {"flushed", "error"} /\ bytes = << >>
  PROVE  Stream!Next
  <1>1. /\ Line \in {Line} /\ LineSent[Line] = sent /\ Mark[Line] = i
        /\ j \in 0 .. LineSent[Line] /\ LineSent' = LineSent
        /\ Mark' = [Mark EXCEPT ![Line] = j]
    BY OneSource DEF LineSent
  <1>2. CASE status = "ok" /\ bytes = Stream!Segment(Line, i, j)
    <2>1. Stream!Deliver(Line, j)
      BY <1>1, <1>2 DEF Stream!Deliver, Stream!Answer, Last, LineSent
    <2> QED BY <1>1, <2>1 DEF Stream!Next, LineSent
  <1>3. CASE status \in {"flushed", "error"} /\ bytes = << >>
    <2>1. Stream!Drop(Line, j, status)
      BY <1>1, <1>3 DEF Stream!Drop, Stream!Answer, Last, LineSent
    <2> QED BY <1>1, <1>3, <2>1 DEF Stream!Next, LineSent
  <1> QED BY <1>2, <1>3

LEMMA FinishStream ==
  ASSUME IInv, call.op = "read", UNCHANGED sent, NEW k \in Nat, taken' = taken + k,
         taken + k <= sent,
         NEW status, NEW why, NEW bytes, NEW waited, Finish(status, why, bytes, waited),
         \/ /\ status = "ok"
            /\ Piece(bytes, call.base)
            /\ Len(bytes) = Len(buf) + Len(got) + k
         \/ status = "error" /\ bytes = << >>
  PROVE  Stream!Next
  <1>1. /\ call.base \in Nat /\ taken \in Nat /\ sent \in Nat
        /\ Len(buf) \in Nat /\ Len(got) \in Nat
        /\ taken = call.base + Len(buf) + Len(got)
    BY RunningRead
  <1>2. /\ call'.op = "idle" /\ Last' = [status |-> status, bytes |-> bytes]
    BY DEF Finish, IdleCall, Last
  <1>3. /\ Mark = [s \in {Line} |-> call.base]
        /\ Mark' = [s \in {Line} |-> taken']
    BY <1>2 DEF Mark
  <1>4. taken' \in Nat /\ call.base <= taken' /\ taken' <= sent
    BY <1>1
  <1>5. CASE status = "error" /\ bytes = << >>
    BY <1>1, <1>2, <1>3, <1>4, <1>5, AnswerStream
  <1>6. CASE /\ status = "ok"
             /\ Piece(bytes, call.base)
             /\ Len(bytes) = Len(buf) + Len(got) + k
    <2>1. taken' = call.base + Len(bytes)
      BY <1>1, <1>6
    <2>2. bytes = Stream!Segment(Line, call.base, taken')
      BY <1>1, <1>6, <2>1, PieceIsSegment
    <2> QED BY <1>1, <1>2, <1>3, <1>4, <1>6, <2>2, AnswerStream
  <1> QED BY <1>5, <1>6

\* read.m returns everything the call took, or raises.
LEMMA ReturnStream ==
  ASSUME IInv, call.op = "read", UNCHANGED sent, NEW k \in Nat, taken' = taken + k,
         taken + k <= sent,
         NEW b, Piece(b, call.base), Len(b) = Len(buf) + Len(got) + k,
         NEW why, NEW waited, Return(b, why, waited)
  PROVE  Stream!Next
  BY FinishStream DEF Return

LEMMA TakeStream ==
  ASSUME IInv, Take
  PROVE  [Stream!Next]_<<LineSent, Mark, Last>>
  <1>1. PICK k \in Nat, more \in Seq(Byte), all \in Seq(Byte) :
           /\ all = buf \o more
           /\ taken' = taken + k /\ taken + k <= sent
           /\ Len(more) = Len(got) + k /\ Len(all) = Len(buf) + Len(more)
           /\ Piece(more, call.base + Len(buf)) /\ Piece(all, call.base)
           /\ \/ /\ Len(buf) + Len(more) = call.need
                 /\ Return(all, "full", call.waited)
              \/ /\ Len(buf) + Len(more) < call.need
                 /\ got' = more
                 /\ UNCHANGED <<call, buf, result>>
    BY TakeShape
  <1>2. call.op = "read" /\ UNCHANGED sent
    BY DEF Take
  <1>3. CASE Return(all, "full", call.waited)
    <2>1. Len(all) = Len(buf) + Len(got) + k
      BY <1>1, <1>2, RunningRead
    <2> QED BY <1>1, <1>2, <1>3, <2>1, ReturnStream
  <1>4. CASE UNCHANGED <<call, buf, result>>
    <2>1. Mark' = Mark
      BY <1>2, <1>4 DEF Mark
    <2>2. LineSent' = LineSent /\ Last' = Last
      BY <1>2, <1>4 DEF LineSent, Last
    <2> QED BY <2>1, <2>2
  <1> QED BY <1>1, <1>3, <1>4

LEMMA SilenceStream ==
  ASSUME IInv, Silence
  PROVE  [Stream!Next]_<<LineSent, Mark, Last>>
  <1> DEFINE waited == call.waited + port.vtime * Tenth
  <1>1. call.op = "read" /\ UNCHANGED <<sent, taken>>
    BY DEF Silence, linevars
  <1>2. ASSUME call'.op = "read", call'.base = call.base, result' = result
        PROVE  UNCHANGED <<LineSent, Mark, Last>>
    BY <1>1, <1>2 DEF Mark, LineSent, Last
  <1>3. CASE /\ call' = [call EXCEPT !.left = LeftAfter, !.waited = waited]
             /\ UNCHANGED <<buf, got, result>>
    <2>1. call'.op = "read" /\ call'.base = call.base
      BY <1>1, <1>3, RunningRead DEF CallType
    <2> QED BY <1>2, <1>3, <2>1
  <1>4. CASE ReadAgain
    <2>1. call'.op = "read" /\ call'.base = call.base /\ result' = result
      BY <1>1, <1>4, RunningRead DEF ReadAgain, CallType
    <2> QED BY <1>2, <2>1
  <1>5. CASE got = << >> /\ Return(buf, "timeout", waited)
    <2>1. /\ Piece(buf, call.base) /\ Len(got) = 0 /\ Len(buf) \in Nat
          /\ taken \in Nat /\ taken <= sent
      BY <1>1, <1>5, RunningRead DEF IInv, CallInv
    <2>2. /\ 0 \in Nat /\ taken' = taken + 0 /\ taken + 0 <= sent
          /\ Len(buf) = Len(buf) + Len(got) + 0
      BY <1>1, <2>1
    <2> HIDE DEF waited
    <2> QED BY <1>1, <1>5, <2>1, <2>2, ReturnStream
  <1> QED BY <1>3, <1>4, <1>5 DEF Silence, StepOver

LEMMA InterruptStream ==
  ASSUME IInv, Interrupt
  PROVE  Stream!Next
  <1>1. /\ call.op = "read" /\ UNCHANGED <<sent, taken>>
        /\ Finish("error", "interrupt", << >>, call.waited)
    BY DEF Interrupt, linevars
  <1>2. 0 \in Nat /\ taken' = taken + 0 /\ taken + 0 <= sent
    BY <1>1, RunningRead
  <1> QED BY <1>1, <1>2, FinishStream

LEMMA FlushStream ==
  ASSUME IInv, Flush
  PROVE  Stream!Next
  <1>1. /\ call.op = "idle" /\ UNCHANGED <<sent, call>>
        /\ taken' = sent /\ result' = Answer("flush", "flushed", "none")
    BY DEF Flush, Callable
  <1>2. sent \in Nat /\ taken \in Nat /\ taken <= sent
    BY DEF IInv, TypeOK
  <1>3. Mark = [s \in {Line} |-> taken] /\ Mark' = [s \in {Line} |-> sent]
    BY <1>1 DEF Mark
  <1>4. Last' = [status |-> "flushed", bytes |-> << >>]
    BY <1>1 DEF Last, Answer
  <1> QED BY <1>1, <1>2, <1>3, <1>4, AnswerStream

LEMMA ReadStream ==
  ASSUME IInv, NEW cnt, NEW ts, Read(cnt, ts)
  PROVE  Stream!Next
  <1>1. call.op = "idle" /\ UNCHANGED <<sent, taken>>
    BY DEF Read, Callable, linevars
  <1>2. sent \in Nat /\ taken \in Nat /\ taken <= sent
    BY DEF IInv, TypeOK
  <1>3. Mark = [s \in {Line} |-> taken]
    BY <1>1 DEF Mark
  <1>4. CASE result' = Answer("read", "ok", "full") /\ call' = call
    <2>1. Mark' = [s \in {Line} |-> taken]
      BY <1>1, <1>4 DEF Mark
    <2>2. Last' = [status |-> "ok", bytes |-> << >>]
      BY <1>4 DEF Last, Answer
    <2>3. << >> = Stream!Segment(Line, taken, taken)
      BY <1>2 DEF Stream!Segment
    <2> QED BY <1>1, <1>2, <1>3, <2>1, <2>2, <2>3, AnswerStream
  <1>5. CASE result' = NoResult /\ call'.op = "read" /\ call'.base = taken
    <2>1. Mark' = Mark
      BY <1>1, <1>3, <1>5 DEF Mark
    <2>2. LineSent' = LineSent
      BY <1>1 DEF LineSent
    <2>3. Last' = Stream!Answer("none", << >>)
      BY <1>5 DEF Last, NoResult, Answer, Stream!Answer
    <2>4. Stream!Begin
      BY <2>1, <2>2, <2>3 DEF Stream!Begin, LineSent, Last
    <2> QED BY <2>4 DEF Stream!Next
  <1> QED BY <1>4, <1>5 DEF Read

LEMMA ArriveStream ==
  ASSUME IInv, Arrive
  PROVE  Stream!Next
  <1>1. Mark' = Mark /\ Last' = Last
    BY DEF Arrive, callvars, Mark, Last
  <1>2. sent \in Nat /\ sent' = sent + 1
    BY DEF Arrive, IInv, TypeOK
  <1>3. /\ LineSent'[Line] > LineSent[Line]
        /\ LineSent' = [LineSent EXCEPT ![Line] = LineSent'[Line]]
    BY <1>2 DEF LineSent
  <1>4. Stream!Emit(Line)
    BY <1>1, <1>3 DEF Stream!Emit, LineSent, Last
  <1> QED BY <1>4 DEF Stream!Next

\* Steps that leave the line, the running call and the answer alone.
LEMMA QuietStream ==
  ASSUME UNCHANGED <<linevars, callvars>>
  PROVE  UNCHANGED <<LineSent, Mark, Last>>
  BY DEF linevars, callvars, LineSent, Mark, Last

LEMMA StepStream ==
  ASSUME IInv, [Next]_vars
  PROVE  [Stream!Next]_<<LineSent, Mark, Last>>
  <1>1. CASE Arrive
    BY <1>1, ArriveStream
  <1>2. CASE \/ \E b \in Bauds : SetBaudrate(b)
             \/ \E n \in Databits : SetDatabits(n)
             \/ \E n \in Stopbits : SetStopbits(n)
             \/ \E p \in Parities : SetParity(p)
             \/ \E f \in Flows : SetFlowcontrol(f)
             \/ \E t \in Timeouts : SetTimeout(t)
    <2>1. UNCHANGED <<linevars, callvars>>
      BY <1>2 DEF SetBaudrate, SetDatabits, SetStopbits, SetParity, SetFlowcontrol, SetTimeout
    <2> QED BY <2>1, QuietStream
  <1>3. CASE \E cnt \in Counts : \E ts \in ElementSizes : Read(cnt, ts)
    BY <1>3, ReadStream
  <1>4. CASE ReadLoop
    BY <1>4, TakeStream, SilenceStream DEF ReadLoop
  <1>5. CASE Interrupt
    BY <1>5, InterruptStream
  <1>6. CASE Flush
    BY <1>6, FlushStream
  <1>7. CASE UNCHANGED vars
    BY <1>7, QuietStream DEF vars, linevars, callvars
  <1> QED BY <1>1, <1>2, <1>3, <1>4, <1>5, <1>6, <1>7 DEF Next

\* serialport implements the byte stream: a read put together from several calls of
\* __srlp_read__ loses, repeats and reorders nothing, for any settings.
THEOREM Refinement == Spec => ImplementsByteStream
  <1>1. IInv /\ [Next]_vars => [Stream!Next]_Stream!svars
    BY StepStream DEF Stream!svars, LineSent, Last
  <1> QED BY <1>1, InitStream, InductiveInvariant, PTL
          DEF Spec, ImplementsByteStream, Stream!Spec

=============================================================================
