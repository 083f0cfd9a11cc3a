-------------------------- MODULE TcpServer_proofs --------------------------
(***************************************************************************)
(* Proofs about TcpServer, for every set of connections and every value of *)
(* the other constants.                                                    *)
(***************************************************************************)
EXTENDS TcpServer, TLAPS

-----------------------------------------------------------------------------
\* The inductive invariant, part by part

\* A client belongs to an object, its socket is open, and only then can a call
\* be running; a running call still lacks part of what it asked for and has told
\* the program nothing yet.  A read asks for whole elements, a flush for its
\* scratch buffer and without waiting.
CallerInv ==
  /\ clientfd # NoConn => handle = "bound" /\ sock[clientfd] = "open"
  /\ call.op # "idle" => /\ clientfd # NoConn
                         /\ call.n < call.need
                         /\ Len(buf) = call.need
                         /\ result = NoResult
  /\ call.op = "read" => call.need % call.tosize = 0
  /\ call.op = "flush" => call.need = FlushChunk /\ call.tmo = 0

\* Nothing is received that has not arrived, nothing arrives that was not sent,
\* and the end of a stream arrives after all its bytes.
WindowInv ==
  \A c \in Conn :
    /\ taken[c] <= arrived[c]
    /\ arrived[c] <= sent[c]
    /\ c \in ended => end[c] # "none" /\ arrived[c] = sent[c]

\* The buffer of a running read holds exactly the bytes taken since it began.
BufferInv ==
  /\ call.op = "read" =>
       /\ taken[clientfd] = call.base + call.n
       /\ \A i \in 1 .. call.n : buf[i] = <<clientfd, call.base + i>>
  /\ call.op = "flush" => call.base + call.n <= taken[clientfd]

\* The time waited and the time left make up the timeout.
WaitInv ==
  call.op # "idle" =>
    IF call.tmo >= 0 THEN call.left >= 0 /\ call.waited + call.left = call.tmo
                     ELSE call.left < 0

\* What was available when a call began has arrived, and a read of no more than
\* that has not waited.
AvailInv ==
  /\ call.op # "idle" => call.base + call.avail <= arrived[clientfd]
  /\ call.op = "read" /\ call.need <= call.avail => call.waited = 0

ReplyInv ==
  result.why \in {"full", "timeout"} /\ result.bytes # << >> =>
    clientfd # NoConn /\ clientfd = result.bytes[1][1]

IInv ==
  /\ TypeOK
  /\ CallerInv
  /\ WindowInv
  /\ BufferInv
  /\ NoLiveClientAbandoned
  /\ WaitInv
  /\ AvailInv
  /\ TimeoutExact
  /\ AvailableNeverWaits
  /\ ReplyInv

-----------------------------------------------------------------------------
\* Facts about the operators

\* The rounded element count is a natural number, and so are the byte counts.
LEMMA ProductNat ==
  ASSUME NEW x \in Nat, NEW s \in Nat
  PROVE  x * s \in Nat
  OBVIOUS

LEMMA ProductWhole ==
  ASSUME NEW x \in Nat, NEW s \in Nat \ {0}
  PROVE  (x * s) % s = 0
  OBVIOUS

LEMMA RoundDivNat ==
  ASSUME NEW x \in Nat, NEW s \in Nat \ {0}
  PROVE  RoundDiv(x, s) \in Nat
  <1>1. 2 * x + s \in Nat /\ 2 * s \in Nat \ {0}
    OBVIOUS
  <1>2. \A a \in Nat, b \in Nat \ {0} : a \div b \in Nat
    OBVIOUS
  <1> QED BY <1>1, <1>2 DEF RoundDiv

\* A slice of a non-negative timeout is no longer than what is left of it.
LEMMA SliceBound ==
  ASSUME NEW t \in Int
  PROVE  /\ Slice(t) \in Int
         /\ t >= 0 => Slice(t) \in Nat /\ Slice(t) <= t
         /\ 0 <= t /\ t <= Second => Slice(t) = t
         /\ t > Second => Slice(t) = Second
  BY SecondAssumption DEF Slice

LEMMA IdleCallType == IdleCall \in CallType
  BY DEF IdleCall, CallType

\* A running call's counters move within their types.
LEMMA CallReceives ==
  ASSUME NEW r \in CallType, NEW n \in Nat
  PROVE  [r EXCEPT !.n = n] \in CallType
  BY DEF CallType

LEMMA CallWaits ==
  ASSUME NEW r \in CallType, NEW left \in Int, NEW waited \in Nat
  PROVE  [r EXCEPT !.left = left, !.waited = waited] \in CallType
  BY DEF CallType

LEMMA CallRestarts ==
  ASSUME NEW r \in CallType, NEW n \in Nat, NEW left \in Int
  PROVE  [r EXCEPT !.n = n, !.left = left] \in CallType
  BY DEF CallType

LEMMA NoResultType == NoResult \in ResultType
  BY DEF NoResult, Unasked, ResultType

LEMMA FreshType ==
  ASSUME NEW n \in Nat
  PROVE  Fresh(n) \in Seq(Byte \cup {Junk}) /\ Len(Fresh(n)) = n
  BY DEF Fresh

-----------------------------------------------------------------------------
\* The initial state

LEMMA InitIInv == Init => IInv
  <1> SUFFICES ASSUME Init PROVE IInv
    OBVIOUS
  <1>1. TypeOK
    <2>1. buf \in Seq(Byte \cup {Junk})
      BY DEF Init
    <2> QED
      BY <2>1, IdleCallType, NoResultType DEF Init, TypeOK
  <1> QED
    BY <1>1 DEF Init, IInv, CallerInv, WindowInv, BufferInv, NoLiveClientAbandoned,
                WaitInv, AvailInv, TimeoutExact, AvailableNeverWaits, ReplyInv,
                IdleCall, NoResult, Unasked

-----------------------------------------------------------------------------
\* Steps of the peers and the network

LEMMA ConnectIInv ==
  ASSUME IInv, NEW c \in Conn, Connect(c)
  PROVE  IInv'
  <1> USE DEF IInv, Connect, netvars, callvars
  <1>1. TypeOK'
    BY DEF TypeOK
  <1>2. CallerInv'
    BY ConnAssumption DEF CallerInv, TypeOK
  <1>3. NoLiveClientAbandoned'
    BY DEF NoLiveClientAbandoned, TypeOK
  <1>4. WindowInv' /\ BufferInv' /\ WaitInv' /\ AvailInv'
    BY DEF WindowInv, BufferInv, WaitInv, AvailInv
  <1>5. TimeoutExact' /\ AvailableNeverWaits' /\ ReplyInv'
    BY DEF TimeoutExact, AvailableNeverWaits, ReplyInv
  <1> QED BY <1>1, <1>2, <1>3, <1>4, <1>5

LEMMA PeerSendIInv ==
  ASSUME IInv, NEW c \in Conn, PeerSend(c)
  PROVE  IInv'
  <1> USE DEF IInv, PeerSend, objvars, callvars
  <1>1. TypeOK'
    BY DEF TypeOK
  <1>2. WindowInv'
    BY DEF WindowInv, TypeOK
  <1>3. NoLiveClientAbandoned'
    BY DEF NoLiveClientAbandoned, TypeOK
  <1>4. CallerInv' /\ BufferInv' /\ WaitInv' /\ AvailInv'
    BY DEF CallerInv, BufferInv, WaitInv, AvailInv
  <1>5. TimeoutExact' /\ AvailableNeverWaits' /\ ReplyInv'
    BY DEF TimeoutExact, AvailableNeverWaits, ReplyInv
  <1> QED BY <1>1, <1>2, <1>3, <1>4, <1>5

LEMMA PeerEndIInv ==
  ASSUME IInv, NEW c \in Conn, NEW how \in {"fin", "rst"}, PeerEnd(c, how)
  PROVE  IInv'
  <1> USE DEF IInv, PeerEnd, objvars, callvars
  <1>1. TypeOK'
    BY DEF TypeOK
  <1>2. WindowInv'
    BY DEF WindowInv, TypeOK
  <1>3. NoLiveClientAbandoned'
    BY DEF NoLiveClientAbandoned, TypeOK
  <1>4. CallerInv' /\ BufferInv' /\ WaitInv' /\ AvailInv'
    BY DEF CallerInv, BufferInv, WaitInv, AvailInv
  <1>5. TimeoutExact' /\ AvailableNeverWaits' /\ ReplyInv'
    BY DEF TimeoutExact, AvailableNeverWaits, ReplyInv
  <1> QED BY <1>1, <1>2, <1>3, <1>4, <1>5

LEMMA ArriveIInv ==
  ASSUME IInv, NEW c \in Conn, Arrive(c)
  PROVE  IInv'
  <1> USE DEF IInv, objvars, callvars
  <1>0. UNCHANGED <<objvars, sent, taken, end, callvars>>
    BY DEF Arrive
  <1>1. TypeOK' /\ WindowInv' /\ \A d \in Conn : arrived[d] <= arrived'[d]
    <2>1. CASE /\ arrived[c] < sent[c]
               /\ arrived' = [arrived EXCEPT ![c] = @ + 1]
               /\ UNCHANGED ended
      <3>1. TypeOK'
        BY <1>0, <2>1 DEF TypeOK
      <3>2. WindowInv' /\ \A d \in Conn : arrived[d] <= arrived'[d]
        BY <1>0, <2>1 DEF WindowInv, TypeOK
      <3> QED BY <3>1, <3>2
    <2>2. CASE /\ arrived[c] = sent[c]
               /\ end[c] # "none"
               /\ ended' = ended \cup {c}
               /\ UNCHANGED arrived
      <3>1. TypeOK'
        BY <1>0, <2>2 DEF TypeOK
      <3>2. WindowInv' /\ \A d \in Conn : arrived[d] <= arrived'[d]
        BY <1>0, <2>2 DEF WindowInv, TypeOK
      <3> QED BY <3>1, <3>2
    <2> QED BY <2>1, <2>2 DEF Arrive
  <1>2. AvailInv'
    <2>1. call.op # "idle" => clientfd \in Conn
      BY DEF CallerInv, TypeOK
    <2>2. \A d \in Conn : arrived[d] \in Int /\ arrived'[d] \in Int
      BY <1>1 DEF TypeOK
    <2> QED BY <1>0, <1>1, <2>1, <2>2 DEF AvailInv, TypeOK, CallType
  <1>3. CallerInv' /\ BufferInv' /\ WaitInv' /\ NoLiveClientAbandoned'
    BY <1>0 DEF CallerInv, BufferInv, WaitInv, NoLiveClientAbandoned
  <1>4. TimeoutExact' /\ AvailableNeverWaits' /\ ReplyInv'
    BY <1>0 DEF TimeoutExact, AvailableNeverWaits, ReplyInv
  <1> QED BY <1>1, <1>2, <1>3, <1>4

-----------------------------------------------------------------------------
\* Steps of the program that make no call

LEMMA ConstructIInv ==
  ASSUME IInv, NEW t \in Timeouts, Construct(t)
  PROVE  IInv'
  <1> USE ArgumentAssumption DEF IInv, Construct, Open, netvars, callvars
  <1>1. TypeOK'
    BY DEF TypeOK
  <1>2. CallerInv'
    BY DEF CallerInv
  <1>3. NoLiveClientAbandoned'
    BY DEF NoLiveClientAbandoned
  <1>4. WindowInv' /\ BufferInv' /\ WaitInv' /\ AvailInv'
    BY DEF WindowInv, BufferInv, WaitInv, AvailInv
  <1>5. TimeoutExact' /\ AvailableNeverWaits' /\ ReplyInv'
    BY DEF TimeoutExact, AvailableNeverWaits, ReplyInv
  <1> QED BY <1>1, <1>2, <1>3, <1>4, <1>5

LEMMA ClearIInv ==
  ASSUME IInv, Clear
  PROVE  IInv'
  <1> USE DEF IInv, Clear, Close, Callable, netvars
  <1>1. TypeOK'
    BY NoResultType DEF TypeOK
  <1>2. CallerInv'
    BY DEF CallerInv
  <1>3. NoLiveClientAbandoned'
    BY DEF NoLiveClientAbandoned, TypeOK
  <1>4. WindowInv' /\ BufferInv' /\ WaitInv' /\ AvailInv'
    BY DEF WindowInv, BufferInv, WaitInv, AvailInv
  <1>5. TimeoutExact' /\ AvailableNeverWaits' /\ ReplyInv'
    BY DEF TimeoutExact, AvailableNeverWaits, ReplyInv, NoResult, Unasked
  <1> QED BY <1>1, <1>2, <1>3, <1>4, <1>5

LEMMA SetTimeoutIInv ==
  ASSUME IInv, NEW t \in Timeouts, SetTimeout(t)
  PROVE  IInv'
  <1> USE ArgumentAssumption DEF IInv, SetTimeout, netvars, callvars
  <1>1. TypeOK'
    BY DEF TypeOK
  <1>2. CallerInv' /\ NoLiveClientAbandoned'
    BY DEF CallerInv, NoLiveClientAbandoned
  <1>3. WindowInv' /\ BufferInv' /\ WaitInv' /\ AvailInv'
    BY DEF WindowInv, BufferInv, WaitInv, AvailInv
  <1>4. TimeoutExact' /\ AvailableNeverWaits' /\ ReplyInv'
    BY DEF TimeoutExact, AvailableNeverWaits, ReplyInv
  <1> QED BY <1>1, <1>2, <1>3, <1>4

LEMMA ConnectedIInv ==
  ASSUME IInv, Connected
  PROVE  IInv'
  <1> USE DEF IInv, Connected, CheckForConnections, Callable, netvars, callvars
  <1>1. TypeOK'
    BY DEF TypeOK
  <1>2. CallerInv'
    BY ConnAssumption DEF CallerInv, TypeOK
  <1>3. NoLiveClientAbandoned'
    BY ConnAssumption DEF NoLiveClientAbandoned, TypeOK
  <1>4. WindowInv' /\ BufferInv' /\ WaitInv' /\ AvailInv'
    BY DEF WindowInv, BufferInv, WaitInv, AvailInv
  <1>5. ReplyInv'
    BY DEF ReplyInv
  <1>6. TimeoutExact' /\ AvailableNeverWaits'
    BY DEF TimeoutExact, AvailableNeverWaits
  <1> QED BY <1>1, <1>2, <1>3, <1>4, <1>5, <1>6

LEMMA WriteIInv ==
  ASSUME IInv, Write(1)
  PROVE  IInv'
  <1> USE DEF IInv, Write, netvars, callvars
  <1>1. TypeOK'
    <2>1. byteswritten' \in Nat
      BY DEF TypeOK
    <2> QED BY <2>1 DEF TypeOK
  <1>2. CallerInv' /\ NoLiveClientAbandoned'
    BY DEF CallerInv, NoLiveClientAbandoned
  <1>3. WindowInv' /\ BufferInv' /\ WaitInv' /\ AvailInv'
    BY DEF WindowInv, BufferInv, WaitInv, AvailInv
  <1>4. TimeoutExact' /\ AvailableNeverWaits' /\ ReplyInv'
    BY DEF TimeoutExact, AvailableNeverWaits, ReplyInv
  <1> QED BY <1>1, <1>2, <1>3, <1>4

-----------------------------------------------------------------------------
\* Calls: entering, answering, finishing

\* What a running call is known to be.
LEMMA RunningCall ==
  ASSUME IInv, call.op # "idle"
  PROVE  /\ clientfd \in Conn
         /\ call.op \in {"read", "flush"}
         /\ call \in CallType
         /\ call.n \in Nat /\ call.need \in Nat /\ call.base \in Nat
         /\ call.avail \in Nat /\ call.waited \in Nat /\ call.tosize \in Nat \ {0}
         /\ call.tmo \in Int /\ call.left \in Int
         /\ call.n < call.need
         /\ Len(buf) = call.need
         /\ taken[clientfd] \in Nat /\ arrived[clientfd] \in Nat
         /\ sent[clientfd] \in Nat
         /\ taken[clientfd] <= arrived[clientfd]
         /\ arrived[clientfd] <= sent[clientfd]
  BY DEF IInv, TypeOK, CallerInv, WindowInv, CallType

\* A call that finishes leaves the object idle and tells the program a result
\* made of its arguments.
LEMMA FinishShape ==
  ASSUME IInv, call.op # "idle",
         NEW status \in {"ok", "flushed", "error"},
         NEW why \in {"full", "timeout", "eof", "torn", "reset", "interrupt", "unconnected"},
         NEW bytes \in Seq(Byte \cup {Junk}), NEW waited \in Nat,
         Finish(status, why, bytes, waited)
  PROVE  /\ call' = IdleCall /\ call' \in CallType /\ call'.op = "idle"
         /\ buf' = << >> /\ buf' \in Seq(Byte \cup {Junk})
         /\ result' \in ResultType
         /\ result'.op = call.op /\ result'.status = status /\ result'.why = why
         /\ result'.bytes = bytes /\ result'.need = call.need
         /\ result'.avail = call.avail /\ result'.tmo = call.tmo
         /\ result'.waited = waited
  <1>1. call' = IdleCall /\ call' \in CallType /\ call'.op = "idle"
    BY IdleCallType DEF Finish, IdleCall
  <1>2. buf' = << >> /\ buf' \in Seq(Byte \cup {Junk})
    BY DEF Finish
  <1>3. result' \in ResultType
    BY RunningCall DEF Finish, ResultType, CallType
  <1> QED BY <1>1, <1>2, <1>3 DEF Finish

\* Finishing preserves every part of the invariant that speaks of the running
\* call, because there is none any more.
LEMMA IdleParts ==
  ASSUME call'.op = "idle"
  PROVE  BufferInv' /\ WaitInv' /\ AvailInv'
  BY DEF BufferInv, WaitInv, AvailInv

LEMMA EnterIInv ==
  ASSUME IInv, Callable, clientfd # NoConn, UNCHANGED <<objvars, netvars>>,
         NEW op \in {"read", "flush"}, NEW need \in Nat \ {0},
         NEW ts \in Nat \ {0}, NEW asked \in {"none", "count", "default"},
         NEW tmo \in Int, Enter(op, need, ts, asked, tmo),
         op = "read" => need % ts = 0,
         op = "flush" => need = FlushChunk /\ tmo = 0
  PROVE  IInv'
  <1> USE DEF objvars, netvars
  <1>1. /\ clientfd \in Conn /\ taken[clientfd] \in Nat /\ arrived[clientfd] \in Nat
        /\ taken[clientfd] <= arrived[clientfd]
    BY DEF IInv, TypeOK, WindowInv
  <1>2. NumBytesAvailable \in Nat /\ NumBytesAvailable = arrived[clientfd] - taken[clientfd]
    BY <1>1 DEF NumBytesAvailable
  <1>3. /\ call' \in CallType /\ call'.op = op /\ call'.need = need /\ call'.tmo = tmo
        /\ call'.tosize = ts /\ call'.left = tmo /\ call'.n = 0 /\ call'.waited = 0
        /\ call'.base = taken[clientfd] /\ call'.avail = NumBytesAvailable
    BY <1>1, <1>2 DEF Enter, CallType
  <1>4. buf' \in Seq(Byte \cup {Junk}) /\ Len(buf') = need
    BY FreshType DEF Enter
  <1>5. result' = NoResult
    BY DEF Enter
  <1>6. TypeOK'
    BY <1>3, <1>4, <1>5, NoResultType DEF IInv, TypeOK
  <1>7. CallerInv'
    BY <1>3, <1>4, <1>5 DEF IInv, CallerInv
  <1>8. WindowInv' /\ NoLiveClientAbandoned'
    BY DEF IInv, WindowInv, NoLiveClientAbandoned
  <1>9. BufferInv' /\ WaitInv' /\ AvailInv'
    <2>1. BufferInv'
      BY <1>1, <1>3 DEF BufferInv
    <2>2. WaitInv'
      BY <1>3 DEF WaitInv
    <2>3. AvailInv'
      BY <1>1, <1>2, <1>3 DEF AvailInv
    <2> QED BY <2>1, <2>2, <2>3
  <1>10. TimeoutExact' /\ AvailableNeverWaits' /\ ReplyInv'
    BY <1>5 DEF TimeoutExact, AvailableNeverWaits, ReplyInv, NoResult, Unasked
  <1> QED
    BY <1>6, <1>7, <1>8, <1>9, <1>10 DEF IInv

LEMMA AnsweredIInv ==
  ASSUME IInv, Callable, UNCHANGED <<objvars, netvars>>,
         NEW op \in {"read", "flush"},
         NEW status \in {"ok", "flushed", "error"}, NEW why \in {"full", "unconnected"},
         Answered(op, status, why)
  PROVE  IInv'
  <1> USE DEF objvars, netvars
  <1>1. /\ result' \in ResultType /\ result'.why = why /\ result'.bytes = << >>
        /\ result'.waited = 0 /\ result'.tmo = 0
    BY DEF Answered, Unasked, ResultType
  <1>2. TypeOK'
    BY <1>1 DEF IInv, TypeOK, Answered
  <1>3. CallerInv' /\ WindowInv' /\ NoLiveClientAbandoned'
    BY DEF IInv, CallerInv, WindowInv, NoLiveClientAbandoned, Answered, Callable
  <1>4. BufferInv' /\ WaitInv' /\ AvailInv'
    BY DEF IInv, BufferInv, WaitInv, AvailInv, Answered
  <1>5. TimeoutExact' /\ AvailableNeverWaits' /\ ReplyInv'
    BY <1>1 DEF TimeoutExact, AvailableNeverWaits, ReplyInv
  <1> QED BY <1>2, <1>3, <1>4, <1>5 DEF IInv

LEMMA ReadIInv ==
  ASSUME IInv, NEW need \in Nat, NEW ts \in Nat \ {0}, need % ts = 0,
         NEW asked \in {"count", "default"}, Read(need, ts, asked)
  PROVE  IInv'
  <1>0. Callable /\ UNCHANGED <<objvars, netvars>> /\ timeout \in Int
    BY DEF Read, IInv, TypeOK
  <1>1. CASE Answered("read", "ok", "full")
    BY <1>0, <1>1, AnsweredIInv
  <1>2. CASE Answered("read", "error", "unconnected")
    BY <1>0, <1>2, AnsweredIInv
  <1>3. CASE /\ need > 0
             /\ clientfd # NoConn
             /\ Enter("read", need, ts, asked, timeout)
    BY <1>0, <1>3, EnterIInv
  <1> QED BY <1>1, <1>2, <1>3 DEF Read

LEMMA ReadCallsIInv ==
  ASSUME IInv, NEW ts \in ElementSizes,
         (\E cnt \in Counts : ReadCount(cnt, ts)) \/ ReadDefault(ts)
  PROVE  IInv'
  <1>1. ts \in Nat \ {0}
    BY ArgumentAssumption
  <1>2. ASSUME NEW cnt \in Counts, ReadCount(cnt, ts)
        PROVE  IInv'
    <2>1. cnt * ts \in Nat /\ (cnt * ts) % ts = 0
      BY <1>1, ArgumentAssumption, ProductNat, ProductWhole
    <2> QED BY <1>1, <1>2, <2>1, ReadIInv DEF ReadCount
  <1>3. CASE ReadDefault(ts)
    <2>1. NumBytesAvailable \in Nat
      BY DEF NumBytesAvailable, IInv, TypeOK, WindowInv
    <2>2. /\ RoundDiv(NumBytesAvailable, ts) * ts \in Nat
          /\ (RoundDiv(NumBytesAvailable, ts) * ts) % ts = 0
      BY <1>1, <2>1, RoundDivNat, ProductNat, ProductWhole
    <2> QED BY <1>1, <1>3, <2>2, ReadIInv DEF ReadDefault
  <1> QED BY <1>2, <1>3

LEMMA FlushIInv ==
  ASSUME IInv, Flush
  PROVE  IInv'
  <1>0. Callable /\ UNCHANGED <<objvars, netvars>>
    BY DEF Flush
  <1>1. CASE clientfd = NoConn
    BY <1>0, <1>1, AnsweredIInv DEF Flush
  <1>2. CASE clientfd # NoConn
    <2>1. Enter("flush", FlushChunk, 1, "none", 0)
      BY <1>2 DEF Flush
    <2> QED BY <1>0, <1>2, <2>1, EnterIInv, ArgumentAssumption
  <1> QED BY <1>1, <1>2

-----------------------------------------------------------------------------
\* octave_tcpserver::read returns

\* The part of the invariant that does not speak of calls and results.
WorldInv ==
  /\ handle \in {"none", "bound"}
  /\ fd \in {"closed", "listening"}
  /\ clientfd \in Conn \cup {NoConn}
  /\ remote_addr \in Conn \cup {NoConn}
  /\ timeout \in Int
  /\ byteswritten \in Nat
  /\ sock \in [Conn -> {"none", "queued", "open", "closed"}]
  /\ sent \in [Conn -> Nat]
  /\ arrived \in [Conn -> Nat]
  /\ taken \in [Conn -> Nat]
  /\ end \in [Conn -> {"none", "fin", "rst"}]
  /\ ended \subseteq Conn
  /\ clientfd # NoConn => handle = "bound" /\ sock[clientfd] = "open"
  /\ WindowInv
  /\ NoLiveClientAbandoned

LEMMA IInvParts ==
  IInv <=> /\ WorldInv /\ CallerInv /\ BufferInv /\ WaitInv /\ AvailInv
           /\ TimeoutExact /\ AvailableNeverWaits /\ ReplyInv
           /\ call \in CallType /\ buf \in Seq(Byte \cup {Junk}) /\ result \in ResultType
  BY DEF IInv, TypeOK, WorldInv, CallerInv

\* A call that finishes in a world that is in order leaves everything in order,
\* provided what it says of itself is true.
LEMMA FinishIInv ==
  ASSUME IInv, call.op # "idle", WorldInv',
         NEW status \in {"ok", "flushed", "error"},
         NEW why \in {"full", "timeout", "eof", "torn", "reset", "interrupt", "unconnected"},
         NEW bytes \in Seq(Byte \cup {Junk}), NEW waited \in Nat,
         Finish(status, why, bytes, waited),
         why = "timeout" => call.tmo >= 0 /\ waited = call.tmo,
         call.op = "read" /\ call.need <= call.avail =>
           waited = 0 /\ why \in {"full", "interrupt", "unconnected", "reset"},
         call.op = "read" /\ call.need <= call.avail => why # "reset",
         why \in {"full", "timeout"} /\ bytes # << >> =>
           clientfd' # NoConn /\ clientfd' = bytes[1][1]
  PROVE  IInv'
  <1>1. /\ call' \in CallType /\ call'.op = "idle"
        /\ buf' \in Seq(Byte \cup {Junk}) /\ result' \in ResultType
    BY FinishShape
  <1>2. BufferInv' /\ WaitInv' /\ AvailInv'
    BY <1>1, IdleParts
  <1>3. CallerInv'
    BY <1>1 DEF CallerInv, WorldInv
  <1> DEFINE r == result'
  <1>0. /\ r.op = call.op /\ r.why = why /\ r.bytes = bytes /\ r.need = call.need
        /\ r.avail = call.avail /\ r.tmo = call.tmo /\ r.waited = waited
    BY DEF Finish
  <1>4. TimeoutExact'
    BY <1>0 DEF TimeoutExact
  <1>5. AvailableNeverWaits'
    BY <1>0 DEF AvailableNeverWaits
  <1>6. ReplyInv'
    BY <1>0 DEF ReplyInv
  <1>7. (WorldInv /\ CallerInv /\ BufferInv /\ WaitInv /\ AvailInv
           /\ TimeoutExact /\ AvailableNeverWaits /\ ReplyInv
           /\ call \in CallType /\ buf \in Seq(Byte \cup {Junk}) /\ result \in ResultType)'
    BY <1>1, <1>2, <1>3, <1>4, <1>5, <1>6
  <1> QED BY <1>7 DEF IInv, TypeOK, WorldInv, CallerInv

LEMMA ReturnIInv ==
  ASSUME IInv, call.op # "idle", WorldInv',
         NEW b \in Seq(Byte \cup {Junk}), Len(b) = call.need,
         NEW n \in 0 .. call.need, NEW waited \in Nat,
         NEW why \in {"full", "timeout", "eof"}, NEW cfd \in {clientfd, NoConn},
         Return(b, n, why, cfd, waited),
         clientfd' = cfd,
         cfd = NoConn <=> why = "eof",
         why = "timeout" => call.tmo >= 0 /\ waited = call.tmo,
         why = "full" => n = call.need,
         call.op = "read" /\ call.need <= call.avail => waited = 0 /\ why = "full",
         call.op = "read" => \A i \in 1 .. n : b[i] = <<clientfd, call.base + i>>,
         call.base <= taken'[clientfd], UNCHANGED arrived
  PROVE  IInv'
  <1>0. /\ clientfd \in Conn /\ call.op \in {"read", "flush"} /\ call \in CallType
        /\ call.n \in Nat /\ call.need \in Nat /\ call.base \in Nat
        /\ n \in Nat /\ n <= call.need
    BY RunningCall
  <1>1. /\ SubSeq(b, 1, n) \in Seq(Byte \cup {Junk})
        /\ SubSeq(b, 1, n) # << >> => n > 0 /\ SubSeq(b, 1, n)[1] = b[1]
    BY <1>0
  <1>2. << >> \in Seq(Byte \cup {Junk})
    OBVIOUS
  <1>3. CASE /\ call.op = "read"
             /\ n % call.tosize = 0
             /\ Finish("ok", why, SubSeq(b, 1, n), waited)
    <2>1. why \in {"full", "timeout"} /\ SubSeq(b, 1, n) # << >> =>
            clientfd' # NoConn /\ clientfd' = SubSeq(b, 1, n)[1][1]
      <3> HAVE why \in {"full", "timeout"} /\ SubSeq(b, 1, n) # << >>
      <3>1. 1 \in 1 .. n
        BY <1>0, <1>1
      <3>2. b[1] = <<clientfd, call.base + 1>>
        BY <1>3, <3>1
      <3> QED BY <1>0, <1>1, <3>2, ConnAssumption
    <2> QED BY <1>1, <1>3, <2>1, FinishIInv
  <1>4. CASE /\ call.op = "read"
             /\ n % call.tosize # 0
             /\ Finish("error", "torn", << >>, waited)
    <2>1. why # "full"
      BY <1>4 DEF IInv, CallerInv
    <2> QED BY <1>2, <1>4, <2>1, FinishIInv
  <1>5. CASE /\ call.op = "flush"
             /\ n = 0
             /\ Finish("flushed", why, << >>, waited)
    BY <1>2, <1>5, FinishIInv
  <1>6. CASE /\ call.op = "flush"
             /\ n > 0
             /\ cfd = NoConn
             /\ Finish("error", "unconnected", << >>, waited)
    BY <1>2, <1>6, FinishIInv
  <1>7. CASE /\ call.op = "flush"
             /\ cfd # NoConn
             /\ call' = [call EXCEPT !.n = 0, !.left = 0]
             /\ buf' = Fresh(FlushChunk)
             /\ UNCHANGED result
    <2>0. call' \in CallType
      <3>1. [call EXCEPT !.n = 0, !.left = 0] \in CallType
        <4>1. 0 \in Nat /\ 0 \in Int
          OBVIOUS
        <4> QED BY <1>0, <4>1, CallRestarts, Zenon
      <3> QED BY <1>7, <3>1
    <2>1. /\ call' \in CallType /\ call'.op = "flush" /\ call'.n = 0 /\ call'.left = 0
          /\ call'.need = call.need /\ call'.tmo = call.tmo /\ call'.base = call.base
          /\ call'.waited = call.waited /\ call'.avail = call.avail
      BY <1>0, <1>7, <2>0 DEF CallType
    <2>2. buf' \in Seq(Byte \cup {Junk}) /\ Len(buf') = FlushChunk
      BY <1>7, FreshType, ArgumentAssumption
    <2>3. call.need = FlushChunk /\ call.tmo = 0 /\ call.waited = 0
      BY <1>0, <1>7 DEF IInv, CallerInv, WaitInv, CallType
    <2>4. CallerInv'
      BY <1>7, <2>1, <2>2, <2>3, ArgumentAssumption DEF IInv, CallerInv, WorldInv
    <2>5. BufferInv'
      BY <1>0, <1>7, <2>1 DEF BufferInv
    <2>6. WaitInv' /\ AvailInv'
      BY <1>7, <2>1, <2>3 DEF IInv, WaitInv, AvailInv
    <2>7. TimeoutExact' /\ AvailableNeverWaits' /\ result' \in ResultType
      BY <1>7 DEF IInv, TypeOK, TimeoutExact, AvailableNeverWaits
    <2>8. ReplyInv'
      BY <1>7 DEF IInv, ReplyInv
    <2> QED
      BY <2>1, <2>2, <2>4, <2>5, <2>6, <2>7, <2>8 DEF IInv, TypeOK, WorldInv
  <1> QED BY <1>3, <1>4, <1>5, <1>6, <1>7 DEF Return

-----------------------------------------------------------------------------
\* The loop of octave_tcpserver::read

\* While a read of what was available at its start is unfinished, there is data.
LEMMA AvailableIsReady ==
  ASSUME IInv, call.op = "read", call.need <= call.avail
  PROVE  DataReady /\ call.waited = 0
  <1>1. /\ call.base + call.avail <= arrived[clientfd]
        /\ taken[clientfd] = call.base + call.n
        /\ call.waited = 0
    BY DEF IInv, AvailInv, BufferInv
  <1> QED BY <1>1, RunningCall DEF DataReady

LEMMA ReceivedType ==
  ASSUME IInv, call.op # "idle", NEW k \in Nat
  PROVE  /\ Received(k) \in Seq(Byte \cup {Junk})
         /\ Len(Received(k)) = call.need
         /\ call.op = "read" /\ call.n + k <= call.need =>
              \A i \in 1 .. call.n + k : Received(k)[i] = <<clientfd, call.base + i>>
  <1>1. /\ clientfd \in Conn /\ call.n \in Nat /\ call.need \in Nat /\ call.base \in Nat
        /\ taken[clientfd] \in Nat /\ Len(buf) = call.need
    BY RunningCall
  <1>2. buf \in Seq(Byte \cup {Junk})
    BY DEF IInv, TypeOK
  <1>3. \A i \in 1 .. Len(buf) : buf[i] \in Byte \cup {Junk}
    BY <1>2
  <1>4. ASSUME NEW i \in (call.n + 1) .. (call.n + k)
        PROVE  <<clientfd, taken[clientfd] + (i - call.n)>> \in Byte
    <2>1. taken[clientfd] + (i - call.n) \in Nat \ {0}
      BY <1>1
    <2> QED BY <1>1, <2>1 DEF Byte
  <1>5. \A i \in 1 .. Len(buf) : Received(k)[i] \in Byte \cup {Junk}
    BY <1>3, <1>4 DEF Received
  <1>6. Received(k) \in [1 .. Len(buf) -> Byte \cup {Junk}]
    BY <1>5 DEF Received
  <1>7. Received(k) \in Seq(Byte \cup {Junk}) /\ Len(Received(k)) = call.need
    BY <1>1, <1>6
  <1>8. ASSUME call.op = "read", call.n + k <= call.need, NEW i \in 1 .. call.n + k
        PROVE  Received(k)[i] = <<clientfd, call.base + i>>
    <2>1. /\ taken[clientfd] = call.base + call.n
          /\ \A j \in 1 .. call.n : buf[j] = <<clientfd, call.base + j>>
      BY <1>8 DEF IInv, BufferInv
    <2>2. i \in 1 .. Len(buf)
      BY <1>1, <1>8
    <2>3. CASE i \in (call.n + 1) .. (call.n + k)
      <3>1. taken[clientfd] + (i - call.n) = call.base + i
        BY <1>1, <2>1
      <3> QED BY <2>2, <2>3, <3>1 DEF Received
    <2>4. CASE i \notin (call.n + 1) .. (call.n + k)
      <3>1. i \in 1 .. call.n
        BY <1>1, <1>8, <2>4
      <3> QED BY <2>1, <2>2, <2>4, <3>1 DEF Received
    <2> QED BY <2>3, <2>4
  <1> QED BY <1>7, <1>8

LEMMA RecvDataIInv ==
  ASSUME IInv, RecvData
  PROVE  IInv'
  <1> DEFINE k == Smaller(call.need - call.n, arrived[clientfd] - taken[clientfd])
  <1>0. call.op # "idle" /\ DataReady /\ UNCHANGED <<objvars, sent, arrived, end, ended>>
        /\ taken' = [taken EXCEPT ![clientfd] = @ + k]
    BY DEF RecvData
  <1>1. /\ clientfd \in Conn /\ call \in CallType
        /\ call.n \in Nat /\ call.need \in Nat /\ call.base \in Nat /\ call.waited \in Nat
        /\ taken[clientfd] \in Nat /\ arrived[clientfd] \in Nat /\ taken \in [Conn -> Nat]
    BY <1>0, RunningCall DEF IInv, TypeOK
  <1>2. /\ k \in Nat \ {0}
        /\ call.n + k <= call.need
        /\ taken[clientfd] + k <= arrived[clientfd]
    BY <1>0, RunningCall DEF Smaller, DataReady
  <1>3. /\ taken'[clientfd] = taken[clientfd] + k
        /\ \A c \in Conn : c # clientfd => taken'[c] = taken[c]
        /\ taken' \in [Conn -> Nat]
    BY <1>0, <1>1, <1>2
  <1> HIDE DEF k
  <1>4. WorldInv'
    <2>1. WindowInv'
      BY <1>0, <1>1, <1>2, <1>3 DEF IInv, WindowInv
    <2>2. NoLiveClientAbandoned'
      BY <1>0, <1>3 DEF IInv, NoLiveClientAbandoned, objvars
    <2>3. clientfd' # NoConn => handle' = "bound" /\ sock'[clientfd'] = "open"
      BY <1>0 DEF IInv, CallerInv, objvars
    <2> QED BY <1>0, <1>3, <2>1, <2>2, <2>3 DEF WorldInv, IInv, TypeOK, objvars
  <1>5. /\ Received(k) \in Seq(Byte \cup {Junk})
        /\ Len(Received(k)) = call.need
        /\ call.op = "read" =>
             \A i \in 1 .. call.n + k : Received(k)[i] = <<clientfd, call.base + i>>
    BY <1>0, <1>2, ReceivedType
  <1>6. CASE /\ call.n + k < call.need
             /\ call' = [call EXCEPT !.n = @ + k]
             /\ buf' = Received(k)
             /\ UNCHANGED result
    <2>1. /\ call' \in CallType /\ call'.op = call.op /\ call'.n = call.n + k
          /\ call'.need = call.need /\ call'.tosize = call.tosize
          /\ call'.tmo = call.tmo /\ call'.left = call.left
          /\ call'.base = call.base /\ call'.avail = call.avail
          /\ call'.waited = call.waited
      <3>1. call.n + k \in Nat
        BY <1>1, <1>2
      <3>2. [call EXCEPT !.n = call.n + k] \in CallType
        BY <1>1, <3>1, CallReceives, Zenon
      <3>3. call' = [call EXCEPT !.n = call.n + k]
        BY <1>6
      <3> QED BY <1>1, <3>2, <3>3 DEF CallType
    <2>2. CallerInv'
      BY <1>0, <1>5, <1>6, <2>1 DEF IInv, CallerInv, objvars
    <2>3. BufferInv'
      <3>1. CASE call.op = "read"
        <4>1. taken[clientfd] = call.base + call.n
          BY <3>1 DEF IInv, BufferInv
        <4>2. taken'[clientfd] = call'.base + call'.n
          BY <1>1, <1>2, <1>3, <2>1, <4>1
        <4> QED BY <1>0, <1>5, <1>6, <2>1, <3>1, <4>2 DEF BufferInv, objvars
      <3>2. CASE call.op = "flush"
        <4>1. call.base + call.n <= taken[clientfd]
          BY <3>2 DEF IInv, BufferInv
        <4>2. call'.base + call'.n <= taken'[clientfd]
          BY <1>1, <1>2, <1>3, <2>1, <4>1
        <4> QED BY <1>0, <2>1, <3>2, <4>2 DEF BufferInv, objvars
      <3> QED BY <1>0, <3>1, <3>2, RunningCall
    <2>4. WaitInv'
      BY <1>0, <2>1 DEF IInv, WaitInv
    <2>5. AvailInv'
      BY <1>0, <2>1 DEF IInv, AvailInv, objvars
    <2>6. TimeoutExact' /\ AvailableNeverWaits' /\ ReplyInv' /\ result' \in ResultType
      BY <1>0, <1>6 DEF IInv, TypeOK, TimeoutExact, AvailableNeverWaits, ReplyInv, objvars
    <2>7. buf' \in Seq(Byte \cup {Junk})
      BY <1>5, <1>6
    <2> QED
      BY <1>4, <2>1, <2>2, <2>3, <2>4, <2>5, <2>6, <2>7 DEF IInv, TypeOK, WorldInv
  <1>7. CASE /\ call.n + k >= call.need
             /\ Return(Received(k), call.n + k, "full", clientfd, call.waited)
    <2>1. call.n + k = call.need /\ call.n + k \in 0 .. call.need
      BY <1>1, <1>2, <1>7
    <2>2. call.base <= taken'[clientfd]
      <3>1. call.base <= taken[clientfd]
        BY <1>0, <1>1, RunningCall DEF IInv, BufferInv
      <3> QED BY <1>1, <1>2, <1>3, <3>1
    <2>3. call.op = "read" /\ call.need <= call.avail => call.waited = 0
      BY AvailableIsReady
    <2>4. clientfd' = clientfd /\ clientfd # NoConn
      BY <1>0, <1>1, ConnAssumption DEF objvars
    <2> QED BY <1>0, <1>1, <1>4, <1>5, <1>7, <2>1, <2>2, <2>3, <2>4, ReturnIInv
  <1> QED BY <1>6, <1>7 DEF RecvData, k

LEMMA RecvEofIInv ==
  ASSUME IInv, RecvEof
  PROVE  IInv'
  <1>0. /\ call.op # "idle" /\ ~DataReady /\ clientfd \in ended /\ clientfd' = NoConn
        /\ UNCHANGED <<handle, fd, remote_addr, timeout, byteswritten, sock, netvars>>
        /\ Return(buf, call.n, "eof", NoConn, call.waited)
    BY DEF RecvEof
  <1>1. /\ clientfd \in Conn /\ call.n \in 0 .. call.need /\ call.waited \in Nat
        /\ Len(buf) = call.need /\ buf \in Seq(Byte \cup {Junk})
    BY <1>0, RunningCall DEF IInv, TypeOK
  <1>2. end[clientfd] # "none" /\ taken[clientfd] = sent[clientfd]
    BY <1>0, <1>1, RunningCall DEF IInv, WindowInv, DataReady
  <1>3. WorldInv'
    <2>1. WindowInv'
      BY <1>0 DEF IInv, WindowInv, netvars
    <2>2. NoLiveClientAbandoned'
      BY <1>0, <1>2 DEF IInv, NoLiveClientAbandoned, netvars
    <2> QED BY <1>0, <2>1, <2>2 DEF WorldInv, IInv, TypeOK, netvars
  <1>4. call.op = "read" => ~(call.need <= call.avail)
    BY <1>0, AvailableIsReady
  <1>5. call.op = "read" => \A i \in 1 .. call.n : buf[i] = <<clientfd, call.base + i>>
    BY DEF IInv, BufferInv
  <1>6. call.base <= taken'[clientfd]
    BY <1>0, RunningCall DEF IInv, BufferInv, netvars
  <1> QED BY <1>0, <1>1, <1>3, <1>4, <1>5, <1>6, ReturnIInv, ConnAssumption DEF netvars

LEMMA RecvResetIInv ==
  ASSUME IInv, RecvReset
  PROVE  IInv'
  <1>0. /\ call.op # "idle" /\ ~DataReady /\ clientfd \in ended
        /\ end' = [end EXCEPT ![clientfd] = "fin"]
        /\ Finish("error", "reset", << >>, call.waited)
        /\ UNCHANGED <<objvars, sent, arrived, taken, ended>>
    BY DEF RecvReset
  <1>1. clientfd \in Conn /\ call.waited \in Nat
    BY <1>0, RunningCall
  <1>2. WorldInv'
    <2>1. end' \in [Conn -> {"none", "fin", "rst"}]
      BY <1>0 DEF IInv, TypeOK
    <2>2. \A c \in Conn : end[c] # "none" => end'[c] # "none"
      BY <1>0 DEF IInv, TypeOK
    <2>3. WindowInv' /\ NoLiveClientAbandoned'
      BY <1>0, <2>2 DEF IInv, WindowInv, NoLiveClientAbandoned, objvars
    <2> QED BY <1>0, <2>1, <2>3 DEF WorldInv, IInv, TypeOK, CallerInv, objvars
  <1>3. call.op = "read" => ~(call.need <= call.avail)
    BY <1>0, AvailableIsReady
  <1>4. << >> \in Seq(Byte \cup {Junk})
    OBVIOUS
  <1> QED BY <1>0, <1>1, <1>2, <1>3, <1>4, FinishIInv

LEMMA SelectExpiresIInv ==
  ASSUME IInv, SelectExpires
  PROVE  IInv'
  <1>0. /\ call.op # "idle" /\ ~DataReady /\ call.left >= 0
        /\ UNCHANGED <<objvars, netvars>>
    BY DEF SelectExpires
  <1>1. /\ clientfd \in Conn /\ call \in CallType /\ call.n \in 0 .. call.need
        /\ call.waited \in Nat /\ call.left \in Nat /\ call.tmo \in Int
        /\ Len(buf) = call.need /\ buf \in Seq(Byte \cup {Junk})
        /\ call.tmo >= 0 /\ call.waited + call.left = call.tmo
    BY <1>0, RunningCall DEF IInv, TypeOK, WaitInv
  <1>2. WorldInv'
    BY <1>0 DEF WorldInv, IInv, TypeOK, CallerInv, WindowInv, NoLiveClientAbandoned,
                objvars, netvars
  <1>3. call.op = "read" => ~(call.need <= call.avail)
    BY <1>0, AvailableIsReady
  <1>4. CASE /\ call.left <= Second
             /\ Return(buf, call.n, "timeout", clientfd, call.waited + Slice(call.left))
    <2>1. call.waited + Slice(call.left) = call.tmo /\ call.tmo \in Nat
      <3>1. Slice(call.left) = call.left
        BY <1>1, <1>4, SliceBound
      <3> QED BY <1>1, <3>1
    <2>2. call.op = "read" => \A i \in 1 .. call.n : buf[i] = <<clientfd, call.base + i>>
      BY DEF IInv, BufferInv
    <2>3. call.base <= taken'[clientfd]
      BY <1>0, RunningCall DEF IInv, BufferInv, netvars
    <2>4. Return(buf, call.n, "timeout", clientfd, call.tmo)
      BY <1>4, <2>1
    <2>5. clientfd' = clientfd /\ clientfd # NoConn
      BY <1>0, <1>1, ConnAssumption DEF objvars
    <2> QED BY <1>0, <1>1, <1>2, <1>3, <2>1, <2>2, <2>3, <2>4, <2>5, ReturnIInv
           DEF netvars
  <1>5. CASE /\ call.left > Second
             /\ call' = [call EXCEPT !.left = @ - Second, !.waited = @ + Slice(call.left)]
             /\ UNCHANGED <<buf, result>>
    <2>1. call.left - Second \in Nat /\ call.waited + Slice(call.left) \in Nat
          /\ Slice(call.left) = Second
      BY <1>1, <1>5, SliceBound, SecondAssumption
    <2>2. /\ call' \in CallType /\ call'.op = call.op /\ call'.n = call.n
          /\ call'.need = call.need /\ call'.tosize = call.tosize
          /\ call'.tmo = call.tmo /\ call'.left = call.left - Second
          /\ call'.base = call.base /\ call'.avail = call.avail
          /\ call'.waited = call.waited + Second
      <3>1. [call EXCEPT !.left = call.left - Second, !.waited = call.waited + Slice(call.left)]
              \in CallType
        <4>1. call.left - Second \in Int
          BY <2>1
        <4>2. \A l \in Int, w \in Nat :
                [call EXCEPT !.left = l, !.waited = w] \in CallType
          BY <1>1, CallWaits, Zenon
        <4> QED BY <2>1, <4>1, <4>2, Zenon
      <3>2. call' = [call EXCEPT !.left = call.left - Second,
                                 !.waited = call.waited + Slice(call.left)]
        BY <1>5
      <3> QED BY <1>1, <2>1, <3>1, <3>2 DEF CallType
    <2>3. CallerInv'
      BY <1>0, <1>5, <2>2 DEF IInv, CallerInv, objvars
    <2>4. BufferInv' /\ AvailInv'
      BY <1>0, <1>3, <1>5, <2>2 DEF IInv, BufferInv, AvailInv, objvars, netvars
    <2>5. WaitInv'
      BY <1>1, <2>1, <2>2, SecondAssumption DEF WaitInv
    <2>6. TimeoutExact' /\ AvailableNeverWaits' /\ ReplyInv'
          /\ result' \in ResultType /\ buf' \in Seq(Byte \cup {Junk})
      BY <1>0, <1>1, <1>5
      DEF IInv, TypeOK, TimeoutExact, AvailableNeverWaits, ReplyInv, objvars
    <2> QED BY <1>2, <2>2, <2>3, <2>4, <2>5, <2>6 DEF IInv, TypeOK, WorldInv
  <1> QED BY <1>4, <1>5 DEF SelectExpires

LEMMA InterruptIInv ==
  ASSUME IInv, Interrupt
  PROVE  IInv'
  <1>0. /\ call.op # "idle" /\ UNCHANGED <<objvars, netvars>>
        /\ Finish("error", "interrupt", << >>, call.waited)
    BY DEF Interrupt
  <1>1. WorldInv'
    BY <1>0 DEF WorldInv, IInv, TypeOK, CallerInv, WindowInv, NoLiveClientAbandoned,
                objvars, netvars
  <1>2. call.op = "read" /\ call.need <= call.avail => call.waited = 0
    BY AvailableIsReady
  <1>3. << >> \in Seq(Byte \cup {Junk}) /\ call.waited \in Nat
    BY <1>0, RunningCall
  <1> QED BY <1>0, <1>1, <1>2, <1>3, FinishIInv

-----------------------------------------------------------------------------
\* The invariant is inductive, and what it implies

LEMMA NextIInv == IInv /\ [Next]_vars => IInv'
  <1> SUFFICES ASSUME IInv, [Next]_vars PROVE IInv'
    OBVIOUS
  <1>1. CASE Peers
    BY <1>1, ConnectIInv, PeerSendIInv, PeerEndIInv, ArriveIInv DEF Peers
  <1>2. CASE Program
    <2>1. ASSUME NEW t \in Timeouts, Construct(t) \/ SetTimeout(t)
          PROVE  IInv'
      BY <2>1, ConstructIInv, SetTimeoutIInv
    <2>2. ASSUME NEW ts \in ElementSizes,
                 (\E cnt \in Counts : ReadCount(cnt, ts)) \/ ReadDefault(ts)
          PROVE  IInv'
      BY <2>2, ReadCallsIInv
    <2> QED BY <1>2, <2>1, <2>2, ClearIInv, ConnectedIInv, WriteIInv, FlushIInv DEF Program
  <1>3. CASE ReadLoop
    BY <1>3, RecvDataIInv, RecvEofIInv, RecvResetIInv, SelectExpiresIInv DEF ReadLoop
  <1>4. CASE Interrupt
    BY <1>4, InterruptIInv
  <1>5. CASE UNCHANGED vars
    BY <1>5 DEF vars, IInv, TypeOK, CallerInv, WindowInv, BufferInv, NoLiveClientAbandoned,
                WaitInv, AvailInv, TimeoutExact, AvailableNeverWaits, ReplyInv
  <1> QED BY <1>1, <1>2, <1>3, <1>4, <1>5 DEF Next

THEOREM InductiveInvariant == Spec => []IInv
  BY InitIInv, NextIInv, PTL DEF Spec

\* Every variable keeps its type: the state of the object, the sockets, the
\* network and the running call.
THEOREM TypeCorrect == Spec => []TypeOK
  <1>1. IInv => TypeOK
    BY DEF IInv
  <1> QED BY <1>1, InductiveInvariant, PTL

\* read forgets a client without closing it only at the end of its stream, with
\* nothing left to read, whatever the peers, the program and the user do.
THEOREM LiveClientsKept == Spec => []NoLiveClientAbandoned
  <1>1. IInv => NoLiveClientAbandoned
    BY DEF IInv
  <1> QED BY <1>1, InductiveInvariant, PTL

\* A read that times out has waited its timeout, whatever the length of a slice.
THEOREM TimeoutsExact == Spec => []TimeoutExact
  <1>1. IInv => TimeoutExact
    BY DEF IInv
  <1> QED BY <1>1, InductiveInvariant, PTL

\* A read of no more than NumBytesAvailable gets its bytes without waiting.
THEOREM AvailableReadsNeverWait == Spec => []AvailableNeverWaits
  <1>1. IInv => AvailableNeverWaits
    BY DEF IInv
  <1> QED BY <1>1, InductiveInvariant, PTL

\* The client after a read that returned data is the one the data came from.
THEOREM RepliesReachRequesters == Spec => []ReplyReachesRequester
  <1>1. IInv => ReplyReachesRequester
    BY DEF IInv, ReplyInv, ReplyReachesRequester
  <1> QED BY <1>1, InductiveInvariant, PTL

-----------------------------------------------------------------------------
\* flush

\* A flush returns normally only from a read that found nothing left.
LEMMA FlushStep ==
  ASSUME IInv, [Next]_vars, call.op = "flush", result'.status = "flushed"
  PROVE  taken'[clientfd] >= call.base + call.avail
  <1>1. /\ clientfd \in Conn /\ call.base \in Nat /\ call.avail \in Nat /\ call.n \in Nat
        /\ taken[clientfd] \in Nat /\ arrived[clientfd] \in Nat
        /\ call.base + call.avail <= arrived[clientfd]
        /\ call.n < call.need /\ call.need \in Nat
    BY RunningCall DEF IInv, AvailInv
  <1>2. result' # result
    BY DEF IInv, CallerInv, NoResult, Unasked
  <1>3. ~Peers /\ ~UNCHANGED vars
    BY <1>2 DEF Peers, Connect, PeerSend, PeerEnd, Arrive, callvars, vars
  <1>4. ~(\E t \in Timeouts : Construct(t) \/ SetTimeout(t))
    BY <1>2 DEF Construct, SetTimeout, callvars
  <1>5. ~Program
    BY <1>4 DEF Program, Clear, Connected, Write, ReadCount, ReadDefault, Read, Flush, Callable
  <1>6. ~Interrupt /\ ~RecvReset
    BY DEF Interrupt, RecvReset, Finish
  <1>7. ~RecvData
    <2> SUFFICES ASSUME RecvData PROVE FALSE
      OBVIOUS
    <2> DEFINE k == Smaller(call.need - call.n, arrived[clientfd] - taken[clientfd])
    <2>1. k \in Nat \ {0} /\ call.n + k \in Nat \ {0}
      BY <1>1 DEF RecvData, Smaller, DataReady
    <2>2. Return(Received(k), call.n + k, "full", clientfd, call.waited)
      BY <1>2 DEF RecvData
    <2> HIDE DEF k
    <2> QED BY <1>2, <2>1, <2>2 DEF Return, Finish
  <1>8. CASE RecvEof \/ SelectExpires
    BY <1>1, <1>8 DEF RecvEof, SelectExpires, DataReady, netvars
  <1> QED BY <1>3, <1>5, <1>6, <1>7, <1>8 DEF Next, ReadLoop

\* A flush that returns normally has dropped everything that had arrived when it
\* was called, however often it had to go round.
THEOREM FlushesDrain == Spec => FlushDrains
  <1>1. IInv /\ [Next]_vars =>
          [call.op = "flush" /\ result'.status = "flushed" =>
             taken'[clientfd] >= call.base + call.avail]_vars
    BY FlushStep
  <1> QED BY <1>1, InductiveInvariant, PTL DEF Spec, FlushDrains

-----------------------------------------------------------------------------
\* The object implements the byte stream

Answer(status, bytes) == [status |-> status, bytes |-> bytes]
Last == Answer(result.status, result.bytes)

LEMMA InitStream == Init => Stream!Init
  BY DEF Init, Stream!Init, Stream!Answer, Mark, IdleCall, NoResult, Unasked

\* While a call runs its client's mark stays where it was when it began.
LEMMA MarkOfRunning ==
  ASSUME IInv, call.op # "idle"
  PROVE  /\ clientfd \in Conn /\ Mark[clientfd] = call.base
         /\ call.base \in Nat /\ call.base <= taken[clientfd]
         /\ \A c \in Conn \ {clientfd} : Mark[c] = taken[c]
  BY RunningCall DEF Mark, IInv, BufferInv

\* A call that begins or goes on leaves every mark where it is.
LEMMA MarkStays ==
  ASSUME IInv, UNCHANGED clientfd, call'.op # "idle",
         \/ /\ call.op = "idle"
            /\ UNCHANGED taken
            /\ call'.base = taken[clientfd]
         \/ /\ call.op # "idle"
            /\ call'.base = call.base
            /\ \A c \in Conn \ {clientfd} : taken'[c] = taken[c]
  PROVE  UNCHANGED Mark
  BY DEF Mark

\* When a call is over, the mark of its client is what was taken from it.
LEMMA MarkMoves ==
  ASSUME IInv, call.op # "idle", call'.op = "idle",
         \A c \in Conn \ {clientfd} : taken'[c] = taken[c]
  PROVE  Mark' = [Mark EXCEPT ![clientfd] = taken'[clientfd]]
  BY RunningCall DEF Mark

\* A call that finishes is a Deliver or a Drop.
LEMMA FinishStream ==
  ASSUME IInv, call.op # "idle", UNCHANGED sent,
         \A c \in Conn \ {clientfd} : taken'[c] = taken[c],
         taken'[clientfd] \in Nat, call.base <= taken'[clientfd],
         taken'[clientfd] <= sent[clientfd],
         NEW status, NEW why, NEW bytes, NEW waited,
         Finish(status, why, bytes, waited),
         \/ /\ status = "ok"
            /\ bytes = Stream!Segment(clientfd, call.base, taken'[clientfd])
         \/ /\ status \in {"flushed", "error"}
            /\ bytes = << >>
  PROVE  Stream!Next
  <1> DEFINE j == taken'[clientfd]
  <1>1. clientfd \in Conn /\ sent[clientfd] \in Nat /\ Mark[clientfd] = call.base
    BY RunningCall, MarkOfRunning
  <1>2. j \in 0 .. sent[clientfd]
    BY <1>1
  <1>3. call'.op = "idle"
    BY DEF Finish, IdleCall
  <1>4. Mark' = [Mark EXCEPT ![clientfd] = j]
    BY <1>3, MarkMoves
  <1>5. result'.status = status /\ result'.bytes = bytes
    BY DEF Finish
  <1>6. CASE status = "ok" /\ bytes = Stream!Segment(clientfd, call.base, j)
    BY <1>1, <1>2, <1>4, <1>5, <1>6 DEF Stream!Next, Stream!Deliver, Stream!Answer
  <1>7. CASE status \in {"flushed", "error"} /\ bytes = << >>
    BY <1>1, <1>2, <1>4, <1>5, <1>7 DEF Stream!Next, Stream!Drop, Stream!Answer
  <1> QED BY <1>6, <1>7

\* A return of octave_tcpserver::read is a Deliver, a Drop or, when flush goes
\* round again, a stuttering step.
LEMMA ReturnStream ==
  ASSUME IInv, call.op # "idle", UNCHANGED sent,
         \A c \in Conn \ {clientfd} : taken'[c] = taken[c],
         taken'[clientfd] \in Nat, call.base <= taken'[clientfd],
         taken'[clientfd] <= sent[clientfd],
         NEW b \in Seq(Byte \cup {Junk}), Len(b) = call.need,
         NEW n \in 0 .. call.need, NEW why, NEW cfd, NEW waited,
         Return(b, n, why, cfd, waited),
         clientfd' = cfd, cfd \in {clientfd, NoConn},
         call.op = "read" => /\ taken'[clientfd] = call.base + n
                             /\ \A i \in 1 .. n : b[i] = <<clientfd, call.base + i>>
  PROVE  [Stream!Next]_<<sent, Mark, Last>>
  <1>1. CASE /\ call.op = "read"
             /\ Finish("ok", why, SubSeq(b, 1, n), waited)
    <2>1. n \in Nat /\ n <= Len(b) /\ call.base \in Nat /\ taken'[clientfd] = call.base + n
      BY <1>1, RunningCall
    <2>2. SubSeq(b, 1, n) = [i \in 1 .. n |-> b[i]]
      BY <2>1
    <2>3. (call.base + n) - call.base = n
      BY <2>1
    <2>4. SubSeq(b, 1, n) = [i \in 1 .. n |-> <<clientfd, call.base + i>>]
      BY <1>1, <2>2
    <2>5. SubSeq(b, 1, n) = Stream!Segment(clientfd, call.base, taken'[clientfd])
      BY <2>1, <2>3, <2>4 DEF Stream!Segment
    <2> QED BY <1>1, <2>5, FinishStream
  <1>2. CASE \/ Finish("error", "torn", << >>, waited)
             \/ Finish("flushed", why, << >>, waited)
             \/ Finish("error", "unconnected", << >>, waited)
    BY <1>2, FinishStream
  <1>3. CASE /\ cfd # NoConn
             /\ call' = [call EXCEPT !.n = 0, !.left = 0]
             /\ UNCHANGED result
    <2>1. call'.op = call.op /\ call'.base = call.base
      BY <1>3, RunningCall DEF CallType
    <2>2. UNCHANGED Mark
      BY <1>3, <2>1, MarkStays
    <2> QED BY <1>3, <2>2 DEF Last
  <1> QED BY <1>1, <1>2, <1>3 DEF Return

LEMMA ReadLoopStream ==
  ASSUME IInv, IInv', ReadLoop
  PROVE  [Stream!Next]_<<sent, Mark, Last>>
  <1>0. /\ call.op # "idle" /\ UNCHANGED sent
        /\ clientfd' \in {clientfd, NoConn}
    BY DEF ReadLoop, RecvData, RecvEof, RecvReset, SelectExpires, objvars, netvars
  <1>1. /\ clientfd \in Conn /\ call \in CallType
        /\ call.n \in 0 .. call.need /\ call.need \in Nat /\ call.base \in Nat
        /\ taken[clientfd] \in Nat /\ arrived[clientfd] \in Nat /\ taken \in [Conn -> Nat]
        /\ sent[clientfd] \in Nat
        /\ taken[clientfd] <= arrived[clientfd] /\ arrived[clientfd] <= sent[clientfd]
        /\ call.base <= taken[clientfd] /\ taken[clientfd] <= sent[clientfd]
        /\ buf \in Seq(Byte \cup {Junk}) /\ Len(buf) = call.need
    <2>1. /\ clientfd \in Conn /\ call \in CallType
          /\ call.n \in 0 .. call.need /\ call.need \in Nat /\ call.base \in Nat
          /\ taken[clientfd] \in Nat /\ arrived[clientfd] \in Nat /\ sent[clientfd] \in Nat
          /\ taken[clientfd] <= arrived[clientfd] /\ arrived[clientfd] <= sent[clientfd]
          /\ Len(buf) = call.need
      BY <1>0, RunningCall
    <2>2. call.base <= taken[clientfd]
      BY <1>0, MarkOfRunning
    <2>3. buf \in Seq(Byte \cup {Junk}) /\ taken \in [Conn -> Nat]
      BY DEF IInv, TypeOK
    <2> QED BY <2>1, <2>2, <2>3
  <1>2. call.op = "read" => /\ taken[clientfd] = call.base + call.n
                            /\ \A i \in 1 .. call.n : buf[i] = <<clientfd, call.base + i>>
    BY DEF IInv, BufferInv
  <1>3. CASE RecvData
    <2> DEFINE k == Smaller(call.need - call.n, arrived[clientfd] - taken[clientfd])
    <2>1. k \in Nat /\ call.n + k \in Nat /\ call.n + k <= call.need
          /\ taken[clientfd] + k <= arrived[clientfd]
      BY <1>1, <1>3 DEF RecvData, Smaller, DataReady
    <2>2. /\ taken'[clientfd] = taken[clientfd] + k
          /\ \A c \in Conn \ {clientfd} : taken'[c] = taken[c]
      BY <1>1, <1>3 DEF RecvData
    <2>3. taken'[clientfd] <= sent[clientfd] /\ taken'[clientfd] \in Nat
          /\ call.base <= taken'[clientfd]
      <3> HIDE DEF k
      <3> QED BY <1>1, <2>1, <2>2
    <2>4. clientfd' = clientfd
      BY <1>3 DEF RecvData, objvars
    <2>5. \/ /\ call' = [call EXCEPT !.n = @ + k]
             /\ UNCHANGED result
          \/ Return(Received(k), call.n + k, "full", clientfd, call.waited)
      BY <1>3 DEF RecvData
    <2> HIDE DEF k
    <2>6. CASE call' = [call EXCEPT !.n = @ + k] /\ UNCHANGED result
      <3>1. call'.op = call.op /\ call'.base = call.base
        BY <1>1, <2>6 DEF CallType
      <3>2. UNCHANGED Mark
        BY <1>0, <2>2, <2>4, <3>1, MarkStays
      <3> QED BY <1>0, <2>6, <3>2 DEF Last
    <2>7. CASE Return(Received(k), call.n + k, "full", clientfd, call.waited)
      <3>1. /\ Received(k) \in Seq(Byte \cup {Junk}) /\ Len(Received(k)) = call.need
            /\ call.op = "read" =>
                 \A i \in 1 .. call.n + k : Received(k)[i] = <<clientfd, call.base + i>>
        BY <1>0, <2>1, ReceivedType
      <3>2. call.op = "read" => taken'[clientfd] = call.base + (call.n + k)
        BY <1>1, <1>2, <2>1, <2>2
      <3>3. call.n + k \in 0 .. call.need
        BY <1>1, <2>1
      <3> QED BY <1>0, <2>2, <2>3, <2>4, <2>7, <3>1, <3>2, <3>3, ReturnStream
    <2> QED BY <2>5, <2>6, <2>7
  <1>4. CASE RecvEof
    BY <1>0, <1>1, <1>2, <1>4, ReturnStream DEF RecvEof, netvars
  <1>5. CASE RecvReset
    BY <1>0, <1>1, <1>5, FinishStream DEF RecvReset
  <1>6. CASE SelectExpires
    <2>1. UNCHANGED taken /\ clientfd' = clientfd
      BY <1>6 DEF SelectExpires, objvars, netvars
    <2>2. CASE Return(buf, call.n, "timeout", clientfd, call.waited + Slice(call.left))
      BY <1>0, <1>1, <1>2, <2>1, <2>2, ReturnStream
    <2>3. CASE /\ call' = [call EXCEPT !.left = @ - Second, !.waited = @ + Slice(call.left)]
               /\ UNCHANGED <<buf, result>>
      <3>1. call'.op = call.op /\ call'.base = call.base /\ UNCHANGED result
        BY <1>1, <2>3 DEF CallType
      <3>2. UNCHANGED Mark
        BY <1>0, <2>1, <3>1, MarkStays
      <3> QED BY <1>0, <3>1, <3>2 DEF Last
    <2> QED BY <1>6, <2>2, <2>3 DEF SelectExpires
  <1> QED BY <1>3, <1>4, <1>5, <1>6 DEF ReadLoop

\* Steps that leave the running call, the bytes taken and the answer alone.
LEMMA QuietStream ==
  ASSUME UNCHANGED <<call, taken, result>>,
         UNCHANGED clientfd \/ call.op = "idle"
  PROVE  UNCHANGED Mark /\ UNCHANGED Last
  BY DEF Mark, Last

LEMMA PeersStream ==
  ASSUME IInv, Peers
  PROVE  [Stream!Next]_<<sent, Mark, Last>>
  <1>1. UNCHANGED Mark /\ UNCHANGED Last
    BY QuietStream DEF Peers, Connect, PeerSend, PeerEnd, Arrive, objvars, netvars, callvars
  <1>2. UNCHANGED sent \/ \E c \in Conn : sent' = [sent EXCEPT ![c] = @ + 1]
    BY DEF Peers, Connect, PeerSend, PeerEnd, Arrive, netvars
  <1>3. sent \in [Conn -> Nat]
    BY DEF IInv, TypeOK
  <1> QED BY <1>1, <1>2, <1>3 DEF Last, Answer, Stream!Next, Stream!Emit

\* A call that begins, and one that is answered at once.
LEMMA EnterStream ==
  ASSUME IInv, Callable, clientfd # NoConn, UNCHANGED <<objvars, netvars>>,
         NEW op \in {"read", "flush"}, NEW need, NEW ts, NEW asked, NEW tmo,
         Enter(op, need, ts, asked, tmo)
  PROVE  Stream!Next
  <1>1. clientfd \in Conn
    BY DEF IInv, TypeOK
  <1>2. call'.op = op /\ call'.base = taken[clientfd]
    BY DEF Enter
  <1>3. UNCHANGED Mark
    BY <1>2, MarkStays DEF Callable, objvars, netvars
  <1>4. result'.status = "none" /\ result'.bytes = << >>
    BY DEF Enter, NoResult, Unasked
  <1> QED BY <1>3, <1>4 DEF Stream!Next, Stream!Begin, Stream!Answer, netvars

LEMMA AnsweredStream ==
  ASSUME IInv, Callable, UNCHANGED <<objvars, netvars>>,
         NEW op, NEW status \in {"ok", "flushed", "error"}, NEW why,
         Answered(op, status, why)
  PROVE  Stream!Next
  <1>1. PICK c \in Conn : TRUE
    BY ConnAssumption
  <1>2. call.op = "idle" /\ UNCHANGED <<call, taken, sent>>
    BY DEF Callable, Answered, netvars
  <1>3. Mark = taken /\ Mark' = taken
    BY <1>2 DEF Mark, IInv, TypeOK
  <1>4. result'.status = status /\ result'.bytes = << >>
    BY DEF Answered, Unasked
  <1>5. /\ taken[c] \in 0 .. sent[c] /\ taken[c] \in Nat
        /\ taken = [taken EXCEPT ![c] = taken[c]]
    BY <1>1 DEF IInv, TypeOK, WindowInv
  <1>6. CASE status = "ok"
    <2>1. Stream!Segment(c, taken[c], taken[c]) = << >>
      BY <1>5 DEF Stream!Segment
    <2>2. Stream!Deliver(c, taken[c])
      BY <1>2, <1>3, <1>4, <1>5, <1>6, <2>1 DEF Stream!Deliver, Stream!Answer
    <2> QED BY <1>1, <1>3, <1>5, <2>2 DEF Stream!Next
  <1>7. CASE status \in {"flushed", "error"}
    <2>1. Stream!Drop(c, taken[c], status)
      BY <1>2, <1>3, <1>4, <1>5, <1>7 DEF Stream!Drop, Stream!Answer
    <2> QED BY <1>1, <1>5, <1>7, <2>1 DEF Stream!Next
  <1> QED BY <1>6, <1>7

LEMMA ReadStream ==
  ASSUME IInv, NEW need, NEW ts, NEW asked, Read(need, ts, asked)
  PROVE  Stream!Next
  <1>1. Callable /\ UNCHANGED <<objvars, netvars>>
    BY DEF Read
  <1>2. \/ Answered("read", "ok", "full")
        \/ Answered("read", "error", "unconnected")
        \/ clientfd # NoConn /\ Enter("read", need, ts, asked, timeout)
    BY DEF Read
  <1>3. CASE Answered("read", "ok", "full")
    BY <1>1, <1>3, AnsweredStream
  <1>4. CASE Answered("read", "error", "unconnected")
    BY <1>1, <1>4, AnsweredStream
  <1>5. CASE clientfd # NoConn /\ Enter("read", need, ts, asked, timeout)
    BY <1>1, <1>5, EnterStream
  <1> QED BY <1>2, <1>3, <1>4, <1>5

LEMMA ProgramStream ==
  ASSUME IInv, Program
  PROVE  [Stream!Next]_<<sent, Mark, Last>>
  <1>1. ASSUME NEW t \in Timeouts, Construct(t) \/ SetTimeout(t)
        PROVE  UNCHANGED <<sent, Mark, Last>>
    <2>1. UNCHANGED <<call, taken, result, clientfd, sent>>
      BY <1>1 DEF Construct, SetTimeout, netvars, callvars
    <2> QED BY <2>1, QuietStream
  <1>2. CASE Clear
    <2>1. UNCHANGED Mark /\ UNCHANGED sent
      BY <1>2 DEF Clear, Close, Callable, Mark, netvars
    <2>2. result'.status = "none" /\ result'.bytes = << >>
      BY <1>2 DEF Clear, NoResult, Unasked
    <2> QED BY <2>1, <2>2 DEF Stream!Next, Stream!Begin, Stream!Answer
  <1>3. CASE Connected \/ Write(1)
    <2>1. UNCHANGED <<call, taken, result, sent>> /\ call.op = "idle"
      BY <1>3 DEF Connected, Write, Callable, netvars, callvars
    <2> QED BY <2>1, QuietStream
  <1>4. ASSUME NEW ts \in ElementSizes,
               (\E cnt \in Counts : ReadCount(cnt, ts)) \/ ReadDefault(ts)
        PROVE  Stream!Next
    BY <1>4, ReadStream DEF ReadCount, ReadDefault
  <1>5. CASE Flush
    <2>1. Callable /\ UNCHANGED <<objvars, netvars>>
      BY <1>5 DEF Flush
    <2>2. CASE clientfd = NoConn
      BY <1>5, <2>1, <2>2, AnsweredStream DEF Flush
    <2>3. CASE clientfd # NoConn
      BY <1>5, <2>1, <2>3, EnterStream DEF Flush
    <2> QED BY <2>2, <2>3
  <1> QED BY <1>1, <1>2, <1>3, <1>4, <1>5 DEF Program

LEMMA StepStream ==
  ASSUME IInv, IInv', [Next]_vars
  PROVE  [Stream!Next]_<<sent, Mark, Last>>
  <1>1. CASE Peers
    BY <1>1, PeersStream
  <1>2. CASE Program
    BY <1>2, ProgramStream
  <1>3. CASE ReadLoop
    BY <1>3, ReadLoopStream
  <1>4. CASE Interrupt
    <2>1. /\ call.op # "idle" /\ UNCHANGED <<sent, taken>>
          /\ Finish("error", "interrupt", << >>, call.waited)
      BY <1>4 DEF Interrupt, netvars
    <2>2. /\ taken[clientfd] \in Nat /\ taken[clientfd] <= sent[clientfd]
          /\ call.base <= taken[clientfd]
      <3>1. /\ taken[clientfd] \in Nat /\ arrived[clientfd] \in Nat /\ sent[clientfd] \in Nat
            /\ taken[clientfd] <= arrived[clientfd] /\ arrived[clientfd] <= sent[clientfd]
        BY <2>1, RunningCall
      <3> QED BY <2>1, <3>1, MarkOfRunning
    <2> QED BY <2>1, <2>2, FinishStream
  <1>5. CASE UNCHANGED vars
    BY <1>5, QuietStream DEF vars
  <1> QED BY <1>1, <1>2, <1>3, <1>4, <1>5 DEF Next

\* tcpserver implements the byte stream: the initial state maps to the stream's,
\* and every step of a call, of the program or of a peer maps to a step of the
\* stream or to a stuttering step.
THEOREM Refinement == Spec => ImplementsByteStream
  <1>1. IInv /\ IInv' /\ [Next]_vars => [Stream!Next]_Stream!svars
    BY StepStream DEF Stream!svars, Last, Answer
  <1> QED BY <1>1, InitStream, InductiveInvariant, PTL
          DEF Spec, ImplementsByteStream, Stream!Spec

=============================================================================
