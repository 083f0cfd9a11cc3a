----------------------------- MODULE TcpServer ------------------------------
(***************************************************************************)
(* The tcpserver interface: octave_tcpserver (tcpserver_class.cc), its     *)
(* constructor (tcpserver.cc) and the Octave-language methods that call it *)
(* (inst/@octave_tcpserver).  Octave is single threaded, so at most one    *)
(* call on the object is running, but that call interleaves with the       *)
(* peers: they connect, send, close and reset at any moment, and what they *)
(* send takes time to arrive.  A connection is accepted only when the      *)
(* program evaluates obj.Connected.                                        *)
(***************************************************************************)
EXTENDS Integers, Sequences

CONSTANTS
  Conn,          \* the connections peers may make (remote address and port)
  NoConn,        \* no connection: clientfd = -1
  Second,        \* the longest single select, 1000 ms in the code, in ticks
  Timeouts,      \* Timeout values a program sets, in ticks; < 0 waits forever
  Counts,        \* explicit element counts given to read
  ElementSizes,  \* bytes per element of the datatypes given to read
  FlushChunk,    \* size of flush's scratch buffer, 1024 bytes in the code
  MaxSend,       \* bound: bytes one peer sends
  MaxWritten     \* bound: bytes the program writes

ASSUME ConnAssumption == Conn # {} /\ NoConn \notin Conn
ASSUME SecondAssumption == Second \in Nat \ {0}
ASSUME ArgumentAssumption ==
  /\ Timeouts \subseteq Int
  /\ Counts \subseteq Nat
  /\ ElementSizes \subseteq Nat \ {0}
  /\ FlushChunk \in Nat \ {0}
  /\ MaxSend \in Nat
  /\ MaxWritten \in Nat

VARIABLES
  \* the object and the descriptors of the process
  handle,        \* whether an Octave variable holds the object
  fd,            \* the object's listening socket
  clientfd,      \* the accepted connection, or NoConn
  remote_addr,   \* what ClientAddress and ClientPort report
  timeout,       \* the Timeout property
  byteswritten,  \* the NumBytesWritten property
  sock,          \* sock[c]: the server's socket of connection c
  \* the network and the peers
  sent,          \* sent[c]: bytes the peer has sent
  arrived,       \* arrived[c]: bytes the server's kernel holds or has given out
  taken,         \* taken[c]: bytes recv has returned
  end,           \* end[c]: how the peer has ended its stream, if it has
  ended,         \* the connections whose end has reached the server
  \* the running call
  call,          \* its arguments and local variables
  buf,           \* its receive buffer
  result         \* what the latest read or flush told the program

objvars == <<handle, fd, clientfd, remote_addr, timeout, byteswritten, sock>>
netvars == <<sent, arrived, taken, end, ended>>
callvars == <<call, buf, result>>
vars == <<handle, fd, clientfd, remote_addr, timeout, byteswritten, sock,
          sent, arrived, taken, end, ended, call, buf, result>>

-----------------------------------------------------------------------------
\* Values

Byte == Conn \X (Nat \ {0})     \* <<c, i>>: the i-th byte the peer of c sent
Junk == <<NoConn, 0>>           \* contents of a buffer before recv fills it

IdleCall ==
  [op |-> "idle", need |-> 0, tosize |-> 1, asked |-> "none", tmo |-> 0, left |-> 0,
   n |-> 0, waited |-> 0, base |-> 0, avail |-> 0]

\* The outcome of a call that never reached the socket, and of no call at all.
Unasked(op, status, why) ==
  [op |-> op, status |-> status, why |-> why, bytes |-> << >>, need |-> 0,
   avail |-> 0, asked |-> "none", tmo |-> 0, waited |-> 0]

NoResult == Unasked("none", "none", "none")

\* The buffer of a call that asks for n bytes.
Fresh(n) == [i \in 1 .. n |-> Junk]

\* mutant of Slice: the last slice is not cut short.
SliceWhole(t) == Second

\* The wait of one select: the remaining timeout, never more than a second.
Slice(t) == IF t < 0 \/ t > Second THEN Second ELSE t

\* int32 (x / s): Octave rounds to the nearest integer, halves upwards.
RoundDiv(x, s) == (2 * x + s) \div (2 * s)

Smaller(x, y) == IF x <= y THEN x ELSE y

\* FIONREAD on the client's socket.
NumBytesAvailable == IF clientfd = NoConn THEN 0 ELSE arrived[clientfd] - taken[clientfd]

CallType ==
  [op : {"idle", "read", "flush"}, need : Nat, tosize : Nat \ {0},
   asked : {"none", "count", "default"}, tmo : Int, left : Int, n : Nat, waited : Nat, base : Nat, avail : Nat]

ResultType ==
  [op : {"none", "read", "flush"}, status : {"none", "ok", "flushed", "error"},
   why : {"none", "full", "timeout", "eof", "torn", "reset", "interrupt", "unconnected"},
   bytes : Seq(Byte \cup {Junk}), need : Nat, avail : Nat,
   asked : {"none", "count", "default"}, tmo : Int, waited : Nat]

TypeOK ==
  /\ handle \in {"none", "bound"}
  /\ fd \in {"closed", "listening"}
  /\ clientfd \in Conn \cup {NoConn}
  /\ remote_addr \in Conn \cup {NoConn}
  /\ timeout \in Int
  /\ byteswritten \in Nat
  /\ sock \in [Conn -> {"none", "queued", "open", "closed"}]
  /\ sent \in [Conn -> Nat]
  /\ arrived \in [Conn -> Nat]
  /\ taken \in [Conn -> Nat]
  /\ end \in [Conn -> {"none", "fin", "rst"}]
  /\ ended \subseteq Conn
  /\ call \in CallType
  /\ buf \in Seq(Byte \cup {Junk})
  /\ result \in ResultType

Init ==
  /\ handle = "none"
  /\ fd = "closed"
  /\ clientfd = NoConn
  /\ remote_addr = NoConn
  /\ timeout = -1
  /\ byteswritten = 0
  /\ sock = [c \in Conn |-> "none"]
  /\ sent = [c \in Conn |-> 0]
  /\ arrived = [c \in Conn |-> 0]
  /\ taken = [c \in Conn |-> 0]
  /\ end = [c \in Conn |-> "none"]
  /\ ended = {}
  /\ call = IdleCall
  /\ buf = << >>
  /\ result = NoResult

-----------------------------------------------------------------------------
\* The peers and the network (external)

\* A peer's connect succeeds while a listening socket has room in its queue:
\* listen (fd, 1), for which Linux queues two connections.
Connect(c) ==
  /\ fd = "listening"
  /\ sock[c] = "none"
  /\ \E d \in Conn : \A e \in Conn \ {d} : sock[e] # "queued"
  /\ sock' = [sock EXCEPT ![c] = "queued"]
  /\ UNCHANGED <<handle, fd, clientfd, remote_addr, timeout, byteswritten,
                 netvars, callvars>>

PeerSend(c) ==
  /\ sock[c] \in {"queued", "open"}
  /\ end[c] = "none"
  /\ sent[c] < MaxSend
  /\ sent' = [sent EXCEPT ![c] = @ + 1]
  /\ UNCHANGED <<objvars, arrived, taken, end, ended, callvars>>

\* The peer closes its end (fin) or its connection breaks (rst).
PeerEnd(c, how) ==
  /\ sock[c] \in {"queued", "open"}
  /\ end[c] = "none"
  /\ end' = [end EXCEPT ![c] = how]
  /\ UNCHANGED <<objvars, sent, arrived, taken, ended, callvars>>

\* What was sent arrives in order: the bytes first, then the end of the stream.
Arrive(c) ==
  /\ \/ /\ arrived[c] < sent[c]
        /\ arrived' = [arrived EXCEPT ![c] = @ + 1]
        /\ UNCHANGED ended
     \/ /\ arrived[c] = sent[c]
        /\ end[c] # "none"
        /\ c \notin ended
        /\ ended' = ended \cup {c}
        /\ UNCHANGED arrived
  /\ UNCHANGED <<objvars, sent, taken, end, callvars>>

-----------------------------------------------------------------------------
\* The object's life

\* octave_tcpserver::open: the socket is bound and listening, no client is known.
Open ==
  /\ fd' = "listening"
  /\ remote_addr' = NoConn

\* octave_tcpserver::close: first the client and then the listening socket; the
\* kernel resets the connections still queued on it.
Close ==
  /\ sock' = [c \in Conn |-> IF c = clientfd \/ sock[c] = "queued" THEN "closed"
                             ELSE sock[c]]
  /\ clientfd' = NoConn
  /\ fd' = "closed"

\* tcpserver (port, "timeout", t).  A value below -1 raises after the socket is
\* bound; no object is made, and the socket is lost (Lifecycle).
Construct(t) ==
  /\ handle = "none"
  /\ t >= -1
  /\ Open
  /\ handle' = "bound"
  /\ timeout' = t
  /\ byteswritten' = 0
  /\ UNCHANGED <<clientfd, sock, netvars, callvars>>

\* The object can take a call.
Callable == handle = "bound" /\ call.op = "idle"

\* clear: the destructor closes the object.
Clear ==
  /\ Callable
  /\ Close
  /\ handle' = "none"
  /\ result' = NoResult
  /\ UNCHANGED <<remote_addr, timeout, byteswritten, netvars, call, buf>>

\* obj.Timeout = t; a value below -1 raises and changes nothing.
SetTimeout(t) ==
  /\ Callable
  /\ t >= -1
  /\ timeout' = t
  /\ UNCHANGED <<handle, fd, clientfd, remote_addr, byteswritten, sock,
                 netvars, callvars>>

\* mutant of CheckForConnections: a new connection replaces the client held.
CheckReplaces ==
  \E c \in Conn :
    /\ sock[c] = "queued"
    /\ remote_addr' = c
    /\ clientfd' = c
    /\ sock' = [d \in Conn |-> IF d = c THEN "open"
                               ELSE IF d = clientfd THEN "closed" ELSE sock[d]]

\* octave_tcpserver::check_for_connections.  The address of whatever accept
\* returns lands in remote_addr, also when the connection is closed at once
\* because a client is held already.
CheckForConnections ==
  \E c \in Conn :
    /\ sock[c] = "queued"
    /\ remote_addr' = c
    /\ IF clientfd # NoConn
       THEN /\ sock' = [sock EXCEPT ![c] = "closed"]
            /\ UNCHANGED clientfd
       ELSE /\ sock' = [sock EXCEPT ![c] = "open"]
            /\ clientfd' = c

\* obj.Connected: subsref looks for a connection before it answers.
Connected ==
  /\ Callable
  /\ CheckForConnections
  /\ UNCHANGED <<handle, fd, timeout, byteswritten, netvars, callvars>>

\* write (obj, data): send takes everything, or fails with -1 (no error is
\* raised and nothing counted) once the peer's end is gone.
Write(k) ==
  /\ Callable
  /\ clientfd # NoConn
  /\ byteswritten + k <= MaxWritten
  /\ \E wrote \in IF end[clientfd] = "none" THEN {k} ELSE {k, -1} :
       byteswritten' = IF wrote > 0 THEN byteswritten + wrote ELSE byteswritten
  /\ UNCHANGED <<handle, fd, clientfd, remote_addr, timeout, sock,
                 netvars, callvars>>

-----------------------------------------------------------------------------
\* Reading: inst/@octave_tcpserver/read.m around octave_tcpserver::read

\* Enter octave_tcpserver::read for a call of kind op.
Enter(op, need, ts, asked, tmo) ==
  /\ call' = [op |-> op, need |-> need, tosize |-> ts, asked |-> asked, tmo |-> tmo,
              left |-> tmo, n |-> 0, waited |-> 0, base |-> taken[clientfd],
              avail |-> NumBytesAvailable]
  /\ buf' = Fresh(need)
  /\ result' = NoResult

\* A call that is over before it reaches the socket.
Answered(op, status, why) ==
  /\ result' = Unasked(op, status, why)
  /\ UNCHANGED <<call, buf>>

\* The running call returns to the program.
Finish(status, why, bytes, waited) ==
  /\ result' = [op |-> call.op, status |-> status, why |-> why, bytes |-> bytes, need |-> call.need,
                avail |-> call.avail, asked |-> call.asked, tmo |-> call.tmo,
                waited |-> waited]
  /\ call' = IdleCall
  /\ buf' = << >>

\* read (obj, cnt, datatype); without cnt the count is computed from
\* NumBytesAvailable.  need is in bytes.
Read(need, ts, asked) ==
  /\ Callable
  /\ \/ /\ need = 0
        /\ Answered("read", "ok", "full")
     \/ /\ need > 0
        /\ clientfd = NoConn
        /\ Answered("read", "error", "unconnected")
     \/ /\ need > 0
        /\ clientfd # NoConn
        /\ Enter("read", need, ts, asked, timeout)
  /\ UNCHANGED <<objvars, netvars>>

ReadCount(cnt, ts) == Read(cnt * ts, ts, "count")
ReadDefault(ts) == Read(RoundDiv(NumBytesAvailable, ts) * ts, ts, "default")

\* flush (obj) or flush (obj, "input"): read and drop, with timeout 0.  Without
\* a client there is nothing to do; "output" never does anything.
Flush ==
  /\ Callable
  /\ IF clientfd = NoConn
     THEN Answered("flush", "flushed", "unconnected")
     ELSE Enter("flush", FlushChunk, 1, "none", 0)
  /\ UNCHANGED <<objvars, netvars>>

\* mutant of Return: flush reads once instead of until nothing is left.
ReturnFlushesOnce(b, n, why, cfd, waited) ==
  \/ /\ call.op = "read"
     /\ n % call.tosize = 0
     /\ Finish("ok", why, SubSeq(b, 1, n), waited)
  \/ /\ call.op = "read"
     /\ n % call.tosize # 0
     /\ Finish("error", "torn", << >>, waited)
  \/ /\ call.op = "flush"
     /\ Finish("flushed", why, << >>, waited)

\* octave_tcpserver::read returns n bytes of b, leaving cfd as the client.
\* read.m hands them over as elements of tosize bytes (typecast raises when an
\* element is torn); flush goes round again until a read returns nothing, and
\* the read it makes raises when the client is gone.
Return(b, n, why, cfd, waited) ==
  \/ /\ call.op = "read"
     /\ n % call.tosize = 0
     /\ Finish("ok", why, SubSeq(b, 1, n), waited)
  \/ /\ call.op = "read"
     /\ n % call.tosize # 0
     /\ Finish("error", "torn", << >>, waited)
  \/ /\ call.op = "flush"
     /\ n = 0
     /\ Finish("flushed", why, << >>, waited)
  \/ /\ call.op = "flush"
     /\ n > 0
     /\ cfd = NoConn
     /\ Finish("error", "unconnected", << >>, waited)
  \/ /\ call.op = "flush"
     /\ n > 0
     /\ cfd # NoConn
     /\ call' = [call EXCEPT !.n = 0, !.left = 0]
     /\ buf' = Fresh(FlushChunk)
     /\ UNCHANGED result

\* mutant of Received: every recv fills the buffer from its start.
ReceivedAtStart(k) ==
  [i \in 1 .. Len(buf) |->
     IF i \in 1 .. k THEN <<clientfd, taken[clientfd] + i>> ELSE buf[i]]

\* recv at offset n of the buffer: as much as is there and still asked for.
Received(k) ==
  [i \in 1 .. Len(buf) |->
     IF i \in (call.n + 1) .. (call.n + k)
     THEN <<clientfd, taken[clientfd] + (i - call.n)>>
     ELSE buf[i]]

DataReady == arrived[clientfd] > taken[clientfd]

RecvData ==
  /\ call.op # "idle"
  /\ DataReady
  /\ LET k == Smaller(call.need - call.n, arrived[clientfd] - taken[clientfd])
     IN /\ taken' = [taken EXCEPT ![clientfd] = @ + k]
        /\ \/ /\ call.n + k < call.need
              /\ call' = [call EXCEPT !.n = @ + k]
              /\ buf' = Received(k)
              /\ UNCHANGED result
           \/ /\ call.n + k >= call.need
              /\ Return(Received(k), call.n + k, "full", clientfd, call.waited)
  /\ UNCHANGED <<objvars, sent, arrived, end, ended>>

\* mutant of RecvEof: finding nothing to read is taken for the end of the stream.
RecvEofUnchecked ==
  /\ call.op # "idle"
  /\ ~DataReady
  /\ clientfd' = NoConn
  /\ Return(buf, call.n, "eof", NoConn, call.waited)
  /\ UNCHANGED <<handle, fd, remote_addr, timeout, byteswritten, sock, netvars>>

\* mutant of RecvEof: the end is seen only by a call that has read nothing yet.
RecvEofOnlyFirst ==
  /\ call.op # "idle"
  /\ call.n = 0
  /\ ~DataReady
  /\ clientfd \in ended
  /\ end[clientfd] = "fin"
  /\ clientfd' = NoConn
  /\ Return(buf, call.n, "eof", NoConn, call.waited)
  /\ UNCHANGED <<handle, fd, remote_addr, timeout, byteswritten, sock, netvars>>

\* recv returns 0: the client is forgotten, its socket is not closed, and the
\* bytes read so far are returned.
RecvEof ==
  /\ call.op # "idle"
  /\ ~DataReady
  /\ clientfd \in ended
  /\ end[clientfd] = "fin"
  /\ clientfd' = NoConn
  /\ Return(buf, call.n, "eof", NoConn, call.waited)
  /\ UNCHANGED <<handle, fd, remote_addr, timeout, byteswritten, sock, netvars>>

\* recv fails: the call raises, the client is kept; the kernel reports the
\* reset once and the end of the stream from then on.
RecvReset ==
  /\ call.op # "idle"
  /\ ~DataReady
  /\ clientfd \in ended
  /\ end[clientfd] = "rst"
  /\ end' = [end EXCEPT ![clientfd] = "fin"]
  /\ Finish("error", "reset", << >>, call.waited)
  /\ UNCHANGED <<objvars, sent, arrived, taken, ended>>

\* mutant of SelectExpires: the time is looked at before the data.
SelectExpiresFirst ==
  /\ call.op # "idle"
  /\ clientfd \notin ended
  /\ call.left >= 0
  /\ \/ /\ call.left <= Second
        /\ Return(buf, call.n, "timeout", clientfd, call.waited + Slice(call.left))
     \/ /\ call.left > Second
        /\ call' = [call EXCEPT !.left = @ - Second, !.waited = @ + Slice(call.left)]
        /\ UNCHANGED <<buf, result>>
  /\ UNCHANGED <<objvars, netvars>>

\* mutant of SelectExpires: a slice that passed is not taken off the timeout.
SelectExpiresForever ==
  /\ call.op # "idle"
  /\ ~DataReady
  /\ clientfd \notin ended
  /\ call.left >= 0
  /\ call.left <= Second
  /\ Return(buf, call.n, "timeout", clientfd, call.waited + Slice(call.left))
  /\ UNCHANGED <<objvars, netvars>>

\* select expires with nothing to read.  A negative timeout is never used up:
\* its expiry changes nothing and is left to stuttering.
SelectExpires ==
  /\ call.op # "idle"
  /\ ~DataReady
  /\ clientfd \notin ended
  /\ call.left >= 0
  /\ \/ /\ call.left <= Second
        /\ Return(buf, call.n, "timeout", clientfd, call.waited + Slice(call.left))
     \/ /\ call.left > Second
        /\ call' = [call EXCEPT !.left = @ - Second, !.waited = @ + Slice(call.left)]
        /\ UNCHANGED <<buf, result>>
  /\ UNCHANGED <<objvars, netvars>>

\* The user interrupts (OCTAVE_QUIT, or select failing with EINTR).
Interrupt ==
  /\ call.op # "idle"
  /\ Finish("error", "interrupt", << >>, call.waited)
  /\ UNCHANGED <<objvars, netvars>>

-----------------------------------------------------------------------------

Peers ==
  \E c \in Conn :
    \/ Connect(c)
    \/ PeerSend(c)
    \/ PeerEnd(c, "fin")
    \/ PeerEnd(c, "rst")
    \/ Arrive(c)

Program ==
  \/ \E t \in Timeouts : Construct(t) \/ SetTimeout(t)
  \/ Clear
  \/ Connected
  \/ Write(1)
  \/ \E ts \in ElementSizes : \E cnt \in Counts : ReadCount(cnt, ts)
  \/ \E ts \in ElementSizes : ReadDefault(ts)
  \/ Flush

\* The loop of octave_tcpserver::read.
ReadLoop == RecvData \/ RecvEof \/ RecvReset \/ SelectExpires

Next == Peers \/ Program \/ ReadLoop \/ Interrupt

Spec == Init /\ [][Next]_vars

\* A running call is scheduled: select returns when data is there or its wait
\* is over.  What was sent arrives.  The program and the user are not fair.
Fairness ==
  /\ WF_vars(ReadLoop)
  /\ \A c \in Conn : WF_vars(Arrive(c))

FairSpec == Spec /\ Fairness

-----------------------------------------------------------------------------
\* Properties

\* The bytes consumed by calls that have been answered: while a call runs, what
\* it has received so far is still undecided.
Mark == [c \in Conn |-> IF call.op # "idle" /\ c = clientfd THEN call.base ELSE taken[c]]

Stream == INSTANCE ByteStream
  WITH Source <- Conn, mark <- Mark,
       last <- [status |-> result.status, bytes |-> result.bytes]

\* The object implements the byte stream: through partial receives, timeouts,
\* ends of stream, reconnections and flushes, each read returns the bytes that
\* follow those consumed before, and bytes vanish only with a flush or an error.
ImplementsByteStream == Stream!Spec

\* A descriptor is given up without being closed only when its stream is over
\* and nothing of it is left to read: no live client is ever abandoned.
NoLiveClientAbandoned ==
  \A c \in Conn : sock[c] = "open" /\ c # clientfd =>
    /\ end[c] # "none"
    /\ taken[c] = sent[c]

\* A read that times out has waited exactly its timeout in empty selects,
\* however the wait was cut into slices, and one that waits forever does not.
TimeoutExact == result.why = "timeout" => result.tmo >= 0 /\ result.waited = result.tmo

\* A read of no more than NumBytesAvailable never waits and always gets it all,
\* unless the user interrupts it.
AvailableNeverWaits ==
  result.op = "read" /\ result.need <= result.avail =>
    /\ result.waited = 0
    /\ result.why \in {"full", "interrupt", "unconnected"}

\* After a read that ended with data and no end of stream, the connection that
\* a write goes to is the one the data came from: a reply reaches its requester
\* even if the program looks at Connected in between.
ReplyReachesRequester ==
  result.why \in {"full", "timeout"} /\ result.bytes # << >> =>
    clientfd = result.bytes[1][1]

\* A flush that returns normally has dropped everything that had arrived when
\* it was called.
FlushDrains ==
  [][call.op = "flush" /\ result'.status = "flushed" =>
       taken'[clientfd] >= call.base + call.avail]_vars

\* A read with a timeout returns.
TimedReadReturns == (call.op = "read" /\ call.left >= 0) ~> (call.op = "idle")

\* A read without a timeout returns once the peer has ended its stream.
EofEndsBlockingRead ==
  (call.op = "read" /\ clientfd \in Conn /\ end[clientfd] # "none") ~> (call.op = "idle")

\* tcpserver.cc documents ClientAddress and ClientPort as those of the
\* connected client.
ClientAddressIsClient == clientfd # NoConn => remote_addr = clientfd

=============================================================================
