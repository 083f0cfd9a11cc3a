------------------------------- MODULE Sockets -------------------------------
(***************************************************************************)
(* Reading and writing through the tcpclient, tcp and udp objects, and     *)
(* writing through the udpport object (its reads are the module UdpPort).  *)
(* The three reads are one loop written three times; what differs is what  *)
(* lies under it (a stream or datagrams), which timeout a caller passes    *)
(* down, and how the Octave methods count and loop.                        *)
(***************************************************************************)
EXTENDS Integers, Sequences

CONSTANTS
  Classes,       \* the classes looked at
  Sizes,         \* bytes that reach the socket at a time; 0: an empty datagram
  MaxArrivals,   \* bound: how often bytes reach the socket
  Timeouts,      \* timeouts a program asks for, in ms; negative ones wait forever
  Counts,        \* explicit element counts given to the reads
  ElementSizes,  \* bytes per element of the datatypes given to the reads
  Hosts,         \* names of hosts a program writes to that resolve
  Ports,         \* port numbers a program writes to
  MaxWritten     \* bound: writes counted in NumBytesWritten

ASSUME ClassAssumption == Classes \subseteq {"tcpclient", "tcp", "udp", "udpport"}
ASSUME NumberAssumption ==
  /\ Sizes \cup Counts \cup {MaxArrivals, MaxWritten} \subseteq Nat
  /\ ElementSizes \subseteq Nat \ {0}
  /\ Timeouts \subseteq Int
  /\ Ports \subseteq Int

VARIABLES
  class,         \* the object's class
  \* the socket
  arrivals,      \* how often bytes have reached it
  sent,          \* how many bytes have
  queue,         \* where each datagram not received yet ends; of a stream, one end
  peer,          \* the remote end of a stream: "open", "closed" or "reset"
  taken,         \* how many bytes recv has returned
  \* the object
  open,          \* fd holds a descriptor
  input,         \* udp: the bytes input_buffer holds
  timeout,       \* the timeout property, in ms
  remote,        \* udp, udpport: where datagrams go, remote_addr
  byteswritten,  \* tcpclient, udpport: what send has taken, one byte a write
  \* the running call
  call, buf, result

socketvars == <<arrivals, sent, queue, peer, taken>>
objectvars == <<open, input, timeout, remote, byteswritten>>
vars == <<class, arrivals, sent, queue, peer, taken, open, input, timeout, remote,
          byteswritten, call, buf, result>>

-----------------------------------------------------------------------------

Net == "net"
Stream == class \in {"tcpclient", "tcp"}

Broadcast == "255.255.255.255"   \* INADDR_NONE, what inet_addr returns for no address
Unknown == "unknown"             \* a name that does not resolve
ASSUME HostAssumption == Unknown \notin Hosts
AnyHost == "0.0.0.0"

Smaller(x, y) == IF x <= y THEN x ELSE y

\* int32 (x / s): Octave rounds to the nearest integer, halves upwards.
RoundDiv(x, s) == (2 * x + s) \div (2 * s)

Idle == [op |-> "idle", need |-> 0, got |-> 0, tosize |-> 1, tmo |-> 0, left |-> 0,
         waited |-> 0, base |-> 0]

Answer(op, status, why) ==
  [op |-> op, status |-> status, why |-> why, bytes |-> << >>, need |-> 0, tmo |-> 0,
   waited |-> 0]

\* FIONREAD
NextSize == IF queue = << >> THEN 0 ELSE Head(queue) - taken

\* octave_tcpclient::get_numbytesavailable, octave_tcp::get_bytesavailable
StreamAvailable == IF open THEN NextSize ELSE 0

\* octave_udp::get_bytesavailable: what is left over hides what is queued.
DatagramAvailable ==
  CASE ~open -> 0
    [] open /\ input # << >> -> Len(input)
    [] OTHER -> NextSize

Available == IF Stream THEN StreamAvailable ELSE DatagramAvailable

\* The bytes that have left the object.
Consumed == taken - Len(input)

\* lookup_addr, in_addr_t in the end.
Resolve(h) == IF h = Unknown THEN Broadcast ELSE h

\* htons: a port is 16 bits wide.
MaxPort == 65535
AsPort(p) == p % (MaxPort + 1)

Init ==
  /\ class \in Classes
  /\ arrivals = 0
  /\ sent = 0
  /\ queue = << >>
  /\ peer = "open"
  /\ taken = 0
  /\ open = TRUE
  /\ input = << >>
  /\ timeout = -1
  /\ remote = IF class = "udp" THEN [host |-> "127.0.0.1", port |-> 23]
              ELSE [host |-> AnyHost, port |-> 0]
  /\ byteswritten = 0
  /\ call = Idle
  /\ buf = << >>
  /\ result = Answer("none", "none", "none")

-----------------------------------------------------------------------------
\* The network (external)

\* n bytes reach the socket: the next of a stream, or a datagram.
Arrive(n) ==
  /\ open /\ class # "udpport"
  /\ arrivals < MaxArrivals
  /\ peer = "open"
  /\ Stream => n > 0
  /\ arrivals' = arrivals + 1
  /\ sent' = sent + n
  /\ queue' = IF Stream THEN <<sent + n>> ELSE Append(queue, sent + n)
  /\ UNCHANGED <<class, peer, taken, objectvars, call, buf, result>>

\* The remote end of a stream closes it, or resets it and what waits is lost.
PeerEnds(how) ==
  /\ Stream /\ peer = "open"
  /\ peer' = how
  /\ queue' = IF how = "reset" THEN << >> ELSE queue
  /\ UNCHANGED <<class, arrivals, sent, taken, objectvars, call, buf, result>>

-----------------------------------------------------------------------------
\* Calls that read

Callable == call.op = "idle"

\* The program gets an answer without the object changing.
Tell(answer) ==
  /\ result' = answer
  /\ UNCHANGED <<class, socketvars, objectvars, call, buf>>

\* octave_tcp::read, octave_tcpclient::read, octave_udp::read (buf, need, tmo).
Enter(op, need, ts, tmo) ==
  /\ Callable /\ class # "udpport"
  /\ \/ ~open /\ Tell(Answer(op, "error", "closed"))
     \/ open /\ need = 0 /\ Tell(Answer(op, "ok", "full"))
     \/ /\ open /\ need > 0
        /\ call' = [op |-> op, need |-> need, got |-> 0, tosize |-> ts, tmo |-> tmo,
                    left |-> tmo, waited |-> 0, base |-> Consumed]
        /\ result' = Answer("none", "none", "none")
        /\ UNCHANGED <<class, socketvars, objectvars, buf>>

\* read (obj, cnt, datatype) of tcpclient calls nothing when cnt is 0; without
\* cnt it counts the elements that are there.
TcpclientRead(cnt, ts) ==
  /\ class = "tcpclient"
  /\ \/ cnt = 0 /\ Callable /\ Tell(Answer("read", "ok", "full"))
     \/ cnt > 0 /\ Enter("read", cnt * ts, ts, timeout)
TcpclientReadAvailable(ts) == TcpclientRead(RoundDiv(Available, ts), ts)

\* read (obj, cnt, datatype) of tcp and udp; without cnt they ask for as many
\* bytes as elements are there.
ReadCount(cnt, ts) == class # "tcpclient" /\ Enter("read", cnt * ts, ts, timeout)
ReadAvailable(ts) ==
  class # "tcpclient" /\ Enter("read", RoundDiv(Available, ts), ts, timeout)

\* tcp_read, udp_read and __tcpclient_read__ with a timeout.
ReadFor(n, tmo) == Enter("read", n, 1, tmo)

\* The same without one.  The property is in seconds: two of them multiply it by
\* 1000, and tcp_read takes it for ms as it is.
TcpDefault == IF timeout >= 0 THEN timeout \div 1000 ELSE timeout
TcpclientReadByDefault(n) == class = "tcpclient" /\ Enter("read", n, 1, timeout)
TcpReadByDefault(n) == class = "tcp" /\ Enter("read", n, 1, TcpDefault)
UdpReadByDefault(n) == class = "udp" /\ Enter("read", n, 1, timeout)

\* fread (obj, size, precision) of tcp and udp: reads until a read brings nothing.
Fread(n, ts) == class \in {"tcp", "udp"} /\ Enter("fread", n * ts, ts, timeout)

\* flush (obj): read and drop 1024 bytes at a time, with timeout 0.
Flush ==
  \/ open /\ Enter("flush", 1024, 1, 0)
  \/ Callable /\ ~open /\ Tell(Answer("flush", "flushed", "closed"))

\* The running call returns.
Finish(status, why, bytes, waited) ==
  /\ result' = [op |-> call.op, status |-> status, why |-> why, bytes |-> bytes,
                need |-> call.need, tmo |-> call.tmo, waited |-> waited]
  /\ call' = Idle
  /\ buf' = << >>

\* The loop ends with b read: flush and fread go round again while bytes come,
\* and typecast raises over a torn element.
Return(b, why, waited) ==
  CASE call.op = "flush" /\ b # << >> ->
         buf' = << >> /\ UNCHANGED <<call, result>>
    [] call.op = "flush" /\ b = << >> -> Finish("flushed", why, << >>, waited)
    [] call.op = "fread" /\ Len(b) < call.need /\ Len(b) > call.got ->
         /\ call' = [call EXCEPT !.got = Len(b), !.left = call.tmo, !.waited = 0]
         /\ buf' = b
         /\ UNCHANGED result
    [] OTHER ->
         IF Len(b) % call.tosize = 0 THEN Finish("ok", why, b, waited)
         ELSE Finish("error", "torn", << >>, waited)

\* The loop goes on with b read, or ends when that is all.
Got(b) ==
  IF Len(b) < call.need THEN buf' = b /\ UNCHANGED <<call, result>>
  ELSE Return(b, "full", call.waited)

Wanted == call.need - Len(buf)
Bytes(i, n) == [k \in 1 .. n |-> <<Net, i + k>>]

\* mutant of Receive: recv is given the start of the caller's buffer each time.
ReceiveOver ==
  /\ call.op # "idle" /\ Stream
  /\ queue # << >>
  /\ LET k == Smaller(Wanted, NextSize)
     IN /\ taken' = taken + k
        /\ queue' = IF k = NextSize THEN << >> ELSE queue
        /\ Got(Bytes(taken, k) \o SubSeq(Bytes(taken, Len(buf) + k), k + 1, Len(buf) + k))
  /\ UNCHANGED <<class, arrivals, sent, peer, objectvars>>

\* recv returns bytes of a stream.
Receive ==
  /\ call.op # "idle" /\ Stream
  /\ queue # << >>
  /\ LET k == Smaller(Wanted, NextSize)
     IN /\ taken' = taken + k
        /\ queue' = IF k = NextSize THEN << >> ELSE queue
        /\ Got(buf \o Bytes(taken, k))
  /\ UNCHANGED <<class, arrivals, sent, peer, objectvars>>

\* mutant of ReceiveEnd: the end of a stream ends the loop.
ReceiveEndQuietly ==
  /\ call.op # "idle"
  /\ queue = << >> /\ peer # "open"
  /\ Return(buf, "end", call.waited)
  /\ UNCHANGED <<class, socketvars, objectvars>>

\* recv returns 0 at the end of a stream, or fails on one that was reset: the
\* call raises, and what it had read is lost.
ReceiveEnd ==
  /\ call.op # "idle"
  /\ queue = << >> /\ peer # "open"
  /\ Finish("error", "lost", << >>, call.waited)
  /\ UNCHANGED <<class, socketvars, objectvars>>

\* Bytes move from what input_buffer holds to the caller's buffer.
Copy(data) ==
  LET k == Smaller(Wanted, Len(data))
  IN /\ input' = SubSeq(data, k + 1, Len(data))
     /\ Got(buf \o SubSeq(data, 1, k))

\* A round that finds bytes in input_buffer.
CopyLeftover ==
  /\ call.op # "idle"
  /\ input # << >>
  /\ Copy(input)
  /\ UNCHANGED <<class, socketvars, open, timeout, remote, byteswritten>>

\* A round that receives a datagram, for which input_buffer grows if it must.
ReceiveDatagram ==
  /\ call.op # "idle" /\ class = "udp"
  /\ input = << >> /\ NextSize > 0
  /\ Copy(Bytes(taken, NextSize))
  /\ taken' = taken + NextSize
  /\ queue' = Tail(queue)
  /\ UNCHANGED <<class, arrivals, sent, peer, open, timeout, remote,
                 byteswritten>>

\* A round that receives an empty datagram: "Connection lost" is raised.
ReceiveEmpty ==
  /\ call.op # "idle" /\ class = "udp"
  /\ input = << >> /\ queue # << >> /\ NextSize = 0
  /\ queue' = Tail(queue)
  /\ Finish("error", "empty", << >>, call.waited)
  /\ UNCHANGED <<class, arrivals, sent, peer, taken, objectvars>>

\* mutant of SelectExpires: a second that expired is not taken off the timeout.
SelectExpiresAgain ==
  /\ call.op # "idle"
  /\ input = << >> /\ queue = << >> /\ peer = "open"
  /\ call.left >= 0
  /\ \/ call.left <= 1000 /\ Return(buf, "timeout", call.waited + call.left)
     \/ call.left > 1000 /\ UNCHANGED <<call, buf, result>>
  /\ UNCHANGED <<class, socketvars, objectvars>>

\* select expires, after a second at most.  A negative timeout is never used up:
\* its expiry changes nothing and is left to stuttering.
SelectExpires ==
  /\ call.op # "idle"
  /\ input = << >> /\ queue = << >> /\ peer = "open"
  /\ call.left >= 0
  /\ \/ call.left <= 1000 /\ Return(buf, "timeout", call.waited + call.left)
     \/ /\ call.left > 1000
        /\ call' = [call EXCEPT !.left = @ - 1000, !.waited = @ + 1000]
        /\ UNCHANGED <<buf, result>>
  /\ UNCHANGED <<class, socketvars, objectvars>>

\* The user interrupts (OCTAVE_QUIT, or select failing with EINTR).
Interrupt ==
  /\ call.op # "idle"
  /\ Finish("error", "interrupt", << >>, call.waited)
  /\ UNCHANGED <<class, socketvars, objectvars>>

-----------------------------------------------------------------------------
\* Calls that set and write

\* A call that ends with an answer, leaving where datagrams go at to.
Set(answer, to) ==
  /\ Callable
  /\ result' = answer
  /\ remote' = to
  /\ UNCHANGED <<class, socketvars, open, input, timeout, byteswritten, call, buf>>

\* A call that changes the timeout, or raises when fd is closed or t refused.
SetTimeout(t, refused) ==
  /\ Callable /\ class # "udpport"
  /\ timeout' = IF open /\ ~refused THEN t ELSE timeout
  /\ result' = Answer("set", IF open /\ ~refused THEN "ok" ELSE "error", "set")
  /\ UNCHANGED <<class, socketvars, open, input, remote, byteswritten, call, buf>>

\* The timeout property (in seconds): -1 is the only negative one.
TimeoutProperty(t) == SetTimeout(t, t < -1)

\* tcp_timeout and udp_timeout (in ms): every negative one is -1.
TimeoutFunction(t) ==
  class \in {"tcp", "udp"} /\ SetTimeout(IF t < 0 THEN -1 ELSE t, FALSE)

\* octave_udp::set_remote_addr looks a name up into the address itself.
HostSet(to, h) == [to EXCEPT !.host = Resolve(h)]
SetRemoteHost(h) ==
  /\ class = "udp"
  /\ Set(Answer("set", IF h = Unknown THEN "error" ELSE "ok", "set"), HostSet(remote, h))

\* octave_udp::set_remote_port
PortSet(to, p) == IF p < 0 THEN to ELSE [to EXCEPT !.port = AsPort(p)]
SetRemotePort(p) ==
  /\ class = "udp"
  /\ Set(Answer("set", IF p < 0 THEN "error" ELSE "ok", "set"), PortSet(remote, p))

\* send or sendto fails: the call answers with a count of -1, and no error.
SendFails(to) == open /\ Set(Answer("write", "ok", "failed"), to)
NotOpen(to) == ~open /\ Set(Answer("write", "error", "closed"), to)

\* octave_tcp::write, octave_udp::write
Send(to) ==
  \/ open /\ Set(Answer("write", "ok", "sent"), to)
  \/ SendFails(to)
  \/ NotOpen(to)

\* octave_tcpclient::write, octave_udpport::write: what was taken is counted.
SendCounted(to) ==
  \/ /\ Callable /\ open
     /\ byteswritten < MaxWritten
     /\ byteswritten' = byteswritten + 1
     /\ remote' = to
     /\ result' = Answer("write", "ok", "sent")
     /\ UNCHANGED <<class, socketvars, open, input, timeout, call, buf>>
  \/ SendFails(to)
  \/ NotOpen(to)

\* write, fwrite and fprintf of tcp and udp; write of tcpclient.
TcpWrite == class \in {"tcp", "udp"} /\ Send(remote)
TcpclientWrite == class = "tcpclient" /\ SendCounted(remote)

\* mutant of UdpWriteTo: the handler restores the port and not the host.
UdpWriteToPortBack(h, p) ==
  /\ class = "udp"
  /\ IF h = Unknown \/ p < 0
     THEN Set(Answer("write", "error", "destination"),
              [HostSet(remote, h) EXCEPT !.port = remote.port])
     ELSE Send(PortSet(HostSet(remote, h), p))

\* write (obj, data, datatype, h, p) of udp sets the object's own remote host and
\* port, and sets the old ones again when one of the setters raises.
UdpWriteTo(h, p) ==
  /\ class = "udp"
  /\ IF h = Unknown
     THEN Set(Answer("write", "error", "destination"),
              PortSet(HostSet(HostSet(remote, h), remote.host), remote.port))
     ELSE IF p < 0
     THEN Set(Answer("write", "error", "destination"),
              PortSet(HostSet(PortSet(HostSet(remote, h), p), remote.host), remote.port))
     ELSE Send(PortSet(HostSet(remote, h), p))

\* write of udpport: a destination that is given replaces the old one, whether it
\* resolves or not, and one that was never given is missed by its port.
UdpportWriteTo(h, p) ==
  class = "udpport" /\ SendCounted([host |-> Resolve(h), port |-> AsPort(p)])
UdpportWrite ==
  /\ class = "udpport"
  /\ IF remote.port = 0 THEN Set(Answer("write", "error", "destination"), remote)
     ELSE SendCounted(remote)

\* fclose: tcp_close and udp_close.
Close ==
  /\ Callable /\ open
  /\ class \in {"tcp", "udp"}
  /\ open' = FALSE
  /\ result' = Answer("set", "ok", "set")
  /\ UNCHANGED <<class, socketvars, input, timeout, remote, byteswritten, call, buf>>

-----------------------------------------------------------------------------

ReadLoop ==
  \/ Receive \/ ReceiveEnd
  \/ CopyLeftover \/ ReceiveDatagram \/ ReceiveEmpty
  \/ SelectExpires

Reads ==
  \/ \E ts \in ElementSizes : \E cnt \in Counts :
       TcpclientRead(cnt, ts) \/ ReadCount(cnt, ts) \/ Fread(cnt, ts)
  \/ \E ts \in ElementSizes : TcpclientReadAvailable(ts) \/ ReadAvailable(ts)
  \/ \E n \in Counts :
       TcpclientReadByDefault(n) \/ TcpReadByDefault(n) \/ UdpReadByDefault(n)
  \/ \E n \in Counts : \E t \in Timeouts : ReadFor(n, t)
  \/ Flush

Writes ==
  \/ TcpWrite \/ TcpclientWrite \/ UdpportWrite
  \/ \E h \in Hosts \cup {Unknown} : \E p \in Ports : UdpWriteTo(h, p) \/ UdpportWriteTo(h, p)

Next ==
  \/ \E n \in Sizes : Arrive(n)
  \/ \E how \in {"closed", "reset"} : PeerEnds(how)
  \/ Reads
  \/ Writes
  \/ \E t \in Timeouts : TimeoutProperty(t) \/ TimeoutFunction(t)
  \/ \E h \in Hosts \cup {Unknown} : SetRemoteHost(h)
  \/ \E p \in Ports : SetRemotePort(p)
  \/ Close
  \/ ReadLoop
  \/ Interrupt

Spec == Init /\ [][Next]_vars

\* A running call is scheduled; the network, the program and the user are not fair.
FairSpec == Spec /\ WF_vars(ReadLoop)

-----------------------------------------------------------------------------
\* Types

Byte == {Net} \X Nat
Calls == {"read", "fread", "flush"}
Address == [host : Hosts \cup {Broadcast, AnyHost, "127.0.0.1"}, port : 0 .. MaxPort]
CallType ==
  [op : Calls \cup {"idle"}, need : Nat, got : Nat, tosize : Nat \ {0}, tmo : Int,
   left : Int, waited : Nat, base : Nat]
Reason ==
  {"none", "full", "timeout", "torn", "lost", "empty", "interrupt", "closed", "set", "sent",
   "failed", "destination"}
ResultType ==
  [op : Calls \cup {"none", "set", "write"}, status : {"none", "ok", "flushed", "error"},
   why : Reason, bytes : Seq(Byte), need : Nat, tmo : Int, waited : Nat]

TypeOK ==
  /\ class \in Classes
  /\ {arrivals, sent, taken, byteswritten} \subseteq Nat
  /\ queue \in Seq(Nat)
  /\ peer \in {"open", "closed", "reset"}
  /\ open \in BOOLEAN
  /\ input \in Seq(Byte)
  /\ timeout \in Int
  /\ remote \in Address
  /\ call \in CallType
  /\ buf \in Seq(Byte)
  /\ result \in ResultType

-----------------------------------------------------------------------------
\* Properties

\* The bytes consumed by calls that have been answered.
Mark == IF call.op = "idle" THEN Consumed ELSE call.base

Promise == INSTANCE ByteStream
  WITH Source <- {Net}, sent <- [s \in {Net} |-> sent], mark <- [s \in {Net} |-> Mark],
       last <- [status |-> result.status, bytes |-> result.bytes]

\* Over a stream and over datagrams alike, octave_tcpclient, octave_tcp and
\* octave_udp hand over the bytes that arrive in order, each once, and lose some
\* only with an error or a flush: in read, in fread's loop, whatever is left over.
ImplementsByteStream == Promise!Spec

\* A read that comes back with fewer bytes than asked for has spent, in waits that brought
\* nothing, all of the timeout the loop was given (fread gives each round its own; a wait cut
\* short by bytes is not counted): neither the end of a stream, a closed object nor a torn
\* element passes for silence.
ShortReadWaited ==
  result.status = "ok" /\ Len(result.bytes) < result.need =>
    result.tmo >= 0 /\ result.waited = result.tmo

\* A read or fread with a timeout returns, however the bytes come.
TimedReadsReturn ==
  (call.op \in {"read", "fread"} /\ call.left >= 0) ~> (call.op = "idle")

\* A write of udp or udpport that raises leaves later writes going where they went before:
\* the setters it has called by then are undone.  A write of udp that does not raise has not
\* taken a name that resolves to nothing for its destination.  One of udpport has, which
\* looks the name up and not at the outcome: then it, and those after it that name no
\* destination, go to 255.255.255.255, and to no other place that was not named.
WritesKeepDestination ==
  [][open /\ result'.op = "write" =>
       /\ result'.status = "error" => remote' = remote
       /\ \/ remote'.host \in Hosts \cup {remote.host}
          \/ class = "udpport" /\ remote'.host = Broadcast]_vars

=============================================================================
