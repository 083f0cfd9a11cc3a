---------------------------- MODULE Sockets_proofs --------------------------
(***************************************************************************)
(* Proofs about Sockets, for arrivals, reads and timeouts of any size and  *)
(* any hosts and ports written to.                                         *)
(***************************************************************************)
EXTENDS Sockets, TLAPS

-----------------------------------------------------------------------------
\* The inductive invariant, part by part

\* s is the piece of the socket's stream that follows its i-th byte.
Piece(s, i) ==
  /\ s \in Seq(Byte)
  /\ \A x \in 1 .. Len(s) : s[x] = <<Net, i + x>>

\* What waits on the socket lies end to end between the bytes taken and those sent.
QueueInv ==
  /\ taken <= sent
  /\ \A i \in 1 .. Len(queue) : taken <= queue[i] /\ queue[i] <= sent
  /\ \A i, j \in 1 .. Len(queue) : i <= j => queue[i] <= queue[j]

\* What input_buffer holds was taken last, and only datagrams leave something in it.
InputInv ==
  /\ Consumed >= 0
  /\ Piece(input, Consumed)
  /\ Stream => input = << >>

\* A running call still lacks bytes and has told the program nothing yet; what a read
\* or fread has is all that was consumed since it began.
CallInv ==
  /\ call.op = "idle" => buf = << >>
  /\ call.op # "idle" =>
       /\ result = Answer("none", "none", "none")
       /\ Len(buf) < call.need
       /\ call.base + Len(buf) <= Consumed
       /\ call.op # "flush" => Piece(buf, call.base) /\ call.base + Len(buf) = Consumed

\* What a call has waited since the last byte fread got and what it may still wait make
\* up the timeout it was given.
WaitInv ==
  call.op # "idle" =>
    /\ call.tmo >= 0 => call.left >= 0 /\ call.waited + call.left = call.tmo
    /\ call.tmo < 0 => call.left < 0

IInv ==
  /\ TypeOK
  /\ QueueInv
  /\ InputInv
  /\ CallInv
  /\ WaitInv
  /\ ShortReadWaited

-----------------------------------------------------------------------------
\* Facts about the operators

LEMMA RoundDivNat ==
  ASSUME NEW x \in Nat, NEW s \in Nat \ {0}
  PROVE  RoundDiv(x, s) \in Nat
  <1>1. 2 * x + s \in Nat /\ 2 * s \in Nat \ {0}
    OBVIOUS
  <1> QED BY <1>1 DEF RoundDiv

LEMMA ProductNat ==
  ASSUME NEW x \in Nat, NEW s \in Nat
  PROVE  x * s \in Nat
  OBVIOUS

LEMMA IdleType == Idle \in CallType
  BY DEF Idle, CallType

\* A piece cut in two.
LEMMA CutPiece ==
  ASSUME NEW i \in Nat, NEW s, Piece(s, i), NEW k \in 0 .. Len(s)
  PROVE  /\ Piece(SubSeq(s, 1, k), i) /\ Len(SubSeq(s, 1, k)) = k
         /\ Piece(SubSeq(s, k + 1, Len(s)), i + k)
         /\ Len(SubSeq(s, k + 1, Len(s))) = Len(s) - k
  <1>1. s \in Seq(Byte) /\ Len(s) \in Nat
    BY DEF Piece
  <1>2. SubSeq(s, 1, k) \in Seq(Byte) /\ Len(SubSeq(s, 1, k)) = k
        /\ \A x \in 1 .. k : SubSeq(s, 1, k)[x] = s[x]
    BY <1>1
  <1>3. SubSeq(s, k + 1, Len(s)) \in Seq(Byte) /\ Len(SubSeq(s, k + 1, Len(s))) = Len(s) - k
        /\ \A x \in 1 .. Len(s) - k : SubSeq(s, k + 1, Len(s))[x] = s[k + x]
    BY <1>1
  <1>4. ASSUME NEW x \in 1 .. Len(s) - k PROVE s[k + x] = <<Net, (i + k) + x>>
    <2>1. k + x \in 1 .. Len(s) /\ i + (k + x) = (i + k) + x
      BY <1>1
    <2> QED BY <2>1 DEF Piece
  <1>5. Piece(SubSeq(s, 1, k), i)
    BY <1>1, <1>2 DEF Piece
  <1>6. Piece(SubSeq(s, k + 1, Len(s)), i + k)
    BY <1>1, <1>3, <1>4 DEF Piece
  <1> QED BY <1>2, <1>3, <1>5, <1>6

\* Two pieces of the stream put together.
LEMMA JoinPieces ==
  ASSUME NEW i \in Nat, NEW s, NEW t, Piece(s, i), Piece(t, i + Len(s))
  PROVE  Piece(s \o t, i) /\ Len(s \o t) = Len(s) + Len(t)
  <1>1. s \in Seq(Byte) /\ t \in Seq(Byte)
    BY DEF Piece
  <1>2. s \o t \in Seq(Byte) /\ Len(s \o t) = Len(s) + Len(t)
    BY <1>1
  <1>3. ASSUME NEW x \in 1 .. Len(s \o t) PROVE (s \o t)[x] = <<Net, i + x>>
    <2>1. CASE x <= Len(s)
      BY <2>1, <1>1, <1>2 DEF Piece
    <2>2. CASE x > Len(s)
      <3>1. (s \o t)[x] = t[x - Len(s)] /\ x - Len(s) \in 1 .. Len(t)
        BY <2>2, <1>1, <1>2
      <3>2. (i + Len(s)) + (x - Len(s)) = i + x
        BY <1>1, <1>2
      <3> QED BY <3>1, <3>2 DEF Piece
    <2> QED BY <1>1, <1>2, <2>1, <2>2
  <1> QED BY <1>2, <1>3 DEF Piece

\* The bytes that recv returns are a piece of the stream.
LEMMA BytesPiece ==
  ASSUME NEW i \in Nat, NEW n \in Nat
  PROVE  Piece(Bytes(i, n), i) /\ Len(Bytes(i, n)) = n
  <1>1. \A k \in 1 .. n : <<Net, i + k>> \in Byte
    BY DEF Byte
  <1> QED BY <1>1 DEF Bytes, Piece

LEMMA HostSetIs ==
  ASSUME NEW x, NEW y, NEW g
  PROVE  HostSet([host |-> x, port |-> y], g) = [host |-> Resolve(g), port |-> y]
  BY DEF HostSet

LEMMA PortSetIs ==
  ASSUME NEW x, NEW y, NEW q
  PROVE  PortSet([host |-> x, port |-> y], q) =
           [host |-> x, port |-> IF q < 0 THEN y ELSE AsPort(q)]
  BY DEF PortSet

\* A port has 16 bits, and one that has is stored as it is.
LEMMA AsPortType ==
  ASSUME NEW q \in Int
  PROVE  AsPort(q) \in 0 .. MaxPort /\ (q \in 0 .. MaxPort => AsPort(q) = q)
  <1> DEFINE m == MaxPort + 1
  <1>1. m \in Nat \ {0} /\ MaxPort = m - 1
    BY DEF MaxPort
  <1> HIDE DEF m
  <1>2. q \div m \in Int /\ q % m \in 0 .. m - 1 /\ q = m * (q \div m) + (q % m)
    BY <1>1
  <1>3. q \in 0 .. m - 1 => q % m = q
    BY <1>1
  <1> QED BY <1>1, <1>2, <1>3 DEF AsPort, m

\* Looking a name up never stores one that does not resolve: what a write has set can
\* be set back to what it was.
LEMMA DestinationType ==
  ASSUME NEW to \in Address, NEW h \in Hosts \cup {Unknown}, NEW p \in Int
  PROVE  /\ HostSet(to, h) \in Address /\ PortSet(to, p) \in Address
         /\ [host |-> Resolve(h), port |-> AsPort(p)] \in Address
         /\ HostSet(HostSet(to, h), to.host) = to
         /\ PortSet(to, to.port) = to
         /\ HostSet(PortSet(HostSet(to, h), p), to.host) = PortSet(to, p)
  <1> DEFINE x == to.host
             y == to.port
  <1>1. /\ Resolve(h) \in Hosts \cup {Broadcast}
        /\ AsPort(p) \in 0 .. MaxPort
    BY AsPortType DEF Resolve
  <1>2. /\ to = [host |-> x, port |-> y] /\ y \in 0 .. MaxPort
        /\ x \in Hosts \cup {Broadcast, AnyHost, "127.0.0.1"}
    BY DEF Address
  <1> HIDE DEF x, y
  <1>3. Resolve(x) = x
    BY <1>2, HostAssumption DEF Resolve, Unknown, Broadcast, AnyHost
  <1>4. AsPort(y) = y /\ ~ (y < 0)
    BY <1>2, AsPortType
  <1>5. HostSet(to, h) = [host |-> Resolve(h), port |-> y]
    BY <1>2, HostSetIs
  <1>6. PortSet(to, p) = [host |-> x, port |-> IF p < 0 THEN y ELSE AsPort(p)]
    BY <1>2, PortSetIs
  <1>7. HostSet(HostSet(to, h), x) = to
    BY <1>2, <1>3, <1>5, HostSetIs
  <1>8. PortSet(to, y) = to
    BY <1>2, <1>4, PortSetIs
  <1>9. HostSet(PortSet(HostSet(to, h), p), x) = PortSet(to, p)
    <2>1. PortSet(HostSet(to, h), p) =
            [host |-> Resolve(h), port |-> IF p < 0 THEN y ELSE AsPort(p)]
      BY <1>5, PortSetIs
    <2> QED BY <2>1, <1>3, <1>6, HostSetIs
  <1>10. /\ HostSet(to, h) \in Address /\ PortSet(to, p) \in Address
         /\ [host |-> Resolve(h), port |-> AsPort(p)] \in Address
    BY <1>1, <1>2, <1>5, <1>6 DEF Address
  <1> QED BY <1>7, <1>8, <1>9, <1>10 DEF x, y

-----------------------------------------------------------------------------
\* What every step keeps: the invariant, and the promise of the byte stream

NetSent == [s \in {Net} |-> sent]
NetMark == [s \in {Net} |-> Mark]
Last == [status |-> result.status, bytes |-> result.bytes]

StreamStep == [Promise!Next]_<<NetSent, NetMark, Last>>

Kept == IInv' /\ StreamStep

LEMMA InitIInv == Init => IInv /\ Promise!Init
  <1> SUFFICES ASSUME Init PROVE IInv /\ Promise!Init
    OBVIOUS
  <1>1. class \in {"tcpclient", "tcp", "udp", "udpport"}
    BY ClassAssumption DEF Init
  <1>2. /\ Idle.op = "idle" /\ << >> \in Seq(Byte) /\ Len(input) = 0 /\ Consumed = 0
        /\ result = [op |-> "none", status |-> "none", why |-> "none", bytes |-> << >>,
                     need |-> 0, tmo |-> 0, waited |-> 0]
    <2>1. taken = 0 /\ input = << >> /\ << >> \in Seq(Byte) /\ Idle.op = "idle"
      BY DEF Init, Idle
    <2>2. Len(input) = 0
      BY <2>1
    <2>3. Consumed = 0
      <3>1. PICK i \in Nat, j \in Nat : i = taken /\ j = Len(input)
        BY <2>1, <2>2
      <3>2. i - j = 0
        BY <2>1, <2>2, <3>1
      <3> QED BY <3>1, <3>2 DEF Consumed
    <2> QED BY <2>1, <2>2, <2>3 DEF Init, Answer
  <1>3. TypeOK
    <2>1. result \in ResultType
      BY <1>2 DEF ResultType, Reason
    <2>2. remote \in Address
      BY DEF Init, Address, AnyHost, Broadcast, MaxPort
    <2> QED BY <2>1, <2>2, IdleType DEF Init, TypeOK
  <1>4. QueueInv /\ InputInv
    BY <1>2 DEF Init, QueueInv, InputInv, Piece
  <1>5. CallInv /\ WaitInv /\ ShortReadWaited
    BY <1>2 DEF Init, CallInv, WaitInv, ShortReadWaited
  <1>6. Promise!Init
    BY <1>2 DEF Init, Promise!Init, Promise!Answer, Mark
  <1> QED BY <1>3, <1>4, <1>5, <1>6 DEF IInv

\* What the socket and the object are known to be.
LEMMA Known ==
  ASSUME IInv
  PROVE  /\ sent \in Nat /\ taken \in Nat /\ taken <= sent
         /\ queue \in Seq(Nat) /\ Len(queue) \in Nat
         /\ input \in Seq(Byte) /\ Len(input) \in Nat
         /\ Consumed \in Nat /\ Consumed = taken - Len(input) /\ Consumed <= sent
         /\ Piece(input, Consumed)
         /\ NextSize \in Nat /\ taken + NextSize <= sent
         /\ queue # << >> => taken + NextSize = queue[1]
         /\ Available \in Nat
         /\ call \in CallType
  <1>1. /\ sent \in Nat /\ taken \in Nat /\ taken <= sent
        /\ queue \in Seq(Nat) /\ Len(queue) \in Nat
        /\ input \in Seq(Byte) /\ Len(input) \in Nat
        /\ call \in CallType
    BY DEF IInv, TypeOK, QueueInv
  <1>2. Consumed = taken - Len(input) /\ Consumed \in Nat /\ Consumed <= sent
    BY <1>1 DEF IInv, InputInv, Consumed
  <1>3. NextSize \in Nat /\ taken + NextSize <= sent
        /\ (queue # << >> => taken + NextSize = queue[1])
    <2>1. CASE queue = << >>
      BY <1>1, <2>1 DEF NextSize
    <2>2. CASE queue # << >>
      <3>1. /\ 1 \in 1 .. Len(queue) /\ Head(queue) = queue[1] /\ queue[1] \in Nat
        BY <1>1, <2>2
      <3>2. taken <= queue[1] /\ queue[1] <= sent
        BY <3>1 DEF IInv, QueueInv
      <3> QED BY <1>1, <2>2, <3>1, <3>2 DEF NextSize
    <2> QED BY <2>1, <2>2
  <1>4. Available \in Nat
    BY <1>1, <1>3 DEF Available, StreamAvailable, DatagramAvailable
  <1> QED BY <1>1, <1>2, <1>3, <1>4 DEF IInv, InputInv

\* The abstract mark and count have one entry.
LEMMA OneSource ==
  ASSUME NEW i, NEW j
  PROVE  [[s \in {Net} |-> i] EXCEPT ![Net] = j] = [s \in {Net} |-> j]
  OBVIOUS

\* A piece of the stream is a segment of the abstract one.
LEMMA PieceIsSegment ==
  ASSUME NEW i \in Nat, NEW s, Piece(s, i)
  PROVE  s = Promise!Segment(Net, i, i + Len(s))
  <1> DEFINE t == [k \in 1 .. Len(s) |-> <<Net, i + k>>]
  <1>1. s \in Seq(Byte) /\ Len(s) \in Nat /\ DOMAIN s = 1 .. Len(s)
    BY DEF Piece
  <1>2. s = [k \in 1 .. Len(s) |-> s[k]]
    BY <1>1
  <1>3. [k \in 1 .. Len(s) |-> s[k]] = t
    BY DEF Piece
  <1>4. Promise!Segment(Net, i, i + Len(s)) = t
    <2>1. (i + Len(s)) - i = Len(s)
      BY <1>1
    <2> QED BY <2>1 DEF Promise!Segment
  <1> QED BY <1>2, <1>3, <1>4

\* Bytes consumed by a call that is answered: handed over, or lost and reported.
LEMMA AnswerStream ==
  ASSUME NEW i \in Nat, NEW j \in Nat, i <= j, j <= sent, sent \in Nat,
         UNCHANGED sent, NetMark = [s \in {Net} |-> i], NetMark' = [s \in {Net} |-> j],
         NEW status, NEW bytes, Last' = [status |-> status, bytes |-> bytes],
         \/ status = "ok" /\ bytes = Promise!Segment(Net, i, j)
         \/ status \in {"flushed", "error"} /\ bytes = << >>
  PROVE  StreamStep
  <1>1. /\ Net \in {Net} /\ NetSent[Net] = sent /\ NetMark[Net] = i
        /\ j \in 0 .. NetSent[Net] /\ NetSent' = NetSent
        /\ NetMark' = [NetMark EXCEPT ![Net] = j]
    BY OneSource DEF NetSent
  <1>2. CASE status = "ok" /\ bytes = Promise!Segment(Net, i, j)
    <2>1. Promise!Deliver(Net, j)
      BY <1>1, <1>2 DEF Promise!Deliver, Promise!Answer, Last, NetSent, NetMark
    <2> QED BY <1>1, <2>1 DEF Promise!Next, NetSent, StreamStep
  <1>3. CASE status \in {"flushed", "error"} /\ bytes = << >>
    <2>1. Promise!Drop(Net, j, status)
      BY <1>1, <1>3 DEF Promise!Drop, Promise!Answer, Last, NetSent, NetMark
    <2> QED BY <1>1, <1>3, <2>1 DEF Promise!Next, NetSent, StreamStep
  <1> QED BY <1>2, <1>3

-----------------------------------------------------------------------------
\* The network

\* Nothing that has to do with what was taken changes.
LEMMA QuietSocket ==
  ASSUME IInv, UNCHANGED <<class, sent, taken, input>>,
         queue' = queue \/ queue' = << >>
  PROVE  QueueInv' /\ InputInv' /\ Consumed' = Consumed
  <1>1. Consumed' = Consumed
    BY DEF Consumed
  <1>2. InputInv'
    BY <1>1 DEF IInv, InputInv, Piece, Stream
  <1>3. QueueInv'
    BY DEF IInv, QueueInv
  <1> QED BY <1>1, <1>2, <1>3

\* What the network does leaves the calls alone.
LEMMA QuietCalls ==
  ASSUME IInv, UNCHANGED <<call, buf, result>>, Consumed' = Consumed
  PROVE  /\ CallInv' /\ WaitInv' /\ ShortReadWaited'
         /\ NetMark' = NetMark /\ Last' = Last
  <1>1. CallInv'
    BY DEF IInv, CallInv, Piece
  <1>2. WaitInv' /\ ShortReadWaited'
    BY DEF IInv, WaitInv, ShortReadWaited
  <1> QED BY <1>1, <1>2 DEF NetMark, Mark, Last

LEMMA ArriveKept ==
  ASSUME IInv, NEW n \in Sizes, Arrive(n)
  PROVE  Kept
  <1> USE DEF objectvars
  <1>1. /\ n \in Nat /\ sent' = sent + n /\ arrivals' = arrivals + 1
        /\ queue' = IF Stream THEN <<sent + n>> ELSE Append(queue, sent + n)
        /\ UNCHANGED <<class, peer, taken, open, input, timeout, remote, byteswritten,
                       call, buf, result>>
    BY NumberAssumption DEF Arrive
  <1>2. queue' \in Seq(Nat) /\ QueueInv'
    <2>1. sent \in Nat /\ taken \in Nat /\ taken <= sent /\ queue \in Seq(Nat)
      BY Known
    <2>2. CASE queue' = <<sent + n>>
      <3>1. sent + n \in Nat /\ taken <= sent + n
        BY <1>1, <2>1
      <3>2. queue' \in Seq(Nat) /\ Len(queue') = 1 /\ queue'[1] = sent + n
        BY <2>2, <3>1
      <3> QED BY <1>1, <3>1, <3>2 DEF QueueInv
    <2>3. CASE queue' = Append(queue, sent + n)
      <3>1. /\ queue' \in Seq(Nat) /\ Len(queue') = Len(queue) + 1 /\ Len(queue) \in Nat
            /\ queue'[Len(queue) + 1] = sent + n
            /\ \A i \in 1 .. Len(queue) : queue'[i] = queue[i] /\ queue[i] \in Nat
        BY <1>1, <2>1, <2>3
      <3>2. /\ \A i \in 1 .. Len(queue) : taken <= queue[i] /\ queue[i] <= sent
            /\ \A i, j \in 1 .. Len(queue) : i <= j => queue[i] <= queue[j]
        BY DEF IInv, QueueInv
      <3>3. /\ taken' <= sent'
            /\ \A i \in 1 .. Len(queue') : taken' <= queue'[i] /\ queue'[i] <= sent'
        BY <1>1, <2>1, <3>1, <3>2
      <3>4. \A i, j \in 1 .. Len(queue') : i <= j => queue'[i] <= queue'[j]
        BY <1>1, <2>1, <3>1, <3>2
      <3> QED BY <3>1, <3>3, <3>4 DEF QueueInv
    <2> QED BY <1>1, <2>2, <2>3
  <1>3. Consumed' = Consumed
    BY <1>1 DEF Consumed
  <1>4. InputInv'
    BY <1>1, <1>3 DEF IInv, InputInv, Piece, Stream
  <1>5. /\ CallInv' /\ WaitInv' /\ ShortReadWaited'
        /\ NetMark' = NetMark /\ Last' = Last
    BY <1>1, <1>3, QuietCalls
  <1>6. TypeOK'
    <2>1. sent' \in Nat /\ arrivals' \in Nat
      BY <1>1 DEF IInv, TypeOK
    <2> QED BY <1>1, <1>2, <2>1 DEF IInv, TypeOK
  <1>7. StreamStep
    <2>1. CASE n = 0
      BY <1>1, <1>5, <2>1, Known DEF StreamStep, NetSent
    <2>2. CASE n > 0
      <3>1. /\ NetSent'[Net] > NetSent[Net]
            /\ NetSent' = [NetSent EXCEPT ![Net] = NetSent'[Net]]
        BY <1>1, <2>2, Known DEF NetSent
      <3>2. Promise!Emit(Net)
        BY <1>5, <3>1 DEF Promise!Emit, NetSent, NetMark, Last
      <3> QED BY <3>2 DEF Promise!Next, StreamStep
    <2> QED BY <1>1, <2>1, <2>2
  <1> QED BY <1>2, <1>4, <1>5, <1>6, <1>7 DEF Kept, IInv

LEMMA PeerEndsKept ==
  ASSUME IInv, NEW how \in {"closed", "reset"}, PeerEnds(how)
  PROVE  Kept
  <1> USE DEF objectvars
  <1>1. QueueInv' /\ InputInv' /\ Consumed' = Consumed
    BY QuietSocket DEF PeerEnds
  <1>2. /\ CallInv' /\ WaitInv' /\ ShortReadWaited'
        /\ NetMark' = NetMark /\ Last' = Last
    BY <1>1, QuietCalls DEF PeerEnds
  <1>3. TypeOK'
    BY DEF PeerEnds, IInv, TypeOK
  <1>4. StreamStep
    BY <1>2 DEF StreamStep, NetSent, PeerEnds
  <1> QED BY <1>1, <1>2, <1>3, <1>4 DEF Kept, IInv

-----------------------------------------------------------------------------
\* Calls that begin, and calls answered at once

\* An answer without bytes, by a call that leaves the socket and what is left over alone.
LEMMA AnsweredKept ==
  ASSUME IInv, call.op = "idle",
         UNCHANGED <<class, arrivals, sent, queue, peer, taken, input, call, buf>>,
         open' \in BOOLEAN, timeout' \in Int, remote' \in Address, byteswritten' \in Nat,
         NEW op \in Calls \cup {"set", "write"}, NEW status \in {"ok", "flushed", "error"},
         NEW why \in Reason, result' = Answer(op, status, why)
  PROVE  Kept
  <1>1. QueueInv' /\ InputInv' /\ Consumed' = Consumed
    BY QuietSocket
  <1>2. /\ result' \in ResultType /\ result'.bytes = << >> /\ result'.need = 0
        /\ result'.status = status
    <2>1. << >> \in Seq(Byte)
      OBVIOUS
    <2> QED BY <2>1 DEF Answer, ResultType
  <1>3. TypeOK'
    BY <1>2 DEF IInv, TypeOK
  <1>4. CallInv' /\ WaitInv' /\ ShortReadWaited'
    BY <1>2 DEF IInv, CallInv, WaitInv, ShortReadWaited
  <1>5. StreamStep
    <2>1. Consumed \in Nat /\ Consumed <= sent /\ sent \in Nat
      BY Known
    <2>2. /\ NetMark = [s \in {Net} |-> Consumed] /\ NetMark' = [s \in {Net} |-> Consumed]
      BY <1>1 DEF NetMark, Mark
    <2>3. Last' = [status |-> status, bytes |-> << >>]
      BY <1>2 DEF Last
    <2>4. << >> = Promise!Segment(Net, Consumed, Consumed)
      BY <2>1 DEF Promise!Segment
    <2> QED BY <2>1, <2>2, <2>3, <2>4, AnswerStream
  <1> QED BY <1>1, <1>3, <1>4, <1>5 DEF Kept, IInv

LEMMA TellKept ==
  ASSUME IInv, Callable, NEW op \in Calls, NEW status \in {"ok", "flushed", "error"},
         NEW why \in Reason, Tell(Answer(op, status, why))
  PROVE  Kept
  <1>1. /\ call.op = "idle" /\ result' = Answer(op, status, why)
        /\ UNCHANGED <<class, arrivals, sent, queue, peer, taken, input, call, buf>>
        /\ UNCHANGED <<open, timeout, remote, byteswritten>>
    BY DEF Tell, Callable, socketvars, objectvars
  <1>2. /\ open' \in BOOLEAN /\ timeout' \in Int /\ remote' \in Address
        /\ byteswritten' \in Nat
    BY <1>1 DEF IInv, TypeOK
  <1>3. op \in Calls \cup {"set", "write"}
    OBVIOUS
  <1> QED BY <1>1, <1>2, <1>3, AnsweredKept

\* A call that is entered lacks everything and has waited for nothing.
LEMMA EnterKept ==
  ASSUME IInv, NEW op \in Calls, NEW need \in Nat, NEW ts \in Nat \ {0}, NEW tmo \in Int,
         Enter(op, need, ts, tmo)
  PROVE  Kept
  <1>1. CASE ~open /\ Tell(Answer(op, "error", "closed"))
    BY <1>1, TellKept DEF Enter, Reason
  <1>2. CASE need = 0 /\ Tell(Answer(op, "ok", "full"))
    BY <1>2, TellKept DEF Enter, Reason
  <1>3. CASE /\ need > 0
             /\ call' = [op |-> op, need |-> need, got |-> 0, tosize |-> ts, tmo |-> tmo,
                         left |-> tmo, waited |-> 0, base |-> Consumed]
             /\ result' = Answer("none", "none", "none")
             /\ UNCHANGED <<class, socketvars, objectvars, buf>>
    <2> USE DEF socketvars, objectvars
    <2>1. QueueInv' /\ InputInv' /\ Consumed' = Consumed /\ Consumed \in Nat
      BY <1>3, QuietSocket, Known
    <2>2. /\ call' \in CallType /\ call'.op = op /\ call'.op # "idle" /\ call'.need = need
          /\ call'.base = Consumed /\ call'.tmo = tmo /\ call'.left = tmo /\ call'.waited = 0
      BY <1>3, <2>1 DEF CallType, Calls
    <2>3. /\ result' \in ResultType /\ result'.status = "none"
          /\ result' = Answer("none", "none", "none")
      <3>1. << >> \in Seq(Byte)
        OBVIOUS
      <3> QED BY <1>3, <3>1 DEF Answer, ResultType, Reason
    <2>4. buf' = << >> /\ Piece(buf', Consumed') /\ Len(buf') = 0
      <3>1. call.op = "idle" /\ buf = << >> /\ buf' = buf
        BY <1>3 DEF Enter, Callable, IInv, CallInv
      <3> QED BY <3>1 DEF Piece
    <2>5. TypeOK'
      BY <1>3, <2>2, <2>3 DEF IInv, TypeOK
    <2>6. CallInv'
      <3>1. Consumed + 0 = Consumed
        BY <2>1
      <3> QED BY <1>3, <2>1, <2>2, <2>3, <2>4, <3>1 DEF CallInv
    <2>7. WaitInv' /\ ShortReadWaited'
      BY <2>2, <2>3 DEF WaitInv, ShortReadWaited
    <2>8. StreamStep
      <3>1. NetMark' = NetMark
        BY <2>2 DEF Enter, Callable, NetMark, Mark
      <3>2. NetSent' = NetSent /\ Last' = Promise!Answer("none", << >>)
        BY <1>3 DEF NetSent, Last, Answer, Promise!Answer
      <3>3. Promise!Begin
        BY <3>1, <3>2 DEF Promise!Begin, NetSent, NetMark, Last
      <3> QED BY <3>3 DEF Promise!Next, StreamStep
    <2> QED BY <2>1, <2>5, <2>6, <2>7, <2>8 DEF Kept, IInv
  <1> QED BY <1>1, <1>2, <1>3 DEF Enter

LEMMA ReadsKept ==
  ASSUME IInv, Reads
  PROVE  Kept
  <1>1. timeout \in Int /\ TcpDefault \in Int /\ Available \in Nat
    <2>1. timeout \in Int /\ Available \in Nat
      BY Known DEF IInv, TypeOK
    <2>2. timeout \div 1000 \in Int
      BY <2>1
    <2> QED BY <2>1, <2>2 DEF TcpDefault
  <1>2. /\ ElementSizes \subseteq Nat \ {0} /\ Counts \subseteq Nat /\ Timeouts \subseteq Int
        /\ "read" \in Calls /\ "fread" \in Calls /\ "flush" \in Calls
        /\ 1 \in Nat \ {0} /\ 1024 \in Nat /\ 0 \in Int
    BY NumberAssumption DEF Calls
  <1>3. ASSUME NEW cnt \in Nat, NEW ts \in Nat \ {0}, NEW op \in Calls,
               Enter(op, cnt * ts, ts, timeout)
        PROVE  Kept
    <2>1. PICK need \in Nat : need = cnt * ts
      BY ProductNat
    <2>2. Enter(op, need, ts, timeout)
      BY <1>3, <2>1
    <2> QED BY <1>1, <2>2, EnterKept
  <1>4. ASSUME NEW cnt \in Nat, NEW ts \in Nat \ {0}, TcpclientRead(cnt, ts)
        PROVE  Kept
    <2>1. CASE Callable /\ Tell(Answer("read", "ok", "full"))
      BY <1>2, <2>1, TellKept DEF Reason
    <2>2. CASE Enter("read", cnt * ts, ts, timeout)
      BY <1>2, <1>3, <2>2
    <2> QED BY <1>4, <2>1, <2>2 DEF TcpclientRead
  <1>5. ASSUME NEW cnt \in Counts, NEW ts \in ElementSizes,
               TcpclientRead(cnt, ts) \/ ReadCount(cnt, ts) \/ Fread(cnt, ts)
        PROVE  Kept
    <2>1. cnt \in Nat /\ ts \in Nat \ {0}
      BY <1>2
    <2>2. \/ TcpclientRead(cnt, ts)
          \/ Enter("read", cnt * ts, ts, timeout)
          \/ Enter("fread", cnt * ts, ts, timeout)
      BY <1>5 DEF ReadCount, Fread
    <2> QED BY <1>2, <1>3, <1>4, <2>1, <2>2
  <1>6. ASSUME NEW ts \in ElementSizes, TcpclientReadAvailable(ts) \/ ReadAvailable(ts)
        PROVE  Kept
    <2>1. ts \in Nat \ {0} /\ RoundDiv(Available, ts) \in Nat
      BY <1>1, <1>2, RoundDivNat
    <2>2. CASE TcpclientReadAvailable(ts)
      BY <1>4, <2>1, <2>2 DEF TcpclientReadAvailable
    <2>3. CASE ReadAvailable(ts)
      BY <1>1, <1>2, <2>1, <2>3, EnterKept DEF ReadAvailable
    <2> QED BY <1>6, <2>2, <2>3
  <1>7. ASSUME NEW n \in Counts,
               TcpclientReadByDefault(n) \/ TcpReadByDefault(n) \/ UdpReadByDefault(n)
        PROVE  Kept
    <2>1. Enter("read", n, 1, timeout) \/ Enter("read", n, 1, TcpDefault)
      BY <1>7 DEF TcpclientReadByDefault, TcpReadByDefault, UdpReadByDefault
    <2> QED BY <1>1, <1>2, <2>1, EnterKept
  <1>8. ASSUME NEW n \in Counts, NEW t \in Timeouts, ReadFor(n, t)
        PROVE  Kept
    BY <1>2, <1>8, EnterKept DEF ReadFor
  <1>9. ASSUME Flush PROVE Kept
    <2>1. CASE Enter("flush", 1024, 1, 0)
      BY <1>2, <2>1, EnterKept
    <2>2. CASE Callable /\ Tell(Answer("flush", "flushed", "closed"))
      BY <1>2, <2>2, TellKept DEF Reason
    <2> QED BY <1>9, <2>1, <2>2 DEF Flush
  <1> QED BY <1>5, <1>6, <1>7, <1>8, <1>9 DEF Reads

-----------------------------------------------------------------------------
\* Calls that set and write

LEMMA SetKept ==
  ASSUME IInv, NEW op \in {"set", "write"}, NEW status \in {"ok", "error"},
         NEW why \in Reason, NEW to \in Address, Set(Answer(op, status, why), to)
  PROVE  Kept
  <1>1. /\ call.op = "idle" /\ result' = Answer(op, status, why) /\ remote' = to
        /\ UNCHANGED <<class, arrivals, sent, queue, peer, taken, input, call, buf>>
        /\ UNCHANGED <<open, timeout, byteswritten>>
    BY DEF Set, Callable, socketvars
  <1>2. /\ open' \in BOOLEAN /\ timeout' \in Int /\ remote' \in Address
        /\ byteswritten' \in Nat
    BY <1>1 DEF IInv, TypeOK
  <1>3. op \in Calls \cup {"set", "write"} /\ status \in {"ok", "flushed", "error"}
    OBVIOUS
  <1> QED BY <1>1, <1>2, <1>3, AnsweredKept

LEMMA SetTimeoutKept ==
  ASSUME IInv, NEW t \in Int, NEW refused \in BOOLEAN, SetTimeout(t, refused)
  PROVE  Kept
  <1>1. /\ call.op = "idle"
        /\ timeout' = IF open /\ ~refused THEN t ELSE timeout
        /\ UNCHANGED <<class, arrivals, sent, queue, peer, taken, input, call, buf>>
        /\ UNCHANGED <<open, remote, byteswritten>>
    BY DEF SetTimeout, Callable, socketvars
  <1>2. /\ open' \in BOOLEAN /\ timeout' \in Int /\ remote' \in Address
        /\ byteswritten' \in Nat
    BY <1>1 DEF IInv, TypeOK
  <1>3. PICK status \in {"ok", "flushed", "error"} : result' = Answer("set", status, "set")
    BY DEF SetTimeout
  <1>4. "set" \in Calls \cup {"set", "write"} /\ "set" \in Reason
    BY DEF Reason
  <1> QED BY <1>1, <1>2, <1>3, <1>4, AnsweredKept

LEMMA SendCountedKept ==
  ASSUME IInv, NEW to \in Address, SendCounted(to)
  PROVE  Kept
  <1>1. CASE /\ Callable /\ byteswritten' = byteswritten + 1 /\ remote' = to
             /\ result' = Answer("write", "ok", "sent")
             /\ UNCHANGED <<class, socketvars, open, input, timeout, call, buf>>
    <2>1. /\ open' \in BOOLEAN /\ timeout' \in Int /\ remote' \in Address
          /\ byteswritten' \in Nat
      BY <1>1 DEF IInv, TypeOK
    <2>2. /\ "write" \in Calls \cup {"set", "write"} /\ "sent" \in Reason
          /\ "ok" \in {"ok", "flushed", "error"}
      BY DEF Reason
    <2> QED BY <1>1, <2>1, <2>2, AnsweredKept DEF Callable, socketvars
  <1>2. CASE Set(Answer("write", "ok", "failed"), to)
    BY <1>2, SetKept DEF Reason
  <1>3. CASE Set(Answer("write", "error", "closed"), to)
    BY <1>3, SetKept DEF Reason
  <1> QED BY <1>1, <1>2, <1>3 DEF SendCounted, SendFails, NotOpen

LEMMA SendKept ==
  ASSUME IInv, NEW to \in Address, Send(to)
  PROVE  Kept
  <1>1. \/ Set(Answer("write", "ok", "sent"), to)
        \/ Set(Answer("write", "ok", "failed"), to)
        \/ Set(Answer("write", "error", "closed"), to)
    BY DEF Send, SendFails, NotOpen
  <1> QED BY <1>1, SetKept DEF Reason

\* When a setter raises, the ones undone leave the destination as it was; when none does, the
\* host is one that resolves.
LEMMA UdpWriteToShape ==
  ASSUME IInv, NEW h \in Hosts \cup {Unknown}, NEW p \in Int, UdpWriteTo(h, p)
  PROVE  \/ Set(Answer("write", "error", "destination"), remote)
         \/ \E to \in Address : to.host \in Hosts /\ Send(to)
  <1>1. remote \in Address
    BY DEF IInv, TypeOK
  <1>2. /\ HostSet(remote, h) \in Address
        /\ PortSet(HostSet(remote, h), p) \in Address
        /\ HostSet(HostSet(remote, h), remote.host) = remote
        /\ PortSet(remote, remote.port) = remote
        /\ HostSet(PortSet(HostSet(remote, h), p), remote.host) = PortSet(remote, p)
    BY <1>1, DestinationType
  <1>3. p < 0 => PortSet(remote, p) = remote
    BY DEF PortSet
  <1>4. PortSet(HostSet(remote, h), p).host = Resolve(h)
    <2>1. PICK x, y : remote = [host |-> x, port |-> y]
      BY <1>1 DEF Address
    <2>2. HostSet(remote, h) = [host |-> Resolve(h), port |-> y]
      BY <2>1 DEF HostSet
    <2>3. PICK z : z = Resolve(h)
      OBVIOUS
    <2>4. PICK q : q = IF p < 0 THEN y ELSE AsPort(p)
      OBVIOUS
    <2>5. PortSet([host |-> z, port |-> y], p) = [host |-> z, port |-> q]
      BY <2>4, PortSetIs, Zenon
    <2>6. PortSet(HostSet(remote, h), p) = [host |-> z, port |-> q]
      BY <2>2, <2>3, <2>5, Zenon
    <2> QED BY <2>3, <2>6
  <1>5. h # Unknown => Resolve(h) \in Hosts
    BY DEF Resolve
  <1> QED BY <1>2, <1>3, <1>4, <1>5 DEF UdpWriteTo

LEMMA WritesKept ==
  ASSUME IInv, Writes
  PROVE  Kept
  <1>1. remote \in Address /\ Ports \subseteq Int
    BY NumberAssumption DEF IInv, TypeOK
  <1>2. CASE TcpWrite
    BY <1>1, <1>2, SendKept DEF TcpWrite
  <1>3. CASE TcpclientWrite
    BY <1>1, <1>3, SendCountedKept DEF TcpclientWrite
  <1>4. CASE UdpportWrite
    BY <1>1, <1>4, SetKept, SendCountedKept DEF UdpportWrite, Reason
  <1>5. ASSUME NEW h \in Hosts \cup {Unknown}, NEW p \in Ports, UdpWriteTo(h, p)
        PROVE  Kept
    <2>1. \/ Set(Answer("write", "error", "destination"), remote)
          \/ \E to \in Address : to.host \in Hosts /\ Send(to)
      BY <1>1, <1>5, UdpWriteToShape
    <2> QED BY <1>1, <2>1, SetKept, SendKept DEF Reason
  <1>6. ASSUME NEW h \in Hosts \cup {Unknown}, NEW p \in Ports, UdpportWriteTo(h, p)
        PROVE  Kept
    <2>1. [host |-> Resolve(h), port |-> AsPort(p)] \in Address
      BY <1>1, DestinationType
    <2> QED BY <1>6, <2>1, SendCountedKept DEF UdpportWriteTo
  <1> QED BY <1>2, <1>3, <1>4, <1>5, <1>6 DEF Writes

LEMMA SettersKept ==
  ASSUME IInv,
         \/ \E t \in Timeouts : TimeoutProperty(t) \/ TimeoutFunction(t)
         \/ \E h \in Hosts \cup {Unknown} : SetRemoteHost(h)
         \/ \E p \in Ports : SetRemotePort(p)
         \/ Close
  PROVE  Kept
  <1>1. remote \in Address /\ Ports \subseteq Int /\ Timeouts \subseteq Int
    BY NumberAssumption DEF IInv, TypeOK
  <1>2. ASSUME NEW t \in Timeouts, TimeoutProperty(t) \/ TimeoutFunction(t)
        PROVE  Kept
    <2>1. t \in Int /\ (t < -1) \in BOOLEAN /\ FALSE \in BOOLEAN /\ -1 \in Int
      BY <1>1
    <2>2. PICK u \in Int, refused \in BOOLEAN : SetTimeout(u, refused)
      BY <1>2, <2>1 DEF TimeoutProperty, TimeoutFunction
    <2> QED BY <2>2, SetTimeoutKept
  <1>3. ASSUME NEW h \in Hosts \cup {Unknown}, SetRemoteHost(h)
        PROVE  Kept
    <2>1. 0 \in Int /\ "set" \in Reason
      BY DEF Reason
    <2>2. HostSet(remote, h) \in Address
      BY <1>1, <2>1, DestinationType
    <2> QED BY <1>3, <2>1, <2>2, SetKept DEF SetRemoteHost
  <1>4. ASSUME NEW p \in Ports, SetRemotePort(p)
        PROVE  Kept
    <2>1. PortSet(remote, p) \in Address /\ "set" \in Reason
      BY <1>1, DestinationType DEF Reason
    <2> QED BY <1>4, <2>1, SetKept DEF SetRemotePort
  <1>5. ASSUME Close PROVE Kept
    <2>1. /\ open' \in BOOLEAN /\ timeout' \in Int /\ remote' \in Address
          /\ byteswritten' \in Nat
      BY <1>5 DEF Close, IInv, TypeOK
    <2>2. /\ "set" \in Calls \cup {"set", "write"} /\ "set" \in Reason
          /\ "ok" \in {"ok", "flushed", "error"}
      BY DEF Reason
    <2> QED BY <1>5, <2>1, <2>2, AnsweredKept DEF Close, Callable, socketvars
  <1> QED BY <1>2, <1>3, <1>4, <1>5

-----------------------------------------------------------------------------
\* Calls go on

\* What a running call is known to be.
LEMMA Running ==
  ASSUME IInv, call.op # "idle"
  PROVE  /\ call.op \in Calls /\ call.need \in Nat /\ call.tosize \in Nat \ {0}
         /\ call.tmo \in Int /\ call.left \in Int /\ call.waited \in Nat /\ call.base \in Nat
         /\ buf \in Seq(Byte) /\ Len(buf) \in Nat /\ Len(buf) < call.need
         /\ result = Answer("none", "none", "none")
         /\ call.base + Len(buf) <= Consumed
         /\ call.op # "flush" => Piece(buf, call.base) /\ call.base + Len(buf) = Consumed
         /\ call.tmo >= 0 => call.left >= 0 /\ call.waited + call.left = call.tmo
         /\ call.tmo < 0 => call.left < 0
  <1>1. call \in CallType /\ buf \in Seq(Byte) /\ Len(buf) \in Nat
    BY DEF IInv, TypeOK
  <1>2. /\ call.op \in Calls /\ call.need \in Nat /\ call.tosize \in Nat \ {0}
        /\ call.tmo \in Int /\ call.left \in Int /\ call.waited \in Nat /\ call.base \in Nat
    BY <1>1 DEF CallType
  <1> QED BY <1>1, <1>2 DEF IInv, CallInv, WaitInv

\* What a round of the loop leaves behind on the socket and in input_buffer.
Round ==
  /\ UNCHANGED <<class, arrivals, sent, peer, open, timeout, remote, byteswritten>>
  /\ taken' \in Nat /\ queue' \in Seq(Nat) /\ input' \in Seq(Byte)
  /\ QueueInv' /\ InputInv'

\* A call that is answered: what it hands over is all it consumed, and when that is less
\* than asked for, it has waited its timeout.
LEMMA FinishKept ==
  ASSUME IInv, call.op # "idle", Round,
         NEW c \in Nat, Consumed' = c, Consumed <= c, c <= sent,
         NEW status \in {"ok", "flushed", "error"}, NEW why \in Reason,
         NEW bytes \in Seq(Byte), NEW waited \in Nat, Finish(status, why, bytes, waited),
         \/ /\ status = "ok" /\ Piece(bytes, call.base) /\ call.base + Len(bytes) = c
            /\ Len(bytes) < call.need => call.tmo >= 0 /\ waited = call.tmo
         \/ status \in {"flushed", "error"} /\ bytes = << >>
  PROVE  Kept
  <1>1. /\ result' \in ResultType /\ result'.status = status /\ result'.bytes = bytes
        /\ result'.need = call.need /\ result'.tmo = call.tmo /\ result'.waited = waited
        /\ Last' = [status |-> status, bytes |-> bytes]
    <2>1. call.op \in Calls /\ call.need \in Nat /\ call.tmo \in Int
      BY Running
    <2> QED BY <2>1 DEF Finish, ResultType, Last
  <1>2. call' = Idle /\ call'.op = "idle" /\ buf' = << >> /\ buf' \in Seq(Byte)
    BY DEF Finish, Idle
  <1>3. TypeOK'
    BY <1>1, <1>2, IdleType DEF IInv, TypeOK, Round
  <1>4. CallInv' /\ WaitInv'
    BY <1>2 DEF CallInv, WaitInv
  <1>5. ShortReadWaited'
    BY <1>1 DEF ShortReadWaited
  <1>6. StreamStep
    <2>1. /\ call.base \in Nat /\ call.base <= c /\ sent \in Nat
      <3>1. Consumed \in Nat /\ sent \in Nat
        BY Known
      <3> QED BY <3>1, Running
    <2>2. NetMark = [s \in {Net} |-> call.base] /\ NetMark' = [s \in {Net} |-> c]
      BY <1>2 DEF NetMark, Mark
    <2>3. CASE status = "ok" /\ Piece(bytes, call.base) /\ call.base + Len(bytes) = c
      <3>1. bytes = Promise!Segment(Net, call.base, c)
        BY <2>1, <2>3, PieceIsSegment
      <3> QED BY <1>1, <2>1, <2>2, <2>3, <3>1, AnswerStream DEF Round
    <2>4. CASE status \in {"flushed", "error"} /\ bytes = << >>
      BY <1>1, <2>1, <2>2, <2>4, AnswerStream DEF Round
    <2> QED BY <2>3, <2>4
  <1> QED BY <1>3, <1>4, <1>5, <1>6 DEF Kept, IInv, Round

\* A call that goes on with b read.
LEMMA GoOnKept ==
  ASSUME IInv, call.op # "idle", Round,
         NEW c \in Nat, Consumed' = c, Consumed <= c,
         NEW b \in Seq(Byte), buf' = b, UNCHANGED result,
         call' \in CallType, call'.op = call.op, call'.need = call.need,
         call'.base = call.base, Len(b) < call.need, WaitInv',
         \/ b = << >> /\ call.op = "flush"
         \/ /\ call.base + Len(b) <= c
            /\ call.op # "flush" => Piece(b, call.base) /\ call.base + Len(b) = c
  PROVE  Kept
  <1>1. TypeOK'
    BY DEF IInv, TypeOK, Round
  <1>2. call.base + Len(b) <= c
    <2>1. CASE b = << >>
      <3>1. call.base \in Nat /\ Consumed \in Nat /\ Len(buf) \in Nat
            /\ call.base + Len(buf) <= Consumed
        BY Running, Known
      <3>2. Len(b) = 0
        BY <2>1
      <3> QED BY <3>1, <3>2
    <2> QED BY <2>1
  <1>3. CallInv'
    BY <1>2, Running DEF CallInv, Piece
  <1>4. ShortReadWaited'
    BY DEF IInv, ShortReadWaited
  <1>5. StreamStep
    <2>1. NetMark' = NetMark /\ Last' = Last /\ NetSent' = NetSent
      BY DEF NetMark, Mark, Last, NetSent, Round
    <2> QED BY <2>1 DEF StreamStep
  <1> QED BY <1>1, <1>3, <1>4, <1>5 DEF Kept, IInv, Round

\* The loop ends with b read: flush and fread go round again while bytes come.
LEMMA ReturnKept ==
  ASSUME IInv, call.op # "idle", Round,
         NEW c \in Nat, Consumed' = c, Consumed <= c, c <= sent,
         NEW b \in Seq(Byte), call.base + Len(b) <= c,
         call.op # "flush" => Piece(b, call.base) /\ call.base + Len(b) = c,
         NEW why \in Reason, NEW waited \in Nat,
         Len(b) < call.need => call.tmo >= 0 /\ waited = call.tmo,
         Return(b, why, waited)
  PROVE  Kept
  <1>1. << >> \in Seq(Byte) /\ "torn" \in Reason
    BY DEF Reason
  <1>2. CASE call.op = "flush" /\ buf' = << >> /\ UNCHANGED <<call, result>>
    <2>1. /\ Len(<< >>) = 0 /\ 0 < call.need /\ call \in CallType
      BY Running, Known, SMTT(30)
    <2>2. WaitInv'
      BY <1>2 DEF IInv, WaitInv
    <2> QED BY <1>1, <1>2, <2>1, <2>2, GoOnKept
  <1>3. CASE Finish("flushed", why, << >>, waited)
    BY <1>1, <1>3, FinishKept
  <1>4. CASE /\ call.op = "fread" /\ Len(b) < call.need
             /\ call' = [call EXCEPT !.got = Len(b), !.left = call.tmo, !.waited = 0]
             /\ buf' = b
             /\ UNCHANGED result
    <2>1. /\ call' \in CallType /\ call'.op = call.op /\ call'.need = call.need
          /\ call'.base = call.base /\ call'.tmo = call.tmo /\ call'.left = call.tmo
          /\ call'.waited = 0
      <3>1. Len(b) \in Nat /\ call \in CallType /\ call.tmo \in Int
        BY Running, Known
      <3> QED BY <1>4, <3>1 DEF CallType
    <2>2. WaitInv'
      <3>1. call.tmo \in Int
        BY Running
      <3> QED BY <2>1, <3>1 DEF WaitInv
    <2> QED BY <1>4, <2>1, <2>2, GoOnKept
  <1>5. CASE call.op # "flush" /\ Finish("ok", why, b, waited)
    BY <1>5, FinishKept
  <1>6. CASE Finish("error", "torn", << >>, waited)
    BY <1>1, <1>6, FinishKept
  <1>7. call.op \in Calls
    BY Running
  <1> QED BY <1>2, <1>3, <1>4, <1>5, <1>6, <1>7 DEF Return, Calls

\* The loop has b now, and goes on or ends.
LEMMA GotKept ==
  ASSUME IInv, call.op # "idle", Round,
         NEW c \in Nat, Consumed' = c, Consumed <= c, c <= sent,
         NEW b \in Seq(Byte), call.base + Len(b) <= c,
         call.op # "flush" => Piece(b, call.base) /\ call.base + Len(b) = c,
         Got(b)
  PROVE  Kept
  <1>1. CASE Len(b) < call.need /\ buf' = b /\ UNCHANGED <<call, result>>
    <2>1. call \in CallType /\ WaitInv'
      BY <1>1, Known DEF IInv, WaitInv
    <2> QED BY <1>1, <2>1, GoOnKept
  <1>2. CASE ~ (Len(b) < call.need) /\ Return(b, "full", call.waited)
    <2>1. call.waited \in Nat /\ "full" \in Reason
      BY Running DEF Reason
    <2> QED BY <1>2, <2>1, ReturnKept
  <1> QED BY <1>1, <1>2 DEF Got

\* What is joined to the buffer continues it.
LEMMA JoinBuffer ==
  ASSUME IInv, call.op # "idle", NEW t, Piece(t, Consumed),
         NEW c \in Nat, c = Consumed + Len(t)
  PROVE  /\ buf \o t \in Seq(Byte) /\ call.base + Len(buf \o t) <= c
         /\ call.op # "flush" => /\ Piece(buf \o t, call.base)
                                 /\ call.base + Len(buf \o t) = c
  <1>1. /\ buf \in Seq(Byte) /\ Len(buf) \in Nat /\ call.base \in Nat /\ Consumed \in Nat
        /\ call.base + Len(buf) <= Consumed
    BY Running, Known
  <1>2. t \in Seq(Byte) /\ Len(t) \in Nat
    BY DEF Piece
  <1>3. buf \o t \in Seq(Byte) /\ Len(buf \o t) = Len(buf) + Len(t)
    BY <1>1, <1>2
  <1>4. ASSUME call.op # "flush"
        PROVE  Piece(buf \o t, call.base) /\ call.base + Len(buf \o t) = c
    <2>1. Piece(buf, call.base) /\ call.base + Len(buf) = Consumed
      BY <1>4, Running
    <2>2. Piece(t, call.base + Len(buf))
      BY <2>1
    <2> QED BY <1>1, <1>2, <1>3, <2>1, <2>2, JoinPieces
  <1> QED BY <1>1, <1>2, <1>3, <1>4

\* How many bytes fit.
LEMMA WantedNat ==
  ASSUME IInv, call.op # "idle", NEW n \in Nat
  PROVE  Smaller(Wanted, n) \in 0 .. n
  <1>1. Wanted \in Nat
    BY Running DEF Wanted
  <1> QED BY <1>1 DEF Smaller

LEMMA ReceiveKept ==
  ASSUME IInv, Receive
  PROVE  Kept
  <1> USE DEF objectvars
  <1>1. PICK k \in Nat :
          /\ k = Smaller(Wanted, NextSize)
          /\ taken' = taken + k
          /\ queue' = IF k = NextSize THEN << >> ELSE queue
          /\ Got(buf \o Bytes(taken, k))
    <2>1. Smaller(Wanted, NextSize) \in Nat
      BY Known, WantedNat DEF Receive
    <2> QED BY <2>1 DEF Receive
  <1>2. /\ call.op # "idle" /\ Stream /\ queue # << >>
        /\ UNCHANGED <<class, arrivals, sent, peer, open, input, timeout, remote,
                       byteswritten>>
    BY DEF Receive
  <1>3. /\ taken \in Nat /\ sent \in Nat /\ NextSize \in Nat /\ taken + NextSize <= sent
        /\ taken + NextSize = queue[1] /\ queue \in Seq(Nat) /\ k \in 0 .. NextSize
    BY <1>1, <1>2, Known, WantedNat
  <1>4. input = << >> /\ Len(input) = 0 /\ Consumed = taken
    <2>1. input = << >>
      BY <1>2 DEF IInv, InputInv
    <2>2. Len(input) = 0
      BY <2>1
    <2> QED BY <1>3, <2>1, <2>2, Known
  <1>5. PICK c \in Nat : c = taken + k
    BY <1>3
  <1>6. Consumed' = c
    BY <1>1, <1>2, <1>4, <1>5 DEF Consumed
  <1>7. QueueInv' /\ taken' \in Nat /\ queue' \in Seq(Nat)
    <2>1. taken' <= sent' /\ taken' \in Nat
      BY <1>1, <1>2, <1>3
    <2>2. CASE queue' = << >>
      BY <2>1, <2>2 DEF QueueInv
    <2>3. CASE queue' = queue
      <3>1. /\ \A i \in 1 .. Len(queue) : taken <= queue[i] /\ queue[i] <= sent
            /\ \A i, j \in 1 .. Len(queue) : i <= j => queue[i] <= queue[j]
        BY DEF IInv, QueueInv
      <3>2. \A i \in 1 .. Len(queue) : queue[i] \in Nat /\ queue[1] <= queue[i]
        BY <1>3, <3>1
      <3>3. \A i \in 1 .. Len(queue) : taken' <= queue[i]
        BY <1>1, <1>3, <3>2
      <3> QED BY <1>2, <1>3, <2>1, <2>3, <3>1, <3>3 DEF QueueInv
    <2> QED BY <1>1, <1>3, <2>1, <2>2, <2>3
  <1>8. InputInv'
    BY <1>2, <1>4, <1>6 DEF InputInv, Piece, Stream
  <1>9. Round
    BY <1>2, <1>4, <1>7, <1>8 DEF Round
  <1>10. Piece(Bytes(taken, k), Consumed) /\ Len(Bytes(taken, k)) = k
    BY <1>3, <1>4, BytesPiece
  <1>11. c = Consumed + Len(Bytes(taken, k)) /\ Consumed <= c /\ c <= sent
    BY <1>3, <1>4, <1>5, <1>10
  <1> QED BY <1>1, <1>2, <1>6, <1>9, <1>10, <1>11, JoinBuffer, GotKept

\* A call that raises loses what it has read.
LEMMA ReceiveEndKept ==
  ASSUME IInv, ReceiveEnd \/ Interrupt
  PROVE  Kept
  <1> USE DEF socketvars, objectvars
  <1>1. /\ call.op # "idle"
        /\ UNCHANGED <<class, arrivals, sent, queue, peer, taken>>
        /\ UNCHANGED <<open, input, timeout, remote, byteswritten>>
    BY DEF ReceiveEnd, Interrupt
  <1>2. PICK why \in Reason : Finish("error", why, << >>, call.waited)
    BY DEF ReceiveEnd, Interrupt, Reason
  <1>3. QueueInv' /\ InputInv' /\ Consumed' = Consumed
    BY <1>1, QuietSocket
  <1>4. Round
    BY <1>1, <1>3 DEF Round, IInv, TypeOK
  <1>5. PICK c \in Nat : c = Consumed
    BY Known
  <1>6. Consumed' = c /\ Consumed <= c /\ c <= sent
    BY <1>3, <1>5, Known
  <1>7. call.waited \in Nat /\ << >> \in Seq(Byte)
    BY <1>1, Running
  <1> QED BY <1>1, <1>2, <1>4, <1>6, <1>7, FinishKept

LEMMA SelectExpiresKept ==
  ASSUME IInv, SelectExpires
  PROVE  Kept
  <1> USE DEF socketvars, objectvars
  <1>1. /\ call.op # "idle" /\ call.left >= 0
        /\ UNCHANGED <<class, arrivals, sent, queue, peer, taken>>
        /\ UNCHANGED <<open, input, timeout, remote, byteswritten>>
    BY DEF SelectExpires
  <1>2. QueueInv' /\ InputInv' /\ Consumed' = Consumed
    BY <1>1, QuietSocket
  <1>3. Round
    BY <1>1, <1>2 DEF Round, IInv, TypeOK
  <1>4. /\ Consumed \in Nat /\ Consumed <= sent
        /\ call.waited \in Nat /\ call.left \in Int /\ call.tmo \in Int
        /\ call.tmo >= 0 /\ call.waited + call.left = call.tmo
        /\ buf \in Seq(Byte) /\ Len(buf) < call.need /\ call.base + Len(buf) <= Consumed
        /\ call.op # "flush" => Piece(buf, call.base) /\ call.base + Len(buf) = Consumed
    BY <1>1, Known, Running, SMTT(30)
  <1>5. CASE Return(buf, "timeout", call.waited + call.left)
    <2>1. call.waited + call.left \in Nat /\ "timeout" \in Reason
      BY <1>1, <1>4 DEF Reason
    <2> QED BY <1>1, <1>2, <1>3, <1>4, <1>5, <2>1, ReturnKept
  <1>6. CASE /\ call.left > 1000
             /\ call' = [call EXCEPT !.left = @ - 1000, !.waited = @ + 1000]
             /\ UNCHANGED <<buf, result>>
    <2>1. /\ call' \in CallType /\ call'.op = call.op /\ call'.need = call.need
          /\ call'.base = call.base /\ call'.tmo = call.tmo
          /\ call'.left = call.left - 1000 /\ call'.waited = call.waited + 1000
      <3>1. call.left - 1000 \in Int /\ call.waited + 1000 \in Nat /\ call \in CallType
        BY <1>4, Known, SMTT(30)
      <3>2. PICK l \in Int, w \in Nat : l = call.left - 1000 /\ w = call.waited + 1000
        BY <3>1
      <3>3. call' = [call EXCEPT !.left = l, !.waited = w]
        BY <1>6, <3>2
      <3>4. call' = [op |-> call.op, need |-> call.need, got |-> call.got,
                     tosize |-> call.tosize, tmo |-> call.tmo, left |-> l, waited |-> w,
                     base |-> call.base]
        BY <3>1, <3>3 DEF CallType
      <3>5. /\ call.op \in Calls \cup {"idle"} /\ call.need \in Nat /\ call.got \in Nat
            /\ call.tosize \in Nat \ {0} /\ call.tmo \in Int /\ call.base \in Nat
        BY <3>1 DEF CallType
      <3>6. call' \in CallType
        BY <3>2, <3>4, <3>5 DEF CallType
      <3>7. /\ call'.op = call.op /\ call'.need = call.need /\ call'.base = call.base
            /\ call'.tmo = call.tmo /\ call'.left = l /\ call'.waited = w
        BY <3>4
      <3> QED BY <3>2, <3>6, <3>7
    <2>2. WaitInv'
      BY <1>4, <1>6, <2>1 DEF WaitInv
    <2> QED BY <1>1, <1>2, <1>3, <1>4, <1>6, <2>1, <2>2, GoOnKept
  <1> QED BY <1>5, <1>6 DEF SelectExpires

\* Bytes that continue what was consumed move on, whether they were left over or have just
\* been received.
LEMMA CopyKept ==
  ASSUME IInv, call.op # "idle", ~Stream, NEW data, Piece(data, Consumed),
         UNCHANGED <<class, arrivals, sent, peer, open, timeout, remote, byteswritten>>,
         taken' \in Nat, queue' \in Seq(Nat), QueueInv', taken' = Consumed + Len(data),
         Copy(data)
  PROVE  Kept
  <1>1. PICK k \in 0 .. Len(data) :
          /\ input' = SubSeq(data, k + 1, Len(data))
          /\ Got(buf \o SubSeq(data, 1, k))
    <2>1. Len(data) \in Nat
      BY DEF Piece
    <2>2. Smaller(Wanted, Len(data)) \in 0 .. Len(data)
      BY <2>1, WantedNat
    <2> QED BY <2>2 DEF Copy
  <1>2. Consumed \in Nat /\ sent \in Nat /\ Len(data) \in Nat /\ k \in Nat
    BY Known DEF Piece
  <1>3. /\ Piece(SubSeq(data, 1, k), Consumed) /\ Len(SubSeq(data, 1, k)) = k
        /\ Piece(input', Consumed + k) /\ Len(input') = Len(data) - k
    BY <1>1, <1>2, CutPiece
  <1>4. PICK c \in Nat : c = Consumed + k
    BY <1>2
  <1>5. Consumed' = c
    <2>1. (Consumed + Len(data)) - (Len(data) - k) = Consumed + k
      BY <1>2
    <2> QED BY <1>3, <1>4, <2>1 DEF Consumed
  <1>6. Consumed <= c /\ c <= sent
    <2>1. taken' <= sent
      BY DEF QueueInv
    <2> QED BY <1>1, <1>2, <1>4, <2>1
  <1>7. InputInv'
    <2>1. ~Stream'
      BY DEF Stream
    <2> QED BY <1>3, <1>4, <1>5, <2>1 DEF InputInv, Piece
  <1>8. Round
    BY <1>3, <1>7 DEF Round, Piece
  <1> QED BY <1>1, <1>2, <1>3, <1>4, <1>5, <1>6, <1>8, JoinBuffer, GotKept

LEMMA CopyLeftoverKept ==
  ASSUME IInv, CopyLeftover
  PROVE  Kept
  <1>1. /\ call.op # "idle" /\ input # << >> /\ Copy(input)
        /\ UNCHANGED <<class, arrivals, sent, queue, peer, taken>>
        /\ UNCHANGED <<open, timeout, remote, byteswritten>>
    BY DEF CopyLeftover, socketvars
  <1>2. ~Stream
    BY <1>1 DEF IInv, InputInv
  <1>3. /\ Piece(input, Consumed) /\ taken = Consumed + Len(input) /\ taken \in Nat
        /\ queue \in Seq(Nat)
    BY Known
  <1>4. QueueInv'
    BY <1>1 DEF IInv, QueueInv
  <1> QED BY <1>1, <1>2, <1>3, <1>4, CopyKept

\* The socket after recvfrom has returned the oldest datagram.
LEMMA TailQueue ==
  ASSUME IInv, queue # << >>, queue' = Tail(queue), taken' = taken + NextSize, sent' = sent
  PROVE  QueueInv' /\ queue' \in Seq(Nat) /\ taken' \in Nat
  <1>1. /\ queue \in Seq(Nat) /\ Len(queue) \in Nat /\ Len(queue) > 0
        /\ taken' = queue[1] /\ taken' \in Nat /\ taken' <= sent'
    BY Known
  <1>2. /\ queue' \in Seq(Nat) /\ Len(queue') = Len(queue) - 1
        /\ \A i \in 1 .. Len(queue') : queue'[i] = queue[i + 1] /\ i + 1 \in 1 .. Len(queue)
    BY <1>1
  <1>3. /\ \A i \in 1 .. Len(queue) : taken <= queue[i] /\ queue[i] <= sent
        /\ \A i, j \in 1 .. Len(queue) : i <= j => queue[i] <= queue[j]
    BY DEF IInv, QueueInv
  <1>4. \A i \in 1 .. Len(queue') : taken' <= queue'[i] /\ queue'[i] <= sent'
    BY <1>1, <1>2, <1>3
  <1>5. \A i, j \in 1 .. Len(queue') : i <= j => queue'[i] <= queue'[j]
    BY <1>1, <1>2, <1>3
  <1> QED BY <1>1, <1>2, <1>4, <1>5 DEF QueueInv

LEMMA ReceiveDatagramKept ==
  ASSUME IInv, ReceiveDatagram
  PROVE  Kept
  <1>1. /\ call.op # "idle" /\ class = "udp" /\ input = << >> /\ NextSize > 0
        /\ Copy(Bytes(taken, NextSize))
        /\ taken' = taken + NextSize /\ queue' = Tail(queue)
        /\ UNCHANGED <<class, arrivals, sent, peer, open, timeout, remote, byteswritten>>
    BY DEF ReceiveDatagram
  <1>2. queue # << >>
    BY <1>1 DEF NextSize
  <1>3. QueueInv' /\ queue' \in Seq(Nat) /\ taken' \in Nat
    BY <1>1, <1>2, TailQueue
  <1>4. Consumed = taken /\ taken \in Nat /\ NextSize \in Nat
    <2>1. Len(input) = 0
      BY <1>1
    <2> QED BY <2>1, Known
  <1>5. /\ Piece(Bytes(taken, NextSize), Consumed)
        /\ taken' = Consumed + Len(Bytes(taken, NextSize))
    BY <1>1, <1>4, BytesPiece
  <1>6. ~Stream
    BY <1>1 DEF Stream
  <1> QED BY <1>1, <1>3, <1>5, <1>6, CopyKept

LEMMA ReceiveEmptyKept ==
  ASSUME IInv, ReceiveEmpty
  PROVE  Kept
  <1> USE DEF objectvars
  <1>1. /\ call.op # "idle" /\ queue # << >> /\ NextSize = 0 /\ queue' = Tail(queue)
        /\ Finish("error", "empty", << >>, call.waited)
        /\ UNCHANGED <<class, arrivals, sent, peer, taken>>
        /\ UNCHANGED <<open, input, timeout, remote, byteswritten>>
    BY DEF ReceiveEmpty
  <1>2. QueueInv' /\ queue' \in Seq(Nat) /\ taken' \in Nat
    <2>1. taken' = taken + NextSize
      BY <1>1, Known
    <2> QED BY <1>1, <2>1, TailQueue
  <1>3. PICK c \in Nat : c = Consumed
    BY Known
  <1>4. Consumed' = c /\ Consumed <= c /\ c <= sent
    BY <1>1, <1>3, Known DEF Consumed
  <1>5. InputInv'
    BY <1>1, <1>3, <1>4 DEF IInv, InputInv, Piece, Stream
  <1>6. Round
    BY <1>1, <1>2, <1>5, Known DEF Round
  <1>7. call.waited \in Nat /\ << >> \in Seq(Byte) /\ "empty" \in Reason
    BY <1>1, Running DEF Reason
  <1> QED BY <1>1, <1>4, <1>6, <1>7, FinishKept

-----------------------------------------------------------------------------
\* Every step

LEMMA NextKept == IInv /\ [Next]_vars => Kept
  <1> SUFFICES ASSUME IInv, [Next]_vars PROVE Kept
    OBVIOUS
  <1>1. CASE \E n \in Sizes : Arrive(n)
    BY <1>1, ArriveKept
  <1>2. CASE \E how \in {"closed", "reset"} : PeerEnds(how)
    BY <1>2, PeerEndsKept
  <1>3. CASE Reads
    BY <1>3, ReadsKept
  <1>4. CASE Writes
    BY <1>4, WritesKept
  <1>5. CASE \/ \E t \in Timeouts : TimeoutProperty(t) \/ TimeoutFunction(t)
             \/ \E h \in Hosts \cup {Unknown} : SetRemoteHost(h)
             \/ \E p \in Ports : SetRemotePort(p)
             \/ Close
    BY <1>5, SettersKept
  <1>6. CASE ReadLoop
    BY <1>6, ReceiveKept, ReceiveEndKept, CopyLeftoverKept, ReceiveDatagramKept,
       ReceiveEmptyKept, SelectExpiresKept DEF ReadLoop
  <1>7. CASE Interrupt
    BY <1>7, ReceiveEndKept
  <1>8. CASE UNCHANGED vars
    <2> USE <1>8 DEF vars
    <2>1. QueueInv' /\ InputInv' /\ Consumed' = Consumed
      BY QuietSocket
    <2>2. /\ CallInv' /\ WaitInv' /\ ShortReadWaited'
          /\ NetMark' = NetMark /\ Last' = Last
      BY <2>1, QuietCalls
    <2>3. TypeOK'
      BY DEF IInv, TypeOK
    <2>4. StreamStep
      BY <2>2 DEF StreamStep, NetSent
    <2> QED BY <2>1, <2>2, <2>3, <2>4 DEF Kept, IInv
  <1> QED BY <1>1, <1>2, <1>3, <1>4, <1>5, <1>6, <1>7, <1>8 DEF Next

\* The strengthened invariant holds in every reachable state.
THEOREM InductiveInvariant == Spec => []IInv
  <1>1. IInv /\ [Next]_vars => IInv'
    BY NextKept DEF Kept
  <1> QED BY <1>1, InitIInv, PTL DEF Spec

\* Every variable keeps its type: the destination is one that resolved, its port has 16
\* bits, and nothing negative is counted.
THEOREM TypeCorrect == Spec => []TypeOK
  <1>1. IInv => TypeOK
    BY DEF IInv
  <1> QED BY <1>1, InductiveInvariant, PTL

\* A read that comes back short has waited its timeout (the loops of octave_tcp::read,
\* octave_tcpclient::read and octave_udp::read, and the one of fread around them).
THEOREM ShortReadsWaited == Spec => []ShortReadWaited
  <1>1. IInv => ShortReadWaited
    BY DEF IInv
  <1> QED BY <1>1, InductiveInvariant, PTL

\* tcpclient, tcp and udp implement the byte stream, for arrivals of any size.
THEOREM Refinement == Spec => ImplementsByteStream
  <1>1. IInv /\ [Next]_vars => [Promise!Next]_Promise!svars
    BY NextKept DEF Kept, StreamStep, Promise!svars, NetSent, NetMark, Last
  <1> QED BY <1>1, InitIInv, InductiveInvariant, PTL
          DEF Spec, ImplementsByteStream, Promise!Spec

-----------------------------------------------------------------------------
\* Destinations

\* Only writes to a destination change one, to the address of its name; a write that raises
\* has changed none.
GoesWhereNamed ==
  /\ result'.status = "error" => remote' = remote
  /\ \/ remote'.host \in Hosts \cup {remote.host}
     \/ class = "udpport" /\ remote'.host = Broadcast

LEMMA DestinationStep ==
  ASSUME IInv, [Next]_vars, open, result'.op = "write"
  PROVE  GoesWhereNamed
  <1> USE DEF socketvars, objectvars
  <1>0. ASSUME remote' = remote
        PROVE  GoesWhereNamed
    BY <1>0 DEF GoesWhereNamed
  <1>1. ASSUME NEW to, Send(to) \/ SendCounted(to)
        PROVE  remote' = to /\ result'.status = "ok"
    <2>1. result' = Answer("write", "ok", "sent") \/ result' = Answer("write", "ok", "failed")
      BY <1>1 DEF Send, SendCounted, SendFails, NotOpen, Set
    <2>2. remote' = to
      BY <1>1 DEF Send, SendCounted, SendFails, NotOpen, Set
    <2> QED BY <2>1, <2>2 DEF Answer
  <1>2. CASE Writes
    <2>1. CASE TcpWrite \/ TcpclientWrite
      BY <1>0, <1>1, <2>1 DEF TcpWrite, TcpclientWrite
    <2>2. CASE UdpportWrite
      BY <1>0, <1>1, <2>2 DEF UdpportWrite, Set
    <2>3. ASSUME NEW h \in Hosts \cup {Unknown}, NEW p \in Ports, UdpWriteTo(h, p)
          PROVE  GoesWhereNamed
      <3>1. p \in Int
        BY NumberAssumption
      <3>2. \/ Set(Answer("write", "error", "destination"), remote)
            \/ \E to \in Address : to.host \in Hosts /\ Send(to)
        BY <2>3, <3>1, UdpWriteToShape
      <3>3. ASSUME NEW to, to.host \in Hosts, Send(to)
            PROVE  GoesWhereNamed
        BY <1>1, <3>3 DEF GoesWhereNamed
      <3> QED BY <1>0, <3>2, <3>3 DEF Set
    <2>4. ASSUME NEW h \in Hosts \cup {Unknown}, NEW p \in Ports, UdpportWriteTo(h, p)
          PROVE  GoesWhereNamed
      <3>1. PICK to : to = [host |-> Resolve(h), port |-> AsPort(p)]
        OBVIOUS
      <3>2. class = "udpport" /\ remote' = to /\ result'.status = "ok"
        BY <1>1, <2>4, <3>1 DEF UdpportWriteTo
      <3>3. to.host \in Hosts \cup {Broadcast}
        BY <3>1 DEF Resolve
      <3> QED BY <3>2, <3>3 DEF GoesWhereNamed
    <2> QED BY <1>2, <2>1, <2>2, <2>3, <2>4 DEF Writes
  <1>3. CASE \/ \E h \in Hosts \cup {Unknown} : SetRemoteHost(h)
             \/ \E p \in Ports : SetRemotePort(p)
    <2>1. PICK status \in {"ok", "error"} : result' = Answer("set", status, "set")
      BY <1>3 DEF SetRemoteHost, SetRemotePort, Set
    <2>2. result'.op = "set"
      BY <2>1 DEF Answer
    <2> QED BY <2>2
  <1>4. CASE \/ \E n \in Sizes : Arrive(n)
             \/ \E how \in {"closed", "reset"} : PeerEnds(how)
             \/ \E t \in Timeouts : TimeoutProperty(t) \/ TimeoutFunction(t)
             \/ Close
             \/ ReadLoop
             \/ Interrupt
             \/ UNCHANGED vars
    BY <1>0, <1>4 DEF Arrive, PeerEnds, TimeoutProperty, TimeoutFunction, SetTimeout, Close,
         ReadLoop, Receive, ReceiveEnd, CopyLeftover, ReceiveDatagram, ReceiveEmpty,
         SelectExpires, Interrupt, vars
  <1>5. CASE Reads
    <2>1. ASSUME NEW a, Tell(a)
          PROVE  remote' = remote
      BY <2>1 DEF Tell
    <2>2. ASSUME NEW op, NEW need, NEW ts, NEW tmo, Enter(op, need, ts, tmo)
          PROVE  remote' = remote
      BY <2>1, <2>2 DEF Enter
    <2>3. \/ \E a : Tell(a)
          \/ \E op, need, ts, tmo : Enter(op, need, ts, tmo)
      <3>1. CASE Flush
        BY <3>1 DEF Flush
      <3>2. ASSUME NEW n, NEW ts, \/ TcpclientRead(n, ts) \/ ReadCount(n, ts) \/ Fread(n, ts)
                                 \/ ReadAvailable(ts)
            PROVE  <2>3!:
        BY <3>2 DEF TcpclientRead, ReadCount, Fread, ReadAvailable
      <3>3. ASSUME NEW n, NEW t, \/ TcpclientReadByDefault(n) \/ TcpReadByDefault(n)
                                \/ UdpReadByDefault(n) \/ ReadFor(n, t)
            PROVE  <2>3!:
        BY <3>3 DEF TcpclientReadByDefault, TcpReadByDefault, UdpReadByDefault, ReadFor
      <3> QED BY <1>5, <3>1, <3>2, <3>3 DEF Reads, TcpclientReadAvailable
    <2> QED BY <1>0, <2>1, <2>2, <2>3
  <1> QED BY <1>2, <1>3, <1>4, <1>5 DEF Next

\* A write that raises leaves the destination where it was, the setters that write.m of udp
\* calls being undone; one that does not raise goes to a name that resolves, to where those
\* before it went or, of udpport, to 255.255.255.255.
THEOREM WritesGoWhereNamed == Spec => WritesKeepDestination
  <1>1. IInv /\ [Next]_vars =>
          [open /\ result'.op = "write" =>
             /\ result'.status = "error" => remote' = remote
             /\ \/ remote'.host \in Hosts \cup {remote.host}
                \/ class = "udpport" /\ remote'.host = Broadcast]_vars
    BY DestinationStep DEF GoesWhereNamed
  <1> QED BY <1>1, InductiveInvariant, PTL DEF Spec, WritesKeepDestination

==================================================
