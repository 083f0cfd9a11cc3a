------------------------------- MODULE UdpPort ------------------------------
(***************************************************************************)
(* The udpport interface: octave_udpport (udpport_class.cc) and the        *)
(* Octave-language methods that call it (inst/@octave_udpport).  Datagrams *)
(* of any size from any sender queue up on the socket; the program reads   *)
(* bytes.  What a read leaves of a datagram stays in the object's          *)
(* input_buffer for the next read.  The object is open throughout, and      *)
(* what it sends is left out.                                              *)
(***************************************************************************)
EXTENDS Integers, Sequences

CONSTANTS
  Sender,        \* the addresses datagrams come from
  Sizes,         \* the sizes of datagrams, 0 included
  Kilobyte,      \* the unit of input_buffer's length, 1024 in the code
  Second,        \* the longest single select, in ticks
  Timeouts,      \* Timeout values a program sets, in ticks; < 0 waits forever
  Counts,        \* explicit element counts given to read
  ElementSizes,  \* bytes per element of the datatypes given to read
  MaxDatagrams,  \* bound: datagrams that reach the socket
  Group          \* multicast groups

ASSUME SenderAssumption == Sender # {}
ASSUME UnitAssumption == Kilobyte \in Nat \ {0} /\ Second \in Nat \ {0}
ASSUME ArgumentAssumption ==
  /\ Sizes \subseteq Nat
  /\ Timeouts \subseteq Int
  /\ Counts \subseteq Nat
  /\ ElementSizes \subseteq Nat \ {0}
  /\ MaxDatagrams \in Nat

VARIABLES
  \* the socket
  grams,         \* the datagrams that reached the socket, oldest first
  origin,        \* origin[i]: who sent the i-th byte that reached the socket
  received,      \* how many of the datagrams recvfrom has returned
  \* the object
  input,         \* the bytes input_buffer holds, input_buffer[0 .. buffer_pos)
  buffer_len,    \* the length of input_buffer
  read_addr,     \* the sender of the latest datagram received
  timeout,       \* the Timeout property
  multicastaddr, \* the groups the object believes it has joined
  joined,        \* the groups the socket is a member of
  stuck,         \* history: those the socket was refused to leave
  \* the running call
  call,          \* its arguments and local variables
  buf,           \* the bytes it has read
  result         \* what the latest read or flush told the program

sockvars == <<grams, origin, received>>
objvars == <<input, buffer_len, read_addr, timeout>>
groupvars == <<multicastaddr, joined, stuck>>
callvars == <<call, buf, result>>
vars == <<grams, origin, received, input, buffer_len, read_addr, timeout,
          multicastaddr, joined, stuck, call, buf, result>>

-----------------------------------------------------------------------------
\* Values

Net == "net"                    \* the socket's queue, the one source of bytes
Byte == {Net} \X (Nat \ {0})    \* <<Net, i>>: the i-th byte that reached it
NoSender == "none"

Datagram == [from : Sender, first : Nat, size : Nat]

\* Its bytes, in order.
Payload(d) == [k \in 1 .. d.size |-> <<Net, d.first + k>>]

IdleCall ==
  [op |-> "idle", need |-> 0, tosize |-> 1, tmo |-> 0, left |-> 0, waited |-> 0,
   base |-> 0, avail |-> 0, src |-> NoSender]

NoResult ==
  [op |-> "none", status |-> "none", why |-> "none", bytes |-> << >>, src |-> NoSender,
   need |-> 0, avail |-> 0, tmo |-> 0, waited |-> 0]

\* int32 (x / s): Octave rounds to the nearest integer, halves upwards.
RoundDiv(x, s) == (2 * x + s) \div (2 * s)

\* mutant of RoundUp: the length rounded down to whole kilobytes.
RoundDown(n) == (n \div Kilobyte) * Kilobyte

\* (n + 1023) & ~0x3ff
RoundUp(n) == ((n + Kilobyte - 1) \div Kilobyte) * Kilobyte

Smaller(x, y) == IF x <= y THEN x ELSE y

\* The kernel holds a datagram, and the oldest one it holds.
Pending == received < Len(grams)
Oldest == grams[received + 1]

\* FIONREAD on a datagram socket: the size of the next datagram.
NextSize == IF Pending THEN Oldest.size ELSE 0

\* octave_udpport::get_bytesavailable
NumBytesAvailable == IF input # << >> THEN Len(input) ELSE NextSize

CallType ==
  [op : {"idle", "read", "flush"}, need : Nat, tosize : Nat \ {0}, tmo : Int, left : Int,
   waited : Nat, base : Nat, avail : Nat, src : Sender \cup {NoSender}]

ResultType ==
  [op : {"none", "read", "flush"}, status : {"none", "ok", "flushed", "error"},
   why : {"none", "full", "timeout", "torn", "empty", "interrupt"}, bytes : Seq(Byte),
   src : Sender \cup {NoSender}, need : Nat, avail : Nat, tmo : Int, waited : Nat]

TypeOK ==
  /\ grams \in Seq(Datagram)
  /\ origin \in Seq(Sender)
  /\ received \in Nat
  /\ input \in Seq(Byte)
  /\ buffer_len \in Nat
  /\ read_addr \in Sender \cup {NoSender}
  /\ timeout \in Int
  /\ multicastaddr \in Seq(Group)
  /\ joined \subseteq Group
  /\ stuck \subseteq Group
  /\ call \in CallType
  /\ buf \in Seq(Byte)
  /\ result \in ResultType

Init ==
  /\ grams = << >>
  /\ origin = << >>
  /\ received = 0
  /\ input = << >>
  /\ buffer_len = Kilobyte
  /\ read_addr = NoSender
  /\ timeout = -1
  /\ multicastaddr = << >>
  /\ joined = {}
  /\ stuck = {}
  /\ call = IdleCall
  /\ buf = << >>
  /\ result = NoResult

-----------------------------------------------------------------------------
\* The network (external)

\* A datagram of size n reaches the socket.  What was lost, duplicated or
\* reordered on the way shows only in which datagrams arrive.
Arrive(s, n) ==
  /\ Len(grams) < MaxDatagrams
  /\ grams' = Append(grams, [from |-> s, first |-> Len(origin), size |-> n])
  /\ origin' = origin \o [k \in 1 .. n |-> s]
  /\ UNCHANGED <<received, objvars, groupvars, callvars>>

-----------------------------------------------------------------------------
\* Calls

Callable == call.op = "idle"

SetTimeout(t) ==
  /\ Callable
  /\ t >= -1
  /\ timeout' = t
  /\ UNCHANGED <<sockvars, input, buffer_len, read_addr, groupvars, callvars>>

\* The bytes recvfrom has taken, and those of them that have left input_buffer.
Taken == IF Pending THEN Oldest.first ELSE Len(origin)
Consumed == Taken - Len(input)

\* Enter octave_udpport::read for a call of kind op.
Enter(op, need, ts, tmo) ==
  /\ call' = [op |-> op, need |-> need, tosize |-> ts, tmo |-> tmo, left |-> tmo,
              waited |-> 0, base |-> Consumed, avail |-> NumBytesAvailable,
              src |-> NoSender]
  /\ buf' = << >>
  /\ result' = NoResult

\* The running call returns to the program.
Finish(status, why, bytes, src, waited) ==
  /\ result' = [op |-> call.op, status |-> status, why |-> why, bytes |-> bytes,
                src |-> src, need |-> call.need, avail |-> call.avail,
                tmo |-> call.tmo, waited |-> waited]
  /\ call' = IdleCall
  /\ buf' = << >>

\* read (obj, cnt, datatype); need is in bytes.
Read(need, ts) ==
  /\ Callable
  /\ \/ /\ need = 0
        /\ result' = [NoResult EXCEPT !.op = "read", !.status = "ok", !.why = "full"]
        /\ UNCHANGED <<call, buf>>
     \/ /\ need > 0
        /\ Enter("read", need, ts, timeout)
  /\ UNCHANGED <<sockvars, objvars, groupvars>>

ReadCount(cnt, ts) == Read(cnt * ts, ts)
ReadDefault(ts) == Read(RoundDiv(NumBytesAvailable, ts) * ts, ts)

\* flush (obj): read and drop a kilobyte at a time, with timeout 0.
Flush ==
  /\ Callable
  /\ Enter("flush", Kilobyte, 1, 0)
  /\ UNCHANGED <<sockvars, objvars, groupvars>>

\* mutant of Return: flush forgets the leftover but not what is queued.
ReturnFlushesBuffer(b, inp, src, why, waited) ==
  \/ /\ call.op = "read"
     /\ input' = inp
     /\ \/ /\ Len(b) % call.tosize = 0
           /\ Finish("ok", why, b, src, waited)
        \/ /\ Len(b) % call.tosize # 0
           /\ Finish("error", "torn", << >>, NoSender, waited)
  \/ /\ call.op = "flush"
     /\ input' = << >>
     /\ Finish("flushed", why, << >>, NoSender, waited)

\* octave_udpport::read returns the bytes b, leaving inp in input_buffer.  The
\* source is reported only when there are bytes; typecast raises when an element
\* is torn; flush goes round again until a read returns nothing.
Return(b, inp, src, why, waited) ==
  \/ /\ call.op = "read"
     /\ input' = inp
     /\ \/ /\ Len(b) % call.tosize = 0
           /\ Finish("ok", why, b, src, waited)
        \/ /\ Len(b) % call.tosize # 0
           /\ Finish("error", "torn", << >>, NoSender, waited)
  \/ /\ call.op = "flush"
     /\ b = << >>
     /\ input' = << >>
     /\ Finish("flushed", why, << >>, NoSender, waited)
  \/ /\ call.op = "flush"
     /\ b # << >>
     /\ input' = inp
     /\ buf' = << >>
     /\ UNCHANGED <<call, result>>

\* mutant of Transfer: the leftover replaces what the call has read so far.
TransferOver(data, from) ==
  LET k == Smaller(call.need - Len(buf), Len(data))
      b == SubSeq(data, 1, k) \o SubSeq(buf, k + 1, Len(buf))
      rest == SubSeq(data, k + 1, Len(data))
  IN \/ /\ Len(b) < call.need
        /\ buf' = b
        /\ input' = rest
        /\ call' = IF call.op = "read" THEN [call EXCEPT !.src = from] ELSE call
        /\ UNCHANGED result
     \/ /\ Len(b) >= call.need
        /\ Return(b, rest, from, "full", call.waited)

\* Bytes move from input_buffer, which holds data received from from, to the
\* caller's buffer: as many as are there and still asked for.
Transfer(data, from) ==
  LET k == Smaller(call.need - Len(buf), Len(data))
      b == buf \o SubSeq(data, 1, k)
      rest == SubSeq(data, k + 1, Len(data))
  IN \/ /\ Len(b) < call.need
        /\ buf' = b
        /\ input' = rest
        /\ call' = IF call.op = "read" THEN [call EXCEPT !.src = from] ELSE call
        /\ UNCHANGED result
     \/ /\ Len(b) >= call.need
        /\ Return(b, rest, from, "full", call.waited)

\* One round of the loop that finds bytes left in input_buffer.
CopyLeftover ==
  /\ call.op # "idle"
  /\ input # << >>
  /\ Transfer(input, read_addr)
  /\ UNCHANGED <<sockvars, buffer_len, read_addr, timeout, groupvars>>

\* One round that finds a datagram: input_buffer grows to hold it, recvfrom
\* cuts off what does not fit, and the bytes move on at once.
ReceiveDatagram ==
  /\ call.op # "idle"
  /\ input = << >>
  /\ NextSize > 0
  /\ LET d == Oldest
     IN /\ buffer_len' = IF d.size > buffer_len THEN RoundUp(d.size) ELSE buffer_len
        /\ read_addr' = d.from
        /\ Transfer(SubSeq(Payload(d), 1, Smaller(d.size, buffer_len')), d.from)
  /\ received' = received + 1
  /\ UNCHANGED <<grams, origin, timeout, groupvars>>

\* One round that finds an empty datagram: recvfrom returns 0, which is reported
\* as a lost connection, and what the call had read is lost with it.
ReceiveEmpty ==
  /\ call.op # "idle"
  /\ input = << >>
  /\ Pending
  /\ NextSize = 0
  /\ read_addr' = Oldest.from
  /\ received' = received + 1
  /\ Finish("error", "empty", << >>, NoSender, call.waited)
  /\ UNCHANGED <<grams, origin, input, buffer_len, timeout, groupvars>>

\* mutant of SelectExpires: the timeout counts only while nothing was read.
SelectExpiresUnread ==
  /\ call.op # "idle"
  /\ buf = << >>
  /\ input = << >>
  /\ ~Pending
  /\ call.left >= 0
  /\ \/ /\ call.left <= Second
        /\ Return(buf, input, call.src, "timeout", call.waited + call.left)
     \/ /\ call.left > Second
        /\ call' = [call EXCEPT !.left = @ - Second, !.waited = @ + Second]
        /\ UNCHANGED <<input, buf, result>>
  /\ UNCHANGED <<sockvars, buffer_len, read_addr, timeout, groupvars>>

\* select expires with nothing to read.  A negative timeout is never used up:
\* its expiry changes nothing and is left to stuttering.
SelectExpires ==
  /\ call.op # "idle"
  /\ input = << >>
  /\ ~Pending
  /\ call.left >= 0
  /\ \/ /\ call.left <= Second
        /\ Return(buf, input, call.src, "timeout", call.waited + call.left)
     \/ /\ call.left > Second
        /\ call' = [call EXCEPT !.left = @ - Second, !.waited = @ + Second]
        /\ UNCHANGED <<input, buf, result>>
  /\ UNCHANGED <<sockvars, buffer_len, read_addr, timeout, groupvars>>

\* The user interrupts (OCTAVE_QUIT, or select failing with EINTR).
Interrupt ==
  /\ call.op # "idle"
  /\ Finish("error", "interrupt", << >>, NoSender, call.waited)
  /\ UNCHANGED <<sockvars, objvars, groupvars>>

-----------------------------------------------------------------------------
\* Multicast

\* The groups stored in the object.
Listed == {multicastaddr[i] : i \in DOMAIN multicastaddr}

\* "off": the socket is asked to leave every group stored; what setsockopt says
\* is not looked at, and the list is empty afterwards.
LeaveAll ==
  \E refused \in SUBSET Listed :
    /\ joined' = joined \ (Listed \ refused)
    /\ stuck' = stuck \cup refused
    /\ multicastaddr' = << >>

\* mutant of SetMulticastGroup: the group is stored before it is joined.
SetMulticastGroupFirst(g) ==
  \/ /\ g = "off"
     /\ LeaveAll
  \/ /\ g \in Group
     /\ multicastaddr' = Append(multicastaddr, g)
     /\ joined' = joined \cup {g}
     /\ UNCHANGED stuck

\* octave_udpport::set_multicastgroup.  Joining fails for a group the socket is
\* in already, and may fail otherwise; only a group that was joined is stored.
SetMulticastGroup(g) ==
  \/ /\ g = "off"
     /\ LeaveAll
  \/ /\ g \in Group \ joined
     /\ joined' = joined \cup {g}
     /\ multicastaddr' = Append(multicastaddr, g)
     /\ UNCHANGED stuck
  \/ /\ g \in Group
     /\ UNCHANGED groupvars

ConfigureMulticast(g) ==
  /\ Callable
  /\ SetMulticastGroup(g)
  /\ UNCHANGED <<sockvars, objvars, callvars>>

-----------------------------------------------------------------------------

ReadLoop == CopyLeftover \/ ReceiveDatagram \/ ReceiveEmpty \/ SelectExpires

Next ==
  \/ \E s \in Sender : \E n \in Sizes : Arrive(s, n)
  \/ \E t \in Timeouts : SetTimeout(t)
  \/ \E ts \in ElementSizes : \E cnt \in Counts : ReadCount(cnt, ts)
  \/ \E ts \in ElementSizes : ReadDefault(ts)
  \/ Flush
  \/ \E g \in Group \cup {"off"} : ConfigureMulticast(g)
  \/ ReadLoop
  \/ Interrupt

Spec == Init /\ [][Next]_vars

\* A running call is scheduled; the network, the program and the user are not fair.
FairSpec == Spec /\ WF_vars(ReadLoop)

-----------------------------------------------------------------------------
\* Properties

\* The bytes consumed by calls that have been answered.
Mark == [s \in {Net} |-> IF call.op = "idle" THEN Consumed ELSE call.base]

Stream == INSTANCE ByteStream
  WITH Source <- {Net}, sent <- [s \in {Net} |-> Len(origin)], mark <- Mark,
       last <- [status |-> result.status, bytes |-> result.bytes]

\* The object implements the byte stream, the source being the socket's queue:
\* whatever the sizes of the datagrams and of the reads, no byte of a datagram is
\* cut off, repeated or reordered, and bytes vanish only with a flush or an error.
ImplementsByteStream == Stream!Spec

\* What input_buffer holds is the end of the latest datagram received, and
\* read_addr is the sender of all of it.
LeftoverIsTail ==
  \A i \in DOMAIN input :
    /\ input[i] = <<Net, Consumed + i>>
    /\ origin[Consumed + i] = read_addr

\* A read of no more than NumBytesAvailable never waits and always gets it all,
\* unless the user interrupts it.
AvailableNeverWaits ==
  result.op = "read" /\ result.need <= result.avail =>
    /\ result.waited = 0
    /\ result.why \in {"full", "interrupt"}

\* A flush that returns normally leaves nothing, neither in input_buffer nor on
\* the socket.
FlushDrains ==
  [][call.op = "flush" /\ result'.status = "flushed" =>
       input' = << >> /\ received' = Len(grams')]_vars

\* A read with a timeout returns.
TimedReadReturns == (call.op = "read" /\ call.left >= 0) ~> (call.op = "idle")

\* Whatever is joined, left and refused, every group stored is one the socket is
\* in, and stored once; a group the socket is in that is not stored is one it was
\* refused to leave.  Such a group stays joined until close: set_multicastgroup
\* can neither join it again nor, as it is not stored, leave it.
MembershipAccounted ==
  /\ joined = Listed \cup stuck
  /\ Listed \cap stuck = {}
  /\ \A i, j \in DOMAIN multicastaddr : multicastaddr[i] = multicastaddr[j] => i = j

=============================================================================
