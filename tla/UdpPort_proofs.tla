--------------------------- MODULE UdpPort_proofs --------------------------
(***************************************************************************)
(* Proofs about UdpPort, for datagrams, reads and timeouts of any size,    *)
(* any senders and groups, and any unit of input_buffer.                   *)
(***************************************************************************)
EXTENDS UdpPort, TLAPS

-----------------------------------------------------------------------------
\* The inductive invariant, part by part

\* s is the piece of the socket's stream that follows its i-th byte.
Piece(s, i) ==
  /\ s \in Seq(Byte)
  /\ \A x \in 1 .. Len(s) : s[x] = <<Net, i + x>>

\* The bytes of the first i datagrams.
End(i) == IF i < Len(grams) THEN grams[i + 1].first ELSE Len(origin)

\* The datagrams lie end to end, and each is from one sender.
GramsInv ==
  /\ received <= Len(grams)
  /\ \A i \in 1 .. Len(grams) :
       /\ grams[i].first + grams[i].size = End(i)
       /\ End(i) <= Len(origin)
       /\ \A k \in 1 .. grams[i].size : origin[grams[i].first + k] = grams[i].from

\* What input_buffer holds was received.
InputInv == Consumed >= 0 /\ LeftoverIsTail

\* A running call still lacks bytes and has told the program nothing yet; what it
\* has is the end of what was consumed, and all of it in a read.
CallInv ==
  call.op # "idle" =>
    /\ Len(buf) < call.need
    /\ result = NoResult
    /\ call.base + Len(buf) <= Consumed
    /\ Piece(buf, Consumed - Len(buf))
    /\ call.op = "read" =>
         /\ call.need % call.tosize = 0
         /\ call.base + Len(buf) = Consumed

\* A read of no more than was available has it ahead in one piece.
AvailInv ==
  call.op = "read" /\ call.need <= call.avail =>
    /\ NumBytesAvailable = call.avail
    /\ buf = << >>
    /\ call.waited = 0

IInv ==
  /\ TypeOK
  /\ GramsInv
  /\ InputInv
  /\ CallInv
  /\ AvailInv
  /\ AvailableNeverWaits
  /\ MembershipAccounted

-----------------------------------------------------------------------------
\* Facts about the operators

\* input_buffer grows to at least the size of the datagram.
LEMMA RoundUpHolds ==
  ASSUME NEW n \in Nat
  PROVE  RoundUp(n) \in Nat /\ n <= RoundUp(n)
  <1> DEFINE a == n + Kilobyte - 1
             q == a \div Kilobyte
  <1>1. Kilobyte \in Nat /\ Kilobyte > 0 /\ a \in Nat
    BY UnitAssumption
  <1>2. q \in Nat /\ a = q * Kilobyte + (a % Kilobyte) /\ a % Kilobyte \in 0 .. Kilobyte - 1
    BY <1>1
  <1>3. q * Kilobyte \in Nat /\ n <= q * Kilobyte
    BY <1>1, <1>2
  <1> QED BY <1>3 DEF RoundUp

LEMMA RoundDivNat ==
  ASSUME NEW x \in Nat, NEW s \in Nat \ {0}
  PROVE  RoundDiv(x, s) \in Nat
  <1>1. 2 * x + s \in Nat /\ 2 * s \in Nat \ {0}
    OBVIOUS
  <1> QED BY <1>1 DEF RoundDiv

LEMMA ProductWhole ==
  ASSUME NEW x \in Nat, NEW s \in Nat \ {0}
  PROVE  x * s \in Nat /\ (x * s) % s = 0
  OBVIOUS

LEMMA IdleCallType == IdleCall \in CallType
  BY DEF IdleCall, CallType

LEMMA NoResultType == NoResult \in ResultType
  BY DEF NoResult, ResultType

\* The bytes of a datagram are a piece of the stream.
LEMMA PayloadPiece ==
  ASSUME NEW d \in Datagram
  PROVE  Piece(Payload(d), d.first) /\ Len(Payload(d)) = d.size
  <1>1. d.first \in Nat /\ d.size \in Nat
    BY DEF Datagram
  <1>2. \A k \in 1 .. d.size : <<Net, d.first + k>> \in Byte
    BY <1>1 DEF Byte
  <1> QED BY <1>1, <1>2 DEF Payload, Piece

\* A piece cut in two.
LEMMA CutPiece ==
  ASSUME NEW i \in Nat, NEW s, Piece(s, i), NEW k \in 0 .. Len(s)
  PROVE  /\ Piece(SubSeq(s, 1, k), i) /\ Len(SubSeq(s, 1, k)) = k
         /\ Piece(SubSeq(s, k + 1, Len(s)), i + k)
         /\ Len(SubSeq(s, k + 1, Len(s))) = Len(s) - k
  <1>1. s \in Seq(Byte) /\ Len(s) \in Nat
    BY DEF Piece
  <1>2. SubSeq(s, 1, k) \in Seq(Byte) /\ Len(SubSeq(s, 1, k)) = k
        /\ \A x \in 1 .. k : SubSeq(s, 1, k)[x] = s[x]
    BY <1>1
  <1>3. SubSeq(s, k + 1, Len(s)) \in Seq(Byte) /\ Len(SubSeq(s, k + 1, Len(s))) = Len(s) - k
        /\ \A x \in 1 .. Len(s) - k : SubSeq(s, k + 1, Len(s))[x] = s[k + x]
    BY <1>1
  <1>4. ASSUME NEW x \in 1 .. Len(s) - k PROVE s[k + x] = <<Net, (i + k) + x>>
    <2>1. k + x \in 1 .. Len(s) /\ i + (k + x) = (i + k) + x
      BY <1>1
    <2> QED BY <2>1 DEF Piece
  <1>5. Piece(SubSeq(s, 1, k), i)
    BY <1>1, <1>2 DEF Piece
  <1>6. Piece(SubSeq(s, k + 1, Len(s)), i + k)
    BY <1>1, <1>3, <1>4 DEF Piece
  <1> QED BY <1>2, <1>3, <1>5, <1>6

\* Two pieces of the stream put together.
LEMMA JoinPieces ==
  ASSUME NEW i \in Nat, NEW s, NEW t, Piece(s, i), Piece(t, i + Len(s))
  PROVE  Piece(s \o t, i) /\ Len(s \o t) = Len(s) + Len(t)
  <1>1. s \in Seq(Byte) /\ t \in Seq(Byte)
    BY DEF Piece
  <1>2. s \o t \in Seq(Byte) /\ Len(s \o t) = Len(s) + Len(t)
    BY <1>1
  <1>3. ASSUME NEW x \in 1 .. Len(s \o t) PROVE (s \o t)[x] = <<Net, i + x>>
    <2>1. CASE x <= Len(s)
      BY <2>1, <1>1, <1>2 DEF Piece
    <2>2. CASE x > Len(s)
      <3>1. (s \o t)[x] = t[x - Len(s)] /\ x - Len(s) \in 1 .. Len(t)
        BY <2>2, <1>1, <1>2
      <3>2. (i + Len(s)) + (x - Len(s)) = i + x
        BY <1>1, <1>2
      <3> QED BY <3>1, <3>2 DEF Piece
    <2> QED BY <1>1, <1>2, <2>1, <2>2
  <1> QED BY <1>2, <1>3 DEF Piece

-----------------------------------------------------------------------------
\* The initial state, the network and the quiet steps

LEMMA InitIInv == Init => IInv
  <1> SUFFICES ASSUME Init PROVE IInv
    OBVIOUS
  <1>1. TypeOK
    BY IdleCallType, NoResultType, UnitAssumption DEF Init, TypeOK
  <1>2. GramsInv
    BY DEF Init, GramsInv, End
  <1>3. InputInv
    BY DEF Init, InputInv, Consumed, Taken, Pending, LeftoverIsTail
  <1>4. CallInv /\ AvailInv /\ AvailableNeverWaits
    BY DEF Init, CallInv, AvailInv, AvailableNeverWaits, IdleCall, NoResult
  <1>5. MembershipAccounted
    BY DEF Init, MembershipAccounted, Listed
  <1> QED BY <1>1, <1>2, <1>3, <1>4, <1>5 DEF IInv

\* What the socket and the object are known to be.
LEMMA Known ==
  ASSUME IInv
  PROVE  /\ grams \in Seq(Datagram) /\ Len(grams) \in Nat
         /\ origin \in Seq(Sender) /\ Len(origin) \in Nat
         /\ received \in 0 .. Len(grams)
         /\ input \in Seq(Byte) /\ Len(input) \in Nat
         /\ Taken = End(received) /\ Taken \in 0 .. Len(origin)
         /\ Consumed \in Nat /\ Consumed = Taken - Len(input)
         /\ Piece(input, Consumed)
         /\ NumBytesAvailable \in Nat
         /\ call \in CallType
  <1>1. /\ grams \in Seq(Datagram) /\ Len(grams) \in Nat
        /\ origin \in Seq(Sender) /\ Len(origin) \in Nat
        /\ received \in Nat /\ received <= Len(grams)
        /\ input \in Seq(Byte) /\ Len(input) \in Nat
        /\ call \in CallType
    BY DEF IInv, TypeOK, GramsInv
  <1>2. Taken = End(received)
    BY DEF Taken, End, Pending, Oldest
  <1>3. Taken \in 0 .. Len(origin) /\ NextSize \in Nat
    <2>1. CASE Pending
      <3>1. received + 1 \in 1 .. Len(grams)
        BY <1>1, <2>1 DEF Pending
      <3>2. Oldest \in Datagram /\ Oldest.first \in Nat /\ Oldest.size \in Nat
        <4>1. Oldest \in Datagram
          BY <1>1, <3>1 DEF Oldest
        <4> QED BY <4>1 DEF Datagram
      <3>3. Oldest.first + Oldest.size <= Len(origin)
        BY <3>1 DEF IInv, GramsInv, Oldest
      <3> QED BY <1>1, <2>1, <3>2, <3>3 DEF Taken, NextSize
    <2>2. CASE ~Pending
      BY <1>1, <2>2 DEF Taken, NextSize
    <2> QED BY <2>1, <2>2
  <1>4. Consumed \in Nat /\ Consumed = Taken - Len(input)
    BY <1>1, <1>3 DEF IInv, InputInv, Consumed
  <1>5. Piece(input, Consumed)
    BY <1>1 DEF IInv, InputInv, LeftoverIsTail, Piece
  <1>6. NumBytesAvailable \in Nat
    BY <1>1, <1>3 DEF NumBytesAvailable
  <1> QED BY <1>1, <1>2, <1>3, <1>4, <1>5, <1>6

\* A datagram that arrives goes behind all the others.
LEMMA ArriveIInv ==
  ASSUME IInv, NEW s \in Sender, NEW n \in Sizes, Arrive(s, n)
  PROVE  IInv' /\ Consumed' = Consumed
  <1> DEFINE d == [from |-> s, first |-> Len(origin), size |-> n]
  <1> USE DEF objvars, groupvars, callvars
  <1>1. /\ grams' = Append(grams, d) /\ n \in Nat
        /\ origin' = origin \o [k \in 1 .. n |-> s]
        /\ UNCHANGED <<received, input, buffer_len, read_addr, timeout, multicastaddr, joined,
                       stuck, call, buf, result>>
    BY ArgumentAssumption DEF Arrive
  <1>2. d \in Datagram /\ d.first = Len(origin) /\ d.size = n /\ d.from = s
    BY <1>1, Known DEF Datagram
  <1> HIDE DEF d
  <1>3. /\ grams' \in Seq(Datagram) /\ Len(grams') = Len(grams) + 1
        /\ grams'[Len(grams) + 1] = d
        /\ \A i \in 1 .. Len(grams) : grams'[i] = grams[i]
    BY <1>1, <1>2, Known
  <1>4. /\ origin' \in Seq(Sender) /\ Len(origin') = Len(origin) + n
        /\ \A i \in 1 .. Len(origin) : origin'[i] = origin[i]
        /\ \A k \in 1 .. n : origin'[Len(origin) + k] = s
    <2>1. [k \in 1 .. n |-> s] \in Seq(Sender) /\ Len([k \in 1 .. n |-> s]) = n
      BY <1>1
    <2> QED BY <1>1, <2>1, Known
  <1>5. \A i \in 0 .. Len(grams) : End(i)' = End(i)
    <2> SUFFICES ASSUME NEW i \in 0 .. Len(grams) PROVE End(i)' = End(i)
      OBVIOUS
    <2>1. CASE i < Len(grams)
      <3>1. i + 1 \in 1 .. Len(grams) /\ i < Len(grams')
        BY <1>3, <2>1, Known
      <3>2. grams'[i + 1] = grams[i + 1]
        BY <1>3, <3>1
      <3> QED BY <2>1, <3>1, <3>2 DEF End
    <2>2. CASE i = Len(grams)
      BY <1>2, <1>3, <2>2, Known DEF End
    <2> QED BY <2>1, <2>2, Known
  <1>6. GramsInv'
    <2>1. received' <= Len(grams')
      BY <1>1, <1>3, Known
    <2>2. ASSUME NEW i \in 1 .. Len(grams)
          PROVE  /\ grams'[i].first + grams'[i].size = End(i)'
                 /\ End(i)' <= Len(origin')
                 /\ \A k \in 1 .. grams'[i].size : origin'[grams'[i].first + k] = grams'[i].from
      <3>1. /\ grams[i].first + grams[i].size = End(i) /\ End(i) <= Len(origin)
            /\ \A k \in 1 .. grams[i].size : origin[grams[i].first + k] = grams[i].from
        BY DEF IInv, GramsInv
      <3>2. grams'[i] = grams[i] /\ End(i)' = End(i) /\ grams[i] \in Datagram
        BY <1>3, <1>5, Known
      <3>3. grams[i].first \in Nat /\ grams[i].size \in Nat
        BY <3>2 DEF Datagram
      <3>4. \A k \in 1 .. grams[i].size : grams[i].first + k \in 1 .. Len(origin)
        BY <3>1, <3>3, Known
      <3>5. grams'[i].first + grams'[i].size = End(i)' /\ End(i) \in Int
        BY <3>1, <3>2, <3>3
      <3>6. End(i)' <= Len(origin')
        BY <1>1, <1>4, <3>1, <3>2, <3>5, Known
      <3>7. \A k \in 1 .. grams'[i].size : origin'[grams'[i].first + k] = grams'[i].from
        BY <1>4, <3>1, <3>2, <3>4
      <3> QED BY <3>5, <3>6, <3>7
    <2>0. PICK latest \in Nat : latest = Len(grams) + 1
      BY Known
    <2>3. /\ d.first + d.size = End(latest)'
          /\ End(latest)' <= Len(origin')
          /\ \A k \in 1 .. d.size : origin'[d.first + k] = d.from
      BY <1>1, <1>2, <1>3, <1>4, <2>0, Known DEF End
    <2>4. \A i \in 1 .. Len(grams') : i \in 1 .. Len(grams) \/ i = latest
      BY <1>3, <2>0, Known
    <2>5. ASSUME NEW i \in 1 .. Len(grams')
          PROVE  /\ grams'[i].first + grams'[i].size = End(i)'
                 /\ End(i)' <= Len(origin')
                 /\ \A k \in 1 .. grams'[i].size : origin'[grams'[i].first + k] = grams'[i].from
      <3>1. CASE i \in 1 .. Len(grams)
        BY <2>2, <3>1
      <3>2. CASE i = latest
        BY <1>3, <2>0, <2>3, <3>2
      <3> QED BY <2>4, <3>1, <3>2
    <2> QED BY <2>1, <2>5 DEF GramsInv
  <1>7. Taken' = Taken /\ Consumed' = Consumed
    <2>1. Taken' = End(received)'
      BY DEF Taken, End, Pending, Oldest
    <2>2. End(received)' = End(received)
      BY <1>1, <1>5, Known DEF End
    <2> QED BY <1>1, <2>1, <2>2, Known DEF Consumed
  <1>8. InputInv'
    <2>1. ASSUME NEW i \in DOMAIN input
          PROVE  input'[i] = <<Net, Consumed' + i>> /\ origin'[Consumed' + i] = read_addr'
      <3>1. Consumed + i \in 1 .. Len(origin)
        BY Known
      <3> QED BY <1>1, <1>4, <1>7, <3>1 DEF IInv, InputInv, LeftoverIsTail
    <2> QED BY <1>1, <1>7, <2>1, Known DEF InputInv, LeftoverIsTail
  <1>9. TypeOK'
    BY <1>1, <1>3, <1>4 DEF IInv, TypeOK
  <1>10. CallInv'
    BY <1>1, <1>7 DEF IInv, CallInv, Piece
  <1>11. AvailInv'
    <2>1. ASSUME NumBytesAvailable > 0 PROVE NumBytesAvailable' = NumBytesAvailable
      <3>1. CASE input # << >>
        BY <1>1, <3>1 DEF NumBytesAvailable
      <3>2. CASE input = << >> /\ Pending
        BY <1>1, <1>3, <3>2, Known DEF NumBytesAvailable, NextSize, Pending, Oldest
      <3> QED BY <2>1, <3>1, <3>2 DEF NumBytesAvailable, NextSize
    <2>2. call.op = "read" => call.need > 0 /\ call.avail \in Nat /\ call.need \in Nat
      BY DEF IInv, TypeOK, CallType, CallInv
    <2> QED BY <1>1, <2>1, <2>2 DEF IInv, AvailInv
  <1>12. AvailableNeverWaits' /\ MembershipAccounted'
    BY <1>1 DEF IInv, AvailableNeverWaits, MembershipAccounted, Listed
  <1> QED BY <1>6, <1>7, <1>8, <1>9, <1>10, <1>11, <1>12 DEF IInv

\* With no call running nothing is said of one.
LEMMA IdleParts ==
  ASSUME call'.op = "idle"
  PROVE  CallInv' /\ AvailInv'
  BY DEF CallInv, AvailInv

\* The socket and input_buffer as they were say the same of what was received.
LEMMA QuietSocket ==
  ASSUME IInv, UNCHANGED <<grams, origin, received, input, read_addr>>
  PROVE  /\ GramsInv' /\ InputInv'
         /\ Consumed' = Consumed /\ NumBytesAvailable' = NumBytesAvailable
  <1>1. GramsInv'
    BY DEF IInv, GramsInv, End
  <1>2. Consumed' = Consumed /\ NumBytesAvailable' = NumBytesAvailable
    BY DEF Consumed, Taken, NumBytesAvailable, NextSize, Pending, Oldest
  <1>3. InputInv'
    BY <1>2 DEF IInv, InputInv, LeftoverIsTail
  <1> QED BY <1>1, <1>2, <1>3

LEMMA SetTimeoutIInv ==
  ASSUME IInv, NEW t \in Timeouts, SetTimeout(t)
  PROVE  IInv'
  <1> USE DEF SetTimeout, Callable, sockvars, groupvars, callvars
  <1>1. TypeOK'
    BY ArgumentAssumption DEF IInv, TypeOK
  <1>2. GramsInv' /\ InputInv'
    BY QuietSocket
  <1>3. CallInv' /\ AvailInv'
    BY IdleParts
  <1>4. AvailableNeverWaits' /\ MembershipAccounted'
    BY DEF IInv, AvailableNeverWaits, MembershipAccounted, Listed
  <1> QED BY <1>1, <1>2, <1>3, <1>4 DEF IInv

\* Only a group that was joined is stored, and it was not stored before; "off"
\* keeps among the groups joined those the socket was refused to leave.
LEMMA ConfigureMulticastIInv ==
  ASSUME IInv, NEW g \in Group \cup {"off"}, ConfigureMulticast(g)
  PROVE  IInv'
  <1> USE DEF ConfigureMulticast, Callable, sockvars, objvars, callvars
  <1>1. /\ multicastaddr \in Seq(Group) /\ joined \subseteq Group /\ stuck \subseteq Group
        /\ joined = Listed \cup stuck
        /\ Listed \cap stuck = {}
        /\ \A i, j \in DOMAIN multicastaddr : multicastaddr[i] = multicastaddr[j] => i = j
    BY DEF IInv, TypeOK, MembershipAccounted, Listed
  <1>a. Listed \subseteq Group
    BY <1>1 DEF Listed
  <1>2. /\ multicastaddr' \in Seq(Group) /\ joined' \subseteq Group /\ stuck' \subseteq Group
        /\ MembershipAccounted'
    <2>1. CASE LeaveAll
      <3>1. Listed' = {}
        BY <2>1 DEF LeaveAll, Listed
      <3> QED BY <1>1, <1>a, <2>1, <3>1 DEF LeaveAll, MembershipAccounted, Listed
    <2>2. CASE /\ g \in Group \ joined
               /\ joined' = joined \cup {g}
               /\ multicastaddr' = Append(multicastaddr, g)
               /\ UNCHANGED stuck
      <3>1. /\ multicastaddr' \in Seq(Group)
            /\ DOMAIN multicastaddr' = 1 .. Len(multicastaddr) + 1
            /\ DOMAIN multicastaddr = 1 .. Len(multicastaddr) /\ Len(multicastaddr) \in Nat
            /\ \A i \in DOMAIN multicastaddr : multicastaddr'[i] = multicastaddr[i]
            /\ multicastaddr'[Len(multicastaddr) + 1] = g
        BY <1>1, <2>2
      <3>2. Listed' = Listed \cup {g}
        BY <3>1 DEF Listed
      <3>3. \A i, j \in DOMAIN multicastaddr' : multicastaddr'[i] = multicastaddr'[j] => i = j
        BY <1>1, <2>2, <3>1 DEF Listed
      <3> QED BY <1>1, <2>2, <3>1, <3>2, <3>3 DEF MembershipAccounted, Listed
    <2>3. CASE UNCHANGED groupvars
      BY <1>1, <2>3 DEF MembershipAccounted, Listed, groupvars
    <2> QED BY <2>1, <2>2, <2>3 DEF SetMulticastGroup
  <1>3. TypeOK'
    BY <1>2 DEF IInv, TypeOK
  <1>4. GramsInv' /\ InputInv'
    BY QuietSocket
  <1>5. CallInv' /\ AvailInv'
    BY IdleParts
  <1>6. AvailableNeverWaits'
    BY DEF IInv, AvailableNeverWaits
  <1> QED BY <1>2, <1>3, <1>4, <1>5, <1>6 DEF IInv

-----------------------------------------------------------------------------
\* Calls begin

\* A call that is entered lacks everything and has waited for nothing.
LEMMA EnterIInv ==
  ASSUME IInv, NEW op \in {"read", "flush"}, NEW need \in Nat, need > 0,
         NEW ts \in Nat \ {0}, need % ts = 0, NEW tmo \in Int,
         Enter(op, need, ts, tmo), UNCHANGED <<sockvars, objvars, groupvars>>
  PROVE  IInv'
  <1> USE DEF sockvars, objvars, groupvars
  <1>1. Consumed \in Nat /\ NumBytesAvailable \in Nat
    BY Known
  <1>2. /\ call' \in CallType /\ call'.op = op /\ call'.need = need /\ call'.tosize = ts
        /\ call'.base = Consumed /\ call'.avail = NumBytesAvailable /\ call'.waited = 0
        /\ buf' = << >> /\ result' = NoResult
    BY <1>1 DEF Enter, CallType
  <1>3. TypeOK'
    BY <1>2, NoResultType DEF IInv, TypeOK
  <1>4. GramsInv' /\ InputInv' /\ Consumed' = Consumed /\ NumBytesAvailable' = NumBytesAvailable
    BY QuietSocket
  <1>5. CallInv' /\ AvailInv'
    BY <1>1, <1>2, <1>4 DEF CallInv, AvailInv, Piece
  <1>6. AvailableNeverWaits' /\ MembershipAccounted'
    BY <1>2 DEF IInv, AvailableNeverWaits, MembershipAccounted, Listed, NoResult
  <1> QED BY <1>3, <1>4, <1>5, <1>6 DEF IInv

LEMMA ReadIInv ==
  ASSUME IInv, NEW cnt \in Nat, NEW ts \in Nat \ {0}, Read(cnt * ts, ts)
  PROVE  IInv'
  <1> DEFINE need == cnt * ts
  <1>1. need \in Nat /\ need % ts = 0 /\ timeout \in Int
    BY ProductWhole DEF IInv, TypeOK
  <1>2. UNCHANGED <<sockvars, objvars, groupvars>> /\ call.op = "idle"
    BY DEF Read, Callable
  <1>3. CASE /\ need = 0
             /\ result' = [NoResult EXCEPT !.op = "read", !.status = "ok", !.why = "full"]
             /\ UNCHANGED <<call, buf>>
    <2> USE DEF sockvars, objvars, groupvars
    <2>1. result' \in ResultType /\ result'.why = "full" /\ result'.waited = 0
      <3>1. result' = [op |-> "read", status |-> "ok", why |-> "full", bytes |-> << >>,
                       src |-> NoSender, need |-> 0, avail |-> 0, tmo |-> 0, waited |-> 0]
        BY <1>3 DEF NoResult
      <3> QED BY <3>1 DEF ResultType
    <2>2. TypeOK'
      BY <1>2, <1>3, <2>1 DEF IInv, TypeOK
    <2>3. GramsInv' /\ InputInv'
      BY <1>2, QuietSocket
    <2>4. CallInv' /\ AvailInv'
      BY <1>2, <1>3, IdleParts
    <2>5. AvailableNeverWaits' /\ MembershipAccounted'
      BY <1>2, <2>1 DEF IInv, AvailableNeverWaits, MembershipAccounted, Listed
    <2> QED BY <2>2, <2>3, <2>4, <2>5 DEF IInv
  <1>4. CASE need > 0 /\ Enter("read", need, ts, timeout)
    <2> HIDE DEF need
    <2> QED BY <1>1, <1>2, <1>4, EnterIInv
  <1> QED BY <1>3, <1>4 DEF Read

LEMMA ReadDefaultIInv ==
  ASSUME IInv, NEW ts \in Nat \ {0}, ReadDefault(ts)
  PROVE  IInv'
  <1>1. RoundDiv(NumBytesAvailable, ts) \in Nat
    BY Known, RoundDivNat
  <1> QED BY <1>1, ReadIInv DEF ReadDefault

LEMMA FlushIInv ==
  ASSUME IInv, Flush
  PROVE  IInv'
  <1>1. Kilobyte \in Nat /\ Kilobyte > 0 /\ Kilobyte % 1 = 0
    BY UnitAssumption
  <1> QED BY <1>1, EnterIInv DEF Flush

-----------------------------------------------------------------------------
\* Calls go on

\* What a running call is known to be.
LEMMA Running ==
  ASSUME IInv, call.op # "idle"
  PROVE  /\ call.op \in {"read", "flush"} /\ call.need \in Nat /\ call.tosize \in Nat \ {0}
         /\ call.left \in Int /\ call.waited \in Nat /\ call.base \in Nat
         /\ call.avail \in Nat /\ call.src \in Sender \cup {NoSender}
         /\ buf \in Seq(Byte) /\ Len(buf) \in Nat /\ Len(buf) < call.need
         /\ result = NoResult
         /\ Consumed - Len(buf) \in Nat /\ call.base <= Consumed - Len(buf)
         /\ Piece(buf, Consumed - Len(buf))
         /\ call.op = "read" => /\ call.need % call.tosize = 0
                                /\ call.base = Consumed - Len(buf)
  <1>1. /\ call \in CallType /\ buf \in Seq(Byte) /\ Len(buf) \in Nat
        /\ Consumed \in Nat
    BY Known DEF IInv, TypeOK
  <1> QED BY <1>1 DEF IInv, CallInv, CallType

\* A call that is answered leaves the object idle, and the answer speaks of it.
LEMMA FinishIInv ==
  ASSUME IInv, call.op # "idle", UNCHANGED <<grams, origin, timeout, groupvars>>,
         received' \in Nat, input' \in Seq(Byte), buffer_len' \in Nat,
         read_addr' \in Sender \cup {NoSender}, GramsInv', InputInv',
         NEW status \in {"ok", "flushed", "error"},
         NEW why \in {"full", "timeout", "torn", "empty", "interrupt"},
         NEW bytes \in Seq(Byte), NEW src \in Sender \cup {NoSender}, NEW waited \in Nat,
         Finish(status, why, bytes, src, waited),
         call.op = "read" /\ call.need <= call.avail =>
           waited = 0 /\ why \in {"full", "interrupt"}
  PROVE  IInv'
  <1> USE DEF groupvars
  <1>1. /\ result' \in ResultType /\ result'.op = call.op /\ result'.why = why
        /\ result'.need = call.need /\ result'.avail = call.avail
        /\ result'.waited = waited
    <2>1. /\ call.op \in {"read", "flush"} /\ call.need \in Nat /\ call.avail \in Nat
          /\ call.tmo \in Int
      BY Running DEF IInv, TypeOK, CallType
    <2> QED BY <2>1 DEF Finish, ResultType
  <1>2. call' = IdleCall /\ buf' \in Seq(Byte)
    BY DEF Finish
  <1>3. TypeOK'
    BY <1>1, <1>2, IdleCallType DEF IInv, TypeOK
  <1>4. CallInv' /\ AvailInv'
    BY <1>2, IdleParts DEF IdleCall
  <1>5. AvailableNeverWaits' /\ MembershipAccounted'
    BY <1>1 DEF IInv, AvailableNeverWaits, MembershipAccounted, Listed
  <1> QED BY <1>3, <1>4, <1>5 DEF IInv

\* flush goes round again with an empty buffer.
LEMMA AgainIInv ==
  ASSUME IInv, call.op = "flush",
         UNCHANGED <<grams, origin, timeout, groupvars, call, result>>,
         received' \in Nat, input' \in Seq(Byte), buffer_len' \in Nat,
         read_addr' \in Sender \cup {NoSender}, GramsInv', InputInv',
         Consumed' \in Nat, Consumed <= Consumed', buf' = << >>
  PROVE  IInv'
  <1> USE DEF groupvars
  <1>1. TypeOK'
    BY DEF IInv, TypeOK
  <1>2. CallInv'
    <2>1. /\ call.base \in Nat /\ Consumed \in Nat /\ Len(buf) \in Nat /\ call.need \in Nat
          /\ call.base <= Consumed - Len(buf) /\ Len(buf) < call.need /\ result = NoResult
      <3>1. Consumed \in Nat
        BY Known
      <3> QED BY <3>1, Running
    <2>2. call.base <= Consumed' /\ 0 < call.need
      BY <2>1
    <2>3. buf' \in Seq(Byte) /\ Len(buf') = 0 /\ Piece(buf', Consumed')
      BY DEF Piece
    <2>4. call.base + 0 = call.base
      BY <2>1
    <2>5. PICK c \in Nat : c = Consumed'
      OBVIOUS
    <2>6. c - 0 = c
      OBVIOUS
    <2>7. Piece(buf', Consumed' - Len(buf'))
      BY <2>3, <2>5, <2>6
    <2> QED BY <2>1, <2>2, <2>3, <2>4, <2>7 DEF CallInv
  <1>3. AvailInv' /\ AvailableNeverWaits' /\ MembershipAccounted'
    BY DEF IInv, AvailInv, AvailableNeverWaits, MembershipAccounted, Listed
  <1> QED BY <1>1, <1>2, <1>3 DEF IInv

\* What a transfer does: k bytes of data join the buffer, the rest stays behind.
LEMMA TransferShape ==
  ASSUME IInv, call.op # "idle", NEW data, NEW from, Transfer(data, from),
         Piece(data, Consumed), Len(data) > 0
  PROVE  \E k \in 1 .. Len(data), b \in Seq(Byte), rest \in Seq(Byte) :
           /\ Len(b) = Len(buf) + k /\ b # << >>
           /\ Piece(b, Consumed - Len(buf))
           /\ Len(rest) = Len(data) - k /\ Piece(rest, Consumed + k)
           /\ k = call.need - Len(buf) \/ k = Len(data)
           /\ \/ /\ Len(b) < call.need
                 /\ input' = rest
                 /\ buf' = b
                 /\ call' = IF call.op = "read" THEN [call EXCEPT !.src = from] ELSE call
                 /\ UNCHANGED result
              \/ /\ Len(b) = call.need
                 /\ Return(b, rest, from, "full", call.waited)
  <1> DEFINE k == Smaller(call.need - Len(buf), Len(data))
             b == buf \o SubSeq(data, 1, k)
             rest == SubSeq(data, k + 1, Len(data))
  <1>1. /\ data \in Seq(Byte) /\ Len(data) \in Nat /\ Consumed \in Nat
        /\ call.need \in Nat /\ Len(buf) \in Nat /\ Len(buf) < call.need
        /\ Consumed - Len(buf) \in Nat /\ Piece(buf, Consumed - Len(buf))
    <2>1. data \in Seq(Byte) /\ Len(data) \in Nat
      BY DEF Piece
    <2>2. Consumed \in Nat
      BY Known
    <2> QED BY <2>1, <2>2, Running
  <1>2. /\ k \in 1 .. Len(data) /\ k \in 0 .. Len(data) /\ k <= call.need - Len(buf)
        /\ k = call.need - Len(buf) \/ k = Len(data)
    BY <1>1 DEF Smaller
  <1>3. \/ /\ Len(b) < call.need
           /\ input' = rest
           /\ buf' = b
           /\ call' = IF call.op = "read" THEN [call EXCEPT !.src = from] ELSE call
           /\ UNCHANGED result
        \/ /\ Len(b) >= call.need
           /\ Return(b, rest, from, "full", call.waited)
    BY DEF Transfer
  <1> HIDE DEF k
  <1>4. /\ Piece(SubSeq(data, 1, k), Consumed) /\ Len(SubSeq(data, 1, k)) = k
        /\ Piece(rest, Consumed + k) /\ Len(rest) = Len(data) - k
    BY <1>1, <1>2, CutPiece
  <1>5. Piece(b, Consumed - Len(buf)) /\ Len(b) = Len(buf) + k
    <2>1. (Consumed - Len(buf)) + Len(buf) = Consumed
      BY <1>1
    <2>2. Piece(SubSeq(data, 1, k), (Consumed - Len(buf)) + Len(buf))
      BY <1>4, <2>1
    <2>3. Piece(b, Consumed - Len(buf)) /\ Len(b) = Len(buf) + Len(SubSeq(data, 1, k))
      BY <1>1, <2>2, JoinPieces
    <2> QED BY <1>4, <2>3
  <1> HIDE DEF b, rest
  <1>6. b \in Seq(Byte) /\ rest \in Seq(Byte) /\ b # << >>
    BY <1>1, <1>2, <1>4, <1>5 DEF Piece
  <1>7. Len(b) >= call.need => Len(b) = call.need
    BY <1>1, <1>2, <1>5
  <1> QED BY <1>2, <1>3, <1>4, <1>5, <1>6, <1>7

\* Data that continues what was consumed moves on, whether it was left over or has
\* just been received.
LEMMA TransferIInv ==
  ASSUME IInv, call.op # "idle", UNCHANGED <<grams, origin, timeout, groupvars>>,
         received' \in Nat, buffer_len' \in Nat, NEW from \in Sender \cup {NoSender},
         read_addr' = from, GramsInv',
         NEW data, Piece(data, Consumed), Len(data) > 0, Len(data) = NumBytesAvailable,
         Taken' = Consumed + Len(data),
         \A i \in 1 .. Len(data) : origin[Consumed + i] = from,
         Transfer(data, from)
  PROVE  IInv' /\ Consumed <= Consumed'
  <1>1. PICK k \in 1 .. Len(data), b \in Seq(Byte), rest \in Seq(Byte) :
           /\ Len(b) = Len(buf) + k /\ b # << >>
           /\ Piece(b, Consumed - Len(buf))
           /\ Len(rest) = Len(data) - k /\ Piece(rest, Consumed + k)
           /\ k = call.need - Len(buf) \/ k = Len(data)
           /\ \/ /\ Len(b) < call.need
                 /\ input' = rest
                 /\ buf' = b
                 /\ call' = IF call.op = "read" THEN [call EXCEPT !.src = from] ELSE call
                 /\ UNCHANGED result
              \/ /\ Len(b) = call.need
                 /\ Return(b, rest, from, "full", call.waited)
    BY TransferShape
  <1>2. Consumed \in Nat /\ Len(data) \in Nat /\ Len(buf) \in Nat
    BY Known, Running DEF Piece
  <1>3. input' = rest
    BY <1>1 DEF Return
  <1>4. Consumed' = Consumed + k
    BY <1>1, <1>2, <1>3 DEF Consumed
  <1>5. InputInv'
    <2>1. ASSUME NEW i \in DOMAIN rest
          PROVE  rest[i] = <<Net, (Consumed + k) + i>> /\ origin[(Consumed + k) + i] = from
      <3>1. i \in 1 .. Len(rest) /\ k + i \in 1 .. Len(data)
            /\ (Consumed + k) + i = Consumed + (k + i)
        BY <1>1, <1>2, SMTT(30)
      <3> QED BY <1>1, <3>1 DEF Piece
    <2> QED BY <1>2, <1>3, <1>4, <2>1 DEF InputInv, LeftoverIsTail
  <1>6. call.op = "read" /\ call.need <= call.avail =>
          k = call.need /\ Len(b) = call.need /\ call.waited = 0 /\ call.need % call.tosize = 0
    <2>1. Len(b) <= call.need
      BY <1>1, <1>2, Running, SMTT(30)
    <2> QED BY <1>1, <1>2, <2>1, Running, SMTT(30) DEF IInv, AvailInv
  <1>7. CASE /\ Len(b) < call.need
             /\ buf' = b
             /\ call' = IF call.op = "read" THEN [call EXCEPT !.src = from] ELSE call
             /\ UNCHANGED result
    <2>1. /\ call' \in CallType /\ call'.op = call.op /\ call'.need = call.need
          /\ call'.tosize = call.tosize /\ call'.base = call.base /\ call'.avail = call.avail
      BY <1>7, Known DEF CallType
    <2>2. TypeOK'
      BY <1>3, <1>7, <2>1 DEF IInv, TypeOK, groupvars
    <2>3. Consumed' - Len(b) = Consumed - Len(buf)
      BY <1>1, <1>2, <1>4
    <2>4. CallInv'
      <3>1. call.base + Len(b) <= Consumed'
        BY <1>1, <1>2, <1>4, Running, SMTT(30)
      <3>2. call.op = "read" => call.base + Len(b) = Consumed'
        BY <1>1, <1>2, <1>4, Running
      <3> QED BY <1>1, <1>7, <2>1, <2>3, <3>1, <3>2, Running DEF CallInv, Piece
    <2>5. AvailInv'
      BY <1>1, <1>6, <1>7, <2>1, Running DEF AvailInv
    <2>6. AvailableNeverWaits' /\ MembershipAccounted'
      BY <1>7 DEF IInv, AvailableNeverWaits, MembershipAccounted, Listed, groupvars
    <2> QED BY <1>2, <1>4, <1>5, <2>2, <2>4, <2>5, <2>6 DEF IInv
  <1>8. CASE Len(b) = call.need /\ Return(b, rest, from, "full", call.waited)
    <2>1. << >> \in Seq(Byte) /\ call.waited \in Nat
      BY Running
    <2>2. CASE Len(b) % call.tosize = 0 /\ Finish("ok", "full", b, from, call.waited)
      BY <1>2, <1>3, <1>4, <1>5, <1>6, <2>1, <2>2, FinishIInv
    <2>3. CASE /\ call.op = "read" /\ Len(b) % call.tosize # 0
               /\ Finish("error", "torn", << >>, NoSender, call.waited)
      <3>1. ~ (call.need <= call.avail)
        BY <1>6, <2>3
      <3>2. NoSender \in Sender \cup {NoSender} /\ input' \in Seq(Byte)
        BY <1>3
      <3>3. IInv'
        BY <1>5, <2>1, <2>3, <3>1, <3>2, FinishIInv
      <3> QED BY <1>2, <1>4, <3>3
    <2>4. CASE call.op = "flush" /\ buf' = << >> /\ UNCHANGED <<call, result>>
      <3>1. Consumed' \in Nat /\ Consumed <= Consumed'
        BY <1>2, <1>4
      <3> QED BY <1>3, <1>5, <2>4, <3>1, AgainIInv
    <2> QED BY <1>1, <1>8, <2>2, <2>3, <2>4 DEF Return
  <1> QED BY <1>1, <1>7, <1>8

LEMMA CopyLeftoverIInv ==
  ASSUME IInv, CopyLeftover
  PROVE  IInv' /\ Consumed <= Consumed'
  <1> USE DEF sockvars
  <1>1. /\ call.op # "idle" /\ input # << >> /\ Transfer(input, read_addr)
        /\ UNCHANGED <<grams, origin, received, buffer_len, read_addr, timeout, groupvars>>
    BY DEF CopyLeftover
  <1>2. /\ input \in Seq(Byte) /\ Len(input) > 0 /\ Piece(input, Consumed)
        /\ Consumed \in Nat /\ Len(input) \in Nat /\ Taken \in Nat
        /\ Consumed = Taken - Len(input)
    BY <1>1, Known
  <1>3. GramsInv'
    BY <1>1 DEF IInv, GramsInv, End
  <1>4. Len(input) = NumBytesAvailable
    BY <1>1 DEF NumBytesAvailable
  <1>5. Taken' = Consumed + Len(input)
    <2>1. Taken' = Taken
      BY <1>1 DEF Taken, Pending, Oldest
    <2> QED BY <1>2, <2>1
  <1>6. \A i \in 1 .. Len(input) : origin[Consumed + i] = read_addr
    <2>1. DOMAIN input = 1 .. Len(input)
      BY <1>2
    <2> QED BY <2>1 DEF IInv, InputInv, LeftoverIsTail
  <1>7. /\ received' \in Nat /\ buffer_len' \in Nat
        /\ read_addr \in Sender \cup {NoSender} /\ read_addr' = read_addr
    BY <1>1 DEF IInv, TypeOK
  <1> QED BY <1>1, <1>2, <1>3, <1>4, <1>5, <1>6, <1>7, TransferIInv

\* The oldest datagram lies right behind what was taken.
LEMMA OldestShape ==
  ASSUME IInv, Pending
  PROVE  /\ received + 1 \in 1 .. Len(grams)
         /\ Oldest \in Datagram /\ Oldest.first \in Nat /\ Oldest.size \in Nat
         /\ Oldest.from \in Sender
         /\ Taken = Oldest.first
         /\ Oldest.first + Oldest.size = End(received + 1)
         /\ End(received + 1) <= Len(origin)
         /\ \A k \in 1 .. Oldest.size : origin[Oldest.first + k] = Oldest.from
  <1>1. received + 1 \in 1 .. Len(grams)
    BY Known DEF Pending
  <1>2. Oldest \in Datagram
    BY <1>1, Known DEF Oldest
  <1>3. Oldest.first \in Nat /\ Oldest.size \in Nat /\ Oldest.from \in Sender
    BY <1>2 DEF Datagram
  <1>4. /\ Oldest.first + Oldest.size = End(received + 1)
        /\ End(received + 1) <= Len(origin)
        /\ \A k \in 1 .. Oldest.size : origin[Oldest.first + k] = Oldest.from
    BY <1>1 DEF IInv, GramsInv, Oldest
  <1> QED BY <1>1, <1>2, <1>3, <1>4 DEF Taken

\* recvfrom takes one datagram from the socket.
LEMMA TakeOldest ==
  ASSUME IInv, Pending, UNCHANGED <<grams, origin>>, received' = received + 1
  PROVE  GramsInv' /\ Taken' = Taken + Oldest.size /\ received' \in Nat
  <1>1. GramsInv' /\ received' \in Nat
    <2>1. received' \in Nat /\ received' <= Len(grams')
      BY OldestShape, Known
    <2> QED BY <2>1 DEF IInv, GramsInv, End
  <1>2. Taken' = End(received + 1)
    <2>1. CASE received + 1 < Len(grams)
      BY <2>1, Known DEF Taken, Pending, Oldest, End
    <2>2. CASE ~ (received + 1 < Len(grams))
      BY <2>2, Known DEF Taken, Pending, Oldest, End
    <2> QED BY <2>1, <2>2
  <1> QED BY <1>1, <1>2, OldestShape

\* input_buffer holds all of the datagram, so none of it is cut off.
LEMMA ReceivedData ==
  ASSUME IInv, ReceiveDatagram
  PROVE  /\ Pending /\ Oldest.size > 0 /\ buffer_len' \in Nat
         /\ \E data : /\ Transfer(data, Oldest.from)
                      /\ Piece(data, Consumed) /\ Len(data) = Oldest.size
  <1> DEFINE d == Oldest
             data == SubSeq(Payload(d), 1, Smaller(d.size, buffer_len'))
  <1>1. /\ input = << >> /\ NextSize > 0 /\ Transfer(data, d.from)
        /\ buffer_len' = IF d.size > buffer_len THEN RoundUp(d.size) ELSE buffer_len
    BY DEF ReceiveDatagram
  <1>2. Pending /\ d.size > 0
    BY <1>1 DEF NextSize
  <1>3. /\ d \in Datagram /\ d.first \in Nat /\ d.size \in Nat /\ Taken = d.first
    BY <1>2, OldestShape
  <1> HIDE DEF d
  <1>4. buffer_len' \in Nat /\ d.size <= buffer_len'
    <2>1. buffer_len \in Nat
      BY DEF IInv, TypeOK
    <2>2. RoundUp(d.size) \in Nat /\ d.size <= RoundUp(d.size)
      BY <1>3, RoundUpHolds
    <2>3. CASE d.size > buffer_len
      BY <1>1, <2>2, <2>3
    <2>4. CASE ~ (d.size > buffer_len)
      BY <1>1, <1>3, <2>1, <2>4
    <2> QED BY <2>3, <2>4
  <1>5. Piece(data, d.first) /\ Len(data) = d.size
    <2>1. Smaller(d.size, buffer_len') = d.size
      BY <1>3, <1>4 DEF Smaller
    <2>2. Piece(Payload(d), d.first) /\ Len(Payload(d)) = d.size
      BY <1>3, PayloadPiece
    <2>3. d.size \in 0 .. Len(Payload(d))
      BY <1>3, <2>2
    <2> QED BY <1>3, <2>1, <2>2, <2>3, CutPiece
  <1>6. Consumed = d.first
    BY <1>1, <1>3, Known
  <1> HIDE DEF data
  <1> QED BY <1>1, <1>2, <1>4, <1>5, <1>6 DEF d

LEMMA ReceiveDatagramIInv ==
  ASSUME IInv, ReceiveDatagram
  PROVE  IInv' /\ Consumed <= Consumed'
  <1>1. /\ call.op # "idle" /\ input = << >> /\ read_addr' = Oldest.from
        /\ received' = received + 1 /\ UNCHANGED <<grams, origin, timeout, groupvars>>
    BY DEF ReceiveDatagram
  <1>2. Pending /\ Oldest.size > 0 /\ buffer_len' \in Nat
    BY ReceivedData
  <1>3. PICK data : /\ Transfer(data, Oldest.from)
                    /\ Piece(data, Consumed) /\ Len(data) = Oldest.size
    BY ReceivedData
  <1>4. /\ Oldest.first \in Nat /\ Oldest.size \in Nat /\ Oldest.from \in Sender
        /\ Taken = Oldest.first
        /\ \A k \in 1 .. Oldest.size : origin[Oldest.first + k] = Oldest.from
    BY <1>2, OldestShape
  <1>5. Consumed = Oldest.first /\ NumBytesAvailable = Oldest.size
    BY <1>1, <1>2, <1>4, Known DEF NumBytesAvailable, NextSize
  <1>6. GramsInv' /\ Taken' = Consumed + Len(data) /\ received' \in Nat
    BY <1>1, <1>2, <1>3, <1>4, <1>5, TakeOldest
  <1>7. /\ Len(data) > 0 /\ Len(data) = NumBytesAvailable
        /\ \A i \in 1 .. Len(data) : origin[Consumed + i] = Oldest.from
        /\ Oldest.from \in Sender \cup {NoSender}
    BY <1>2, <1>3, <1>4, <1>5
  <1> QED BY <1>1, <1>2, <1>3, <1>6, <1>7, TransferIInv

\* No read of what is available meets an empty datagram.
LEMMA ReceiveEmptyIInv ==
  ASSUME IInv, ReceiveEmpty
  PROVE  IInv' /\ Consumed' = Consumed
  <1>1. /\ call.op # "idle" /\ input = << >> /\ Pending /\ NextSize = 0
        /\ read_addr' = Oldest.from /\ received' = received + 1
        /\ Finish("error", "empty", << >>, NoSender, call.waited)
        /\ UNCHANGED <<grams, origin, input, buffer_len, timeout, groupvars>>
    BY DEF ReceiveEmpty
  <1>2. Oldest.size = 0 /\ Oldest.from \in Sender
    BY <1>1, OldestShape DEF NextSize
  <1>3. GramsInv' /\ Taken' = Taken /\ received' \in Nat
    BY <1>1, <1>2, TakeOldest, Known
  <1>4. Consumed' = Consumed /\ InputInv'
    BY <1>1, <1>3, Known DEF Consumed, InputInv, LeftoverIsTail
  <1>5. ~ (call.op = "read" /\ call.need <= call.avail)
    <2>1. NumBytesAvailable = 0
      BY <1>1 DEF NumBytesAvailable
    <2> QED BY <1>1, <2>1, Running DEF IInv, AvailInv
  <1>6. /\ << >> \in Seq(Byte) /\ call.waited \in Nat /\ input' \in Seq(Byte)
        /\ buffer_len' \in Nat /\ read_addr' \in Sender \cup {NoSender}
        /\ NoSender \in Sender \cup {NoSender}
    BY <1>1, <1>2, Running DEF IInv, TypeOK
  <1> QED BY <1>1, <1>3, <1>4, <1>5, <1>6, FinishIInv

\* No read of what is available waits.
LEMMA SelectExpiresIInv ==
  ASSUME IInv, SelectExpires
  PROVE  IInv' /\ Consumed' = Consumed
  <1> USE DEF sockvars
  <1>1. /\ call.op # "idle" /\ input = << >> /\ ~Pending /\ call.left >= 0
        /\ UNCHANGED <<grams, origin, received, buffer_len, read_addr, timeout, groupvars>>
    BY DEF SelectExpires
  <1>2. /\ call.waited \in Nat /\ call.left \in Nat /\ call.src \in Sender \cup {NoSender}
        /\ buf \in Seq(Byte) /\ call.waited + call.left \in Nat
    BY <1>1, Running
  <1>3. ~ (call.op = "read" /\ call.need <= call.avail)
    <2>1. NumBytesAvailable = 0
      BY <1>1 DEF NumBytesAvailable, NextSize
    <2> QED BY <1>1, <2>1, Running DEF IInv, AvailInv
  <1>4. input' = input
    BY <1>1 DEF SelectExpires, Return
  <1>5. GramsInv' /\ InputInv' /\ Consumed' = Consumed
    BY <1>1, <1>4, QuietSocket
  <1>6. /\ received' \in Nat /\ input' \in Seq(Byte) /\ buffer_len' \in Nat
        /\ read_addr' \in Sender \cup {NoSender} /\ << >> \in Seq(Byte)
        /\ NoSender \in Sender \cup {NoSender}
    BY <1>1, <1>4 DEF IInv, TypeOK
  <1>7. CASE Return(buf, input, call.src, "timeout", call.waited + call.left)
    <2>1. CASE Finish("ok", "timeout", buf, call.src, call.waited + call.left)
      BY <1>1, <1>2, <1>3, <1>5, <1>6, <2>1, FinishIInv
    <2>2. CASE Finish("error", "torn", << >>, NoSender, call.waited + call.left)
      BY <1>1, <1>2, <1>3, <1>5, <1>6, <2>2, FinishIInv
    <2>3. CASE Finish("flushed", "timeout", << >>, NoSender, call.waited + call.left)
      BY <1>1, <1>2, <1>3, <1>5, <1>6, <2>3, FinishIInv
    <2>4. CASE call.op = "flush" /\ buf' = << >> /\ UNCHANGED <<call, result>>
      <3>1. Consumed' \in Nat /\ Consumed <= Consumed'
        BY <1>5, Known
      <3> QED BY <1>1, <1>5, <1>6, <2>4, <3>1, AgainIInv
    <2> QED BY <1>7, <2>1, <2>2, <2>3, <2>4 DEF Return
  <1>8. CASE /\ call' = [call EXCEPT !.left = @ - Second, !.waited = @ + Second]
             /\ UNCHANGED <<input, buf, result>>
    <2>1. /\ call' \in CallType /\ call'.op = call.op /\ call'.need = call.need
          /\ call'.tosize = call.tosize /\ call'.base = call.base /\ call'.avail = call.avail
      <3>1. call.left - Second \in Int /\ call.waited + Second \in Nat /\ call \in CallType
        BY <1>2, UnitAssumption, Known, SMTT(30)
      <3> QED BY <1>8, <3>1 DEF CallType
    <2>2. TypeOK'
      BY <1>1, <1>8, <2>1 DEF IInv, TypeOK, groupvars
    <2>3. CallInv'
      BY <1>5, <1>8, <2>1 DEF IInv, CallInv, Piece
    <2>4. AvailInv'
      BY <1>3, <2>1 DEF AvailInv
    <2>5. AvailableNeverWaits' /\ MembershipAccounted'
      BY <1>1, <1>8 DEF IInv, AvailableNeverWaits, MembershipAccounted, Listed, groupvars
    <2> QED BY <1>5, <2>2, <2>3, <2>4, <2>5 DEF IInv
  <1> QED BY <1>7, <1>8 DEF SelectExpires

LEMMA InterruptIInv ==
  ASSUME IInv, Interrupt
  PROVE  IInv'
  <1> USE DEF sockvars, objvars
  <1>1. /\ call.op # "idle" /\ UNCHANGED <<sockvars, objvars, groupvars>>
        /\ Finish("error", "interrupt", << >>, NoSender, call.waited)
    BY DEF Interrupt
  <1>2. GramsInv' /\ InputInv'
    BY <1>1, QuietSocket
  <1>3. /\ << >> \in Seq(Byte) /\ call.waited \in Nat /\ received' \in Nat
        /\ input' \in Seq(Byte) /\ buffer_len' \in Nat
        /\ read_addr' \in Sender \cup {NoSender} /\ NoSender \in Sender \cup {NoSender}
    BY <1>1, Running DEF IInv, TypeOK
  <1>4. call.op = "read" /\ call.need <= call.avail => call.waited = 0
    BY DEF IInv, AvailInv
  <1> QED BY <1>1, <1>2, <1>3, <1>4, FinishIInv

-----------------------------------------------------------------------------
\* Every step

LEMMA NextIInv == IInv /\ [Next]_vars => IInv'
  <1> SUFFICES ASSUME IInv, [Next]_vars PROVE IInv'
    OBVIOUS
  <1>1. CASE \E s \in Sender : \E n \in Sizes : Arrive(s, n)
    BY <1>1, ArriveIInv
  <1>2. CASE \E t \in Timeouts : SetTimeout(t)
    BY <1>2, SetTimeoutIInv
  <1>3. CASE \E ts \in ElementSizes : \E cnt \in Counts : ReadCount(cnt, ts)
    <2>1. PICK ts \in Nat \ {0}, cnt \in Nat : Read(cnt * ts, ts)
      BY <1>3, ArgumentAssumption DEF ReadCount
    <2> QED BY <2>1, ReadIInv
  <1>4. CASE \E ts \in ElementSizes : ReadDefault(ts)
    <2>1. PICK ts \in Nat \ {0} : ReadDefault(ts)
      BY <1>4, ArgumentAssumption
    <2> QED BY <2>1, ReadDefaultIInv
  <1>5. CASE Flush
    BY <1>5, FlushIInv
  <1>6. CASE \E g \in Group \cup {"off"} : ConfigureMulticast(g)
    BY <1>6, ConfigureMulticastIInv
  <1>7. CASE ReadLoop
    BY <1>7, CopyLeftoverIInv, ReceiveDatagramIInv, ReceiveEmptyIInv, SelectExpiresIInv
       DEF ReadLoop
  <1>8. CASE Interrupt
    BY <1>8, InterruptIInv
  <1>9. CASE UNCHANGED vars
    <2> USE <1>9 DEF vars
    <2>1. TypeOK'
      BY DEF IInv, TypeOK
    <2>2. GramsInv' /\ InputInv' /\ Consumed' = Consumed
          /\ NumBytesAvailable' = NumBytesAvailable
      BY QuietSocket
    <2>3. CallInv' /\ AvailInv'
      BY <2>2 DEF IInv, CallInv, AvailInv, Piece
    <2>4. AvailableNeverWaits' /\ MembershipAccounted'
      BY DEF IInv, AvailableNeverWaits, MembershipAccounted, Listed
    <2> QED BY <2>1, <2>2, <2>3, <2>4 DEF IInv
  <1> QED BY <1>1, <1>2, <1>3, <1>4, <1>5, <1>6, <1>7, <1>8, <1>9 DEF Next

\* The strengthened invariant holds in every reachable state.
THEOREM InductiveInvariant == Spec => []IInv
  <1> QED BY InitIInv, NextIInv, PTL DEF Spec

\* Every variable keeps its type, whatever arrives and is asked for.
THEOREM TypeCorrect == Spec => []TypeOK
  <1>1. IInv => TypeOK
    BY DEF IInv
  <1> QED BY <1>1, InductiveInvariant, PTL

\* What input_buffer keeps between reads is the end of the datagram received last,
\* all of it from read_addr (the loop of octave_udpport::read).
THEOREM LeftoversAreTails == Spec => []LeftoverIsTail
  <1>1. IInv => LeftoverIsTail
    BY DEF IInv, InputInv
  <1> QED BY <1>1, InductiveInvariant, PTL

\* A read of what NumBytesAvailable reports neither waits nor meets the empty
\* datagram that would lose it (get_bytesavailable against the loop of read).
THEOREM AvailableReadsNeverWait == Spec => []AvailableNeverWaits
  <1>1. IInv => AvailableNeverWaits
    BY DEF IInv
  <1> QED BY <1>1, InductiveInvariant, PTL

\* Every group stored is one the socket is in, stored once, and a group it is in that
\* is not stored is one it was refused to leave, for any sequence of joins, "off"s and
\* refusals of either (octave_udpport::set_multicastgroup).
THEOREM MembershipsAccounted == Spec => []MembershipAccounted
  <1>1. IInv => MembershipAccounted
    BY DEF IInv
  <1> QED BY <1>1, InductiveInvariant, PTL

-----------------------------------------------------------------------------
\* Flush

\* Only a wait that expires ends a flush, and only with nothing left to read.
LEMMA FlushStep ==
  ASSUME IInv, [Next]_vars, call.op = "flush", result'.status = "flushed"
  PROVE  input' = << >> /\ received' = Len(grams')
  <1>1. result = NoResult /\ NoResult.status # "flushed"
    BY Running DEF NoResult
  <1>2. result' # result
    BY <1>1
  <1>3. ASSUME NEW data, NEW from, Transfer(data, from), Piece(data, Consumed), Len(data) > 0
        PROVE  FALSE
    <2>1. PICK b \in Seq(Byte), rest \in Seq(Byte) :
            \/ UNCHANGED result
            \/ b # << >> /\ Return(b, rest, from, "full", call.waited)
      BY <1>3, TransferShape
    <2> QED BY <1>2, <2>1 DEF Return
  <1>4. CASE CopyLeftover
    <2>1. Piece(input, Consumed) /\ Len(input) > 0
      BY <1>4, Known DEF CopyLeftover
    <2> QED BY <1>3, <1>4, <2>1 DEF CopyLeftover
  <1>5. CASE ReceiveDatagram
    <2>1. PICK data : /\ Transfer(data, Oldest.from)
                      /\ Piece(data, Consumed) /\ Len(data) = Oldest.size
      BY <1>5, ReceivedData
    <2>2. Len(data) > 0
      BY <1>5, <2>1, ReceivedData
    <2> QED BY <1>3, <2>1, <2>2
  <1>6. CASE SelectExpires
    <2>1. input = << >> /\ ~Pending /\ UNCHANGED <<grams, received>>
      BY <1>6 DEF SelectExpires, sockvars
    <2>2. input' = input
      BY <1>6, <2>1 DEF SelectExpires, Return
    <2> QED BY <2>1, <2>2, Known DEF Pending
  <1>7. CASE ReceiveEmpty \/ Interrupt
    BY <1>7 DEF ReceiveEmpty, Interrupt, Finish
  <1>8. CASE \/ \E s \in Sender : \E n \in Sizes : Arrive(s, n)
             \/ UNCHANGED vars
    BY <1>2, <1>8 DEF Arrive, vars, callvars
  <1>9. ~Callable
    BY DEF Callable
  <1> QED BY <1>4, <1>5, <1>6, <1>7, <1>8, <1>9
          DEF Next, ReadLoop, SetTimeout, ReadCount, ReadDefault, Read, Flush,
              ConfigureMulticast

\* A flush that returns normally leaves nothing, whatever arrived while it ran
\* (@octave_udpport/flush.m).
THEOREM FlushesDrain == Spec => FlushDrains
  <1>1. IInv /\ [Next]_vars =>
          [call.op = "flush" /\ result'.status = "flushed" =>
             input' = << >> /\ received' = Len(grams')]_vars
    BY FlushStep
  <1> QED BY <1>1, InductiveInvariant, PTL DEF Spec, FlushDrains

-----------------------------------------------------------------------------
\* The byte stream

Last == [status |-> result.status, bytes |-> result.bytes]
NetSent == [s \in {Net} |-> Len(origin)]

LEMMA InitStream == Init => Stream!Init
  <1> SUFFICES ASSUME Init PROVE Stream!Init
    OBVIOUS
  <1>1. Consumed = 0
    BY DEF Init, Consumed, Taken, Pending
  <1>2. Mark = [s \in {Net} |-> 0]
    BY <1>1 DEF Init, Mark, IdleCall
  <1> QED BY <1>2 DEF Init, Stream!Init, Stream!Answer, NoResult

\* The abstract mark and count have one entry.
LEMMA OneSource ==
  ASSUME NEW i, NEW j
  PROVE  [[s \in {Net} |-> i] EXCEPT ![Net] = j] = [s \in {Net} |-> j]
  OBVIOUS

\* A piece of the stream is a segment of the abstract one.
LEMMA PieceIsSegment ==
  ASSUME NEW i \in Nat, NEW s, Piece(s, i)
  PROVE  s = Stream!Segment(Net, i, i + Len(s))
  <1> DEFINE t == [k \in 1 .. Len(s) |-> <<Net, i + k>>]
  <1>1. s \in Seq(Byte) /\ Len(s) \in Nat /\ DOMAIN s = 1 .. Len(s)
    BY DEF Piece
  <1>2. s = [k \in 1 .. Len(s) |-> s[k]]
    BY <1>1
  <1>3. [k \in 1 .. Len(s) |-> s[k]] = t
    BY DEF Piece
  <1>4. Stream!Segment(Net, i, i + Len(s)) = t
    <2>1. (i + Len(s)) - i = Len(s)
      BY <1>1
    <2> QED BY <2>1 DEF Stream!Segment
  <1> QED BY <1>2, <1>3, <1>4

\* Bytes consumed by a call that is answered: handed over, or lost and reported.
LEMMA AnswerStream ==
  ASSUME NEW i \in Nat, NEW j \in Nat, i <= j, j <= Len(origin), Len(origin) \in Nat,
         UNCHANGED origin, Mark = [s \in {Net} |-> i], Mark' = [s \in {Net} |-> j],
         NEW status, NEW bytes, Last' = [status |-> status, bytes |-> bytes],
         \/ status = "ok" /\ bytes = Stream!Segment(Net, i, j)
         \/ status \in {"flushed", "error"} /\ bytes = << >>
  PROVE  Stream!Next
  <1>1. /\ Net \in {Net} /\ NetSent[Net] = Len(origin) /\ Mark[Net] = i
        /\ j \in 0 .. NetSent[Net] /\ NetSent' = NetSent
        /\ Mark' = [Mark EXCEPT ![Net] = j]
    BY OneSource DEF NetSent
  <1>2. CASE status = "ok" /\ bytes = Stream!Segment(Net, i, j)
    <2>1. Stream!Deliver(Net, j)
      BY <1>1, <1>2 DEF Stream!Deliver, Stream!Answer, Last, NetSent
    <2> QED BY <1>1, <2>1 DEF Stream!Next, NetSent
  <1>3. CASE status \in {"flushed", "error"} /\ bytes = << >>
    <2>1. Stream!Drop(Net, j, status)
      BY <1>1, <1>3 DEF Stream!Drop, Stream!Answer, Last, NetSent
    <2> QED BY <1>1, <1>3, <2>1 DEF Stream!Next, NetSent
  <1> QED BY <1>2, <1>3

\* A call that is answered has handed over all it consumed, or says that it did not.
LEMMA FinishStream ==
  ASSUME IInv, call.op # "idle", UNCHANGED origin,
         NEW j \in Nat, Consumed' = j, Consumed <= j, j <= Len(origin),
         NEW status, NEW why, NEW bytes, NEW src, NEW waited,
         Finish(status, why, bytes, src, waited),
         \/ status = "ok" /\ Piece(bytes, call.base) /\ call.base + Len(bytes) = j
         \/ status \in {"flushed", "error"} /\ bytes = << >>
  PROVE  Stream!Next
  <1>1. /\ call.base \in Nat /\ call.base <= j /\ Len(origin) \in Nat
    <2>1. Consumed \in Nat /\ Len(origin) \in Nat
      BY Known
    <2> QED BY <2>1, Running
  <1>2. call'.op = "idle" /\ Last' = [status |-> status, bytes |-> bytes]
    BY DEF Finish, IdleCall, Last
  <1>3. Mark = [s \in {Net} |-> call.base] /\ Mark' = [s \in {Net} |-> j]
    BY <1>2 DEF Mark
  <1>4. CASE status = "ok" /\ Piece(bytes, call.base) /\ call.base + Len(bytes) = j
    <2>1. bytes = Stream!Segment(Net, call.base, j)
      BY <1>1, <1>4, PieceIsSegment
    <2> QED BY <1>1, <1>2, <1>3, <1>4, <2>1, AnswerStream
  <1>5. CASE status \in {"flushed", "error"} /\ bytes = << >>
    BY <1>1, <1>2, <1>3, <1>5, AnswerStream
  <1> QED BY <1>4, <1>5

\* A round of a call that goes on is a step of nothing.
LEMMA GoOnStream ==
  ASSUME call.op # "idle", call'.op # "idle", call'.base = call.base,
         UNCHANGED <<origin, result>>
  PROVE  UNCHANGED <<NetSent, Mark, Last>>
  BY DEF NetSent, Mark, Last

\* The bytes b end what was consumed when a call returns.
LEMMA ReturnStream ==
  ASSUME IInv, call.op # "idle", UNCHANGED origin,
         NEW j \in Nat, Consumed' = j, Consumed <= j, j <= Len(origin),
         NEW b, call.op = "read" => Piece(b, call.base) /\ call.base + Len(b) = j,
         NEW inp, NEW src, NEW why, NEW waited, Return(b, inp, src, why, waited)
  PROVE  [Stream!Next]_<<NetSent, Mark, Last>>
  <1>1. CASE call.op = "read" /\ Finish("ok", why, b, src, waited)
    BY <1>1, FinishStream
  <1>2. CASE Finish("error", "torn", << >>, NoSender, waited)
    BY <1>2, FinishStream
  <1>3. CASE Finish("flushed", why, << >>, NoSender, waited)
    BY <1>3, FinishStream
  <1>4. CASE UNCHANGED <<call, result>>
    BY <1>4, GoOnStream
  <1> QED BY <1>1, <1>2, <1>3, <1>4 DEF Return

LEMMA TransferStream ==
  ASSUME IInv, call.op # "idle", UNCHANGED origin, NEW data, NEW from,
         Piece(data, Consumed), Len(data) > 0,
         Taken' = Consumed + Len(data), Taken' <= Len(origin), Transfer(data, from)
  PROVE  [Stream!Next]_<<NetSent, Mark, Last>>
  <1>1. PICK k \in 1 .. Len(data), b \in Seq(Byte), rest \in Seq(Byte) :
           /\ Len(b) = Len(buf) + k
           /\ Piece(b, Consumed - Len(buf))
           /\ Len(rest) = Len(data) - k
           /\ \/ /\ input' = rest
                 /\ call' = IF call.op = "read" THEN [call EXCEPT !.src = from] ELSE call
                 /\ UNCHANGED result
              \/ /\ Len(b) = call.need
                 /\ Return(b, rest, from, "full", call.waited)
    BY TransferShape
  <1>2. Consumed \in Nat /\ Len(data) \in Nat /\ Len(buf) \in Nat /\ Len(origin) \in Nat
    BY Known, Running DEF Piece
  <1>3. PICK j \in Nat : j = Consumed + k
    BY <1>2
  <1>4. input' = rest
    BY <1>1 DEF Return
  <1>5. Consumed' = j /\ Consumed <= j /\ j <= Len(origin)
    BY <1>1, <1>2, <1>3, <1>4 DEF Consumed
  <1>6. CASE /\ call' = IF call.op = "read" THEN [call EXCEPT !.src = from] ELSE call
             /\ UNCHANGED result
    <2>1. call'.op = call.op /\ call'.base = call.base
      BY <1>6, Known DEF CallType
    <2> QED BY <1>6, <2>1, GoOnStream
  <1>7. CASE Return(b, rest, from, "full", call.waited)
    <2>1. call.op = "read" => Piece(b, call.base) /\ call.base + Len(b) = j
      BY <1>1, <1>2, <1>3, Running
    <2> QED BY <1>5, <1>7, <2>1, ReturnStream
  <1> QED BY <1>1, <1>6, <1>7

LEMMA CopyLeftoverStream ==
  ASSUME IInv, CopyLeftover
  PROVE  [Stream!Next]_<<NetSent, Mark, Last>>
  <1>1. /\ call.op # "idle" /\ input # << >> /\ Transfer(input, read_addr)
        /\ UNCHANGED <<grams, origin, received>>
    BY DEF CopyLeftover, sockvars
  <1>2. /\ Len(input) > 0 /\ Piece(input, Consumed) /\ Taken = Consumed + Len(input)
        /\ Taken <= Len(origin)
    BY <1>1, Known
  <1>3. Taken' = Taken
    BY <1>1 DEF Taken, Pending, Oldest
  <1> QED BY <1>1, <1>2, <1>3, TransferStream

LEMMA ReceiveDatagramStream ==
  ASSUME IInv, ReceiveDatagram
  PROVE  [Stream!Next]_<<NetSent, Mark, Last>>
  <1>1. /\ call.op # "idle" /\ input = << >>
        /\ received' = received + 1 /\ UNCHANGED <<grams, origin>>
    BY DEF ReceiveDatagram
  <1>2. PICK data : /\ Transfer(data, Oldest.from)
                    /\ Piece(data, Consumed) /\ Len(data) = Oldest.size
    BY ReceivedData
  <1>3. Pending /\ Oldest.size > 0
    BY ReceivedData
  <1>4. Taken' = Taken + Oldest.size /\ Taken = Consumed /\ Taken' <= Len(origin)
    BY <1>1, <1>3, TakeOldest, OldestShape, Known
  <1> QED BY <1>1, <1>2, <1>3, <1>4, TransferStream

LEMMA ReceiveEmptyStream ==
  ASSUME IInv, ReceiveEmpty
  PROVE  Stream!Next
  <1>1. /\ call.op # "idle" /\ UNCHANGED origin
        /\ Finish("error", "empty", << >>, NoSender, call.waited)
    BY DEF ReceiveEmpty
  <1>2. Consumed' = Consumed /\ Consumed \in Nat /\ Consumed <= Len(origin)
    BY ReceiveEmptyIInv, Known
  <1> QED BY <1>1, <1>2, FinishStream

LEMMA SelectExpiresStream ==
  ASSUME IInv, SelectExpires
  PROVE  [Stream!Next]_<<NetSent, Mark, Last>>
  <1>1. call.op # "idle" /\ UNCHANGED origin
    BY DEF SelectExpires, sockvars
  <1>2. Consumed' = Consumed /\ Consumed \in Nat /\ Consumed <= Len(origin)
    BY SelectExpiresIInv, Known
  <1>3. CASE Return(buf, input, call.src, "timeout", call.waited + call.left)
    <2>1. call.op = "read" => Piece(buf, call.base) /\ call.base + Len(buf) = Consumed
      BY <1>1, <1>2, Running
    <2> QED BY <1>1, <1>2, <1>3, <2>1, ReturnStream
  <1>4. CASE /\ call' = [call EXCEPT !.left = @ - Second, !.waited = @ + Second]
             /\ UNCHANGED <<input, buf, result>>
    <2>1. call'.op = call.op /\ call'.base = call.base
      BY <1>4, Known DEF CallType
    <2> QED BY <1>1, <1>4, <2>1, GoOnStream
  <1> QED BY <1>3, <1>4 DEF SelectExpires

LEMMA InterruptStream ==
  ASSUME IInv, Interrupt
  PROVE  Stream!Next
  <1>1. /\ call.op # "idle" /\ UNCHANGED <<grams, origin, received, input, read_addr>>
        /\ Finish("error", "interrupt", << >>, NoSender, call.waited)
    BY DEF Interrupt, sockvars, objvars
  <1>2. Consumed' = Consumed /\ Consumed \in Nat /\ Consumed <= Len(origin)
    BY <1>1, QuietSocket, Known
  <1> QED BY <1>1, <1>2, FinishStream

\* A call that is entered begins; one that asks for nothing is answered at once.
LEMMA EnterStream ==
  ASSUME IInv, call.op = "idle", UNCHANGED <<sockvars, objvars, groupvars>>,
         NEW op \in {"read", "flush"}, NEW need, NEW ts, NEW tmo, Enter(op, need, ts, tmo)
  PROVE  Stream!Next
  <1>1. call'.op # "idle" /\ call'.base = Consumed /\ result' = NoResult
    BY DEF Enter
  <1>2. Mark' = Mark
    BY <1>1 DEF Mark
  <1>3. NetSent' = NetSent /\ Last' = Stream!Answer("none", << >>)
    BY <1>1 DEF NetSent, Last, NoResult, Stream!Answer, sockvars
  <1>4. Stream!Begin
    BY <1>2, <1>3 DEF Stream!Begin, NetSent, Last
  <1> QED BY <1>4 DEF Stream!Next

LEMMA ReadStream ==
  ASSUME IInv, NEW need, NEW ts, Read(need, ts)
  PROVE  Stream!Next
  <1>1. call.op = "idle" /\ UNCHANGED <<sockvars, objvars, groupvars>>
    BY DEF Read, Callable
  <1>2. CASE /\ result' = [NoResult EXCEPT !.op = "read", !.status = "ok", !.why = "full"]
             /\ UNCHANGED <<call, buf>>
    <2>1. Consumed' = Consumed /\ Consumed \in Nat /\ Consumed <= Len(origin)
          /\ Len(origin) \in Nat
      BY <1>1, QuietSocket, Known DEF sockvars, objvars
    <2>2. Mark = [s \in {Net} |-> Consumed] /\ Mark' = [s \in {Net} |-> Consumed]
      BY <1>1, <1>2, <2>1 DEF Mark
    <2>3. Last' = [status |-> "ok", bytes |-> << >>]
      BY <1>2 DEF Last, NoResult
    <2>4. << >> = Stream!Segment(Net, Consumed, Consumed)
      BY <2>1 DEF Stream!Segment
    <2> QED BY <1>1, <2>1, <2>2, <2>3, <2>4, AnswerStream DEF sockvars
  <1>3. CASE Enter("read", need, ts, timeout)
    BY <1>1, <1>3, EnterStream
  <1> QED BY <1>2, <1>3 DEF Read

\* A datagram brings all of its bytes at once; an empty one brings none.
LEMMA ArriveStream ==
  ASSUME IInv, NEW s \in Sender, NEW n \in Sizes, Arrive(s, n)
  PROVE  [Stream!Next]_<<NetSent, Mark, Last>>
  <1>1. Mark' = Mark /\ Last' = Last
    BY ArriveIInv DEF Arrive, callvars, Mark, Last
  <1>2. n \in Nat /\ Len(origin) \in Nat /\ Len(origin') = Len(origin) + n
    <2>1. n \in Nat
      BY ArgumentAssumption
    <2>2. [k \in 1 .. n |-> s] \in Seq(Sender) /\ Len([k \in 1 .. n |-> s]) = n
      BY <2>1
    <2> QED BY <2>1, <2>2, Known DEF Arrive
  <1>3. CASE n = 0
    BY <1>1, <1>2, <1>3 DEF NetSent
  <1>4. CASE n > 0
    <2>1. /\ NetSent'[Net] > NetSent[Net]
          /\ NetSent' = [NetSent EXCEPT ![Net] = NetSent'[Net]]
      BY <1>2, <1>4 DEF NetSent
    <2>2. Stream!Emit(Net)
      BY <1>1, <2>1 DEF Stream!Emit, NetSent, Last
    <2> QED BY <2>2 DEF Stream!Next
  <1> QED BY <1>2, <1>3, <1>4

\* Steps that leave the socket, the leftover and the running call alone.
LEMMA QuietStream ==
  ASSUME IInv, UNCHANGED <<grams, origin, received, input, read_addr, call, result>>
  PROVE  UNCHANGED <<NetSent, Mark, Last>>
  <1>1. Consumed' = Consumed
    BY QuietSocket
  <1> QED BY <1>1 DEF NetSent, Mark, Last

LEMMA StepStream ==
  ASSUME IInv, [Next]_vars
  PROVE  [Stream!Next]_<<NetSent, Mark, Last>>
  <1>1. CASE \E s \in Sender : \E n \in Sizes : Arrive(s, n)
    BY <1>1, ArriveStream
  <1>2. CASE \/ \E t \in Timeouts : SetTimeout(t)
             \/ \E g \in Group \cup {"off"} : ConfigureMulticast(g)
             \/ UNCHANGED vars
    <2>1. UNCHANGED <<grams, origin, received, input, read_addr, call, result>>
      BY <1>2 DEF SetTimeout, ConfigureMulticast, sockvars, objvars, callvars, vars
    <2> QED BY <2>1, QuietStream
  <1>3. CASE \/ \E ts \in ElementSizes : \E cnt \in Counts : ReadCount(cnt, ts)
             \/ \E ts \in ElementSizes : ReadDefault(ts)
    BY <1>3, ReadStream DEF ReadCount, ReadDefault
  <1>4. CASE Flush
    BY <1>4, EnterStream DEF Flush, Callable
  <1>5. CASE ReadLoop
    BY <1>5, CopyLeftoverStream, ReceiveDatagramStream, ReceiveEmptyStream,
       SelectExpiresStream DEF ReadLoop
  <1>6. CASE Interrupt
    BY <1>6, InterruptStream
  <1> QED BY <1>1, <1>2, <1>3, <1>4, <1>5, <1>6 DEF Next

\* udpport implements the byte stream: for datagrams of any size, empty ones included,
\* no read sees where they end, and none of their bytes is cut off.
THEOREM Refinement == Spec => ImplementsByteStream
  <1>1. IInv /\ [Next]_vars => [Stream!Next]_Stream!svars
    BY StepStream DEF Stream!svars, NetSent, Last
  <1> QED BY <1>1, InitStream, InductiveInvariant, PTL
          DEF Spec, ImplementsByteStream, Stream!Spec

=============================================================================
