------------------------- MODULE Instruments_proofs -------------------------
(***************************************************************************)
(* Proofs about the messages and the registers of Instruments, for any     *)
(* device, any lengths and chunks, any servers, registers and masks.       *)
(***************************************************************************)
EXTENDS Instruments, SequenceTheorems, WellFoundedInduction, TLAPS

-----------------------------------------------------------------------------
\* The inductive invariant of the messages, part by part

Ops == Reads \cup {"idle", "write"}
Piece == [byte : Nat \X Nat, end : BOOLEAN]
CallType ==
  [op : Ops, need : Nat, len : Nat, chunk : Seq(Nat), got : Seq(Nat), count : Nat,
   left : Nat, base : Nat]

DeviceType ==
  /\ made \in Nat /\ ends \in SUBSET Nat /\ pos \in 0 .. made
  /\ over \in Nat /\ (kind # "vxi11" => over = 0) /\ empties \in BOOLEAN
  /\ received \in Seq(Piece) /\ lengths \in Seq(Nat) /\ recvsize \in Nat /\ tmo \in Int
MessageType == DeviceType /\ call \in CallType

\* Only message interfaces have running calls; there is no answer of a running one.
RunInv == call.op # "idle" => kind \in MessageKinds /\ answer = None

\* What a read has put together and what its latest transfers have brought follow each
\* other, and reach from where the read began to where the device is, but for the answers
\* of vxi11 that were too long.
ReadInv ==
  call.op \in Reads =>
    /\ call.base <= pos /\ AllBut(over, call.got \o call.chunk, call.base, pos)
    /\ Len(call.chunk) <= call.len
    /\ kind # "vxi11" => call.chunk = << >>
    /\ call.op # "fread" => call.got = << >>
    /\ call.op = "fread" => call.need = call.len
    /\ call.op = "fscanf" => kind = "gpib"

\* A VXI-11 device that says how much it takes.
Tells == kind = "vxi11" => recvsize > 0

\* Byte i of what the device received has its place in the write it is of.
Placed(i) ==
  LET w == received[i].byte[1]
      k == received[i].byte[2] IN
  /\ w \in 1 .. Len(lengths) /\ k \in 1 .. lengths[w]
  /\ received[i].end <=> k = lengths[w]
  /\ k > 1 => i > 1 /\ received[i - 1].byte = <<w, k - 1>>

MarkInv == Tells => \A i \in 1 .. Len(received) : Placed(i)

\* Of a running write the device has all but what is left.
WriteInv ==
  Tells /\ call.op = "write" =>
    /\ Len(lengths) > 0 /\ call.len = lengths[Len(lengths)] /\ call.len < Word
    /\ call.left \in 1 .. call.len
    /\ call.left < call.len =>
         /\ Len(received) > 0
         /\ received[Len(received)].byte = <<Len(lengths), call.len - call.left>>
    /\ kind # "vxi11" =>
         /\ call.left = call.len
         /\ \A i \in 1 .. Len(received) : received[i].byte[1] < Len(lengths)

MessageInv ==
  /\ MessageType /\ RunInv /\ ReadInv /\ MarkInv /\ WriteInv
  /\ LossesRaised /\ EndsMarkWrites

-----------------------------------------------------------------------------
\* The inductive invariant of the registers, part by part

Contents == [RegisterSet -> SUBSET Bits]
LateAnswer == [server : Servers, words : Seq(SUBSET Bits)]
SpiSettings == [cpol : BOOLEAN, cpha : BOOLEAN, bitrate : Nat]
ModbusSettings == [slave : Servers \cup {-1}, timeout : Int]

RegisterType ==
  /\ regs \in [Servers -> Contents] /\ late \in Seq(LateAnswer)
  /\ wordorder \in {"big-endian", "little-endian"} /\ guessed \in BOOLEAN

\* What the object keeps and what the driver or the library has.
CopyInv ==
  /\ Modbus => /\ config \in ModbusSettings /\ port \in ModbusSettings
               /\ config.slave = port.slave
  /\ kind = "i2c" => /\ config \in [addr : Int] /\ port \in [addr : Int]
                     /\ config.addr = port.addr \/ config.addr = -1
  /\ kind = "spi" => /\ config \in SpiSettings /\ port \in SpiSettings
                     /\ \/ config.cpol = port.cpol /\ config.cpha = port.cpha
                        \/ guessed = TRUE
  /\ kind = "parallel" => config \in [dir : {0, 1}] /\ port = config

\* Between the transactions of maskWrite: a value made of the register itself is the one
\* to write.
RequestType ==
  [op : {"maskWrite"}, server : Servers, addr : RegisterSet, value : SUBSET Bits,
   wanted : SUBSET Bits, documented : SUBSET Bits, trusted : BOOLEAN]

RequestInv ==
  request # NoRequest =>
    /\ Modbus /\ request \in RequestType
    /\ request.trusted = TRUE => request.value = request.wanted

\* Only buses tell what a transfer used.
UseInv == kind \in MessageKinds => "uses" \notin DOMAIN answer

RegisterInv ==
  /\ RegisterType /\ CopyInv /\ RequestInv /\ UseInv /\ TransfersAsReported

IInv ==
  /\ kind \in MessageKinds \cup BusKinds
  /\ MessageInv /\ RegisterInv

-----------------------------------------------------------------------------
\* Bytes of the stream, and how many a transfer brings

LEMMA BytesAre ==
  ASSUME NEW i \in Nat, NEW j \in Nat, i <= j
  PROVE  /\ Bytes(i, j) \in Seq(Nat) /\ Len(Bytes(i, j)) = j - i
         /\ \A k \in 1 .. (j - i) : Bytes(i, j)[k] = i + k
  <1>1. Bytes(i, j) = [k \in 1 .. (j - i) |-> i + k]
    BY DEF Bytes
  <1>2. j - i \in Nat /\ \A k \in 1 .. (j - i) : i + k \in Nat
    OBVIOUS
  <1>3. Bytes(i, j) \in [1 .. (j - i) -> Nat]
    BY <1>1, <1>2
  <1> QED BY <1>1, <1>2, <1>3

LEMMA BytesNone ==
  ASSUME NEW i \in Nat
  PROVE  Bytes(i, i) = << >>
  <1>1. Bytes(i, i) \in Seq(Nat) /\ Len(Bytes(i, i)) = i - i
    BY BytesAre
  <1> QED BY <1>1

LEMMA BytesJoin ==
  ASSUME NEW i \in Nat, NEW j \in Nat, NEW m \in Nat, i <= j, j <= m
  PROVE  Bytes(i, j) \o Bytes(j, m) = Bytes(i, m)
  <1>1. /\ Bytes(i, j) \in Seq(Nat) /\ Len(Bytes(i, j)) = j - i
        /\ \A k \in 1 .. (j - i) : Bytes(i, j)[k] = i + k
    BY BytesAre
  <1>2. /\ Bytes(j, m) \in Seq(Nat) /\ Len(Bytes(j, m)) = m - j
        /\ \A k \in 1 .. (m - j) : Bytes(j, m)[k] = j + k
    BY BytesAre
  <1>3. i <= m
    OBVIOUS
  <1>4. /\ Bytes(i, m) \in Seq(Nat) /\ Len(Bytes(i, m)) = m - i
        /\ \A k \in 1 .. (m - i) : Bytes(i, m)[k] = i + k
    BY <1>3, BytesAre
  <1>5. PICK s \in Seq(Nat), t \in Seq(Nat) : s = Bytes(i, j) /\ t = Bytes(j, m)
    BY <1>1, <1>2
  <1>6. /\ s \o t \in Seq(Nat) /\ Len(s \o t) = m - i
        /\ \A k \in 1 .. (m - i) : (s \o t)[k] = i + k
    <2>1. s \o t \in Seq(Nat) /\ Len(s \o t) = Len(s) + Len(t)
      BY ConcatProperties
    <2>2. Len(s) = j - i /\ Len(t) = m - j
      BY <1>1, <1>2, <1>5
    <2>3. ASSUME NEW k \in 1 .. (m - i) PROVE (s \o t)[k] = i + k
      <3>1. CASE k <= j - i
        BY <1>1, <1>5, <2>2, <3>1
      <3>2. CASE k > j - i
        <4>1. PICK l \in 1 .. (m - j) : l = k - (j - i)
          BY <3>2
        <4>2. (s \o t)[k] = t[l]
          BY <2>2, <3>2, <4>1
        <4>3. t[l] = j + l
          BY <1>2, <1>5
        <4>4. j + l = i + k
          BY <4>1
        <4> QED BY <4>2, <4>3, <4>4
      <3>3. k <= j - i \/ k > j - i
        OBVIOUS
      <3> QED BY <3>1, <3>2, <3>3, Zenon
    <2> QED BY <2>1, <2>2, <2>3
  <1>7. s \o t = Bytes(i, m)
    BY <1>4, <1>6, SeqEqual
  <1> QED BY <1>5, <1>7

\* What follows on is put behind what there is ...
LEMMA AllButJoin ==
  ASSUME NEW lost \in Nat, NEW i \in Nat, NEW j \in Nat, NEW m \in Nat, i <= j, j <= m,
         NEW s \in Seq(Nat), AllBut(lost, s, i, j)
  PROVE  AllBut(lost, s \o Bytes(j, m), i, m)
  <1>1. CASE lost = 0
    <2>1. s = Bytes(i, j)
      BY <1>1 DEF AllBut
    <2>2. s \o Bytes(j, m) = Bytes(i, m)
      BY <2>1, BytesJoin
    <2> QED BY <1>1, <2>2 DEF AllBut
  <1>2. CASE lost # 0
    <2>1. /\ \A k \in DOMAIN s : s[k] \in (i + 1) .. j
          /\ \A k \in DOMAIN s : k > 1 => s[k - 1] < s[k]
          /\ Len(s) + lost = j - i
      BY <1>2, Zenon DEF AllBut
    <2>10. DOMAIN s = 1 .. Len(s) /\ Len(s) \in Nat
      OBVIOUS
    <2>2. PICK t \in Seq(Nat) : t = Bytes(j, m)
      BY BytesAre
    <2>3. Len(t) = m - j /\ \A k \in 1 .. (m - j) : t[k] = j + k
      BY <2>2, BytesAre
    <2>11. PICK u \in Seq(Nat) : u = s \o t
      BY ConcatProperties
    <2>4. Len(u) = Len(s) + (m - j)
      <3>1. Len(s \o t) = Len(s) + Len(t)
        BY ConcatProperties
      <3> QED BY <2>3, <2>11, <3>1
    <2>12. \A k \in 1 .. Len(s) : u[k] = s[k]
      BY <2>11
    <2>13. \A k \in 1 .. (m - j) : u[Len(s) + k] = j + k
      BY <2>3, <2>11
    <2>6. ASSUME NEW k \in 1 .. Len(u)
          PROVE  u[k] \in (i + 1) .. m /\ (k > 1 => u[k - 1] < u[k])
      <3>1. CASE k <= Len(s)
        <4>1. u[k] = s[k] /\ k \in 1 .. Len(s)
          BY <2>12, <3>1
        <4>2. k > 1 => k - 1 \in 1 .. Len(s) /\ u[k - 1] = s[k - 1]
          BY <2>10, <2>12, <3>1
        <4>3. s[k] \in (i + 1) .. j /\ (k > 1 => s[k - 1] < s[k])
          BY <2>1, <2>10, <4>1
        <4>4. u[k] \in (i + 1) .. m
          BY <4>1, <4>3
        <4> QED BY <4>1, <4>2, <4>3, <4>4
      <3>2. CASE k > Len(s)
        <4>1. PICK l \in 1 .. (m - j) : k = Len(s) + l
          <5>1. k - Len(s) \in 1 .. (m - j) /\ k = Len(s) + (k - Len(s))
            BY <2>4, <2>10, <3>2
          <5> QED BY <5>1
        <4>2. u[k] = j + l /\ j + l \in (i + 1) .. m
          BY <2>13, <4>1
        <4>3. CASE l = 1
          <5>1. k > 1 => k - 1 \in 1 .. Len(s) /\ k - 1 = Len(s)
            BY <2>10, <4>1, <4>3
          <5>2. k > 1 => u[k - 1] \in (i + 1) .. j
            BY <2>1, <2>10, <2>12, <5>1
          <5> QED BY <4>2, <4>3, <5>2
        <4>4. CASE l # 1
          <5>1. l - 1 \in 1 .. (m - j) /\ k - 1 = Len(s) + (l - 1)
            BY <2>10, <4>1, <4>4
          <5>2. u[k - 1] = j + (l - 1)
            BY <2>13, <5>1
          <5> QED BY <4>2, <5>2
        <4> QED BY <4>3, <4>4
      <3> QED BY <2>10, <3>1, <3>2
    <2>7. Len(u) + lost = m - i
      <3>1. PICK l \in Nat : l = Len(s)
        BY <2>10
      <3>2. l + lost = j - i /\ Len(u) = l + (m - j)
        BY <2>1, <2>4, <3>1
      <3> QED BY <3>2
    <2>8. DOMAIN u = 1 .. Len(u)
      BY <2>11
    <2>9. AllBut(lost, u, i, m)
      BY <1>2, <2>6, <2>7, <2>8, Zenon DEF AllBut
    <2> QED BY <2>2, <2>9, <2>11
  <1> QED BY <1>1, <1>2

\* ... or left out.
LEMMA AllButSkip ==
  ASSUME NEW lost \in Nat, NEW i \in Nat, NEW j \in Nat, NEW n \in Nat, i <= j,
         NEW s \in Seq(Nat), AllBut(lost, s, i, j)
  PROVE  AllBut(lost + n, s, i, j + n)
  <1>1. CASE n = 0
    BY <1>1
  <1>2. CASE n # 0
    <2>1. /\ \A k \in DOMAIN s : s[k] \in (i + 1) .. j
          /\ \A k \in DOMAIN s : k > 1 => s[k - 1] < s[k]
          /\ Len(s) + lost = j - i
      <3>1. CASE lost = 0
        <4>1. s = Bytes(i, j)
          BY <3>1 DEF AllBut
        <4>2. Len(s) = j - i /\ \A k \in 1 .. (j - i) : s[k] = i + k
          BY <4>1, BytesAre
        <4> QED BY <3>1, <4>2
      <3>2. CASE lost # 0
        BY <3>2 DEF AllBut
      <3> QED BY <3>1, <3>2
    <2>2. lost + n # 0
      BY <1>2
    <2>3. \A k \in DOMAIN s : s[k] \in (i + 1) .. (j + n)
      BY <2>1
    <2>4. Len(s) + (lost + n) = (j + n) - i
      BY <2>1
    <2> QED BY <2>1, <2>2, <2>3, <2>4 DEF AllBut
  <1> QED BY <1>1, <1>2

\* Induction on natural numbers, as the existence of a least one.
LEMMA Least ==
  ASSUME NEW T \in SUBSET Nat, T # {}
  PROVE  \E m \in T : \A k \in T : m <= k
  <1>1. PICK m \in T : \A k \in T : <<k, m>> \notin OpToRel(<, Nat)
    BY WFMin, NatLessThanWellFounded, Zenon
  <1>2. \A k \in T : ~ (k < m)
    BY <1>1, Zenon DEF OpToRel
  <1> QED BY <1>2

\* A transfer brings no more than it was asked for and the device has.
LEMMA ReadyIs ==
  ASSUME NEW len \in Nat, made \in Nat, pos \in 0 .. made
  PROVE  Ready(len) \in Nat /\ Ready(len) <= len /\ pos + Ready(len) <= made
  <1> DEFINE Most == Smaller(len, made - pos)
             Right(n) == /\ \A k \in 1 .. (n - 1) : ~Ended(k)
                         /\ n \in {len, made - pos} \/ Ended(n)
             Marks == {n \in 1 .. Most : Ended(n)}
  <1>1. Most \in Nat /\ Most <= len /\ Most <= made - pos /\ Most \in {len, made - pos}
    BY DEF Smaller
  <1>2. \E n \in 0 .. Most : Right(n)
    <2>1. CASE Marks = {}
      <3>1. \A k \in 1 .. (Most - 1) : ~Ended(k)
        BY <1>1, <2>1
      <3> QED BY <1>1, <3>1
    <2>2. CASE Marks # {}
      <3>1. Marks \in SUBSET Nat
        BY <1>1
      <3>2. PICK n \in Marks : \A k \in Marks : n <= k
        BY <2>2, <3>1, Least
      <3>3. n \in 1 .. Most /\ Ended(n)
        BY <3>2
      <3>4. ASSUME NEW k \in 1 .. (n - 1) PROVE ~Ended(k)
        <4>1. k \in 1 .. Most /\ ~ (n <= k)
          BY <1>1, <3>3
        <4> QED BY <3>2, <4>1
      <3> QED BY <1>1, <3>3, <3>4
    <2> QED BY <2>1, <2>2
  <1>3. Ready(len) = CHOOSE n \in 0 .. Most : Right(n)
    BY DEF Ready
  <1>4. Ready(len) \in 0 .. Most
    <2> HIDE DEF Most, Right
    <2> QED BY <1>2, <1>3
  <1> QED BY <1>1, <1>4

-----------------------------------------------------------------------------
\* What the two halves say of each other's steps

LEMMA CallTypes ==
  ASSUME MessageType
  PROVE  /\ made \in Nat /\ pos \in Nat /\ pos <= made /\ ends \in SUBSET Nat
         /\ received \in Seq(Piece) /\ lengths \in Seq(Nat) /\ recvsize \in Nat /\ tmo \in Int
         /\ over \in Nat /\ (kind # "vxi11" => over = 0)
         /\ call.op \in Ops /\ call.need \in Nat /\ call.len \in Nat /\ call.chunk \in Seq(Nat)
         /\ call.got \in Seq(Nat) /\ call.count \in Nat /\ call.left \in Nat
         /\ call.base \in Nat
  <1> QED BY DEF MessageType, DeviceType, CallType

LEMMA IdleType == Idle \in CallType /\ Idle.op = "idle"
  <1>1. << >> \in Seq(Nat)
    OBVIOUS
  <1> QED BY <1>1 DEF Idle, CallType, Ops

\* What the device received is in order, whatever the answer is.
LEMMA MarksAre ==
  ASSUME DeviceType', MarkInv', ~ (answer'.op = "write" /\ answer'.status = "ok")
  PROVE  EndsMarkWrites'
  <1>1. DOMAIN received' = 1 .. Len(received')
    BY DEF DeviceType
  <1> QED BY <1>1 DEF EndsMarkWrites, MarkInv, Placed, Tells

\* No answer, or one that says nothing of a read or a write.
Silent == ~ (answer.op \in Reads \cup {"write"} /\ answer.status = "ok")

LEMMA SilentClaims ==
  ASSUME DeviceType', MarkInv', Silent'
  PROVE  LossesRaised' /\ EndsMarkWrites'
  <1>1. LossesRaised'
    BY DEF LossesRaised, HasRead, Silent
  <1>2. ~ (answer'.op = "write" /\ answer'.status = "ok")
    BY DEF Silent
  <1> QED BY <1>1, <1>2, MarksAre

\* Nothing runs any more.
LEMMA IdleHolds ==
  ASSUME DeviceType', MarkInv', LossesRaised', EndsMarkWrites', call' = Idle
  PROVE  MessageInv'
  <1>1. call' \in CallType /\ call'.op = "idle"
    BY IdleType
  <1>2. "idle" \notin Reads /\ "idle" # "write"
    BY DEF Reads
  <1> QED BY <1>1, <1>2 DEF MessageInv, MessageType, RunInv, ReadInv, WriteInv

\* Steps of messages leave the registers and settings, and never say what a transfer used.
LEMMA RegistersKept ==
  ASSUME RegisterInv, kind \in MessageKinds, UNCHANGED <<kind, registervars>>,
         "uses" \notin DOMAIN answer'
  PROVE  RegisterInv'
  <1>1. UNCHANGED <<config, port, regs, late, wordorder, request, guessed>>
    BY DEF registervars
  <1> QED BY <1>1 DEF RegisterInv, RegisterType, CopyInv, RequestInv, UseInv,
                      TransfersAsReported, Modbus

\* Steps of the registers leave the messages.
LEMMA MessagesKept ==
  ASSUME MessageInv, kind \in BusKinds, UNCHANGED <<kind, messagevars>>
  PROVE  MessageInv'
  <1>1. UNCHANGED <<made, ends, pos, over, received, lengths, recvsize, empties, tmo, call>>
    BY DEF messagevars
  <1>2. kind \notin MessageKinds
    BY DEF BusKinds, MessageKinds
  <1>3. MessageType' /\ MarkInv' /\ WriteInv'
    BY <1>1 DEF MessageInv, MessageType, DeviceType, MarkInv, Placed, Tells, WriteInv
  <1>4. call'.op = "idle" /\ call.op = "idle"
    BY <1>1, <1>2 DEF MessageInv, RunInv
  <1>5. RunInv' /\ ReadInv'
    BY <1>4 DEF RunInv, ReadInv, Reads
  <1>6. LossesRaised'
    BY <1>2 DEF LossesRaised, HasRead
  <1>7. EndsMarkWrites'
    <2>1. DOMAIN received' = 1 .. Len(received')
      BY <1>3 DEF MessageType, DeviceType
    <2> QED BY <1>2, <1>3, <2>1 DEF EndsMarkWrites, MarkInv, Placed, Tells
  <1> QED BY <1>3, <1>5, <1>6, <1>7 DEF MessageInv

-----------------------------------------------------------------------------
\* Messages: steps that are not of a running call

\* An answer to a call that has no running read or write.
LEMMA ToldHolds ==
  ASSUME MessageInv, Callable, UNCHANGED <<kind, messagevars>>, LossesRaised',
         ~ (answer'.op = "write" /\ answer'.status = "ok")
  PROVE  MessageInv'
  <1>1. UNCHANGED <<made, ends, pos, over, received, lengths, recvsize, empties, tmo, call>>
    BY DEF messagevars
  <1>2. call'.op = "idle" /\ call.op = "idle"
    BY <1>1 DEF Callable
  <1>3. MessageType' /\ MarkInv' /\ WriteInv'
    BY <1>1 DEF MessageInv, MessageType, DeviceType, MarkInv, Placed, Tells, WriteInv
  <1>4. RunInv' /\ ReadInv'
    BY <1>2 DEF RunInv, ReadInv, Reads
  <1> QED BY <1>3, <1>4, MarksAre DEF MessageInv, MessageType

\* It says nothing of a read either.
LEMMA QuietHolds ==
  ASSUME MessageInv, Callable, UNCHANGED <<kind, messagevars>>, Silent'
  PROVE  MessageInv'
  <1>1. LossesRaised'
    BY DEF LossesRaised, HasRead, Silent
  <1>2. ~ (answer'.op = "write" /\ answer'.status = "ok")
    BY DEF Silent
  <1> QED BY <1>1, <1>2, ToldHolds

LEMMA RaisedIs ==
  ASSUME NEW op, answer' = Raised(op)
  PROVE  Silent' /\ "uses" \notin DOMAIN answer'
  <1> QED BY DEF Raised, Silent

LEMMA SendHolds ==
  ASSUME MessageInv, NEW end \in BOOLEAN, Send(end)
  PROVE  MessageInv' /\ UNCHANGED answer
  <1>1. /\ made' = made + 1 /\ ends' \in SUBSET Nat
        /\ UNCHANGED <<kind, answer, pos, over, received, lengths, recvsize, empties, tmo, call>>
    BY CallTypes DEF Send, MessageInv
  <1>2. made' \in Nat /\ pos' \in 0 .. made'
    BY <1>1, CallTypes DEF MessageInv
  <1>3. MessageType' /\ RunInv' /\ ReadInv' /\ MarkInv' /\ WriteInv'
    BY <1>1, <1>2 DEF MessageInv, MessageType, DeviceType, RunInv, ReadInv, MarkInv, Placed,
       Tells, WriteInv
  <1>4. LossesRaised' /\ EndsMarkWrites'
    BY <1>1 DEF MessageInv, LossesRaised, HasRead, EndsMarkWrites
  <1> QED BY <1>1, <1>3, <1>4 DEF MessageInv

-----------------------------------------------------------------------------
\* Messages: reads

\* What the device received and what it was told stay, and so does the rest of a transfer.
Reading(n) ==
  /\ call.op \in Reads /\ pos' = pos + n /\ pos + n <= made
  /\ over' \in Nat /\ (kind # "vxi11" => over' = 0)
  /\ UNCHANGED <<kind, made, ends, received, lengths, recvsize, empties, tmo>>

LEMMA ReadingTypes ==
  ASSUME MessageInv, NEW n \in Nat, Reading(n)
  PROVE  /\ DeviceType' /\ MarkInv' /\ kind \in MessageKinds /\ answer = None
         /\ call.op # "write" /\ call.op # "idle"
         /\ call.base <= pos' /\ pos' \in Nat /\ call.base \in Nat
  <1>1. DeviceType'
    <2>1. made \in Nat /\ pos \in Nat
      BY CallTypes DEF MessageInv
    <2>2. pos' \in 0 .. made'
      BY <2>1 DEF Reading
    <2> QED BY <2>2 DEF MessageInv, MessageType, DeviceType, Reading
  <1>2. MarkInv'
    BY DEF MessageInv, MarkInv, Placed, Tells, Reading
  <1>3. call.op # "write" /\ call.op # "idle"
    BY DEF Reading, Reads
  <1>4. kind \in MessageKinds /\ answer = None /\ call.base <= pos
    BY <1>3 DEF MessageInv, RunInv, ReadInv, Reading
  <1>5. pos \in Nat /\ call.base \in Nat
    BY CallTypes DEF MessageInv
  <1> QED BY <1>1, <1>2, <1>3, <1>4, <1>5 DEF Reading

\* The read fails, and what it took is lost with the error.
LEMMA ReadFailHolds ==
  ASSUME MessageInv, NEW n \in Nat, Reading(n), Fail
  PROVE  MessageInv' /\ "uses" \notin DOMAIN answer'
  <1>1. answer' = Raised(call.op) /\ call' = Idle
    BY DEF Fail
  <1>2. Silent' /\ "uses" \notin DOMAIN answer'
    BY <1>1, RaisedIs
  <1> QED BY <1>1, <1>2, ReadingTypes, SilentClaims, IdleHolds

\* The bytes and the piece left out are what a method may return of all that was read.
Returns(bytes, dropped, end) ==
  /\ kind = "gpib" /\ call.op = "fread" /\ end = TRUE =>
       bytes \o dropped = Bytes(call.base, pos')
  /\ kind = "gpib" /\ call.op = "fscanf" /\ end # TRUE => bytes = << >>
  /\ ~ (kind = "gpib" /\ call.op = "fread" /\ end = TRUE) =>
       (~ (kind = "gpib" /\ call.op = "fscanf" /\ end # TRUE) =>
          AllBut(over', bytes, call.base, pos'))

LEMMA FinishHolds ==
  ASSUME MessageInv, NEW n \in Nat, Reading(n), NEW bytes, NEW count, NEW dropped,
         NEW end \in BOOLEAN, Finish(bytes, count, dropped, end),
         Returns(bytes, dropped, end)
  PROVE  MessageInv' /\ "uses" \notin DOMAIN answer'
  <1>1. /\ answer' = [op |-> call.op, status |-> "ok", bytes |-> bytes, count |-> count,
                      last |-> dropped, end |-> end, base |-> call.base]
        /\ call' = Idle
    BY DEF Finish
  <1>2. /\ answer'.op = call.op /\ answer'.bytes = bytes /\ answer'.last = dropped
        /\ answer'.end = end /\ answer'.base = call.base /\ "uses" \notin DOMAIN answer'
    BY <1>1
  <1>3. kind' = kind /\ call.op # "write"
    BY ReadingTypes DEF Reading
  <1>4. LossesRaised'
    <2>1. CASE kind = "gpib" /\ call.op = "fread" /\ end = TRUE
      BY <1>2, <1>3, <2>1 DEF LossesRaised, Returns
    <2>2. CASE kind = "gpib" /\ call.op = "fscanf" /\ end # TRUE
      BY <1>2, <1>3, <2>2 DEF LossesRaised, Returns
    <2>3. CASE /\ ~ (kind = "gpib" /\ call.op = "fread" /\ end = TRUE)
               /\ ~ (kind = "gpib" /\ call.op = "fscanf" /\ end # TRUE)
      BY <1>2, <1>3, <2>3 DEF LossesRaised, Returns
    <2> QED BY <2>1, <2>2, <2>3
  <1>5. EndsMarkWrites'
    BY <1>2, <1>3, ReadingTypes, MarksAre
  <1> QED BY <1>1, <1>2, <1>4, <1>5, ReadingTypes, IdleHolds

\* The values are made of what was read, or it raises an error.
LEMMA TypecastHolds ==
  ASSUME MessageInv, NEW n \in Nat, Reading(n), NEW bytes, NEW count, NEW dropped,
         NEW end \in BOOLEAN, Typecast(bytes, count, dropped, end),
         Returns(bytes, dropped, end)
  PROVE  MessageInv' /\ "uses" \notin DOMAIN answer'
  <1>1. Finish(bytes, count, dropped, end) \/ Fail
    BY DEF Typecast
  <1> QED BY <1>1, FinishHolds, ReadFailHolds

\* The read goes on: what it has got so far follows on to where the device is.
GoesOn(c) ==
  /\ c \in CallType /\ call' = c /\ c.op = call.op /\ c.base = call.base
  /\ AllBut(over', c.got \o c.chunk, c.base, pos') /\ Len(c.chunk) <= c.len
  /\ kind # "vxi11" => c.chunk = << >>
  /\ c.op # "fread" => c.got = << >>
  /\ c.op = "fread" => c.need = c.len

LEMMA ReadGoesOnHolds ==
  ASSUME MessageInv, NEW n \in Nat, Reading(n), UNCHANGED answer,
         NEW c, GoesOn(c)
  PROVE  MessageInv' /\ "uses" \notin DOMAIN answer'
  <1>6. /\ c \in CallType /\ call' = c /\ c.op = call.op /\ c.base = call.base
        /\ AllBut(over', c.got \o c.chunk, c.base, pos') /\ Len(c.chunk) <= c.len
        /\ kind # "vxi11" => c.chunk = << >>
        /\ c.op # "fread" => c.got = << >>
        /\ c.op = "fread" => c.need = c.len
    BY DEF GoesOn
  <1>1. kind' = kind /\ answer' = None /\ call.op \in Reads
    BY ReadingTypes DEF Reading
  <1>2. MessageType' /\ RunInv'
    BY <1>1, <1>6, ReadingTypes DEF MessageType, RunInv
  <1>3. ReadInv'
    <2>1. call.op = "fscanf" => kind = "gpib"
      BY <1>1 DEF MessageInv, ReadInv
    <2> QED BY <1>1, <1>6, <2>1, ReadingTypes DEF ReadInv
  <1>4. WriteInv'
    BY <1>6, ReadingTypes DEF WriteInv
  <1>5. Silent' /\ "uses" \notin DOMAIN answer'
    BY <1>1 DEF Silent, None
  <1> QED BY <1>2, <1>3, <1>4, <1>5, ReadingTypes, SilentClaims DEF MessageInv

\* The class's read is over: with what was got before it reaches to where the device is.
LEMMA ReadReturnsHolds ==
  ASSUME MessageInv, NEW n \in Nat, Reading(n), NEW b \in Seq(Nat), NEW end \in BOOLEAN,
         Len(b) <= call.len, AllBut(over', call.got \o b, call.base, pos'),
         ReadReturns(b, end)
  PROVE  MessageInv' /\ "uses" \notin DOMAIN answer'
  <1>1. /\ call.op \in Reads
        /\ call.op # "fread" => call.got = << >>
        /\ call.op = "fread" => call.need = call.len
        /\ call.op = "fscanf" => kind = "gpib"
        /\ kind # "vxi11" => call.chunk = << >>
    BY DEF MessageInv, ReadInv, Reading
  <1>3. PICK got \in Seq(Nat) : got = call.got
    BY CallTypes DEF MessageInv
  <1>4. PICK all \in Seq(Nat) : all = got \o b
    BY ConcatProperties
  <1>2. AllBut(over', all, call.base, pos')
    BY <1>3, <1>4
  <1>20. kind = "gpib" => all = Bytes(call.base, pos')
    <2>1. kind = "gpib" => over' = 0
      BY DEF Reading
    <2> QED BY <1>2, <2>1 DEF AllBut
  <1>5. call.op # "fread" => b = all
    <2>1. << >> \o b = b
      BY ConcatEmptySeq
    <2> QED BY <1>1, <1>3, <1>4, <2>1, Zenon
  <1>6. PICK need \in Nat : call.op = "fread" => need = call.need - Len(b)
    <2>1. call.op = "fread" => call.need - Len(b) \in Nat
      BY <1>1, CallTypes, SMTT(30) DEF MessageInv
    <2> QED BY <2>1
  <1>7. Len(<< >>) = 0 /\ << >> \in Seq(Nat) /\ all \o << >> = all
    OBVIOUS
  <1>8. CASE call.op = "read"
    <2>1. Finish(b, Len(b), b, end)
      BY <1>8 DEF ReadReturns
    <2>2. Returns(b, b, end)
      BY <1>2, <1>5, <1>8 DEF Returns
    <2> QED BY <2>1, <2>2, FinishHolds
  <1>9. CASE call.op = "fscanf"
    <2>1. PICK used : used = IF end = TRUE THEN b ELSE << >>
      OBVIOUS
    <2>2. Finish(used, Len(used), b, end)
      BY <1>9, <2>1 DEF ReadReturns, FscanfLoop
    <2>3. Returns(used, b, end)
      BY <1>1, <1>2, <1>5, <1>9, <2>1 DEF Returns
    <2> QED BY <2>2, <2>3, FinishHolds
  <1>10. CASE call.op = "fread" /\ kind = "gpib"
    <2>1. GpibFreadLoop(b, end)
      BY <1>10 DEF ReadReturns
    <2>2. CASE end = TRUE
      <3>1. Typecast(call.got, call.count + Len(b), b, TRUE)
        BY <2>1, <2>2 DEF GpibFreadLoop
      <3>2. Returns(call.got, b, TRUE)
        BY <1>3, <1>4, <1>20, <1>10 DEF Returns
      <3> QED BY <3>1, <3>2, TypecastHolds
    <2>3. CASE end = FALSE /\ call.need - Len(b) = 0
      <3>1. Typecast(call.got \o b, call.count + Len(b), b, FALSE)
        BY <2>1, <2>3 DEF GpibFreadLoop
      <3>2. Returns(call.got \o b, b, FALSE)
        BY <1>2, <1>3, <1>4, <1>10 DEF Returns
      <3> QED BY <3>1, <3>2, TypecastHolds
    <2>4. CASE end = FALSE /\ call.need - Len(b) # 0
      <3>1. /\ call' = [call EXCEPT !.got = call.got \o b, !.need = call.need - Len(b),
                                    !.len = call.need - Len(b), !.count = call.count + Len(b)]
            /\ UNCHANGED answer
        BY <2>1, <2>4 DEF GpibFreadLoop
      <3>2. PICK count \in Nat : count = call.count + Len(b)
        BY CallTypes DEF MessageInv
      <3>3. call' = [call EXCEPT !.got = all, !.need = need, !.len = need, !.count = count]
        BY <1>3, <1>4, <1>6, <1>10, <3>1, <3>2
      <3>4. PICK c \in CallType :
              c = [call EXCEPT !.got = all, !.need = need, !.len = need, !.count = count]
        BY DEF MessageInv, MessageType, CallType
      <3>5. /\ c.op = call.op /\ c.base = call.base /\ c.got = all /\ c.chunk = << >>
            /\ c.need = need /\ c.len = need
        BY <1>1, <1>10, <3>4 DEF MessageInv, MessageType, CallType
      <3>6. AllBut(over', c.got \o c.chunk, c.base, pos')
        BY <1>2, <1>7, <3>5
      <3>7. Len(c.chunk) = 0 /\ c.len \in Nat /\ c \in CallType
        BY <1>7, <3>4, <3>5
      <3>8. Len(c.chunk) <= c.len
        BY <3>7
      <3>9. GoesOn(c)
        BY <1>10, <3>3, <3>4, <3>5, <3>6, <3>8 DEF GoesOn
      <3> QED BY <3>1, <3>9, ReadGoesOnHolds
    <2> QED BY <2>2, <2>3, <2>4
  <1>11. CASE call.op = "fread" /\ kind # "gpib"
    <2>1. FreadLoop(b)
      BY <1>11 DEF ReadReturns
    <2>2. CASE b = << >> \/ call.need - Len(b) = 0
      <3>1. Typecast(call.got \o b, Len(call.got \o b), b, FALSE)
        BY <2>1, <2>2 DEF FreadLoop
      <3>2. Returns(call.got \o b, b, FALSE)
        BY <1>2, <1>3, <1>4, <1>11 DEF Returns
      <3> QED BY <3>1, <3>2, TypecastHolds
    <2>3. CASE ~ (b = << >> \/ call.need - Len(b) = 0)
      <3>1. /\ call' = [call EXCEPT !.got = call.got \o b, !.need = call.need - Len(b),
                                    !.len = call.need - Len(b), !.chunk = << >>,
                                    !.count = Len(call.got \o b)]
            /\ UNCHANGED answer
        BY <2>1, <2>3 DEF FreadLoop
      <3>2. PICK count \in Nat : count = Len(all)
        OBVIOUS
      <3>3. call' = [call EXCEPT !.got = all, !.need = need, !.len = need, !.chunk = << >>,
                                 !.count = count]
        BY <1>3, <1>4, <1>6, <1>11, <3>1, <3>2
      <3>4. PICK c \in CallType :
              c = [call EXCEPT !.got = all, !.need = need, !.len = need, !.chunk = << >>,
                               !.count = count]
        BY <1>7 DEF MessageInv, MessageType, CallType
      <3>5. /\ c.op = call.op /\ c.base = call.base /\ c.got = all /\ c.chunk = << >>
            /\ c.need = need /\ c.len = need
        BY <3>4 DEF MessageInv, MessageType, CallType
      <3>6. AllBut(over', c.got \o c.chunk, c.base, pos')
        BY <1>2, <1>7, <3>5
      <3>7. Len(c.chunk) = 0 /\ c.len \in Nat /\ c \in CallType
        BY <1>7, <3>4, <3>5
      <3>8. Len(c.chunk) <= c.len
        BY <3>7
      <3>9. GoesOn(c)
        BY <1>11, <3>3, <3>4, <3>5, <3>6, <3>8 DEF GoesOn
      <3> QED BY <3>1, <3>9, ReadGoesOnHolds
    <2> QED BY <2>2, <2>3
  <1>12. call.op \in {"read", "fread", "fscanf"}
    BY <1>1 DEF Reads
  <1> QED BY <1>8, <1>9, <1>10, <1>11, <1>12

\* One transfer of each class.
LEMMA ReadLoopHolds ==
  ASSUME MessageInv, ReadLoop
  PROVE  MessageInv' /\ "uses" \notin DOMAIN answer' /\ UNCHANGED kind
  <1>1. /\ call.op \in Reads
        /\ UNCHANGED <<kind, open, made, ends, received, lengths, recvsize, empties, tmo>>
    BY DEF ReadLoop, Reads
  <1>2. /\ made \in Nat /\ pos \in 0 .. made /\ pos \in Nat
        /\ call.base \in Nat /\ call.len \in Nat
        /\ call.got \in Seq(Nat) /\ call.chunk \in Seq(Nat) /\ call.base <= pos
        /\ AllBut(over, call.got \o call.chunk, call.base, pos) /\ Len(call.chunk) <= call.len
        /\ kind # "vxi11" => call.chunk = << >> /\ over = 0
        /\ over \in Nat
    <2>1. /\ made \in Nat /\ pos \in Nat /\ pos <= made /\ call.base \in Nat /\ call.len \in Nat
          /\ call.got \in Seq(Nat) /\ call.chunk \in Seq(Nat)
          /\ over \in Nat /\ (kind # "vxi11" => over = 0)
      BY CallTypes DEF MessageInv
    <2>2. /\ call.base <= pos /\ AllBut(over, call.got \o call.chunk, call.base, pos)
          /\ Len(call.chunk) <= call.len
          /\ kind # "vxi11" => call.chunk = << >>
      BY <1>1 DEF MessageInv, ReadInv
    <2>3. pos \in 0 .. made
      BY <2>1
    <2> QED BY <2>1, <2>2, <2>3, Zenon
  <1>3. \A len \in Nat : Ready(len) \in Nat /\ Ready(len) <= len /\ pos + Ready(len) <= made
    BY <1>2, ReadyIs
  \* What the next n bytes make of what there is.
  <1>4. ASSUME NEW n \in Nat
        PROVE  /\ Bytes(pos, pos + n) \in Seq(Nat) /\ Len(Bytes(pos, pos + n)) = n
               /\ call.chunk \o Bytes(pos, pos + n) \in Seq(Nat)
               /\ Len(call.chunk \o Bytes(pos, pos + n)) = Len(call.chunk) + n
               /\ AllBut(over, call.got \o (call.chunk \o Bytes(pos, pos + n)), call.base,
                         pos + n)
    <2>1. PICK m \in Nat : m = pos + n
      BY <1>2
    <2>2. pos <= m /\ m - pos = n
      BY <1>2, <2>1
    <2>3. Bytes(pos, m) \in Seq(Nat) /\ Len(Bytes(pos, m)) = n
      BY <1>2, <2>2, BytesAre
    <2>4. PICK s \in Seq(Nat) : s = Bytes(pos, m)
      BY <2>3
    <2>8. PICK g \in Seq(Nat) : g = call.got
      BY <1>2
    <2>9. PICK h \in Seq(Nat) : h = call.chunk
      BY <1>2
    <2>10. h \o s \in Seq(Nat) /\ Len(h \o s) = Len(h) + Len(s)
      BY ConcatProperties
    <2>5. call.chunk \o s \in Seq(Nat) /\ Len(call.chunk \o s) = Len(call.chunk) + Len(s)
      BY <2>9, <2>10
    <2>11. g \o (h \o s) = (g \o h) \o s
      BY ConcatAssociative
    <2>6. call.got \o (call.chunk \o s) = (call.got \o call.chunk) \o s
      BY <2>8, <2>9, <2>11, Zenon
    <2>12. g \o h \in Seq(Nat) /\ AllBut(over, g \o h, call.base, pos)
      BY <1>2, <2>8, <2>9, ConcatProperties
    <2>7. AllBut(over, (g \o h) \o Bytes(pos, m), call.base, m)
      BY <1>2, <2>2, <2>12, AllButJoin
    <2>13. AllBut(over, call.got \o (call.chunk \o Bytes(pos, m)), call.base, m)
      BY <2>4, <2>6, <2>7, <2>8, <2>9, Zenon
    <2> QED BY <2>1, <2>3, <2>4, <2>5, <2>13, Zenon
  <1>5. CASE Vxi11Read
    <2>1. PICK room \in Nat : room = call.len - Len(call.chunk)
      BY <1>2
    <2>2. PICK most \in {room, made - pos} :
            /\ kind = "vxi11"
            /\ pos' = pos + Ready(most)
            /\ over' = over + Ready(most) - (IF Ready(most) <= room THEN Ready(most) ELSE 0)
            /\ LET n == Ready(most)
                   chunk == call.chunk \o Bytes(pos, pos + (IF n <= room THEN n ELSE 0)) IN
               IF Ended(n) THEN ReadReturns(chunk, TRUE)
               ELSE IF Len(chunk) = call.len \/ (n = 0 /\ ~empties) THEN Fail
               ELSE call' = [call EXCEPT !.chunk = chunk] /\ UNCHANGED answer
      BY <1>5, <2>1 DEF Vxi11Read
    <2>3. PICK n \in Nat : n = Ready(most) /\ pos + n <= made
      <3>1. most \in Nat
        BY <1>2, <2>1
      <3> QED BY <1>3, <3>1
    <2>12. PICK counted \in Nat :
             /\ counted = IF n <= room THEN n ELSE 0
             /\ counted \in {0, n} /\ counted <= room
      <3>1. (IF n <= room THEN n ELSE 0) \in Nat
        OBVIOUS
      <3>2. (IF n <= room THEN n ELSE 0) \in {0, n} /\ (IF n <= room THEN n ELSE 0) <= room
        BY <2>1
      <3> QED BY <3>1, <3>2
    <2>4. PICK chunk : chunk = call.chunk \o Bytes(pos, pos + counted)
      OBVIOUS
    <2>5. /\ kind = "vxi11" /\ pos' = pos + n /\ over' = over + n - counted
          /\ IF Ended(n) THEN ReadReturns(chunk, TRUE)
             ELSE IF Len(chunk) = call.len \/ (n = 0 /\ ~empties) THEN Fail
             ELSE call' = [call EXCEPT !.chunk = chunk] /\ UNCHANGED answer
      BY <2>2, <2>3, <2>12, <2>4, Zenon
    <2>6. Reading(n)
      <3>1. over' \in Nat
        BY <1>2, <2>5, <2>12
      <3> QED BY <1>1, <2>3, <2>5, <3>1 DEF Reading
    <2>13. /\ chunk \in Seq(Nat) /\ Len(chunk) = Len(call.chunk) + counted
           /\ AllBut(over, call.got \o chunk, call.base, pos + counted)
      BY <1>4, <2>4, Zenon
    <2>7. /\ chunk \in Seq(Nat) /\ Len(chunk) = Len(call.chunk) + counted
          /\ AllBut(over', call.got \o chunk, call.base, pos')
      <3>1. CASE counted = n
        <4>1. over' = over
          BY <1>2, <2>5, <3>1
        <4> QED BY <2>5, <2>13, <3>1, <4>1, Zenon
      <3>2. CASE counted = 0
        <4>1. pos + counted = pos
          BY <1>2, <3>2
        <4>2. over' = over + n
          BY <1>2, <2>5, <3>2
        <4>3. PICK s \in Seq(Nat) : s = call.got \o chunk
          BY <1>2, <2>13, ConcatProperties
        <4>4. AllBut(over, s, call.base, pos)
          BY <2>13, <4>1, <4>3, Zenon
        <4>5. AllBut(over + n, s, call.base, pos + n)
          BY <1>2, <4>4, AllButSkip
        <4> QED BY <2>5, <2>13, <4>2, <4>3, <4>5, Zenon
      <3> QED BY <2>12, <3>1, <3>2
    <2>8. Len(chunk) <= call.len
      <3>1. PICK l \in Nat : l = Len(call.chunk)
        BY <1>2
      <3>2. call.len \in Nat /\ room = call.len - l /\ counted <= room
        BY <1>2, <2>1, <2>12, <3>1
      <3>3. l + counted <= call.len
        BY <3>1, <3>2
      <3> QED BY <2>7, <3>1, <3>3
    <2>9. CASE Ended(n)
      <3>1. ReadReturns(chunk, TRUE)
        BY <2>5, <2>9
      <3> QED BY <1>1, <2>6, <2>7, <2>8, <3>1, ReadReturnsHolds
    <2>10. CASE ~Ended(n) /\ (Len(chunk) = call.len \/ (n = 0 /\ ~empties))
      BY <1>1, <2>5, <2>6, <2>10, ReadFailHolds
    <2>11. CASE ~Ended(n) /\ ~ (Len(chunk) = call.len \/ (n = 0 /\ ~empties))
      <3>1. call' = [call EXCEPT !.chunk = chunk] /\ UNCHANGED answer
        BY <2>5, <2>11
      <3>2. PICK c \in CallType : c = [call EXCEPT !.chunk = chunk]
        BY <2>7 DEF MessageInv, MessageType, CallType
      <3>3. /\ c.op = call.op /\ c.base = call.base /\ c.got = call.got /\ c.chunk = chunk
            /\ c.need = call.need /\ c.len = call.len
        BY <3>2 DEF MessageInv, MessageType, CallType
      <3>4. /\ call.op # "fread" => call.got = << >>
            /\ call.op = "fread" => call.need = call.len
        BY <1>1 DEF MessageInv, ReadInv
      <3>5. GoesOn(c)
        BY <2>5, <2>7, <2>8, <3>1, <3>2, <3>3, <3>4 DEF GoesOn
      <3> QED BY <1>1, <2>6, <3>1, <3>5, ReadGoesOnHolds
    <2> QED BY <2>9, <2>10, <2>11
  \* The others have no chunk: what they get is what the transfer brings.
  <1>6. ASSUME NEW n \in Nat, kind # "vxi11", pos' = pos + n, UNCHANGED over
        PROVE  AllBut(over', call.got \o Bytes(pos, pos + n), call.base, pos')
    <2>1. PICK s \in Seq(Nat) : s = Bytes(pos, pos + n)
      BY <1>4
    <2>2. call.chunk \o s = s
      <3>1. << >> \o s = s
        BY ConcatEmptySeq
      <3> QED BY <1>2, <1>6, <3>1, Zenon
    <2>3. AllBut(over, call.got \o (call.chunk \o Bytes(pos, pos + n)), call.base, pos + n)
      BY <1>4
    <2> QED BY <1>6, <2>1, <2>2, <2>3, Zenon
  <1>7. PICK n \in Nat : n = Ready(call.len)
    BY <1>2, <1>3
  <1>8. n <= call.len /\ pos + n <= made
    BY <1>2, <1>3, <1>7
  <1>9. ASSUME kind # "vxi11", pos' = pos + n, UNCHANGED over,
               \/ Fail
               \/ \E end \in BOOLEAN : ReadReturns(Bytes(pos, pos + n), end)
        PROVE  MessageInv' /\ "uses" \notin DOMAIN answer' /\ UNCHANGED kind
    <2>1. Reading(n)
      BY <1>1, <1>2, <1>8, <1>9 DEF Reading
    <2>2. /\ Bytes(pos, pos + n) \in Seq(Nat) /\ Len(Bytes(pos, pos + n)) <= call.len
          /\ AllBut(over', call.got \o Bytes(pos, pos + n), call.base, pos')
      BY <1>4, <1>6, <1>8, <1>9
    <2> QED BY <1>1, <1>9, <2>1, <2>2, ReadFailHolds, ReadReturnsHolds
  <1>10. CASE UsbtmcRead
    BY <1>7, <1>9, <1>10 DEF UsbtmcRead
  <1>11. CASE VisaRead
    BY <1>7, <1>9, <1>11 DEF VisaRead
  <1>12. CASE GpibRead
    <2>1. Ended(n) \in BOOLEAN
      BY DEF Ended
    <2> QED BY <1>7, <1>9, <1>12, <2>1 DEF GpibRead
  <1> QED BY <1>5, <1>10, <1>11, <1>12 DEF ReadLoop

LEMMA StartReadHolds ==
  ASSUME MessageInv, kind \in MessageKinds, NEW op \in {"read", "fread", "fscanf"},
         NEW len \in Sizes \cup {ScanSize}, StartRead(op, len)
  PROVE  MessageInv' /\ "uses" \notin DOMAIN answer' /\ UNCHANGED kind
  <1>1. Callable /\ (op = "fscanf" => kind = "gpib")
    BY DEF StartRead
  <1>2. CASE ~open
    <2>1. answer' = Raised(op) /\ UNCHANGED <<kind, messagevars>>
      BY <1>2 DEF StartRead, Tell
    <2> QED BY <1>1, <2>1, RaisedIs, QuietHolds
  <1>3. CASE open /\ op = "fread" /\ len = 0
    <2>1. /\ answer' = [op |-> op, status |-> "ok", bytes |-> << >>, count |-> 0,
                        last |-> << >>, end |-> FALSE, base |-> pos]
          /\ over' = 0
          /\ UNCHANGED <<kind, made, ends, pos, received, lengths, recvsize, empties, tmo, call>>
      BY <1>3 DEF StartRead
    <2>2. /\ answer'.op = "fread" /\ answer'.bytes = << >> /\ answer'.end = FALSE
          /\ answer'.base = pos /\ "uses" \notin DOMAIN answer'
      BY <1>3, <2>1
    <2>3. AllBut(0, << >>, pos, pos)
      <3>1. Bytes(pos, pos) = << >>
        BY CallTypes, BytesNone DEF MessageInv
      <3> QED BY <3>1 DEF AllBut
    <2>5. LossesRaised'
      BY <2>1, <2>2, <2>3 DEF LossesRaised
    <2>6. DeviceType' /\ MarkInv'
      BY <2>1 DEF MessageInv, MessageType, DeviceType, MarkInv, Placed, Tells
    <2>7. MessageType' /\ RunInv' /\ ReadInv' /\ WriteInv'
      <3>1. call'.op = "idle" /\ call' = call
        BY <1>1, <2>1 DEF Callable
      <3> QED BY <2>6, <3>1 DEF MessageInv, MessageType, RunInv, ReadInv, WriteInv, Reads
    <2>8. EndsMarkWrites'
      BY <2>2, <2>6, MarksAre
    <2> QED BY <2>1, <2>2, <2>5, <2>6, <2>7, <2>8 DEF MessageInv
  <1>4. CASE open /\ ~ (op = "fread" /\ len = 0)
    <2>1. len \in Nat
      BY MessageAssumption
    <2>2. /\ call' = [Idle EXCEPT !.op = op, !.need = len, !.len = len, !.base = pos]
          /\ answer' = None
          /\ over' = 0
          /\ UNCHANGED <<kind, made, ends, pos, received, lengths, recvsize, empties, tmo>>
      BY <1>4 DEF StartRead
    <2>3. pos \in Nat /\ op \in Reads /\ op # "write" /\ op # "idle"
      BY CallTypes DEF MessageInv, Reads
    <2>4. /\ call' = [op |-> op, need |-> len, len |-> len, chunk |-> << >>, got |-> << >>,
                      count |-> 0, left |-> 0, base |-> pos]
      BY <2>2 DEF Idle
    <2>5. << >> \in Seq(Nat) /\ Len(<< >>) = 0 /\ << >> \o << >> = << >>
      <3>1. << >> \in Seq(Nat)
        OBVIOUS
      <3> QED BY <3>1, ConcatEmptySeq
    <2>6. DeviceType' /\ MarkInv'
      BY <2>2 DEF MessageInv, MessageType, DeviceType, MarkInv, Placed, Tells
    <2>7. MessageType'
      BY <2>1, <2>3, <2>4, <2>5, <2>6 DEF MessageType, CallType, Ops
    <2>8. RunInv' /\ WriteInv'
      BY <2>2, <2>3, <2>4 DEF RunInv, WriteInv
    <2>9. ReadInv'
      <3>1. Bytes(pos, pos) = << >>
        BY <2>3, BytesNone
      <3>2. /\ call'.op = op /\ call'.need = len /\ call'.len = len /\ call'.chunk = << >>
            /\ call'.got = << >> /\ call'.base = pos /\ pos' = pos /\ kind' = kind
            /\ over' = 0
        <4>1. /\ call'.op = op /\ call'.need = len /\ call'.len = len /\ call'.chunk = << >>
              /\ call'.got = << >> /\ call'.base = pos
          BY <2>4
        <4>2. pos' = pos /\ kind' = kind /\ over' = 0
          BY <2>2
        <4> QED BY <4>1, <4>2, Zenon
      <3>3. AllBut(over', call'.got \o call'.chunk, call'.base, pos')
        BY <2>5, <3>1, <3>2 DEF AllBut
      <3>4. Len(call'.chunk) <= call'.len
        BY <2>1, <2>5, <3>2
      <3>5. call'.base <= pos'
        BY <2>3, <3>2
      <3> QED BY <1>1, <3>2, <3>3, <3>4, <3>5 DEF ReadInv
    <2>10. Silent' /\ "uses" \notin DOMAIN answer'
      BY <2>2 DEF Silent, None
    <2> QED BY <2>2, <2>6, <2>7, <2>8, <2>9, <2>10, SilentClaims DEF MessageInv
  <1> QED BY <1>2, <1>3, <1>4

LEMMA ReadFailsHolds ==
  ASSUME MessageInv, ReadFails
  PROVE  MessageInv' /\ "uses" \notin DOMAIN answer' /\ UNCHANGED kind
  <1>1. /\ call.op \in Reads /\ Fail
        /\ UNCHANGED <<kind, made, ends, pos, over, received, lengths, recvsize, empties, tmo>>
    BY DEF ReadFails, Reads, devicevars
  <1>2. pos \in Nat /\ pos <= made
    BY CallTypes DEF MessageInv
  <1>3. Reading(0)
    BY <1>1, <1>2, CallTypes DEF MessageInv, Reading
  <1> QED BY <1>1, <1>3, ReadFailHolds

-----------------------------------------------------------------------------
\* Messages: writes

LEMMA Remainder ==
  ASSUME NEW a \in Int
  PROVE  a % Word \in Nat /\ (a \in 0 .. (Word - 1) => a % Word = a)
  <1>1. PICK w \in Nat : w = Word /\ w > 0
    BY MessageAssumption
  <1>2. a % w \in Nat
    BY <1>1, SMT
  <1>3. a \in 0 .. (w - 1) => a % w = a
    BY <1>1, SMT
  <1> QED BY <1>1, <1>2, <1>3

LEMMA TakesIs ==
  ASSUME MessageType, NEW i \in Nat, NEW j \in Nat, i <= j, NEW end \in BOOLEAN,
         Takes(i, j, end)
  PROVE  /\ received' \in Seq(Piece) /\ Len(received') = Len(received) + (j - i)
         /\ \A m \in 1 .. Len(received) : received'[m] = received[m]
         /\ \A k \in 1 .. (j - i) :
              /\ received'[Len(received) + k].byte = <<Len(lengths), i + k>>
              /\ received'[Len(received) + k].end = (end = TRUE /\ k = j - i)
  <1>1. received \in Seq(Piece) /\ Len(lengths) \in Nat
    BY CallTypes
  <1>2. PICK s : s = [k \in 1 .. (j - i) |-> Byte(i + k, end /\ k = j - i)]
    OBVIOUS
  <1>3. ASSUME NEW k \in 1 .. (j - i)
        PROVE  /\ s[k] \in Piece /\ s[k].byte = <<Len(lengths), i + k>>
               /\ s[k].end = (end = TRUE /\ k = j - i)
    <2>1. s[k] = Byte(i + k, end /\ k = j - i)
      BY <1>2
    <2>2. (end /\ k = j - i) = (end = TRUE /\ k = j - i)
      OBVIOUS
    <2>3. PICK last \in BOOLEAN : last = (end = TRUE /\ k = j - i)
      OBVIOUS
    <2>4. s[k] = [byte |-> <<Len(lengths), i + k>>, end |-> last]
      BY <2>1, <2>2, <2>3, Zenon DEF Byte
    <2>5. i + k \in Nat
      OBVIOUS
    <2>6. s[k] \in Piece /\ s[k].byte = <<Len(lengths), i + k>> /\ s[k].end = last
      BY <1>1, <2>4, <2>5 DEF Piece
    <2> QED BY <2>3, <2>6, Zenon
  <1>4. s \in Seq(Piece) /\ Len(s) = j - i
    <2>1. PICK l \in Nat : l = j - i
      OBVIOUS
    <2>2. s = [k \in 1 .. l |-> Byte(i + k, end /\ k = l)]
      BY <1>2, <2>1
    <2>3. \A k \in 1 .. l : s[k] \in Piece
      BY <1>3, <2>1
    <2>4. s \in [1 .. l -> Piece]
      <3>1. DOMAIN s = 1 .. l /\ s = [k \in 1 .. l |-> s[k]]
        BY <2>2
      <3> QED BY <2>3, <3>1
    <2>5. s \in Seq(Piece) /\ Len(s) = l
      BY <2>4
    <2> QED BY <2>1, <2>5
  <1>5. received' = received \o s
    BY <1>2 DEF Takes
  <1>6. PICK r \in Seq(Piece) : r = received
    BY <1>1
  <1>7. PICK u \in Seq(Piece) : u = s
    BY <1>4
  <1>8. /\ r \o u \in Seq(Piece) /\ Len(r \o u) = Len(r) + Len(u)
        /\ \A m \in 1 .. Len(r) : (r \o u)[m] = r[m]
        /\ \A k \in 1 .. Len(u) : (r \o u)[Len(r) + k] = u[k]
    BY ConcatProperties
  <1>9. received' = r \o u
    BY <1>5, <1>6, <1>7, Zenon
  <1>10. Len(u) = j - i
    BY <1>4, <1>7
  <1>11. \A k \in 1 .. (j - i) :
           /\ u[k].byte = <<Len(lengths), i + k>> /\ u[k].end = (end = TRUE /\ k = j - i)
    BY <1>3, <1>7
  <1> QED BY <1>6, <1>8, <1>9, <1>10, <1>11

\* The bytes i+1 .. j of the latest write come after byte i of it, END with its last one.
Continues(i, j, end) ==
  /\ Len(lengths) > 0 /\ j <= lengths[Len(lengths)]
  /\ i > 0 => Len(received) > 0 /\ received[Len(received)].byte = <<Len(lengths), i>>
  /\ i < j => (end = TRUE <=> j = lengths[Len(lengths)])

LEMMA TakesPlaces ==
  ASSUME MessageType, MarkInv, Tells, UNCHANGED <<kind, lengths, recvsize>>,
         NEW i \in Nat, NEW j \in Nat, i <= j, NEW end \in BOOLEAN, Takes(i, j, end),
         Continues(i, j, end)
  PROVE  MarkInv'
  <1>1. /\ received' \in Seq(Piece) /\ Len(received') = Len(received) + (j - i)
        /\ \A m \in 1 .. Len(received) : received'[m] = received[m]
        /\ \A k \in 1 .. (j - i) :
             /\ received'[Len(received) + k].byte = <<Len(lengths), i + k>>
             /\ received'[Len(received) + k].end = (end = TRUE /\ k = j - i)
    BY TakesIs
  <1>2. PICK r \in Nat : r = Len(received)
    BY CallTypes
  <1>3. PICK w \in Nat : w = Len(lengths)
    BY CallTypes
  <1>4. w > 0 /\ lengths[w] \in Nat
    BY <1>3, CallTypes DEF Continues
  <1>5. PICK l \in Nat : l = lengths[w]
    BY <1>4
  <1>6. /\ j <= l /\ (i < j => (end = TRUE <=> j = l))
        /\ i > 0 => r > 0 /\ received[r].byte = <<w, i>>
    BY <1>2, <1>3, <1>5 DEF Continues
  <1>7. \A m \in 1 .. r : Placed(m) /\ received'[m] = received[m]
    BY <1>1, <1>2 DEF MarkInv
  <1>8. ASSUME NEW m \in 1 .. r PROVE Placed(m)'
    <2>1. Placed(m) /\ received'[m] = received[m]
      BY <1>7
    <2>2. m > 1 => received'[m - 1] = received[m - 1]
      <3>1. m > 1 => m - 1 \in 1 .. r
        OBVIOUS
      <3> QED BY <1>7, <3>1
    <2> QED BY <2>1, <2>2 DEF Placed
  <1>9. ASSUME NEW k \in 1 .. (j - i) PROVE Placed(r + k)'
    <2>1. PICK a : a = received'[r + k]
      OBVIOUS
    <2>2. a.byte = <<w, i + k>> /\ a.end = (end = TRUE /\ k = j - i)
      BY <1>1, <1>2, <1>3, <2>1
    <2>3. a.byte[1] = w /\ a.byte[2] = i + k
      BY <2>2
    <2>4. w \in 1 .. Len(lengths') /\ lengths'[w] = l /\ i + k \in 1 .. l
      BY <1>3, <1>4, <1>5, <1>6
    <2>5. a.end <=> i + k = l
      <3>1. i + k = l <=> end = TRUE /\ k = j - i
        BY <1>6
      <3> QED BY <2>2, <3>1, Zenon
    <2>6. i + k > 1 => r + k > 1 /\ received'[r + k - 1].byte = <<w, i + k - 1>>
      <3>1. CASE k = 1
        <4>1. i > 0 => r > 0 /\ received'[r].byte = <<w, i>>
          BY <1>6, <1>7
        <4>2. i + k > 1 => i > 0
          BY <3>1
        <4>3. r + k - 1 = r /\ i + k - 1 = i /\ (r > 0 => r + k > 1)
          BY <3>1
        <4> QED BY <4>1, <4>2, <4>3
      <3>2. CASE k > 1
        <4>1. PICK h \in 1 .. (j - i) : h = k - 1
          BY <3>2
        <4>2. received'[r + h].byte = <<w, i + h>>
          BY <1>1, <1>2, <1>3
        <4>3. r + h = r + k - 1 /\ i + h = i + k - 1 /\ r + k > 1
          BY <3>2, <4>1
        <4> QED BY <4>2, <4>3
      <3> QED BY <3>1, <3>2
    <2>7. PICK x \in Nat : x = r + k
      OBVIOUS
    <2>8. PICK y \in Nat : y = i + k
      OBVIOUS
    <2>9. /\ received'[x].byte[1] = w /\ received'[x].byte[2] = y
          /\ received'[x].end <=> y = l
          /\ y > 1 => x > 1 /\ received'[x - 1].byte = <<w, y - 1>>
      <3>1. received'[x] = a
        BY <2>1, <2>7
      <3>2. a.byte[1] = w /\ a.byte[2] = y /\ (a.end <=> y = l)
        BY <2>3, <2>5, <2>8, Zenon
      <3>3. y > 1 => x > 1 /\ received'[x - 1].byte = <<w, y - 1>>
        BY <2>6, <2>7, <2>8
      <3> QED BY <3>1, <3>2, <3>3, Zenon
    <2>10. w \in 1 .. Len(lengths') /\ lengths'[w] = l /\ y \in 1 .. l
      BY <2>4, <2>8
    <2>11. Placed(x)'
      BY <2>9, <2>10 DEF Placed
    <2> QED BY <2>7, <2>11
  <1>10. ASSUME NEW x \in 1 .. Len(received') PROVE Placed(x)'
    <2>1. x \in 1 .. (r + (j - i))
      BY <1>1, <1>2
    <2>2. CASE x <= r
      BY <1>8, <2>1, <2>2
    <2>3. CASE x > r
      <3>1. PICK k \in 1 .. (j - i) : k = x - r
        BY <2>1, <2>3
      <3>2. Placed(r + k)' /\ r + k = x
        BY <1>9, <2>1, <3>1
      <3> QED BY <3>2
    <2>4. x <= r \/ x > r
      BY <2>1
    <2> QED BY <2>2, <2>3, <2>4, Zenon
  <1> QED BY <1>10 DEF MarkInv

LEMMA StartWriteHolds ==
  ASSUME MessageInv, kind \in MessageKinds, NEW len \in Sizes, StartWrite(len)
  PROVE  MessageInv' /\ "uses" \notin DOMAIN answer' /\ UNCHANGED kind
  <1>1. Callable /\ len \in Nat /\ len > 0 /\ len < Word
    BY MessageAssumption DEF StartWrite
  <1>2. CASE ~open
    <2>1. answer' = Raised("write") /\ UNCHANGED <<kind, messagevars>>
      BY <1>2 DEF StartWrite, Tell
    <2> QED BY <1>1, <2>1, RaisedIs, QuietHolds
  <1>3. CASE open
    <2>1. /\ lengths' = Append(lengths, len)
          /\ call' = [Idle EXCEPT !.op = "write", !.len = len, !.left = len]
          /\ answer' = None
          /\ UNCHANGED <<kind, made, ends, pos, over, received, recvsize, empties, tmo>>
      BY <1>3 DEF StartWrite, devicevars
    <2>2. call' = [op |-> "write", need |-> 0, len |-> len, chunk |-> << >>, got |-> << >>,
                   count |-> 0, left |-> len, base |-> 0]
      BY <2>1 DEF Idle
    <2>3. PICK n \in Nat : n = Len(lengths)
      BY CallTypes DEF MessageInv
    <2>4. /\ lengths' \in Seq(Nat) /\ Len(lengths') = n + 1 /\ lengths'[n + 1] = len
          /\ \A w \in 1 .. n : lengths'[w] = lengths[w]
      <3>1. lengths \in Seq(Nat)
        BY CallTypes DEF MessageInv
      <3> QED BY <1>1, <2>1, <2>3, <3>1
    <2>5. << >> \in Seq(Nat) /\ call'.op = "write" /\ call'.len = len /\ call'.left = len
      <3>1. << >> \in Seq(Nat)
        OBVIOUS
      <3> QED BY <2>2, <3>1
    <2>6. call' \in CallType
      BY <1>1, <2>2, <2>5 DEF CallType, Ops
    <2>7. DeviceType'
      BY <2>1, <2>4 DEF MessageInv, MessageType, DeviceType
    <2>8. MarkInv'
      <3>1. ASSUME NEW m \in 1 .. Len(received), Placed(m) PROVE Placed(m)'
        <4>1. received'[m] = received[m] /\ received'[m - 1] = received[m - 1]
          BY <2>1
        <4>2. PICK w : w = received[m].byte[1]
          OBVIOUS
        <4>3. w \in 1 .. n
          BY <2>3, <3>1, <4>2 DEF Placed
        <4>4. w \in 1 .. Len(lengths') /\ lengths'[w] = lengths[w]
          BY <2>4, <4>3
        <4> QED BY <3>1, <4>1, <4>2, <4>4 DEF Placed
      <3>2. Tells' = Tells /\ received' = received
        BY <2>1 DEF Tells
      <3> QED BY <3>1, <3>2 DEF MessageInv, MarkInv
    <2>9. WriteInv'
      <3>1. SUFFICES ASSUME Tells PROVE WriteInv'
        <4>1. Tells' = Tells
          BY <2>1 DEF Tells
        <4> QED BY <3>1, <4>1 DEF WriteInv
      <3>2. Len(lengths') > 0 /\ call'.len = lengths'[Len(lengths')] /\ call'.len < Word
        BY <1>1, <2>4, <2>5
      <3>3. call'.left \in 1 .. call'.len /\ call'.left = call'.len /\ ~ (call'.left < call'.len)
        BY <1>1, <2>5
      <3>4. ASSUME NEW i \in 1 .. Len(received') PROVE received'[i].byte[1] < Len(lengths')
        <4>1. Placed(i) /\ received' = received
          BY <2>1, <3>1 DEF MessageInv, MarkInv
        <4>2. PICK w : w = received[i].byte[1]
          OBVIOUS
        <4>3. w \in 1 .. n
          BY <2>3, <4>1, <4>2 DEF Placed
        <4> QED BY <2>4, <4>1, <4>2, <4>3
      <3> QED BY <3>2, <3>3, <3>4 DEF WriteInv
    <2>10. RunInv' /\ ReadInv'
      BY <2>1, <2>5 DEF RunInv, ReadInv, Reads
    <2>11. Silent' /\ "uses" \notin DOMAIN answer'
      BY <2>1 DEF Silent, None
    <2>12. MessageType'
      BY <2>6, <2>7 DEF MessageType
    <2> QED BY <2>1, <2>7, <2>8, <2>9, <2>10, <2>11, <2>12, SilentClaims DEF MessageInv
  <1> QED BY <1>2, <1>3

\* What a running write leaves alone.
Writing ==
  /\ call.op = "write"
  /\ UNCHANGED <<kind, made, ends, pos, over, lengths, recvsize, empties, tmo>>

LEMMA WritingTypes ==
  ASSUME MessageInv, Writing, received' \in Seq(Piece)
  PROVE  /\ DeviceType' /\ kind \in MessageKinds /\ answer = None /\ MessageType /\ MarkInv
         /\ Tells' = Tells /\ Len(lengths) \in Nat
  <1>1. DeviceType'
    BY DEF MessageInv, MessageType, DeviceType, Writing
  <1>2. call.op # "idle"
    BY DEF Writing
  <1>3. Tells' = Tells
    BY DEF Tells, Writing
  <1>4. Len(lengths) \in Nat
    BY CallTypes DEF MessageInv
  <1> QED BY <1>1, <1>2, <1>3, <1>4 DEF MessageInv, RunInv

\* The write fails; what the device took of it stays.
LEMMA WriteFailHolds ==
  ASSUME MessageInv, Writing, received' \in Seq(Piece), Tells => MarkInv', Fail
  PROVE  MessageInv' /\ "uses" \notin DOMAIN answer'
  <1>1. answer' = Raised(call.op) /\ call' = Idle
    BY DEF Fail
  <1>2. Silent' /\ "uses" \notin DOMAIN answer'
    BY <1>1, RaisedIs
  <1>3. MarkInv'
    BY WritingTypes DEF MarkInv
  <1> QED BY <1>1, <1>2, <1>3, WritingTypes, SilentClaims, IdleHolds

\* The write returns: the device has all of it, or it is gpib's and nobody listened.
Arrived ==
  \/ kind = "gpib" /\ \A i \in 1 .. Len(received) : received[i].byte[1] # Len(lengths)
  \/ /\ Len(received) > 0
     /\ received[Len(received)].end = TRUE
     /\ received[Len(received)].byte[1] = Len(lengths)

LEMMA WroteHolds ==
  ASSUME MessageInv, Writing, received' \in Seq(Piece), Tells => MarkInv' /\ Arrived',
         answer' = Wrote, call' = Idle
  PROVE  MessageInv' /\ "uses" \notin DOMAIN answer'
  <1>1. answer' = [op |-> "write", status |-> "ok", write |-> Len(lengths)]
    BY DEF Wrote
  <1>2. answer'.op = "write" /\ answer'.write = Len(lengths) /\ "uses" \notin DOMAIN answer'
    BY <1>1
  <1>3. MarkInv'
    BY WritingTypes DEF MarkInv
  <1>4. LossesRaised'
    BY <1>2 DEF LossesRaised, HasRead, Reads
  <1>5. EndsMarkWrites'
    <2>1. DOMAIN received' = 1 .. Len(received') /\ (Len(received') > 0 => received' # << >>)
      OBVIOUS
    <2>2. lengths' = lengths /\ Tells' = Tells
      BY WritingTypes DEF Writing
    <2>3. Tells' => MarkInv' /\ Arrived'
      BY <2>2
    <2>4. Tells' => \A i \in DOMAIN received' : Placed(i)'
      BY <2>1, <2>3 DEF MarkInv
    <2>5. Tells' => \/ kind' = "gpib" /\ \A i \in DOMAIN received' :
                                           received'[i].byte[1] # answer'.write
                    \/ /\ received' # << >>
                       /\ received'[Len(received')].end
                       /\ received'[Len(received')].byte[1] = answer'.write
      BY <1>2, <2>1, <2>2, <2>3 DEF Arrived
    <2> QED BY <2>4, <2>5 DEF EndsMarkWrites, Placed, Tells
  <1> QED BY <1>2, <1>3, <1>4, <1>5, WritingTypes, IdleHolds

\* One chunk of a VXI-11 write.
LEMMA Vxi11WriteHolds ==
  ASSUME MessageInv, Writing, Vxi11Write
  PROVE  MessageInv' /\ "uses" \notin DOMAIN answer'
  <1>1. /\ call.left \in Nat /\ call.len \in Nat /\ recvsize \in Nat /\ MessageType /\ MarkInv
        /\ Len(lengths) \in Nat /\ lengths \in Seq(Nat) /\ call \in CallType
    BY CallTypes DEF MessageInv, MessageType
  <1>2. PICK lt \in Nat : lt = call.left
    BY <1>1
  <1>3. PICK len \in Nat : len = call.len
    BY <1>1
  <1>4. PICK length \in Nat : length = ChunkLength(lt)
    BY <1>1, MessageAssumption DEF ChunkLength
  <1>5. PICK from \in Nat : from = (len - lt) % Word
    <2>1. len - lt \in Int
      OBVIOUS
    <2> QED BY <2>1, Remainder
  <1>6. PICK n \in 1 .. length :
          /\ Takes(from, from + n, AllLeft(lt) /\ n = length)
          /\ IF (lt - n) % Word = 0 THEN answer' = Wrote /\ call' = Idle
             ELSE call' = [call EXCEPT !.left = (lt - n) % Word] /\ UNCHANGED answer
    BY <1>2, <1>3, <1>4, <1>5, Zenon DEF Vxi11Write
  <1>7. kind = "vxi11"
    BY DEF Vxi11Write
  <1>8. PICK left \in Nat : left = (lt - n) % Word
    <2>1. lt - n \in Int
      OBVIOUS
    <2> QED BY <2>1, Remainder
  <1>9. PICK end \in BOOLEAN : end = (AllLeft(lt) /\ n = length)
    OBVIOUS
  <1>10. PICK to \in Nat : to = from + n
    OBVIOUS
  <1>11. Takes(from, to, end)
    BY <1>6, <1>9, <1>10
  <1>17. from <= to /\ to - from = n /\ from < to
    BY <1>10
  <1>18. end = TRUE <=> AllLeft(lt) /\ n = length
    BY <1>9, Zenon
  <1>12. /\ received' \in Seq(Piece) /\ Len(received') = Len(received) + n
         /\ received'[Len(received) + n].byte = <<Len(lengths), to>>
         /\ end = TRUE => received'[Len(received) + n].end = TRUE
    <2>1. /\ received' \in Seq(Piece) /\ Len(received') = Len(received) + (to - from)
          /\ \A k \in 1 .. (to - from) :
               /\ received'[Len(received) + k].byte = <<Len(lengths), from + k>>
               /\ received'[Len(received) + k].end = (end = TRUE /\ k = to - from)
      <3>1. from <= to
        BY <1>17
      <3>2. MessageType
        BY <1>1
      <3> QED BY <1>11, <3>1, <3>2, TakesIs, ZenonT(30)
    <2>2. n \in 1 .. (to - from) /\ from + n = to /\ n = to - from
      BY <1>10, <1>17
    <2>3. /\ received'[Len(received) + n].byte = <<Len(lengths), from + n>>
          /\ received'[Len(received) + n].end = (end = TRUE /\ n = to - from)
      BY <2>1, <2>2, Zenon
    <2>4. end = TRUE => received'[Len(received) + n].end = TRUE
      BY <2>2, <2>3, Zenon
    <2>5. Len(received') = Len(received) + n
      BY <1>17, <2>1
    <2> QED BY <2>1, <2>2, <2>3, <2>4, <2>5, Zenon
  \* On a device that tells its size the chunk lies within what is left.
  <1>13. ASSUME Tells
         PROVE  /\ Len(lengths) > 0 /\ len = lengths[Len(lengths)] /\ len < Word
                /\ lt \in 1 .. len /\ from = len - lt /\ left = lt - n /\ n <= lt
                /\ lt < len => /\ Len(received) > 0
                               /\ received[Len(received)].byte = <<Len(lengths), len - lt>>
                /\ end = TRUE <=> n = lt
    <2>1. /\ Len(lengths) > 0 /\ call.len = lengths[Len(lengths)] /\ call.len < Word
          /\ call.left \in 1 .. call.len
          /\ call.left < call.len =>
               /\ Len(received) > 0
               /\ received[Len(received)].byte = <<Len(lengths), call.len - call.left>>
      BY <1>13 DEF MessageInv, WriteInv, Writing
    <2>2. recvsize > 0
      BY <1>7, <1>13 DEF Tells
    <2>3. lt \in 1 .. len /\ len < Word
      BY <1>2, <1>3, <2>1
    <2>4. Word \in Nat
      BY MessageAssumption
    <2>5. from = len - lt
      <3>1. len - lt \in 0 .. (Word - 1) /\ len - lt \in Int
        BY <2>3, <2>4
      <3> QED BY <1>5, <3>1, Remainder
    <2>6. n <= lt /\ (end = TRUE <=> n = lt)
      <3>1. CASE AllLeft(lt)
        <4>1. length = lt
          BY <1>4, <3>1 DEF ChunkLength
        <4>2. n <= lt
          BY <4>1
        <4> QED BY <1>18, <3>1, <4>1, <4>2, Zenon
      <3>2. CASE ~ AllLeft(lt)
        <4>1. length = recvsize
          BY <1>4, <2>2, <3>2 DEF ChunkLength
        <4>2. recvsize < lt
          BY <1>1, <3>2 DEF AllLeft
        <4>3. n < lt
          BY <1>1, <4>1, <4>2
        <4>4. n <= lt /\ n # lt
          BY <4>3
        <4> QED BY <1>18, <3>2, <4>4, Zenon
      <3> QED BY <3>1, <3>2
    <2>7. left = lt - n
      <3>1. lt - n \in 0 .. (Word - 1) /\ lt - n \in Int
        BY <2>3, <2>4, <2>6
      <3> QED BY <1>8, <3>1, Remainder
    <2> QED BY <1>2, <1>3, <2>1, <2>3, <2>5, <2>6, <2>7
  <1>14. ASSUME Tells
         PROVE  MarkInv' /\ to = len - left /\ left < len /\ (left = 0 => end = TRUE)
    <2>1. PICK wr \in Nat : wr = Len(lengths)
      BY <1>1
    <2>2. /\ wr > 0 /\ len = lengths[wr] /\ lt \in 1 .. len /\ from = len - lt /\ left = lt - n
          /\ n <= lt /\ (end = TRUE <=> n = lt)
      BY <1>13, <1>14, <2>1
    <2>3. to = len - left /\ left < len /\ (left = 0 => end = TRUE) /\ to <= len
          /\ (end = TRUE <=> to = len)
      <3>1. to = len - (lt - n) /\ to <= len /\ (to = len <=> n = lt)
        BY <1>10, <2>2
      <3> QED BY <2>2, <3>1
    <2>4. from > 0 => Len(received) > 0 /\ received[Len(received)].byte = <<Len(lengths), from>>
      <3>1. from > 0 => lt < len
        BY <2>2
      <3> QED BY <1>13, <1>14, <3>1
    <2>5. Continues(from, to, end)
      BY <2>1, <2>2, <2>3, <2>4 DEF Continues
    <2>6. UNCHANGED <<kind, lengths, recvsize>>
      BY DEF Writing
    <2>7. MarkInv'
      <3>1. MessageType /\ MarkInv /\ from <= to
        BY <1>1, <1>17
      <3> QED BY <1>11, <1>14, <2>5, <2>6, <3>1, TakesPlaces, Zenon
    <2> QED BY <2>3, <2>7
  <1>15. CASE left = 0
    <2>1. answer' = Wrote /\ call' = Idle
      BY <1>6, <1>8, <1>15
    <2>2. Tells => MarkInv' /\ Arrived'
      <3>1. SUFFICES ASSUME Tells PROVE MarkInv' /\ Arrived'
        OBVIOUS
      <3>2. end = TRUE /\ MarkInv'
        BY <1>14, <1>15, <3>1
      <3>3. PICK r \in Nat : r = Len(received) + n
        BY <1>1, CallTypes
      <3>7. r = Len(received')
        BY <1>12, <3>3, Zenon
      <3>8. r > 0
        BY <1>1, <3>3, CallTypes
      <3>4. r > 0 /\ received'[r].byte = <<Len(lengths), to>> /\ received'[r].end = TRUE
        BY <1>12, <3>2, <3>3, <3>8, Zenon
      <3>5. received'[r].byte[1] = Len(lengths)
        BY <3>4
      <3>6. lengths' = lengths
        BY DEF Writing
      <3> QED BY <3>2, <3>4, <3>5, <3>6, <3>7 DEF Arrived
    <2> QED BY <1>12, <2>1, <2>2, WroteHolds
  <1>16. CASE left # 0
    <2>1. call' = [call EXCEPT !.left = left] /\ UNCHANGED answer
      BY <1>6, <1>8, <1>16
    <2>2. /\ call' \in CallType /\ call'.op = call.op /\ call'.len = call.len
          /\ call'.left = left
      BY <1>1, <2>1 DEF CallType
    <2>3. call.op = "write"
      BY DEF Writing
    <2>4. /\ DeviceType' /\ kind \in MessageKinds /\ answer = None /\ Tells' = Tells
      BY <1>12, WritingTypes
    <2>5. MarkInv'
      BY <1>14, <2>4 DEF MarkInv
    <2>6. MessageType' /\ ReadInv'
      BY <2>2, <2>3, <2>4 DEF MessageType, ReadInv, Reads
    <2>7. kind' = kind /\ lengths' = lengths
      BY DEF Writing
    <2>8. RunInv'
      BY <2>1, <2>4, <2>7 DEF RunInv
    <2>9. WriteInv'
      <3>1. SUFFICES ASSUME Tells PROVE WriteInv'
        BY <2>4 DEF WriteInv
      <3>2. /\ Len(lengths) > 0 /\ len = lengths[Len(lengths)] /\ len < Word
            /\ left < len /\ to = len - left
        BY <1>13, <1>14, <3>1
      <3>3. left \in 1 .. len
        BY <1>16, <3>2
      <3>4. Len(received') > 0 /\ received'[Len(received')].byte = <<Len(lengths), to>>
        BY <1>1, <1>12
      <3>5. call'.len = len /\ call'.left = left
        BY <1>3, <2>2
      <3>6. kind' = "vxi11"
        BY <1>7, <2>7
      <3> QED BY <2>7, <3>2, <3>3, <3>4, <3>5, <3>6 DEF WriteInv
    <2>10. Silent' /\ "uses" \notin DOMAIN answer'
      BY <2>1, <2>4 DEF Silent, None
    <2> QED BY <2>4, <2>5, <2>6, <2>8, <2>9, <2>10, SilentClaims DEF MessageInv
  <1> QED BY <1>15, <1>16

\* The write of a driver that gets everything at once.
LEMMA DriverWriteHolds ==
  ASSUME MessageInv, Writing, DriverWrite
  PROVE  MessageInv' /\ "uses" \notin DOMAIN answer'
  <1>1. kind # "vxi11" /\ answer' = Wrote /\ call' = Idle
    BY DEF DriverWrite
  <1>2. Tells /\ call.op = "write" /\ MessageType /\ MarkInv
    BY <1>1 DEF Tells, Writing, MessageInv
  <1>3. PICK len \in Nat : len = call.len
    BY <1>2, CallTypes
  <1>4. PICK w \in Nat : w = Len(lengths)
    BY <1>2, CallTypes
  <1>5. /\ w > 0 /\ len = lengths[w] /\ len > 0
        /\ \A i \in 1 .. Len(received) : received[i].byte[1] < w
    BY <1>1, <1>2, <1>3, <1>4 DEF MessageInv, WriteInv
  <1>6. lengths' = lengths /\ kind' = kind /\ UNCHANGED <<kind, lengths, recvsize>>
    BY DEF Writing
  <1>7. received \in Seq(Piece)
    BY <1>2, CallTypes
  <1>8. CASE Takes(0, call.len, TRUE)
    <2>1. PICK zero \in Nat : zero = 0
      OBVIOUS
    <2>2. PICK end \in BOOLEAN : end = TRUE
      OBVIOUS
    <2>3. Takes(zero, len, end)
      BY <1>3, <1>8, <2>1, <2>2
    <2>4. zero <= len /\ len - zero = len /\ len \in 1 .. (len - zero) /\ zero + len = len
      BY <1>5, <2>1
    <2>5. Continues(zero, len, end)
      BY <1>4, <1>5, <2>1, <2>2 DEF Continues
    <2>6. MarkInv'
      BY <1>2, <1>6, <2>3, <2>4, <2>5, TakesPlaces, Zenon
    <2>7. /\ received' \in Seq(Piece) /\ Len(received') = Len(received) + (len - zero)
          /\ \A k \in 1 .. (len - zero) :
               /\ received'[Len(received) + k].byte = <<Len(lengths), zero + k>>
               /\ received'[Len(received) + k].end = (end = TRUE /\ k = len - zero)
      BY <1>2, <2>3, <2>4, TakesIs, Zenon
    <2>8. PICK r \in Nat : r = Len(received) + len
      BY <1>7
    <2>9. r = Len(received') /\ r > 0
      BY <1>5, <1>7, <2>4, <2>7, <2>8, SMTT(30)
    <2>10. received'[r].byte = <<Len(lengths), len>> /\ received'[r].end = TRUE
      BY <2>2, <2>4, <2>7, <2>8, Zenon
    <2>11. received'[r].byte[1] = Len(lengths')
      BY <1>6, <2>10
    <2>12. Arrived'
      BY <2>9, <2>10, <2>11 DEF Arrived
    <2> QED BY <1>1, <2>6, <2>7, <2>12, WroteHolds
  <1>9. CASE kind = "gpib" /\ UNCHANGED received
    <2>1. MarkInv'
      BY <1>2, <1>6, <1>9 DEF MarkInv, Placed, Tells
    <2>2. ASSUME NEW i \in 1 .. Len(received') PROVE received'[i].byte[1] # Len(lengths')
      <3>1. received[i] \in Piece /\ received[i].byte[1] < w
        BY <1>5, <1>7, <1>9
      <3>2. received[i].byte[1] \in Nat
        BY <3>1 DEF Piece
      <3>3. received[i].byte[1] # w
        BY <3>1, <3>2
      <3> QED BY <1>4, <1>6, <1>9, <3>3
    <2>3. Arrived'
      BY <1>6, <1>9, <2>2 DEF Arrived
    <2> QED BY <1>1, <1>7, <1>9, <2>1, <2>3, WroteHolds
  <1> QED BY <1>8, <1>9 DEF DriverWrite

LEMMA WriteLoopHolds ==
  ASSUME MessageInv, WriteLoop
  PROVE  MessageInv' /\ "uses" \notin DOMAIN answer' /\ UNCHANGED kind
  <1>1. Writing /\ UNCHANGED kind
    BY DEF WriteLoop, Writing
  <1> QED BY <1>1, Vxi11WriteHolds, DriverWriteHolds DEF WriteLoop

LEMMA WriteFailsHolds ==
  ASSUME MessageInv, WriteFails
  PROVE  MessageInv' /\ "uses" \notin DOMAIN answer' /\ UNCHANGED kind
  <1>1. Writing /\ UNCHANGED kind /\ Fail
    BY DEF WriteFails, Writing
  <1>2. MessageType /\ MarkInv /\ received \in Seq(Piece) /\ call.op = "write"
        /\ UNCHANGED <<kind, lengths, recvsize>>
    BY <1>1, CallTypes DEF MessageInv, Writing
  <1>3. CASE kind = "vxi11"
    <2>1. UNCHANGED received
      BY <1>3 DEF WriteFails
    <2>2. MarkInv'
      BY <1>2, <2>1 DEF MarkInv, Placed, Tells
    <2> QED BY <1>1, <1>2, <2>1, <2>2, WriteFailHolds
  <1>4. CASE kind # "vxi11"
    <2>1. Tells
      BY <1>4 DEF Tells
    <2>2. PICK len \in Nat : len = call.len
      BY <1>2, CallTypes
    <2>3. PICK w \in Nat : w = Len(lengths)
      BY <1>2, CallTypes
    <2>4. w > 0 /\ len = lengths[w] /\ len > 0
      BY <1>2, <1>4, <2>1, <2>2, <2>3 DEF MessageInv, WriteInv
    <2>5. PICK n \in 0 .. (len - 1) : Takes(0, n, FALSE)
      BY <1>4, <2>2 DEF WriteFails
    <2>6. PICK zero \in Nat : zero = 0
      OBVIOUS
    <2>7. PICK end \in BOOLEAN : end = FALSE
      OBVIOUS
    <2>8. Takes(zero, n, end)
      BY <2>5, <2>6, <2>7
    <2>9. n \in Nat /\ zero <= n /\ n < len
      BY <2>6
    <2>10. Continues(zero, n, end)
      BY <2>3, <2>4, <2>6, <2>7, <2>9 DEF Continues
    <2>11. MarkInv'
      BY <1>2, <2>1, <2>8, <2>9, <2>10, TakesPlaces, Zenon
    <2>12. received' \in Seq(Piece)
      BY <1>2, <2>8, <2>9, TakesIs, Zenon
    <2> QED BY <1>1, <2>11, <2>12, WriteFailHolds
  <1> QED BY <1>3, <1>4

-----------------------------------------------------------------------------
\* Messages: the rest, and the next step

LEMMA SpecialHolds ==
  ASSUME MessageInv, kind \in MessageKinds,
         \/ UsbtmcFwrite \/ \E op \in {"spoll", "trigger"} : Poll(op)
         \/ ClearDevice \/ \E t \in GpibTimeouts : GpibTimeout(t)
         \/ MessageClose
  PROVE  MessageInv' /\ "uses" \notin DOMAIN answer' /\ UNCHANGED kind
  <1>1. Callable
    BY DEF UsbtmcFwrite, Poll, ClearDevice, GpibTimeout, MessageClose
  <1>2. ASSUME NEW op, answer' = Raised(op) \/ answer' = [op |-> op, status |-> "ok"],
               op \notin Reads \cup {"write"}
        PROVE  Silent' /\ "uses" \notin DOMAIN answer'
    <2>1. CASE answer' = Raised(op)
      BY <2>1, RaisedIs
    <2>2. CASE answer' = [op |-> op, status |-> "ok"]
      <3>1. answer'.op = op /\ "uses" \notin DOMAIN answer'
        BY <2>2
      <3> QED BY <1>2, <3>1 DEF Silent
    <2> QED BY <1>2, <2>1, <2>2
  <1>3. {"fwrite", "spoll", "trigger", "clear", "timeout", "close"} \cap
          (Reads \cup {"write"}) = {}
    BY DEF Reads
  <1>4. ASSUME NEW op \in {"fwrite", "spoll", "trigger", "clear", "timeout", "close"},
               answer' = Raised(op) \/ answer' = [op |-> op, status |-> "ok"],
               UNCHANGED <<kind, messagevars>>
        PROVE  MessageInv' /\ "uses" \notin DOMAIN answer' /\ UNCHANGED kind
    <2>1. op \notin Reads \cup {"write"}
      BY <1>3
    <2>2. Silent' /\ "uses" \notin DOMAIN answer'
      BY <1>2, <1>4, <2>1
    <2> QED BY <1>1, <1>4, <2>2, QuietHolds
  <1>5. CASE UsbtmcFwrite
    BY <1>4, <1>5 DEF UsbtmcFwrite, Tell
  <1>6. CASE \E op \in {"spoll", "trigger"} : Poll(op)
    BY <1>4, <1>6 DEF Poll, Tell
  <1>7. CASE MessageClose
    BY <1>4, <1>7 DEF MessageClose
  \* What the device had to send is gone, and nobody was reading it.
  <1>8. ASSUME NEW op \in {"clear", "timeout"}, answer' = [op |-> op, status |-> "ok"],
               DeviceType', UNCHANGED <<kind, received, lengths, recvsize, call>>
        PROVE  MessageInv' /\ "uses" \notin DOMAIN answer' /\ UNCHANGED kind
    <2>1. op \notin Reads \cup {"write"}
      BY <1>3
    <2>2. Silent' /\ "uses" \notin DOMAIN answer'
      BY <1>2, <1>8, <2>1
    <2>3. MarkInv'
      BY <1>8 DEF MessageInv, MarkInv, Placed, Tells
    <2>4. call'.op = "idle" /\ call' \in CallType
      BY <1>1, <1>8 DEF Callable, MessageInv, MessageType
    <2>5. MessageType' /\ RunInv' /\ ReadInv' /\ WriteInv'
      BY <1>8, <2>4 DEF MessageType, RunInv, ReadInv, Reads, WriteInv
    <2> QED BY <1>8, <2>2, <2>3, <2>5, SilentClaims DEF MessageInv
  <1>9. CASE ClearDevice
    <2>1. CASE Tell(Raised("clear"))
      BY <1>4, <2>1 DEF Tell
    <2>2. CASE /\ pos' = made
               /\ answer' = [op |-> "clear", status |-> "ok"]
               /\ UNCHANGED <<kind, open, made, ends, over, received, lengths, recvsize>>
               /\ UNCHANGED <<empties, tmo, call>>
      <3>1. made \in Nat
        BY CallTypes DEF MessageInv
      <3>2. pos' \in 0 .. made'
        BY <2>2, <3>1
      <3>3. DeviceType'
        BY <2>2, <3>2 DEF MessageInv, MessageType, DeviceType
      <3> QED BY <1>8, <2>2, <3>3
    <2> QED BY <1>9, <2>1, <2>2 DEF ClearDevice
  <1>10. CASE \E t \in GpibTimeouts : GpibTimeout(t)
    <2>1. PICK t \in GpibTimeouts : GpibTimeout(t)
      BY <1>10
    <2>2. CASE Tell(Raised("timeout"))
      BY <1>4, <2>2 DEF Tell
    <2>3. CASE /\ tmo' = t
               /\ answer' = [op |-> "timeout", status |-> "ok"]
               /\ UNCHANGED <<kind, open, devicevars, lengths, recvsize, empties, call>>
      <3>1. t \in Int
        BY MessageAssumption
      <3>2. UNCHANGED <<made, ends, pos, over, received>>
        BY <2>3 DEF devicevars
      <3>3. DeviceType'
        BY <2>3, <3>1, <3>2 DEF MessageInv, MessageType, DeviceType
      <3> QED BY <1>8, <2>3, <3>2, <3>3
    <2> QED BY <2>1, <2>2, <2>3 DEF GpibTimeout
  <1> QED BY <1>5, <1>6, <1>7, <1>9, <1>10

\* Every step of the messages keeps both halves of the invariant.
LEMMA MessageNextHolds ==
  ASSUME IInv, kind \in MessageKinds, MessageNext, UNCHANGED registervars
  PROVE  IInv'
  <1>1. MessageInv /\ RegisterInv
    BY DEF IInv
  <1>2. "uses" \notin DOMAIN answer
    BY <1>1 DEF RegisterInv, UseInv
  <1>3. MessageInv' /\ "uses" \notin DOMAIN answer' /\ UNCHANGED kind
    <2>1. CASE \E end \in BOOLEAN : Send(end)
      <3>1. PICK end \in BOOLEAN : Send(end)
        BY <2>1
      <3>2. MessageInv' /\ UNCHANGED answer
        BY <1>1, <3>1, SendHolds
      <3>3. UNCHANGED kind
        BY <3>1 DEF Send
      <3> QED BY <1>2, <3>2, <3>3
    <2>2. CASE \E op \in {"read", "fread", "fscanf"}, len \in Sizes \cup {ScanSize} :
                 StartRead(op, len)
      BY <1>1, <2>2, StartReadHolds
    <2>3. CASE ReadLoop
      BY <1>1, <2>3, ReadLoopHolds
    <2>4. CASE ReadFails
      BY <1>1, <2>4, ReadFailsHolds
    <2>5. CASE \E len \in Sizes : StartWrite(len)
      BY <1>1, <2>5, StartWriteHolds
    <2>6. CASE WriteLoop
      BY <1>1, <2>6, WriteLoopHolds
    <2>7. CASE WriteFails
      BY <1>1, <2>7, WriteFailsHolds
    <2>8. CASE \/ UsbtmcFwrite \/ \E op \in {"spoll", "trigger"} : Poll(op)
               \/ ClearDevice \/ \E t \in GpibTimeouts : GpibTimeout(t)
               \/ MessageClose
      BY <1>1, <2>8, SpecialHolds
    <2> QED BY <2>1, <2>2, <2>3, <2>4, <2>5, <2>6, <2>7, <2>8, Zenon DEF MessageNext
  <1>4. RegisterInv'
    BY <1>1, <1>3, RegistersKept
  <1> QED BY <1>1, <1>3, <1>4 DEF IInv

-----------------------------------------------------------------------------
\* Registers: settings and transfers

\* A step that does not tell what a transfer used.
LEMMA PlainHolds ==
  ASSUME kind \in BusKinds, UNCHANGED kind, RegisterType', CopyInv', RequestInv',
         "uses" \notin DOMAIN answer'
  PROVE  RegisterInv'
  <1>1. kind' \notin MessageKinds
    BY DEF BusKinds, MessageKinds
  <1> QED BY <1>1 DEF RegisterInv, UseInv, TransfersAsReported

LEMMA KeptParts ==
  ASSUME RegisterInv, UNCHANGED <<kind, registervars>>
  PROVE  RegisterType' /\ CopyInv' /\ RequestInv'
  <1>1. UNCHANGED <<config, port, regs, late, wordorder, request, guessed>>
    BY DEF registervars
  <1> QED BY <1>1 DEF RegisterInv, RegisterType, CopyInv, RequestInv, Modbus

LEMMA RepliedHolds ==
  ASSUME RegisterInv, kind \in BusKinds, NEW a, Reply(a), "uses" \notin DOMAIN a
  PROVE  RegisterInv'
  <1>1. UNCHANGED <<kind, registervars>> /\ "uses" \notin DOMAIN answer'
    BY DEF Reply, registervars
  <1>2. UNCHANGED kind
    BY <1>1
  <1> QED BY <1>1, <1>2, KeptParts, PlainHolds

\* A step that changes the copy and what is used, or one of them, and nothing else.
Changes ==
  /\ UNCHANGED <<kind, regs, late, request>>
  /\ wordorder' \in {"big-endian", "little-endian"} /\ guessed' \in BOOLEAN
  /\ "uses" \notin DOMAIN answer'

LEMMA ChangesHold ==
  ASSUME RegisterInv, kind \in BusKinds, Changes, CopyInv'
  PROVE  RegisterInv'
  <1>1. RegisterType' /\ RequestInv' /\ UNCHANGED kind /\ "uses" \notin DOMAIN answer'
    BY DEF RegisterInv, RegisterType, RequestInv, Modbus, Changes
  <1> QED BY <1>1, PlainHolds

LEMMA RaisedPlain ==
  ASSUME NEW op
  PROVE  "uses" \notin DOMAIN Raised(op) /\ "uses" \notin DOMAIN [op |-> op, status |-> "ok"]
  <1> QED BY DEF Raised

LEMMA SetAddressHolds ==
  ASSUME RegisterInv, kind \in BusKinds, NEW a \in Addresses, SetAddress(a)
  PROVE  RegisterInv'
  <1>1. kind = "i2c" /\ a \in Int
    BY RegisterAssumption DEF SetAddress
  <1>2. CASE Reply(Raised("addr"))
    BY <1>2, RaisedPlain, RepliedHolds
  <1>3. CASE /\ open
             /\ port' = [port EXCEPT !["addr"] = a]
             /\ config' = [config EXCEPT !["addr"] = a]
             /\ answer' = [op |-> "addr", status |-> "ok"]
             /\ UNCHANGED <<kind, open, regs, late, wordorder, request, guessed>>
    <2>1. config \in [addr : Int] /\ port \in [addr : Int]
      BY <1>1 DEF RegisterInv, CopyInv
    <2>2. config' \in [addr : Int] /\ config'.addr = a
      BY <1>1, <1>3, <2>1
    <2>3. port' \in [addr : Int] /\ port'.addr = a
      BY <1>1, <1>3, <2>1
    <2>4. CopyInv'
      BY <1>1, <1>3, <2>2, <2>3 DEF CopyInv, Modbus
    <2>5. Changes
      BY <1>3, RaisedPlain DEF Changes, RegisterInv, RegisterType
    <2> QED BY <2>4, <2>5, ChangesHold
  <1> QED BY <1>2, <1>3 DEF SetAddress, Setting

LEMMA SetDirectionHolds ==
  ASSUME RegisterInv, kind \in BusKinds, NEW d \in {0, 1, 2}, SetDirection(d)
  PROVE  RegisterInv'
  <1>1. kind = "parallel"
    BY DEF SetDirection
  <1>2. CASE Reply(Raised("datadir"))
    BY <1>2, RaisedPlain, RepliedHolds
  <1>3. CASE /\ d \in {0, 1}
             /\ port' = [port EXCEPT !["dir"] = d]
             /\ config' = [config EXCEPT !["dir"] = d]
             /\ answer' = [op |-> "datadir", status |-> "ok"]
             /\ UNCHANGED <<kind, open, regs, late, wordorder, request, guessed>>
    <2>1. config \in [dir : {0, 1}] /\ port = config
      BY <1>1 DEF RegisterInv, CopyInv
    <2>2. config' \in [dir : {0, 1}]
      BY <1>3, <2>1
    <2>3. port' = config'
      BY <1>3, <2>1
    <2>4. CopyInv'
      BY <1>1, <1>3, <2>2, <2>3 DEF CopyInv, Modbus
    <2>5. Changes
      BY <1>3, RaisedPlain DEF Changes, RegisterInv, RegisterType
    <2> QED BY <2>4, <2>5, ChangesHold
  <1> QED BY <1>2, <1>3 DEF SetDirection, Setting

LEMMA SetBitrateHolds ==
  ASSUME RegisterInv, kind \in BusKinds, NEW b \in {100000, 500000}, SetBitrate(b)
  PROVE  RegisterInv'
  <1>1. kind = "spi" /\ b \in Nat
    BY DEF SetBitrate
  <1>2. CASE Reply(Raised("bitrate"))
    BY <1>2, RaisedPlain, RepliedHolds
  <1>3. CASE /\ port' = [port EXCEPT !["bitrate"] = b]
             /\ config' = [config EXCEPT !["bitrate"] = b]
             /\ answer' = [op |-> "bitrate", status |-> "ok"]
             /\ UNCHANGED <<kind, open, regs, late, wordorder, request, guessed>>
    <2>1. /\ config \in SpiSettings /\ port \in SpiSettings
          /\ \/ config.cpol = port.cpol /\ config.cpha = port.cpha
             \/ guessed = TRUE
      BY <1>1 DEF RegisterInv, CopyInv
    <2>2. config' \in SpiSettings /\ config'.cpol = config.cpol /\ config'.cpha = config.cpha
      BY <1>1, <1>3, <2>1 DEF SpiSettings
    <2>3. port' \in SpiSettings /\ port'.cpol = port.cpol /\ port'.cpha = port.cpha
      BY <1>1, <1>3, <2>1 DEF SpiSettings
    <2>4. \/ config'.cpol = port'.cpol /\ config'.cpha = port'.cpha
          \/ guessed' = TRUE
      BY <1>3, <2>1, <2>2, <2>3
    <2>5. kind' = "spi" /\ ~Modbus' /\ kind' # "i2c" /\ kind' # "parallel"
      BY <1>1, <1>3 DEF Modbus
    <2>6. CopyInv'
      BY <2>2, <2>3, <2>4, <2>5 DEF CopyInv
    <2>7. Changes
      BY <1>3, RaisedPlain DEF Changes, RegisterInv, RegisterType
    <2> QED BY <2>6, <2>7, ChangesHold
  <1> QED BY <1>2, <1>3 DEF SetBitrate, Setting

LEMMA SetModeHolds ==
  ASSUME RegisterInv, kind \in BusKinds, NEW f \in {"cpol", "cpha"}, NEW known \in BOOLEAN,
         NEW v \in BOOLEAN, SetMode(f, known, v)
  PROVE  RegisterInv'
  <1>1. kind = "spi"
    BY DEF SetMode
  <1>2. CASE Reply(Raised("mode"))
    BY <1>2, RaisedPlain, RepliedHolds
  <1>3. CASE ~ Reply(Raised("mode"))
    <2>1. PICK mode : mode = IF known THEN [config EXCEPT ![f] = v] ELSE config
      OBVIOUS
    <2>2. /\ port' = [mode EXCEPT !.bitrate = port.bitrate] /\ config' = mode
          /\ answer' = [op |-> "mode", status |-> "ok"] /\ guessed' = FALSE
          /\ UNCHANGED <<kind, open, regs, late, wordorder, request>>
      BY <1>3, <2>1, Zenon DEF SetMode
    <2>3. config \in SpiSettings /\ port \in SpiSettings
      BY <1>1 DEF RegisterInv, CopyInv
    <2>4. mode \in SpiSettings
      <3>1. [config EXCEPT ![f] = v] \in SpiSettings
        BY <2>3 DEF SpiSettings
      <3> QED BY <2>1, <2>3, <3>1
    <2>5. port.bitrate \in Nat
      BY <2>3 DEF SpiSettings
    <2>6. port' \in SpiSettings /\ port'.cpol = mode.cpol /\ port'.cpha = mode.cpha
      <3>1. port' = [mode EXCEPT !.bitrate = port.bitrate]
        BY <2>2
      <3> QED BY <2>4, <2>5, <3>1 DEF SpiSettings
    <2>7. config' = mode /\ kind' = "spi" /\ ~Modbus' /\ kind' # "i2c" /\ kind' # "parallel"
      BY <1>1, <2>2 DEF Modbus
    <2>8. CopyInv'
      BY <2>4, <2>6, <2>7, Zenon DEF CopyInv
    <2>9. Changes
      BY <2>2, RaisedPlain DEF Changes, RegisterInv, RegisterType
    <2> QED BY <2>8, <2>9, ChangesHold
  <1> QED BY <1>2, <1>3

LEMMA SetModbusTimeoutHolds ==
  ASSUME RegisterInv, kind \in BusKinds, NEW t \in ModbusTimeouts, SetModbusTimeout(t)
  PROVE  RegisterInv'
  <1>1. Modbus /\ t \in Int
    BY RegisterAssumption DEF SetModbusTimeout
  <1>2. CASE Reply(Raised("timeout"))
    BY <1>2, RaisedPlain, RepliedHolds
  <1>3. CASE /\ config' = [config EXCEPT !.timeout = t]
             /\ port' = IF t > 0 THEN [port EXCEPT !.timeout = t] ELSE port
             /\ answer' = [op |-> "timeout", status |-> "ok"]
             /\ UNCHANGED <<kind, open, regs, late, wordorder, request, guessed>>
    <2>1. /\ config \in ModbusSettings /\ port \in ModbusSettings
          /\ config.slave = port.slave
      BY <1>1 DEF RegisterInv, CopyInv
    <2>2. config' \in ModbusSettings /\ config'.slave = config.slave
      BY <1>1, <1>3, <2>1 DEF ModbusSettings
    <2>3. port' \in ModbusSettings /\ port'.slave = port.slave
      BY <1>1, <1>3, <2>1 DEF ModbusSettings
    <2>4. kind' # "spi" /\ kind' # "i2c" /\ kind' # "parallel"
      BY <1>1, <1>3 DEF Modbus
    <2>5. CopyInv'
      BY <2>1, <2>2, <2>3, <2>4 DEF CopyInv
    <2>6. Changes
      BY <1>3, RaisedPlain DEF Changes, RegisterInv, RegisterType
    <2> QED BY <2>5, <2>6, ChangesHold
  <1> QED BY <1>2, <1>3 DEF SetModbusTimeout

LEMMA SetWordOrderHolds ==
  ASSUME RegisterInv, kind \in BusKinds, NEW order \in {"big-endian", "little-endian"},
         SetWordOrder(order)
  PROVE  RegisterInv'
  <1>1. /\ wordorder' = order /\ answer' = [op |-> "wordorder", status |-> "ok"]
        /\ UNCHANGED <<kind, open, config, port, regs, late, request, guessed>>
    BY DEF SetWordOrder
  <1>2. CopyInv'
    BY <1>1 DEF RegisterInv, CopyInv, Modbus
  <1>3. Changes
    BY <1>1, RaisedPlain DEF Changes, RegisterInv, RegisterType
  <1> QED BY <1>2, <1>3, ChangesHold

\* The three interfaces that tell what their transfers used.
LEMMA TransferHolds ==
  ASSUME RegisterInv, kind \in BusKinds, ~Modbus, NEW op, Transfer(op)
  PROVE  RegisterInv'
  <1>1. CASE Reply(Raised(op))
    BY <1>1, RaisedPlain, RepliedHolds
  <1>2. CASE Reply([op |-> op, status |-> "ok", uses |-> InUse])
    <2>1. UNCHANGED <<kind, registervars>> /\ answer'.uses = InUse
      BY <1>2 DEF Reply, registervars
    <2>2. RegisterType' /\ CopyInv' /\ RequestInv'
      BY <2>1, KeptParts
    <2>3. /\ config' = config /\ kind' = kind /\ kind' \notin MessageKinds
          /\ guessed' = guessed
      BY <2>1 DEF registervars, BusKinds, MessageKinds
    <2>4. \/ InUse = config
          \/ kind = "i2c" /\ config.addr = -1
          \/ kind = "spi" /\ guessed /\ InUse.bitrate = config.bitrate
      <3>1. CASE kind = "i2c"
        BY <3>1 DEF RegisterInv, CopyInv, InUse
      <3>2. CASE kind = "parallel"
        BY <3>2 DEF RegisterInv, CopyInv, InUse
      <3>3. CASE kind = "spi"
        <4>1. /\ config \in SpiSettings /\ port \in SpiSettings
              /\ \/ config.cpol = port.cpol /\ config.cpha = port.cpha
                 \/ guessed = TRUE
          BY <3>3 DEF RegisterInv, CopyInv
        <4>2. InUse = [port EXCEPT !.bitrate = config.bitrate]
          BY <3>3 DEF InUse
        <4>3. /\ InUse \in SpiSettings /\ InUse.cpol = port.cpol /\ InUse.cpha = port.cpha
              /\ InUse.bitrate = config.bitrate
          BY <4>1, <4>2 DEF SpiSettings
        <4>4. CASE config.cpol = port.cpol /\ config.cpha = port.cpha
          <5>1. InUse.cpol = config.cpol /\ InUse.cpha = config.cpha
            BY <4>3, <4>4, Zenon
          <5>2. InUse = config
            BY <4>1, <4>3, <5>1 DEF SpiSettings
          <5> QED BY <5>2
        <4>5. CASE guessed = TRUE
          BY <3>3, <4>3, <4>5
        <4> QED BY <4>1, <4>4, <4>5
      <3> QED BY <3>1, <3>2, <3>3 DEF BusKinds, Modbus
    <2>5. TransfersAsReported'
      BY <2>1, <2>3, <2>4 DEF TransfersAsReported
    <2> QED BY <2>2, <2>3, <2>5 DEF RegisterInv, UseInv
  <1> QED BY <1>1, <1>2 DEF Transfer

-----------------------------------------------------------------------------
\* Transactions of modbus

LEMMA OverlayIs ==
  ASSUME NEW old \in Contents, NEW a \in RegisterSet, NEW words \in Seq(SUBSET Bits)
  PROVE  /\ Overlay(old, a, words) \in Contents
         /\ words = << >> => Overlay(old, a, words) = old
  <1>1. ASSUME NEW b \in RegisterSet
        PROVE  (IF b - a + 1 \in 1 .. Len(words) THEN words[b - a + 1] ELSE old[b])
                 \in SUBSET Bits
    <2>1. old[b] \in SUBSET Bits
      BY DEF Contents
    <2>2. b - a + 1 \in 1 .. Len(words) => words[b - a + 1] \in SUBSET Bits
      OBVIOUS
    <2> QED BY <2>1, <2>2
  <1>2. Overlay(old, a, words) \in Contents
    BY <1>1, Zenon DEF Overlay, Contents
  <1>3. ASSUME words = << >> PROVE Overlay(old, a, words) = old
    <2>1. Len(words) = 0
      BY <1>3
    <2>2. \A b \in RegisterSet : b - a + 1 \notin 1 .. Len(words)
      BY <2>1 DEF RegisterSet
    <2>3. Overlay(old, a, words) = [b \in RegisterSet |-> old[b]]
      BY <2>2, Zenon DEF Overlay
    <2> QED BY <2>3 DEF Contents
  <1> QED BY <1>2, <1>3

LEMMA WordsAre ==
  ASSUME NEW contents \in Contents, NEW a \in RegisterSet, NEW n \in Nat,
         a + n - 1 <= LastRegister
  PROVE  /\ Words(contents, a, n) \in Seq(SUBSET Bits) /\ Len(Words(contents, a, n)) = n
         /\ \A k \in 1 .. n : Words(contents, a, n)[k] = contents[a + k - 1]
  <1>1. LastRegister \in Nat
    BY RegisterAssumption
  <1>2. \A k \in 1 .. n : a + k - 1 \in RegisterSet
    BY <1>1 DEF RegisterSet
  <1>3. \A k \in 1 .. n : contents[a + k - 1] \in SUBSET Bits
    BY <1>2 DEF Contents
  <1>4. Words(contents, a, n) = [k \in 1 .. n |-> contents[a + k - 1]]
    BY DEF Words
  <1>5. Words(contents, a, n) \in [1 .. n -> SUBSET Bits]
    BY <1>3, <1>4, Zenon
  <1> QED BY <1>4, <1>5

LEMMA SelectIs ==
  ASSUME RegisterInv, Modbus, NEW s \in Servers, Select(s)
  PROVE  /\ config' \in ModbusSettings /\ port' \in ModbusSettings
         /\ config'.slave = port'.slave /\ port'.slave = s
  <1>1. /\ config \in ModbusSettings /\ port \in ModbusSettings
        /\ config.slave = port.slave
    BY DEF RegisterInv, CopyInv
  <1>2. CASE s = config.slave
    BY <1>1, <1>2 DEF Select
  <1>3. CASE s # config.slave
    BY <1>1, <1>3 DEF Select, ModbusSettings
  <1> QED BY <1>2, <1>3

\* A request the functions make.
Asked(q) ==
  /\ q.op \in {"read", "write", "writeRead", "maskWrite"}
  /\ q.server \in Servers /\ q.at \in RegisterSet /\ q.words \in Seq(SUBSET Bits)
  /\ q.from \in RegisterSet /\ q.n \in Nat /\ q.from + q.n - 1 <= LastRegister
  /\ q.op = "maskWrite" /\ Between =>
       q.n = 1 /\ q.words = << >> /\ q.and \in SUBSET Bits /\ q.or \in SUBSET Bits

\* The registers of the server of q when q has been executed.
Executed(q) == Overlay(regs[q.server], q.at, q.words)

\* A transaction changes the named server as asked or not at all, and when its function
\* gets words they are those of the registers, unless late answers are about.
Outcome(q) ==
  /\ regs' = regs \/ regs' = [regs EXCEPT ![q.server] = Executed(q)]
  /\ \/ GiveUp(q.op, q.server)
     \/ \E words \in Seq(SUBSET Bits) :
          /\ Answered(q, words) /\ Len(words) = q.n
          /\ late = << >> => words = Words(Executed(q), q.from, q.n)

LEMMA TransactionIs ==
  ASSUME RegisterInv, Modbus, NEW q, Asked(q), Transaction(q)
  PROVE  /\ UNCHANGED <<kind, wordorder>> /\ CopyInv' /\ RegisterType' /\ Outcome(q)
  <1>1. /\ q.server \in Servers /\ q.at \in RegisterSet /\ q.words \in Seq(SUBSET Bits)
        /\ q.from \in RegisterSet /\ q.n \in Nat /\ q.from + q.n - 1 <= LastRegister
    BY DEF Asked
  <1>2. /\ config' \in ModbusSettings /\ port' \in ModbusSettings
        /\ config'.slave = port'.slave /\ port'.slave = q.server
    BY <1>1, SelectIs DEF Transaction
  <1>3. UNCHANGED <<kind, wordorder, guessed>>
    BY DEF Transaction
  <1>4. CopyInv'
    <2>1. kind' # "spi" /\ kind' # "i2c" /\ kind' # "parallel"
      BY <1>3 DEF Modbus
    <2> QED BY <1>2, <2>1 DEF CopyInv
  <1>5. regs \in [Servers -> Contents] /\ late \in Seq(LateAnswer)
    BY DEF RegisterInv, RegisterType
  <1>6. PICK after \in Contents : after = Executed(q)
    <2>1. regs[q.server] \in Contents
      BY <1>1, <1>5
    <2> QED BY <1>1, <2>1, OverlayIs DEF Executed
  <1>7. PICK ws \in Seq(SUBSET Bits) : ws = Words(after, q.from, q.n)
    BY <1>1, WordsAre
  <1>8. PICK e \in LateAnswer : e = [server |-> q.server, words |-> ws]
    BY <1>1 DEF LateAnswer
  <1>9. e.words = ws
    BY <1>8
  <1>10. PICK executed \in BOOLEAN :
           LET wire == IF executed THEN Append(late, e) ELSE late IN
           /\ regs' = IF executed THEN [regs EXCEPT ![q.server] = after] ELSE regs
           /\ \/ /\ late' = IF kind = "modbus_serial" THEN wire ELSE << >>
                 /\ GiveUp(q.op, q.server)
              \/ /\ wire # << >>
                 /\ late' = Tail(wire)
                 /\ IF Head(wire).server = q.server /\ Len(Head(wire).words) = q.n
                    THEN Answered(q, Head(wire).words) ELSE GiveUp(q.op, q.server)
    BY <1>2, <1>6, <1>7, <1>8, Zenon DEF Transaction, Executed
  <1>11. PICK wire \in Seq(LateAnswer) : wire = IF executed THEN Append(late, e) ELSE late
    <2>1. Append(late, e) \in Seq(LateAnswer)
      BY <1>5
    <2> QED BY <1>5, <2>1
  <1>12. /\ regs' = IF executed THEN [regs EXCEPT ![q.server] = after] ELSE regs
         /\ \/ /\ late' = IF kind = "modbus_serial" THEN wire ELSE << >>
               /\ GiveUp(q.op, q.server)
            \/ /\ wire # << >>
               /\ late' = Tail(wire)
               /\ IF Head(wire).server = q.server /\ Len(Head(wire).words) = q.n
                  THEN Answered(q, Head(wire).words) ELSE GiveUp(q.op, q.server)
    BY <1>10, <1>11, Zenon
  <1>13. regs' = regs \/ regs' = [regs EXCEPT ![q.server] = Executed(q)]
    BY <1>6, <1>12
  <1>14. regs' \in [Servers -> Contents]
    BY <1>1, <1>5, <1>12
  <1>15. late' \in Seq(LateAnswer)
    <2>1. << >> \in Seq(LateAnswer)
      OBVIOUS
    <2>2. wire # << >> => Tail(wire) \in Seq(LateAnswer)
      OBVIOUS
    <2> QED BY <1>12, <2>1, <2>2
  <1>16. RegisterType'
    BY <1>3, <1>14, <1>15 DEF RegisterInv, RegisterType
  <1>17. \/ GiveUp(q.op, q.server)
         \/ \E words \in Seq(SUBSET Bits) :
              /\ Answered(q, words) /\ Len(words) = q.n
              /\ late = << >> => words = Words(Executed(q), q.from, q.n)
    <2>1. SUFFICES ASSUME ~ GiveUp(q.op, q.server)
                   PROVE  \E words \in Seq(SUBSET Bits) :
                            /\ Answered(q, words) /\ Len(words) = q.n
                            /\ late = << >> => words = Words(Executed(q), q.from, q.n)
      OBVIOUS
    <2>2. wire # << >> /\ Len(Head(wire).words) = q.n /\ Answered(q, Head(wire).words)
      BY <1>12, <2>1
    <2>3. Head(wire) \in LateAnswer
      BY <2>2
    <2>4. PICK words \in Seq(SUBSET Bits) : words = Head(wire).words
      BY <2>3 DEF LateAnswer
    <2>5. late = << >> => Head(wire) = e
      <3>1. SUFFICES ASSUME late = << >> PROVE Head(wire) = e
        OBVIOUS
      <3>2. wire = Append(late, e)
        BY <1>11, <2>2, <3>1
      <3> QED BY <3>1, <3>2
    <2>6. late = << >> => words = Words(Executed(q), q.from, q.n)
      BY <1>6, <1>7, <1>9, <2>4, <2>5
    <2> QED BY <2>2, <2>4, <2>6
  <1> QED BY <1>3, <1>4, <1>13, <1>16, <1>17 DEF Outcome

\* The answer a function gives, and what it leaves to be done.
LEMMA TransactionHolds ==
  ASSUME RegisterInv, kind \in BusKinds, Modbus, NEW q, Asked(q), Transaction(q)
  PROVE  RegisterInv'
  <1>1. UNCHANGED <<kind, wordorder>> /\ CopyInv' /\ RegisterType' /\ Outcome(q)
    BY TransactionIs
  <1>2. Modbus'
    BY <1>1 DEF Modbus
  <1>3. CASE GiveUp(q.op, q.server)
    <2>1. answer' = [op |-> q.op, status |-> "raised", server |-> q.server]
          /\ request' = NoRequest
      BY <1>3 DEF GiveUp, Refused
    <2>2. "uses" \notin DOMAIN answer' /\ RequestInv'
      BY <2>1 DEF RequestInv
    <2> QED BY <1>1, <2>2, PlainHolds
  <1>4. ASSUME NEW words \in Seq(SUBSET Bits), Answered(q, words), Len(words) = q.n,
               late = << >> => words = Words(Executed(q), q.from, q.n)
        PROVE  RequestInv' /\ "uses" \notin DOMAIN answer'
    <2>1. CASE /\ answer' = [op |-> "read", status |-> "ok", server |-> q.server,
                             addr |-> q.from, tosize |-> q.tosize,
                             data |-> Elements(words, q.tosize)]
               /\ request' = NoRequest
      BY <2>1 DEF RequestInv
    <2>2. CASE /\ answer' = [op |-> q.op, status |-> "ok", server |-> q.server,
                             data |-> words]
               /\ request' = NoRequest
      BY <2>2 DEF RequestInv
    <2>3. CASE /\ q.op = "maskWrite" /\ Between
               /\ request' = [op |-> "maskWrite", server |-> q.server, addr |-> q.from,
                              value |-> (words[1] \cap q.and) \cup q.or,
                              wanted |-> (regs[q.server][q.from] \cap q.and) \cup q.or,
                              documented |-> (regs[q.server][q.from] \cap q.and)
                                               \cup (q.or \ q.and),
                              trusted |-> late = << >>]
               /\ answer' = None
      <3>1. /\ q.server \in Servers /\ q.from \in RegisterSet /\ q.at \in RegisterSet
            /\ q.n = 1 /\ q.words = << >> /\ q.and \in SUBSET Bits /\ q.or \in SUBSET Bits
            /\ q.words \in Seq(SUBSET Bits) /\ q.from + q.n - 1 <= LastRegister
        BY <2>3 DEF Asked
      <3>2. regs[q.server] \in Contents /\ regs[q.server][q.from] \in SUBSET Bits
        BY <3>1 DEF RegisterInv, RegisterType, Contents
      <3>3. words[1] \in SUBSET Bits
        <4>1. Len(words) = 1
          BY <1>4, <3>1
        <4> QED BY <4>1
      <3>4. late = << >> => words[1] = regs[q.server][q.from]
        <4>1. SUFFICES ASSUME late = << >> PROVE words[1] = regs[q.server][q.from]
          OBVIOUS
        <4>2. Executed(q) = regs[q.server]
          BY <3>1, <3>2, OverlayIs DEF Executed
        <4>3. words = Words(regs[q.server], q.from, q.n)
          BY <1>4, <4>1, <4>2
        <4>4. PICK n \in Nat : n = q.n /\ n = 1
          BY <3>1
        <4>5. \A k \in 1 .. n : Words(regs[q.server], q.from, n)[k] =
                                  regs[q.server][q.from + k - 1]
          <5>1. q.from + n - 1 <= LastRegister
            BY <3>1, <4>4
          <5> QED BY <3>1, <3>2, <5>1, WordsAre
        <4>6. q.from + 1 - 1 = q.from /\ 1 \in 1 .. n
          BY <3>1, <4>4 DEF RegisterSet
        <4>7. words[1] = regs[q.server][q.from + 1 - 1]
          BY <4>3, <4>4, <4>5, <4>6
        <4> QED BY <4>6, <4>7
      <3>5. PICK v \in SUBSET Bits : v = (words[1] \cap q.and) \cup q.or
        BY <3>1, <3>3
      <3>6. PICK w \in SUBSET Bits : w = (regs[q.server][q.from] \cap q.and) \cup q.or
        BY <3>1, <3>2
      <3>12. PICK d \in SUBSET Bits :
               d = (regs[q.server][q.from] \cap q.and) \cup (q.or \ q.and)
        BY <3>1, <3>2
      <3>7. PICK trusted \in BOOLEAN : trusted = (late = << >>)
        OBVIOUS
      <3>8. trusted = TRUE => v = w
        BY <3>4, <3>5, <3>6, <3>7
      <3>9. request' = [op |-> "maskWrite", server |-> q.server, addr |-> q.from,
                        value |-> v, wanted |-> w, documented |-> d, trusted |-> trusted]
        BY <2>3, <3>5, <3>6, <3>7, <3>12
      <3>10. request' \in RequestType /\ request'.value = v /\ request'.wanted = w
             /\ request'.trusted = trusted
        BY <3>1, <3>9 DEF RequestType
      <3>11. RequestInv'
        BY <1>2, <3>8, <3>10 DEF RequestInv
      <3> QED BY <2>3, <3>11 DEF None
    <2> QED BY <1>4, <2>1, <2>2, <2>3 DEF Answered
  <1>5. CASE ~ GiveUp(q.op, q.server)
    <2>1. PICK words \in Seq(SUBSET Bits) :
            /\ Answered(q, words) /\ Len(words) = q.n
            /\ late = << >> => words = Words(Executed(q), q.from, q.n)
      BY <1>1, <1>5 DEF Outcome
    <2>2. RequestInv' /\ "uses" \notin DOMAIN answer'
      BY <1>4, <2>1
    <2> QED BY <1>1, <2>2, PlainHolds
  <1> QED BY <1>3, <1>5

Requests == {"read", "write", "writeRead", "maskWrite"}

\* What a function asks for.
Asks(q) ==
  /\ Asked(q)
  /\ q.op = "read" => /\ Between /\ q.words = << >>
                      /\ q.tosize \in {1, 2}
                      /\ \E count \in Nat : q.n = count * q.tosize
  /\ ~Between => /\ q.op = "maskWrite" /\ q.server = request.server
                 /\ q.at = request.addr /\ q.words = <<request.value>>

\* The functions that make a transaction, and the second step of maskWrite.
Function ==
  \/ \E s \in Servers, a \in RegisterSet :
       \/ \E t \in {1, 2} : ReadRegisters(s, a, (LastRegister + 1) \div t, t)
       \/ \E v \in SUBSET Bits :
            \/ \E precision \in {16, 64} : WriteRegister(s, a, v, precision)
            \/ \E precisions \in BOOLEAN : WriteReadRegisters(s, a, v, LastRegister, precisions)
       \/ \E and, or \in Masks : MaskRead(s, a, and, or)
  \/ MaskWrite

LEMMA FunctionIs ==
  ASSUME RegisterInv, Function
  PROVE  /\ Modbus
         /\ \/ \E q : Asks(q) /\ Transaction(q)
            \/ \E op \in Requests, s \in Servers : Reply(Refused(op, s))
  <1>1. LastRegister \in Nat /\ 0 \in RegisterSet /\ LastRegister \in RegisterSet
    BY RegisterAssumption DEF RegisterSet
  <1>2. << >> \in Seq(SUBSET Bits) /\ \A v \in SUBSET Bits : <<v>> \in Seq(SUBSET Bits)
    OBVIOUS
  <1>3. CASE MaskWrite
    <2>1. ~Between
      BY <1>3 DEF MaskWrite
    <2>2. request # NoRequest
      BY <2>1 DEF Between, NoRequest
    <2>3. Modbus /\ request \in RequestType
      BY <2>2 DEF RegisterInv, RequestInv
    <2>4. PICK q : q = [op |-> "maskWrite", server |-> request.server, at |-> request.addr,
                        words |-> <<request.value>>, from |-> 0, n |-> 0]
      OBVIOUS
    <2>5. Transaction(q)
      BY <1>3, <2>4, Zenon DEF MaskWrite
    <2>6. /\ q.op = "maskWrite" /\ q.server = request.server /\ q.at = request.addr
          /\ q.words = <<request.value>> /\ q.from = 0 /\ q.n = 0
      BY <2>4
    <2>7. /\ request.server \in Servers /\ request.addr \in RegisterSet
          /\ request.value \in SUBSET Bits
      BY <2>3 DEF RequestType
    <2>8. Asks(q)
      BY <1>1, <1>2, <2>1, <2>6, <2>7 DEF Asks, Asked
    <2> QED BY <2>3, <2>5, <2>8
  <1>4. ASSUME NEW s \in Servers, NEW a \in RegisterSet, NEW t \in {1, 2},
               ReadRegisters(s, a, (LastRegister + 1) \div t, t)
        PROVE  /\ Modbus
               /\ \/ \E q : Asks(q) /\ Transaction(q)
                  \/ \E op \in Requests, r \in Servers : Reply(Refused(op, r))
    <2>1. PICK count \in Nat : count = (LastRegister + 1) \div t
      BY <1>1
    <2>2. PICK n \in Nat : n = count * t
      OBVIOUS
    <2>3. PICK q : q = [op |-> "read", server |-> s, at |-> 0, words |-> << >>, from |-> a,
                        n |-> n, tosize |-> t]
      OBVIOUS
    <2>4. Modbus /\ Between /\ a + n - 1 <= LastRegister /\ Request(q)
      BY <1>4, <2>1, <2>2, <2>3, Zenon DEF ReadRegisters
    <2>5. /\ q.op = "read" /\ q.server = s /\ q.at = 0 /\ q.words = << >> /\ q.from = a
          /\ q.n = n /\ q.tosize = t
      BY <2>3
    <2>6. Asks(q)
      BY <1>1, <1>2, <2>2, <2>4, <2>5 DEF Asks, Asked
    <2>7. "read" \in Requests
      BY DEF Requests
    <2> QED BY <2>4, <2>5, <2>6, <2>7 DEF Request, NotSelected
  <1>5. ASSUME NEW s \in Servers, NEW a \in RegisterSet, NEW v \in SUBSET Bits, NEW precision,
               WriteRegister(s, a, v, precision)
        PROVE  /\ Modbus
               /\ \/ \E q : Asks(q) /\ Transaction(q)
                  \/ \E op \in Requests, r \in Servers : Reply(Refused(op, r))
    <2>1. PICK q : q = [op |-> "write", server |-> s, at |-> a, words |-> <<v>>, from |-> 0,
                        n |-> 0]
      OBVIOUS
    <2>2. Modbus /\ Between /\ (Reply(Refused("write", s)) \/ Request(q))
      BY <1>5, <2>1, Zenon DEF WriteRegister
    <2>3. /\ q.op = "write" /\ q.server = s /\ q.at = a /\ q.words = <<v>> /\ q.from = 0
          /\ q.n = 0
      BY <2>1
    <2>4. Asks(q)
      BY <1>1, <1>2, <2>2, <2>3 DEF Asks, Asked
    <2>5. "write" \in Requests
      BY DEF Requests
    <2> QED BY <2>2, <2>3, <2>4, <2>5 DEF Request, NotSelected
  <1>6. ASSUME NEW s \in Servers, NEW a \in RegisterSet, NEW v \in SUBSET Bits,
               NEW precisions \in BOOLEAN,
               WriteReadRegisters(s, a, v, LastRegister, precisions)
        PROVE  /\ Modbus
               /\ \/ \E q : Asks(q) /\ Transaction(q)
                  \/ \E op \in Requests, r \in Servers : Reply(Refused(op, r))
    <2>1. PICK id \in Servers : id = IF precisions THEN 1 ELSE s
      BY RegisterAssumption
    <2>2. PICK q : q = [op |-> "writeRead", server |-> id, at |-> a, words |-> <<v>>,
                        from |-> LastRegister, n |-> 1]
      OBVIOUS
    <2>3. Modbus /\ Between /\ Request(q)
      BY <1>6, <2>1, <2>2, Zenon DEF WriteReadRegisters
    <2>4. /\ q.op = "writeRead" /\ q.server = id /\ q.at = a /\ q.words = <<v>>
          /\ q.from = LastRegister /\ q.n = 1
      BY <2>2
    <2>5. Asks(q)
      BY <1>1, <1>2, <2>3, <2>4 DEF Asks, Asked
    <2>6. "writeRead" \in Requests
      BY DEF Requests
    <2> QED BY <2>3, <2>4, <2>5, <2>6 DEF Request, NotSelected
  <1>7. ASSUME NEW s \in Servers, NEW a \in RegisterSet, NEW and \in Masks, NEW or \in Masks,
               MaskRead(s, a, and, or)
        PROVE  /\ Modbus
               /\ \/ \E q : Asks(q) /\ Transaction(q)
                  \/ \E op \in Requests, r \in Servers : Reply(Refused(op, r))
    <2>1. PICK q : q = [op |-> "maskWrite", server |-> s, at |-> 0, words |-> << >>,
                        from |-> a, n |-> 1, and |-> and, or |-> or]
      OBVIOUS
    <2>2. Modbus /\ Between /\ Request(q)
      BY <1>7, <2>1, Zenon DEF MaskRead
    <2>3. /\ q.op = "maskWrite" /\ q.server = s /\ q.at = 0 /\ q.words = << >> /\ q.from = a
          /\ q.n = 1 /\ q.and = and /\ q.or = or
      BY <2>1
    <2>4. and \in SUBSET Bits /\ or \in SUBSET Bits
      BY RegisterAssumption
    <2>5. a + 1 - 1 <= LastRegister
      BY <1>1 DEF RegisterSet
    <2>6. Asks(q)
      BY <1>1, <1>2, <2>2, <2>3, <2>4, <2>5 DEF Asks, Asked
    <2>7. "maskWrite" \in Requests
      BY DEF Requests
    <2> QED BY <2>2, <2>3, <2>6, <2>7 DEF Request, NotSelected
  <1> QED BY <1>3, <1>4, <1>5, <1>6, <1>7, Zenon DEF Function

LEMMA FunctionHolds ==
  ASSUME RegisterInv, kind \in BusKinds, Function
  PROVE  RegisterInv'
  <1>1. CASE \E q : Asks(q) /\ Transaction(q)
    <2>1. PICK q : Asks(q) /\ Transaction(q)
      BY <1>1
    <2>2. Asked(q) /\ Modbus
      BY <2>1, FunctionIs DEF Asks
    <2> QED BY <2>1, <2>2, TransactionHolds
  <1>2. CASE \E op \in Requests, s \in Servers : Reply(Refused(op, s))
    <2>1. PICK op \in Requests, s \in Servers : Reply(Refused(op, s))
      BY <1>2
    <2>2. "uses" \notin DOMAIN Refused(op, s)
      BY DEF Refused
    <2> QED BY <2>1, <2>2, RepliedHolds
  <1> QED BY <1>1, <1>2, FunctionIs

-----------------------------------------------------------------------------
\* Registers: the rest, and the next step

LEMMA ModbusFlushHolds ==
  ASSUME RegisterInv, kind \in BusKinds, ModbusFlush
  PROVE  RegisterInv'
  <1>1. /\ late' = << >> /\ answer' = [op |-> "flush", status |-> "ok"]
        /\ UNCHANGED <<kind, config, port, regs, wordorder, request, guessed>>
    BY DEF ModbusFlush
  <1>2. late' \in Seq(LateAnswer)
    <2>1. << >> \in Seq(LateAnswer)
      OBVIOUS
    <2> QED BY <1>1, <2>1
  <1>3. RegisterType' /\ CopyInv' /\ RequestInv'
    BY <1>1, <1>2 DEF RegisterInv, RegisterType, CopyInv, RequestInv, Modbus
  <1>4. "uses" \notin DOMAIN answer' /\ UNCHANGED kind
    BY <1>1
  <1> QED BY <1>3, <1>4, PlainHolds

LEMMA OtherMasterHolds ==
  ASSUME RegisterInv, kind \in BusKinds, NEW s \in Servers, NEW a \in RegisterSet,
         NEW v \in SUBSET Bits, OtherMaster(s, a, v)
  PROVE  RegisterInv'
  <1>1. /\ regs' = [regs EXCEPT ![s][a] = v] /\ answer' = None
        /\ UNCHANGED <<kind, config, port, late, wordorder, request, guessed>>
    BY DEF OtherMaster
  <1>2. regs' \in [Servers -> Contents]
    <2>1. regs \in [Servers -> Contents]
      BY DEF RegisterInv, RegisterType
    <2> QED BY <1>1, <2>1 DEF Contents
  <1>3. RegisterType' /\ CopyInv' /\ RequestInv'
    BY <1>1, <1>2 DEF RegisterInv, RegisterType, CopyInv, RequestInv, Modbus
  <1>4. "uses" \notin DOMAIN answer' /\ UNCHANGED kind
    BY <1>1 DEF None
  <1> QED BY <1>3, <1>4, PlainHolds

LEMMA RegisterCloseHolds ==
  ASSUME RegisterInv, kind \in BusKinds, RegisterClose
  PROVE  RegisterInv'
  <1>1. /\ UNCHANGED <<kind, registervars>> /\ answer' = [op |-> "close", status |-> "ok"]
    BY DEF RegisterClose
  <1>2. "uses" \notin DOMAIN answer' /\ UNCHANGED kind
    BY <1>1
  <1> QED BY <1>1, <1>2, KeptParts, PlainHolds

\* The kinds of steps there are.
BusTransfer == I2cRead \/ I2cWrite \/ SpiRead \/ SpiWrite \/ SpiWriteAndRead \/ PpData
BusAddress == \E a \in Addresses : SetAddress(a)
BusDirection == \E d \in {0, 1, 2} : SetDirection(d)
BusBitrate == \E b \in {100000, 500000} : SetBitrate(b)
BusMode == \E f \in {"cpol", "cpha"}, known \in BOOLEAN, v \in BOOLEAN : SetMode(f, known, v)
BusTimeout == \E t \in ModbusTimeouts : SetModbusTimeout(t)
BusOrder == \E order \in {"big-endian", "little-endian"} : SetWordOrder(order)
BusSetting ==
  BusAddress \/ BusDirection \/ BusBitrate \/ BusMode \/ BusTimeout \/ BusOrder
BusOther ==
  \E s \in Servers, a \in RegisterSet, v \in SUBSET Bits : OtherMaster(s, a, v)

LEMMA RegisterSteps ==
  ASSUME RegisterNext
  PROVE  Function \/ BusTransfer \/ BusSetting \/ BusOther \/ ModbusFlush \/ RegisterClose
  <1>1. ASSUME NEW s \in Servers, NEW a \in RegisterSet,
               \/ \E t \in {1, 2} : ReadRegisters(s, a, (LastRegister + 1) \div t, t)
               \/ \E v \in SUBSET Bits :
                    \/ \E precision \in {16, 64} : WriteRegister(s, a, v, precision)
                    \/ \E precisions \in BOOLEAN :
                         WriteReadRegisters(s, a, v, LastRegister, precisions)
                    \/ OtherMaster(s, a, v)
               \/ \E and, or \in Masks : MaskRead(s, a, and, or)
        PROVE  Function \/ BusOther
    <2>1. CASE \E t \in {1, 2} : ReadRegisters(s, a, (LastRegister + 1) \div t, t)
      BY <2>1, Zenon DEF Function
    <2>2. CASE \E v \in SUBSET Bits :
                 \E precision \in {16, 64} : WriteRegister(s, a, v, precision)
      BY <2>2, Zenon DEF Function
    <2>3. CASE \E v \in SUBSET Bits : \E precisions \in BOOLEAN :
                 WriteReadRegisters(s, a, v, LastRegister, precisions)
      BY <2>3, Zenon DEF Function
    <2>4. CASE \E v \in SUBSET Bits : OtherMaster(s, a, v)
      BY <2>4, Zenon DEF BusOther
    <2>5. CASE \E and, or \in Masks : MaskRead(s, a, and, or)
      BY <2>5, Zenon DEF Function
    <2> QED BY <1>1, <2>1, <2>2, <2>3, <2>4, <2>5, Zenon
  <1>2. \/ BusAddress \/ BusDirection \/ BusBitrate \/ BusMode \/ BusTimeout \/ BusOrder
        \/ BusTransfer
        \/ \E s \in Servers, a \in RegisterSet :
             \/ \E t \in {1, 2} : ReadRegisters(s, a, (LastRegister + 1) \div t, t)
             \/ \E v \in SUBSET Bits :
                  \/ \E precision \in {16, 64} : WriteRegister(s, a, v, precision)
                  \/ \E precisions \in BOOLEAN :
                       WriteReadRegisters(s, a, v, LastRegister, precisions)
                  \/ OtherMaster(s, a, v)
             \/ \E and, or \in Masks : MaskRead(s, a, and, or)
        \/ MaskWrite \/ ModbusFlush \/ RegisterClose
    BY DEF RegisterNext, BusAddress, BusDirection, BusBitrate, BusMode, BusTimeout, BusOrder,
           BusTransfer
  <1>3. MaskWrite => Function
    BY Zenon DEF Function
  <1> QED BY <1>1, <1>2, <1>3, Zenon DEF BusSetting

\* Every step of the registers keeps both halves of the invariant.
LEMMA RegisterNextHolds ==
  ASSUME IInv, kind \in BusKinds, RegisterNext, UNCHANGED messagevars
  PROVE  IInv'
  <1>1. MessageInv /\ RegisterInv
    BY DEF IInv
  <1>2. UNCHANGED kind
    <2>1. ASSUME NEW q, Transaction(q) PROVE UNCHANGED kind
      BY <2>1 DEF Transaction
    <2>2. ASSUME NEW a, Reply(a) PROVE UNCHANGED kind
      BY <2>2 DEF Reply
    <2>3. CASE Function
      BY <1>1, <2>1, <2>2, <2>3, FunctionIs
    <2>4. ASSUME NEW op, NEW f, NEW v, Setting(op, f, v) PROVE UNCHANGED kind
      BY <2>2, <2>4 DEF Setting
    <2>5. ASSUME NEW op, Transfer(op) PROVE UNCHANGED kind
      BY <2>2, <2>5 DEF Transfer
    <2>6. CASE BusTransfer
      BY <2>5, <2>6, Zenon DEF BusTransfer, I2cRead, I2cWrite, SpiRead, SpiWrite,
                               SpiWriteAndRead, PpData
    <2>7. CASE BusAddress
      BY <2>4, <2>7, Zenon DEF BusAddress, SetAddress
    <2>8. CASE BusDirection
      BY <2>2, <2>4, <2>8 DEF BusDirection, SetDirection
    <2>9. CASE BusBitrate
      BY <2>4, <2>9 DEF BusBitrate, SetBitrate
    <2>10. CASE BusMode
      BY <2>2, <2>10 DEF BusMode, SetMode
    <2>11. CASE BusTimeout \/ BusOrder
      BY <2>2, <2>11 DEF BusTimeout, BusOrder, SetModbusTimeout, SetWordOrder
    <2>12. CASE BusOther \/ ModbusFlush \/ RegisterClose
      BY <2>12 DEF BusOther, OtherMaster, ModbusFlush, RegisterClose
    <2> QED BY <2>3, <2>6, <2>7, <2>8, <2>9, <2>10, <2>11, <2>12, RegisterSteps, Zenon
            DEF BusSetting
  <1>3. RegisterInv'
    <2>1. CASE Function
      BY <1>1, <2>1, FunctionHolds
    <2>2. CASE BusTransfer
      <3>1. ~Modbus /\ \E op : Transfer(op)
        BY <2>2 DEF BusTransfer, I2cRead, I2cWrite, SpiRead, SpiWrite, SpiWriteAndRead, PpData,
                    Modbus
      <3> QED BY <1>1, <3>1, TransferHolds
    <2>3. CASE BusAddress
      BY <1>1, <2>3, SetAddressHolds DEF BusAddress
    <2>4. CASE BusDirection
      BY <1>1, <2>4, SetDirectionHolds DEF BusDirection
    <2>5. CASE BusBitrate
      BY <1>1, <2>5, SetBitrateHolds DEF BusBitrate
    <2>6. CASE BusMode
      BY <1>1, <2>6, SetModeHolds DEF BusMode
    <2>7. CASE BusTimeout
      BY <1>1, <2>7, SetModbusTimeoutHolds DEF BusTimeout
    <2>8. CASE BusOrder
      BY <1>1, <2>8, SetWordOrderHolds DEF BusOrder
    <2>9. CASE BusOther
      BY <1>1, <2>9, OtherMasterHolds DEF BusOther
    <2>10. CASE ModbusFlush
      BY <1>1, <2>10, ModbusFlushHolds
    <2>11. CASE RegisterClose
      BY <1>1, <2>11, RegisterCloseHolds
    <2> QED BY <2>1, <2>2, <2>3, <2>4, <2>5, <2>6, <2>7, <2>8, <2>9, <2>10, <2>11,
               RegisterSteps, Zenon DEF BusSetting
  <1>4. MessageInv'
    BY <1>1, <1>2, MessagesKept
  <1> QED BY <1>2, <1>3, <1>4 DEF IInv

-----------------------------------------------------------------------------
\* The inductive invariant

LEMMA InitHolds ==
  ASSUME Init
  PROVE  IInv
  <1>1. kind \in MessageKinds \cup BusKinds /\ answer = None
    BY KindAssumption DEF Init
  <1>2. MessageInv
    <2>1. /\ made = 0 /\ ends = {} /\ pos = 0 /\ received = << >> /\ lengths = << >>
          /\ over = 0 /\ empties \in IF kind = "vxi11" THEN BOOLEAN ELSE {FALSE}
          /\ recvsize \in IF kind = "vxi11" THEN RecvSizes ELSE {0}
          /\ tmo \in IF kind = "gpib" THEN {-1, 11} ELSE {-1}
          /\ call = Idle
      BY DEF Init, MessageInit
    <2>2. recvsize \in Nat /\ tmo \in Int
      BY <2>1, MessageAssumption
    <2>11. over \in Nat /\ (kind # "vxi11" => over = 0) /\ empties \in BOOLEAN
      BY <2>1
    <2>3. /\ received \in Seq(Piece) /\ lengths \in Seq(Nat) /\ Len(received) = 0
          /\ DOMAIN received = 1 .. Len(received)
      BY <2>1
    <2>4. pos \in 0 .. made /\ made \in Nat /\ ends \in SUBSET Nat
      BY <2>1
    <2>5. MessageType
      BY <2>1, <2>2, <2>3, <2>4, <2>11, IdleType DEF MessageType, DeviceType
    <2>6. call.op = "idle"
      BY <2>1, IdleType
    <2>7. RunInv /\ ReadInv /\ WriteInv
      BY <2>6 DEF RunInv, ReadInv, WriteInv, Reads
    <2>8. MarkInv
      BY <2>3 DEF MarkInv
    <2>9. LossesRaised
      BY <1>1 DEF LossesRaised, HasRead, None
    <2>10. EndsMarkWrites
      BY <1>1, <2>3 DEF EndsMarkWrites, None
    <2> QED BY <2>5, <2>7, <2>8, <2>9, <2>10 DEF MessageInv
  <1>3. RegisterInv
    <2>1. /\ port \in AtOpen
          /\ config \in CASE kind = "spi" -> SpiOpen
                          [] kind = "i2c" -> {[addr |-> -1]}
                          [] OTHER -> {port}
          /\ regs = [s \in Servers |-> [a \in RegisterSet |-> {}]]
          /\ late = << >> /\ wordorder = "big-endian" /\ request = NoRequest
          /\ guessed = (kind = "spi" /\ [config EXCEPT !.bitrate = port.bitrate] # port)
      BY Zenon DEF Init, RegisterInit
    <2>2. RegisterType
      <3>1. regs \in [Servers -> Contents]
        BY <2>1 DEF Contents
      <3>2. late \in Seq(LateAnswer)
        BY <2>1
      <3>4. guessed \in BOOLEAN
        <4>1. PICK sped : sped = [config EXCEPT !.bitrate = port.bitrate]
          OBVIOUS
        <4>2. (kind = "spi" /\ sped # port) \in BOOLEAN /\ guessed = (kind = "spi" /\ sped # port)
          BY <2>1, <4>1, Zenon
        <4> QED BY <4>2, Zenon
      <3> QED BY <2>1, <3>1, <3>2, <3>4 DEF RegisterType
    <2>3. RequestInv
      BY <2>1 DEF RequestInv
    <2>4. CopyInv
      <3>1. CASE Modbus
        <4>1. port = [slave |-> -1, timeout |-> 10] /\ config = port
          BY <2>1, <3>1 DEF AtOpen, Modbus
        <4>2. port \in ModbusSettings
          BY <4>1 DEF ModbusSettings
        <4>3. kind # "i2c" /\ kind # "spi" /\ kind # "parallel"
          BY <3>1 DEF Modbus
        <4> QED BY <4>1, <4>2, <4>3 DEF CopyInv
      <3>2. CASE kind = "i2c"
        <4>1. port = [addr |-> 0] /\ config = [addr |-> -1]
          BY <2>1, <3>2 DEF AtOpen, Modbus
        <4> QED BY <3>2, <4>1 DEF CopyInv, Modbus
      <3>3. CASE kind = "parallel"
        <4>1. port \in [dir : {0, 1}] /\ config = port
          BY <2>1, <3>3 DEF AtOpen, Modbus
        <4> QED BY <3>3, <4>1 DEF CopyInv, Modbus
      <3>4. CASE kind = "spi"
        <4>1. port \in Modes /\ config \in SpiOpen
          BY <2>1, <3>4 DEF AtOpen, Modbus
        <4>2. port \in SpiSettings /\ port.bitrate \in Nat
          BY <4>1 DEF Modes, SpiSettings
        <4>4. PICK mode0 : mode0 = [port EXCEPT !.cpol = FALSE, !.cpha = FALSE]
          OBVIOUS
        <4>5. mode0 \in SpiSettings /\ mode0.cpol = FALSE /\ mode0.cpha = FALSE
          BY <4>2, <4>4 DEF SpiSettings
        <4>3. \E mode \in {port, mode0}, b \in Nat : config = [mode EXCEPT !.bitrate = b]
          <5>1. PICK speed \in Nat :
                  speed = IF port.bitrate < 250000 THEN port.bitrate ELSE 250000
            BY <4>2
          <5>2. \E mode \in {port, mode0}, b \in {speed, 250000} :
                  config = [mode EXCEPT !.bitrate = b]
            BY <4>1, <4>4, <5>1 DEF SpiOpen
          <5> QED BY <5>2
        <4>6. PICK mode \in {port, mode0}, b \in Nat : config = [mode EXCEPT !.bitrate = b]
          BY <4>3
        <4>7. mode \in SpiSettings /\ b \in Nat
          BY <4>2, <4>5, <4>6
        <4>8. config \in SpiSettings /\ config.cpol = mode.cpol /\ config.cpha = mode.cpha
          BY <4>6, <4>7 DEF SpiSettings
        <4>9. \/ config.cpol = port.cpol /\ config.cpha = port.cpha
              \/ guessed = TRUE
          <5>1. PICK sped : sped = [config EXCEPT !.bitrate = port.bitrate]
            OBVIOUS
          <5>2. sped.cpol = config.cpol /\ sped.cpha = config.cpha
            BY <4>8, <5>1 DEF SpiSettings
          <5>3. CASE sped = port
            BY <5>2, <5>3
          <5>4. CASE sped # port
            <6>1. guessed = TRUE
              BY <2>1, <3>4, <5>1, <5>4
            <6> QED BY <6>1
          <5> QED BY <5>3, <5>4
        <4> QED BY <3>4, <4>2, <4>8, <4>9 DEF CopyInv, Modbus
      <3>5. CASE ~Modbus /\ kind # "i2c" /\ kind # "parallel" /\ kind # "spi"
        BY <3>5 DEF CopyInv
      <3> QED BY <3>1, <3>2, <3>3, <3>4, <3>5
    <2>5. UseInv /\ TransfersAsReported
      BY <1>1 DEF UseInv, TransfersAsReported, None
    <2> QED BY <2>2, <2>3, <2>4, <2>5 DEF RegisterInv
  <1> QED BY <1>1, <1>2, <1>3 DEF IInv

LEMMA StutterHolds ==
  ASSUME IInv, UNCHANGED vars
  PROVE  IInv'
  <1>1. UNCHANGED <<kind, answer, messagevars, registervars>>
    BY DEF vars
  <1>2. MessageInv'
    <2>1. UNCHANGED <<made, ends, pos, over, received, lengths, recvsize, empties, tmo, call>>
      BY <1>1 DEF messagevars
    <2>2. MessageType' /\ RunInv' /\ ReadInv' /\ MarkInv' /\ WriteInv'
      BY <1>1, <2>1 DEF IInv, MessageInv, MessageType, DeviceType, RunInv, ReadInv, MarkInv,
         Placed, Tells, WriteInv
    <2>3. LossesRaised' /\ EndsMarkWrites'
      BY <1>1, <2>1 DEF IInv, MessageInv, LossesRaised, HasRead, EndsMarkWrites
    <2> QED BY <2>2, <2>3 DEF MessageInv
  <1>3. RegisterInv'
    <2>1. UNCHANGED <<config, port, regs, late, wordorder, request, guessed>>
      BY <1>1 DEF registervars
    <2> QED BY <1>1, <2>1 DEF IInv, RegisterInv, RegisterType, CopyInv, RequestInv, UseInv,
                              TransfersAsReported, Modbus
  <1> QED BY <1>1, <1>2, <1>3 DEF IInv

\* The objects that talk to an instrument keep their inductive invariant, whatever the
\* device, the drivers and the program do (the read, write and set methods of vxi11, usbtmc,
\* gpib, visadev, modbus, i2c, spi and parallel).
THEOREM InductiveInvariant == Spec => []IInv
  <1>1. Init => IInv
    BY InitHolds
  <1>2. IInv /\ [Next]_vars => IInv'
    BY MessageNextHolds, RegisterNextHolds, StutterHolds DEF Next
  <1> QED BY <1>1, <1>2, PTL DEF Spec

\* Types: what was read is never more than was made, registers and late answers hold bits
\* of a register, and the object's copy and what the driver uses stay settings of the
\* interface, the server id of octave_modbus the one libmodbus has.
THEOREM Types == Spec => [](MessageType /\ RegisterType /\ CopyInv)
  <1>1. IInv => MessageType /\ RegisterType /\ CopyInv
    BY DEF IInv, MessageInv, RegisterInv
  <1> QED BY <1>1, InductiveInvariant, PTL

\* A read that returns hands over every byte it took from the device, in order (fread,
\* fscanf and read of vxi11, usbtmc, gpib and visadev), but for what came in an answer that
\* vxi11 does not count because it is too long.
THEOREM ReadsAreWhole == Spec => []LossesRaised
  <1>1. IInv => LossesRaised
    BY DEF IInv, MessageInv
  <1> QED BY <1>1, InductiveInvariant, PTL

\* The device finds the writes in what it receives, END with the last byte of each and with
\* no other (octave_vxi11::write and the driver's writes), for any maxRecvSize but 0.
THEOREM WritesAreMarked == Spec => []EndsMarkWrites
  <1>1. IInv => EndsMarkWrites
    BY DEF IInv, MessageInv
  <1> QED BY <1>1, InductiveInvariant, PTL

\* A transfer of i2c, spi or the parallel port goes by the settings the object reports.
THEOREM TransfersAreReported == Spec => []TransfersAsReported
  <1>1. IInv => TransfersAsReported
    BY DEF IInv, RegisterInv
  <1> QED BY <1>1, InductiveInvariant, PTL

-----------------------------------------------------------------------------
\* What a modbus call reads and writes

\* The words are those of n registers of a server, and t of them are number m to e.
Held(words, s, a, n) ==
  /\ regs \in [Servers -> Contents] /\ a + n - 1 <= LastRegister
  /\ words \in Seq(SUBSET Bits) /\ words = Words(regs[s], a, n)

Among(m, e, t, n) == m \in 1 .. n /\ e \in 1 .. n /\ e = m + t - 1

\* An element of t registers, as it came and the other way round.
IsElement(words, s, a, t, m, e) ==
  /\ SubSeq(words, m, e) = [k \in 1 .. t |-> regs[s][a + (m - 1) + k - 1]]
  /\ Swap(SubSeq(words, m, e)) = [k \in 1 .. t |-> regs[s][a + e - k]]

LEMMA ElementIs ==
  ASSUME NEW s \in Servers, NEW a \in RegisterSet, NEW n \in Nat, NEW words,
         Held(words, s, a, n), NEW t \in {1, 2}, NEW m \in Nat, NEW e \in Nat,
         Among(m, e, t, n)
  PROVE  IsElement(words, s, a, t, m, e)
  <1>0. /\ a + n - 1 <= LastRegister /\ words = Words(regs[s], a, n)
        /\ m \in 1 .. n /\ e \in 1 .. n /\ e = m + t - 1
    BY DEF Held, Among
  <1>1. regs[s] \in Contents /\ a \in Nat
    BY DEF RegisterSet, Held
  <1>2. Len(words) = n /\ \A k \in 1 .. n : words[k] = regs[s][a + k - 1]
    BY <1>0, <1>1, WordsAre
  <1>3. \A i \in m .. e : words[i] \in SUBSET Bits
    <2>1. words \in Seq(SUBSET Bits)
      BY DEF Held
    <2> QED BY <1>0, <1>2, <2>1
  <1>4. PICK sub \in Seq(SUBSET Bits) : sub = SubSeq(words, m, e)
    <2>1. m \in Int /\ e \in Int
      OBVIOUS
    <2>2. SubSeq(words, m, e) \in Seq(SUBSET Bits)
      BY <1>3, <2>1, SubSeqProperties, Zenon
    <2> QED BY <2>2
  <1>5. Len(sub) = t /\ \A k \in 1 .. t : sub[k] = words[m + k - 1]
    <2>1. /\ Len(SubSeq(words, m, e)) = IF m <= e THEN e - m + 1 ELSE 0
          /\ \A k \in 1 .. (e - m + 1) : SubSeq(words, m, e)[k] = words[m + k - 1]
      BY <1>3, SubSeqProperties
    <2>2. m <= e /\ e - m + 1 = t
      BY <1>0
    <2> QED BY <1>4, <2>1, <2>2
  <1>6. ASSUME NEW k \in 1 .. t
        PROVE  /\ sub[k] = regs[s][a + (m - 1) + k - 1]
               /\ sub[(t - k) + 1] = regs[s][a + e - k]
    <2>1. PICK i \in 1 .. n : i = m + k - 1
      BY <1>0
    <2>2. sub[k] = words[i] /\ words[i] = regs[s][a + i - 1]
      BY <1>2, <1>5, <2>1
    <2>3. a + i - 1 = a + (m - 1) + k - 1
      BY <1>1, <2>1
    <2>4. PICK h \in 1 .. t : h = (t - k) + 1
      OBVIOUS
    <2>5. PICK l \in 1 .. n : l = m + h - 1
      BY <1>0
    <2>6. sub[h] = words[l] /\ words[l] = regs[s][a + l - 1]
      BY <1>2, <1>5, <2>5
    <2>7. a + l - 1 = a + e - k
      BY <1>0, <1>1, <2>4, <2>5
    <2> QED BY <2>2, <2>3, <2>4, <2>6, <2>7
  <1>7. sub = [k \in 1 .. t |-> sub[k]]
    BY <1>5
  <1>8. sub = [k \in 1 .. t |-> regs[s][a + (m - 1) + k - 1]]
    BY <1>6, <1>7
  <1>9. Swap(sub) = [k \in 1 .. t |-> sub[(t - k) + 1]]
    BY <1>5 DEF Swap, Reverse
  <1>10. Swap(sub) = [k \in 1 .. t |-> regs[s][a + e - k]]
    BY <1>6, <1>9
  <1> QED BY <1>4, <1>8, <1>10 DEF IsElement

LEMMA ElementsAre ==
  ASSUME HostOrder = "L", NEW s \in Servers, NEW a \in RegisterSet, NEW n \in Nat,
         NEW words, Held(words, s, a, n), NEW t \in {1, 2}, \E count \in Nat : n = count * t
  PROVE  \A j \in DOMAIN Elements(words, t) : Elements(words, t)[j] = Expected(s, a, t, j)
  <1>1. regs[s] \in Contents
    BY DEF Held
  <1>2. PICK count \in Nat : n = count * t
    OBVIOUS
  <1>3. Len(words) = n
    BY <1>1, WordsAre DEF Held
  <1>4. n \div t = count
    BY <1>2
  <1>5. PICK swaps \in BOOLEAN : swaps = (t > 1 /\ wordorder = "big-endian" /\ HostOrder = "L")
    OBVIOUS
  <1>6. Elements(words, t) =
          [j \in 1 .. count |-> IF swaps THEN Swap(SubSeq(words, (j - 1) * t + 1, j * t))
                                ELSE SubSeq(words, (j - 1) * t + 1, j * t)]
    BY <1>3, <1>4, <1>5 DEF Elements
  <1>7. SUFFICES ASSUME NEW j \in 1 .. count
                 PROVE  Elements(words, t)[j] = Expected(s, a, t, j)
    BY <1>6
  <1>8. PICK m \in Nat : m = (j - 1) * t + 1
    <2>1. (j - 1) * t + 1 \in Nat
      OBVIOUS
    <2> QED BY <2>1
  <1>9. PICK e \in Nat : e = j * t
    <2>1. j * t \in Nat
      OBVIOUS
    <2> QED BY <2>1
  <1>10. m \in 1 .. n /\ e \in 1 .. n /\ e = m + t - 1 /\ (j - 1) * t = m - 1
    <2>1. CASE t = 1
      BY <1>2, <1>8, <1>9, <2>1
    <2>2. CASE t = 2
      BY <1>2, <1>8, <1>9, <2>2
    <2> QED BY <2>1, <2>2
  <1>11. /\ SubSeq(words, m, e) = [k \in 1 .. t |-> regs[s][a + (m - 1) + k - 1]]
         /\ Swap(SubSeq(words, m, e)) = [k \in 1 .. t |-> regs[s][a + e - k]]
    <2>1. Among(m, e, t, n)
      BY <1>10 DEF Among
    <2>2. IsElement(words, s, a, t, m, e)
      BY <2>1, ElementIs
    <2> QED BY <2>2 DEF IsElement
  <1>12. Elements(words, t)[j] = IF swaps THEN Swap(SubSeq(words, m, e))
                                 ELSE SubSeq(words, m, e)
    BY <1>6, <1>8, <1>9
  <1>13. Expected(s, a, t, j) =
           [k \in 1 .. t |-> IF wordorder = "big-endian" THEN regs[s][a + e - k]
                             ELSE regs[s][a + (m - 1) + k - 1]]
    BY <1>9, <1>10 DEF Expected
  <1>14. CASE swaps = TRUE
    <2>1. wordorder = "big-endian"
      BY <1>5, <1>14
    <2> QED BY <1>11, <1>12, <1>13, <1>14, <2>1
  <1>15. CASE wordorder # "big-endian"
    <2>1. swaps = FALSE
      BY <1>5, <1>15
    <2> QED BY <1>11, <1>12, <1>13, <1>15, <2>1
  \* A single register needs no order.
  <1>16. CASE wordorder = "big-endian" /\ t = 1
    <2>3. ~ (t > 1)
      BY <1>16
    <2>1. swaps = FALSE
      BY <1>5, <2>3, Zenon
    <2>2. \A k \in 1 .. t : a + e - k = a + (m - 1) + k - 1
      BY <1>10, <1>16 DEF RegisterSet
    <2> QED BY <1>11, <1>12, <1>13, <1>16, <2>1, <2>2
  <1>17. swaps = TRUE \/ wordorder # "big-endian" \/ (wordorder = "big-endian" /\ t = 1)
    <2>1. t = 1 \/ t > 1
      OBVIOUS
    <2> QED BY <1>5, <2>1
  <1> QED BY <1>14, <1>15, <1>16, <1>17

\* The words of one register in place: the others stay.
LEMMA OverlayOne ==
  ASSUME NEW old \in Contents, NEW a \in RegisterSet, NEW v \in SUBSET Bits
  PROVE  Overlay(old, a, <<v>>) = [old EXCEPT ![a] = v]
  <1>1. PICK words \in Seq(SUBSET Bits) : words = <<v>> /\ Len(words) = 1 /\ words[1] = v
    <2>1. <<v>> \in Seq(SUBSET Bits) /\ Len(<<v>>) = 1 /\ <<v>>[1] = v
      OBVIOUS
    <2> QED BY <2>1, Zenon
  <1>2. LastRegister \in Nat
    BY RegisterAssumption
  <1>3. ASSUME NEW b \in RegisterSet
        PROVE  (IF b - a + 1 \in 1 .. Len(words) THEN words[b - a + 1] ELSE old[b]) =
                 IF b = a THEN v ELSE old[b]
    <2>1. b - a + 1 \in 1 .. Len(words) <=> b = a
      BY <1>1, <1>2 DEF RegisterSet
    <2>2. b = a => b - a + 1 = 1
      BY <1>2 DEF RegisterSet
    <2> QED BY <1>1, <2>1, <2>2
  <1>4. Overlay(old, a, words) = [b \in RegisterSet |-> IF b = a THEN v ELSE old[b]]
    BY <1>3, Zenon DEF Overlay
  <1>5. [old EXCEPT ![a] = v] = [b \in RegisterSet |-> IF b = a THEN v ELSE old[b]]
    BY DEF Contents
  <1> QED BY <1>1, <1>4, <1>5

\* The three claims of RegistersAsAsked.
ServerAsked ==
  answer'.op \in {"read", "write", "writeRead", "maskWrite"} =>
    \A s \in Servers : regs'[s] # regs[s] => s = answer'.server
ElementsAsked ==
  answer'.op = "read" /\ answer'.status = "ok" /\ late = << >> =>
    \A j \in DOMAIN answer'.data :
      answer'.data[j] = Expected(answer'.server, answer'.addr, answer'.tosize, j)
MaskAsked ==
  answer'.op = "maskWrite" /\ ~Between /\ request.trusted =>
    regs' \in {regs, [regs EXCEPT ![request.server][request.addr] = request.wanted]}
AsAsked == Modbus => ServerAsked /\ ElementsAsked /\ MaskAsked

LEMMA KeptAsAsked ==
  ASSUME UNCHANGED regs, ~ (answer'.op = "read" /\ answer'.status = "ok")
  PROVE  AsAsked
  <1> QED BY DEF AsAsked, ServerAsked, ElementsAsked, MaskAsked

LEMMA TransactionAsAsked ==
  ASSUME RegisterInv, Modbus, HostOrder = "L", NEW q, Asks(q), Transaction(q)
  PROVE  AsAsked
  <1>1. Asked(q) /\ Outcome(q)
    BY TransactionIs DEF Asks
  <1>2. /\ q.server \in Servers /\ q.at \in RegisterSet /\ q.words \in Seq(SUBSET Bits)
        /\ q.from \in RegisterSet /\ q.n \in Nat /\ q.from + q.n - 1 <= LastRegister
        /\ q.op \in {"read", "write", "writeRead", "maskWrite"}
    BY <1>1 DEF Asked
  <1>3. regs \in [Servers -> Contents] /\ regs[q.server] \in Contents
    BY <1>2 DEF RegisterInv, RegisterType
  <1>4. regs' = regs \/ regs' = [regs EXCEPT ![q.server] = Executed(q)]
    BY <1>1 DEF Outcome
  <1>5. \A s \in Servers : regs'[s] # regs[s] => s = q.server
    BY <1>2, <1>3, <1>4
  \* The second step of maskWrite writes the one register, if it is executed.
  <1>6. MaskAsked
    <2>1. SUFFICES ASSUME ~Between, request.trusted = TRUE
                   PROVE  regs' \in {regs, [regs EXCEPT ![request.server][request.addr] =
                                              request.wanted]}
      <3>1. ASSUME ~Between PROVE request.trusted \in BOOLEAN
        <4>1. request # NoRequest
          BY <3>1 DEF Between, NoRequest
        <4> QED BY <4>1 DEF RegisterInv, RequestInv, RequestType
      <3> QED BY <3>1 DEF MaskAsked
    <2>2. request # NoRequest
      BY <2>1 DEF Between, NoRequest
    <2>3. request \in RequestType /\ request.value = request.wanted
      BY <2>1, <2>2 DEF RegisterInv, RequestInv
    <2>4. /\ request.server \in Servers /\ request.addr \in RegisterSet
          /\ request.value \in SUBSET Bits
      BY <2>3 DEF RequestType
    <2>5. /\ q.server = request.server /\ q.at = request.addr
          /\ q.words = <<request.value>>
      BY <2>1 DEF Asks
    <2>6. Executed(q) = [regs[request.server] EXCEPT ![request.addr] = request.value]
      BY <1>3, <2>4, <2>5, OverlayOne DEF Executed
    <2>7. [regs EXCEPT ![q.server] = Executed(q)] =
            [regs EXCEPT ![request.server][request.addr] = request.wanted]
      BY <1>3, <2>3, <2>4, <2>5, <2>6
    <2> QED BY <1>4, <2>7
  <1>7. CASE GiveUp(q.op, q.server)
    <2>1. answer'.op = q.op /\ answer'.server = q.server /\ answer'.status = "raised"
      BY <1>7 DEF GiveUp, Refused
    <2>2. ServerAsked /\ ElementsAsked
      BY <1>5, <2>1 DEF ServerAsked, ElementsAsked
    <2> QED BY <1>6, <2>2 DEF AsAsked
  <1>8. ASSUME NEW words \in Seq(SUBSET Bits), Answered(q, words), Len(words) = q.n,
               late = << >> => words = Words(Executed(q), q.from, q.n)
        PROVE  ServerAsked /\ ElementsAsked
    <2>1. CASE /\ q.op = "read"
               /\ answer' = [op |-> "read", status |-> "ok", server |-> q.server,
                             addr |-> q.from, tosize |-> q.tosize,
                             data |-> Elements(words, q.tosize)]
      <3>1. /\ answer'.server = q.server /\ answer'.addr = q.from
            /\ answer'.tosize = q.tosize /\ answer'.data = Elements(words, q.tosize)
        BY <2>1
      <3>2. /\ q.words = << >> /\ q.tosize \in {1, 2}
            /\ \E count \in Nat : q.n = count * q.tosize
        BY <2>1 DEF Asks
      <3>3. Executed(q) = regs[q.server]
        BY <1>2, <1>3, <3>2, OverlayIs DEF Executed
      <3>4. ASSUME late = << >> PROVE Held(words, q.server, q.from, q.n)
        BY <1>2, <1>3, <1>8, <3>3, <3>4 DEF Held
      <3>5. ASSUME late = << >>
            PROVE  \A j \in DOMAIN Elements(words, q.tosize) :
                     Elements(words, q.tosize)[j] = Expected(q.server, q.from, q.tosize, j)
        BY <1>2, <3>2, <3>4, <3>5, ElementsAre
      <3>6. ElementsAsked
        BY <3>1, <3>5 DEF ElementsAsked
      <3> QED BY <1>5, <3>1, <3>6 DEF ServerAsked
    <2>2. CASE answer' = None
      BY <2>2 DEF ServerAsked, ElementsAsked, None
    <2>3. CASE /\ q.op \in {"write", "writeRead"} \/ ~Between
               /\ answer' = [op |-> q.op, status |-> "ok", server |-> q.server,
                             data |-> words]
      <3>1. q.op # "read" /\ answer'.op = q.op /\ answer'.server = q.server
        BY <2>3 DEF Asks
      <3> QED BY <1>5, <3>1 DEF ServerAsked, ElementsAsked
    <2> QED BY <1>8, <2>1, <2>2, <2>3 DEF Answered
  <1>9. CASE ~ GiveUp(q.op, q.server)
    <2>1. PICK words \in Seq(SUBSET Bits) :
            /\ Answered(q, words) /\ Len(words) = q.n
            /\ late = << >> => words = Words(Executed(q), q.from, q.n)
      BY <1>1, <1>9 DEF Outcome
    <2> QED BY <1>6, <1>8, <2>1 DEF AsAsked
  <1> QED BY <1>7, <1>9

LEMMA StepAsAsked ==
  ASSUME IInv, HostOrder = "L", [Next]_vars
  PROVE  AsAsked \/ UNCHANGED vars
  <1>1. SUFFICES ASSUME Next, Modbus PROVE AsAsked
    BY DEF AsAsked
  <1>2. kind \notin MessageKinds
    BY <1>1 DEF Modbus, MessageKinds
  <1>3. RegisterNext /\ RegisterInv
    BY <1>1, <1>2 DEF Next, IInv
  <1>4. CASE Function
    <2>1. CASE \E q : Asks(q) /\ Transaction(q)
      BY <1>1, <1>3, <2>1, TransactionAsAsked
    <2>2. CASE \E op \in Requests, s \in Servers : Reply(Refused(op, s))
      <3>1. UNCHANGED regs /\ answer'.status = "raised"
        BY <2>2 DEF Reply, Refused, registervars
      <3> QED BY <3>1, KeptAsAsked
    <2> QED BY <1>3, <1>4, <2>1, <2>2, FunctionIs
  <1>5. ~BusTransfer /\ ~BusAddress /\ ~BusDirection /\ ~BusBitrate /\ ~BusMode
    <2>1. kind # "i2c" /\ kind # "spi" /\ kind # "parallel"
      BY <1>1 DEF Modbus
    <2>2. ~BusTransfer
      BY <2>1, Zenon DEF BusTransfer, I2cRead, I2cWrite, SpiRead, SpiWrite, SpiWriteAndRead,
                         PpData
    <2>3. ~BusAddress /\ ~BusDirection
      BY <2>1, Zenon DEF BusAddress, BusDirection, SetAddress, SetDirection
    <2>4. ~BusBitrate
      BY <2>1 DEF BusBitrate, SetBitrate
    <2>5. ~BusMode
      BY <2>1, Zenon DEF BusMode, SetMode
    <2> QED BY <2>2, <2>3, <2>4, <2>5
  <1>6. CASE BusTimeout
    <2>1. PICK t \in ModbusTimeouts : SetModbusTimeout(t)
      BY <1>6 DEF BusTimeout
    <2>2. UNCHANGED regs /\ answer'.op = "timeout"
      <3>1. CASE Reply(Raised("timeout"))
        BY <3>1 DEF Reply, Raised, registervars
      <3>2. CASE /\ answer' = [op |-> "timeout", status |-> "ok"]
                 /\ UNCHANGED <<kind, open, regs, late, wordorder, request, guessed>>
        BY <3>2
      <3> QED BY <2>1, <3>1, <3>2 DEF SetModbusTimeout
    <2> QED BY <2>2, KeptAsAsked
  <1>7. CASE BusOrder
    <2>1. UNCHANGED regs /\ answer'.op = "wordorder"
      BY <1>7 DEF BusOrder, SetWordOrder
    <2> QED BY <2>1, KeptAsAsked
  \* Another master's write is no answer to the program.
  <1>8. CASE BusOther
    <2>1. answer'.op = "none"
      BY <1>8 DEF BusOther, OtherMaster, None
    <2> QED BY <2>1 DEF AsAsked, ServerAsked, ElementsAsked, MaskAsked
  <1>9. CASE ModbusFlush
    <2>1. UNCHANGED regs /\ answer'.op = "flush"
      BY <1>9 DEF ModbusFlush
    <2> QED BY <2>1, KeptAsAsked
  <1>10. CASE RegisterClose
    <2>1. UNCHANGED regs /\ answer'.op = "close"
      BY <1>10 DEF RegisterClose, registervars
    <2> QED BY <2>1, KeptAsAsked
  <1> QED BY <1>3, <1>4, <1>5, <1>6, <1>7, <1>8, <1>9, <1>10, RegisterSteps, Zenon
          DEF BusSetting

\* A modbus call reads and writes the server it names, whatever calls failed before, a read
\* returns its registers in word order, and maskWrite changes the one register to what it
\* held, masked (@octave_modbus/read.m, write.m, writeRead.m and maskWrite.m).  Of a
\* little-endian computer: on another the word order "little-endian" has no effect, for
\* @octave_modbus/read.m:123 misspells it.
THEOREM ModbusAsAsked ==
  ASSUME HostOrder = "L"
  PROVE  Spec => RegistersAsAsked
  <1>1. IInv /\ [Next]_vars => [AsAsked]_vars
    BY StepAsAsked
  <1> QED BY <1>1, InductiveInvariant, PTL
          DEF Spec, RegistersAsAsked, AsAsked, ServerAsked, ElementsAsked, MaskAsked

=============================================================================
