----------------------------- MODULE Instruments -----------------------------
(* The objects that talk to an instrument, one to a behaviour: messages, or    *)
(* registers and settings.                                                     *)
EXTENDS Messages, Registers

vars == <<kind, open, answer, messagevars, registervars>>

Init ==
  /\ kind \in Kinds
  /\ open = TRUE
  /\ answer = None
  /\ MessageInit
  /\ RegisterInit

Next ==
  \/ kind \in MessageKinds /\ MessageNext /\ UNCHANGED registervars
  \/ kind \in BusKinds /\ RegisterNext /\ UNCHANGED messagevars

\* A running read goes on as long as the device or its clock answers; devices, drivers and
\* the program are not fair.
Spec == Init /\ [][Next]_vars /\ WF_vars(ReadLoop /\ UNCHANGED registervars)

-----------------------------------------------------------------------------
(* Properties *)

Reads == {"read", "fread", "fscanf"}
HasRead == kind \in MessageKinds /\ answer.op \in Reads /\ answer.status = "ok"

\* The bytes, in order, are of those after the first i and up to j, and all but lost of them.
AllBut(lost, bytes, i, j) ==
  IF lost = 0 THEN bytes = Bytes(i, j)
  ELSE /\ \A k \in DOMAIN bytes : bytes[k] \in (i + 1) .. j
       /\ \A k \in DOMAIN bytes : k > 1 => bytes[k - 1] < bytes[k]
       /\ Len(bytes) + lost = j - i

\* A read that returns hands over the bytes it took from the device, in order: what is read
\* and not handed over was read by a call that raised an error, or came in an answer that
\* vxi11 does not count because it is longer than what was asked for.  (The gpib methods
\* drop what came with END, fread, and what came without, fscanf.)
LossesRaised ==
  HasRead =>
    CASE kind = "gpib" /\ answer.op = "fread" /\ answer.end ->
           answer.bytes \o answer.last = Bytes(answer.base, pos)
      [] kind = "gpib" /\ answer.op = "fscanf" /\ ~answer.end -> answer.bytes = << >>
      [] OTHER -> AllBut(over, answer.bytes, answer.base, pos)

\* The count fread returns is the number of values it returns.
\* @octave_gpib/fread.m:29 "count values read".
CountIsLength == HasRead => answer.count = Len(answer.bytes)

\* The device finds the writes of the program in what it receives: the bytes of each in
\* order, END with the last byte of a write and with no other, and nothing missing from a
\* write that returned.  (Not on a VXI-11 link that reports a maxRecvSize of 0; and gpib
\* does not report that nobody listens.)
EndsMarkWrites ==
  (kind = "vxi11" => recvsize > 0) =>
    /\ \A i \in DOMAIN received :
         LET w == received[i].byte[1]
             k == received[i].byte[2] IN
         /\ received[i].end <=> k = lengths[w]
         /\ k > 1 => i > 1 /\ received[i - 1].byte = <<w, k - 1>>
    /\ kind \in MessageKinds /\ answer.op = "write" /\ answer.status = "ok" =>
         \/ kind = "gpib" /\ \A i \in DOMAIN received : received[i].byte[1] # answer.write
         \/ /\ received # << >>
            /\ received[Len(received)].end
            /\ received[Len(received)].byte[1] = answer.write

\* A read ends, also when the device falls silent.  Two may not, and have then taken all
\* there is: fread of gpib, which starts again after each timeout, and a read of vxi11 from a
\* device that goes on answering without data.
ReadsReturn ==
  call.op \in Reads ~>
    \/ call.op \notin Reads
    \/ kind = "gpib" /\ call.op = "fread" /\ pos = made
    \/ kind = "vxi11" /\ empties /\ pos = made

\* A transfer goes by what the object says of itself: to the slave address it reports once
\* one has been set, in the mode, at the speed and in the direction it reports.  (spi that
\* could not read the port's mode reports mode 0 until it has set one.)
TransfersAsReported ==
  "uses" \in DOMAIN answer =>
    \/ answer.uses = config
    \/ kind = "i2c" /\ config.addr = -1
    \/ kind = "spi" /\ guessed /\ answer.uses.bitrate = config.bitrate

\* The value of a register as the elements of a read should have it.
Expected(s, a, t, j) ==
  [k \in 1 .. t |->
     IF (wordorder = "big-endian") = (HostOrder = "L")
     THEN regs[s][a + j * t - k] ELSE regs[s][a + (j - 1) * t + k - 1]]

\* A modbus call reads and writes the server it names and no other, whatever calls failed
\* before: a read returns its registers, each element in word order, unless an answer to
\* an earlier request was still on the serial line; maskWrite changes the one register,
\* and to what it held when it was read, masked as the code masks it (MaskAsDocumented
\* says how the help text does).
RegistersAsAsked ==
  [][Modbus =>
      /\ answer'.op \in {"read", "write", "writeRead", "maskWrite"} =>
           \A s \in Servers : regs'[s] # regs[s] => s = answer'.server
      /\ answer'.op = "read" /\ answer'.status = "ok" /\ late = << >> =>
           \A j \in DOMAIN answer'.data :
             answer'.data[j] = Expected(answer'.server, answer'.addr, answer'.tosize, j)
      /\ answer'.op = "maskWrite" /\ ~Between /\ request.trusted =>
           regs' \in {regs, [regs EXCEPT ![request.server][request.addr] = request.wanted]}]_vars

\* maskWrite gives the register the value its help text says.
\* @octave_modbus/maskWrite.m:18 "writeregister value = (readregister value AND andMask) OR
\* (orMask AND (NOT andMask))".
MaskAsDocumented ==
  [][Modbus /\ answer'.op = "maskWrite" /\ ~Between /\ request.trusted =>
      regs' \in {regs, [regs EXCEPT ![request.server][request.addr] = request.documented]}]_vars

=============================================================================
