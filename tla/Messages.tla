------------------------------ MODULE Messages ------------------------------
(***************************************************************************)
(* Instruments that talk in messages: vxi11, usbtmc, gpib and visadev.     *)
(* What the device sends is a stream of bytes 1, 2, 3, ...; some of them   *)
(* carry END.  What it receives are the bytes of the program's writes.     *)
(* Of a write only its number and its length matter, and byte i of write w *)
(* is <<w, i>>.                                                            *)
(***************************************************************************)
EXTENDS Instrument, Integers, Sequences

CONSTANTS
  MaxMade,        \* bound: bytes the device sends
  MaxWrites,      \* bound: writes of the program
  Sizes,          \* lengths given to the reads and the writes
  RecvSizes,      \* values of maxRecvSize a VXI-11 device may report
  DefaultChunk,   \* bytes sent at a time to one that reports 0 (4096 in the code)
  ScanSize,       \* what gpib's fscanf asks for at a time (1e6 in the code)
  Word,           \* an unsigned int counts modulo this (2^32 in the code)
  MaxReceived,    \* bound: bytes the device takes
  GpibTimeouts    \* values given to gpib_timeout

ASSUME MessageAssumption ==
  /\ Sizes \cup RecvSizes \cup {MaxMade, MaxWrites, MaxReceived} \subseteq Nat
  /\ {DefaultChunk, ScanSize, Word} \subseteq Nat \ {0}
  /\ \A n \in Sizes : n < Word   \* the length a write is given is an int
  /\ GpibTimeouts \subseteq Int

VARIABLES
  made, ends,     \* the device: how many bytes it has sent, which of them with END
  pos,            \* how many of them have left it
  over,           \* (history) how many of them in answers longer than the latest read asked
  received,       \* what it has received: sequence of [byte, end]
  lengths,        \* the lengths of the writes so far
  recvsize,       \* link->maxRecvSize
  empties,        \* a VXI-11 device answers without data, and no error, while it has none
  tmo,            \* octave_gpib::timeout
  call            \* the running call

devicevars == <<made, ends, pos, over, received>>
messagevars == <<made, ends, pos, over, received, lengths, recvsize, empties, tmo, call>>

\* need: bytes the Octave method still wants; len and chunk: bytes the class was asked for,
\* and has got; got, count: what the method has put together, and counted; left: bytes of a
\* write not yet acknowledged; base: pos when the call began.
Idle == [op |-> "idle", need |-> 0, len |-> 0, chunk |-> << >>, got |-> << >>, count |-> 0,
         left |-> 0, base |-> 0]

Callable == call.op = "idle"

MessageInit ==
  /\ made = 0
  /\ ends = {}
  /\ pos = 0
  /\ over = 0
  /\ received = << >>
  /\ lengths = << >>
  /\ recvsize \in IF kind = "vxi11" THEN RecvSizes ELSE {0}
  /\ empties \in IF kind = "vxi11" THEN BOOLEAN ELSE {FALSE}
  /\ tmo \in IF kind = "gpib" THEN {-1, 11} ELSE {-1}
  /\ call = Idle

Bytes(i, j) == [k \in 1 .. (j - i) |-> i + k]

Smaller(x, y) == IF x <= y THEN x ELSE y

\* The last of the next n bytes carries END.
Ended(n) == n > 0 /\ pos + n \in ends

\* How many bytes a transfer of up to len brings: it stops after one with END, and where
\* the device has nothing more to send.
Ready(len) ==
  CHOOSE n \in 0 .. Smaller(len, made - pos) :
    /\ \A k \in 1 .. (n - 1) : ~Ended(k)
    /\ n \in {len, made - pos} \/ Ended(n)

-----------------------------------------------------------------------------
\* The device (external)

Send(end) ==
  /\ made < MaxMade
  /\ made' = made + 1
  /\ ends' = IF end THEN ends \cup {made + 1} ELSE ends
  /\ UNCHANGED <<kind, open, answer, pos, over, received, lengths, recvsize, empties, tmo, call>>

-----------------------------------------------------------------------------
\* Reads

Tell(a) ==
  /\ answer' = a
  /\ UNCHANGED <<kind, open, messagevars>>

\* vxi11_read, usbtmc_read, gpib_read and the dispatcher's "read"; the fread, fscanf and
\* read methods, which call them for as long as something is missing.
StartRead(op, len) ==
  /\ Callable
  /\ op = "fscanf" => kind = "gpib" /\ len = ScanSize
  /\ \/ ~open /\ Tell(Raised(op))
     \/ /\ open
        /\ over' = 0
        /\ IF op = "fread" /\ len = 0
           THEN /\ answer' = [op |-> op, status |-> "ok", bytes |-> << >>, count |-> 0,
                              last |-> << >>, end |-> FALSE, base |-> pos]
                /\ UNCHANGED call
           ELSE /\ answer' = None
                /\ call' = [Idle EXCEPT !.op = op, !.need = len, !.len = len, !.base = pos]
        /\ UNCHANGED <<kind, open, made, ends, pos, received, lengths, recvsize, empties, tmo>>

Fail ==
  /\ answer' = Raised(call.op)
  /\ call' = Idle

Finish(bytes, count, last, end) ==
  /\ answer' = [op |-> call.op, status |-> "ok", bytes |-> bytes, count |-> count,
                last |-> last, end |-> end, base |-> call.base]
  /\ call' = Idle

\* Values of more than a byte are made of the bytes: it raises an error when they do not make
\* whole ones, and always for visadev, where read.m:110 names a variable nobody has set.
Typecast(bytes, count, last, end) == Finish(bytes, count, last, end) \/ Fail

\* mutant of FreadLoop: the loop is over before the last chunk is put to the others.
FreadLoopDropsLast(b) ==
  LET need == call.need - Len(b) IN
  IF b = << >> \/ need = 0 THEN Typecast(call.got, Len(call.got), b, FALSE)
  ELSE /\ call' = [call EXCEPT !.got = @ \o b, !.need = need, !.len = need, !.chunk = << >>]
       /\ UNCHANGED answer

\* The loop of the fread methods of vxi11, usbtmc and visadev has got b from the class.
FreadLoop(b) ==
  LET got == call.got \o b
      need == call.need - Len(b) IN
  IF b = << >> \/ need = 0 THEN Typecast(got, Len(got), b, FALSE)
  ELSE /\ call' = [call EXCEPT !.got = got, !.need = need, !.len = need, !.chunk = << >>,
                               !.count = Len(got)]
       /\ UNCHANGED answer

\* @octave_gpib/fread.m: what is read with END is counted and left out.
GpibFreadLoop(b, end) ==
  LET count == call.count + Len(b)
      need == call.need - Len(b) IN
  IF end THEN Typecast(call.got, count, b, TRUE)
  ELSE IF need = 0 THEN Typecast(call.got \o b, count, b, FALSE)
  ELSE /\ call' = [call EXCEPT !.got = call.got \o b, !.need = need, !.len = need,
                               !.count = count]
       /\ UNCHANGED answer

\* @octave_gpib/fscanf.m: what is read without END is left out.
FscanfLoop(b, end) ==
  LET used == IF end THEN b ELSE << >> IN Finish(used, Len(used), b, end)

\* The class's read is over: it has b.
ReadReturns(b, end) ==
  IF call.op = "read" THEN Finish(b, Len(b), b, end)
  ELSE IF call.op = "fscanf" THEN FscanfLoop(b, end)
  ELSE IF kind = "gpib" THEN GpibFreadLoop(b, end)
  ELSE FreadLoop(b)

\* mutant of Vxi11Read: the error code of the answer is not looked at.
Vxi11ReadNoError ==
  LET room == call.len - Len(call.chunk) IN
  /\ kind = "vxi11"
  /\ \E most \in {room, made - pos} :
       LET n == Ready(most)
           counted == IF n <= room THEN n ELSE 0
           chunk == call.chunk \o Bytes(pos, pos + counted) IN
       /\ pos' = pos + n
       /\ over' = over + n - counted
       /\ IF Ended(n) THEN ReadReturns(chunk, TRUE)
          ELSE IF Len(chunk) = call.len THEN Fail
          ELSE call' = [call EXCEPT !.chunk = chunk] /\ UNCHANGED answer

\* One device_read of vxi11's loop.  A device may send more than it was asked for: such an
\* answer is not counted, but its END is heeded.  One with nothing to send lets its time run
\* out, which is an error, or answers without data and is asked again.  The read must end
\* in END before the buffer is full.
Vxi11Read ==
  LET room == call.len - Len(call.chunk) IN
  /\ kind = "vxi11"
  /\ \E most \in {room, made - pos} :
       LET n == Ready(most)
           counted == IF n <= room THEN n ELSE 0
           chunk == call.chunk \o Bytes(pos, pos + counted) IN
       /\ pos' = pos + n
       /\ over' = over + n - counted
       /\ IF Ended(n) THEN ReadReturns(chunk, TRUE)
          ELSE IF Len(chunk) = call.len \/ (n = 0 /\ ~empties) THEN Fail
          ELSE call' = [call EXCEPT !.chunk = chunk] /\ UNCHANGED answer

\* ::read on the usbtmc device: nothing in time raises, an empty transfer does not.
UsbtmcRead ==
  LET n == Ready(call.len) IN
  /\ kind = "usbtmc"
  /\ pos' = pos + n /\ UNCHANGED over
  /\ \/ ReadReturns(Bytes(pos, pos + n), FALSE)
     \/ n = 0 /\ call.len > 0 /\ Fail

\* viRead: what it has when the time is over is lost with the error.
VisaRead ==
  LET n == Ready(call.len) IN
  /\ kind = "visadev"
  /\ pos' = pos + n /\ UNCHANGED over
  /\ IF n = call.len \/ Ended(n) THEN ReadReturns(Bytes(pos, pos + n), FALSE) ELSE Fail

\* ibrd: when the time is over there is a warning, and what has been read.
GpibRead ==
  LET n == Ready(call.len) IN
  /\ kind = "gpib"
  /\ pos' = pos + n /\ UNCHANGED over
  /\ ReadReturns(Bytes(pos, pos + n), Ended(n))

\* The device answers the transfer that is under way, or its time is over.
ReadLoop ==
  /\ call.op \in {"read", "fread", "fscanf"}
  /\ Vxi11Read \/ UsbtmcRead \/ VisaRead \/ GpibRead
  /\ UNCHANGED <<kind, open, made, ends, received, lengths, recvsize, empties, tmo>>

\* The transfer fails for another reason, and what was read so far is lost.
ReadFails ==
  /\ call.op \in {"read", "fread", "fscanf"}
  /\ Fail
  /\ UNCHANGED <<kind, open, devicevars, lengths, recvsize, empties, tmo>>

-----------------------------------------------------------------------------
\* Writes

Byte(i, end) == [byte |-> <<Len(lengths), i>>, end |-> end]

\* The device takes bytes i+1 .. j of the latest write, END with the last if so told.
Takes(i, j, end) ==
  received' = received \o [k \in 1 .. (j - i) |-> Byte(i + k, end /\ k = j - i)]

StartWrite(len) ==
  /\ Callable /\ len > 0
  /\ Len(lengths) < MaxWrites
  /\ IF ~open THEN Tell(Raised("write"))
     ELSE /\ lengths' = Append(lengths, len)
          /\ call' = [Idle EXCEPT !.op = "write", !.len = len, !.left = len]
          /\ answer' = None
          /\ UNCHANGED <<kind, open, devicevars, recvsize, empties, tmo>>

Wrote == [op |-> "write", status |-> "ok", write |-> Len(lengths)]

\* mutant of AllLeft: END is left to one more chunk.
NotQuiteFull(left) == left < recvsize

\* END goes with the chunk that holds all that is left.
AllLeft(left) == left <= recvsize

ChunkLength(left) ==
  CASE AllLeft(left) -> left
    [] ~AllLeft(left) /\ recvsize > 0 -> recvsize
    [] OTHER -> DefaultChunk

\* One device_write of vxi11's loop: the device may take less than it is sent.
Vxi11Write ==
  LET length == ChunkLength(call.left)
      from == (call.len - call.left) % Word IN
  /\ kind = "vxi11"
  /\ \E n \in 1 .. length :
       LET left == (call.left - n) % Word IN
       /\ Takes(from, from + n, AllLeft(call.left) /\ n = length)
       /\ IF left = 0 THEN answer' = Wrote /\ call' = Idle
          ELSE call' = [call EXCEPT !.left = left] /\ UNCHANGED answer

\* The other three hand the driver everything at once, and the driver sets END.  gpib
\* raises no error when nobody listens.
DriverWrite ==
  /\ kind # "vxi11"
  /\ \/ Takes(0, call.len, TRUE)
     \/ kind = "gpib" /\ UNCHANGED received
  /\ answer' = Wrote
  /\ call' = Idle

WriteLoop ==
  /\ call.op = "write"
  /\ Vxi11Write \/ DriverWrite
  /\ Len(received') <= MaxReceived
  /\ UNCHANGED <<kind, open, made, ends, pos, over, lengths, recvsize, empties, tmo>>

\* The write is refused or breaks off; the driver may have sent a part.
WriteFails ==
  /\ call.op = "write"
  /\ IF kind = "vxi11" THEN UNCHANGED received
     ELSE \E n \in 0 .. (call.len - 1) : Takes(0, n, FALSE)
  /\ Fail
  /\ UNCHANGED <<kind, open, made, ends, pos, over, lengths, recvsize, empties, tmo>>

\* @octave_usbtmc/fwrite.m calls vxi11_write, which refuses the object.
UsbtmcFwrite ==
  /\ Callable /\ kind = "usbtmc"
  /\ Tell(Raised("fwrite"))

-----------------------------------------------------------------------------
\* gpib only

\* __gpib_spoll__ and __gpib_trigger__
Poll(op) ==
  /\ Callable /\ kind = "gpib"
  /\ \/ Tell(Raised(op))
     \/ open /\ Tell([op |-> op, status |-> "ok"])

\* __gpib_clrdevice__: the device forgets what it had to send.
ClearDevice ==
  /\ Callable /\ kind = "gpib"
  /\ \/ Tell(Raised("clear"))
     \/ /\ open
        /\ pos' = made
        /\ answer' = [op |-> "clear", status |-> "ok"]
        /\ UNCHANGED <<kind, open, made, ends, over, received, lengths, recvsize, empties, tmo,
                       call>>

\* octave_gpib::set_timeout looks at the timeout there is, not at the new one.
GpibTimeout(t) ==
  /\ Callable /\ kind = "gpib"
  /\ IF ~open \/ tmo \notin 0 .. 17 THEN Tell(Raised("timeout"))
     ELSE /\ tmo' = t
          /\ answer' = [op |-> "timeout", status |-> "ok"]
          /\ UNCHANGED <<kind, open, devicevars, lengths, recvsize, empties, call>>

MessageClose ==
  /\ Callable
  /\ open' = FALSE
  /\ answer' = [op |-> "close", status |-> "ok"]
  /\ UNCHANGED <<kind, messagevars>>

MessageNext ==
  \/ \E end \in BOOLEAN : Send(end)
  \/ \E op \in {"read", "fread", "fscanf"}, len \in Sizes \cup {ScanSize} : StartRead(op, len)
  \/ ReadLoop \/ ReadFails
  \/ \E len \in Sizes : StartWrite(len)
  \/ WriteLoop \/ WriteFails \/ UsbtmcFwrite
  \/ \E op \in {"spoll", "trigger"} : Poll(op)
  \/ ClearDevice
  \/ \E t \in GpibTimeouts : GpibTimeout(t)
  \/ MessageClose

=============================================================================
