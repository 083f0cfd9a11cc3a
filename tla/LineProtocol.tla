---------------------------- MODULE LineProtocol ----------------------------
(***************************************************************************)
(* The functions every interface shares: writeread, readline, readbinblock *)
(* and the format of writebinblock (inst/*.m).  They run over the read of  *)
(* an interface, which is a byte stream with a timeout: a read of n bytes  *)
(* returns n, or those that are there when its timeout is over.  The       *)
(* device answers each command once, as late as it likes.                  *)
(***************************************************************************)
EXTENDS Integers, Sequences, SequencesExt

CONSTANTS
  Terminator,    \* what ends a line: one byte or two
  Texts,         \* the texts a device answers with, terminator excluded
  Blocks,        \* the data of the blocks it answers with
  Noise,         \* what it may send before a block
  MaxCommands    \* bound: commands the program sends

Byte == 0 .. 255
Newline == 10
Hash == 35
Zero == 48
Digit == Zero .. (Zero + 9)

\* index (data, t): where t begins in data, 0 if it does not occur.
Index(data, t) ==
  LET At == {i \in 1 .. (Len(data) - Len(t) + 1) : SubSeq(data, i, i + Len(t) - 1) = t}
  IN IF At = {} THEN 0 ELSE CHOOSE i \in At : \A j \in At : i <= j

BlockLimit == 1000000000   \* a header has one digit for how many digits a size has

ASSUME TerminatorAssumption == Terminator \in Seq(Byte) /\ Terminator # << >>
ASSUME ReplyAssumption ==
  /\ \A t \in Texts : t \in Seq(Byte) /\ Index(t \o Terminator, Terminator) = Len(t) + 1
  /\ \A v \in Blocks : v \in Seq(Byte) /\ Len(v) < BlockLimit
  /\ \A n \in Noise : n \in Seq(Byte) /\ Index(n, <<Hash>>) = 0
  /\ MaxCommands \in Nat

VARIABLES
  \* the carrier, a ByteStream
  sent,          \* bytes that have arrived from the device
  mark,          \* bytes that reads have consumed
  last,          \* the answer to the latest read
  \* the device
  content,       \* all it has sent, arrived or still under way
  asked,         \* the commands it was sent: a line or a block is the answer
  replies,       \* its answers
  \* the running function
  call,          \* its local variables
  result         \* what the latest one told the program

devvars == <<content, asked, replies>>
callvars == <<call, result>>
vars == <<sent, mark, last, content, asked, replies, call, result>>

Device == "device"
Carrier == INSTANCE ByteStream WITH Source <- {Device}

-----------------------------------------------------------------------------
\* Values

\* num2str of a size, and str2num of its digits.
Digits[n \in Nat] ==
  IF n < 10 THEN <<Zero + n>> ELSE Append(Digits[n \div 10], Zero + (n % 10))
Number(ds) == FoldLeft(LAMBDA n, c : 10 * n + (c - Zero), 0, ds)

\* writebinblock: the header "#", how many digits, the digits of the size; the data;
\* a newline.
Encode(data) ==
  LET size == Digits[Len(data)]
  IN <<Hash, Zero + Len(size)>> \o size \o data \o <<Newline>>

\* The bytes a device may send in answer to a command of kind k with value v.
Answers(k, v) ==
  IF k = "line" THEN {v \o Terminator} ELSE {n \o Encode(v) : n \in Noise}

Values(k) == IF k = "line" THEN Texts ELSE Blocks

Available == sent[Device] - mark[Device]

\* Nothing is unread and no answer is owed.
Synced == mark[Device] = Len(content) /\ Len(asked) = Len(replies)

IdleCall ==
  [op |-> "idle", phase |-> "none", want |-> 0, data |-> << >>, size |-> << >>, len |-> 0,
   late |-> FALSE, fresh |-> FALSE, start |-> 0]

NoResult ==
  [op |-> "none", status |-> "none", value |-> << >>, whole |-> FALSE, late |-> FALSE,
   fresh |-> FALSE, start |-> 0, command |-> 0]

Init ==
  /\ Carrier!Init
  /\ content = << >>
  /\ asked = << >>
  /\ replies = << >>
  /\ call = IdleCall
  /\ result = NoResult

-----------------------------------------------------------------------------
\* The device and the carrier (external)

\* The device answers the oldest command it has not answered yet.
Reply ==
  /\ Len(replies) < Len(asked)
  /\ LET kind == asked[Len(replies) + 1]
     IN \E v \in Values(kind) : \E bytes \in Answers(kind, v) :
          /\ replies' = Append(replies, v)
          /\ content' = content \o bytes
  /\ UNCHANGED <<sent, mark, last, asked, callvars>>

\* A byte arrives.
Arrive ==
  /\ sent[Device] < Len(content)
  /\ sent' = [sent EXCEPT ![Device] = @ + 1]
  /\ Carrier!Emit(Device)
  /\ UNCHANGED <<devvars, callvars>>

-----------------------------------------------------------------------------
\* Starting

Callable == call.op = "idle"

\* mutant of Start: readline reads as many bytes as the terminator has and one more.
StartFar(kind, fresh) ==
  /\ call' = [IdleCall EXCEPT !.op = kind,
                              !.phase = IF kind = "line" THEN "none" ELSE "scan",
                              !.want = IF kind = "line" THEN Len(Terminator) + 1 ELSE 1,
                              !.fresh = fresh, !.start = mark[Device]]
  /\ result' = NoResult
  /\ UNCHANGED <<sent, mark, last, content, replies>>

\* readline first reads as many bytes as the terminator has, readbinblock one.
Start(kind, fresh) ==
  /\ call' = [IdleCall EXCEPT !.op = kind,
                              !.phase = IF kind = "line" THEN "none" ELSE "scan",
                              !.want = IF kind = "line" THEN Len(Terminator) ELSE 1,
                              !.fresh = fresh, !.start = mark[Device]]
  /\ result' = NoResult
  /\ UNCHANGED <<sent, mark, last, content, replies>>

\* writeread (dev, cmd), or writeline and then readbinblock.
WriteRead(kind) ==
  /\ Callable
  /\ Len(asked) < MaxCommands
  /\ asked' = Append(asked, kind)
  /\ Start(kind, Synced)

\* readline or readbinblock without a new command.
ReadMore(kind) ==
  /\ Callable
  /\ Start(kind, FALSE)
  /\ UNCHANGED asked

\* flushinput: what has arrived is dropped.
FlushInput ==
  /\ Callable
  /\ Carrier!Drop(Device, sent[Device], "flushed")
  /\ result' = NoResult
  /\ UNCHANGED <<devvars, call>>

-----------------------------------------------------------------------------
\* Reading

Finish(status, value, whole, late) ==
  /\ result' = [op |-> call.op, status |-> status, value |-> value, whole |-> whole,
                late |-> late, fresh |-> call.fresh, start |-> call.start,
                command |-> Len(asked)]
  /\ call' = IdleCall

\* The function goes on in phase p and reads n bytes next.
GoOn(p, n, late) ==
  /\ call' = [call EXCEPT !.phase = p, !.want = n, !.late = late]
  /\ UNCHANGED result

\* mutant of LineBytes: a line is complete with the first byte of its terminator.
LineBytesFirst(b, late) ==
  LET data == call.data \o b
      end == Index(data, <<Terminator[1]>>)
  IN \/ /\ b = << >>
        /\ Finish("ok", call.data, FALSE, late)
     \/ /\ b # << >>
        /\ end > 0
        /\ Finish("ok", SubSeq(data, 1, end - 1), TRUE, late)
     \/ /\ b # << >>
        /\ end = 0
        /\ call' = [call EXCEPT !.data = data, !.want = 1, !.late = late]
        /\ UNCHANGED result

\* readline: nothing more came, so what there is is returned; or the terminator is
\* found; or it takes another byte.
LineBytes(b, late) ==
  LET data == call.data \o b
      end == Index(data, Terminator)
  IN \/ /\ b = << >>
        /\ Finish("ok", call.data, FALSE, late)
     \/ /\ b # << >>
        /\ end > 0
        /\ Finish("ok", SubSeq(data, 1, end - 1), TRUE, late)
     \/ /\ b # << >>
        /\ end = 0
        /\ call' = [call EXCEPT !.data = data, !.want = 1, !.late = late]
        /\ UNCHANGED result

\* readbinblock without a size (an empty str2num): read raises (fread of the older
\* interfaces), or returns nothing and the end byte is read next.
NoSize(late) ==
  \/ Finish("error", << >>, FALSE, late)
  \/ GoOn("end", 1, late)

\* readbinblock skips what comes before "#"; nothing came: no block.
ScanBytes(b, late) ==
  \/ /\ b = << >>
     /\ Finish("ok", << >>, FALSE, late)
  \/ /\ b = <<Hash>>
     /\ GoOn("digit", 1, late)
  \/ /\ b \notin {<< >>, <<Hash>>}
     /\ GoOn("scan", 1, late)

\* The number of digits of the size.
DigitBytes(b, late) ==
  \/ /\ b = << >>
     /\ Finish("ok", << >>, FALSE, late)
  \/ /\ b # << >>
     /\ b[1] \in Digit \ {Zero}
     /\ GoOn("size", b[1] - Zero, late)
  \/ /\ b # << >>
     /\ b[1] \notin Digit \ {Zero}
     /\ NoSize(late)

\* mutant of SizeBytes: the digits are taken in one read.
SizeBytesOnce(b, late) ==
  \/ /\ b = << >>
     /\ Finish("ok", << >>, FALSE, late)
  \/ /\ b # << >>
     /\ \A i \in DOMAIN b : b[i] \in Digit
     /\ call' = [call EXCEPT !.phase = "data", !.want = Number(b), !.len = Number(b),
                             !.late = late]
     /\ UNCHANGED result
  \/ /\ \E i \in DOMAIN b : b[i] \notin Digit
     /\ NoSize(late)

\* The digits of the size, in as many reads as it takes.
SizeBytes(b, late) ==
  LET size == call.size \o b
  IN \/ /\ b = << >>
        /\ Finish("ok", << >>, FALSE, late)
     \/ /\ b # << >>
        /\ Len(b) < call.want
        /\ call' = [call EXCEPT !.size = size, !.want = @ - Len(b), !.late = late]
        /\ UNCHANGED result
     \/ /\ Len(b) = call.want
        /\ \A i \in DOMAIN size : size[i] \in Digit
        /\ call' = [call EXCEPT !.phase = "data", !.size = size, !.want = Number(size),
                                !.len = Number(size), !.late = late]
        /\ UNCHANGED result
     \/ /\ Len(b) = call.want
        /\ \E i \in DOMAIN size : size[i] \notin Digit
        /\ NoSize(late)

\* mutant of DataBytes: the loop ends only when all the data is there.
DataBytesAll(b, late) ==
  LET data == call.data \o b
  IN /\ IF Len(data) < call.len
        THEN call' = [call EXCEPT !.data = data, !.want = call.len - Len(data),
                                  !.late = late]
        ELSE call' = [call EXCEPT !.phase = "end", !.data = data, !.want = 1,
                                  !.late = late]
     /\ UNCHANGED result

\* The data, until it is all there or nothing more comes.
DataBytes(b, late) ==
  LET data == call.data \o b
  IN /\ IF b # << >> /\ Len(data) < call.len
        THEN call' = [call EXCEPT !.data = data, !.want = call.len - Len(data),
                                  !.late = late]
        ELSE call' = [call EXCEPT !.phase = "end", !.data = data, !.want = 1,
                                  !.late = late]
     /\ UNCHANGED result

\* The end byte: anything but a newline fails the assertion.
EndBytes(b, late) ==
  \/ /\ b = <<Newline>>
     /\ Finish("ok", call.data, TRUE, late)
  \/ /\ b # <<Newline>>
     /\ Finish("error", << >>, FALSE, late)

\* A read returns b.
Use(b) ==
  LET late == call.late \/ Len(b) < call.want
  IN \/ call.op = "line" /\ LineBytes(b, late)
     \/ call.phase = "scan" /\ ScanBytes(b, late)
     \/ call.phase = "digit" /\ DigitBytes(b, late)
     \/ call.phase = "size" /\ SizeBytes(b, late)
     \/ call.phase = "data" /\ DataBytes(b, late)
     \/ call.phase = "end" /\ EndBytes(b, late)

\* One read: what it asked for, or what is there when its timeout is over.
ReadStep ==
  /\ call.op # "idle"
  /\ LET i == mark[Device]
         k == IF call.want <= Available THEN call.want ELSE Available
     IN /\ Carrier!Deliver(Device, i + k)
        /\ Use(SubSeq(content, i + 1, i + k))
  /\ UNCHANGED devvars

\* A read raises (the user interrupts, the connection fails): its bytes are lost.
Interrupt ==
  /\ call.op # "idle"
  /\ \E k \in 0 .. Available :
       /\ k < call.want
       /\ Carrier!Drop(Device, mark[Device] + k, "error")
  /\ Finish("error", << >>, FALSE, call.late)
  /\ UNCHANGED devvars

-----------------------------------------------------------------------------

Next ==
  \/ Reply
  \/ Arrive
  \/ \E kind \in {"line", "block"} : WriteRead(kind) \/ ReadMore(kind)
  \/ FlushInput
  \/ ReadStep
  \/ Interrupt

Spec == Init /\ [][Next]_vars

\* Reads return: the timeout of the interface is not negative.
FairSpec == Spec /\ WF_vars(ReadStep)

-----------------------------------------------------------------------------
\* Properties

\* Whatever went wrong before, a line that readline found the terminator of is what
\* was read since it began, up to the first terminator: it takes nothing behind it.
LinesEndAtTerminator ==
  result.op = "line" /\ result.whole =>
    LET line == SubSeq(content, result.start + 1, mark[Device])
    IN /\ line = result.value \o Terminator
       /\ Index(line, Terminator) = Len(result.value) + 1

\* A writeread that begins with nothing unread and no answer owed gets the answer to
\* its own command if it gets a whole line, and leaves the dialogue in that state.
LinesMatchCommands ==
  result.op = "line" /\ result.fresh /\ result.whole =>
    /\ Len(replies) = result.command
    /\ result.value = replies[result.command]
    /\ Synced

\* A readbinblock after such a beginning returns nothing but the data of the block
\* that answers its command, noise or not; if no read in it came short it returns all
\* of the data and leaves the dialogue in that state.
BlocksMatchCommands ==
  result.op = "block" /\ result.fresh /\ result.status = "ok" =>
    /\ result.value # << >> => /\ Len(replies) = result.command
                               /\ IsPrefix(result.value, replies[result.command])
    /\ ~result.late => result.value = replies[result.command] /\ Synced

\* Each of the functions returns.
CallReturns == call.op # "idle" ~> call.op = "idle"

=============================================================================
