------------------------------ MODULE Registers ------------------------------
(***************************************************************************)
(* The interfaces whose object keeps a copy of what the bus uses: the      *)
(* server id of modbus, the slave address of i2c, the mode of spi, the     *)
(* direction of the parallel port.  Of the modbus devices the holding      *)
(* registers are modelled; coils and inputs take the same path.  A         *)
(* register is a set of bits.                                              *)
(***************************************************************************)
EXTENDS Instrument, Integers, SequencesExt

CONSTANTS
  Servers,        \* server ids of the modbus devices
  Bits,           \* the bits of a register
  LastRegister,   \* their holding registers are 0 .. LastRegister
  Masks,          \* masks given to maskWrite
  ModbusTimeouts, \* seconds given to the Timeout property
  MaxLate,        \* bound: late answers on a serial line
  Addresses,      \* addresses given to i2c_addr
  HostOrder       \* byte order of the computer: "L" or "B"

ASSUME RegisterAssumption ==
  /\ LastRegister \in Nat /\ MaxLate \in Nat /\ 1 \in Servers
  /\ Masks \subseteq SUBSET Bits
  /\ ModbusTimeouts \cup Addresses \subseteq Int
  /\ HostOrder \in {"L", "B"}

VARIABLES
  config,         \* the object's copy of each setting
  port,           \* what the library or the driver uses
  regs,           \* regs[s][a]: holding register a of server s
  late,           \* modbus answers on their way when nobody waits: [server, words]
  wordorder,      \* octave_modbus::wordorder
  request,        \* the maskWrite that is between its two transactions; (history) wanted,
                  \* documented: what the register should become, by the code and by its help
  guessed         \* (history) spi: the object took mode 0 at open, for another one it could
                  \* not read, and has sent no mode since

registervars == <<config, port, regs, late, wordorder, request, guessed>>

Modbus == kind \in {"modbus", "modbus_serial"}
RegisterSet == 0 .. LastRegister
NoRequest == [op |-> "idle"]
Between == request.op = "idle"

Modes == [cpol : BOOLEAN, cpha : BOOLEAN, bitrate : {100000, 500000}]

\* What the settings are when the device is opened.
AtOpen ==
  CASE Modbus -> {[slave |-> -1, timeout |-> 10]}
    [] kind = "i2c" -> {[addr |-> 0]}
    [] kind = "spi" -> Modes
    [] kind = "parallel" -> [dir : {0, 1}]
    [] OTHER -> {[none |-> 0]}

\* octave_spi::open reads the mode and the speed; without them it takes mode 0 and 250000.
SpiOpen ==
  LET mode0 == [port EXCEPT !.cpol = FALSE, !.cpha = FALSE]
      speed == IF port.bitrate < 250000 THEN port.bitrate ELSE 250000 IN
  {[mode EXCEPT !.bitrate = b] : mode \in {port, mode0}, b \in {speed, 250000}}

RegisterInit ==
  /\ port \in AtOpen
  /\ config \in CASE kind = "spi" -> SpiOpen
                  [] kind = "i2c" -> {[addr |-> -1]}
                  [] OTHER -> {port}
  /\ regs = [s \in Servers |-> [a \in RegisterSet |-> {}]]
  /\ late = << >>
  /\ wordorder = "big-endian"
  /\ request = NoRequest
  /\ guessed = (kind = "spi" /\ [config EXCEPT !.bitrate = port.bitrate] # port)

Reply(a) ==
  /\ answer' = a
  /\ UNCHANGED <<kind, open, registervars>>

-----------------------------------------------------------------------------
\* Settings

\* mutant of Setting: the object keeps the value before the driver refuses it.
SettingKeptFirst(op, f, v) ==
  /\ config' = [config EXCEPT ![f] = v]
  /\ \/ port' = port /\ answer' = Raised(op)
     \/ open /\ port' = [port EXCEPT ![f] = v] /\ answer' = [op |-> op, status |-> "ok"]
  /\ UNCHANGED <<kind, open, regs, late, wordorder, request, guessed>>

\* The driver takes a setting and then the object keeps it; or the driver refuses it.
Setting(op, f, v) ==
  \/ Reply(Raised(op))
  \/ /\ open
     /\ port' = [port EXCEPT ![f] = v]
     /\ config' = [config EXCEPT ![f] = v]
     /\ answer' = [op |-> op, status |-> "ok"]
     /\ UNCHANGED <<kind, open, regs, late, wordorder, request, guessed>>

\* i2c_addr
SetAddress(a) == kind = "i2c" /\ Setting("addr", "addr", a)

\* pp_datadir
SetDirection(d) ==
  /\ kind = "parallel"
  /\ IF d \in {0, 1} THEN Setting("datadir", "dir", d) ELSE Reply(Raised("datadir"))

SetBitrate(b) == kind = "spi" /\ Setting("bitrate", "bitrate", b)

\* octave_spi::set_clockpolarity and set_clockphase send the whole mode, made of the
\* object's copy; a word they do not know changes nothing in it and it is sent all the same.
SetMode(f, known, v) ==
  LET mode == IF known THEN [config EXCEPT ![f] = v] ELSE config IN
  /\ kind = "spi"
  /\ \/ Reply(Raised("mode"))
     \/ /\ open
        /\ port' = [mode EXCEPT !.bitrate = port.bitrate]
        /\ config' = mode
        /\ guessed' = FALSE
        /\ answer' = [op |-> "mode", status |-> "ok"]
        /\ UNCHANGED <<kind, open, regs, late, wordorder, request>>

\* octave_modbus::set_timeout takes no notice of what the library makes of it, which
\* refuses anything that is not positive.
SetModbusTimeout(t) ==
  /\ Modbus /\ Between
  /\ IF ~open \/ t < -1 THEN Reply(Raised("timeout"))
     ELSE /\ config' = [config EXCEPT !.timeout = t]
          /\ port' = IF t > 0 THEN [port EXCEPT !.timeout = t] ELSE port
          /\ answer' = [op |-> "timeout", status |-> "ok"]
          /\ UNCHANGED <<kind, open, regs, late, wordorder, request, guessed>>

SetWordOrder(order) ==
  /\ Modbus /\ Between
  /\ wordorder' = order
  /\ answer' = [op |-> "wordorder", status |-> "ok"]
  /\ UNCHANGED <<kind, open, config, port, regs, late, request, guessed>>

-----------------------------------------------------------------------------
\* Transfers of i2c, spi and the parallel port

\* What the driver goes by: its own settings, except that spi sends its speed along.
InUse == IF kind = "spi" THEN [port EXCEPT !.bitrate = config.bitrate] ELSE port

Transfer(op) ==
  \/ Reply(Raised(op))
  \/ open /\ Reply([op |-> op, status |-> "ok", uses |-> InUse])

I2cRead == kind = "i2c" /\ Transfer("i2c_read")
I2cWrite == kind = "i2c" /\ Transfer("i2c_write")
SpiRead == kind = "spi" /\ Transfer("spi_read")
SpiWrite == kind = "spi" /\ Transfer("spi_write")
SpiWriteAndRead == kind = "spi" /\ Transfer("spi_writeAndRead")

\* pp_data, which drives or reads the lines whatever the direction is; pp_ctrl and pp_stat
\* have a direction of their own.
PpData == kind = "parallel" /\ Transfer("pp_data")

-----------------------------------------------------------------------------
\* Transactions of modbus

Overlay(old, a, words) ==
  [b \in RegisterSet |-> IF b - a + 1 \in 1 .. Len(words) THEN words[b - a + 1] ELSE old[b]]

Words(contents, a, n) == [k \in 1 .. n |-> contents[a + k - 1]]

\* The server id is given to the library when it is not the one it has.
Select(s) ==
  IF s = config.slave THEN UNCHANGED <<config, port>>
  ELSE /\ config' = [config EXCEPT !.slave = s]
       /\ port' = [port EXCEPT !.slave = s]

Refused(op, s) == [op |-> op, status |-> "raised", server |-> s]

\* The library refuses the server id, or the object is closed.
NotSelected(op, s) == Reply(Refused(op, s))

GiveUp(op, s) == answer' = Refused(op, s) /\ request' = NoRequest

Swap(e) == Reverse(e)

\* The elements of the answer, least significant word first as the host wants them.
Elements(words, t) ==
  LET element(j) == SubSeq(words, (j - 1) * t + 1, j * t)
      swaps == t > 1 /\ wordorder = "big-endian" /\ HostOrder = "L" IN
  [j \in 1 .. (Len(words) \div t) |-> IF swaps THEN Swap(element(j)) ELSE element(j)]

\* What a function does with the words of the answer to its request q.
Answered(q, words) ==
  \/ /\ q.op = "read"
     /\ answer' = [op |-> "read", status |-> "ok", server |-> q.server, addr |-> q.from,
                   tosize |-> q.tosize, data |-> Elements(words, q.tosize)]
     /\ request' = NoRequest
  \/ /\ q.op = "maskWrite" /\ Between
     /\ LET held == regs[q.server][q.from] IN
        request' = [op |-> "maskWrite", server |-> q.server, addr |-> q.from,
                    value |-> (words[1] \cap q.and) \cup q.or,
                    wanted |-> (held \cap q.and) \cup q.or,
                    documented |-> (held \cap q.and) \cup (q.or \ q.and),
                    trusted |-> late = << >>]
     /\ answer' = None
  \/ /\ q.op \in {"write", "writeRead"} \/ ~Between
     /\ answer' = [op |-> q.op, status |-> "ok", server |-> q.server, data |-> words]
     /\ request' = NoRequest

\* Request q: write q.words at q.at and read q.n registers from q.from.  The request may get
\* lost, and its answer too.  On a serial line an answer nobody waits for any more is taken
\* for the answer to a later request; TCP answers carry a number.
Transaction(q) ==
  /\ open
  /\ Select(q.server)
  /\ \E executed \in BOOLEAN :
       LET r == port'.slave
           after == Overlay(regs[r], q.at, q.words)
           wire == IF executed
                   THEN Append(late, [server |-> r, words |-> Words(after, q.from, q.n)])
                   ELSE late IN
       /\ regs' = IF executed THEN [regs EXCEPT ![r] = after] ELSE regs
       /\ \/ /\ late' = IF kind = "modbus_serial" THEN wire ELSE << >>
             /\ Len(late') <= MaxLate
             /\ GiveUp(q.op, q.server)
          \/ /\ wire # << >>
             /\ late' = Tail(wire)
             /\ IF Head(wire).server = r /\ Len(Head(wire).words) = q.n
                THEN Answered(q, Head(wire).words) ELSE GiveUp(q.op, q.server)
  /\ UNCHANGED <<kind, open, wordorder, guessed>>

Request(q) == Transaction(q) \/ NotSelected(q.op, q.server)

\* @octave_modbus/read.m: count elements of t registers each.
ReadRegisters(s, a, count, t) ==
  /\ Modbus /\ Between
  /\ a + count * t - 1 <= LastRegister
  /\ Request([op |-> "read", server |-> s, at |-> 0, words |-> << >>, from |-> a,
              n |-> count * t, tosize |-> t])

\* @octave_modbus/write.m; for 64-bit precisions it refers to a variable it never set.
WriteRegister(s, a, v, precision) ==
  /\ Modbus /\ Between
  /\ IF precision = 64 THEN Reply(Refused("write", s))
     ELSE Request([op |-> "write", server |-> s, at |-> a, words |-> <<v>>, from |-> 0, n |-> 0])

\* @octave_modbus/writeRead.m; the form with precisions has no room for a server id.
WriteReadRegisters(id, w, v, a, precisions) ==
  /\ Modbus /\ Between
  /\ Request([op |-> "writeRead", server |-> IF precisions THEN 1 ELSE id, at |-> w,
              words |-> <<v>>, from |-> a, n |-> 1])

\* @octave_modbus/maskWrite.m reads the register in one transaction ...
MaskRead(s, a, and, or) ==
  /\ Modbus /\ Between
  /\ Request([op |-> "maskWrite", server |-> s, at |-> 0, words |-> << >>, from |-> a,
              n |-> 1, and |-> and, or |-> or])

\* mutant of MaskWrite: the server id is left out of the second call.
MaskWriteToDefault ==
  /\ ~Between
  /\ Transaction([op |-> "maskWrite", server |-> 1, at |-> request.addr,
                  words |-> <<request.value>>, from |-> 0, n |-> 0])

\* ... and writes it back in another.
MaskWrite ==
  /\ ~Between
  /\ Transaction([op |-> "maskWrite", server |-> request.server, at |-> request.addr,
                  words |-> <<request.value>>, from |-> 0, n |-> 0])

\* The flush function of the property dispatcher drops what has arrived.
ModbusFlush ==
  /\ Modbus /\ Between /\ open
  /\ late' = << >>
  /\ answer' = [op |-> "flush", status |-> "ok"]
  /\ UNCHANGED <<kind, open, config, port, regs, wordorder, request, guessed>>

\* Another master writes a register (external).  It has no part in answer, which is reset
\* so that its steps can be told from the program's.
OtherMaster(s, a, v) ==
  /\ Modbus
  /\ regs' = [regs EXCEPT ![s][a] = v]
  /\ answer' = None
  /\ UNCHANGED <<kind, open, config, port, late, wordorder, request, guessed>>

RegisterClose ==
  /\ Between
  /\ open' = FALSE
  /\ answer' = [op |-> "close", status |-> "ok"]
  /\ UNCHANGED <<kind, registervars>>

RegisterNext ==
  \/ \E a \in Addresses : SetAddress(a)
  \/ \E d \in {0, 1, 2} : SetDirection(d)
  \/ \E b \in {100000, 500000} : SetBitrate(b)
  \/ \E f \in {"cpol", "cpha"}, known \in BOOLEAN, v \in BOOLEAN : SetMode(f, known, v)
  \/ \E t \in ModbusTimeouts : SetModbusTimeout(t)
  \/ \E order \in {"big-endian", "little-endian"} : SetWordOrder(order)
  \/ I2cRead \/ I2cWrite \/ SpiRead \/ SpiWrite \/ SpiWriteAndRead \/ PpData
  \/ \E s \in Servers, a \in RegisterSet :
       \/ \E t \in {1, 2} : ReadRegisters(s, a, (LastRegister + 1) \div t, t)
       \/ \E v \in SUBSET Bits :
            \/ \E precision \in {16, 64} : WriteRegister(s, a, v, precision)
            \/ \E precisions \in BOOLEAN : WriteReadRegisters(s, a, v, LastRegister, precisions)
            \/ OtherMaster(s, a, v)
       \/ \E and, or \in Masks : MaskRead(s, a, and, or)
  \/ MaskWrite
  \/ ModbusFlush
  \/ RegisterClose

=============================================================================
