# Instrument control: specifications, model checking and proofs

TLA+ specifications of GNU Octave's instrument-control package (0.10.0), checked with TLC
and, for the theorems listed below, proved with TLAPS. Paths are relative to the
repository (`src/` is its root).

## The system

The package gives Octave programs objects that stand for a device or a remote host: one
C++ class per interface (`src/src/<interface>/*_class.cc`), loadable functions around it
(`__x_read__`, `__x_write__`, `__x_properties__` and the constructors), and Octave-language
methods on top (`src/inst/@octave_x/*.m`, `src/inst/*.m`).

Octave is single threaded, so one call at a time runs on an object. Concurrency comes from
outside: peers and devices send, close and reset while a call runs; data waits in the
kernel; other masters use the same bus; the user interrupts (`OCTAVE_QUIT`, `EINTR`).
`error ()` throws: the call is over, its locals are gone, what it changed stays changed.

### Inventory

| Component | State it keeps | Operations | Interacts with | What is hard |
|---|---|---|---|---|
| tcpserver | listening socket, one client, address of the last accept, timeout, counters | construct, Connected, read, write, flush, clear | remote peers; kernel queues; `read.m`, `flush.m` | accept when polled only; partial receives; sliced timeouts; end of stream and reset in a read; stale client address |
| udpport | socket, `input_buffer` with a leftover, sender of the last datagram, groups joined, destination | read, write, flush, configureMulticast | senders, kernel queue of datagrams | datagram boundaries against byte reads; empty datagrams; leftover before new data; leaving a group may fail untold |
| tcpclient, tcp | socket, timeout, counters | construct, read, fread, write, flush, close, Timeout | one remote host | end of stream and reset inside a read; loops of `fread` over a read; timeouts in two units |
| udp | as udpport, with `remotehost` and `remoteport` | read, fread, write, flush, setters, close | senders, name lookup | write to a destination calls two setters and undoes them |
| serialport | copy of the termios, timeout, descriptor | line settings, Timeout, read, write, flush, control lines, break | serial driver | `tcsetattr` may refuse; two-flag settings; VTIME steps; reads made of several calls |
| serial | the same, older interface | the same setters, timeout in tenths | serial driver, other programs on the lines | lines written with a read, change, write; timeouts that overflow a short |
| Windows serial ports | copy of the DCB | as serial, serialport | Win32 | the whole DCB is sent; a refused rate stays in the copy; flow control is sent by whatever comes next |
| line and block protocol | none of its own | readline, writeline, writeread, readbinblock, writebinblock, flushinput, flushoutput | read and write of every interface | lines cut by a timeout; stale replies |
| modbus | library context, cached server id, word order | read, write, writeRead, maskWrite, Timeout, flush | modbus library, other masters | read-modify-write; cached server id; late answers on a serial line |
| vxi11 | RPC link, `maxRecvSize` | read, fread, write | RPC server | chunked write, END flag, a device that takes less |
| gpib | interface number, timeout | read, fread, fscanf, write, spoll, trigger, clrdevice | linux-gpib library | timeout as a warning; END inside the loops |
| visadev | library, resource manager, session | read, write, attributes | VISA library | partial reads and writes, steps of open |
| usbtmc | one descriptor | read, fread, write, fwrite | kernel driver | loops over short reads |
| i2c, spi, parallel | one descriptor and a copy of address, mode or direction | read, write, transfers, setters | kernel drivers | the copy against the driver after a refusal |
| every interface | handles, reference count | construct, open, close, destroy | variables of the program | a step of open or a setter that raises; close before clear; shared handles |
| hardware information | none | instrhwinfo, serialportlist, resolvehost | operating system | none |

What makes each component correct:

- **Every stream interface**: a read hands over the bytes that follow those consumed
  before, from one source, without gap, repetition or reordering; bytes vanish only with a
  flush or an error (`ByteStream`). A read waits its timeout and no longer. A read of no
  more than `NumBytesAvailable` does not wait. Flush drops what was there. Reads return.
- **tcpserver**: a live client is never abandoned; a reply goes to whom the request came
  from; the address reported is the client's.
- **udpport**: datagram boundaries are invisible to a byte read; the leftover is the tail
  of the last datagram; the groups stored are those the socket is in, but for those it was
  refused to leave.
- **tcpclient, tcp, udp**: silence is told from the end of the stream; the default, explicit
  and property timeouts all mean what they say; a write that raises leaves later writes going
  where they went, one that does not takes no destination that was not named.
- **serialport, serial, Windows**: each setting reports what was asked for whatever preceded
  it; what the port took stays until its own setter is called, what it refused is reported or
  in force only as far as the copy explains; a control line changes alone, but for what others
  do in between; a read that comes up empty has waited its timeout.
- **line and block protocol**: a whole line ends at its terminator and takes nothing behind
  it; a reply belongs to its command, and a block is the data of one, as long as the dialogue
  was in step; a function comes back although the device stops in the middle.
- **modbus**: the server addressed is the one named; maskWrite changes only its register,
  and to the value its two transactions stand for.
- **vxi11, gpib, usbtmc, visadev**: one write is its bytes in order with one END; what is
  read is handed over or an error is raised; the loops end. (Each with exceptions the code
  makes, which the properties name.)
- **i2c, spi, parallel**: transfers use what the object reports.
- **every interface**: a handle is closed once and by its owner; a constructor or a close
  that raises leaves nothing behind but what is known.

The full list of hazards, each at its line with the properties that cover it or the reason
why none does yet, is `hazards` in `PROJECT.json`.

## Modules

| Module | Models | Kind |
|---|---|---|
| `ByteStream` | what a stream interface promises to the program | abstract specification |
| `TcpServer` | `tcpserver_class.cc`, `tcpserver.cc`, `@octave_tcpserver/{read,flush}.m` | implements `ByteStream` |
| `UdpPort` | the read side and the multicast groups of `udpport_class.cc`, `@octave_udpport/*.m` | implements `ByteStream` |
| `SerialPort` | `serialport_class_lin.cc`, `@octave_serialport/{read,flush}.m` | implements `ByteStream` |
| `Sockets` | reads and writes of `tcpclient`, `tcp` and `udp`, writes of `udpport`: classes, loadable functions, `read.m`, `fread.m`, `write.m` | implements `ByteStream` |
| `LineProtocol` | `readline.m`, `writeread.m`, `readbinblock.m`, `flushinput.m`, the format of `writebinblock.m` | composed with `ByteStream` |
| `Lifecycle` | constructors, open, close, destructors and reference counts of all interfaces | one machine, 18 step lists |
| `SerialLine` | what the three modules below share: port, copy, read loop | base |
| `SerialPosix`, `SerialWindows`, `SerialportWindows` | `serial_class_lin.cc`, `serial_class_win32.cc`, `serialport_class_win32.cc` with their `__*_properties__.cc` | one class each |
| `SerialInterfaces` | the three, on a port with other actors | composition |
| `Instrument` | an open object and its latest answer | base |
| `Messages` | `vxi11`, `usbtmc`, `gpib`, `visadev` | extends `Instrument` |
| `Registers` | `modbus`, `i2c`, `spi`, `parallel` | extends `Instrument` |
| `Instruments` | both | composition |
| `TcpServer_proofs`, `UdpPort_proofs`, `SerialPort_proofs`, `Sockets_proofs`, `SerialInterfaces_proofs`, `Lifecycle_proofs`, `LineProtocol_proofs`, `Instruments_proofs` | proofs for every value of the constants | theorems |
| `MC*` | small instances: timeouts, symmetry, texts | for TLC |

### How state and actions correspond to the code

- A byte is its position in the stream of its source, with the source where there are several, so that loss,
  repetition, reordering and mixing are visible whatever the values of the bytes.
- The kernel's queue is the interval between two counters: bytes arrived and bytes taken.
- `call` holds the arguments and the local variables of the running read or flush, with
  history that no code reads (`waited`, `base`, `avail`); `buf` is its buffer, `result`
  what the latest call told the program.
- One step of a read is one round of its loop: `select` and `recv` (`RecvData`, `RecvEof`,
  `RecvReset`, `SelectExpires`), a copy from `input_buffer` (`CopyLeftover`) or a datagram
  (`ReceiveDatagram`, `ReceiveEmpty`), a `::read` that returns something (`Take`) or
  nothing after VTIME (`Silence`). Between rounds anything may arrive. Calls that meet no
  other actor in the middle (setters, accept, write) are one step.
- `Return` is the way back through `__x_read__` and `read.m`: `typecast` raises when the
  number of bytes is no multiple of the element size, which loses them.
- Time is counted in ticks; a call counts the time of its empty waits (`waited`). Waiting
  without end shows as stuttering: an empty round of a blocking read changes nothing.
- The precision arguments are element sizes; counts come from a small set or, where the
  program gives none, from `NumBytesAvailable`, divided and rounded as `int32` does.
- `tcpserver`: `Construct` is the constructor that comes to its end (`Lifecycle` has the one
  that raises); `Connected` is `subsref`, the only place that accepts.
  A listening socket with a backlog of 1 queues two connections on Linux.
- `udpport`: the one source is the queue of its socket. A datagram lost, duplicated or
  reordered on the network is another choice of what arrives. `multicastaddr` is the list of
  the object, `joined` what the kernel has; leaving a group may be refused, which the code does
  not look at: the history `stuck` has those groups.
- `SerialPort`: `config` is the object's termios, `port` the one in force. `tcsetattr`
  applies all of a change or raises; the latter leaves `config` changed, as the code does.
- `Sockets`: one behaviour has one class. The three read loops are one loop with what differs
  (stream or datagrams, which timeout is passed down, how the method counts and loops) kept
  apart by `class`. `queue` says where each datagram not yet received ends; the growth of
  udp's `input_buffer`, the same code as udpport's, is in `UdpPort`. A write is one byte long.
- `Lifecycle`: one behaviour has one way to open (`Kinds`, 18 of them, serial and TCP modbus
  apart). An open is a list of steps in the order of the code; each passes, obtaining or
  releasing handles, or raises, undoing what the code undoes first. `owner` says for each
  number who really holds it, `object[o].field` what the object believes; closed numbers are
  given out again, the lowest first. The world after `n` steps is a function of `n`
  (`Worlds`), so that it can be proved about. The descriptor of tcpserver's client is in `TcpServer`.
- `SerialLine` and its three classes: `config` is the copy (termios, DCB), `port` what is in
  force. History that no code reads: `asked` and `before`, the last value given to each setter
  and what the port had then, and `fate`, what became of that value: applied, refused, kept
  back (unsent), or dropped when the copy was read anew. A control line is set in two steps,
  `set_control_line` that reads the port and `DriveLine` that writes it, with `driving` the call
  between them and `unseen` what others may have changed since it read; the reading (TIOCMGET,
  GetCommState) may fail, which the code ignores.
  A tick is half a millisecond; reads count the timeout in steps of the port. What the
  floating-point subtraction leaves on Windows is a choice.
- `Messages`: what the device sends are the bytes 1, 2, 3, some with END; what it receives
  are pairs of the number of a write and a position. A VXI-11 device may answer with more than
  it was asked for, which is not counted (`vxi11_class.cc:182`; `over` counts those bytes, and
  what copying them does to the memory behind the buffer is not modelled), or without data
  (`empties`, a device that never lets the time run out). END comes with a byte. `Typecast` is
  the end of the methods that make values of the bytes, which may raise. `Registers`: a register is a set of
  bits; coils, discrete inputs and input registers take the same path as the holding
  registers. Another master acts between the two transactions of `maskWrite`; `request`
  remembers what the register should become by the code (`wanted`) and by the help text
  (`documented`), `guessed` that spi took mode 0 for one it could not read.
- Line protocol: the interface underneath is `ByteStream`, which tcpserver, udpport,
  serialport, tcpclient, tcp and udp are shown to implement: a read is its `Deliver`, an
  interrupted one or a flush its `Drop`. So `LineProtocol` says nothing of sockets or ports,
  and holds for all interfaces that keep the promise. Here a byte has a value (an ASCII code),
  because the functions look at it: `content` is what the device has sent, arrived or not.
  `ReadStep` is one read and what the function does with its bytes; `call.phase` is where in
  `readbinblock` that is. A device answers a command once, at any time, also after the call
  that sent it has given up. `result.fresh` remembers that a call began with nothing unread
  and no answer owed, `result.late` that a read in it came short; no code reads them.
  `str2num` of anything but digits is taken for empty, which is what it gives for the texts of
  the instance.

## Runs

| Run | Question | Properties | Expectation |
|---|---|---|---|
| `tcpserver` | two peers against all operations: stream, clients, replies, waiting, flushing, returning | `NoLiveClientAbandoned`, `ReplyReachesRequester`, `TimeoutExact`, `AvailableNeverWaits`, `ImplementsByteStream`, `FlushDrains`, `TimedReadReturns`, `EofEndsBlockingRead` | passes |
| `tcpserver_address` | is `ClientAddress` that of the client? | `ClientAddressIsClient` | violated |
| `udpport_read` | datagrams of several sizes read in pieces; groups joined and left, or refused either | `LeftoverIsTail`, `MembershipAccounted`, `ImplementsByteStream`, `FlushDrains`, `TimedReadReturns` | passes |
| `serialport_settings` | every order of settings, applied or refused | `SettingsReported`, `PortFollowsObject` | passes |
| `serialport_read` | reads pieced together, every kind of timeout, refused ones too | `SilenceMatchesTimeout`, `AvailableNeverWaits`, `ImplementsByteStream`, `TimedReadReturns` | passes |
| `line_dialogue` | late answers, timeouts, interrupts, flushes: lines and blocks | `LinesEndAtTerminator`, `LinesMatchCommands`, `BlocksMatchCommands`, `CallReturns` | passes |
| `lifecycle` | every step of every open and every setter fails once; objects are shared, closed twice, cleared | `HandlesOwned`, `DestroyedWhenUnreferenced`, `LossesExplained` | passes |
| `serial_interfaces` | setters refused, lines driven by others between reading and writing them, copies not refreshed, parameters that overflow, timeouts on each side of the limits | `TakenSettingsStay`, `EmptyReadWaited`, `OneLineChanges`, `TimedReadsReturn` | passes |
| `sockets` | streams that end or reset, datagrams, every count and timeout, destinations that do not resolve | `ShortReadWaited`, `ImplementsByteStream`, `TimedReadsReturn`, `WritesKeepDestination` | passes |
| `instruments` | messages in chunks, answers too long and empty, early and late END; transactions lost and late; copies against drivers | `LossesRaised`, `EndsMarkWrites`, `TransfersAsReported`, `ReadsReturn`, `RegistersAsAsked` | passes |
| `instruments_fread` | does gpib's `fread` count what it returns? | `CountIsLength` | violated |
| `instruments_mask` | does `maskWrite` write what its help says? | `MaskAsDocumented` | violated |

The violated runs are disagreements between the code and its own documentation:

- A peer that connects while a client is held is refused, but `accept` has already written
  its address into `remote_addr`: `ClientAddress` and `ClientPort` are then those of a peer
  that never was the client (`tcpserver_class.cc:507`).
- The loop of gpib's `fread` adds what came with END to `count` and breaks before appending
  it: a terminated message is counted and its last piece thrown away
  (`@octave_gpib/fread.m:93`, against `:29`).
- `maskWrite` writes `(value AND andmask) OR ormask` (`@octave_modbus/maskWrite.m:68`); its help
  (`:18`) masks `ormask` with `NOT andmask`, which differs where a bit is set in both.

### What else was met in the code

These are modelled as the code does them; where a property has an exception for one, its
comment says so.

- Constructors open first and call setters that may raise afterwards; the new object is then
  never destroyed and its descriptor stays open (`tcpserver.cc:201`, `serialport.cc:250` and
  the others). `LossesExplained` lists these and the others: `modbus_class.cc:248` before
  `modbus_free`, `parallel_class.cc:99`, descriptor 0 taken for closed, the VXI-11 link.
- A udpport read that takes bytes of several datagrams reports the sender of the last
  (`udpport_class.cc:513`).
- `set (obj, "timeout", t)` of serialport is documented in tenths and works in seconds
  (`serialport_class_lin.cc:220`); `tcp_read` without a timeout takes the seconds of the
  object for milliseconds (`tcp_read.cc:93`).
- A timeout inside the data of a block lets `readbinblock` take a late data byte for the end
  byte (`readbinblock.m:176`).
- modbus: a typo in `@octave_modbus/read.m:123` leaves big-endian hosts without the swap;
  `write.m` uses an undefined variable for 64-bit elements; the precision form of `writeRead`
  ignores the server id; Timeout -1 and 0 are refused by the library and reported all the same.
- gpib's `set_timeout` looks at the old value, so -1, the default, can never be changed
  (`gpib_class.cc:361`); its `fread` over a silent device goes on for ever.
- A VXI-11 device that reports a `maxRecvSize` of 0 gets END in the middle of long writes;
  usbtmc's `fwrite` calls `vxi11_write`.
- A VXI-11 answer longer than asked is left out of what the read returns, without an error when
  it comes with END (`vxi11_class.cc:182`); an answer without data, error or END is asked for
  again, for ever if the device goes on (`:182-196`).
- udpport's `configureMulticast (obj, "off")` empties the list whatever the kernel says
  (`udpport_class.cc:821`, `:825`); a group it was refused to leave can neither be left nor
  joined any more.
- A write of udpport to an unknown host goes to 255.255.255.255, and those after it that name
  no destination too (`udpport_class.cc:579`).
- `@octave_visadev/read.m:110` uses an undefined variable, so reading values of more than a byte
  raises after the bytes were read.
- The data lines of the parallel port are driven also in input mode; RingIndicator is
  inverted.

Options that are accepted and do not do what they say. The models say nothing of the effect of
these options, or have the effect the code gives them:

- `EnableTransferDelay` goes to TCP_NODELAY as it is, which means the opposite
  (`tcpclient_class.cc:292`, against `tcpclient.cc:48-49`).
- udpport does not look at the outcome of the lookup of LocalHost (`udpport_class.cc:312`).
- modbus: the parity "even" is spelt `"event"` (`modbus_class.cc:277`); NumRetries is stored and
  never used.
- i2c: the address 0 is accepted and not set (`i2c.cc:109`).
- spi: unknown words for polarity and phase change nothing (`spi_class.cc:283-286`, `:316-319`).
- visadev: a timeout the library refuses is not told (`visadev_class.cc:1142-1148`).

### Bounds, and why they are enough

- `Second = 2` ticks and a timeout of 3: longer than one slice of select, not a multiple of
  it. -1 is the other kind the loops tell apart; with 0 flush reads.
- A tcpserver connection sends 2 bytes, read one by one, in elements of one and two bytes or as
  many as there are, and flushed one by one; the serial line 4, with counts of 0 to 2: reads that get
  all, some and none of what they ask for, in one piece and in several, whole and torn.
- Two connections: one that is held and one that is queued, refused or next. A third would
  meet the same branch of `check_for_connections` as the second. They are interchangeable, but
  a run with liveness may use no symmetry.
- `Kilobyte = 2`, datagrams of 0, 1 and 3 bytes: an empty one, one that fits and one that
  makes `input_buffer` grow to a length that is no multiple of its size. Three datagrams:
  one partly read, one behind it, one that arrives meanwhile. Two groups: one joined, one
  refused, in any order.
- `Tenth = 2` ticks and the timeouts -1, 0, 1, 7, 14, 40: blocking, none, below a tenth,
  a step that is not a whole tenth, one more than a step of VTIME, and two seconds (several
  steps of the largest VTIME). Four bytes, because a read of two elements of two bytes is
  put together from up to four pieces. The settings run has values for every setter, and no
  data, because settings cannot change during a call.
- Line protocol: a terminator of two bytes, as `cr/lf`, because only there can a read stop
  inside it; an empty text and one that ends in half a terminator. Two commands: one whose
  answer is late and one that may be given that answer. Blocks whose data looks like the
  beginning of a header, for functions that start in the middle of one, and one of ten
  bytes, the least that needs two digits of size, with a newline in the data. Noise before
  a block: none and one byte.

- Lifecycle: three objects, so that a handle closed by one is given to another while the first
  is still referenced; two variables, for sharing; ten handles, more than three objects of any
  kind can hold at once.
- Serial interfaces: timeouts of 0, 12 tenths (more than the one second where the step
  changes) and 65539 (a short wraps it to 3); 0, half a millisecond, 30.5 ms and 100 ms in
  the class that takes seconds, on each side of its 50 ms step. Three setter calls: one that
  is refused or kept back, one other, one more that would apply it. One byte in the port.
- Sockets: sizes 0, 1 and 3, two arrivals, counts none, 0 and 2, element sizes 1 and 2;
  timeouts -5, -1, 0 and 1500 ms (more than one slice of select); the ports -1 (refused), 7
  and 65536 (wraps to 0); one host that resolves and one that does not.
- Instruments: three bytes of device output, reads of 0, 1 and 3; two writes; `maxRecvSize`
  of 0 to 3 against writes of up to 3, so that a write is one chunk, several, or ends exactly
  with one; two servers with two registers of one bit; one late answer; gpib timeouts 3 and
  18; addresses 16 and 17; masks with the bit set and without. `Word = 64` stands for 2^32, `DefaultChunk = 4` for 4096 and
  `ScanSize = 3` for a million. The byte order of the computer is little-endian.

### Deadlock

TLC checks for deadlock in every run. The program can always call something again, so a
state without a successor would be an error of the model.

### Fairness

- `WF_vars(ReadLoop)`: a running call is scheduled by the operating system, and `select`,
  `recv` and `::read` come back when data is there or their wait is over. It says nothing
  of a blocking read without data: there no `ReadLoop` step is enabled.
- `WF_vars(Arrive(c))` for tcpserver only: TCP delivers what was sent on a connection, the
  end included. `EofEndsBlockingRead` needs it, because no timeout ends a blocking read.
- `WF_vars(ReadStep)` for the line protocol: the reads underneath come back, which is what
  `TimedReadReturns` says of them when the timeout is not negative. `CallReturns` also needs
  a device that sends finitely many bytes: before a block any number is skipped.
- `WF_vars(ReadLoop)` for sockets and serial interfaces and, with the other half of the state
  unchanged, for instruments: as above. `ReadsReturn` excepts two reads once all there is
  has been taken: gpib's `fread`, whose loop does not end over a silent device, and a vxi11
  read from a device that goes on answering without data. (`fscanf` of gpib ends at its
  timeout.)
- Peers, senders, the line, the program and the user are not fair: they may stop for ever.

## Proofs

| Theorem | Statement |
|---|---|
| `TcpServer_proofs!TypeCorrect` | `Spec => []TypeOK` |
| `TcpServer_proofs!LiveClientsKept` | `Spec => []NoLiveClientAbandoned` |
| `TcpServer_proofs!TimeoutsExact` | `Spec => []TimeoutExact` |
| `TcpServer_proofs!AvailableReadsNeverWait` | `Spec => []AvailableNeverWaits` |
| `TcpServer_proofs!RepliesReachRequesters` | `Spec => []ReplyReachesRequester` |
| `TcpServer_proofs!FlushesDrain` | `Spec => FlushDrains` |
| `TcpServer_proofs!Refinement` | `Spec => ImplementsByteStream` |
| `UdpPort_proofs!TypeCorrect` | `Spec => []TypeOK` |
| `UdpPort_proofs!LeftoversAreTails` | `Spec => []LeftoverIsTail` |
| `UdpPort_proofs!AvailableReadsNeverWait` | `Spec => []AvailableNeverWaits` |
| `UdpPort_proofs!MembershipsAccounted` | `Spec => []MembershipAccounted` |
| `UdpPort_proofs!FlushesDrain` | `Spec => FlushDrains` |
| `UdpPort_proofs!Refinement` | `Spec => ImplementsByteStream` |
| `SerialPort_proofs!TypeCorrect` | `Spec => []TypeOK` |
| `SerialPort_proofs!SettingsAreReported` | `Spec => []SettingsReported` |
| `SerialPort_proofs!PortFollows` | `Spec => []PortFollowsObject` |
| `SerialPort_proofs!SilencesMatchTimeouts` | `Spec => []SilenceMatchesTimeout` |
| `SerialPort_proofs!AvailableReadsNeverWait` | `Spec => []AvailableNeverWaits` |
| `SerialPort_proofs!Refinement` | `Spec => ImplementsByteStream` |
| `Sockets_proofs!TypeCorrect` | `Spec => []TypeOK` |
| `Sockets_proofs!ShortReadsWaited` | `Spec => []ShortReadWaited` |
| `Sockets_proofs!Refinement` | `Spec => ImplementsByteStream` |
| `Sockets_proofs!WritesGoWhereNamed` | `Spec => WritesKeepDestination` |
| `SerialInterfaces_proofs!TypeCorrect` | `Spec => []TypeOK` |
| `SerialInterfaces_proofs!SettingsStay` | `Spec => []TakenSettingsStay` |
| `SerialInterfaces_proofs!EmptyReadsWaited` | `Spec => []EmptyReadWaited` |
| `SerialInterfaces_proofs!LinesChangeAlone` | `Spec => OneLineChanges` |
| `LineProtocol_proofs!LinesEndThere` | `Spec => []LinesEndAtTerminator` |
| `LineProtocol_proofs!LinesAreAnswers` | `Spec => []LinesMatchCommands` |
| `LineProtocol_proofs!BlocksAreAnswers` | `Spec => []BlocksMatchCommands` |
| `LineProtocol_proofs!SizesSurvive` | the size read out of a header is the one written into it |
| `Instruments_proofs!ReadsAreWhole` | `Spec => []LossesRaised` |
| `Instruments_proofs!WritesAreMarked` | `Spec => []EndsMarkWrites` |
| `Instruments_proofs!TransfersAreReported` | `Spec => []TransfersAsReported` |
| `Instruments_proofs!ModbusAsAsked` | `HostOrder = "L"` implies `Spec => RegistersAsAsked` |
| `Lifecycle_proofs!TypeCorrect` | `Spec => []TypeOK` |
| `Lifecycle_proofs!CountsAreReferences` | `Spec => []CountInv` |
| `Lifecycle_proofs!DestroyedWhenNoneRefers` | `Spec => []DestroyedWhenUnreferenced` |
| `Lifecycle_proofs!HandlesAreOwned` | `Spec => []HandlesOwned` |
| `Lifecycle_proofs!LossesAreExplained` | `Spec => []LossesExplained` |

They hold for any set of connections, any timeouts, counts and element sizes, any length of
a select slice, of flush's buffer and of a tick, and without the bounds having to be small.
The assumptions are the named ASSUMEs of the modules: there is a connection, `NoConn` is
none; ticks, slices and buffers have positive length; timeouts are integers, counts natural
numbers and element sizes positive; an unknown host is none of those that resolve; the serial
settings are ones the setters know, and rates, sizes and stop bits natural numbers; there are
finitely many variables, and at least three handles for each object, the most one holds (to
run out of them is one more way for an open to raise, which it may do anyway); a terminator is not empty, a text ends where its terminator begins,
noise has no `#` and a block is shorter than 10^9 bytes (a header has one digit for the number
of digits of the size, `writebinblock.m:104`); the length of a write is below `Word`, as an
`int` is below 2^32 (`vxi11_class.cc:210`). `ModbusAsAsked` is about a little-endian computer:
on another the misspelt byte order of `@octave_modbus/read.m:123` makes the word order
`"little-endian"` do nothing, and the property is false.

None of the properties is inductive as it stands, so each module has an inductive invariant
`IInv`, the conjunction of

- tcpserver: `CallerInv` (a call runs only on an open client and lacks bytes), `WindowInv`
  (taken <= arrived <= sent; the end of a stream arrives last), `BufferInv` (the buffer of
  a read holds exactly the bytes taken since it began), `WaitInv` (waited and left make up
  the timeout), `AvailInv` (what was available has arrived), `ReplyInv`. `BufferInv` is what
  the refinement needs: it says that `recv` at offset `n` continues what is there.
- udpport: `GramsInv` (datagrams lie end to end), `InputInv` (what `input_buffer` holds is the
  tail of the last one received), `CallInv`, `AvailInv`. The key lemma, `RoundUpHolds`, is
  that the buffer, grown to whole kilobytes, is never shorter than the datagram: one byte
  less and `recvfrom` would cut it off.
- sockets: `QueueInv` (the ends of the datagrams rise from what was taken to what was sent),
  `InputInv`, `CallInv` (the buffer of a read and the leftover follow each other without a
  gap) and `WaitInv` (waited and left make up the timeout). `WritesKeepDestination`
  rests on `UdpWriteToShape`, that the two setters of `write.m` undo each other for every
  port, wrapped or refused; for udpport, whose lookup is not looked at, it says where such
  writes go instead.
- serialport: `ConfigInv` (the copy has the VTIME of the Timeout, applied or refused),
  `CallInv` (the pieces of earlier calls and of the running one are consecutive pieces of
  the line that together reach from the mark to what was taken), `AvailInv`, and `WaitInv`
  (while the port counts as the object does, waited and left make up the timeout). `ConfigInv`
  is why `set_timeout` may skip `tcsetattr` when VTIME does not change.

- serial interfaces: `CopyInv` (`Accounted`: the copy has what was last asked for, unless it was
  replaced by what the port has; the port has what it took, and in the place of a value it
  refused, was not sent or lost, what it had before), `DrivingInv` (while a line is set no read
  runs, and what the call saw is what the port still has), `StepInv` (the step the object counts
  with goes with its timeout), `WaitInv` (before the first byte, waited and left make up the
  timeout, but for the residue), `CallInv`. Each class is first shown to make steps of eight
  shapes (`Setting`, `Waiting`, `Beginning`, `Driving`, `Keeping`, `Looking`, `Taking`,
  `Silent`), so that the invariant is argued once and not once per class. `OneLineChanges` needs
  `NoHandshake` besides: on POSIX, where the lines are read as on or off and written together,
  no line is given to the hardware.
- lifecycle: `CountInv` (the count of an object is the number of variables that refer to it),
  `VarInv` (which are objects that were made and not lost), `BornInv` (numbered in order),
  `LostInv`, `DestroyedInv` (destroyed exactly when the count is 0). What the steps of an open
  do to handles plays no part in these. `HandleInv` is about the handles: `Sorted` (no two
  handles are the same thing of the same object), `Remembered` (an object that lives still has
  the number of every handle that is its own), `ClientOpen` (the RPC client of an object that
  lives goes with its mark), and `Explained`, `Owns`, `Takes`, which are the properties for one
  handle or object. `Remembered` and `Owns` are each other's converse, and closing needs both:
  what a close gives back is the object's own (`OwnLetGo`), and what it leaves is one of the
  exceptions. The steps are argued once per kind of step (`Obtains`, `Checks`, ...) and once per
  sequence: `Makes` says which resources the steps of an open lead from and to, with which
  undone when one raises, and is shown of every open and every constructor piece by piece;
  `Closing` says what a close or destructor releases and where it may complain. `RunBuilds` and
  `RunShuts` then follow the worlds of a run by the least step at which they would go wrong.
  `RestInv` has the types the others leave out.
- line protocol: `CarrierInv` (what arrived is a part of what was sent, and what was read of
  what arrived), `CallInv` (the types and phases of a running function), `LineInv` (what it
  has so far is what was read since it began, and no terminator is in it), `FreshInv` (if it
  began in step, the answer to its command is all that lies ahead), `BlockInv` (where in that
  answer each phase stands: noise, header, digits of the size, data, end byte), and
  `ResultInv`. `BlockInv` needs `SizesSurvive`: the digits of a number are defined by
  recursion, and that reading them gives the number back is argued from a least size for
  which it would fail, since induction over data is out of reach.
- instruments: `RunInv` (which call runs on which class), `ReadInv` (the bytes a call holds
  are those that left the device since it began, but for as many as came in answers too long), `MarkInv` (each byte received is one of a
  write, follows the byte before it, and has END just where that write ends), `WriteInv` (how
  far the running write is), `CopyInv` (the server id of modbus is the one its library has;
  the copies of i2c, spi and parallel are what the driver uses, but for an i2c address that was
  never set and for a mode spi guessed), `RequestInv` (the value
  `maskWrite` is to write is its own, whatever other masters do), `UseInv`. `MarkInv` is why
  END may be decided by what is left when a chunk is cut, and `CopyInv` is what makes a
  failed `set_slave` harmless.

There is one lemma per action, under it one step per conjunct that the action can disturb.
The refinement proofs map the initial state and then each step: a call that begins is
`Begin`, an arrival is `Emit`, an answer is `Deliver` or `Drop`, everything else stutters.

The type invariants are proved (`TypeCorrect`, `Types`; of `LineProtocol` in its `IInv`), and not
run as well.

Only model-checked: liveness (`TimedReadReturns`, `TimedReadsReturn`, `EofEndsBlockingRead`,
`CallReturns`, `ReadsReturn`), which is out of the prover's reach. The violated runs are
refutations and need no proof.

## Not modelled

- Hardware information, `instrhelp`, examples, tests and build files.
- The some thirty attributes of visadev: each is one library call between two converters and
  leaves no state in the object that another operation reads.
- Within modelled components: Name, Tag, UserData and other properties nothing else reads;
  byte order (a permutation inside an element) but for modbus; a partial `send` (the stream
  classes do not handle one); data types of blocks; the local address and the broadcast and
  loopback flags of udp and udpport; writing of serial and serialport; control lines and
  break of serialport on POSIX, the same calls as those of serial; a `tcsetattr` that applies
  part of a change; fscanf and fprintf of tcp and udp; `pp_ctrl` and `pp_stat`; `flushinput`
  for interfaces without a branch of their own, where it raises (`flushinput.m:55`, `:60` use
  an undefined variable).
- The kernel, TCP, UDP, the serial drivers, libmodbus, linux-gpib, VISA and the RPC library
  are external and modelled by what the code can see of them. The C floating-point timeouts
  are integers of ticks.

## Plan

The modules of the first plan are written. What would add most next:

1. The timeouts of the line protocol as those of the interface underneath, instead of a read
   that comes short at any time.
2. visadev's attributes, if one that is cached turns out to bear on a read or a write.
