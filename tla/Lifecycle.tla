----------------------------- MODULE Lifecycle ------------------------------
(***************************************************************************)
(* How the objects of every interface come and go: constructors, open,     *)
(* close, destructors, and the reference counts of the handles that        *)
(* variables of a program share.  An open is a sequence of steps; error()  *)
(* throws, so a step that raises leaves the constructor at once and the    *)
(* new object is never destroyed.  One behaviour has one interface (kind). *)
(***************************************************************************)
EXTENDS Integers, FiniteSets, Sequences

CONSTANTS
  Kinds,        \* the interfaces, a subset of KnownKinds
  Var,          \* variables of the program
  MaxObjects,   \* bound: objects constructed
  MaxHandle     \* bound: descriptors and library handles, 0 .. MaxHandle

KnownKinds ==
  {"tcpclient", "tcpserver", "tcp", "udp", "udpport", "serial", "serialport", "serial_win32",
   "serialport_win32", "i2c", "spi", "parallel", "modbus", "modbus_serial", "vxi11", "gpib", "usbtmc", "visadev"}

ASSUME KindAssumption == Kinds \subseteq KnownKinds
ASSUME VarAssumption == IsFiniteSet(Var)
\* No object holds more than three handles, so that the system never runs out of them.
ASSUME BoundAssumption ==
  MaxObjects \in Nat \ {0} /\ MaxHandle \in Nat /\ MaxHandle >= 3 * MaxObjects

VARIABLES
  kind,      \* the interface of this behaviour
  owner,     \* who holds each handle: a holding, Octave itself, or Nobody
  object,    \* the C++ objects
  var,       \* the object each variable refers to, or NoObject
  count,     \* the reference count kept in each object
  lost,      \* objects whose constructor raised, with the part that raised
  aborted    \* an exception has left a destructor: the interpreter ends
vars == <<kind, owner, object, var, count, lost, aborted>>

Object == 1 .. MaxObjects
Handle == 0 .. MaxHandle
Resource == {"fd", "buffer", "ctx", "client", "link", "lib", "rm", "instr"}
NoObject == 0
None == -1
Nobody == [by |-> NoObject, res |-> "none"]
Octave == [by |-> NoObject, res |-> "stdin"]
Holding == [by : Object, res : Resource] \cup {Nobody, Octave}

-----------------------------------------------------------------------------
\* Steps.  A step may raise, undoing the resources in undo first; when it passes it
\* obtains a resource or none, or releases some, and may set or clear the mark that says
\* open for the interfaces without a descriptor of their own.

Step(part, raises, undo, gets, frees, mark) ==
  [part |-> part, raises |-> raises, undo |-> undo, gets |-> gets, frees |-> frees,
   mark |-> mark]

Obtains(r, undo) == <<Step("open", TRUE, undo, r, {}, "keep")>>
Allocates(r) == <<Step("open", FALSE, {}, r, {}, "keep")>>
Checks(undo) == <<Step("open", TRUE, undo, "none", {}, "keep")>>
Marks == <<Step("open", FALSE, {}, "none", {}, "set")>>
Setter == <<Step("setter", TRUE, {}, "none", {}, "keep")>>
Releases(R) == <<Step("close", FALSE, {}, "none", R, "keep")>>
Complains == <<Step("close", TRUE, {}, "none", {}, "keep")>>
Unmarks == <<Step("close", FALSE, {}, "none", {}, "clear")>>

\* mutant of TcpclientOpen: a refused connection does not close.
TcpclientOpenKeeps == Checks({"fd"}) \o Obtains("fd", {}) \o Checks({})

\* open: the host is looked up, a socket made, the connection made.
TcpclientOpen == Checks({"fd"}) \o Obtains("fd", {}) \o Checks({"fd"})
TcpOpen == Obtains("fd", {}) \o Checks({"fd"})
TcpserverOpen == Checks({"fd"}) \o Obtains("fd", {}) \o Checks({"fd"}) \o Checks({"fd"})
\* The input buffer is allocated before the socket.
UdpOpen ==
  Checks({"fd"}) \o Allocates("buffer") \o Obtains("fd", {"buffer"}) \o
  Checks({"fd", "buffer"})
UdpportOpen == Allocates("buffer") \o Obtains("fd", {"buffer"}) \o Checks({"fd", "buffer"})
\* A port must be a terminal, give its settings, take the defaults, and wait from then on.
SerialOpen ==
  Obtains("fd", {}) \o Checks({"fd"}) \o Checks({"fd"}) \o Checks({"fd"}) \o Checks({"fd"})
SerialportOpen ==
  Obtains("fd", {}) \o Checks({"fd"}) \o Checks({"fd"}) \o Checks({"fd"}) \o Checks({"fd"})
SerialWindowsOpen == Obtains("fd", {}) \o Checks({"fd"}) \o Checks({"fd"})
SerialportWindowsOpen == Obtains("fd", {}) \o Checks({"fd"}) \o Checks({"fd"})
I2cOpen == Obtains("fd", {})
SpiOpen == Obtains("fd", {})
UsbtmcOpen == Obtains("fd", {})
\* error comes before the close that follows it.
ParallelOpen == Obtains("fd", {}) \o Checks({})
\* error comes before modbus_free, for a TCP device and for a serial one.
ModbusOpenTcp == Obtains("ctx", {}) \o Checks({})
ModbusOpenSerial == Obtains("ctx", {}) \o Checks({})
\* The address counts as open before the RPC client exists.
Vxi11Open == Marks \o Obtains("client", {}) \o Allocates("link") \o Checks({})
GpibOpen == Marks
\* The library, the resource manager's session, the instrument's session, its type.
VisadevOpen ==
  Allocates("lib") \o Checks({}) \o Obtains("rm", {}) \o
  Obtains("instr", {"rm"}) \o Checks({"instr", "rm"})

-----------------------------------------------------------------------------
\* Constructors: open, then each setter that may raise.  The arguments are all looked at
\* before the object is made: one that is refused raises with nothing done and is left out.

TcpclientConstructor == TcpclientOpen \o Setter
TcpserverConstructor == TcpserverOpen \o Setter
TcpConstructor == TcpOpen \o Setter
UdpConstructor == UdpOpen \o Setter
UdpportConstructor == UdpportOpen \o Setter
\* The rate, the timeout, the parity, the size of a byte and the stop bits.
SerialConstructor(open) == open \o Setter \o Setter \o Setter \o Setter \o Setter
\* The flow control too.
SerialportConstructor(open) == open \o Setter \o Setter \o Setter \o Setter \o Setter \o Setter
\* The address, which is set only when it is above 0.
I2cConstructor == I2cOpen \o Setter
\* The rate, the polarity and the phase.
SpiConstructor == SpiOpen \o Setter \o Setter \o Setter
ParallelConstructor == ParallelOpen \o Setter
\* The timeout, and the number of retries.
ModbusConstructor(open) == open \o Setter \o Setter
Vxi11Constructor == Vxi11Open
\* The timeout is stored without a look at it.
GpibConstructor == GpibOpen
UsbtmcConstructor == UsbtmcOpen
\* The timeout raises when it is below -1; one that VISA refuses is not set, without a word.
VisadevConstructor == VisadevOpen \o Setter

Constructor(k) ==
  CASE k = "tcpclient" -> TcpclientConstructor
    [] k = "tcpserver" -> TcpserverConstructor
    [] k = "tcp" -> TcpConstructor
    [] k = "udp" -> UdpConstructor
    [] k = "udpport" -> UdpportConstructor
    [] k = "serial" -> SerialConstructor(SerialOpen)
    [] k = "serial_win32" -> SerialConstructor(SerialWindowsOpen)
    [] k = "serialport" -> SerialportConstructor(SerialportOpen)
    [] k = "serialport_win32" -> SerialportConstructor(SerialportWindowsOpen)
    [] k = "i2c" -> I2cConstructor
    [] k = "spi" -> SpiConstructor
    [] k = "parallel" -> ParallelConstructor
    [] k = "modbus" -> ModbusConstructor(ModbusOpenTcp)
    [] k = "modbus_serial" -> ModbusConstructor(ModbusOpenSerial)
    [] k = "vxi11" -> Vxi11Constructor
    [] k = "gpib" -> GpibConstructor
    [] k = "usbtmc" -> UsbtmcConstructor
    [] k = "visadev" -> VisadevConstructor

-----------------------------------------------------------------------------
\* close and the destructors, which call it.

TcpclientClose == Releases({"fd"})
TcpserverClose == Releases({"fd"})
TcpClose == Releases({"fd"})
UdpClose == Releases({"fd"}) \o Releases({"buffer"})
UdpportClose == Releases({"fd"}) \o Releases({"buffer"})
SerialClose == Releases({"fd"})
SerialportClose == Releases({"fd"})
SerialWindowsClose == Releases({"fd"})
SerialportWindowsClose == Releases({"fd"})
I2cClose == Releases({"fd"})
SpiClose == Releases({"fd"})
UsbtmcClose == Releases({"fd"})
\* A port that cannot be released is not closed.
ParallelClose == Complains \o Releases({"fd"})
ModbusClose == Releases({"ctx"})
\* A link that cannot be destroyed stays open; the memory of one that can is not freed.
Vxi11Close == Complains \o Releases({"client"}) \o Unmarks
\* The device is opened once more to be set to local.
GpibClose == Complains \o Complains \o Unmarks
VisadevClose == Releases({"instr", "rm"})

Close(k) ==
  CASE k = "tcpclient" -> TcpclientClose
    [] k = "tcpserver" -> TcpserverClose
    [] k = "tcp" -> TcpClose
    [] k = "udp" -> UdpClose
    [] k = "udpport" -> UdpportClose
    [] k = "serial" -> SerialClose
    [] k = "serialport" -> SerialportClose
    [] k = "serial_win32" -> SerialWindowsClose
    [] k = "serialport_win32" -> SerialportWindowsClose
    [] k = "i2c" -> I2cClose
    [] k = "spi" -> SpiClose
    [] k = "parallel" -> ParallelClose
    [] k \in {"modbus", "modbus_serial"} -> ModbusClose
    [] k = "vxi11" -> Vxi11Close
    [] k = "gpib" -> GpibClose
    [] k = "usbtmc" -> UsbtmcClose
    [] k = "visadev" -> VisadevClose

\* The destructor of a VISA device frees the library too.
VisadevDestructor == VisadevClose \o Releases({"lib"})
Destructor(k) == IF k = "visadev" THEN VisadevDestructor ELSE Close(k)

\* The interfaces whose objects can be closed by a function, and not only cleared.
CanClose == {"tcp", "udp", "serial", "serial_win32", "i2c", "spi", "parallel", "vxi11", "gpib", "usbtmc"}
\* Those whose properties are read and set with a dot.
HasProperties == KnownKinds \ {"parallel", "vxi11", "gpib", "usbtmc"}
\* Those that take a descriptor 0 for closed when they close.
ZeroStays == KnownKinds \ {"serial", "serialport", "serial_win32", "serialport_win32"}

-----------------------------------------------------------------------------
\* Running steps.  A world is what steps change: the handles, and the object self.

\* Descriptors are numbered from the lowest free one; a pointer is never 0.
Lowest(r, own) ==
  CHOOSE h \in Handle :
    /\ own[h] = Nobody
    /\ r = "fd" \/ h > 0
    /\ \A g \in Handle : own[g] = Nobody /\ (r = "fd" \/ g > 0) => h <= g

Obtain(W, r) ==
  LET h == Lowest(r, W.owner) IN
  [W EXCEPT !.owner[h] = [by |-> W.self, res |-> r], !.field[r] = h]

\* What a release of R closes: what is held, and is not taken for closed.
Closed(W, R) ==
  {r \in R : W.field[r] > 0 \/ (W.field[r] = 0 /\ kind \notin ZeroStays)}

\* mutant of Release: what is closed is still remembered.
ReleaseRemembers(W, R) ==
  [W EXCEPT !.owner = [h \in Handle |-> IF \E r \in Closed(W, R) : W.field[r] = h THEN Nobody ELSE @[h]]]

\* Each is given back to the system, and forgotten; a VXI-11 object forgets its address
\* instead of its client (Unmarks).
Release(W, R) ==
  LET C == Closed(W, R) IN
  [W EXCEPT !.owner = [h \in Handle |-> IF \E r \in C : W.field[r] = h THEN Nobody ELSE @[h]],
            !.field = [r \in Resource |->
                         IF r \in C /\ kind # "vxi11" THEN None ELSE @[r]]]

Marked(W, s) == [W EXCEPT !.mark = IF s.mark = "keep" THEN @ ELSE s.mark = "set"]

\* The world after a step that passes.
Pass(W, s) ==
  LET R == Release(W, s.frees)
      G == IF s.gets = "none" THEN R ELSE Obtain(R, s.gets) IN
  Marked(G, s)

\* The worlds after each of the first n steps.
Worlds(W, steps, n) ==
  LET world[i \in 0 .. n] == IF i = 0 THEN W ELSE Pass(world[i - 1], steps[i]) IN world

\* The world after steps of which the one at stop raises; none when stop is past the end.
Run(W, steps, stop) ==
  LET done == Worlds(W, steps, stop - 1)[stop - 1]
  IN IF stop > Len(steps) THEN done ELSE Release(done, steps[stop].undo)

Stops(steps) == {i \in 1 .. Len(steps) : steps[i].raises} \cup {Len(steps) + 1}

World(o) ==
  [self |-> o, owner |-> owner, field |-> object[o].field, mark |-> object[o].mark]

\* What an operation tests before it starts: minor, ip, the context, the session, fd >= 0.
Main == IF kind \in {"modbus", "modbus_serial"} THEN "ctx" ELSE IF kind = "visadev" THEN "instr"
        ELSE "fd"
IsOpen(o) ==
  IF kind \in {"gpib", "vxi11"} THEN object[o].mark ELSE object[o].field[Main] # None

\* What close tests first: the mark, or a descriptor that is not 0.
CloseSteps(o, steps) == IF kind \in {"gpib", "vxi11"} /\ ~object[o].mark THEN << >> ELSE steps

\* Where closing an object may stop: no step complains on one without a descriptor.
CloseStops(o, steps) ==
  IF kind = "parallel" /\ object[o].field["fd"] <= 0 THEN {Len(steps) + 1} ELSE Stops(steps)

-----------------------------------------------------------------------------
\* Reference counts

Live(o) == object[o].born /\ ~object[o].destroyed /\ o \notin {l.obj : l \in lost}
Taken(c, o) == [c EXCEPT ![o] = @ + 1]
Dropped(c, o) == IF o = NoObject THEN c ELSE [c EXCEPT ![o] = @ - 1]

\* An object whose count c has come to 0 is destroyed: its destructor closes it, and an
\* exception that leaves the destructor ends the interpreter.
Settle(c, o) ==
  IF o = NoObject \/ c[o] > 0
  THEN UNCHANGED <<owner, object, aborted>>
  ELSE LET steps == CloseSteps(o, Destructor(kind)) IN
       \E stop \in CloseStops(o, steps) :
         LET W == Run(World(o), steps, stop) IN
         /\ owner' = W.owner
         /\ object' = [object EXCEPT ![o] = [@ EXCEPT !.field = W.field, !.mark = W.mark,
                                                      !.destroyed = TRUE]]
         /\ aborted' = (stop <= Len(steps))

\* mutant of Subsref: the temporary value takes no reference of its own.
SubsrefUncounted(c, o) == Dropped(c, o)

\* Reading a property: the object passes itself to the property function.
Subsref(c, o) == Dropped(Taken(c, o), o)

\* Setting one: as reading, and when it is accepted the object is returned for the
\* variable it was in.
Subsasgn(c, o, accepted) ==
  IF accepted THEN Dropped(Taken(Subsref(c, o), o), o) ELSE Subsref(c, o)

-----------------------------------------------------------------------------
Fresh ==
  [field |-> [r \in Resource |-> None], mark |-> FALSE, born |-> FALSE, destroyed |-> FALSE]

Init ==
  /\ kind \in Kinds
  /\ \E zero \in {Octave, Nobody} : owner = [h \in Handle |-> IF h = 0 THEN zero ELSE Nobody]
  /\ object = [o \in Object |-> Fresh]
  /\ var = [v \in Var |-> NoObject]
  /\ count = [o \in Object |-> 0]
  /\ lost = {}
  /\ aborted = FALSE

Born == {o \in Object : object[o].born}
NextObject == Cardinality(Born) + 1

Built(W) == [field |-> W.field, mark |-> W.mark, born |-> TRUE, destroyed |-> FALSE]

\* v = constructor (...) that raises once the object is made: v keeps its value.
ConstructRaises ==
  /\ NextObject \in Object
  /\ \E stop \in Stops(Constructor(kind)) \ {Len(Constructor(kind)) + 1} :
       LET s == Constructor(kind)[stop]
           W == Run(World(NextObject), Constructor(kind), stop)
       IN /\ owner' = W.owner
          /\ object' = [object EXCEPT ![NextObject] = Built(W)]
          /\ lost' = lost \cup {[obj |-> NextObject, part |-> s.part]}
  /\ UNCHANGED <<kind, var, count, aborted>>

\* v = constructor (...), v holding nothing; to replace an object is to construct in
\* another variable and copy.
Construct(v) ==
  /\ NextObject \in Object
  /\ var[v] = NoObject
  /\ LET W == Run(World(NextObject), Constructor(kind), Len(Constructor(kind)) + 1) IN
     /\ owner' = W.owner
     /\ object' = [object EXCEPT ![NextObject] = Built(W)]
  /\ var' = [var EXCEPT ![v] = NextObject]
  /\ count' = Taken(count, NextObject)
  /\ UNCHANGED <<kind, lost, aborted>>

\* v = w
Copy(v, w) ==
  /\ var[w] # NoObject
  /\ var[v] # var[w]
  /\ var' = [var EXCEPT ![v] = var[w]]
  /\ count' = Dropped(Taken(count, var[w]), var[v])
  /\ Settle(count', var[v])
  /\ UNCHANGED <<kind, lost>>

\* clear v
Clear(v) ==
  /\ var[v] # NoObject
  /\ var' = [var EXCEPT ![v] = NoObject]
  /\ count' = Dropped(count, var[v])
  /\ Settle(count', var[v])
  /\ UNCHANGED <<kind, lost>>

\* v.property and v.property = value
Property(v) ==
  /\ kind \in HasProperties
  /\ var[v] # NoObject
  /\ \/ count' = Subsref(count, var[v])
     \/ \E accepted \in BOOLEAN : count' = Subsasgn(count, var[v], accepted)
  /\ Settle(count', var[v])
  /\ UNCHANGED <<kind, var, lost>>

\* tcp_close (v) and its likes; a close that complains has undone nothing.
CloseCall(v) ==
  /\ kind \in CanClose
  /\ var[v] # NoObject
  /\ LET steps == CloseSteps(var[v], Close(kind)) IN
     \E stop \in CloseStops(var[v], steps) :
       LET W == Run(World(var[v]), steps, stop) IN
       /\ owner' = W.owner
       /\ object' = [object EXCEPT ![var[v]] = [@ EXCEPT !.field = W.field, !.mark = W.mark]]
  /\ UNCHANGED <<kind, var, count, lost, aborted>>

\* The interpreter has ended, or the program ends.
Done == (aborted \/ NextObject \notin Object) /\ UNCHANGED vars

Running ==
  \/ ConstructRaises
  \/ \E v \in Var : Construct(v) \/ Clear(v) \/ Property(v) \/ CloseCall(v)
  \/ \E v, w \in Var : Copy(v, w)

Next == (~aborted /\ Running) \/ Done

Spec == Init /\ [][Next]_vars

-----------------------------------------------------------------------------
(* Properties *)

TypeOK ==
  /\ kind \in Kinds
  /\ owner \in [Handle -> Holding]
  /\ \A o \in Object : object[o] \in [field : [Resource -> Handle \cup {None}], mark : BOOLEAN,
                                      born : BOOLEAN, destroyed : BOOLEAN]
  /\ var \in [Var -> Object \cup {NoObject}]
  /\ count \in [Object -> Nat]
  /\ lost \subseteq [obj : Object, part : {"open", "setter"}]
  /\ aborted \in BOOLEAN

\* A descriptor or library handle an object can still use is its own: closing twice,
\* closing and then clearing, or using an object after close never reaches a handle the
\* system has since given to another object (close sets fd to -1, or empties ip).
HandlesOwned ==
  \A o \in Object, r \in Resource :
    /\ Live(o)
    /\ object[o].field[r] # None
    /\ kind = "vxi11" => object[o].mark
    => owner[object[o].field[r]] = [by |-> o, res |-> r]

\* An object is destroyed exactly when no variable refers to it: the references that
\* property accesses take with OV_COUNT++ and give back never destroy an object another
\* variable still holds, and never keep one nothing refers to.
DestroyedWhenUnreferenced ==
  \A o \in Object :
    object[o].born /\ o \notin {l.obj : l \in lost} =>
      (object[o].destroyed <=> \A v \in Var : var[v] # o)

\* The errors an open raises before it releases what it has, and what it never releases.
KeptByOpen ==
  {<<"modbus", "ctx">>, <<"modbus_serial", "ctx">>, <<"parallel", "fd">>, <<"vxi11", "client">>,
   <<"vxi11", "link">>, <<"visadev", "lib">>}

\* A handle nothing can release any more is one of these: a setter of a constructor raised
\* after open, which for a VISA device loses both sessions and the library; an open that
\* raises before it cleans up; descriptor 0, which close takes for closed; the memory of a
\* VXI-11 link; an object whose destructor raised.  Every other failed open, every close and
\* every clear gives back all it holds.
LossesExplained ==
  \A h \in Handle :
    owner[h] \notin {Nobody, Octave} =>
      LET o == owner[h].by
          r == owner[h].res
      IN \/ Live(o) /\ object[o].field[r] = h
         \/ \E l \in lost : l.obj = o /\ (l.part = "setter" \/ <<kind, r>> \in KeptByOpen)
         \/ h = 0 /\ kind \in ZeroStays
         \/ kind = "vxi11" /\ r = "link"
         \/ object[o].destroyed /\ aborted /\ kind \in {"parallel", "vxi11"}

=============================================================================
