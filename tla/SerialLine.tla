----------------------------- MODULE SerialLine -----------------------------
(***************************************************************************)
(* What the serial classes have in common: a port, and an object with a    *)
(* copy of the port's settings, its timeout and a read that waits in steps.*)
(* Each class is a module of its own that extends this one: octave_serial  *)
(* on POSIX (SerialPosix) and on Windows (SerialWindows), and              *)
(* octave_serialport on Windows (SerialportWindows).  The object is open   *)
(* throughout.  Times are in ticks of half a millisecond.                  *)
(***************************************************************************)
EXTENDS Integers

CONSTANTS
  Kinds,                               \* the classes, a subset of KnownKinds
  Bauds, Sizes, Stopbits, Parities, Flows,  \* values given to the setters
  Tenths, Seconds,                     \* timeouts: in tenths of a second; in ticks
  Needs,                               \* bytes asked for in a read
  MaxCalls,                            \* bound: setters called
  MaxQueue                             \* bound: bytes waiting

KnownKinds == {"serial", "serial_win32", "serialport_win32"}

ASSUME KindAssumption == Kinds \subseteq KnownKinds
ASSUME ValueAssumption ==
  /\ Bauds \subseteq Nat /\ Sizes \subseteq Nat /\ Stopbits \subseteq Nat
  /\ Tenths \subseteq Int /\ Seconds \subseteq Int
  /\ Parities \subseteq {"none", "even", "odd"}
  /\ Flows \subseteq {"none", "hardware", "software"}
ASSUME BoundAssumption == Needs \subseteq Nat \ {0} /\ MaxCalls \in Nat /\ MaxQueue \in Nat

VARIABLES
  kind,      \* the class of this behaviour
  port,      \* the settings in force and the two lines the computer drives
  queued,    \* bytes waiting in the port
  config,    \* the object's copy of the settings
  status,    \* the object's copy of the lines, on POSIX
  timeout,   \* the timeout, < 0 for none
  blocking,  \* blocking_read
  driving,   \* the line that a running call of set_control_line is to set
  asked,     \* history: the last value given to the setter of each setting
  before,    \* history: what the port had when that setter was called
  fate,      \* history: what became of the value
  unseen,    \* history: what of the port may have changed since the running
             \* set_control_line read it
  calls,     \* history: how many setters were called
  call,      \* the running read
  answer     \* what the latest call told the program
vars == <<kind, port, queued, config, status, timeout, blocking, driving, asked, before, fate,
          unseen, calls, call, answer>>
settings == <<kind, port, config, status, timeout, blocking, driving, asked, before, fate,
              unseen, calls>>

Tick == 2        \* ticks in a millisecond
Tenth == 200     \* ticks in a tenth of a second
Lines == {"DTR", "RTS"}
Fields == {"baud", "size", "stop", "parity", "flow"}

Smaller(x, y) == IF x <= y THEN x ELSE y

\* Conversions of the int a program gives to the type of a setter's parameter.
AsShort(n) == ((n + 32768) % 65536) - 32768
AsUnsignedShort(n) == n % 65536

\* Settings: step is how long one read of the port waits, on POSIX VTIME.
PortType ==
  [baud : Int, size : 5 .. 8, stop : {1, 2}, parity : {"none", "even", "odd"},
   flow : {"none", "hardware", "software"}, step : Nat,
   DTR : {"on", "off"}, RTS : {"on", "off", "handshake"}]
Level(on) == IF on THEN "on" ELSE "off"

Idle == [need |-> 0, got |-> 0, left |-> 0, waited |-> 0]
NotDriving == [line |-> "none", on |-> FALSE]
NoAnswer == [op |-> "none", waited |-> 0, why |-> "none"]

TypeOK ==
  /\ kind \in Kinds
  /\ port \in PortType /\ config \in PortType
  /\ status \subseteq Lines
  /\ queued \in 0 .. MaxQueue
  /\ timeout \in Int /\ blocking \in BOOLEAN
  /\ driving \in [line : Lines, on : BOOLEAN] \cup {NotDriving}
  /\ fate \in [Fields -> {"applied", "refused", "unsent", "dropped"}]
  /\ unseen \subseteq Fields \cup Lines
  /\ calls \in 0 .. MaxCalls
  /\ call \in [need : Nat, got : Nat, left : Int, waited : Nat]

\* Right after the constructor, which opens the port with what it finds there or 8n1, and
\* then calls every setter with a default: 115200 baud, no timeout.  On POSIX the status is
\* not initialized.
Default == [baud |-> 115200, size |-> 8, stop |-> 1, parity |-> "none", flow |-> "none",
            step |-> 0, DTR |-> "on", RTS |-> "on"]
Init ==
  /\ kind \in Kinds
  /\ port = [Default EXCEPT !.step = IF kind = "serialport_win32" THEN 50 * Tick ELSE 5 * Tenth]
  /\ queued = 0
  /\ config = port
  /\ status \in SUBSET Lines /\ (kind # "serial" => status = {})
  /\ timeout = -1
  /\ blocking = TRUE
  /\ driving = NotDriving
  /\ asked = [f \in Fields |-> port[f]]
  /\ before = asked
  /\ fate = [f \in Fields |-> "applied"]
  /\ unseen = {}
  /\ calls = 0
  /\ call = Idle
  /\ answer = NoAnswer

-----------------------------------------------------------------------------
\* Setters

Callable == call.need = 0 /\ driving = NotDriving
Called(op) ==
  /\ calls < MaxCalls /\ Callable
  /\ calls' = calls + 1 /\ answer' = [NoAnswer EXCEPT !.op = op]

\* What a call of the setter of f makes of the fates.  When the port takes what it is sent,
\* it takes what was refused or kept back before as well, unless the copy no longer has it.
\* When it refuses, what it took before is still in force.
Fated(f, what) ==
  [g \in Fields |-> IF g = f \/ (what = "applied" /\ fate[g] # "dropped") THEN what ELSE fate[g]]

\* The setter of f: the port takes the settings in new, or refuses them and keeps its own
\* (external).  The object keeps c either way.
Send(f, c, new) ==
  /\ config' = c
  /\ \/ port' = new /\ fate' = Fated(f, "applied")
     \/ port' = port /\ fate' = Fated(f, "refused")

\* The copy has been replaced by what the port has: what was not applied is gone.
Dropped(fates) == [g \in Fields |-> IF fates[g] # "applied" THEN "dropped" ELSE fates[g]]

\* A setter of f whose parameter is now n.
Set(f, n) ==
  /\ Called(f)
  /\ asked' = [asked EXCEPT ![f] = n]
  /\ before' = [before EXCEPT ![f] = port[f]]
  /\ UNCHANGED <<kind, queued, status, timeout, blocking, driving, unseen, call>>

\* set_control_line begins; the rest of it is a step of its own, so that other programs may
\* come between its system calls.
Drive(l, on) ==
  /\ Called(l)
  /\ driving' = [line |-> l, on |-> on]
  /\ UNCHANGED <<kind, port, queued, timeout, blocking, asked, before, call>>

\* The lines the computer drives that are on, whoever turned them on.
LinesOn == {l \in Lines : port[l] = "on"}

-----------------------------------------------------------------------------
\* Reading

Reading == call.need > 0

\* read: the count is positive; the object waits for ever or timeout.
Read(need) ==
  /\ Callable
  /\ call' = [need |-> need, got |-> 0, left |-> timeout, waited |-> 0]
  /\ answer' = [NoAnswer EXCEPT !.op = "read"]
  /\ UNCHANGED <<settings, queued>>

\* The call returns.
Return(why, waited) ==
  /\ call' = Idle
  /\ answer' = [op |-> "read", waited |-> waited, why |-> why]

\* A system call has waited for time and returned k bytes: the call ends when it has all.
Took(k, time) ==
  /\ queued' = queued - k
  /\ \/ /\ call.got + k = call.need
        /\ Return("full", call.waited + time)
     \/ /\ call.got + k < call.need
        /\ call' = [call EXCEPT !.got = @ + k, !.waited = @ + time]
        /\ UNCHANGED answer
  /\ UNCHANGED settings

\* A system call has returned no byte after the port's step, and left is what is left of
\* the timeout: without one the read goes on.  A wait that never ends is not counted.
Empty(left) ==
  /\ \/ /\ blocking \/ left > 0
        /\ call' = [call EXCEPT !.left = IF blocking THEN @ ELSE left,
                                !.waited = IF blocking \/ config.step = 0 THEN @ ELSE @ + port.step]
        /\ UNCHANGED answer
     \/ /\ ~blocking /\ left <= 0
        /\ Return(IF call.got = 0 THEN "empty" ELSE "short", call.waited + port.step)
  /\ UNCHANGED <<settings, queued>>

\* OCTAVE_QUIT, or the system call fails.
Interrupt ==
  /\ Reading
  /\ Return("interrupt", call.waited)
  /\ UNCHANGED <<settings, queued>>

-----------------------------------------------------------------------------
\* The other side (external)

Arrive ==
  /\ queued < MaxQueue
  /\ queued' = queued + 1
  /\ UNCHANGED <<settings, call, answer>>

\* On POSIX another program may have the port open as well, and drive its lines.
Outsider ==
  /\ kind = "serial"
  /\ ~Reading
  /\ \E l \in Lines :
       /\ port' = [port EXCEPT ![l] = Level(@ # "on")]
       /\ unseen' = IF driving = NotDriving THEN unseen ELSE unseen \cup {l}
  /\ UNCHANGED <<kind, queued, config, status, timeout, blocking, driving, asked, before, fate,
                 calls, call, answer>>

=============================================================================
