----------------------------- MODULE Instrument -----------------------------
(* One object of the Octave program that talks to an instrument, and the     *)
(* answer to the program's latest call.  A library error becomes an Octave   *)
(* exception in every class; "raised" stands for any of them.                *)
CONSTANT Kinds   \* the interfaces looked at

MessageKinds == {"vxi11", "usbtmc", "gpib", "visadev"}
BusKinds == {"modbus", "modbus_serial", "i2c", "spi", "parallel"}

ASSUME KindAssumption == Kinds \subseteq MessageKinds \cup BusKinds

VARIABLES
  kind,    \* the interface this behaviour is about
  open,    \* the object has a descriptor, a link, a session or an interface number
  answer   \* [op, status, ...]: what the latest call gave the program

None == [op |-> "none", status |-> "none"]
Raised(op) == [op |-> op, status |-> "raised"]

=============================================================================
