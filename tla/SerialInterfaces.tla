-------------------------- MODULE SerialInterfaces --------------------------
(* The three serial classes, one to a behaviour, on a port at which bytes    *)
(* arrive, and which on POSIX another program may have open too.             *)
EXTENDS SerialLine

Posix == INSTANCE SerialPosix
Windows == INSTANCE SerialWindows
Serialport == INSTANCE SerialportWindows

ReadLoop ==
  \/ kind = "serial" /\ Posix!ReadLoop
  \/ kind = "serial_win32" /\ Windows!ReadLoop
  \/ kind = "serialport_win32" /\ Serialport!ReadLoop

Next ==
  \/ kind = "serial" /\ Posix!Next
  \/ kind = "serial_win32" /\ Windows!Next
  \/ kind = "serialport_win32" /\ Serialport!Next
  \/ \E need \in Needs : Read(need)
  \/ Interrupt
  \/ Arrive
  \/ Outsider

\* A running call is scheduled; the port, the program and the user are not fair.
Spec == Init /\ [][Next]_vars /\ WF_vars(ReadLoop)

-----------------------------------------------------------------------------
(* Properties *)

\* What the getters of the object tell of a setting.
Reported(f) ==
  CASE f = "baud" /\ kind = "serial" -> Posix!get_baudrate
    [] f = "baud" /\ kind = "serial_win32" -> Windows!get_baudrate
    [] f = "baud" /\ kind = "serialport_win32" -> Serialport!get_baudrate
    [] f = "stop" /\ kind = "serial" -> Posix!get_stopbits
    [] f = "stop" /\ kind = "serial_win32" -> Windows!get_stopbits
    [] f = "stop" /\ kind = "serialport_win32" -> Serialport!get_stopbits
    [] f = "size" /\ kind = "serial" -> Posix!get_bytesize
    [] f = "size" /\ kind = "serial_win32" -> Windows!get_bytesize
    [] f = "size" /\ kind = "serialport_win32" -> Serialport!get_databits
    [] f = "parity" /\ kind = "serial" -> Posix!get_parity
    [] f = "parity" /\ kind = "serial_win32" -> Windows!get_parity
    [] f = "parity" /\ kind = "serialport_win32" -> Serialport!get_parity
    [] f = "flow" /\ kind = "serialport_win32" -> Serialport!get_flowcontrol
    [] f = "flow" /\ kind # "serialport_win32" -> config.flow

\* What the getter of a setting tells for a value v of it; on POSIX a rate that is in the
\* table of set_baudrate and not in that of get_baudrate is told as -1.
Tells(f, v) ==
  \/ Reported(f) = v
  \/ kind = "serial" /\ f = "baud" /\ v \notin Posix!ReportedBauds /\ Reported(f) = -1

\* A setting the port has taken stays in force, and is what the object reports, until its
\* own setter is called again: setters that are refused, settings kept back for a later
\* one, lines set in between and the refreshing of the copy, which may fail, never disturb
\* it.  A value that was refused or kept back leaves the port with what it had when the
\* setter was called, and reaches it only whole calls later, when the port takes the copy
\* from another setter; until then the object may report it as if it were in force, and
\* nothing but it or what is.  Once the copy was refreshed such a value is gone for good.
TakenSettingsStay ==
  \A f \in Fields :
    /\ fate[f] = "applied" => port[f] = asked[f] /\ Tells(f, asked[f])
    /\ fate[f] \in {"refused", "unsent"} =>
         port[f] = before[f] /\ (Tells(f, asked[f]) \/ Tells(f, before[f]))
    /\ fate[f] = "dropped" => port[f] = before[f] /\ Tells(f, before[f])

\* Setting DTR or RTS changes that line to what was asked, or not at all, and nothing else
\* of the port: no setting that was refused or kept back before, and not the other line
\* either, unless another program has driven it since this call read the lines.  (When the
\* reading failed, which is not told, what is written is what the object had: on POSIX the
\* other line, on Windows all the settings.)
OneLineChanges ==
  [][driving # NotDriving /\ driving' = NotDriving =>
       /\ port'[driving.line] \in {port[driving.line], Level(driving.on)}
       /\ \A s \in DOMAIN port \ ({driving.line} \cup unseen) : port'[s] = port[s]]_vars

\* A read that found nothing has waited as long as the timeout says.  serial: exactly, up
\* to a second; then up to the next half second.  serialport on Windows: up to the next
\* 50 ms, one step more when the arithmetic leaves a residue.  (The port must have
\* taken the step the object counts with.)
EmptyReadWaited ==
  answer.why = "empty" /\ port.step = config.step =>
    /\ timeout <= answer.waited
    /\ kind # "serialport_win32" /\ timeout <= 10 * Tenth => answer.waited = timeout
    /\ kind # "serialport_win32" => answer.waited < timeout + 5 * Tenth
    /\ kind = "serialport_win32" => answer.waited <= timeout + port.step

\* A read with a timeout returns, whatever SetCommTimeouts or tcsetattr has refused.  Of
\* serialport on Windows a timeout below a millisecond is excepted: its step is 0, and
\* what is left never shrinks.
TimedReadsReturn ==
  (Reading /\ ~blocking /\ (kind = "serialport_win32" => timeout \notin 1 .. Tick - 1))
    ~> ~Reading
=============================================================================
