----------------------- MODULE SerialInterfaces_proofs -----------------------
(***************************************************************************)
(* Proofs about the three serial classes, for any values given to the      *)
(* setters, any timeouts and reads of any length.  Each class is first     *)
(* shown to make steps of a few shapes; the invariant is kept by each      *)
(* shape.                                                                  *)
(***************************************************************************)
EXTENDS SerialInterfaces, TLAPS

-----------------------------------------------------------------------------
\* The shapes

\* The setter of setting f: the copy with the new value, and all of it, is sent.
Setting(f, n) ==
  /\ f \in Fields /\ Set(f, n)
  /\ [config EXCEPT ![f] = n] \in PortType
  /\ \E new \in PortType :
       /\ \A g \in Fields : new[g] = [config EXCEPT ![f] = n][g]
       /\ Send(f, [config EXCEPT ![f] = n], new)

\* The step s that goes with a timeout t: exact up to a second and half a second above, or
\* whole milliseconds, which are even numbers of ticks.
StepOf(k, t, s) ==
  /\ s \in Nat
  /\ k = "serialport_win32" => s # 1
  /\ k # "serialport_win32" => s = IF t <= 10 * Tenth THEN t ELSE 5 * Tenth

\* The setter of the timeout: the step is sent alone or with the copy.
Waiting(t, s) ==
  /\ Called("timeout") /\ t \in Int /\ timeout' = t /\ blocking' = (t < 0)
  /\ s \in Nat /\ (t >= 0 => StepOf(kind, t, s))
  /\ config' = [config EXCEPT !.step = s]
  /\ \E new \in PortType :
       \/ port' \in {port, new} /\ fate' = fate /\ \A g \in Fields : new[g] = port[g]
       \/ /\ \A g \in Fields : new[g] = config[g]
          /\ Send("step", [config EXCEPT !.step = s], new)
  /\ UNCHANGED <<kind, queued, status, driving, asked, before, unseen, call>>

\* The copy c becomes d, with the fates F1 and F2: left alone, or replaced by what the port p
\* has but for the step.
Refreshes(c, F1, p, d, F2) ==
  \/ d = c /\ F2 = F1
  \/ d = [p EXCEPT !.step = c.step] /\ F2 = Dropped(F1)

\* The running call knows what of the port it has seen and nothing has changed since.
Seen ==
  /\ kind = "serial" => \A l \in Lines \ unseen : l \in status <=> port[l] = "on"
  /\ kind # "serial" => \A s \in (Fields \cup Lines) \ unseen : config[s] = port[s]

\* The setter of a line reads.
Beginning(l, on) ==
  /\ l \in Lines /\ on \in BOOLEAN /\ Drive(l, on)
  /\ Refreshes(config, fate, port, config', fate')
  /\ status' \subseteq Lines /\ unseen' \subseteq Fields \cup Lines
  /\ Seen'

\* It writes: the line, or the whole copy with it.
Writes(p) ==
  /\ p[driving.line] \in {port[driving.line], Level(driving.on)}
  /\ \A s \in (Fields \cup Lines \cup {"step"}) \ ({driving.line} \cup unseen) : p[s] = port[s]
Driving ==
  /\ driving # NotDriving /\ driving' = NotDriving /\ unseen' = {}
  /\ port' \in PortType /\ Writes(port') /\ status' \subseteq Lines
  /\ \E c \in PortType, F \in {fate, Fated(driving.line, "applied")} :
       /\ c.step = config.step /\ \A g \in Fields : c[g] = config[g]
       /\ \A g \in Fields : port'[g] = IF F = fate THEN port[g] ELSE config[g]
       /\ Refreshes(c, F, port', config', fate')
  /\ UNCHANGED <<kind, queued, timeout, blocking, asked, before, calls, call, answer>>

\* A setting kept back for a setter that sends it.
Keeping(f, n) ==
  /\ f \in Fields /\ Set(f, n)
  /\ config' \in PortType /\ config'[f] = n /\ config'.step = config.step
  /\ \A g \in Fields \ {f} : config'[g] = config[g]
  /\ fate' = Fated(f, "unsent")
  /\ UNCHANGED port

\* A call that takes no time and sets nothing: reading the lines, flushing.
Looking ==
  /\ Callable
  /\ answer'.why = "none"
  /\ queued' \in 0 .. MaxQueue /\ status' \subseteq Lines
  /\ Refreshes(config, fate, port, config', fate')
  /\ UNCHANGED <<kind, port, timeout, blocking, driving, asked, before, unseen, calls, call>>

\* A system call of a read that returned k bytes, and one that returned none.
Taking(k, time) ==
  /\ Reading /\ k \in 1 .. queued /\ k <= call.need - call.got /\ time \in Nat
  /\ Took(k, time)
Silent(residue) ==
  /\ Reading /\ residue \in 0 .. 1
  /\ residue = 1 => kind = "serialport_win32" /\ call.left = config.step /\ config.step < timeout
  /\ Empty(call.left - config.step + residue)

\* The values a setter that is not a timeout's takes.
Values == Nat \cup {"none", "even", "odd", "hardware", "software"}

ClassStep ==
  \/ \E f \in Fields, n \in Values :
       Setting(f, n) \/ Keeping(f, n)
  \/ \E t \in Int, s \in Nat : Waiting(t, s)
  \/ \E l \in Lines, on \in BOOLEAN : Beginning(l, on)
  \/ Driving
  \/ Looking
  \/ \E k \in Nat, time \in Nat : Taking(k, time)
  \/ \E residue \in 0 .. 1 : Silent(residue)

-----------------------------------------------------------------------------
\* The inductive invariant, part by part

\* The copy c, the port p and the fates F go with what was asked and what the port had
\* before: the copy has what was last asked for, unless it was replaced by what the port has;
\* a value that was taken the port has, and in the place of another what it had before.
Accounted(c, p, a, b, F) ==
  /\ a = [f \in Fields |-> a[f]] /\ b = [f \in Fields |-> b[f]]
  /\ F \in [Fields -> {"applied", "refused", "unsent", "dropped"}]
  /\ \A f \in Fields :
       /\ F[f] # "dropped" => c[f] = a[f]
       /\ F[f] = "dropped" => c[f] = p[f]
       /\ F[f] = "applied" => p[f] = a[f]
       /\ F[f] # "applied" => p[f] = b[f]
CopyInv == Accounted(config, port, asked, before, fate)

\* While a line is set no read runs, and what was seen is what the port has.
DrivingInv == driving # NotDriving => ~Reading /\ Seen

\* A running read still lacks bytes.
CallInv == Reading => call.got < call.need

\* The step the object counts with goes with its timeout.
StepInv ==
  /\ blocking = (timeout < 0)
  /\ ~blocking => StepOf(kind, timeout, config.step)

\* Before the first byte, waited and left make up the timeout; or the arithmetic has left
\* a residue.
WaitInv ==
  Reading /\ ~blocking /\ call.got = 0 /\ port.step = config.step =>
    /\ call.left >= 0
    /\ \/ call.waited + call.left = timeout
       \/ kind = "serialport_win32" /\ call.left = 1 /\ call.waited = timeout
    /\ call.waited = 0 \/ call.left > 0
    /\ kind # "serialport_win32" /\ timeout <= 10 * Tenth => call.waited = 0

IInv == TypeOK /\ CopyInv /\ DrivingInv /\ CallInv /\ StepInv /\ WaitInv /\ EmptyReadWaited

\* On POSIX no line is given to the hardware, so that each is on or off.
NoHandshake == kind = "serial" => port.RTS # "handshake"

-----------------------------------------------------------------------------
\* Facts about the operators

\* A setting of a port changes alone.
LEMMA RecordChange ==
  ASSUME NEW c \in PortType, NEW f \in Fields \cup Lines, NEW n, NEW d, d = [c EXCEPT ![f] = n]
  PROVE  /\ d[f] = n /\ d.step = c.step
         /\ \A g \in (Fields \cup Lines) \ {f} : d[g] = c[g]
  BY DEF PortType, Fields, Lines

LEMMA StepChange ==
  ASSUME NEW c \in PortType, NEW s \in Nat, NEW d, d = [c EXCEPT !.step = s]
  PROVE  d \in PortType /\ d.step = s /\ \A g \in Fields \cup Lines : d[g] = c[g]
  BY DEF PortType, Fields, Lines

\* The port takes all of the copy: what was refused or kept back is in force.
LEMMA TakenAccounted ==
  ASSUME NEW c, NEW p, NEW new, NEW a, NEW b, Accounted(c, p, a, b, fate), NEW x,
         \A g \in Fields : new[g] = c[g]
  PROVE  x \notin Fields => Accounted(c, new, a, b, Fated(x, "applied"))
  <1> SUFFICES ASSUME x \notin Fields
               PROVE  Accounted(c, new, a, b, Fated(x, "applied"))
    OBVIOUS
  <1> DEFINE F == Fated(x, "applied")
  <1>1. \A g \in Fields : F[g] = IF fate[g] # "dropped" THEN "applied" ELSE "dropped"
    BY DEF Fated, Accounted
  <1>2. F \in [Fields -> {"applied", "refused", "unsent", "dropped"}]
    BY <1>1 DEF Fated
  <1> HIDE DEF F
  <1>3. ASSUME NEW g \in Fields
        PROVE  /\ F[g] # "dropped" => c[g] = a[g]
               /\ F[g] = "dropped" => c[g] = new[g]
               /\ F[g] = "applied" => new[g] = a[g]
               /\ F[g] # "applied" => new[g] = b[g]
    <2>1. /\ fate[g] # "dropped" => c[g] = a[g]
          /\ fate[g] = "dropped" => c[g] = p[g]
          /\ fate[g] # "applied" => p[g] = b[g]
          /\ new[g] = c[g]
      BY DEF Accounted
    <2> QED BY <1>1, <2>1
  <1>4. a = [f \in Fields |-> a[f]] /\ b = [f \in Fields |-> b[f]]
    BY DEF Accounted
  <1> QED BY <1>2, <1>3, <1>4 DEF Accounted, F

\* A setter changes the copy of its setting, and the port takes all of the copy or nothing.
LEMMA SetAccounted ==
  ASSUME NEW f \in Fields, NEW n, NEW c, NEW p, NEW new, NEW d, NEW a, NEW b,
         Accounted(c, p, a, b, fate), d[f] = n, \A g \in Fields \ {f} : d[g] = c[g],
         \A g \in Fields : new[g] = d[g],
         NEW a2, a2 = [a EXCEPT ![f] = n], NEW b2, b2 = [b EXCEPT ![f] = p[f]]
  PROVE  /\ Accounted(d, new, a2, b2, Fated(f, "applied"))
         /\ Accounted(d, p, a2, b2, Fated(f, "refused"))
         /\ Accounted(d, p, a2, b2, Fated(f, "unsent"))
  <1>1. /\ a2 = [g \in Fields |-> a2[g]] /\ b2 = [g \in Fields |-> b2[g]]
        /\ a2[f] = n /\ b2[f] = p[f]
        /\ \A g \in Fields \ {f} : a2[g] = a[g] /\ b2[g] = b[g]
    BY DEF Accounted
  <1>2. ASSUME NEW what \in {"applied", "refused", "unsent"}, NEW F, F = Fated(f, what)
        PROVE  /\ F \in [Fields -> {"applied", "refused", "unsent", "dropped"}]
               /\ F[f] = what
               /\ \A g \in Fields \ {f} :
                    F[g] = IF what = "applied" /\ fate[g] # "dropped" THEN what ELSE fate[g]
    BY <1>2 DEF Fated, Accounted
  <1>3. ASSUME NEW g \in Fields \ {f}
        PROVE  /\ fate[g] # "dropped" => c[g] = a[g]
               /\ fate[g] = "dropped" => c[g] = p[g]
               /\ fate[g] = "applied" => p[g] = a[g]
               /\ fate[g] # "applied" => p[g] = b[g]
               /\ d[g] = c[g] /\ new[g] = c[g] /\ a2[g] = a[g] /\ b2[g] = b[g]
    BY <1>1 DEF Accounted
  <1>4. d[f] = n /\ new[f] = n
    OBVIOUS
  <1>5. ASSUME NEW what \in {"refused", "unsent"}
        PROVE  Accounted(d, p, a2, b2, Fated(f, what))
    <2>1. PICK F : F = Fated(f, what)
      OBVIOUS
    <2>2. /\ F \in [Fields -> {"applied", "refused", "unsent", "dropped"}] /\ F[f] = what
          /\ \A g \in Fields \ {f} : F[g] = fate[g]
      BY <1>2, <2>1
    <2>3. ASSUME NEW g \in Fields
          PROVE  /\ F[g] # "dropped" => d[g] = a2[g]
                 /\ F[g] = "dropped" => d[g] = p[g]
                 /\ F[g] = "applied" => p[g] = a2[g]
                 /\ F[g] # "applied" => p[g] = b2[g]
      <3>1. CASE g = f
        BY <1>1, <1>4, <2>2, <3>1
      <3>2. CASE g # f
        BY <1>3, <2>2, <3>2
      <3> QED BY <3>1, <3>2
    <2>4. Accounted(d, p, a2, b2, F)
      BY <1>1, <2>2, <2>3 DEF Accounted
    <2> QED BY <2>1, <2>4
  <1>6. Accounted(d, new, a2, b2, Fated(f, "applied"))
    <2>1. PICK F : F = Fated(f, "applied")
      OBVIOUS
    <2>2. /\ F \in [Fields -> {"applied", "refused", "unsent", "dropped"}] /\ F[f] = "applied"
          /\ \A g \in Fields \ {f} : F[g] = IF fate[g] # "dropped" THEN "applied" ELSE fate[g]
      BY <1>2, <2>1
    <2>3. ASSUME NEW g \in Fields
          PROVE  /\ F[g] # "dropped" => d[g] = a2[g]
                 /\ F[g] = "dropped" => d[g] = new[g]
                 /\ F[g] = "applied" => new[g] = a2[g]
                 /\ F[g] # "applied" => new[g] = b2[g]
      <3>1. CASE g = f
        BY <1>1, <1>4, <2>2, <3>1
      <3>2. CASE g # f
        BY <1>3, <2>2, <3>2
      <3> QED BY <3>1, <3>2
    <2>4. Accounted(d, new, a2, b2, F)
      BY <1>1, <2>2, <2>3 DEF Accounted
    <2> QED BY <2>1, <2>4
  <1> QED BY <1>5, <1>6

\* What is accounted for stays so when the copy is left alone or refreshed.
LEMMA RefreshAccounted ==
  ASSUME NEW c \in PortType, NEW p \in PortType, NEW d, NEW a, NEW b, NEW F1, NEW F2,
         Accounted(c, p, a, b, F1), Refreshes(c, F1, p, d, F2)
  PROVE  Accounted(d, p, a, b, F2) /\ d \in PortType /\ d.step = c.step
  <1>1. CASE d = c /\ F2 = F1
    BY <1>1
  <1>2. CASE d = [p EXCEPT !.step = c.step] /\ F2 = Dropped(F1)
    <2>1. c.step \in Nat
      BY DEF PortType
    <2>2. d \in PortType /\ d.step = c.step /\ \A g \in Fields : d[g] = p[g]
      BY <1>2, <2>1, StepChange
    <2>3. /\ F2 \in [Fields -> {"applied", "refused", "unsent", "dropped"}]
          /\ \A g \in Fields : F2[g] = IF F1[g] # "applied" THEN "dropped" ELSE "applied"
      BY <1>2 DEF Dropped, Accounted
    <2>4. ASSUME NEW g \in Fields
          PROVE  /\ F2[g] # "dropped" => d[g] = a[g]
                 /\ F2[g] = "dropped" => d[g] = p[g]
                 /\ F2[g] = "applied" => p[g] = a[g]
                 /\ F2[g] # "applied" => p[g] = b[g]
      BY <2>2, <2>3 DEF Accounted
    <2>5. a = [f \in Fields |-> a[f]] /\ b = [f \in Fields |-> b[f]]
      BY DEF Accounted
    <2>6. Accounted(d, p, a, b, F2)
      BY <2>3, <2>4, <2>5 DEF Accounted
    <2> QED BY <2>2, <2>6
  <1> QED BY <1>1, <1>2 DEF Refreshes

\* Copies and ports that have the same settings are accounted for alike.
LEMMA SameAccounted ==
  ASSUME NEW c, NEW p, NEW d, NEW q, NEW a, NEW b, NEW F, Accounted(c, p, a, b, F),
         \A g \in Fields : d[g] = c[g] /\ q[g] = p[g]
  PROVE  Accounted(d, q, a, b, F)
  BY DEF Accounted

-----------------------------------------------------------------------------
\* Each shape

\* A call of a setter is over: no read runs, and only the copy, the port, the timeout and
\* the histories may have changed.
LEMMA CalledKept ==
  ASSUME IInv, NEW op, Called(op), CopyInv', config' \in PortType, port' \in PortType,
         UNCHANGED <<kind, queued, call>>, StepInv', DrivingInv',
         status' \subseteq Lines, unseen' \subseteq Fields \cup Lines,
         driving' \in [line : Lines, on : BOOLEAN] \cup {NotDriving},
         timeout' \in Int, blocking' \in BOOLEAN
  PROVE  IInv'
  <1>1. calls' \in 0 .. MaxCalls /\ answer'.why = "none" /\ ~Reading
    BY BoundAssumption DEF Called, Callable, Reading, NoAnswer, IInv, TypeOK
  <1>2. fate' \in [Fields -> {"applied", "refused", "unsent", "dropped"}]
    BY DEF CopyInv, Accounted
  <1>3. TypeOK'
    BY <1>1, <1>2 DEF IInv, TypeOK
  <1>4. CallInv' /\ WaitInv' /\ EmptyReadWaited'
    BY <1>1 DEF CallInv, WaitInv, EmptyReadWaited, Reading
  <1> QED BY <1>3, <1>4 DEF IInv

LEMMA SettingKept ==
  ASSUME IInv, NEW f \in Fields, NEW n, Setting(f, n)
  PROVE  IInv'
  <1>1. PICK c \in PortType : c = [config EXCEPT ![f] = n]
    BY DEF Setting
  <1>2. PICK new \in PortType :
          /\ \A g \in Fields : new[g] = c[g]
          /\ Send(f, c, new)
    BY <1>1 DEF Setting
  <1>3. c[f] = n /\ c.step = config.step /\ \A g \in Fields \ {f} : c[g] = config[g]
    <2>1. config \in PortType /\ f \in Fields \cup Lines
      BY DEF IInv, TypeOK
    <2> QED BY <1>1, <2>1 DEF PortType, Fields, Lines
  <1>4. /\ asked' = [asked EXCEPT ![f] = n] /\ before' = [before EXCEPT ![f] = port[f]]
        /\ Called(f)
        /\ UNCHANGED <<kind, queued, status, timeout, blocking, driving, unseen, call>>
    BY DEF Setting, Set
  <1>5. /\ Accounted(c, new, asked', before', Fated(f, "applied"))
        /\ Accounted(c, port, asked', before', Fated(f, "refused"))
    <2>1. Accounted(config, port, asked, before, fate)
      BY DEF IInv, CopyInv
    <2> QED BY <1>2, <1>3, <1>4, <2>1, SetAccounted
  <1>6. CopyInv' /\ config' = c /\ port' \in PortType
    BY <1>2, <1>5 DEF Send, CopyInv, IInv, TypeOK
  <1>7. StepInv'
    BY <1>3, <1>4, <1>6 DEF IInv, StepInv
  <1>8. driving' = NotDriving
    BY <1>4 DEF Called, Callable
  <1>9. /\ DrivingInv' /\ timeout' \in Int /\ blocking' \in BOOLEAN
        /\ status' \subseteq Lines /\ unseen' \subseteq Fields \cup Lines
    BY <1>4, <1>8 DEF DrivingInv, IInv, TypeOK
  <1> QED BY <1>4, <1>6, <1>7, <1>8, <1>9, CalledKept

LEMMA WaitingKept ==
  ASSUME IInv, NEW t \in Int, NEW s \in Nat, Waiting(t, s)
  PROVE  IInv'
  <1>1. PICK c : c = [config EXCEPT !.step = s]
    OBVIOUS
  <1>2. PICK new \in PortType :
          \/ port' \in {port, new} /\ fate' = fate /\ \A g \in Fields : new[g] = port[g]
          \/ /\ \A g \in Fields : new[g] = config[g]
             /\ Send("step", c, new)
    BY <1>1 DEF Waiting
  <1>3. c \in PortType /\ c.step = s /\ config' = c /\ \A g \in Fields : c[g] = config[g]
    BY <1>1, StepChange DEF Waiting, IInv, TypeOK
  <1>4. Accounted(c, port, asked, before, fate)
    BY <1>3, SameAccounted DEF IInv, CopyInv
  <1>5. /\ UNCHANGED <<kind, queued, status, driving, asked, before, unseen, call>>
        /\ Called("timeout") /\ timeout' = t /\ blocking' = (t < 0)
        /\ t >= 0 => StepOf(kind, t, s)
    BY DEF Waiting
  <1>6. CopyInv' /\ port' \in PortType
    <2>1. CASE port' \in {port, new} /\ fate' = fate /\ \A g \in Fields : new[g] = port[g]
      <3>1. /\ port' \in PortType /\ \A g \in Fields : port'[g] = port[g]
            /\ \A g \in Fields : c[g] = c[g]
        BY <2>1 DEF IInv, TypeOK
      <3>2. Accounted(c, port', asked, before, fate)
        BY <1>4, <3>1, SameAccounted
      <3> QED BY <1>3, <1>5, <2>1, <3>1, <3>2 DEF CopyInv
    <2>2. CASE /\ \A g \in Fields : new[g] = config[g]
               /\ Send("step", c, new)
      <3>1. \A g \in Fields : new[g] = c[g]
        BY <1>3, <2>2
      <3>2. "step" \notin Fields
        BY DEF Fields
      <3>3. Accounted(c, new, asked, before, Fated("step", "applied"))
        BY <1>4, <3>1, <3>2, TakenAccounted
      <3>4. Fated("step", "refused") = fate
        <4>1. fate \in [Fields -> {"applied", "refused", "unsent", "dropped"}]
          BY <1>4 DEF Accounted
        <4> QED BY <3>2, <4>1 DEF Fated
      <3>5. CASE port' = new /\ fate' = Fated("step", "applied")
        BY <1>3, <1>5, <3>3, <3>5 DEF CopyInv
      <3>6. CASE port' = port /\ fate' = Fated("step", "refused")
        BY <1>3, <1>4, <1>5, <3>4, <3>6 DEF CopyInv, IInv, TypeOK
      <3> QED BY <2>2, <3>5, <3>6 DEF Send
    <2> QED BY <1>2, <2>1, <2>2
  <1>7. StepInv'
    <2>1. blocking' = (timeout' < 0)
      BY <1>5
    <2>2. ASSUME ~blocking'
          PROVE  StepOf(kind', timeout', config'.step)
      <3>1. t >= 0
        <4>1. blocking' = (t < 0)
          BY <1>5
        <4>2. ~(t < 0)
          BY <2>2, <4>1, Zenon
        <4> QED BY <4>2
      <3>2. StepOf(kind, t, s) /\ kind' = kind /\ timeout' = t /\ config'.step = s
        BY <1>3, <1>5, <3>1
      <3> QED BY <3>2 DEF StepOf
    <2> QED BY <2>1, <2>2 DEF StepInv
  <1>8. driving' = NotDriving
    BY <1>5 DEF Called, Callable
  <1>9. /\ DrivingInv' /\ timeout' \in Int
        /\ status' \subseteq Lines /\ unseen' \subseteq Fields \cup Lines
    BY <1>5, <1>8 DEF DrivingInv, IInv, TypeOK
  <1>10. blocking' \in BOOLEAN
    <2>1. blocking' = (t < 0) /\ (t < 0) \in BOOLEAN
      BY <1>5
    <2> QED BY <2>1
  <1> QED BY <1>3, <1>5, <1>6, <1>7, <1>8, <1>9, <1>10, CalledKept

LEMMA BeginningKept ==
  ASSUME IInv, NEW l \in Lines, NEW on \in BOOLEAN, Beginning(l, on)
  PROVE  IInv'
  <1>1. /\ Called(l) /\ driving' = [line |-> l, on |-> on]
        /\ UNCHANGED <<kind, port, queued, timeout, blocking, asked, before, call>>
        /\ Refreshes(config, fate, port, config', fate')
        /\ status' \subseteq Lines /\ unseen' \subseteq Fields \cup Lines
        /\ Seen'
    BY DEF Beginning, Drive
  <1>2. CopyInv' /\ config' \in PortType /\ config'.step = config.step /\ port' \in PortType
    <2>1. /\ config \in PortType /\ port \in PortType
          /\ Accounted(config, port, asked, before, fate)
      BY DEF IInv, TypeOK, CopyInv
    <2>2. /\ Accounted(config', port, asked, before, fate') /\ config' \in PortType
          /\ config'.step = config.step
      BY <1>1, <2>1, RefreshAccounted
    <2> QED BY <1>1, <2>1, <2>2 DEF CopyInv
  <1>3. StepInv'
    BY <1>1, <1>2 DEF IInv, StepInv
  <1>4. DrivingInv'
    <2>1. ~Reading'
      BY <1>1 DEF Called, Callable, Reading
    <2> QED BY <1>1, <2>1 DEF DrivingInv
  <1>5. /\ driving' \in [line : Lines, on : BOOLEAN] \cup {NotDriving}
        /\ timeout' \in Int /\ blocking' \in BOOLEAN
    BY <1>1 DEF IInv, TypeOK
  <1> QED BY <1>1, <1>2, <1>3, <1>4, <1>5, CalledKept

LEMMA DrivingKept ==
  ASSUME IInv, Driving
  PROVE  IInv'
  <1>1. /\ driving # NotDriving /\ driving' = NotDriving /\ unseen' = {}
        /\ port' \in PortType /\ status' \subseteq Lines
        /\ UNCHANGED <<kind, queued, timeout, blocking, asked, before, calls, call, answer>>
    BY DEF Driving
  <1>2. PICK c \in PortType, F \in {fate, Fated(driving.line, "applied")} :
          /\ c.step = config.step /\ \A g \in Fields : c[g] = config[g]
          /\ \A g \in Fields : port'[g] = IF F = fate THEN port[g] ELSE config[g]
          /\ Refreshes(c, F, port', config', fate')
    BY DEF Driving
  <1>3. Accounted(c, port, asked, before, fate)
    BY <1>2, SameAccounted DEF IInv, CopyInv
  <1>4. Accounted(c, port', asked, before, F)
    <2>1. CASE F = fate
      BY <1>2, <1>3, <2>1, SameAccounted
    <2>2. CASE F # fate
      <3>1. F = Fated(driving.line, "applied") /\ \A g \in Fields : port'[g] = c[g]
        BY <1>2, <2>2
      <3>2. driving.line \notin Fields
        BY <1>1 DEF IInv, TypeOK, Fields, Lines
      <3>3. Accounted(c, port', asked, before, Fated(driving.line, "applied"))
        BY <1>3, <3>1, <3>2, TakenAccounted
      <3> QED BY <3>1, <3>3
    <2> QED BY <2>1, <2>2
  <1>5. CopyInv' /\ config' \in PortType /\ config'.step = config.step
    <2>1. /\ Accounted(config', port', asked, before, fate') /\ config' \in PortType
          /\ config'.step = c.step
      BY <1>1, <1>2, <1>4, RefreshAccounted
    <2> QED BY <1>1, <1>2, <2>1 DEF CopyInv
  <1>6. fate' \in [Fields -> {"applied", "refused", "unsent", "dropped"}]
    BY <1>5 DEF CopyInv, Accounted
  <1>7. TypeOK'
    BY <1>1, <1>5, <1>6 DEF IInv, TypeOK
  <1>8. StepInv' /\ DrivingInv'
    BY <1>1, <1>5 DEF IInv, StepInv, DrivingInv
  <1>9. ~Reading
    BY <1>1 DEF IInv, DrivingInv
  <1>10. port'.step = port.step
    <2>1. driving.line # "step" /\ "step" \notin unseen
      BY <1>1 DEF IInv, TypeOK, Fields, Lines
    <2> QED BY <2>1 DEF Driving, Writes
  <1>11. EmptyReadWaited'
    BY <1>1, <1>5, <1>10 DEF IInv, EmptyReadWaited
  <1> QED BY <1>1, <1>5, <1>7, <1>8, <1>9, <1>11 DEF IInv, CallInv, WaitInv, Reading

LEMMA KeepingKept ==
  ASSUME IInv, NEW f \in Fields, NEW n, Keeping(f, n)
  PROVE  IInv'
  <1>1. /\ Called(f) /\ UNCHANGED port
        /\ asked' = [asked EXCEPT ![f] = n] /\ before' = [before EXCEPT ![f] = port[f]]
        /\ UNCHANGED <<kind, queued, status, timeout, blocking, driving, unseen, call>>
        /\ config' \in PortType /\ config'[f] = n /\ config'.step = config.step
        /\ \A g \in Fields \ {f} : config'[g] = config[g]
        /\ fate' = Fated(f, "unsent")
    BY DEF Keeping, Set
  <1>2. CopyInv'
    <2>1. Accounted(config, port, asked, before, fate)
      BY DEF IInv, CopyInv
    <2>2. \A g \in Fields : config'[g] = config'[g]
      OBVIOUS
    <2>3. Accounted(config', port, asked', before', Fated(f, "unsent"))
      BY <1>1, <2>1, <2>2, SetAccounted
    <2> QED BY <1>1, <2>3 DEF CopyInv
  <1>3. StepInv' /\ port' \in PortType
    BY <1>1 DEF IInv, StepInv, TypeOK
  <1>4. driving' = NotDriving
    BY <1>1 DEF Called, Callable
  <1>5. /\ DrivingInv' /\ timeout' \in Int /\ blocking' \in BOOLEAN
        /\ status' \subseteq Lines /\ unseen' \subseteq Fields \cup Lines
    BY <1>1, <1>4 DEF DrivingInv, IInv, TypeOK
  <1> QED BY <1>1, <1>2, <1>3, <1>4, <1>5, CalledKept

LEMMA LookingKept ==
  ASSUME IInv, Looking
  PROVE  IInv'
  <1>1. /\ Callable /\ answer'.why = "none"
        /\ queued' \in 0 .. MaxQueue /\ status' \subseteq Lines
        /\ Refreshes(config, fate, port, config', fate')
        /\ UNCHANGED <<kind, port, timeout, blocking, driving, asked, before, unseen, calls, call>>
    BY DEF Looking
  <1>2. CopyInv' /\ config' \in PortType /\ config'.step = config.step
    <2>1. /\ config \in PortType /\ port \in PortType
          /\ Accounted(config, port, asked, before, fate)
      BY DEF IInv, TypeOK, CopyInv
    <2>2. /\ Accounted(config', port, asked, before, fate') /\ config' \in PortType
          /\ config'.step = config.step
      BY <1>1, <2>1, RefreshAccounted
    <2> QED BY <1>1, <2>2 DEF CopyInv
  <1>3. fate' \in [Fields -> {"applied", "refused", "unsent", "dropped"}]
    BY <1>2 DEF CopyInv, Accounted
  <1>4. TypeOK'
    BY <1>1, <1>2, <1>3 DEF IInv, TypeOK
  <1>5. StepInv' /\ DrivingInv'
    BY <1>1, <1>2 DEF IInv, StepInv, DrivingInv, Callable
  <1>6. CallInv' /\ WaitInv' /\ EmptyReadWaited'
    BY <1>1 DEF CallInv, WaitInv, EmptyReadWaited, Reading, Callable
  <1> QED BY <1>2, <1>4, <1>5, <1>6 DEF IInv

\* A step of a call that changes no setting.
LEMMA SettingsKept ==
  ASSUME IInv, UNCHANGED settings, queued' \in 0 .. MaxQueue,
         call' \in [need : Nat, got : Nat, left : Int, waited : Nat],
         driving = NotDriving \/ UNCHANGED call, CallInv', WaitInv', EmptyReadWaited'
  PROVE  IInv'
  <1>1. TypeOK'
    BY DEF IInv, TypeOK, settings
  <1>2. CopyInv' /\ StepInv' /\ DrivingInv'
    BY DEF IInv, CopyInv, StepInv, DrivingInv, Seen, Reading, settings
  <1> QED BY <1>1, <1>2 DEF IInv

LEMMA TakingKept ==
  ASSUME IInv, NEW k \in Nat, NEW time \in Nat, Taking(k, time)
  PROVE  IInv'
  <1>0. driving = NotDriving
    BY DEF Taking, IInv, DrivingInv
  <1>1. /\ k \in 1 .. queued /\ k <= call.need - call.got /\ queued \in 0 .. MaxQueue
        /\ UNCHANGED settings /\ queued' = queued - k /\ MaxQueue \in Nat
    BY BoundAssumption DEF Taking, Took, IInv, TypeOK
  <1>2. queued' \in 0 .. MaxQueue
    BY <1>1
  <1>3. /\ call \in [need : Nat, got : Nat, left : Int, waited : Nat]
        /\ call.need \in Nat /\ call.got \in Nat /\ call.left \in Int /\ call.waited \in Nat
    BY DEF IInv, TypeOK
  <1>4. CASE Return("full", call.waited + time)
    <2>1. call' = Idle /\ answer'.why = "full"
      BY <1>4 DEF Return
    <2>2. /\ call' \in [need : Nat, got : Nat, left : Int, waited : Nat]
          /\ CallInv' /\ WaitInv' /\ EmptyReadWaited'
      BY <2>1 DEF Idle, CallInv, WaitInv, EmptyReadWaited, Reading
    <2> QED BY <1>0, <1>1, <1>2, <2>2, SettingsKept
  <1>5. CASE /\ call.got + k < call.need
             /\ call' = [call EXCEPT !.got = @ + k, !.waited = @ + time]
             /\ UNCHANGED answer
    <2>1. PICK g \in Nat, w \in Nat : g = call.got + k /\ w = call.waited + time
      BY <1>3
    <2>2. call' = [need |-> call.need, got |-> g, left |-> call.left, waited |-> w]
      BY <1>3, <1>5, <2>1
    <2>3. call' \in [need : Nat, got : Nat, left : Int, waited : Nat]
      BY <1>3, <2>1, <2>2
    <2>4. call'.got = g /\ call'.need = call.need /\ g # 0 /\ g < call.need
      BY <1>1, <1>3, <1>5, <2>1, <2>2
    <2>5. CallInv' /\ WaitInv'
      BY <2>4 DEF CallInv, WaitInv
    <2>6. EmptyReadWaited'
      BY <1>1, <1>5 DEF IInv, EmptyReadWaited, settings
    <2> QED BY <1>0, <1>1, <1>2, <2>3, <2>5, <2>6, SettingsKept
  <1> QED BY <1>4, <1>5 DEF Taking, Took

LEMMA SilentKept ==
  ASSUME IInv, NEW residue \in 0 .. 1, Silent(residue)
  PROVE  IInv'
  <1>0. driving = NotDriving
    BY DEF Silent, IInv, DrivingInv
  <1>1. /\ UNCHANGED settings /\ UNCHANGED queued /\ queued' \in 0 .. MaxQueue
        /\ Reading /\ UNCHANGED <<kind, port, config, timeout, blocking>>
        /\ call \in [need : Nat, got : Nat, left : Int, waited : Nat]
        /\ call.need \in Nat /\ call.got \in Nat /\ call.left \in Int /\ call.waited \in Nat
        /\ port.step \in Nat /\ config.step \in Nat /\ timeout \in Int /\ residue \in Int
        /\ residue >= 0 /\ residue <= 1
    BY DEF Silent, Empty, IInv, TypeOK, PortType, settings
  <1>2. residue = 1 =>
          kind = "serialport_win32" /\ call.left = config.step /\ config.step < timeout
    BY DEF Silent
  <1>3. PICK l \in Int : l = call.left - config.step + residue
    BY <1>1
  <1>4. CASE /\ blocking \/ l > 0
             /\ call' = [call EXCEPT !.left = IF blocking THEN @ ELSE l,
                           !.waited = IF blocking \/ config.step = 0 THEN @ ELSE @ + port.step]
             /\ UNCHANGED answer
    <2>1. PICK m \in Int, w \in Nat :
            /\ m = IF blocking THEN call.left ELSE l
            /\ w = IF blocking \/ config.step = 0 THEN call.waited ELSE call.waited + port.step
      BY <1>1, <1>3
    <2>2. call' = [need |-> call.need, got |-> call.got, left |-> m, waited |-> w]
      BY <1>1, <1>4, <2>1
    <2>3. /\ call' \in [need : Nat, got : Nat, left : Int, waited : Nat]
          /\ call'.need = call.need /\ call'.got = call.got /\ call'.left = m /\ call'.waited = w
      BY <1>1, <2>1, <2>2
    <2>4. CallInv'
      BY <1>1, <2>3 DEF IInv, CallInv, Reading
    <2>5. EmptyReadWaited'
      BY <1>1, <1>4 DEF IInv, EmptyReadWaited
    <2>6. ASSUME ~blocking, call.got = 0, port.step = config.step
          PROVE  /\ m >= 0
                 /\ \/ w + m = timeout
                    \/ kind = "serialport_win32" /\ m = 1 /\ w = timeout
                 /\ w = 0 \/ m > 0
                 /\ kind # "serialport_win32" /\ timeout <= 10 * Tenth => w = 0
      <3>1. /\ call.left >= 0
            /\ \/ call.waited + call.left = timeout
               \/ kind = "serialport_win32" /\ call.left = 1 /\ call.waited = timeout
            /\ call.waited = 0 \/ call.left > 0
            /\ kind # "serialport_win32" /\ timeout <= 10 * Tenth => call.waited = 0
        BY <1>1, <2>6 DEF IInv, WaitInv
      <3>2. /\ kind = "serialport_win32" => config.step # 1
            /\ kind # "serialport_win32" =>
                 config.step = IF timeout <= 10 * Tenth THEN timeout ELSE 5 * Tenth
        BY <2>6 DEF IInv, StepInv, StepOf
      <3>3. m = l /\ l > 0 /\ w = call.waited + config.step
        BY <1>1, <1>4, <2>1, <2>6
      <3>4. CASE residue = 1
        <4>1. kind = "serialport_win32" /\ call.left = config.step /\ config.step < timeout
          BY <1>2, <3>4
        <4>2. m = 1 /\ (w = timeout \/ w + m = timeout)
          BY <1>1, <1>3, <3>1, <3>2, <3>3, <3>4, <4>1
        <4> QED BY <4>1, <4>2
      <3>5. CASE residue = 0
        <4>1. m = call.left - config.step
          BY <1>1, <1>3, <3>3, <3>5
        <4>2. CASE call.waited + call.left = timeout
          <5>1. w + m = timeout /\ m > 0
            BY <1>1, <3>3, <4>1, <4>2
          <5>2. kind # "serialport_win32" /\ timeout <= 10 * Tenth => FALSE
            BY <1>1, <3>1, <3>2, <3>3, <4>1, <4>2
          <5> QED BY <5>1, <5>2
        <4>3. CASE kind = "serialport_win32" /\ call.left = 1 /\ call.waited = timeout
          <5>1. m = 1 /\ w = timeout
            BY <1>1, <3>3, <4>1, <4>3
          <5> QED BY <4>3, <5>1
        <4> QED BY <3>1, <4>2, <4>3
      <3> QED BY <1>1, <3>4, <3>5
    <2>7. WaitInv'
      BY <1>1, <2>3, <2>6 DEF WaitInv
    <2> QED BY <1>0, <1>1, <2>3, <2>4, <2>5, <2>7, SettingsKept
  <1>5. CASE /\ ~blocking /\ l <= 0
             /\ Return(IF call.got = 0 THEN "empty" ELSE "short", call.waited + port.step)
    <2>1. /\ call' = Idle /\ answer'.waited = call.waited + port.step
          /\ answer'.why = IF call.got = 0 THEN "empty" ELSE "short"
      BY <1>5 DEF Return
    <2>2. /\ call' \in [need : Nat, got : Nat, left : Int, waited : Nat]
          /\ CallInv' /\ WaitInv'
      BY <2>1 DEF Idle, CallInv, WaitInv, Reading
    <2>3. ASSUME answer'.why = "empty", port.step = config.step
          PROVE  /\ timeout <= answer'.waited
                 /\ kind # "serialport_win32" /\ timeout <= 10 * Tenth => answer'.waited = timeout
                 /\ kind # "serialport_win32" => answer'.waited < timeout + 5 * Tenth
                 /\ kind = "serialport_win32" => answer'.waited <= timeout + port.step
      <3>1. call.got = 0
        BY <2>1, <2>3
      <3>2. /\ call.left >= 0
            /\ \/ call.waited + call.left = timeout
               \/ kind = "serialport_win32" /\ call.left = 1 /\ call.waited = timeout
            /\ call.waited = 0 \/ call.left > 0
            /\ kind # "serialport_win32" /\ timeout <= 10 * Tenth => call.waited = 0
        BY <1>1, <1>5, <2>3, <3>1 DEF IInv, WaitInv
      <3>3. kind # "serialport_win32" =>
              config.step = IF timeout <= 10 * Tenth THEN timeout ELSE 5 * Tenth
        BY <1>5 DEF IInv, StepInv, StepOf
      <3>4. call.left <= config.step
        <4>1. residue = 0
          BY <1>1, <1>2, <1>3, <1>5
        <4> QED BY <1>1, <1>3, <1>5, <4>1
      <3>5. timeout <= call.waited + config.step /\ call.waited <= timeout
        BY <1>1, <3>2, <3>4
      <3>6. CASE kind = "serialport_win32"
        BY <1>1, <2>1, <2>3, <3>5, <3>6
      <3>7. CASE kind # "serialport_win32" /\ timeout <= 10 * Tenth
        BY <1>1, <2>1, <2>3, <3>2, <3>3, <3>7 DEF Tenth
      <3>8. CASE kind # "serialport_win32" /\ ~(timeout <= 10 * Tenth)
        BY <1>1, <2>1, <2>3, <3>2, <3>3, <3>5, <3>8 DEF Tenth
      <3> QED BY <3>6, <3>7, <3>8
    <2>4. EmptyReadWaited'
      BY <1>1, <2>3 DEF EmptyReadWaited
    <2> QED BY <1>0, <1>1, <2>2, <2>4, SettingsKept
  <1> QED BY <1>3, <1>4, <1>5 DEF Silent, Empty

LEMMA ReadKept ==
  ASSUME IInv, NEW need \in Needs, Read(need)
  PROVE  IInv'
  <1>1. /\ UNCHANGED settings /\ UNCHANGED queued /\ queued' \in 0 .. MaxQueue
        /\ UNCHANGED <<kind, port, config, timeout, blocking>> /\ timeout \in Int
        /\ answer'.why = "none" /\ need \in Nat \ {0}
        /\ blocking = (timeout < 0) /\ driving = NotDriving
    BY BoundAssumption DEF Read, Callable, NoAnswer, IInv, TypeOK, StepInv, settings
  <1>2. call' = [need |-> need, got |-> 0, left |-> timeout, waited |-> 0]
    BY DEF Read
  <1>3. /\ call'.need = need /\ call'.got = 0 /\ call'.left = timeout /\ call'.waited = 0
        /\ call' \in [need : Nat, got : Nat, left : Int, waited : Nat]
    BY <1>1, <1>2
  <1>4. CallInv' /\ EmptyReadWaited'
    BY <1>1, <1>3 DEF CallInv, EmptyReadWaited
  <1>5. WaitInv'
    <2>1. ~blocking => timeout >= 0
      <3>1. ASSUME ~blocking PROVE ~(timeout < 0)
        BY <1>1, <3>1, Zenon
      <3> QED BY <1>1, <3>1
    <2>2. 0 + timeout = timeout
      BY <1>1
    <2> QED BY <1>1, <1>3, <2>1, <2>2 DEF WaitInv
  <1> QED BY <1>1, <1>3, <1>4, <1>5, SettingsKept

LEMMA InterruptKept ==
  ASSUME IInv, Interrupt
  PROVE  IInv'
  <1>1. /\ UNCHANGED settings /\ queued' \in 0 .. MaxQueue
        /\ call' = Idle /\ answer'.why = "interrupt" /\ driving = NotDriving
    BY DEF Interrupt, Return, IInv, TypeOK, DrivingInv
  <1>2. /\ call' \in [need : Nat, got : Nat, left : Int, waited : Nat]
        /\ CallInv' /\ WaitInv' /\ EmptyReadWaited'
    BY <1>1 DEF Idle, CallInv, WaitInv, EmptyReadWaited, Reading
  <1> QED BY <1>1, <1>2, SettingsKept

LEMMA ArriveKept ==
  ASSUME IInv, Arrive
  PROVE  IInv'
  <1>1. /\ UNCHANGED settings /\ UNCHANGED <<call, answer>>
        /\ UNCHANGED <<kind, port, config, timeout, blocking>> /\ queued' \in 0 .. MaxQueue
    BY BoundAssumption DEF Arrive, IInv, TypeOK, settings
  <1>2. call' \in [need : Nat, got : Nat, left : Int, waited : Nat]
    BY <1>1 DEF IInv, TypeOK
  <1>3. CallInv' /\ WaitInv' /\ EmptyReadWaited'
    BY <1>1 DEF IInv, CallInv, WaitInv, EmptyReadWaited, Reading
  <1> QED BY <1>1, <1>2, <1>3, SettingsKept

LEMMA OutsiderKept ==
  ASSUME IInv, Outsider
  PROVE  IInv'
  <1>1. PICK l \in Lines :
          /\ port' = [port EXCEPT ![l] = Level(@ # "on")]
          /\ unseen' = IF driving = NotDriving THEN unseen ELSE unseen \cup {l}
    BY DEF Outsider
  <1>2. port \in PortType /\ Level(port[l] # "on") \in {"on", "off"}
    BY DEF IInv, TypeOK, Level
  <1>3. /\ port' \in PortType /\ port'.step = port.step
        /\ \A g \in Fields : port'[g] = port[g]
        /\ \A g \in Lines \ {l} : port'[g] = port[g]
    BY <1>1, <1>2 DEF PortType, Fields, Lines
  <1>4. /\ UNCHANGED <<kind, queued, config, status, timeout, blocking, driving, asked, before,
                       fate, calls, call, answer>>
        /\ kind = "serial" /\ ~Reading
    BY DEF Outsider
  <1>5. TypeOK'
    BY <1>1, <1>3, <1>4 DEF IInv, TypeOK
  <1>6. CopyInv'
    <2>1. Accounted(config, port, asked, before, fate) /\ \A g \in Fields : config[g] = config[g]
      BY DEF IInv, CopyInv
    <2>2. Accounted(config, port', asked, before, fate)
      BY <1>3, <2>1, SameAccounted
    <2> QED BY <1>4, <2>2 DEF CopyInv
  <1>7. DrivingInv'
    <2>1. ASSUME driving # NotDriving
          PROVE  ~Reading' /\ Seen'
      <3>1. unseen' = unseen \cup {l} /\ Seen
        BY <1>1, <2>1 DEF IInv, DrivingInv
      <3> QED BY <1>3, <1>4, <3>1 DEF Seen, Reading
    <2> QED BY <1>4, <2>1 DEF DrivingInv
  <1>8. CallInv' /\ StepInv' /\ WaitInv' /\ EmptyReadWaited'
    BY <1>3, <1>4 DEF IInv, CallInv, StepInv, WaitInv, EmptyReadWaited, Reading, StepOf
  <1> QED BY <1>5, <1>6, <1>7, <1>8 DEF IInv

LEMMA ClassStepKept ==
  ASSUME IInv, ClassStep
  PROVE  IInv'
  BY SettingKept, KeepingKept, WaitingKept, BeginningKept, DrivingKept, LookingKept, TakingKept,
     SilentKept
     DEF ClassStep, Values


-----------------------------------------------------------------------------
\* The classes make steps of these shapes

Changed(f, n) == [config EXCEPT ![f] = n]

LEMMA ChangedTypes ==
  ASSUME IInv, NEW n
  PROVE  /\ n \in Nat => Changed("baud", n) \in PortType
         /\ n \in 5 .. 8 => Changed("size", n) \in PortType
         /\ n \in {1, 2} => Changed("stop", n) \in PortType
         /\ n \in {"none", "even", "odd"} => Changed("parity", n) \in PortType
  BY DEF Changed, IInv, TypeOK, PortType

LEMMA Sent ==
  ASSUME NEW f \in Fields, NEW n, Set(f, n), Changed(f, n) \in PortType, NEW new \in PortType,
         \A g \in Fields : new[g] = Changed(f, n)[g], Send(f, Changed(f, n), new)
  PROVE  Setting(f, n)
  BY DEF Setting, Changed

\* octave_serial on POSIX.
LEMMA PosixSent ==
  ASSUME IInv, NoHandshake, NEW f \in Fields, NEW n, Posix!Set(f, n), Changed(f, n) \in PortType,
         Posix!Apply(f, Changed(f, n))
  PROVE  Setting(f, n) /\ NoHandshake'
  <1>1. Set(f, n)
    BY DEF Posix!Set, Posix!Called, Posix!Callable, Posix!NoAnswer, Posix!NotDriving,
           Set, Called, Callable, NoAnswer, NotDriving
  <1>2. PICK new : new = [Changed(f, n) EXCEPT !.DTR = port.DTR, !.RTS = port.RTS]
    OBVIOUS
  <1>3. /\ new \in PortType /\ new.RTS = port.RTS
        /\ \A g \in Fields : new[g] = Changed(f, n)[g]
    <2>1. PICK c \in PortType : c = Changed(f, n)
      OBVIOUS
    <2>2. port \in PortType /\ new = [c EXCEPT !.DTR = port.DTR, !.RTS = port.RTS]
      BY <1>2, <2>1 DEF IInv, TypeOK
    <2>3. new \in PortType /\ new.RTS = port.RTS /\ \A g \in Fields : new[g] = c[g]
      BY <2>2 DEF PortType, Fields
    <2> QED BY <2>1, <2>3
  <1>4. Send(f, Changed(f, n), new)
    BY <1>2 DEF Posix!Apply, Posix!Send, Posix!Fated, Posix!Fields, Send, Fated, Fields
  <1>5. Setting(f, n)
    BY <1>1, <1>3, <1>4, Sent
  <1>6. NoHandshake'
    BY <1>1, <1>3, <1>4 DEF Send, Set, NoHandshake
  <1> QED BY <1>5, <1>6

LEMMA PosixWaits ==
  ASSUME IInv, NoHandshake, kind = "serial", NEW t \in Int, Posix!set_timeout(t)
  PROVE  Waiting(t * Tenth, Posix!Step(t) * Tenth) /\ NoHandshake'
         /\ t * Tenth \in Int /\ Posix!Step(t) * Tenth \in Nat
  <1>1. PICK s \in Nat : s = Posix!Step(t) * Tenth
    BY DEF Posix!Step, Tenth
  <1>2. t >= 0 => StepOf(kind, t * Tenth, s)
    BY <1>1 DEF StepOf, Posix!Step, Tenth
  <1>3. /\ Called("timeout") /\ timeout' = t * Tenth /\ blocking' = (t < 0)
        /\ UNCHANGED <<kind, queued, status, driving, asked, before, unseen, call>>
        /\ Posix!Apply("step", [config EXCEPT !.step = s])
    BY <1>1 DEF Posix!set_timeout, Posix!Called, Posix!Callable, Posix!NoAnswer,
                Posix!NotDriving, Posix!Tenth, Tenth, Called, Callable, NoAnswer, NotDriving
  <1>4. PICK c \in PortType : c = [config EXCEPT !.step = s] /\ \A g \in Fields : c[g] = config[g]
    <2>1. PICK c : c = [config EXCEPT !.step = s]
      OBVIOUS
    <2>2. c \in PortType /\ \A g \in Fields : c[g] = config[g]
      BY <2>1, StepChange DEF IInv, TypeOK
    <2> QED BY <2>1, <2>2
  <1>5. PICK new : new = [c EXCEPT !.DTR = port.DTR, !.RTS = port.RTS]
    OBVIOUS
  <1>6. new \in PortType /\ new.RTS = port.RTS /\ \A g \in Fields : new[g] = c[g]
    BY <1>5 DEF PortType, Fields, IInv, TypeOK
  <1>7. Send("step", c, new)
    BY <1>3, <1>4, <1>5 DEF Posix!Apply, Posix!Send, Posix!Fated, Posix!Fields, Send, Fated,
                            Fields
  <1>8. (t < 0) = (t * Tenth < 0) /\ t * Tenth \in Int /\ (t * Tenth >= 0 => t >= 0)
    BY DEF Tenth
  <1>9. config' = [config EXCEPT !.step = s]
    BY <1>4, <1>7 DEF Send
  <1>10. \E m \in PortType :
           /\ \A g \in Fields : m[g] = config[g]
           /\ Send("step", [config EXCEPT !.step = s], m)
    BY <1>4, <1>6, <1>7
  <1>11. Waiting(t * Tenth, s)
    BY <1>1, <1>2, <1>3, <1>8, <1>9, <1>10 DEF Waiting
  <1>12. NoHandshake'
    BY <1>3, <1>6, <1>7 DEF Send, NoHandshake
  <1> QED BY <1>1, <1>8, <1>11, <1>12

LEMMA PosixBegins ==
  ASSUME IInv, NoHandshake, kind = "serial", NEW l \in Lines, NEW on \in BOOLEAN,
         Posix!set_control_line(l, on)
  PROVE  Beginning(l, on) /\ NoHandshake'
  <1>1. /\ Drive(l, on) /\ UNCHANGED <<config, fate>>
        /\ \/ status' = LinesOn /\ unseen' = {}
           \/ status' = status /\ unseen' = Lines
    BY DEF Posix!set_control_line, Posix!Drive, Posix!Called, Posix!Callable, Posix!NoAnswer,
           Posix!NotDriving, Posix!LinesOn, Posix!Lines, Drive, Called, Callable, NoAnswer,
           NotDriving, LinesOn, Lines
  <1>2. status' \subseteq Lines /\ unseen' \subseteq Fields \cup Lines
    BY <1>1 DEF LinesOn, IInv, TypeOK
  <1>3. UNCHANGED <<kind, port>>
    BY <1>1 DEF Drive
  <1>4. Seen'
    BY <1>1, <1>3 DEF Seen, LinesOn
  <1>5. Refreshes(config, fate, port, config', fate')
    BY <1>1 DEF Refreshes
  <1> QED BY <1>1, <1>2, <1>3, <1>4, <1>5 DEF Beginning, NoHandshake

LEMMA PosixDrives ==
  ASSUME IInv, NoHandshake, kind = "serial", Posix!DriveLine
  PROVE  Driving /\ NoHandshake'
  <1>1. PICK l \in Lines, on \in BOOLEAN : driving = [line |-> l, on |-> on]
    BY DEF Posix!DriveLine, Posix!NotDriving, NotDriving, IInv, TypeOK
  <1>2. driving.line = l /\ driving.on = on
    BY <1>1
  <1>3. PICK new : new = IF on THEN status \cup {l} ELSE status \ {l}
    OBVIOUS
  <1>4. PICK d : d = [port EXCEPT !.DTR = Level("DTR" \in new), !.RTS = Level("RTS" \in new)]
    OBVIOUS
  <1>5. /\ driving # NotDriving /\ driving' = NotDriving /\ unseen' = {}
        /\ port' \in {port, d} /\ status' \in {new, {m \in Lines : port'[m] = "on"}}
        /\ UNCHANGED <<kind, queued, config, timeout, blocking, asked, before, fate, calls, call,
                       answer>>
    BY <1>2, <1>3, <1>4 DEF Posix!DriveLine, Posix!NotDriving, NotDriving, Posix!Driven,
                            Posix!Level, Level, Posix!Lines, Lines
  <1>6. status' \subseteq Lines
    <2>1. new \subseteq Lines
      BY <1>3 DEF IInv, TypeOK
    <2> QED BY <1>5, <2>1
  <1>7. port \in PortType /\ port.DTR \in {"on", "off"} /\ port.RTS \in {"on", "off"}
    BY DEF NoHandshake, IInv, TypeOK, PortType
  <1>8. Level("DTR" \in new) \in {"on", "off"} /\ Level("RTS" \in new) \in {"on", "off"}
    BY DEF Level
  <1>9. /\ d \in PortType /\ d.RTS # "handshake" /\ d.step = port.step
        /\ \A g \in Fields : d[g] = port[g]
        /\ d["DTR"] = Level("DTR" \in new) /\ d["RTS"] = Level("RTS" \in new)
    BY <1>4, <1>7, <1>8 DEF PortType, Fields
  <1>10. d[l] = Level(on)
    BY <1>3, <1>9 DEF Lines, Level
  <1>11. ASSUME NEW m \in Lines \ ({l} \cup unseen)
         PROVE  d[m] = port[m]
    <2>1. m \in new <=> port[m] = "on"
      BY <1>3, <1>5 DEF IInv, DrivingInv, Seen
    <2>2. d[m] = Level(m \in new) /\ port[m] \in {"on", "off"}
      BY <1>7, <1>9 DEF Lines
    <2> QED BY <2>1, <2>2 DEF Level
  <1>12. port' \in PortType /\ port'.RTS # "handshake" /\ \A g \in Fields : port'[g] = port[g]
    BY <1>5, <1>7, <1>9
  <1>13. Writes(port')
    <2>1. Writes(port)
      BY DEF Writes
    <2>2. Writes(d)
      BY <1>2, <1>9, <1>10, <1>11 DEF Writes
    <2> QED BY <1>5, <2>1, <2>2
  <1>14. Refreshes(config, fate, port', config', fate')
    BY <1>5 DEF Refreshes
  <1>15. Driving
    BY <1>5, <1>6, <1>12, <1>13, <1>14 DEF Driving, IInv, TypeOK
  <1> QED BY <1>12, <1>15 DEF NoHandshake

LEMMA PosixStep ==
  ASSUME IInv, NoHandshake, kind = "serial", Posix!Next
  PROVE  ClassStep /\ NoHandshake'
  <1>1. ASSUME NEW b \in Bauds, Posix!srl_baudrate(b)
        PROVE  ClassStep /\ NoHandshake'
    <2>1. b \in Nat /\ "baud" \in Fields
      BY ValueAssumption DEF Fields
    <2>2. Posix!Set("baud", b) /\ Posix!Apply("baud", Changed("baud", b))
      BY <1>1 DEF Posix!srl_baudrate, Posix!set_baudrate, Changed
    <2>3. Changed("baud", b) \in PortType
      BY <2>1, ChangedTypes
    <2>4. Setting("baud", b) /\ NoHandshake'
      BY <2>1, <2>2, <2>3, PosixSent
    <2> QED BY <2>1, <2>4 DEF ClassStep, Values
  <1>2. ASSUME NEW m \in Stopbits, Posix!srl_stopbits(m)
        PROVE  ClassStep /\ NoHandshake'
    <2>1. PICK n \in {1, 2} :
            Posix!Set("stop", n) /\ Posix!Apply("stop", Changed("stop", n))
      BY <1>2 DEF Posix!srl_stopbits, Posix!set_stopbits, Changed
    <2>2. "stop" \in Fields /\ n \in Nat
      BY <2>1 DEF Fields
    <2>3. Changed("stop", n) \in PortType
      BY <2>1, ChangedTypes
    <2>4. Setting("stop", n) /\ NoHandshake'
      BY <2>1, <2>2, <2>3, PosixSent
    <2> QED BY <2>2, <2>4 DEF ClassStep, Values
  <1>3. ASSUME NEW m \in Sizes, Posix!srl_bytesize(m)
        PROVE  ClassStep /\ NoHandshake'
    <2>1. PICK n \in 5 .. 8 :
            Posix!Set("size", n) /\ Posix!Apply("size", Changed("size", n))
      BY <1>3 DEF Posix!srl_bytesize, Posix!set_bytesize, Changed
    <2>2. "size" \in Fields /\ n \in Nat
      BY <2>1 DEF Fields
    <2>3. Changed("size", n) \in PortType
      BY <2>1, ChangedTypes
    <2>4. Setting("size", n) /\ NoHandshake'
      BY <2>1, <2>2, <2>3, PosixSent
    <2> QED BY <2>2, <2>4 DEF ClassStep, Values
  <1>4. ASSUME NEW p \in Parities, Posix!srl_parity(p)
        PROVE  ClassStep /\ NoHandshake'
    <2>1. p \in {"none", "even", "odd"} /\ "parity" \in Fields
      BY ValueAssumption DEF Fields
    <2>2. Posix!Set("parity", p) /\ Posix!Apply("parity", Changed("parity", p))
      BY <1>4 DEF Posix!srl_parity, Posix!set_parity, Changed
    <2>3. Changed("parity", p) \in PortType
      BY <2>1, ChangedTypes
    <2>4. Setting("parity", p) /\ NoHandshake'
      BY <2>1, <2>2, <2>3, PosixSent
    <2> QED BY <2>1, <2>4 DEF ClassStep, Values
  <1>5. ASSUME NEW m \in Tenths, Posix!srl_timeout(m)
        PROVE  ClassStep /\ NoHandshake'
    <2>1. PICK t \in Int : Posix!set_timeout(t)
      BY <1>5 DEF Posix!srl_timeout, Posix!set_timeout
    <2> QED BY <2>1, PosixWaits DEF ClassStep, Values
  <1>6. ASSUME NEW on \in BOOLEAN, Posix!srl_requesttosend(on) \/ Posix!srl_dataterminalready(on)
        PROVE  ClassStep /\ NoHandshake'
    <2>1. PICK l \in Lines : Posix!set_control_line(l, on)
      BY <1>6 DEF Posix!srl_requesttosend, Posix!srl_dataterminalready, Lines
    <2> QED BY <2>1, PosixBegins DEF ClassStep
  <1>10. ASSUME Posix!DriveLine
         PROVE  ClassStep /\ NoHandshake'
    BY <1>10, PosixDrives DEF ClassStep
  <1>7. ASSUME Posix!srl_pinstatus
        PROVE  ClassStep /\ NoHandshake'
    <2>1. /\ Callable /\ answer'.why = "none" /\ status' \subseteq Lines
          /\ UNCHANGED <<kind, port, queued, config, timeout, blocking, driving, asked, before,
                         fate, unseen, calls, call>>
      BY <1>7 DEF Posix!srl_pinstatus, Posix!Callable, Callable, Posix!NoAnswer,
                  Posix!NotDriving, NotDriving, Posix!get_control_line_status,
                  Posix!LinesOn, Posix!Lines, Lines, IInv, TypeOK
    <2>2. Looking
      BY <2>1 DEF Looking, Refreshes, IInv, TypeOK
    <2> QED BY <2>1, <2>2 DEF ClassStep, NoHandshake
  <1>8. ASSUME Posix!ReadLoop
        PROVE  ClassStep /\ NoHandshake'
    <2>1. UNCHANGED settings
      BY <1>8 DEF Posix!ReadLoop, Posix!ReadSome, Posix!ReadNothing, Posix!Took, Posix!Empty,
                  Posix!settings, settings
    <2>2. CASE Posix!ReadSome
      <3>1. PICK k : k = Smaller(queued, call.need - call.got)
        OBVIOUS
      <3>2. Reading /\ queued > 0 /\ Took(k, 0)
        BY <2>2, <3>1 DEF Posix!ReadSome, Posix!Took, Posix!Return, Posix!settings, Posix!Idle,
             Posix!Smaller, Posix!Reading, Took, Return, settings, Idle, Smaller, Reading
      <3>3. k \in 1 .. queued /\ k <= call.need - call.got
        BY <3>1, <3>2, BoundAssumption DEF Smaller, IInv, TypeOK, CallInv
      <3>4. Taking(k, 0) /\ k \in Nat
        BY <3>2, <3>3 DEF Taking
      <3> QED BY <2>1, <3>4 DEF ClassStep, NoHandshake, settings
    <2>3. CASE Posix!ReadNothing
      <3>1. Reading /\ Empty(call.left - config.step)
        BY <2>3 DEF Posix!ReadNothing, Posix!Empty, Posix!Return, Posix!settings, Posix!Idle,
             Posix!Reading, Empty, Return, settings, Idle, Reading
      <3>2. call.left - config.step + 0 = call.left - config.step
        BY DEF IInv, TypeOK, PortType
      <3>3. Silent(0)
        BY <3>1, <3>2 DEF Silent
      <3> QED BY <2>1, <3>3 DEF ClassStep, NoHandshake, settings
    <2> QED BY <1>8, <2>2, <2>3 DEF Posix!ReadLoop
  <1>9. ASSUME NEW q \in 0 .. 2, Posix!srl_flush(q)
        PROVE  ClassStep /\ NoHandshake'
    <2>1. /\ Callable /\ answer'.why = "none" /\ queued' \in {queued, 0}
          /\ UNCHANGED settings /\ UNCHANGED call
      BY <1>9 DEF Posix!srl_flush, Posix!flush, Posix!Callable, Callable, Posix!NoAnswer,
                  Posix!NotDriving, NotDriving, Posix!settings, settings
    <2>2. Looking
      BY <2>1, BoundAssumption DEF Looking, Refreshes, IInv, TypeOK, settings
    <2> QED BY <2>1, <2>2 DEF ClassStep, NoHandshake, settings
  <1> QED BY <1>1, <1>2, <1>3, <1>4, <1>5, <1>6, <1>7, <1>8, <1>9, <1>10
    DEF Posix!Next, Posix!Setters


\* octave_serial on Windows.
LEMMA WindowsSent ==
  ASSUME IInv, kind = "serial_win32", NEW f \in Fields, NEW n, Windows!Set(f, n),
         Changed(f, n) \in PortType, Windows!Apply(f, Changed(f, n))
  PROVE  Setting(f, n) /\ NoHandshake'
  <1>1. Set(f, n)
    BY DEF Windows!Set, Windows!Called, Windows!Callable, Windows!NoAnswer, Windows!NotDriving,
           Set, Called, Callable, NoAnswer, NotDriving
  <1>2. PICK new : new = [Changed(f, n) EXCEPT !.step = port.step]
    OBVIOUS
  <1>3. /\ new \in PortType
        /\ \A g \in Fields : new[g] = Changed(f, n)[g]
    <2>1. PICK c \in PortType : c = Changed(f, n)
      OBVIOUS
    <2>2. port.step \in Nat /\ new = [c EXCEPT !.step = port.step]
      BY <1>2, <2>1 DEF IInv, TypeOK, PortType
    <2>3. new \in PortType /\ \A g \in Fields : new[g] = c[g]
      BY <2>2, StepChange
    <2> QED BY <2>1, <2>3
  <1>4. Send(f, Changed(f, n), new)
    BY <1>2 DEF Windows!Apply, Windows!Send, Windows!Fated, Windows!Fields, Send, Fated, Fields
  <1>5. Setting(f, n)
    BY <1>1, <1>3, <1>4, Sent
  <1> QED BY <1>1, <1>5 DEF Set, NoHandshake

LEMMA WindowsWaits ==
  ASSUME IInv, kind = "serial_win32", NEW t \in Int, Windows!set_timeout(t)
  PROVE  NoHandshake' /\ \E u \in Int, s \in Nat : Waiting(u, s)
  <1>1. PICK s \in Nat, u \in Int : s = Windows!Step(t) * Tenth /\ u = t * Tenth
    BY DEF Windows!Step, Tenth
  <1>2. u >= 0 => StepOf(kind, u, s)
    BY <1>1 DEF StepOf, Windows!Step, Tenth
  <1>3. (t < 0) = (u < 0)
    BY <1>1 DEF Tenth
  <1>4. PICK c : c = [config EXCEPT !.step = s]
    OBVIOUS
  <1>5. PICK new : new = [port EXCEPT !.step = s]
    OBVIOUS
  <1>6. /\ c.step = s
        /\ new \in PortType /\ \A g \in Fields : new[g] = port[g]
    BY <1>4, <1>5, StepChange DEF IInv, TypeOK
  <1>7. /\ Called("timeout") /\ timeout' = u /\ blocking' = (t < 0)
        /\ UNCHANGED <<kind, queued, status, driving, asked, before, fate, unseen, call>>
        /\ config' = c /\ port' \in {port, new}
    BY <1>1, <1>4, <1>5, <1>6
       DEF Windows!set_timeout, Windows!Called, Windows!Callable, Windows!NoAnswer,
           Windows!NotDriving, Windows!Tenth, Tenth, Called, Callable, NoAnswer, NotDriving
  <1>8. \E m \in PortType :
          port' \in {port, m} /\ fate' = fate /\ \A g \in Fields : m[g] = port[g]
    BY <1>6, <1>7
  <1>9. Waiting(u, s)
    BY <1>1, <1>2, <1>3, <1>4, <1>7, <1>8 DEF Waiting
  <1> QED BY <1>7, <1>9 DEF NoHandshake

LEMMA WindowsBegins ==
  ASSUME IInv, kind = "serial_win32", NEW l \in Lines, NEW on \in BOOLEAN,
         Windows!set_control_line(l, on)
  PROVE  Beginning(l, on) /\ NoHandshake'
  <1>1. PICK c : c = [port EXCEPT !.step = config.step]
    OBVIOUS
  <1>2. /\ Drive(l, on) /\ UNCHANGED status
        /\ \/ config' = c /\ fate' = Dropped(fate) /\ unseen' = {}
           \/ UNCHANGED <<config, fate>> /\ unseen' = Fields \cup Lines
    BY <1>1 DEF Windows!set_control_line, Windows!Drive, Windows!Called, Windows!Callable,
           Windows!NoAnswer, Windows!NotDriving, Windows!Refreshed, Windows!Dropped,
           Windows!Fields, Windows!Lines, Drive, Called, Callable, NoAnswer, NotDriving, Dropped,
           Fields, Lines
  <1>3. UNCHANGED <<kind, port>>
    BY <1>2 DEF Drive
  <1>4. \A g \in Fields \cup Lines : c[g] = port[g]
    <2>1. port \in PortType /\ config.step \in Nat
      BY DEF IInv, TypeOK, PortType
    <2> QED BY <1>1, <2>1, StepChange
  <1>5. Seen'
    BY <1>2, <1>3, <1>4 DEF Seen
  <1>6. Refreshes(config, fate, port, config', fate')
    BY <1>1, <1>2 DEF Refreshes
  <1>7. status' \subseteq Lines /\ unseen' \subseteq Fields \cup Lines
    BY <1>2 DEF IInv, TypeOK
  <1> QED BY <1>2, <1>3, <1>5, <1>6, <1>7 DEF Beginning, NoHandshake

LEMMA WindowsDrives ==
  ASSUME IInv, kind = "serial_win32", Windows!DriveLine
  PROVE  Driving /\ NoHandshake'
  <1>1. PICK l \in Lines, on \in BOOLEAN : driving = [line |-> l, on |-> on]
    BY DEF Windows!DriveLine, Windows!NotDriving, NotDriving, IInv, TypeOK
  <1>2. driving.line = l /\ driving.on = on
    BY <1>1
  <1>3. PICK c : c = [config EXCEPT ![l] = Level(on)]
    OBVIOUS
  <1>4. PICK d : d = [c EXCEPT !.step = port.step]
    OBVIOUS
  <1>5. /\ driving # NotDriving /\ driving' = NotDriving /\ unseen' = {}
        /\ UNCHANGED <<kind, queued, status, timeout, blocking, asked, before, calls, call,
                       answer>>
    BY DEF Windows!DriveLine, Windows!NotDriving, NotDriving
  <1>6. /\ config \in PortType /\ port \in PortType /\ port.step \in Nat
        /\ config.step \in Nat /\ Level(on) \in {"on", "off"} /\ l \in {"DTR", "RTS"}
    BY DEF IInv, TypeOK, PortType, Level, Lines
  <1>7. /\ c \in PortType /\ c.step = config.step /\ c[l] = Level(on)
        /\ \A g \in (Fields \cup Lines) \ {l} : c[g] = config[g]
    BY <1>3, <1>6 DEF PortType, Fields, Lines
  <1>8. d \in PortType /\ d.step = port.step /\ \A g \in Fields \cup Lines : d[g] = c[g]
    BY <1>4, <1>6, <1>7, StepChange
  <1>9. \A g \in Fields : g # l
    BY DEF Fields, Lines
  <1>10. Writes(d)
    <2>1. d[l] = Level(on) /\ d["step"] = port["step"]
      BY <1>7, <1>8
    <2>2. ASSUME NEW m \in (Fields \cup Lines) \ ({l} \cup unseen)
          PROVE  d[m] = port[m]
      BY <1>5, <1>7, <1>8 DEF IInv, DrivingInv, Seen
    <2> QED BY <1>2, <2>1, <2>2 DEF Writes
  <1>11. Writes(port)
    BY DEF Writes
  <1>12. PICK taken \in BOOLEAN, reread \in BOOLEAN :
           /\ port' = IF taken THEN d ELSE port
           /\ config' = IF reread THEN [port' EXCEPT !.step = config.step] ELSE c
           /\ LET F == IF taken THEN Fated(l, "applied") ELSE fate
              IN  fate' = IF reread THEN Dropped(F) ELSE F
    BY <1>2, <1>3, <1>4
       DEF Windows!DriveLine, Windows!Level, Windows!Fated, Windows!Fields, Windows!Dropped,
           Level, Fated, Fields, Dropped
  <1>13. /\ port' \in PortType /\ Writes(port')
         /\ \A g \in Fields : port'[g] = IF taken THEN config[g] ELSE port[g]
    BY <1>6, <1>7, <1>8, <1>9, <1>10, <1>11, <1>12
  <1>14. PICK F \in {fate, Fated(l, "applied")} :
           /\ \A g \in Fields : port'[g] = IF F = fate THEN port[g] ELSE config[g]
           /\ Refreshes(c, F, port', config', fate')
    <2>1. ASSUME taken, Fated(l, "applied") = fate
          PROVE  \A g \in Fields : config[g] = port[g]
      <3>1. Accounted(config, port, asked, before, fate)
        BY DEF IInv, CopyInv
      <3>2. ASSUME NEW g \in Fields
            PROVE  fate[g] \in {"applied", "dropped"}
        <4>1. Fated(l, "applied")[g] = IF fate[g] # "dropped" THEN "applied" ELSE fate[g]
          BY <1>9 DEF Fated
        <4> QED BY <2>1, <4>1
      <3> QED BY <3>1, <3>2 DEF Accounted
    <2>2. CASE taken
      <3>1. Refreshes(c, Fated(l, "applied"), port', config', fate')
        BY <1>7, <1>12, <2>2 DEF Refreshes
      <3> QED BY <1>13, <2>1, <2>2, <3>1
    <2>3. CASE ~taken
      <3>1. Refreshes(c, fate, port', config', fate')
        BY <1>7, <1>12, <2>3 DEF Refreshes
      <3> QED BY <1>13, <2>3, <3>1
    <2> QED BY <2>2, <2>3
  <1>15. \A g \in Fields : c[g] = config[g]
    BY <1>7, <1>9
  <1>16. status' \subseteq Lines
    BY <1>5 DEF IInv, TypeOK
  <1>17. Driving
    BY <1>2, <1>5, <1>7, <1>13, <1>14, <1>15, <1>16 DEF Driving
  <1> QED BY <1>5, <1>17 DEF NoHandshake

LEMMA WindowsStep ==
  ASSUME IInv, kind = "serial_win32", Windows!Next
  PROVE  ClassStep /\ NoHandshake'
  <1>1. ASSUME NEW m \in Bauds, Windows!set_baudrate(m)
        PROVE  ClassStep /\ NoHandshake'
    <2>1. PICK n \in Nat :
            Windows!Set("baud", n) /\ Windows!Apply("baud", Changed("baud", n))
      BY <1>1, ValueAssumption DEF Windows!set_baudrate, Changed
    <2>2. "baud" \in Fields /\ n \in Values
      BY <2>1 DEF Fields, Values
    <2>3. Changed("baud", n) \in PortType
      BY <2>1, ChangedTypes
    <2>4. Setting("baud", n) /\ NoHandshake'
      BY <2>1, <2>2, <2>3, WindowsSent
    <2> QED BY <2>2, <2>4 DEF ClassStep
  <1>2. ASSUME NEW m \in Stopbits, Windows!set_stopbits(Windows!AsUnsignedShort(m))
        PROVE  ClassStep /\ NoHandshake'
    <2>1. PICK n \in {1, 2} :
            Windows!Set("stop", n) /\ Windows!Apply("stop", Changed("stop", n))
      BY <1>2, ValueAssumption DEF Windows!set_stopbits, Changed
    <2>2. "stop" \in Fields /\ n \in Values
      BY <2>1 DEF Fields, Values
    <2>3. Changed("stop", n) \in PortType
      BY <2>1, ChangedTypes
    <2>4. Setting("stop", n) /\ NoHandshake'
      BY <2>1, <2>2, <2>3, WindowsSent
    <2> QED BY <2>2, <2>4 DEF ClassStep
  <1>3. ASSUME NEW m \in Sizes, Windows!set_bytesize(Windows!AsUnsignedShort(m))
        PROVE  ClassStep /\ NoHandshake'
    <2>1. PICK n \in 5 .. 8 :
            Windows!Set("size", n) /\ Windows!Apply("size", Changed("size", n))
      BY <1>3, ValueAssumption DEF Windows!set_bytesize, Changed
    <2>2. "size" \in Fields /\ n \in Values
      BY <2>1 DEF Fields, Values
    <2>3. Changed("size", n) \in PortType
      BY <2>1, ChangedTypes
    <2>4. Setting("size", n) /\ NoHandshake'
      BY <2>1, <2>2, <2>3, WindowsSent
    <2> QED BY <2>2, <2>4 DEF ClassStep
  <1>4. ASSUME NEW m \in Parities, Windows!set_parity(m)
        PROVE  ClassStep /\ NoHandshake'
    <2>1. PICK n \in {"none", "even", "odd"} :
            Windows!Set("parity", n) /\ Windows!Apply("parity", Changed("parity", n))
      BY <1>4, ValueAssumption DEF Windows!set_parity, Changed
    <2>2. "parity" \in Fields /\ n \in Values
      BY <2>1 DEF Fields, Values
    <2>3. Changed("parity", n) \in PortType
      BY <2>1, ChangedTypes
    <2>4. Setting("parity", n) /\ NoHandshake'
      BY <2>1, <2>2, <2>3, WindowsSent
    <2> QED BY <2>2, <2>4 DEF ClassStep
  <1>5. ASSUME NEW m \in Tenths, Windows!set_timeout(Windows!AsShort(m))
        PROVE  ClassStep /\ NoHandshake'
    <2>1. PICK t \in Int : Windows!set_timeout(t)
      BY <1>5, ValueAssumption DEF Windows!set_timeout
    <2> QED BY <2>1, WindowsWaits DEF ClassStep
  <1>6. ASSUME NEW l \in Lines, NEW on \in BOOLEAN, Windows!set_control_line(l, on)
        PROVE  ClassStep /\ NoHandshake'
    BY <1>6, WindowsBegins DEF ClassStep
  <1>10. ASSUME Windows!DriveLine
         PROVE  ClassStep /\ NoHandshake'
    BY <1>10, WindowsDrives DEF ClassStep
  <1>7. ASSUME Windows!srl_pinstatus
        PROVE  ClassStep /\ NoHandshake'
    <2>1. /\ Callable /\ answer'.why = "none"
          /\ \/ config' = [port EXCEPT !.step = config.step] /\ fate' = Dropped(fate)
             \/ UNCHANGED <<config, fate>>
          /\ UNCHANGED <<kind, port, queued, status, timeout, blocking, driving, asked, before,
                         unseen, calls, call>>
      BY <1>7 DEF Windows!srl_pinstatus, Windows!Callable, Callable, Windows!NoAnswer,
                  Windows!NotDriving, NotDriving, Windows!Refreshed, Windows!get_control_line_status,
                  Windows!Dropped, Windows!Fields, Dropped, Fields
    <2>2. Looking
      BY <2>1 DEF Looking, Refreshes, IInv, TypeOK
    <2> QED BY <2>1, <2>2 DEF ClassStep, NoHandshake
  <1>8. ASSUME Windows!ReadLoop
        PROVE  ClassStep /\ NoHandshake'
    <2>1. UNCHANGED settings
      BY <1>8 DEF Windows!ReadLoop, Windows!ReadSome, Windows!ReadNothing, Windows!Took,
                  Windows!Empty,
                  Windows!settings, settings
    <2>2. CASE Windows!ReadSome
      <3>1. PICK k, time : /\ k = Smaller(queued, call.need - call.got)
                           /\ time = IF k = call.need - call.got \/ blocking THEN 0 ELSE port.step
        OBVIOUS
      <3>2. Reading /\ queued > 0 /\ Took(k, time)
        BY <2>2, <3>1 DEF Windows!ReadSome, Windows!Took, Windows!Return, Windows!settings,
                          Windows!Idle,
             Windows!Smaller, Windows!Reading, Took, Return, settings, Idle, Smaller, Reading
      <3>3. k \in 1 .. queued /\ k <= call.need - call.got
        BY <3>1, <3>2, BoundAssumption DEF Smaller, IInv, TypeOK, CallInv
      <3>4. port.step \in Nat /\ k \in Nat
        BY <3>3 DEF IInv, TypeOK, PortType
      <3>5. time \in Nat
        BY <3>1, <3>4
      <3>6. Taking(k, time)
        BY <3>2, <3>3, <3>5 DEF Taking
      <3> QED BY <2>1, <3>4, <3>5, <3>6 DEF ClassStep, NoHandshake, settings
    <2>3. CASE Windows!ReadNothing
      <3>1. Reading /\ Empty(call.left - config.step)
        BY <2>3 DEF Windows!ReadNothing, Windows!Empty, Windows!Return, Windows!settings,
                    Windows!Idle,
             Windows!Reading, Empty, Return, settings, Idle, Reading
      <3>2. call.left - config.step + 0 = call.left - config.step
        BY DEF IInv, TypeOK, PortType
      <3>3. Silent(0)
        BY <3>1, <3>2 DEF Silent
      <3> QED BY <2>1, <3>3 DEF ClassStep, NoHandshake, settings
    <2> QED BY <1>8, <2>2, <2>3 DEF Windows!ReadLoop
  <1>9. ASSUME NEW q \in 0 .. 2, Windows!flush(q)
        PROVE  ClassStep /\ NoHandshake'
    <2>1. /\ Callable /\ answer'.why = "none" /\ queued' \in {queued, 0}
          /\ UNCHANGED settings /\ UNCHANGED call
      BY <1>9 DEF Windows!flush, Windows!Callable, Callable, Windows!NoAnswer,
                  Windows!NotDriving, NotDriving, Windows!settings, settings
    <2>2. Looking
      BY <2>1, BoundAssumption DEF Looking, Refreshes, IInv, TypeOK, settings
    <2> QED BY <2>1, <2>2 DEF ClassStep, NoHandshake, settings
  <1> QED BY <1>1, <1>2, <1>3, <1>4, <1>5, <1>6, <1>7, <1>8, <1>9, <1>10
    DEF Windows!Next, Windows!Setters, Windows!Lines, Lines

\* octave_serialport on Windows.
LEMMA SerialportSent ==
  ASSUME IInv, kind = "serialport_win32", NEW f \in Fields, NEW n, Serialport!Set(f, n),
         Changed(f, n) \in PortType, Serialport!Apply(f, Changed(f, n))
  PROVE  Setting(f, n) /\ NoHandshake'
  <1>1. Set(f, n)
    BY DEF Serialport!Set, Serialport!Called, Serialport!Callable, Serialport!NoAnswer,
           Serialport!NotDriving, Set, Called, Callable, NoAnswer, NotDriving
  <1>2. PICK new : new = [Changed(f, n) EXCEPT !.step = port.step]
    OBVIOUS
  <1>3. /\ new \in PortType
        /\ \A g \in Fields : new[g] = Changed(f, n)[g]
    <2>1. PICK c \in PortType : c = Changed(f, n)
      OBVIOUS
    <2>2. port.step \in Nat /\ new = [c EXCEPT !.step = port.step]
      BY <1>2, <2>1 DEF IInv, TypeOK, PortType
    <2>3. new \in PortType /\ \A g \in Fields : new[g] = c[g]
      BY <2>2, StepChange
    <2> QED BY <2>1, <2>3
  <1>4. Send(f, Changed(f, n), new)
    BY <1>2 DEF Serialport!Apply, Serialport!Send, Serialport!Fated, Serialport!Fields, Send,
                Fated, Fields
  <1>5. Setting(f, n)
    BY <1>1, <1>3, <1>4, Sent
  <1> QED BY <1>1, <1>5 DEF Set, NoHandshake

LEMMA SerialportWaits ==
  ASSUME IInv, kind = "serialport_win32", NEW t \in Int, Serialport!set_timeout(t)
  PROVE  NoHandshake' /\ \E u \in Int, s \in Nat : Waiting(u, s)
  <1>1. PICK s \in Nat, u \in Int : s = Serialport!Step(t) /\ u = t
    BY DEF Serialport!Step, Serialport!Smaller, Serialport!Tick
  <1>2. u >= 0 => StepOf(kind, u, s)
    BY <1>1 DEF StepOf, Serialport!Step, Serialport!Smaller, Serialport!Tick
  <1>3. (t < 0) = (u < 0)
    BY <1>1
  <1>4. PICK c : c = [config EXCEPT !.step = s]
    OBVIOUS
  <1>5. PICK new : new = [port EXCEPT !.step = s]
    OBVIOUS
  <1>6. /\ c.step = s
        /\ new \in PortType /\ \A g \in Fields : new[g] = port[g]
    BY <1>4, <1>5, StepChange DEF IInv, TypeOK
  <1>7. /\ Called("timeout") /\ timeout' = u /\ blocking' = (t < 0)
        /\ UNCHANGED <<kind, queued, status, driving, asked, before, fate, unseen, call>>
        /\ config' = c /\ port' \in {port, new}
    BY <1>1, <1>4, <1>5, <1>6
       DEF Serialport!set_timeout, Serialport!Called, Serialport!Callable, Serialport!NoAnswer,
           Serialport!NotDriving, Serialport!Tenth, Tenth, Called, Callable, NoAnswer, NotDriving
  <1>8. \E m \in PortType :
          port' \in {port, m} /\ fate' = fate /\ \A g \in Fields : m[g] = port[g]
    BY <1>6, <1>7
  <1>9. Waiting(u, s)
    BY <1>1, <1>2, <1>3, <1>4, <1>7, <1>8 DEF Waiting
  <1> QED BY <1>7, <1>9 DEF NoHandshake

LEMMA SerialportBegins ==
  ASSUME IInv, kind = "serialport_win32", NEW l \in Lines, NEW on \in BOOLEAN,
         Serialport!set_control_line(l, on)
  PROVE  Beginning(l, on) /\ NoHandshake'
  <1>1. PICK c : c = [port EXCEPT !.step = config.step]
    OBVIOUS
  <1>2. /\ Drive(l, on) /\ UNCHANGED status
        /\ \/ config' = c /\ fate' = Dropped(fate) /\ unseen' = {}
           \/ UNCHANGED <<config, fate>> /\ unseen' = Fields \cup Lines
    BY <1>1 DEF Serialport!set_control_line, Serialport!Drive, Serialport!Called, Serialport!Callable,
           Serialport!NoAnswer, Serialport!NotDriving, Serialport!Refreshed, Serialport!Dropped,
           Serialport!Fields, Serialport!Lines, Drive, Called, Callable, NoAnswer, NotDriving, Dropped,
           Fields, Lines
  <1>3. UNCHANGED <<kind, port>>
    BY <1>2 DEF Drive
  <1>4. \A g \in Fields \cup Lines : c[g] = port[g]
    <2>1. port \in PortType /\ config.step \in Nat
      BY DEF IInv, TypeOK, PortType
    <2> QED BY <1>1, <2>1, StepChange
  <1>5. Seen'
    BY <1>2, <1>3, <1>4 DEF Seen
  <1>6. Refreshes(config, fate, port, config', fate')
    BY <1>1, <1>2 DEF Refreshes
  <1>7. status' \subseteq Lines /\ unseen' \subseteq Fields \cup Lines
    BY <1>2 DEF IInv, TypeOK
  <1> QED BY <1>2, <1>3, <1>5, <1>6, <1>7 DEF Beginning, NoHandshake

LEMMA SerialportDrives ==
  ASSUME IInv, kind = "serialport_win32", Serialport!DriveLine
  PROVE  Driving /\ NoHandshake'
  <1>1. PICK l \in Lines, on \in BOOLEAN : driving = [line |-> l, on |-> on]
    BY DEF Serialport!DriveLine, Serialport!NotDriving, NotDriving, IInv, TypeOK
  <1>2. driving.line = l /\ driving.on = on
    BY <1>1
  <1>3. PICK c : c = [config EXCEPT ![l] = Level(on)]
    OBVIOUS
  <1>4. PICK d : d = [c EXCEPT !.step = port.step]
    OBVIOUS
  <1>5. /\ driving # NotDriving /\ driving' = NotDriving /\ unseen' = {}
        /\ UNCHANGED <<kind, queued, status, timeout, blocking, asked, before, calls, call,
                       answer>>
    BY DEF Serialport!DriveLine, Serialport!NotDriving, NotDriving
  <1>6. /\ config \in PortType /\ port \in PortType /\ port.step \in Nat
        /\ config.step \in Nat /\ Level(on) \in {"on", "off"} /\ l \in {"DTR", "RTS"}
    BY DEF IInv, TypeOK, PortType, Level, Lines
  <1>7. /\ c \in PortType /\ c.step = config.step /\ c[l] = Level(on)
        /\ \A g \in (Fields \cup Lines) \ {l} : c[g] = config[g]
    BY <1>3, <1>6 DEF PortType, Fields, Lines
  <1>8. d \in PortType /\ d.step = port.step /\ \A g \in Fields \cup Lines : d[g] = c[g]
    BY <1>4, <1>6, <1>7, StepChange
  <1>9. \A g \in Fields : g # l
    BY DEF Fields, Lines
  <1>10. Writes(d)
    <2>1. d[l] = Level(on) /\ d["step"] = port["step"]
      BY <1>7, <1>8
    <2>2. ASSUME NEW m \in (Fields \cup Lines) \ ({l} \cup unseen)
          PROVE  d[m] = port[m]
      BY <1>5, <1>7, <1>8 DEF IInv, DrivingInv, Seen
    <2> QED BY <1>2, <2>1, <2>2 DEF Writes
  <1>11. Writes(port)
    BY DEF Writes
  <1>12. PICK taken \in BOOLEAN, reread \in BOOLEAN :
           /\ port' = IF taken THEN d ELSE port
           /\ config' = IF reread THEN [port' EXCEPT !.step = config.step] ELSE c
           /\ LET F == IF taken THEN Fated(l, "applied") ELSE fate
              IN  fate' = IF reread THEN Dropped(F) ELSE F
    BY <1>2, <1>3, <1>4
       DEF Serialport!DriveLine, Serialport!Level, Serialport!Fated, Serialport!Fields, Serialport!Dropped,
           Level, Fated, Fields, Dropped
  <1>13. /\ port' \in PortType /\ Writes(port')
         /\ \A g \in Fields : port'[g] = IF taken THEN config[g] ELSE port[g]
    BY <1>6, <1>7, <1>8, <1>9, <1>10, <1>11, <1>12
  <1>14. PICK F \in {fate, Fated(l, "applied")} :
           /\ \A g \in Fields : port'[g] = IF F = fate THEN port[g] ELSE config[g]
           /\ Refreshes(c, F, port', config', fate')
    <2>1. ASSUME taken, Fated(l, "applied") = fate
          PROVE  \A g \in Fields : config[g] = port[g]
      <3>1. Accounted(config, port, asked, before, fate)
        BY DEF IInv, CopyInv
      <3>2. ASSUME NEW g \in Fields
            PROVE  fate[g] \in {"applied", "dropped"}
        <4>1. Fated(l, "applied")[g] = IF fate[g] # "dropped" THEN "applied" ELSE fate[g]
          BY <1>9 DEF Fated
        <4> QED BY <2>1, <4>1
      <3> QED BY <3>1, <3>2 DEF Accounted
    <2>2. CASE taken
      <3>1. Refreshes(c, Fated(l, "applied"), port', config', fate')
        BY <1>7, <1>12, <2>2 DEF Refreshes
      <3> QED BY <1>13, <2>1, <2>2, <3>1
    <2>3. CASE ~taken
      <3>1. Refreshes(c, fate, port', config', fate')
        BY <1>7, <1>12, <2>3 DEF Refreshes
      <3> QED BY <1>13, <2>3, <3>1
    <2> QED BY <2>2, <2>3
  <1>15. \A g \in Fields : c[g] = config[g]
    BY <1>7, <1>9
  <1>16. status' \subseteq Lines
    BY <1>5 DEF IInv, TypeOK
  <1>17. Driving
    BY <1>2, <1>5, <1>7, <1>13, <1>14, <1>15, <1>16 DEF Driving
  <1> QED BY <1>5, <1>17 DEF NoHandshake

LEMMA SerialportKeeps ==
  ASSUME IInv, kind = "serialport_win32", NEW m \in {"none", "hardware", "software"},
         Serialport!set_flowcontrol(m)
  PROVE  Keeping("flow", m) /\ NoHandshake'
  <1>1. /\ Set("flow", m) /\ fate' = Fated("flow", "unsent") /\ UNCHANGED port
        /\ config' = [config EXCEPT !.flow = m, !.DTR = "on",
                                    !.RTS = IF m = "hardware" THEN "handshake" ELSE "on"]
    BY DEF Serialport!set_flowcontrol, Serialport!Set, Serialport!Called, Serialport!Callable,
           Serialport!NoAnswer, Serialport!NotDriving, Serialport!Fated, Serialport!Fields,
           Set, Called, Callable, NoAnswer, NotDriving, Fated, Fields
  <1>2. config \in PortType
    BY DEF IInv, TypeOK
  <1>3. /\ config' \in PortType /\ config'["flow"] = m /\ config'.step = config.step
        /\ \A g \in Fields \ {"flow"} : config'[g] = config[g]
    BY <1>1, <1>2 DEF PortType, Fields
  <1> QED BY <1>1, <1>3 DEF Keeping, Set, NoHandshake, Fields

LEMMA SerialportStep ==
  ASSUME IInv, kind = "serialport_win32", Serialport!Next
  PROVE  ClassStep /\ NoHandshake'
  <1>1. ASSUME NEW m \in Bauds, Serialport!srlp_baudrate(m)
        PROVE  ClassStep /\ NoHandshake'
    <2>1. PICK n \in Nat :
            Serialport!Set("baud", n) /\ Serialport!Apply("baud", Changed("baud", n))
      BY <1>1, ValueAssumption DEF Serialport!srlp_baudrate, Serialport!set_baudrate, Changed
    <2>2. "baud" \in Fields /\ n \in Values
      BY <2>1 DEF Fields, Values
    <2>3. Changed("baud", n) \in PortType
      BY <2>1, ChangedTypes
    <2>4. Setting("baud", n) /\ NoHandshake'
      BY <2>1, <2>2, <2>3, SerialportSent
    <2> QED BY <2>2, <2>4 DEF ClassStep
  <1>2. ASSUME NEW m \in Stopbits, Serialport!srlp_stopbits(m)
        PROVE  ClassStep /\ NoHandshake'
    <2>1. PICK n \in {1, 2} :
            Serialport!Set("stop", n) /\ Serialport!Apply("stop", Changed("stop", n))
      BY <1>2, ValueAssumption DEF Serialport!srlp_stopbits, Serialport!set_stopbits, Changed
    <2>2. "stop" \in Fields /\ n \in Values
      BY <2>1 DEF Fields, Values
    <2>3. Changed("stop", n) \in PortType
      BY <2>1, ChangedTypes
    <2>4. Setting("stop", n) /\ NoHandshake'
      BY <2>1, <2>2, <2>3, SerialportSent
    <2> QED BY <2>2, <2>4 DEF ClassStep
  <1>3. ASSUME NEW m \in Sizes, Serialport!srlp_databits(m)
        PROVE  ClassStep /\ NoHandshake'
    <2>1. PICK n \in 5 .. 8 :
            Serialport!Set("size", n) /\ Serialport!Apply("size", Changed("size", n))
      BY <1>3, ValueAssumption DEF Serialport!srlp_databits, Serialport!set_databits, Changed
    <2>2. "size" \in Fields /\ n \in Values
      BY <2>1 DEF Fields, Values
    <2>3. Changed("size", n) \in PortType
      BY <2>1, ChangedTypes
    <2>4. Setting("size", n) /\ NoHandshake'
      BY <2>1, <2>2, <2>3, SerialportSent
    <2> QED BY <2>2, <2>4 DEF ClassStep
  <1>4. ASSUME NEW m \in Parities, Serialport!srlp_parity(m)
        PROVE  ClassStep /\ NoHandshake'
    <2>1. PICK n \in {"none", "even", "odd"} :
            Serialport!Set("parity", n) /\ Serialport!Apply("parity", Changed("parity", n))
      BY <1>4, ValueAssumption DEF Serialport!srlp_parity, Serialport!set_parity, Changed
    <2>2. "parity" \in Fields /\ n \in Values
      BY <2>1 DEF Fields, Values
    <2>3. Changed("parity", n) \in PortType
      BY <2>1, ChangedTypes
    <2>4. Setting("parity", n) /\ NoHandshake'
      BY <2>1, <2>2, <2>3, SerialportSent
    <2> QED BY <2>2, <2>4 DEF ClassStep
  <1>5. ASSUME NEW m \in Seconds, Serialport!srlp_timeout(m)
        PROVE  ClassStep /\ NoHandshake'
    <2>1. PICK t \in Int : Serialport!set_timeout(t)
      BY <1>5, ValueAssumption DEF Serialport!srlp_timeout
    <2> QED BY <2>1, SerialportWaits DEF ClassStep
  <1>6. ASSUME NEW on \in BOOLEAN,
                Serialport!srlp_requesttosend(on) \/ Serialport!srlp_dataterminalready(on)
        PROVE  ClassStep /\ NoHandshake'
    <2>1. PICK l \in Lines : Serialport!set_control_line(l, on)
      BY <1>6 DEF Serialport!srlp_requesttosend, Serialport!srlp_dataterminalready, Lines
    <2> QED BY <2>1, SerialportBegins DEF ClassStep
  <1>11. ASSUME Serialport!DriveLine
         PROVE  ClassStep /\ NoHandshake'
    BY <1>11, SerialportDrives DEF ClassStep
  <1>7. ASSUME NEW m \in Flows, Serialport!srlp_flowcontrol(m)
        PROVE  ClassStep /\ NoHandshake'
    <2>1. m \in {"none", "hardware", "software"} /\ m \in Values /\ "flow" \in Fields
      BY ValueAssumption DEF Values, Fields
    <2> QED BY <1>7, <2>1, SerialportKeeps DEF ClassStep, Serialport!srlp_flowcontrol
  <1>8. ASSUME Serialport!srlp_pinstatus
        PROVE  ClassStep /\ NoHandshake'
    <2>1. /\ Callable /\ answer'.why = "none"
          /\ \/ config' = [port EXCEPT !.step = config.step] /\ fate' = Dropped(fate)
             \/ UNCHANGED <<config, fate>>
          /\ UNCHANGED <<kind, port, queued, status, timeout, blocking, driving, asked, before,
                         unseen, calls, call>>
      BY <1>8 DEF Serialport!srlp_pinstatus, Serialport!Callable, Callable, Serialport!NoAnswer,
                  Serialport!NotDriving, NotDriving, Serialport!Refreshed, Serialport!get_control_line_status,
                  Serialport!Dropped, Serialport!Fields, Dropped, Fields
    <2>2. Looking
      BY <2>1 DEF Looking, Refreshes, IInv, TypeOK
    <2> QED BY <2>1, <2>2 DEF ClassStep, NoHandshake
  <1>9. ASSUME Serialport!ReadLoop
        PROVE  ClassStep /\ NoHandshake'
    <2>1. UNCHANGED settings
      BY <1>9 DEF Serialport!ReadLoop, Serialport!ReadSome, Serialport!ReadNothing,
                  Serialport!Took, Serialport!Empty,
                  Serialport!settings, settings
    <2>2. CASE Serialport!ReadSome
      <3>1. PICK k, time : /\ k = Smaller(queued, call.need - call.got)
                           /\ time = IF k = call.need - call.got \/ blocking THEN 0 ELSE port.step
        OBVIOUS
      <3>2. Reading /\ queued > 0 /\ Took(k, time)
        BY <2>2, <3>1 DEF Serialport!ReadSome, Serialport!Took, Serialport!Return,
                          Serialport!settings, Serialport!Idle,
             Serialport!Smaller, Serialport!Reading, Took, Return, settings, Idle, Smaller, Reading
      <3>3. k \in 1 .. queued /\ k <= call.need - call.got
        BY <3>1, <3>2, BoundAssumption DEF Smaller, IInv, TypeOK, CallInv
      <3>4. port.step \in Nat /\ k \in Nat
        BY <3>3 DEF IInv, TypeOK, PortType
      <3>5. time \in Nat
        BY <3>1, <3>4
      <3>6. Taking(k, time)
        BY <3>2, <3>3, <3>5 DEF Taking
      <3> QED BY <2>1, <3>4, <3>5, <3>6 DEF ClassStep, NoHandshake, settings
    <2>3. CASE Serialport!ReadNothing
      <3>1. PICK residue \in 0 .. 1 :
              /\ Reading
              /\ residue = 1 => call.left = config.step /\ config.step < timeout
              /\ Empty(call.left - config.step + residue)
        BY <2>3 DEF Serialport!ReadNothing, Serialport!Empty, Serialport!Return,
                    Serialport!settings, Serialport!Idle,
             Serialport!Reading, Empty, Return, settings, Idle, Reading
      <3>2. Silent(residue)
        BY <3>1 DEF Silent
      <3> QED BY <2>1, <3>2 DEF ClassStep, NoHandshake, settings
    <2> QED BY <1>9, <2>2, <2>3 DEF Serialport!ReadLoop
  <1>10. ASSUME NEW q \in 0 .. 2, Serialport!srlp_flush(q)
        PROVE  ClassStep /\ NoHandshake'
    <2>1. /\ Callable /\ answer'.why = "none" /\ queued' \in {queued, 0}
          /\ UNCHANGED settings /\ UNCHANGED call
      BY <1>10 DEF Serialport!srlp_flush, Serialport!flush, Serialport!Callable, Callable,
                   Serialport!NoAnswer, Serialport!NotDriving, NotDriving,
                   Serialport!settings, settings
    <2>2. Looking
      BY <2>1, BoundAssumption DEF Looking, Refreshes, IInv, TypeOK, settings
    <2> QED BY <2>1, <2>2 DEF ClassStep, NoHandshake, settings
  <1> QED BY <1>1, <1>2, <1>3, <1>4, <1>5, <1>6, <1>7, <1>8, <1>9, <1>10, <1>11
    DEF Serialport!Next, Serialport!Setters

-----------------------------------------------------------------------------
\* The specification

LEMMA InitIInv ==
  ASSUME Init
  PROVE  IInv /\ NoHandshake
  <1>1. /\ kind \in Kinds /\ queued = 0 /\ config = port /\ status \subseteq Lines
        /\ timeout = -1 /\ blocking = TRUE /\ driving = NotDriving /\ unseen = {}
        /\ asked = [f \in Fields |-> port[f]] /\ before = asked
        /\ fate = [f \in Fields |-> "applied"] /\ calls = 0 /\ call = Idle
        /\ answer.why = "none"
    BY DEF Init, NoAnswer
  <1>2. PICK s \in Nat : port = [Default EXCEPT !.step = s]
    BY DEF Init, Tick, Tenth
  <1>3. port \in PortType /\ port.RTS = "on"
    BY <1>2 DEF Default, PortType
  <1>4. TypeOK
    BY <1>1, <1>3, BoundAssumption DEF TypeOK, Idle
  <1>5. CopyInv
    <2>1. \A g \in Fields : asked[g] = port[g] /\ fate[g] = "applied"
      BY <1>1
    <2>2. asked = [f \in Fields |-> asked[f]] /\ before = [f \in Fields |-> before[f]]
      BY <1>1
    <2>3. fate \in [Fields -> {"applied", "refused", "unsent", "dropped"}]
      BY <1>1
    <2> QED BY <1>1, <2>1, <2>2, <2>3 DEF CopyInv, Accounted
  <1>6. CallInv /\ WaitInv /\ DrivingInv /\ ~Reading
    BY <1>1 DEF CallInv, WaitInv, DrivingInv, Reading, Idle
  <1>7. StepInv
    <2>1. timeout < 0
      BY <1>1
    <2>2. blocking
      BY <1>1, Zenon
    <2>3. blocking = (timeout < 0)
      BY <1>1, <2>1, <2>2, Zenon
    <2> QED BY <2>2, <2>3 DEF StepInv
  <1>8. EmptyReadWaited
    BY <1>1 DEF EmptyReadWaited
  <1> QED BY <1>3, <1>4, <1>5, <1>6, <1>7, <1>8 DEF IInv, NoHandshake

\* One step of the system: of the class, of the program's read, of the user or of the other
\* side.
LEMMA NextKept ==
  ASSUME IInv, NoHandshake, [Next]_vars
  PROVE  IInv' /\ NoHandshake'
  <1>1. CASE kind = "serial" /\ Posix!Next
    BY <1>1, PosixStep, ClassStepKept
  <1>2. CASE kind = "serial_win32" /\ Windows!Next
    BY <1>2, WindowsStep, ClassStepKept
  <1>3. CASE kind = "serialport_win32" /\ Serialport!Next
    BY <1>3, SerialportStep, ClassStepKept
  <1>4. CASE \E need \in Needs : Read(need)
    BY <1>4, ReadKept DEF Read, settings, NoHandshake
  <1>5. CASE Interrupt
    BY <1>5, InterruptKept DEF Interrupt, settings, NoHandshake
  <1>6. CASE Arrive
    BY <1>6, ArriveKept DEF Arrive, settings, NoHandshake
  <1>7. CASE Outsider
    <2>1. port'.RTS # "handshake"
      <3>1. PICK l \in Lines : port' = [port EXCEPT ![l] = Level(@ # "on")]
        BY <1>7 DEF Outsider
      <3>2. port.RTS # "handshake" /\ Level(port[l] # "on") # "handshake" /\ port \in PortType
        BY <1>7 DEF Outsider, NoHandshake, Level, IInv, TypeOK
      <3> QED BY <3>1, <3>2 DEF PortType, Lines
    <2> QED BY <1>7, <2>1, OutsiderKept DEF NoHandshake
  <1>8. CASE UNCHANGED vars
    <2>1. IInv'
      BY <1>8 DEF vars, IInv, TypeOK, CopyInv, DrivingInv, Seen, CallInv, StepInv, StepOf, WaitInv,
                  EmptyReadWaited, Reading
    <2> QED BY <1>8, <2>1 DEF vars, NoHandshake
  <1> QED BY <1>1, <1>2, <1>3, <1>4, <1>5, <1>6, <1>7, <1>8 DEF Next

\* The inductive invariant holds for any values given to the setters and any reads.
THEOREM InductiveInvariant == Spec => [](IInv /\ NoHandshake)
  <1>1. Init => IInv /\ NoHandshake
    BY InitIInv
  <1>2. IInv /\ NoHandshake /\ [Next]_vars => (IInv /\ NoHandshake)'
    BY NextKept
  <1> QED BY <1>1, <1>2, PTL DEF Spec

\* Every variable of the three classes keeps to its type: the port and the copy have
\* settings in range, a read counts whole times and bytes.
THEOREM TypeCorrect == Spec => []TypeOK
  <1>1. IInv => TypeOK
    BY DEF IInv
  <1> QED BY <1>1, InductiveInvariant, PTL

\* A setting the port has taken stays in force and is what the object reports, whatever is
\* set, refused or kept back since, whether the copy is refreshed or that fails, and on POSIX
\* whatever another program does to the lines; one that was refused, kept back or dropped
\* leaves the port with what it had when its setter was called.
THEOREM SettingsStay == Spec => []TakenSettingsStay
  <1>1. IInv => TakenSettingsStay
    <2> SUFFICES ASSUME IInv, NEW f \in Fields
                 PROVE  /\ fate[f] = "applied" => port[f] = asked[f] /\ Tells(f, asked[f])
                        /\ fate[f] \in {"refused", "unsent"} =>
                             port[f] = before[f] /\ (Tells(f, asked[f]) \/ Tells(f, before[f]))
                        /\ fate[f] = "dropped" => port[f] = before[f] /\ Tells(f, before[f])
      BY DEF TakenSettingsStay
    <2>1. /\ fate[f] # "dropped" => config[f] = asked[f]
          /\ fate[f] = "dropped" => config[f] = port[f]
          /\ fate[f] = "applied" => port[f] = asked[f]
          /\ fate[f] # "applied" => port[f] = before[f]
      BY DEF IInv, CopyInv, Accounted
    <2>2. kind \in {"serial", "serial_win32", "serialport_win32"} /\ config \in PortType
      BY KindAssumption DEF IInv, TypeOK, KnownKinds
    <2>3. \/ Reported(f) = config[f]
          \/ kind = "serial" /\ f = "baud" /\ config[f] \notin Posix!ReportedBauds
             /\ Reported(f) = -1
      <3>1. CASE f = "baud"
        BY <2>2, <3>1 DEF Reported, Posix!get_baudrate, Windows!get_baudrate,
                          Serialport!get_baudrate
      <3>2. CASE f = "stop"
        BY <2>2, <3>2 DEF Reported, Posix!get_stopbits, Windows!get_stopbits,
                          Serialport!get_stopbits
      <3>3. CASE f = "size"
        BY <2>2, <3>3 DEF Reported, Posix!get_bytesize, Windows!get_bytesize,
                          Serialport!get_databits
      <3>4. CASE f = "parity"
        BY <2>2, <3>4 DEF Reported, Posix!get_parity, Windows!get_parity, Serialport!get_parity
      <3>5. CASE f = "flow"
        BY <2>2, <3>5 DEF Reported, Serialport!get_flowcontrol
      <3> QED BY <3>1, <3>2, <3>3, <3>4, <3>5 DEF Fields
    <2>4. Tells(f, config[f])
      BY <2>3 DEF Tells
    <2> QED BY <2>1, <2>4
  <1> QED BY <1>1, InductiveInvariant, PTL

\* A read that found nothing has waited for its timeout, and no longer than the step its
\* class waits in allows.
THEOREM EmptyReadsWaited == Spec => []EmptyReadWaited
  <1>1. IInv => EmptyReadWaited
    BY DEF IInv
  <1> QED BY <1>1, InductiveInvariant, PTL

\* Setting DTR or RTS changes that line of the port and nothing else that the call has seen
\* and no one has changed since, whatever is in the copy.
THEOREM LinesChangeAlone == Spec => OneLineChanges
  <1> DEFINE Change ==
        driving # NotDriving /\ driving' = NotDriving =>
          /\ port'[driving.line] \in {port[driving.line], Level(driving.on)}
          /\ \A s \in DOMAIN port \ ({driving.line} \cup unseen) : port'[s] = port[s]
  <1>1. ASSUME IInv, NoHandshake, [Next]_vars
        PROVE  Change
    <2> SUFFICES ASSUME driving # NotDriving, driving' = NotDriving
                 PROVE  /\ port'[driving.line] \in {port[driving.line], Level(driving.on)}
                        /\ \A s \in DOMAIN port \ ({driving.line} \cup unseen) : port'[s] = port[s]
      OBVIOUS
    <2>1. ClassStep
      BY <1>1, PosixStep, WindowsStep, SerialportStep
         DEF Next, Read, Interrupt, Arrive, Outsider, settings, vars
    <2>2. ASSUME NEW f \in Fields, NEW n, Setting(f, n) \/ Keeping(f, n)
          PROVE  FALSE
      BY <2>2 DEF Setting, Keeping, Set, Called, Callable
    <2>3. ASSUME NEW t \in Int, NEW s \in Nat, Waiting(t, s)
          PROVE  FALSE
      BY <2>3 DEF Waiting, Called, Callable
    <2>4. ~Looking
      BY DEF Looking, Callable
    <2>5. ASSUME NEW k \in Nat, NEW time \in Nat, Taking(k, time)
          PROVE  FALSE
      BY <2>5 DEF Taking, Took, settings
    <2>6. ASSUME NEW residue \in 0 .. 1, Silent(residue)
          PROVE  FALSE
      BY <2>6 DEF Silent, Empty, settings
    <2>7. ASSUME NEW l \in Lines, NEW on \in BOOLEAN, Beginning(l, on)
          PROVE  FALSE
      BY <2>7 DEF Beginning, Drive, Called, Callable
    <2>8. Driving
      BY <2>1, <2>2, <2>3, <2>4, <2>5, <2>6, <2>7 DEF ClassStep
    <2>9. DOMAIN port = Fields \cup Lines \cup {"step"}
      BY <1>1 DEF IInv, TypeOK, PortType, Fields, Lines
    <2> QED BY <2>8, <2>9 DEF Driving, Writes
  <1>2. IInv /\ NoHandshake /\ [Next]_vars => [Change]_vars
    BY <1>1
  <1> QED BY <1>2, InductiveInvariant, PTL DEF Spec, OneLineChanges

=============================================================================
