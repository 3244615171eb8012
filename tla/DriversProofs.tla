--------------------------- MODULE DriversProofs ---------------------------
(***************************************************************************)
(* Proofs about drivers of the ESP32: the I2C ports, for any number of     *)
(* transactions, the registers of the LoRa modem, for any number of tasks  *)
(* and any bands, and the frames of NAN, for any length of a message.      *)
(***************************************************************************)
EXTENDS MCDrivers, Sequences, TLAPS

-----------------------------------------------------------------------------
(* The I2C ports *)

InCommand == tools \in {"param", "use", "delete"}

\* A command that runs has a transaction left, and before the console starts
\* nothing was done.
Steps ==
    /\ tools \in {"param", "use"} => todo >= 1
    /\ tools = "boot" => ui = "none" /\ ~touched /\ ~drv[0] /\ ~drv[1]
    /\ InCommand /\ i2c_port = 0 => touched

\* Whose driver there is: one on port 1 belongs to the command that runs, and so
\* does one on port 0 once a command used it.
Owner ==
    /\ drv[1] => InCommand /\ i2c_port = 1
    /\ drv[0] /\ touched => InCommand /\ i2c_port = 0

\* Until then the display's bus works, and a round has drawn the pages above the
\* one that is selected.
Round ==
    /\ ui = "draw" => text <= 7
    /\ ~touched /\ ~taken /\ ui # "none" =>
          /\ drv[0] /\ pins[0] = "oled" /\ awake
          /\ ui = "draw" => page = text /\ drawn = {p \in 0 .. 7 : p < text}
          /\ ui = "sleep" => drawn = 0 .. 7

I2cInv == I2c!TypeOK /\ Steps /\ Owner /\ Round

\* register_ui.
LEMMA RegisterUiKeeps ==
    ASSUME I2cInv, I2c!RegisterUi
    PROVE  I2cInv'
<1> USE DEF I2cInv, I2c!Ports
<1>1. PICK hasPins \in BOOLEAN, answered \in BOOLEAN :
         /\ tools = "boot" /\ tools' = "ready" /\ rst' \in {"none", "high"}
         /\ drv' = [drv EXCEPT ![0] = hasPins]
         /\ pins' = [pins EXCEPT ![0] = IF hasPins THEN "oled" ELSE "none"]
         /\ answered => hasPins
         /\ ui' = IF answered THEN "wait" ELSE "none"
         /\ awake' = answered
         /\ UNCHANGED <<todo, i2c_port, tool_pins, text, page, drawn, touched, taken>>
  BY DEF I2c!RegisterUi, I2c!I2cMasterInit, I2c!Ssd1306Init
<1>2. I2c!TypeOK'
  BY <1>1 DEF I2c!TypeOK
<1>3. drv'[0] = hasPins /\ drv'[1] = drv[1] /\ pins'[0] = IF hasPins THEN "oled" ELSE "none"
  BY <1>1 DEF I2c!TypeOK
<1>4. Steps'
  BY <1>1 DEF Steps, InCommand
<1>5. Owner'
  BY <1>1, <1>3 DEF Steps, Owner, InCommand
<1>6. Round'
  BY <1>1, <1>3 DEF Round
<1> QED
  BY <1>2, <1>4, <1>5, <1>6

\* The display task.
LEMMA UiKeeps ==
    ASSUME I2cInv, I2c!Wake \/ I2c!Println \/ I2c!Release
    PROVE  I2cInv'
<1> USE DEF I2cInv
<1>1. UNCHANGED <<drv, pins, awake, tools, todo, i2c_port, tool_pins, touched, taken>>
  BY DEF I2c!Wake, I2c!Println, I2c!Release, I2c!busVars, I2c!toolVars, I2c!oledVars
<1>2. Steps' /\ Owner'
  BY <1>1 DEF Steps, Owner, InCommand, I2c!Wake, I2c!Println, I2c!Release
<1>3. CASE I2c!Wake
  <2>1. /\ ui' = "draw" /\ drawn' = {} /\ text' = 0 /\ rst' \in {rst, "high"}
        /\ page' = IF drv[0] /\ pins[0] = "oled" /\ awake THEN 0 ELSE page
    BY <1>3 DEF I2c!Wake, I2c!UiSetline, I2c!Reached, I2c!Pages
  <2>2. I2c!TypeOK'
    BY <1>1, <2>1 DEF I2c!TypeOK, I2c!Pages
  <2>3. Round'
    BY <1>1, <1>3, <2>1 DEF Round, I2c!Wake
  <2> QED
    BY <1>2, <2>2, <2>3
<1>4. CASE I2c!Println
  <2>1. /\ ui = "draw" /\ text \in 0 .. 7 /\ text' = text + 1
        /\ ui' = IF text + 1 = 8 THEN "sleep" ELSE "draw"
        /\ drawn' = IF drv[0] /\ pins[0] = "oled" /\ awake THEN drawn \cup {page} ELSE drawn
        /\ page' = IF drv[0] /\ pins[0] = "oled" /\ awake /\ text + 1 \in 0 .. 7
                   THEN text + 1 ELSE page
        /\ UNCHANGED rst
    BY <1>4 DEF I2c!Println, I2c!UiSetline, I2c!WriteChars, I2c!Reached, I2c!Pages,
                I2c!TypeOK, I2c!oledVars, Round
  <2>2. I2c!TypeOK'
    BY <1>1, <2>1 DEF I2c!TypeOK, I2c!Pages
  <2>3. Round'
    <3>1. ui' = "draw" => text' <= 7
      BY <2>1
    <3>2. ASSUME ~touched', ~taken'
          PROVE  /\ drv[0] /\ pins[0] = "oled" /\ awake /\ page = text
                 /\ drawn' = {p \in 0 .. 7 : p < text + 1}
      BY <1>1, <2>1, <3>2 DEF Round
    <3>3. ASSUME ~touched', ~taken', ui' = "draw"
          PROVE  page' = text' /\ drawn' = {p \in 0 .. 7 : p < text'}
      BY <2>1, <3>2, <3>3
    <3>4. ASSUME ~touched', ~taken', ui' = "sleep"
          PROVE  drawn' = 0 .. 7
      BY <2>1, <3>2, <3>4
    <3> QED
      BY <1>1, <3>1, <3>2, <3>3, <3>4 DEF Round
  <2> QED
    BY <1>2, <2>2, <2>3
<1>5. CASE I2c!Release
  BY <1>1, <1>2, <1>5 DEF I2c!Release, I2c!TypeOK, I2c!oledVars, Round
<1> QED
  BY <1>3, <1>4, <1>5

\* A command on the port of i2cconfig, from its first call to its last.
LEMMA CommandKeeps ==
    ASSUME I2cInv, NEW n \in 1 .. Scan,
           I2c!Install(n) \/ I2c!ParamConfig \/ I2c!Transact \/ I2c!DriverDelete
    PROVE  I2cInv'
<1> USE DEF I2cInv
<1>1. UNCHANGED <<rst, awake, i2c_port, tool_pins, ui, text, page, drawn>>
  BY DEF I2c!Install, I2c!ParamConfig, I2c!Transact, I2c!DriverDelete, I2c!busVars,
         I2c!uiVars, I2c!oledVars
<1>2. /\ drv \in [{0, 1} -> BOOLEAN] /\ pins \in [{0, 1} -> {"none", "oled", "tool"}]
      /\ i2c_port \in {0, 1} /\ Scan \in Nat /\ todo \in 0 .. Scan
      /\ tool_pins \in {"oled", "tool"} /\ touched \in BOOLEAN /\ taken \in BOOLEAN
  BY DriversAssumption DEF I2c!TypeOK, I2c!Ports
<1>3. CASE I2c!Install(n)
  <2>1. /\ tools = "ready" /\ tools' = "param" /\ todo' = n /\ pins' = pins
        /\ drv' = [drv EXCEPT ![i2c_port] = TRUE] /\ touched' = (touched \/ i2c_port = 0)
        /\ taken' = taken
    BY <1>3 DEF I2c!Install
  <2>2. I2c!TypeOK'
    BY <1>1, <1>2, <2>1 DEF I2c!TypeOK, I2c!Ports
  <2>3. Steps' /\ Owner'
    <3>1. CASE i2c_port = 0
      <4>1. drv'[0] /\ drv'[1] = drv[1]
        BY <1>2, <2>1, <3>1
      <4>2. ~drv[1]
        BY <2>1 DEF Owner, InCommand
      <4>3. touched'
        BY <2>1, <3>1, Zenon
      <4> QED
        BY <1>1, <1>2, <2>1, <3>1, <4>1, <4>2, <4>3 DEF Steps, Owner, InCommand
    <3>2. CASE i2c_port = 1
      <4>1. (touched' <=> touched) /\ drv'[0] = drv[0] /\ drv'[1] /\ (drv[0] => ~touched)
        BY <1>2, <2>1, <3>2 DEF Owner, InCommand
      <4> QED
        BY <1>1, <1>2, <2>1, <3>2, <4>1 DEF Steps, Owner, InCommand
    <3> QED
      BY <1>2, <3>1, <3>2
  <2>4. Round'
    BY <1>1, <1>2, <2>1 DEF Round
  <2> QED
    BY <2>2, <2>3, <2>4
<1>4. CASE I2c!ParamConfig
  <2>1. /\ tools = "param" /\ tools' = "use"
        /\ pins' = [q \in {0, 1} |-> IF q = i2c_port THEN tool_pins
                                   ELSE IF pins[q] = tool_pins THEN "none" ELSE pins[q]]
        /\ taken' = (taken \/ tool_pins = "oled")
        /\ UNCHANGED <<drv, todo, touched>>
    BY <1>4 DEF I2c!ParamConfig, I2c!Route, I2c!Ports
  <2>2. I2c!TypeOK'
    <3>1. /\ pins' \in [{0, 1} -> {"none", "oled", "tool"}]
      BY <1>2, <2>1
    <3>2. taken' \in BOOLEAN
      BY <2>1, Zenon
    <3> QED
      BY <1>1, <1>2, <2>1, <3>1, <3>2 DEF I2c!TypeOK, I2c!Ports
  <2>3. Steps' /\ Owner'
    BY <1>1, <1>2, <2>1 DEF Steps, Owner, InCommand
  <2>4. Round'
    <3>1. ASSUME ~touched', ~taken'
          PROVE  ~touched /\ ~taken /\ (ui # "none" => pins'[0] = pins[0])
      <4>1. ~taken /\ tool_pins = "tool"
        <5>1. taken' <=> taken \/ tool_pins = "oled"
          BY <2>1
        <5>2. ~taken /\ tool_pins # "oled"
          BY <3>1, <5>1
        <5> QED
          BY <1>2, <5>2
      <4>2. i2c_port = 1
        BY <1>2, <2>1, <3>1 DEF Steps, InCommand
      <4>3. pins'[0] = IF pins[0] = "tool" THEN "none" ELSE pins[0]
        BY <1>2, <2>1, <4>1, <4>2
      <4>4. ui # "none" => pins[0] = "oled"
        BY <2>1, <3>1, <4>1 DEF Round
      <4> QED
        BY <2>1, <3>1, <4>1, <4>3, <4>4
    <3> QED
      BY <1>1, <2>1, <3>1 DEF Round
  <2> QED
    BY <2>2, <2>3, <2>4
<1>5. CASE I2c!Transact
  <2>1. /\ tools = "use" /\ todo' = todo - 1 /\ todo >= 1
        /\ tools' = IF todo = 1 THEN "delete" ELSE "use"
        /\ UNCHANGED <<drv, pins, touched, taken>>
    BY <1>5 DEF I2c!Transact, I2c!busVars, Steps
  <2>2. I2c!TypeOK'
    BY <1>1, <1>2, <2>1 DEF I2c!TypeOK, I2c!Ports
  <2>3. Steps' /\ Owner'
    BY <1>1, <1>2, <2>1 DEF Steps, Owner, InCommand
  <2>4. Round'
    BY <1>1, <2>1 DEF Round
  <2> QED
    BY <2>2, <2>3, <2>4
<1>6. CASE I2c!DriverDelete
  <2>1. /\ tools = "delete" /\ tools' = "ready" /\ drv' = [drv EXCEPT ![i2c_port] = FALSE]
        /\ UNCHANGED <<pins, todo, touched, taken>>
    BY <1>6 DEF I2c!DriverDelete
  <2>2. I2c!TypeOK'
    BY <1>1, <1>2, <2>1 DEF I2c!TypeOK, I2c!Ports
  <2>3. Steps' /\ Owner'
    BY <1>1, <1>2, <2>1 DEF Steps, Owner, InCommand
  <2>4. Round'
    BY <1>1, <1>2, <2>1 DEF Round, Steps, InCommand
  <2> QED
    BY <2>2, <2>3, <2>4
<1> QED
  BY <1>3, <1>4, <1>5, <1>6

\* i2cconfig and gpio: neither touches a driver, gpio may take the display's pins.
LEMMA ConfigKeeps ==
    ASSUME I2cInv, I2c!I2cConfig \/ I2c!GpioCmd
    PROVE  I2cInv'
<1> USE DEF I2cInv
<1>1. CASE I2c!I2cConfig
  <2>1. /\ tools = "ready" /\ i2c_port' \in {0, 1} /\ tool_pins' \in {"oled", "tool"}
        /\ UNCHANGED <<drv, pins, rst, awake, tools, todo, ui, text, page, drawn, touched, taken>>
    BY <1>1 DEF I2c!I2cConfig, I2c!busVars, I2c!oledVars, I2c!uiVars, I2c!Ports
  <2>2. I2c!TypeOK'
    BY <2>1 DEF I2c!TypeOK, I2c!Ports
  <2>3. Steps' /\ Owner' /\ Round'
    BY <2>1 DEF Steps, Owner, Round, InCommand
  <2> QED
    BY <2>2, <2>3
<1>2. CASE I2c!GpioCmd
  <2>1. /\ tools = "ready"
        /\ UNCHANGED <<drv, tools, todo, i2c_port, tool_pins, ui, text, page, drawn, touched>>
        /\ \/ /\ rst' \in {"low", "high"} /\ pins' = pins
              /\ awake' = (awake /\ rst' = "high") /\ taken' = (taken \/ rst' = "low")
           \/ /\ pins' = [p \in {0, 1} |-> IF pins[p] = "oled" THEN "none" ELSE pins[p]]
              /\ taken' = TRUE /\ UNCHANGED <<rst, awake>>
    BY <1>2 DEF I2c!GpioCmd, I2c!GpioReset, I2c!GpioBus, I2c!busVars, I2c!oledVars,
                I2c!uiVars, I2c!Ports
  <2>2. I2c!TypeOK'
    <3>1. pins' \in [{0, 1} -> {"none", "oled", "tool"}]
      BY <2>1 DEF I2c!TypeOK, I2c!Ports
    <3>2. awake \in BOOLEAN /\ taken \in BOOLEAN /\ rst \in {"none", "high", "low"}
      BY DEF I2c!TypeOK
    <3>3. awake' \in BOOLEAN /\ taken' \in BOOLEAN /\ rst' \in {"none", "high", "low"}
      BY <2>1, <3>2, Zenon
    <3> QED
      BY <2>1, <3>1, <3>3 DEF I2c!TypeOK, I2c!Ports
  <2>3. Steps' /\ Owner'
    BY <2>1 DEF Steps, Owner, InCommand
  <2>4. Round'
    <3>1. ASSUME ~taken'
          PROVE  ~taken /\ pins' = pins /\ awake' = awake
      <4>1. rst' \in {"low", "high"} /\ pins' = pins /\ awake' = (awake /\ rst' = "high")
            /\ taken' = (taken \/ rst' = "low")
        BY <2>1, <3>1
      <4>2. ~taken /\ rst' = "high"
        BY <3>1, <4>1
      <4>3. awake \in BOOLEAN
        BY DEF I2c!TypeOK
      <4> QED
        BY <4>1, <4>2, <4>3
    <3> QED
      BY <2>1, <3>1 DEF Round
  <2> QED
    BY <2>2, <2>3, <2>4
<1> QED
  BY <1>1, <1>2

\* The invariant of the I2C ports.
THEOREM I2cInvHolds == MCSpec => []I2cInv
<1>1. MCInit => I2cInv
  <2> SUFFICES ASSUME I2c!Init
               PROVE  I2cInv
    BY DEF MCInit
  <2>1. I2c!TypeOK
    <3>1. drv \in [I2c!Ports -> BOOLEAN] /\ pins \in [I2c!Ports -> {"none", "oled", "tool"}]
      BY DEF I2c!Init
    <3>2. todo \in 0 .. Scan /\ i2c_port \in I2c!Ports /\ text \in 0 .. 8 /\ page \in I2c!Pages
      BY DriversAssumption DEF I2c!Init, I2c!Ports, I2c!Pages
    <3> QED
      BY <3>1, <3>2 DEF I2c!Init, I2c!TypeOK
  <2>2. Steps /\ Owner /\ Round
    BY DEF I2c!Init, I2c!Ports, Steps, Owner, Round, InCommand
  <2> QED
    BY <2>1, <2>2 DEF I2cInv
<1>2. I2cInv /\ [MCNext]_<<vars, modemVars, i2cVars, frame, driver>> => I2cInv'
  <2> SUFFICES ASSUME I2cInv, [MCNext]_<<vars, modemVars, i2cVars, frame, driver>>
               PROVE  I2cInv'
    OBVIOUS
  <2>1. CASE UNCHANGED i2cVars
    BY <2>1 DEF i2cVars, I2cInv, I2c!TypeOK, Steps, Owner, Round, InCommand
  <2>2. CASE I2c!Next
    <3>1. 1 \in 1 .. Scan /\ Scan \in 1 .. Scan
      BY DriversAssumption
    <3>2. CASE I2c!RegisterUi
      BY <3>2, RegisterUiKeeps
    <3>3. CASE I2c!Wake \/ I2c!Println \/ I2c!Release
      BY <3>3, UiKeeps
    <3>4. CASE I2c!I2cConfig \/ I2c!GpioCmd
      BY <3>4, ConfigKeeps
    <3>5. CASE I2c!ParamConfig \/ I2c!Transact \/ I2c!DriverDelete
      BY <3>1, <3>5, CommandKeeps
    <3>6. CASE I2c!Install(1) \/ I2c!Install(Scan)
      BY <3>1, <3>6, CommandKeeps
    <3> QED
      BY <2>2, <3>2, <3>3, <3>4, <3>5, <3>6
      DEF I2c!Next, I2c!I2cDetect, I2c!I2cGet, I2c!I2cSet, I2c!I2cDump
  <2> QED
    BY <2>1, <2>2 DEF MCNext
<1> QED
  BY <1>1, <1>2, PTL DEF MCSpec

\* Between commands the only driver there can be is the display's: i2c commands
\* leave none behind on any port.
THEOREM DriverFreedHolds == MCSpec => []DriverFreed
<1>1. I2cInv => DriverFreed
  BY DEF I2cInv, Owner, InCommand, DriverFreed, I2c!DriverFreed
<1> QED
  BY <1>1, I2cInvHolds, PTL

\* As long as no i2c command used the display's port, no i2c or gpio command its
\* pins, and none reset it, a round of task_ui draws each of the eight pages.
THEOREM PagesDrawnHolds == MCSpec => []PagesDrawn
<1>1. I2cInv => PagesDrawn
  BY DEF I2cInv, Round, PagesDrawn, I2c!PagesDrawn, I2c!Reached, I2c!Pages
<1> QED
  BY <1>1, I2cInvHolds, PTL

-----------------------------------------------------------------------------
(* Programs of the LoRa modem *)

Registers ==
    {"mc1", "mc2", "op", "msb", "mid", "lsb", "iq", "iq2", "detect", "length", "pa", "dio",
     "sync", "preambleMsb", "preambleLsb", "__implicit", "__frequency", "beaconReceive"}
Fields == {"", "bw", "cr", "hdr", "sf", "crc"}
Values == Nat \cup {"stdby", "sleep", "rx", "tx"}

Mc1 == [bw : 0 .. 9, cr : 1 .. 4, hdr : {0, 1}]
Mc2 == [sf : 6 .. 12, crc : {0}]

\* The accesses that programs are made of: registers with several fields are only
\* changed field by field, and the link's parameters have one value each.
Allowed(a) ==
    \/ /\ a.do = "write" /\ a.reg \notin {"mc1", "mc2"} /\ a.field = ""
       /\ a.reg = "op" => a.val \in {"stdby", "sleep", "rx", "tx"}
       /\ a.reg = "length" => a.val \in 0 .. 255
       /\ a.reg = "pa" => a.val = 15
       /\ a.reg = "sync" => a.val = 52
    \/ a.do = "read" /\ a.reg \in {"mc1", "mc2"}
    \/ /\ a.do = "back" /\ a.reg = "mc1"
       /\ \/ a.field = "bw" /\ a.val = 9
          \/ a.field = "cr" /\ a.val \in 1 .. 4
          \/ a.field = "hdr" /\ a.val \in {0, 1}
    \/ /\ a.do = "back" /\ a.reg = "mc2"
       /\ \/ a.field = "sf" /\ a.val \in 6 .. 12
          \/ a.field = "crc" /\ a.val = 0

Accesses ==
    {a \in [do : {"write", "read", "back"}, reg : Registers, field : Fields, val : Values] :
        Allowed(a)}

W(r, v) == [do |-> "write", reg |-> r, field |-> "", val |-> v]
R(r) == [do |-> "read", reg |-> r, field |-> "", val |-> 0]
B(r, f, v) == [do |-> "back", reg |-> r, field |-> f, val |-> v]

\* What is written back was read just before.
Paired(p) ==
    \A i \in DOMAIN p : p[i].do = "back" =>
        i > 1 /\ p[i - 1].do = "read" /\ p[i - 1].reg = p[i].reg

Items(p) == {p[i] : i \in DOMAIN p}

\* A program and the accesses it makes.
Makes(p, S) == p \in Seq(Accesses) /\ Paired(p) /\ Items(p) = S

\* One access.
LEMMA WriteMakes ==
    ASSUME NEW r, NEW v, W(r, v) \in Accesses
    PROVE  Makes(Modem!Write(r, v), {W(r, v)})
<1> DEFINE w == W(r, v)
<1>1. Modem!Write(r, v) = <<w>> /\ w.do = "write"
  BY DEF Modem!Write, W
<1> HIDE DEF w, Accesses
<1>2. w \in Accesses
  BY DEF w
<1>3. <<w>> \in Seq(Accesses) /\ DOMAIN <<w>> = {1} /\ <<w>>[1] = w
  BY <1>2
<1>4. Makes(<<w>>, {w})
  BY <1>1, <1>3 DEF Makes, Paired, Items
<1> QED
  BY <1>1, <1>4 DEF w

\* One field of a register is changed.
LEMMA UpdateMakes ==
    ASSUME NEW r, NEW f, NEW v, R(r) \in Accesses, B(r, f, v) \in Accesses
    PROVE  Makes(Modem!Update(r, f, v), {R(r), B(r, f, v)})
<1> DEFINE a == R(r)
           b == B(r, f, v)
<1>1. /\ Modem!Update(r, f, v) = <<a, b>> /\ a.do = "read" /\ a.reg = r
      /\ b.do = "back" /\ b.reg = r
  BY DEF Modem!Update, R, B
<1>2. a \in Accesses /\ b \in Accesses
  OBVIOUS
<1> HIDE DEF a, b, Accesses
<1>3. /\ <<a, b>> \in Seq(Accesses) /\ DOMAIN <<a, b>> = 1 .. 2
      /\ <<a, b>>[1] = a /\ <<a, b>>[2] = b
  BY <1>2
<1>4. Paired(<<a, b>>)
  <2> SUFFICES ASSUME NEW i \in DOMAIN <<a, b>>, <<a, b>>[i].do = "back"
               PROVE  /\ i > 1 /\ <<a, b>>[i - 1].do = "read"
                      /\ <<a, b>>[i - 1].reg = <<a, b>>[i].reg
    BY DEF Paired
  <2>1. i = 1 \/ i = 2
    BY <1>3
  <2>2. i = 2
    BY <1>1, <1>3, <2>1
  <2> QED
    BY <1>1, <1>3, <2>2
<1>5. Items(<<a, b>>) = {a, b}
  <2>1. DOMAIN <<a, b>> = {1, 2}
    BY <1>3
  <2> QED
    BY <1>3, <2>1 DEF Items
<1>6. Makes(<<a, b>>, {a, b})
  BY <1>3, <1>4, <1>5 DEF Makes
<1> QED
  BY <1>1, <1>6 DEF a, b

\* One program after another.
LEMMA JoinMakes ==
    ASSUME NEW p, NEW q, NEW S, NEW T, Makes(p, S), Makes(q, T)
    PROVE  Makes(p \o q, S \cup T)
<1> USE DEF Makes
<1> DEFINE s == p \o q
<1>1. /\ s \in Seq(Accesses) /\ Len(p) \in Nat /\ Len(q) \in Nat
      /\ DOMAIN p = 1 .. Len(p) /\ DOMAIN q = 1 .. Len(q)
      /\ DOMAIN s = 1 .. (Len(p) + Len(q))
      /\ \A i \in 1 .. Len(p) : s[i] = p[i]
      /\ \A i \in 1 .. Len(q) : s[Len(p) + i] = q[i]
  <2> HIDE DEF Accesses
  <2> QED
    OBVIOUS
<1> HIDE DEF s
<1>2. \A i \in DOMAIN s : i \in 1 .. Len(p) \/ \E j \in 1 .. Len(q) : i = Len(p) + j
  <2> SUFFICES ASSUME NEW i \in DOMAIN s, i \notin 1 .. Len(p)
               PROVE  \E j \in 1 .. Len(q) : i = Len(p) + j
    OBVIOUS
  <2>1. i - Len(p) \in 1 .. Len(q) /\ i = Len(p) + (i - Len(p))
    BY <1>1
  <2> QED
    BY <2>1
<1>3. Paired(s)
  <2> SUFFICES ASSUME NEW i \in DOMAIN s, s[i].do = "back"
               PROVE  i > 1 /\ s[i - 1].do = "read" /\ s[i - 1].reg = s[i].reg
    BY DEF Paired
  <2>1. CASE i \in 1 .. Len(p)
    <3>1. i > 1 /\ p[i - 1].do = "read" /\ p[i - 1].reg = p[i].reg
      BY <1>1, <2>1 DEF Paired
    <3>2. i - 1 \in 1 .. Len(p)
      BY <1>1, <2>1, <3>1
    <3> QED
      BY <1>1, <2>1, <3>1, <3>2
  <2>2. CASE i \notin 1 .. Len(p)
    <3>1. PICK j \in 1 .. Len(q) : i = Len(p) + j
      BY <1>2, <2>2
    <3>2. j > 1 /\ q[j - 1].do = "read" /\ q[j - 1].reg = q[j].reg
      BY <1>1, <3>1 DEF Paired
    <3>3. j - 1 \in 1 .. Len(q) /\ i - 1 = Len(p) + (j - 1)
      BY <1>1, <3>1, <3>2
    <3> QED
      BY <1>1, <3>1, <3>2, <3>3, SMTT(30)
  <2> QED
    BY <2>1, <2>2
<1>4. Items(s) = S \cup T
  <2>1. \A i \in DOMAIN s : s[i] \in Items(p) \cup Items(q)
    <3> SUFFICES ASSUME NEW i \in DOMAIN s
                 PROVE  s[i] \in Items(p) \cup Items(q)
      OBVIOUS
    <3>1. CASE i \in 1 .. Len(p)
      BY <1>1, <3>1 DEF Items
    <3>2. CASE i \notin 1 .. Len(p)
      <4>1. PICK j \in 1 .. Len(q) : i = Len(p) + j
        BY <1>2, <3>2
      <4> QED
        BY <1>1, <4>1 DEF Items
    <3> QED
      BY <3>1, <3>2
  <2>2. \A x \in Items(p) : x \in Items(s)
    BY <1>1 DEF Items
  <2>3. \A x \in Items(q) : x \in Items(s)
    <3> SUFFICES ASSUME NEW j \in 1 .. Len(q)
                 PROVE  q[j] \in Items(s)
      BY <1>1 DEF Items
    <3>1. Len(p) + j \in DOMAIN s /\ s[Len(p) + j] = q[j]
      BY <1>1
    <3> QED
      BY <3>1 DEF Items
  <2>4. \A x \in Items(s) : x \in Items(p) \cup Items(q)
    BY <2>1 DEF Items
  <2> QED
    BY <2>2, <2>3, <2>4
<1> QED
  BY <1>1, <1>3, <1>4 DEF s

\* Four programs.
LEMMA JoinFour ==
    ASSUME NEW p1, NEW S1, Makes(p1, S1), NEW p2, NEW S2, Makes(p2, S2),
           NEW p3, NEW S3, Makes(p3, S3), NEW p4, NEW S4, Makes(p4, S4)
    PROVE  Makes(p1 \o p2 \o p3 \o p4,
                 S1 \cup S2 \cup S3 \cup S4)
<1>2. Makes(p1 \o p2, S1 \cup S2)
  BY JoinMakes
<1>3. Makes(p1 \o p2 \o p3, S1 \cup S2 \cup S3)
  BY <1>2, JoinMakes
<1> QED
  BY <1>3, JoinMakes

\* Accesses that programs make.
LEMMA PlainWrite ==
    ASSUME NEW r \in Registers \ {"mc1", "mc2", "op", "length", "pa", "sync"}, NEW v \in Nat
    PROVE  W(r, v) \in Accesses
BY DEF Accesses, Allowed, W, Fields, Values

\* Accesses of registers that have values of their own.
LEMMA OtherAccesses ==
    /\ \A m \in {"stdby", "sleep", "rx", "tx"} : W("op", m) \in Accesses
    /\ \A n \in 0 .. 255 : W("length", n) \in Accesses
    /\ W("pa", 15) \in Accesses /\ W("sync", 52) \in Accesses
    /\ R("mc1") \in Accesses /\ R("mc2") \in Accesses
    /\ B("mc1", "bw", 9) \in Accesses /\ B("mc2", "crc", 0) \in Accesses
    /\ \A n \in 1 .. 4 : B("mc1", "cr", n) \in Accesses
    /\ \A n \in {0, 1} : B("mc1", "hdr", n) \in Accesses
    /\ \A n \in 6 .. 12 : B("mc2", "sf", n) \in Accesses
<1> USE DEF Registers, Fields, Values
<1>1. \A r \in Registers, v \in Values : Allowed(W(r, v)) => W(r, v) \in Accesses
  BY DEF Accesses, W
<1>2. \A r \in Registers, f \in Fields, v \in Values :
         Allowed(B(r, f, v)) => B(r, f, v) \in Accesses
  BY ZenonT(40) DEF Accesses, B
<1>3. \A m \in {"stdby", "sleep", "rx", "tx"} : W("op", m) \in Accesses
  <2>1. \A m \in {"stdby", "sleep", "rx", "tx"} : Allowed(W("op", m))
    BY DEF Allowed, W
  <2> QED
    BY <1>1, <2>1
<1>4. \A n \in 0 .. 255 : W("length", n) \in Accesses
  <2>1. \A n \in 0 .. 255 : Allowed(W("length", n))
    BY DEF Allowed, W
  <2> QED
    BY <1>1, <2>1
<1>5. W("pa", 15) \in Accesses /\ W("sync", 52) \in Accesses
  <2>1. Allowed(W("pa", 15)) /\ Allowed(W("sync", 52))
    BY DEF Allowed, W
  <2> QED
    BY <1>1, <2>1
<1>6. R("mc1") \in Accesses /\ R("mc2") \in Accesses
  BY DEF Accesses, Allowed, R
<1>7. \A n \in Nat :
         /\ n = 9 => Allowed(B("mc1", "bw", n))
         /\ n \in 1 .. 4 => Allowed(B("mc1", "cr", n))
         /\ n \in {0, 1} => Allowed(B("mc1", "hdr", n))
         /\ n = 0 => Allowed(B("mc2", "crc", n))
         /\ n \in 6 .. 12 => Allowed(B("mc2", "sf", n))
  BY DEF Allowed, B
<1>8. /\ B("mc1", "bw", 9) \in Accesses /\ B("mc2", "crc", 0) \in Accesses
      /\ \A n \in 1 .. 4 : B("mc1", "cr", n) \in Accesses
      /\ \A n \in {0, 1} : B("mc1", "hdr", n) \in Accesses
      /\ \A n \in 6 .. 12 : B("mc2", "sf", n) \in Accesses
  <2>1. /\ "mc1" \in Registers /\ "mc2" \in Registers /\ "bw" \in Fields /\ "cr" \in Fields
        /\ "hdr" \in Fields /\ "sf" \in Fields /\ "crc" \in Fields
        /\ \A n \in Nat : n \in Values
    OBVIOUS
  <2> HIDE DEF Registers, Fields, Values
  <2> QED
    BY <1>2, <1>7, <2>1
<1> QED
  BY <1>3, <1>4, <1>5, <1>6, <1>8

\* The settings that programs are put together from.
LEMMA SettingsMake ==
    /\ Makes(Modem!lora_explicit_header_mode,
             {W("__implicit", 0)} \cup {R("mc1"), B("mc1", "hdr", 0)})
    /\ \A n \in 0 .. 255 :
          Makes(Modem!lora_implicit_header_mode(n),
                {W("__implicit", 1)} \cup {R("mc1"), B("mc1", "hdr", 1)} \cup {W("length", n)})
    /\ \A band \in Nat :
          Makes(Modem!lora_set_frequency(band),
                {W("__frequency", band)} \cup {W("msb", band)} \cup {W("mid", band)}
                \cup {W("lsb", band)})
    /\ \A inv \in {0, 1} : Makes(Modem!lora_invert_iq(inv), {W("iq", inv)} \cup {W("iq2", inv)})
    /\ \A sf \in 6 .. 12 : \E d \in {0, 1} :
          Makes(Modem!lora_set_spreading_factor(sf),
                {W("detect", d)} \cup {R("mc2"), B("mc2", "sf", sf)})
    /\ \A d \in Nat : \E cr \in 1 .. 4 :
          Makes(Modem!lora_set_coding_rate(d), {R("mc1"), B("mc1", "cr", cr)})
<1> HIDE DEF W, R, B, Accesses
<1>1. Makes(Modem!lora_explicit_header_mode,
            {W("__implicit", 0)} \cup {R("mc1"), B("mc1", "hdr", 0)})
  <2>1. Makes(Modem!Write("__implicit", 0), {W("__implicit", 0)})
    BY WriteMakes, PlainWrite DEF Registers
  <2>2. Makes(Modem!Update("mc1", "hdr", 0), {R("mc1"), B("mc1", "hdr", 0)})
    BY UpdateMakes, OtherAccesses
  <2> QED
    BY <2>1, <2>2, JoinMakes DEF Modem!lora_explicit_header_mode
<1>2. ASSUME NEW n \in 0 .. 255
      PROVE  Makes(Modem!lora_implicit_header_mode(n),
                   {W("__implicit", 1)} \cup {R("mc1"), B("mc1", "hdr", 1)}
                   \cup {W("length", n)})
  <2>1. Makes(Modem!Write("__implicit", 1), {W("__implicit", 1)})
    BY WriteMakes, PlainWrite DEF Registers
  <2>2. Makes(Modem!Update("mc1", "hdr", 1), {R("mc1"), B("mc1", "hdr", 1)})
    BY UpdateMakes, OtherAccesses
  <2>3. Makes(Modem!Write("length", n), {W("length", n)})
    BY WriteMakes, OtherAccesses
  <2>4. Makes(Modem!Write("__implicit", 1) \o Modem!Update("mc1", "hdr", 1),
              {W("__implicit", 1)} \cup {R("mc1"), B("mc1", "hdr", 1)})
    BY <2>1, <2>2, JoinMakes
  <2> QED
    BY <2>3, <2>4, JoinMakes DEF Modem!lora_implicit_header_mode
<1>3. ASSUME NEW band \in Nat
      PROVE  Makes(Modem!lora_set_frequency(band),
                   {W("__frequency", band)} \cup {W("msb", band)} \cup {W("mid", band)}
                   \cup {W("lsb", band)})
  <2>1. /\ Makes(Modem!Write("__frequency", band), {W("__frequency", band)})
        /\ Makes(Modem!Write("msb", band), {W("msb", band)})
        /\ Makes(Modem!Write("mid", band), {W("mid", band)})
        /\ Makes(Modem!Write("lsb", band), {W("lsb", band)})
    BY WriteMakes, PlainWrite DEF Registers
  <2> QED
    BY <2>1, JoinFour DEF Modem!lora_set_frequency
<1>4. ASSUME NEW inv \in {0, 1}
      PROVE  Makes(Modem!lora_invert_iq(inv), {W("iq", inv)} \cup {W("iq2", inv)})
  <2>1. /\ Makes(Modem!Write("iq", inv), {W("iq", inv)})
        /\ Makes(Modem!Write("iq2", inv), {W("iq2", inv)})
    BY WriteMakes, PlainWrite DEF Registers
  <2> QED
    BY <2>1, JoinMakes DEF Modem!lora_invert_iq
<1>5. ASSUME NEW sf \in 6 .. 12
      PROVE  \E d \in {0, 1} :
                Makes(Modem!lora_set_spreading_factor(sf),
                      {W("detect", d)} \cup {R("mc2"), B("mc2", "sf", sf)})
  <2>1. PICK d \in {0, 1} : d = IF sf <= 6 THEN 1 ELSE 0
    OBVIOUS
  <2>2. Makes(Modem!Write("detect", d), {W("detect", d)})
    BY WriteMakes, PlainWrite DEF Registers
  <2>3. Makes(Modem!Update("mc2", "sf", sf), {R("mc2"), B("mc2", "sf", sf)})
    BY UpdateMakes, OtherAccesses
  <2>4. Modem!lora_set_spreading_factor(sf)
           = Modem!Write("detect", d) \o Modem!Update("mc2", "sf", sf)
    <3>1. Modem!Clamp(sf, 6, 12) = sf
      BY DEF Modem!Clamp
    <3> QED
      BY <2>1, <3>1 DEF Modem!lora_set_spreading_factor
  <2>5. Makes(Modem!lora_set_spreading_factor(sf),
              {W("detect", d)} \cup {R("mc2"), B("mc2", "sf", sf)})
    BY <2>2, <2>3, <2>4, JoinMakes
  <2> QED
    BY <2>5
<1>6. ASSUME NEW d \in Nat
      PROVE  \E cr \in 1 .. 4 :
                Makes(Modem!lora_set_coding_rate(d), {R("mc1"), B("mc1", "cr", cr)})
  <2>1. PICK cr \in 1 .. 4 : cr = Modem!Clamp(d, 5, 8) - 4
    BY DEF Modem!Clamp
  <2>2. Makes(Modem!Update("mc1", "cr", cr), {R("mc1"), B("mc1", "cr", cr)})
    BY UpdateMakes, OtherAccesses
  <2>3. Makes(Modem!lora_set_coding_rate(d), {R("mc1"), B("mc1", "cr", cr)})
    BY <2>1, <2>2 DEF Modem!lora_set_coding_rate
  <2> QED
    BY <2>3
<1> QED
  BY <1>1, <1>2, <1>3, <1>4, <1>5, <1>6

-----------------------------------------------------------------------------
(* What programs are for *)

LinkGoals == {W("pa", 15), W("sync", 52), B("mc1", "bw", 9)}
FrequencyGoals(band) ==
    {W("__frequency", band), W("msb", band), W("mid", band), W("lsb", band)}
BeaconGoals(band) ==
    FrequencyGoals(band) \cup
    {W("iq", 0), W("iq2", 0), W("__implicit", 1), B("mc1", "hdr", 1), W("length", BeaconSize),
     B("mc2", "sf", 12), W("op", "rx")}
UpstreamGoals ==
    FrequencyGoals(0) \cup
    {W("iq", 1), W("iq2", 1), W("__implicit", 0), B("mc1", "hdr", 0), B("mc2", "sf", LoraSf),
     W("op", "rx")}

\* The values that a program, of this name, has to leave behind.
Goals(name) ==
    IF name[1] = "boot" THEN LinkGoals
    ELSE IF name[1] = "beacon" THEN BeaconGoals(name[2])
    ELSE IF name[1] = "upstream" THEN UpstreamGoals
    ELSE {}

Same(a, g) == a.do = g.do /\ a.reg = g.reg /\ a.field = g.field

\* A program makes its goals and nothing that contradicts one.
Serves(S, G) == G \subseteq S /\ \A a \in S, g \in G : Same(a, g) => a = g
Fits(p, name) == \E S : Makes(p, S) /\ Serves(S, Goals(name))

\* Accesses are about the same when they are of one kind, register and field.
LEMMA SameFacts ==
    /\ \A r, v, s, w : Same(W(r, v), W(s, w)) => r = s
    /\ \A r, f, v, s, g, w : Same(B(r, f, v), B(s, g, w)) => r = s /\ f = g
    /\ \A r, f, v, s, w : ~Same(B(r, f, v), W(s, w)) /\ ~Same(W(s, w), B(r, f, v))
    /\ \A r, s, w : ~Same(R(r), W(s, w))
    /\ \A r, s, g, w : ~Same(R(r), B(s, g, w))
BY DEF Same, W, R, B

\* register_lora.
LEMMA BootFits == Fits(Modem!Boot, <<"boot">>)
<1> HIDE DEF Accesses
<1>1. /\ Makes(Modem!lora_idle, {W("op", "stdby")})
      /\ Makes(Modem!lora_sleep, {W("op", "sleep")})
      /\ Makes(Modem!lora_set_sync_word(52), {W("sync", 52)})
  BY WriteMakes, OtherAccesses DEF Modem!lora_idle, Modem!lora_sleep, Modem!lora_set_sync_word
<1>2. Makes(Modem!Write("dio", 0), {W("dio", 0)})
  BY WriteMakes, PlainWrite DEF Registers
<1>3. Makes(Modem!lora_set_tx_power(17), {W("pa", 15)})
  <2>1. Modem!Clamp(17, 2, 17) - 2 = 15
    BY DEF Modem!Clamp
  <2> QED
    BY <2>1, WriteMakes, OtherAccesses DEF Modem!lora_set_tx_power
<1>4. Makes(Modem!lora_set_preamble_length(8), {W("preambleMsb", 0)} \cup {W("preambleLsb", 8)})
  <2>1. 8 \div 256 = 0 /\ 8 % 256 = 8
    OBVIOUS
  <2>2. /\ Makes(Modem!Write("preambleMsb", 0), {W("preambleMsb", 0)})
        /\ Makes(Modem!Write("preambleLsb", 8), {W("preambleLsb", 8)})
    BY WriteMakes, PlainWrite DEF Registers
  <2> QED
    BY <2>1, <2>2, JoinMakes DEF Modem!lora_set_preamble_length
<1>5. /\ Makes(Modem!lora_set_bandwidth(9), {R("mc1"), B("mc1", "bw", 9)})
      /\ Makes(Modem!lora_disable_crc, {R("mc2"), B("mc2", "crc", 0)})
  BY UpdateMakes, OtherAccesses DEF Modem!lora_set_bandwidth, Modem!lora_disable_crc
<1> DEFINE p1 == Modem!lora_idle
           S1 == {W("op", "stdby")}
           p2 == p1 \o Modem!Write("dio", 0)
           S2 == S1 \cup {W("dio", 0)}
           p3 == p2 \o Modem!lora_sleep
           S3 == S2 \cup {W("op", "sleep")}
           p4 == p3 \o Modem!lora_set_tx_power(17)
           S4 == S3 \cup {W("pa", 15)}
           p5 == p4 \o Modem!lora_idle
           S5 == S4 \cup {W("op", "stdby")}
           p6 == p5 \o Modem!lora_set_sync_word(52)
           S6 == S5 \cup {W("sync", 52)}
           p7 == p6 \o Modem!lora_set_preamble_length(8)
           S7 == S6 \cup ({W("preambleMsb", 0)} \cup {W("preambleLsb", 8)})
           p8 == p7 \o Modem!lora_set_bandwidth(9)
           S8 == S7 \cup {R("mc1"), B("mc1", "bw", 9)}
           p9 == p8 \o Modem!lora_disable_crc
           S9 == S8 \cup {R("mc2"), B("mc2", "crc", 0)}
<1>6. Makes(p1, S1)
  BY <1>1
<1>7. Makes(p2, S2)
  <2> HIDE DEF p1, S1
  <2> QED
    BY <1>2, <1>6, JoinMakes
<1>8. Makes(p3, S3)
  <2> HIDE DEF p2, S2
  <2> QED
    BY <1>1, <1>7, JoinMakes
<1>9. Makes(p4, S4)
  <2> HIDE DEF p3, S3
  <2> QED
    BY <1>3, <1>8, JoinMakes
<1>10. Makes(p5, S5)
  <2> HIDE DEF p4, S4
  <2> QED
    BY <1>1, <1>9, JoinMakes
<1>11. Makes(p6, S6)
  <2> HIDE DEF p5, S5
  <2> QED
    BY <1>1, <1>10, JoinMakes
<1>12. Makes(p7, S7)
  <2> HIDE DEF p6, S6
  <2> QED
    BY <1>4, <1>11, JoinMakes
<1>13. Makes(p8, S8)
  <2> HIDE DEF p7, S7
  <2> QED
    BY <1>5, <1>12, JoinMakes
<1>14. Makes(p9, S9)
  <2> HIDE DEF p8, S8
  <2> QED
    BY <1>5, <1>13, JoinMakes
<1>15. Modem!Boot = p9
  BY DEF Modem!Boot
<1>16. Serves(S9, Goals(<<"boot">>))
  <2>1. Goals(<<"boot">>) = LinkGoals
    BY DEF Goals
  <2>2. LinkGoals \subseteq S9
    BY DEF LinkGoals
  <2>3. \A a \in S9 : Same(a, W("pa", 15)) => a = W("pa", 15)
    BY SameFacts
  <2>4. \A a \in S9 : Same(a, W("sync", 52)) => a = W("sync", 52)
    BY SameFacts
  <2>5. \A a \in S9 : Same(a, B("mc1", "bw", 9)) => a = B("mc1", "bw", 9)
    BY SameFacts
  <2> QED
    BY <2>1, <2>2, <2>3, <2>4, <2>5 DEF Serves, LinkGoals
<1> QED
  <2> HIDE DEF p9, S9
  <2> QED
    BY <1>14, <1>15, <1>16 DEF Fits

\* lora_sleep.
LEMMA SleepFits == Fits(Modem!lora_sleep, <<"sleep">>)
<1>1. Makes(Modem!lora_sleep, {W("op", "sleep")})
  BY WriteMakes, OtherAccesses DEF Modem!lora_sleep
<1>2. Serves({W("op", "sleep")}, Goals(<<"sleep">>))
  BY DEF Serves, Goals
<1> QED
  BY <1>1, <1>2 DEF Fits

\* loraSend.
LEMMA SendFits == Fits(Modem!loraSend, <<"send">>)
<1> HIDE DEF Accesses
<1>1. PICK d \in {0, 1} : Makes(Modem!lora_set_spreading_factor(LoraSf),
                                 {W("detect", d)} \cup {R("mc2"), B("mc2", "sf", LoraSf)})
  BY SettingsMake, DriversAssumption
<1>2. PICK cr \in 1 .. 4 : Makes(Modem!lora_set_coding_rate(LoraCr), {R("mc1"), B("mc1", "cr", cr)})
  BY SettingsMake, DriversAssumption
<1>3. /\ Makes(Modem!lora_idle, {W("op", "stdby")})
      /\ Makes(Modem!Write("length", 4), {W("length", 4)})
      /\ Makes(Modem!Write("op", "tx"), {W("op", "tx")})
  BY WriteMakes, OtherAccesses DEF Modem!lora_idle
<1> DEFINE p1 == Modem!lora_invert_iq(1)
           S1 == {W("iq", 1)} \cup {W("iq2", 1)}
           p2 == p1 \o Modem!lora_explicit_header_mode
           S2 == S1 \cup ({W("__implicit", 0)} \cup {R("mc1"), B("mc1", "hdr", 0)})
           p3 == p2 \o Modem!lora_set_spreading_factor(LoraSf)
           S3 == S2 \cup ({W("detect", d)} \cup {R("mc2"), B("mc2", "sf", LoraSf)})
           p4 == p3 \o Modem!lora_set_coding_rate(LoraCr)
           S4 == S3 \cup {R("mc1"), B("mc1", "cr", cr)}
           p5 == p4 \o Modem!lora_idle
           S5 == S4 \cup {W("op", "stdby")}
           p6 == p5 \o Modem!Write("length", 4)
           S6 == S5 \cup {W("length", 4)}
           p7 == p6 \o Modem!Write("op", "tx")
           S7 == S6 \cup {W("op", "tx")}
<1>4. Makes(p1, S1)
  BY SettingsMake
<1>5. Makes(p2, S2)
  <2> HIDE DEF p1, S1
  <2> QED
    BY SettingsMake, <1>4, JoinMakes
<1>6. Makes(p3, S3)
  <2> HIDE DEF p2, S2
  <2> QED
    BY <1>1, <1>5, JoinMakes
<1>7. Makes(p4, S4)
  <2> HIDE DEF p3, S3
  <2> QED
    BY <1>2, <1>6, JoinMakes
<1>8. Makes(p5, S5)
  <2> HIDE DEF p4, S4
  <2> QED
    BY <1>3, <1>7, JoinMakes
<1>9. Makes(p6, S6)
  <2> HIDE DEF p5, S5
  <2> QED
    BY <1>3, <1>8, JoinMakes
<1>10. Makes(p7, S7)
  <2> HIDE DEF p6, S6
  <2> QED
    BY <1>3, <1>9, JoinMakes
<1>11. Modem!loraSend = p7
  BY DEF Modem!loraSend
<1>12. Serves(S7, Goals(<<"send">>))
  <2> HIDE DEF S7
  <2> QED
    BY DEF Serves, Goals
<1> QED
  <2> HIDE DEF p7, S7
  <2> QED
    BY <1>10, <1>11, <1>12 DEF Fits

\* lora_receive_beacon.
LEMMA BeaconFits ==
    ASSUME NEW band \in Nat
    PROVE  Fits(Modem!lora_receive_beacon(band), <<"beacon", band>>)
<1> HIDE DEF Accesses
<1>1. PICK d \in {0, 1} : Makes(Modem!lora_set_spreading_factor(12),
                                 {W("detect", d)} \cup {R("mc2"), B("mc2", "sf", 12)})
  <2>1. 12 \in 6 .. 12
    OBVIOUS
  <2>2. \A sf \in 6 .. 12 : \E d \in {0, 1} :
           Makes(Modem!lora_set_spreading_factor(sf),
                 {W("detect", d)} \cup {R("mc2"), B("mc2", "sf", sf)})
    BY SettingsMake
  <2> QED
    BY <2>1, <2>2
<1>2. PICK cr \in 1 .. 4 : Makes(Modem!lora_set_coding_rate(5), {R("mc1"), B("mc1", "cr", cr)})
  BY SettingsMake, DriversAssumption
<1>3. Makes(Modem!lora_receive, {W("op", "rx")})
  BY WriteMakes, OtherAccesses DEF Modem!lora_receive
<1>4. Makes(Modem!Write("beaconReceive", 1), {W("beaconReceive", 1)})
  BY WriteMakes, PlainWrite DEF Registers
<1> DEFINE p1 == Modem!Write("beaconReceive", 1)
           S1 == {W("beaconReceive", 1)}
           p2 == p1 \o Modem!lora_set_frequency(band)
           S2 == S1 \cup ({W("__frequency", band)} \cup {W("msb", band)} \cup {W("mid", band)}
                       \cup {W("lsb", band)})
           p3 == p2 \o Modem!lora_invert_iq(0)
           S3 == S2 \cup ({W("iq", 0)} \cup {W("iq2", 0)})
           p4 == p3 \o Modem!lora_implicit_header_mode(BeaconSize)
           S4 == S3 \cup ({W("__implicit", 1)} \cup {R("mc1"), B("mc1", "hdr", 1)}
                       \cup {W("length", BeaconSize)})
           p5 == p4 \o Modem!lora_set_spreading_factor(12)
           S5 == S4 \cup ({W("detect", d)} \cup {R("mc2"), B("mc2", "sf", 12)})
           p6 == p5 \o Modem!lora_set_coding_rate(5)
           S6 == S5 \cup {R("mc1"), B("mc1", "cr", cr)}
           p7 == p6 \o Modem!lora_receive
           S7 == S6 \cup {W("op", "rx")}
<1>5. Makes(p1, S1)
  BY <1>4
<1>6. Makes(p2, S2)
  <2> HIDE DEF p1, S1
  <2> QED
    BY SettingsMake, <1>5, JoinMakes
<1>7. Makes(p3, S3)
  <2> HIDE DEF p2, S2
  <2> QED
    BY SettingsMake, <1>6, JoinMakes
<1>8. Makes(p4, S4)
  <2> HIDE DEF p3, S3
  <2> QED
    BY SettingsMake, DriversAssumption, <1>7, JoinMakes
<1>9. Makes(p5, S5)
  <2> HIDE DEF p4, S4
  <2> QED
    BY <1>1, <1>8, JoinMakes
<1>10. Makes(p6, S6)
  <2> HIDE DEF p5, S5
  <2> QED
    BY <1>2, <1>9, JoinMakes
<1>11. Makes(p7, S7)
  <2> HIDE DEF p6, S6
  <2> QED
    BY <1>3, <1>10, JoinMakes
<1>12. Modem!lora_receive_beacon(band) = p7
  BY DEF Modem!lora_receive_beacon
<1>13. Serves(S7, Goals(<<"beacon", band>>))
  <2>1. Goals(<<"beacon", band>>) = BeaconGoals(band)
    BY DEF Goals
  <2>2. BeaconGoals(band) \subseteq S7
    BY DEF BeaconGoals, FrequencyGoals
  <2>3. \A a \in S7 : Same(a, W("__frequency", band)) => a = W("__frequency", band)
    BY SameFacts
  <2>4. \A a \in S7 : Same(a, W("msb", band)) => a = W("msb", band)
    BY SameFacts
  <2>5. \A a \in S7 : Same(a, W("mid", band)) => a = W("mid", band)
    BY SameFacts
  <2>6. \A a \in S7 : Same(a, W("lsb", band)) => a = W("lsb", band)
    BY SameFacts
  <2>7. \A a \in S7 : Same(a, W("iq", 0)) => a = W("iq", 0)
    BY SameFacts
  <2>8. \A a \in S7 : Same(a, W("iq2", 0)) => a = W("iq2", 0)
    BY SameFacts
  <2>9. \A a \in S7 : Same(a, W("__implicit", 1)) => a = W("__implicit", 1)
    BY SameFacts
  <2>10. \A a \in S7 : Same(a, B("mc1", "hdr", 1)) => a = B("mc1", "hdr", 1)
    BY SameFacts
  <2>11. \A a \in S7 : Same(a, W("length", BeaconSize)) => a = W("length", BeaconSize)
    BY SameFacts
  <2>12. \A a \in S7 : Same(a, B("mc2", "sf", 12)) => a = B("mc2", "sf", 12)
    BY SameFacts
  <2>13. \A a \in S7 : Same(a, W("op", "rx")) => a = W("op", "rx")
    BY SameFacts
  <2> HIDE DEF S7
  <2> QED
    BY <2>1, <2>2, <2>3, <2>4, <2>5, <2>6, <2>7, <2>8, <2>9, <2>10, <2>11, <2>12, <2>13
    DEF Serves, BeaconGoals, FrequencyGoals
<1> QED
  <2> HIDE DEF p7, S7
  <2> QED
    BY <1>11, <1>12, <1>13 DEF Fits

\* lora_receive_upstream.
LEMMA UpstreamFits ==
    Fits(Modem!lora_receive_upstream, <<"upstream">>)
<1> HIDE DEF Accesses
<1>1. PICK d \in {0, 1} : Makes(Modem!lora_set_spreading_factor(LoraSf),
                                 {W("detect", d)} \cup {R("mc2"), B("mc2", "sf", LoraSf)})
  BY SettingsMake, DriversAssumption
<1>2. PICK cr \in 1 .. 4 : Makes(Modem!lora_set_coding_rate(LoraCr), {R("mc1"), B("mc1", "cr", cr)})
  BY SettingsMake, DriversAssumption
<1>3. Makes(Modem!lora_receive, {W("op", "rx")})
  BY WriteMakes, OtherAccesses DEF Modem!lora_receive
<1>4. Makes(Modem!Write("beaconReceive", 0), {W("beaconReceive", 0)})
  BY WriteMakes, PlainWrite DEF Registers
<1> DEFINE p1 == Modem!Write("beaconReceive", 0)
           S1 == {W("beaconReceive", 0)}
           p2 == p1 \o Modem!lora_set_frequency(0)
           S2 == S1 \cup ({W("__frequency", 0)} \cup {W("msb", 0)} \cup {W("mid", 0)}
                       \cup {W("lsb", 0)})
           p3 == p2 \o Modem!lora_invert_iq(1)
           S3 == S2 \cup ({W("iq", 1)} \cup {W("iq2", 1)})
           p4 == p3 \o Modem!lora_explicit_header_mode
           S4 == S3 \cup ({W("__implicit", 0)} \cup {R("mc1"), B("mc1", "hdr", 0)})
           p5 == p4 \o Modem!lora_set_spreading_factor(LoraSf)
           S5 == S4 \cup ({W("detect", d)} \cup {R("mc2"), B("mc2", "sf", LoraSf)})
           p6 == p5 \o Modem!lora_set_coding_rate(LoraCr)
           S6 == S5 \cup {R("mc1"), B("mc1", "cr", cr)}
           p7 == p6 \o Modem!lora_receive
           S7 == S6 \cup {W("op", "rx")}
<1>5. Makes(p1, S1)
  BY <1>4
<1>6. Makes(p2, S2)
  <2> HIDE DEF p1, S1
  <2> QED
    BY SettingsMake, <1>5, JoinMakes
<1>7. Makes(p3, S3)
  <2> HIDE DEF p2, S2
  <2> QED
    BY SettingsMake, <1>6, JoinMakes
<1>8. Makes(p4, S4)
  <2> HIDE DEF p3, S3
  <2> QED
    BY SettingsMake, DriversAssumption, <1>7, JoinMakes
<1>9. Makes(p5, S5)
  <2> HIDE DEF p4, S4
  <2> QED
    BY <1>1, <1>8, JoinMakes
<1>10. Makes(p6, S6)
  <2> HIDE DEF p5, S5
  <2> QED
    BY <1>2, <1>9, JoinMakes
<1>11. Makes(p7, S7)
  <2> HIDE DEF p6, S6
  <2> QED
    BY <1>3, <1>10, JoinMakes
<1>12. Modem!lora_receive_upstream = p7
  BY DEF Modem!lora_receive_upstream
<1>13. Serves(S7, Goals(<<"upstream">>))
  <2>1. Goals(<<"upstream">>) = UpstreamGoals
    BY DEF Goals
  <2>2. UpstreamGoals \subseteq S7
    BY DEF UpstreamGoals, FrequencyGoals
  <2>3. \A a \in S7 : Same(a, W("__frequency", 0)) => a = W("__frequency", 0)
    BY SameFacts
  <2>4. \A a \in S7 : Same(a, W("msb", 0)) => a = W("msb", 0)
    BY SameFacts
  <2>5. \A a \in S7 : Same(a, W("mid", 0)) => a = W("mid", 0)
    BY SameFacts
  <2>6. \A a \in S7 : Same(a, W("lsb", 0)) => a = W("lsb", 0)
    BY SameFacts
  <2>7. \A a \in S7 : Same(a, W("iq", 1)) => a = W("iq", 1)
    BY SameFacts
  <2>8. \A a \in S7 : Same(a, W("iq2", 1)) => a = W("iq2", 1)
    BY SameFacts
  <2>9. \A a \in S7 : Same(a, W("__implicit", 0)) => a = W("__implicit", 0)
    BY SameFacts
  <2>10. \A a \in S7 : Same(a, B("mc1", "hdr", 0)) => a = B("mc1", "hdr", 0)
    BY SameFacts
  <2>11. \A a \in S7 : Same(a, B("mc2", "sf", LoraSf)) => a = B("mc2", "sf", LoraSf)
    BY SameFacts
  <2>12. \A a \in S7 : Same(a, W("op", "rx")) => a = W("op", "rx")
    BY SameFacts
  <2> HIDE DEF S7
  <2> QED
    BY <2>1, <2>2, <2>3, <2>4, <2>5, <2>6, <2>7, <2>8, <2>9, <2>10, <2>11, <2>12
    DEF Serves, UpstreamGoals, FrequencyGoals
<1> QED
  <2> HIDE DEF p7, S7
  <2> QED
    BY <1>11, <1>12, <1>13 DEF Fits

-----------------------------------------------------------------------------
(* The invariant of the modem *)

Names ==
    {<<"none">>, <<"boot">>, <<"send">>, <<"upstream">>, <<"sleep">>}
    \cup {<<"beacon", b>> : b \in BeaconBands}

\* Registers hold what the modem knows, and mc2 never has the checksum on.
RegOK ==
    /\ DOMAIN reg = Registers /\ reg["mc1"] \in Mc1 /\ reg["mc2"] \in Mc2
    /\ reg["op"] \in {"sleep", "stdby", "tx", "rx"}
    /\ reg["length"] \in 0 .. 255 /\ reg["pa"] \in 0 .. 15

\* The task is about to write back what it has read of register r.
Holds(t, r) == 1 \in DOMAIN prog[t] /\ prog[t][1].do = "back" /\ prog[t][1].reg = r

\* What is left of a program is paired, but for a value that was read.
Rest(p) ==
    \A i \in DOMAIN p : i > 1 /\ p[i].do = "back" =>
        p[i - 1].do = "read" /\ p[i - 1].reg = p[i].reg

ProgOK ==
    /\ last \in Names /\ alone \in BOOLEAN
    /\ DOMAIN prog = Tasks /\ DOMAIN copy = Tasks
    /\ \A t \in Tasks : prog[t] \in Seq(Accesses) /\ Rest(prog[t])
    /\ \A t \in Tasks : Holds(t, "mc1") => copy[t] \in Mc1
    /\ \A t \in Tasks : Holds(t, "mc2") => copy[t] \in Mc2

\* After the boot the link's parameters are in the registers and in every value
\* that a task has read and will write back.
LinkInv ==
    last[1] \notin {"none", "boot"} =>
        /\ reg["pa"] = 15 /\ reg["sync"] = 52 /\ reg["mc1"].bw = 9
        /\ \A t \in Tasks : Holds(t, "mc1") => copy[t].bw = 9

Done(g) == IF g.do = "write" THEN reg[g.reg] = g.val ELSE reg[g.reg][g.field] = g.val

\* Of a program that no other one overlaps, each goal is reached or still ahead,
\* nothing ahead contradicts it, and what was read is still there.
AloneInv ==
    /\ last[1] \in {"none", "boot"} => alone
    /\ last[1] = "none" => \A t \in Tasks : prog[t] = <<>>
    /\ alone =>
          /\ \A t, u \in Tasks : prog[t] # <<>> /\ prog[u] # <<>> => t = u
          /\ \A t \in Tasks, r \in {"mc1", "mc2"} : Holds(t, r) => copy[t] = reg[r]
          /\ \A g \in Goals(last) : Done(g) \/ \E t \in Tasks : g \in Items(prog[t])
          /\ \A t \in Tasks : \A a \in Items(prog[t]), g \in Goals(last) :
                Same(a, g) => a = g

ModemInv == RegOK /\ ProgOK /\ LinkInv /\ AloneInv

\* Names are told apart by their first part.
LEMMA NameFacts ==
    ASSUME NEW l \in Names
    PROVE  /\ l[1] \in {"none", "boot", "send", "upstream", "sleep", "beacon"}
           /\ l = <<"none">> <=> l[1] = "none"
           /\ l = <<"boot">> <=> l[1] = "boot"
           /\ l[1] = "beacon" => l[2] \in BeaconBands
<1>1. CASE l \in {<<"none">>, <<"boot">>, <<"send">>, <<"upstream">>, <<"sleep">>}
  BY <1>1
<1>2. CASE \E b \in BeaconBands : l = <<"beacon", b>>
  <2>1. PICK b \in BeaconBands : l = <<"beacon", b>>
    BY <1>2
  <2>2. l[1] = "beacon" /\ l[2] = b
    BY <2>1
  <2> QED
    BY <2>1, <2>2
<1> QED
  BY <1>1, <1>2 DEF Names

\* The first access of a program is made.
LEMMA RestFacts ==
    ASSUME NEW p \in Seq(Accesses), Rest(p), p # <<>>
    PROVE  /\ Head(p) = p[1] /\ p[1] \in Accesses /\ 1 \in DOMAIN p
           /\ Tail(p) \in Seq(Accesses) /\ Rest(Tail(p))
           /\ Items(p) = {p[1]} \cup Items(Tail(p))
           /\ 1 \in DOMAIN Tail(p) /\ Tail(p)[1].do = "back" =>
                 p[1].do = "read" /\ p[1].reg = Tail(p)[1].reg
<1> HIDE DEF Accesses
<1> DEFINE q == Tail(p)
<1>1. /\ Len(p) \in Nat /\ Len(p) >= 1 /\ DOMAIN p = 1 .. Len(p)
      /\ Head(p) = p[1] /\ p[1] \in Accesses
      /\ q \in Seq(Accesses) /\ DOMAIN q = 1 .. (Len(p) - 1)
      /\ \A i \in 1 .. (Len(p) - 1) : q[i] = p[i + 1]
  OBVIOUS
<1> HIDE DEF q
<1>2. ASSUME NEW i \in DOMAIN q, q[i].do = "back"
      PROVE  p[i].do = "read" /\ p[i].reg = q[i].reg
  <2>1. i + 1 \in DOMAIN p /\ i + 1 > 1 /\ (i + 1) - 1 = i /\ q[i] = p[i + 1]
    BY <1>1
  <2> QED
    BY <1>2, <2>1 DEF Rest
<1>3. Rest(q)
  <2> SUFFICES ASSUME NEW i \in DOMAIN q, i > 1, q[i].do = "back"
               PROVE  q[i - 1].do = "read" /\ q[i - 1].reg = q[i].reg
    BY DEF Rest
  <2>1. i - 1 \in 1 .. (Len(p) - 1) /\ (i - 1) + 1 = i
    BY <1>1
  <2> QED
    BY <1>1, <1>2, <2>1
<1>4. Items(p) = {p[1]} \cup Items(q)
  <2>1. \A i \in DOMAIN p : p[i] \in {p[1]} \cup Items(q)
    <3> SUFFICES ASSUME NEW i \in DOMAIN p, i # 1
                 PROVE  p[i] \in Items(q)
      OBVIOUS
    <3>1. i - 1 \in DOMAIN q /\ q[i - 1] = p[i]
      BY <1>1
    <3> QED
      BY <3>1 DEF Items
  <2>2. \A i \in DOMAIN q : q[i] \in Items(p)
    <3> SUFFICES ASSUME NEW i \in DOMAIN q
                 PROVE  q[i] \in Items(p)
      OBVIOUS
    <3>1. i + 1 \in DOMAIN p /\ q[i] = p[i + 1]
      BY <1>1
    <3> QED
      BY <3>1 DEF Items
  <2>3. p[1] \in Items(p)
    BY <1>1 DEF Items
  <2> QED
    BY <2>1, <2>2, <2>3 DEF Items
<1>5. 1 \in DOMAIN q /\ q[1].do = "back" => p[1].do = "read" /\ p[1].reg = q[1].reg
  BY <1>2
<1> QED
  BY <1>1, <1>3, <1>4, <1>5 DEF q

\* A program that begins is paired.
LEMMA BeginFacts ==
    ASSUME NEW p, NEW name, Fits(p, name)
    PROVE  /\ p \in Seq(Accesses) /\ Rest(p) /\ (1 \in DOMAIN p => p[1].do # "back")
           /\ Serves(Items(p), Goals(name))
<1>1. p \in Seq(Accesses) /\ Paired(p) /\ Serves(Items(p), Goals(name))
  BY DEF Fits, Makes
<1> HIDE DEF Accesses
<1>2. Rest(p) /\ (1 \in DOMAIN p => p[1].do # "back")
  BY <1>1 DEF Paired, Rest
<1> QED
  BY <1>1, <1>2

\* The goals of the boot are the parameters of the link.
LEMMA LinkReached ==
    ASSUME ModemInv, last[1] = "boot", Modem!Idle
    PROVE  reg["pa"] = 15 /\ reg["sync"] = 52 /\ reg["mc1"].bw = 9
<1>1. \A g \in Goals(last) : Done(g)
  <2>1. \A t \in Tasks : Items(prog[t]) = {}
    BY DEF Modem!Idle, Items
  <2> QED
    BY <2>1 DEF ModemInv, AloneInv
<1>2. Goals(last) = LinkGoals
  BY DEF Goals
<1>3. Done(W("pa", 15)) /\ Done(W("sync", 52)) /\ Done(B("mc1", "bw", 9))
  BY <1>1, <1>2 DEF LinkGoals
<1> QED
  BY <1>3 DEF Done, W, B

\* A task starts a program.
LEMMA StartKeeps ==
    ASSUME ModemInv, NEW t \in Tasks, NEW name \in Names, NEW p, Fits(p, name),
           Modem!Start(t, name, p),
           \/ last[1] = "none" /\ name[1] = "boot"
           \/ Modem!Booted /\ name[1] \notin {"none", "boot"}
    PROVE  ModemInv'
<1> HIDE DEF Accesses
<1>1. /\ prog[t] = <<>> /\ prog' = [prog EXCEPT ![t] = p] /\ last' = name
      /\ (alone' <=> Modem!Idle) /\ alone' \in BOOLEAN /\ reg' = reg /\ copy' = copy
  BY DEF Modem!Start, Modem!Idle
<1>2. /\ DOMAIN prog' = Tasks /\ prog'[t] = p
      /\ \A u \in Tasks : u # t => prog'[u] = prog[u]
  BY <1>1 DEF ModemInv, ProgOK
<1>3. /\ p \in Seq(Accesses) /\ Rest(p) /\ (1 \in DOMAIN p => p[1].do # "back")
      /\ Serves(Items(p), Goals(name))
  BY BeginFacts
<1>4. \A u \in Tasks, r \in {"mc1", "mc2"} : Holds(u, r)' => u # t /\ Holds(u, r)
  BY <1>2, <1>3 DEF Holds
<1>5. last[1] = "none" => Modem!Idle
  BY DEF ModemInv, AloneInv, Modem!Idle
<1>6. RegOK'
  BY <1>1 DEF ModemInv, RegOK
<1>7. ProgOK'
  <2>1. \A u \in Tasks : prog'[u] \in Seq(Accesses) /\ Rest(prog'[u])
    BY <1>2, <1>3 DEF ModemInv, ProgOK
  <2>2. /\ \A u \in Tasks : Holds(u, "mc1")' => copy'[u] \in Mc1
        /\ \A u \in Tasks : Holds(u, "mc2")' => copy'[u] \in Mc2
    BY <1>1, <1>4 DEF ModemInv, ProgOK
  <2> QED
    BY <1>1, <1>2, <2>1, <2>2 DEF ModemInv, ProgOK
<1>8. LinkInv'
  <2> SUFFICES ASSUME name[1] \notin {"none", "boot"}
               PROVE  /\ reg["pa"] = 15 /\ reg["sync"] = 52 /\ reg["mc1"].bw = 9
                      /\ \A u \in Tasks : Holds(u, "mc1")' => copy[u].bw = 9
    BY <1>1 DEF LinkInv
  <2>1. Modem!Booted
    OBVIOUS
  <2>2. CASE last[1] = "boot"
    <3>1. Modem!Idle
      BY <2>1, <2>2, NameFacts DEF Modem!Booted, ModemInv, ProgOK
    <3>2. \A u \in Tasks : ~Holds(u, "mc1")
      BY <3>1 DEF Modem!Idle, Holds
    <3> QED
      BY <1>4, <2>2, <3>1, <3>2, LinkReached
  <2>3. CASE last[1] # "boot"
    <3>1. last[1] \notin {"none", "boot"}
      BY <2>1, <2>3, NameFacts DEF Modem!Booted, ModemInv, ProgOK
    <3> QED
      BY <1>4, <3>1 DEF ModemInv, LinkInv
  <2> QED
    BY <2>2, <2>3
<1>9. AloneInv'
  <2>1. name[1] # "none" /\ (name[1] = "boot" => alone')
    BY <1>1, <1>5
  <2>2. ASSUME alone'
        PROVE  /\ \A u \in Tasks : u # t => prog'[u] = <<>>
               /\ \A u \in Tasks, r \in {"mc1", "mc2"} : ~Holds(u, r)'
    <3>1. \A u \in Tasks : prog[u] = <<>>
      BY <1>1, <2>2 DEF Modem!Idle
    <3>2. \A u \in Tasks, r \in {"mc1", "mc2"} : ~Holds(u, r)
      BY <3>1 DEF Holds
    <3> QED
      BY <1>2, <1>4, <3>1, <3>2
  <2>3. ASSUME alone'
        PROVE  /\ \A g \in Goals(name) : \E u \in Tasks : g \in Items(prog'[u])
               /\ \A u \in Tasks : \A a \in Items(prog'[u]), g \in Goals(name) :
                     Same(a, g) => a = g
    <3>1. \A u \in Tasks : u # t => Items(prog'[u]) = {}
      BY <2>2, <2>3 DEF Items
    <3> QED
      BY <1>2, <1>3, <3>1 DEF Serves
  <2> QED
    BY <1>1, <2>1, <2>2, <2>3 DEF AloneInv
<1> QED
  BY <1>6, <1>7, <1>8, <1>9 DEF ModemInv

\* What an access is.
LEMMA AccessFacts ==
    ASSUME NEW a \in Accesses
    PROVE  /\ a.do \in {"write", "read", "back"} /\ a.reg \in Registers
           /\ a.do = "write" =>
                 /\ a.reg \notin {"mc1", "mc2"} /\ a.field = ""
                 /\ a.reg = "op" => a.val \in {"stdby", "sleep", "rx", "tx"}
                 /\ a.reg = "length" => a.val \in 0 .. 255
                 /\ a.reg = "pa" => a.val = 15
                 /\ a.reg = "sync" => a.val = 52
           /\ a.do = "read" => a.reg \in {"mc1", "mc2"}
           /\ a.do = "back" =>
                 \/ a.reg = "mc1" /\ a.field = "bw" /\ a.val = 9
                 \/ a.reg = "mc1" /\ a.field = "cr" /\ a.val \in 1 .. 4
                 \/ a.reg = "mc1" /\ a.field = "hdr" /\ a.val \in {0, 1}
                 \/ a.reg = "mc2" /\ a.field = "sf" /\ a.val \in 6 .. 12
                 \/ a.reg = "mc2" /\ a.field = "crc" /\ a.val = 0
BY DEF Accesses, Allowed

\* Goals are accesses that change a register.
LEMMA GoalFacts ==
    ASSUME NEW l \in Names, NEW g \in Goals(l)
    PROVE  g \in Accesses /\ g.do \in {"write", "back"}
<1> HIDE DEF Accesses
<1>1. /\ \A r, v : W(r, v).do \in {"write", "back"}
      /\ \A r, f, v : B(r, f, v).do \in {"write", "back"}
  BY DEF W, B
<1>2. \A band \in Nat : \A h \in FrequencyGoals(band) : h \in Accesses /\ h.do \in {"write", "back"}
  <2>1. \A band \in Nat : \A r \in {"__frequency", "msb", "mid", "lsb"} : W(r, band) \in Accesses
    BY PlainWrite DEF Registers
  <2> QED
    BY <1>1, <2>1 DEF FrequencyGoals
<1>3. /\ \A r \in {"iq", "iq2", "__implicit"}, v \in {0, 1} : W(r, v) \in Accesses
      /\ W("length", BeaconSize) \in Accesses /\ W("op", "rx") \in Accesses
      /\ \A v \in {0, 1} : B("mc1", "hdr", v) \in Accesses
      /\ B("mc2", "sf", 12) \in Accesses /\ B("mc2", "sf", LoraSf) \in Accesses
  <2>1. \A r \in {"iq", "iq2", "__implicit"}, v \in {0, 1} : W(r, v) \in Accesses
    BY PlainWrite DEF Registers
  <2>2. BeaconSize \in 0 .. 255 /\ LoraSf \in 6 .. 12 /\ 12 \in 6 .. 12
    BY DriversAssumption
  <2> QED
    BY <2>1, <2>2, OtherAccesses
<1>4. CASE l[1] = "boot"
  <2>1. Goals(l) = LinkGoals
    BY <1>4 DEF Goals
  <2> QED
    BY <1>1, <2>1, OtherAccesses DEF LinkGoals
<1>5. CASE l[1] = "beacon"
  <2>1. Goals(l) = BeaconGoals(l[2]) /\ l[2] \in Nat
    BY <1>5, NameFacts, DriversAssumption DEF Goals
  <2> QED
    BY <1>1, <1>2, <1>3, <2>1 DEF BeaconGoals
<1>6. CASE l[1] = "upstream"
  <2>1. Goals(l) = UpstreamGoals
    BY <1>6 DEF Goals
  <2> QED
    BY <1>1, <1>2, <1>3, <2>1 DEF UpstreamGoals
<1>7. CASE l[1] \notin {"boot", "beacon", "upstream"}
  BY <1>7 DEF Goals
<1> QED
  BY <1>4, <1>5, <1>6, <1>7

\* What a step of a task leaves of its program.
LEMMA StepLeaves ==
    ASSUME ModemInv, NEW t \in Tasks, Modem!Step(t)
    PROVE  /\ prog[t] # <<>> /\ prog[t][1] \in Accesses
           /\ prog[t][1].do = "back" => Holds(t, prog[t][1].reg)
           /\ last' = last /\ alone' = alone /\ DOMAIN prog' = Tasks
           /\ \A u \in Tasks : prog'[u] \in Seq(Accesses) /\ Rest(prog'[u])
           /\ Items(prog[t]) = {prog[t][1]} \cup Items(prog'[t])
           /\ \A u \in Tasks : u # t => prog'[u] = prog[u]
           /\ \A u \in Tasks, r \in {"mc1", "mc2"} : Holds(u, r)' =>
                 \/ u # t /\ Holds(u, r)
                 \/ u = t /\ prog[t][1].do = "read" /\ prog[t][1].reg = r
<1> HIDE DEF Accesses
<1>1. /\ prog[t] # <<>> /\ prog' = [prog EXCEPT ![t] = Tail(prog[t])]
      /\ last' = last /\ alone' = alone
  BY DEF Modem!Step
<1>2. /\ DOMAIN prog = Tasks
      /\ \A u \in Tasks : prog[u] \in Seq(Accesses) /\ Rest(prog[u])
  BY DEF ModemInv, ProgOK
<1>3. /\ DOMAIN prog' = Tasks /\ prog'[t] = Tail(prog[t])
      /\ \A u \in Tasks : u # t => prog'[u] = prog[u]
  BY <1>1, <1>2
<1>4. /\ prog[t][1] \in Accesses /\ 1 \in DOMAIN prog[t]
      /\ Tail(prog[t]) \in Seq(Accesses) /\ Rest(Tail(prog[t]))
      /\ Items(prog[t]) = {prog[t][1]} \cup Items(Tail(prog[t]))
      /\ 1 \in DOMAIN Tail(prog[t]) /\ Tail(prog[t])[1].do = "back" =>
            prog[t][1].do = "read" /\ prog[t][1].reg = Tail(prog[t])[1].reg
  BY <1>1, <1>2, RestFacts
<1>5. \A u \in Tasks, r \in {"mc1", "mc2"} : Holds(u, r)' =>
         \/ u # t /\ Holds(u, r)
         \/ u = t /\ prog[t][1].do = "read" /\ prog[t][1].reg = r
  BY <1>3, <1>4 DEF Holds
<1>6. prog[t][1].do = "back" => Holds(t, prog[t][1].reg)
  BY <1>4 DEF Holds
<1> QED
  BY <1>1, <1>2, <1>3, <1>4, <1>5, <1>6

\* Goals that were reached stay so, and one that is made is reached.
LEMMA GoalsKept ==
    ASSUME ModemInv, NEW t \in Tasks, Modem!Step(t), alone,
           \A a : a = prog[t][1] /\ a.do # "read" => Done(a)',
           \A g \in Goals(last) : Done(g) => Done(g)',
           \A u \in Tasks, r \in {"mc1", "mc2"} : Holds(u, r)' => copy'[u] = reg'[r]
    PROVE  AloneInv'
<1> HIDE DEF Accesses
<1>1. /\ last' = last /\ alone' = alone
      /\ prog[t] # <<>> /\ Items(prog[t]) = {prog[t][1]} \cup Items(prog'[t])
      /\ \A u \in Tasks : u # t => prog'[u] = prog[u]
  BY StepLeaves
<1>2. \A u \in Tasks : u # t => prog[u] = <<>>
  BY <1>1 DEF ModemInv, AloneInv
<1>3. last[1] # "none"
  BY <1>1 DEF ModemInv, AloneInv
<1>4. \A g \in Goals(last) : Done(g)' \/ \E u \in Tasks : g \in Items(prog'[u])
  <2> SUFFICES ASSUME NEW g \in Goals(last)
               PROVE  Done(g)' \/ \E u \in Tasks : g \in Items(prog'[u])
    OBVIOUS
  <2>1. g.do # "read"
    BY GoalFacts DEF ModemInv, ProgOK
  <2>2. Done(g) \/ \E u \in Tasks : g \in Items(prog[u])
    BY DEF ModemInv, AloneInv
  <2>3. CASE \E u \in Tasks : g \in Items(prog[u])
    <3>1. PICK u \in Tasks : g \in Items(prog[u])
      BY <2>3
    <3>2. u = t
      BY <1>2, <3>1 DEF Items
    <3> QED
      BY <1>1, <2>1, <3>1, <3>2
  <2> QED
    BY <2>2, <2>3
<1>5. \A u \in Tasks : \A a \in Items(prog'[u]), g \in Goals(last) : Same(a, g) => a = g
  BY <1>1 DEF ModemInv, AloneInv
<1>6. \A u, v \in Tasks : prog'[u] # <<>> /\ prog'[v] # <<>> => u = v
  BY <1>1, <1>2
<1> QED
  BY <1>1, <1>3, <1>4, <1>5, <1>6 DEF ModemInv, AloneInv

\* A register is written.
LEMMA WriteKeeps ==
    ASSUME ModemInv, NEW t \in Tasks, Modem!Step(t), prog[t][1].do = "write",
           reg' = [reg EXCEPT ![prog[t][1].reg] = prog[t][1].val], copy' = copy
    PROVE  ModemInv'
<1> HIDE DEF Accesses
<1>0. PICK a : a = prog[t][1]
  OBVIOUS
<1>1. /\ a \in Accesses /\ last' = last /\ alone' = alone /\ DOMAIN prog' = Tasks
      /\ \A u \in Tasks : prog'[u] \in Seq(Accesses) /\ Rest(prog'[u])
      /\ a \in Items(prog[t])
      /\ \A u \in Tasks, r \in {"mc1", "mc2"} : Holds(u, r)' => Holds(u, r)
  <2>1. /\ prog[t][1] \in Accesses /\ Items(prog[t]) = {prog[t][1]} \cup Items(prog'[t])
        /\ last' = last /\ alone' = alone /\ DOMAIN prog' = Tasks
        /\ \A u \in Tasks : prog'[u] \in Seq(Accesses) /\ Rest(prog'[u])
    BY StepLeaves
  <2>2. \A u \in Tasks, r \in {"mc1", "mc2"} : Holds(u, r)' =>
           \/ u # t /\ Holds(u, r)
           \/ u = t /\ prog[t][1].do = "read" /\ prog[t][1].reg = r
    BY StepLeaves
  <2> QED
    BY <1>0, <2>1, <2>2
<1>2. /\ a.reg \in Registers /\ a.reg \notin {"mc1", "mc2"} /\ a.field = ""
      /\ a.reg = "op" => a.val \in {"stdby", "sleep", "rx", "tx"}
      /\ a.reg = "length" => a.val \in 0 .. 255
      /\ a.reg = "pa" => a.val = 15
      /\ a.reg = "sync" => a.val = 52
  BY <1>0, <1>1, AccessFacts
<1>3. /\ DOMAIN reg' = Registers /\ reg'[a.reg] = a.val
      /\ \A r \in Registers : r # a.reg => reg'[r] = reg[r]
  BY <1>0, <1>2 DEF ModemInv, RegOK
<1>4. \A r \in {"mc1", "mc2", "op", "length", "pa", "sync"} : r \in Registers
  BY DEF Registers
<1>5. reg'["mc1"] = reg["mc1"] /\ reg'["mc2"] = reg["mc2"]
  BY <1>2, <1>3, <1>4
<1>6. RegOK'
  <2>1. reg'["op"] \in {"sleep", "stdby", "tx", "rx"}
    BY <1>2, <1>3, <1>4 DEF ModemInv, RegOK
  <2>2. reg'["length"] \in 0 .. 255
    <3>1. reg'["length"] = reg["length"] \/ (a.reg = "length" /\ reg'["length"] = a.val)
      BY <1>3, <1>4
    <3> QED
      BY <1>2, <3>1 DEF ModemInv, RegOK
  <2>3. reg'["pa"] \in 0 .. 15
    <3>1. reg'["pa"] = reg["pa"] \/ reg'["pa"] = 15
      BY <1>2, <1>3, <1>4
    <3> QED
      BY <3>1 DEF ModemInv, RegOK
  <2> QED
    BY <1>3, <1>5, <2>1, <2>2, <2>3 DEF ModemInv, RegOK
<1>7. ProgOK'
  BY <1>1 DEF ModemInv, ProgOK
<1>8. LinkInv'
  BY <1>1, <1>2, <1>3, <1>4, <1>5, ZenonT(30) DEF ModemInv, LinkInv
<1>9. AloneInv'
  <2>1. CASE alone
    <3>1. Done(a)'
      BY <1>0, <1>3 DEF Done
    <3>2. \A g \in Goals(last) : Done(g) => Done(g)'
      <4> SUFFICES ASSUME NEW g \in Goals(last), Done(g)
                   PROVE  Done(g)'
        OBVIOUS
      <4>1. g \in Accesses /\ g.do \in {"write", "back"}
        BY GoalFacts DEF ModemInv, ProgOK
      <4>2. CASE g.do = "write" /\ g.reg = a.reg
        <5>1. Same(a, g)
          BY <1>0, <1>2, <4>1, <4>2, AccessFacts DEF Same
        <5>2. a = g
          BY <1>1, <2>1, <5>1 DEF ModemInv, AloneInv
        <5> QED
          BY <3>1, <5>2 DEF Done
      <4>3. CASE g.do = "write" /\ g.reg # a.reg
        <5>1. g.reg \in Registers
          BY <4>1, AccessFacts
        <5> QED
          BY <1>3, <4>3, <5>1 DEF Done
      <4>4. CASE g.do = "back"
        <5>1. g.reg \in {"mc1", "mc2"}
          BY <4>1, <4>4, AccessFacts
        <5> QED
          BY <1>5, <4>4, <5>1 DEF Done
      <4> QED
        BY <4>1, <4>2, <4>3, <4>4
    <3>3. \A u \in Tasks, r \in {"mc1", "mc2"} : Holds(u, r)' => copy'[u] = reg'[r]
      BY <1>1, <1>5, <2>1 DEF ModemInv, AloneInv
    <3> QED
      BY <1>0, <2>1, <3>1, <3>2, <3>3, GoalsKept
  <2>2. CASE ~alone
    BY <1>1, <2>2 DEF ModemInv, AloneInv
  <2> QED
    BY <2>1, <2>2
<1> QED
  BY <1>6, <1>7, <1>8, <1>9 DEF ModemInv

\* A register is read.
LEMMA ReadKeeps ==
    ASSUME ModemInv, NEW t \in Tasks, Modem!Step(t), prog[t][1].do = "read",
           copy' = [copy EXCEPT ![t] = reg[prog[t][1].reg]], reg' = reg
    PROVE  ModemInv'
<1> HIDE DEF Accesses
<1>1. /\ last' = last /\ alone' = alone /\ DOMAIN prog' = Tasks
      /\ \A u \in Tasks : prog'[u] \in Seq(Accesses) /\ Rest(prog'[u])
  BY StepLeaves
<1>2. \A u \in Tasks, r \in {"mc1", "mc2"} : Holds(u, r)' =>
         \/ u # t /\ Holds(u, r) /\ copy'[u] = copy[u]
         \/ copy'[u] = reg[r]
  <2>1. \A u \in Tasks, r \in {"mc1", "mc2"} : Holds(u, r)' =>
           \/ u # t /\ Holds(u, r)
           \/ u = t /\ prog[t][1].do = "read" /\ prog[t][1].reg = r
    BY StepLeaves
  <2>2. copy'[t] = reg[prog[t][1].reg] /\ \A u \in Tasks : u # t => copy'[u] = copy[u]
    BY DEF ModemInv, ProgOK
  <2> QED
    BY <2>1, <2>2
<1>3. RegOK'
  BY DEF ModemInv, RegOK
<1>4. ProgOK'
  <2>1. \A u \in Tasks : Holds(u, "mc1")' => copy'[u] \in Mc1
    BY <1>2 DEF ModemInv, ProgOK, RegOK
  <2>2. \A u \in Tasks : Holds(u, "mc2")' => copy'[u] \in Mc2
    BY <1>2 DEF ModemInv, ProgOK, RegOK
  <2>3. DOMAIN copy' = Tasks
    BY DEF ModemInv, ProgOK
  <2> QED
    BY <1>1, <2>1, <2>2, <2>3 DEF ModemInv, ProgOK
<1>5. LinkInv'
  BY <1>1, <1>2 DEF ModemInv, LinkInv
<1>6. AloneInv'
  <2>1. CASE alone
    <3>1. \A a : a = prog[t][1] /\ a.do # "read" => Done(a)'
      OBVIOUS
    <3>2. \A g \in Goals(last) : Done(g) => Done(g)'
      BY DEF Done
    <3>3. \A u \in Tasks, r \in {"mc1", "mc2"} : Holds(u, r)' => copy'[u] = reg'[r]
      BY <1>2, <2>1 DEF ModemInv, AloneInv
    <3> QED
      BY <2>1, <3>1, <3>2, <3>3, GoalsKept
  <2>2. CASE ~alone
    BY <1>1, <2>2 DEF ModemInv, AloneInv
  <2> QED
    BY <2>1, <2>2
<1> QED
  BY <1>3, <1>4, <1>5, <1>6 DEF ModemInv

\* One field of a value that was read is changed.
LEMMA FieldFacts ==
    /\ \A c \in Mc1 : DOMAIN c = {"bw", "cr", "hdr"}
    /\ \A c \in Mc2 : DOMAIN c = {"sf", "crc"}
    /\ \A c \in Mc1 : [c EXCEPT !["bw"] = 9] \in Mc1 /\ [c EXCEPT !["bw"] = 9].bw = 9
    /\ \A c \in Mc1, v \in 1 .. 4 :
          [c EXCEPT !["cr"] = v] \in Mc1 /\ [c EXCEPT !["cr"] = v].bw = c.bw
    /\ \A c \in Mc1, v \in {0, 1} :
          [c EXCEPT !["hdr"] = v] \in Mc1 /\ [c EXCEPT !["hdr"] = v].bw = c.bw
    /\ \A c \in Mc2 : [c EXCEPT !["crc"] = 0] \in Mc2
    /\ \A c \in Mc2, v \in 6 .. 12 : [c EXCEPT !["sf"] = v] \in Mc2
BY DEF Mc1, Mc2

\* A register is written back with one field changed.
LEMMA BackKeeps ==
    ASSUME ModemInv, NEW t \in Tasks, Modem!Step(t), prog[t][1].do = "back",
           reg' = [reg EXCEPT ![prog[t][1].reg] =
                      [copy[t] EXCEPT ![prog[t][1].field] = prog[t][1].val]],
           copy' = [copy EXCEPT ![t] = <<>>]
    PROVE  ModemInv'
<1> HIDE DEF Accesses
<1>0. PICK a : a = prog[t][1]
  OBVIOUS
<1> DEFINE new == [copy[t] EXCEPT ![a.field] = a.val]
<1>1. /\ a \in Accesses /\ last' = last /\ alone' = alone /\ DOMAIN prog' = Tasks
      /\ \A u \in Tasks : prog'[u] \in Seq(Accesses) /\ Rest(prog'[u])
      /\ a \in Items(prog[t]) /\ Holds(t, a.reg)
  BY <1>0, StepLeaves
<1>2. \A u \in Tasks, r \in {"mc1", "mc2"} : Holds(u, r)' =>
         u # t /\ Holds(u, r) /\ copy'[u] = copy[u]
  <2>1. \A u \in Tasks, r \in {"mc1", "mc2"} : Holds(u, r)' =>
           \/ u # t /\ Holds(u, r)
           \/ u = t /\ prog[t][1].do = "read" /\ prog[t][1].reg = r
    BY StepLeaves
  <2>2. \A u \in Tasks : u # t => copy'[u] = copy[u]
    BY DEF ModemInv, ProgOK
  <2> QED
    BY <2>1, <2>2
<1>3. \/ a.reg = "mc1" /\ a.field = "bw" /\ a.val = 9
      \/ a.reg = "mc1" /\ a.field = "cr" /\ a.val \in 1 .. 4
      \/ a.reg = "mc1" /\ a.field = "hdr" /\ a.val \in {0, 1}
      \/ a.reg = "mc2" /\ a.field = "sf" /\ a.val \in 6 .. 12
      \/ a.reg = "mc2" /\ a.field = "crc" /\ a.val = 0
  BY <1>0, <1>1, AccessFacts
<1>4. /\ a.reg = "mc1" => copy[t] \in Mc1 /\ new \in Mc1
      /\ a.reg = "mc2" => copy[t] \in Mc2 /\ new \in Mc2
  <2>1. /\ a.reg = "mc1" => copy[t] \in Mc1
        /\ a.reg = "mc2" => copy[t] \in Mc2
    BY <1>1 DEF ModemInv, ProgOK
  <2> QED
    BY <1>3, <2>1, FieldFacts
<1>5. a.reg = "mc1" => new.bw = 9 \/ new.bw = copy[t].bw
  BY <1>3, <1>4, FieldFacts
<1>6. a.reg \in {"mc1", "mc2"} /\ a.reg \in Registers
  BY <1>3 DEF Registers
<1>7. /\ DOMAIN reg' = Registers /\ reg'[a.reg] = new
      /\ \A r \in Registers : r # a.reg => reg'[r] = reg[r]
  BY <1>0, <1>6 DEF ModemInv, RegOK
<1>8. \A r \in {"mc1", "mc2", "op", "length", "pa", "sync"} : r \in Registers
  BY DEF Registers
<1>9. /\ reg'["op"] = reg["op"] /\ reg'["length"] = reg["length"] /\ reg'["pa"] = reg["pa"]
      /\ reg'["sync"] = reg["sync"]
  BY <1>6, <1>7, <1>8
<1>10. new[a.field] = a.val /\ \A f \in Fields : f # a.field => new[f] = copy[t][f]
  <2>1. /\ a.reg = "mc1" => DOMAIN copy[t] = {"bw", "cr", "hdr"}
        /\ a.reg = "mc2" => DOMAIN copy[t] = {"sf", "crc"}
    BY <1>4, FieldFacts, Zenon
  <2> QED
    BY <1>3, <2>1
<1> HIDE DEF new
<1>11. RegOK'
  BY <1>4, <1>6, <1>7, <1>8, <1>9, Zenon DEF ModemInv, RegOK
<1>12. ProgOK'
  <2>1. /\ \A u \in Tasks : Holds(u, "mc1")' => copy'[u] \in Mc1
        /\ \A u \in Tasks : Holds(u, "mc2")' => copy'[u] \in Mc2
    BY <1>2 DEF ModemInv, ProgOK
  <2>2. DOMAIN copy' = Tasks
    BY DEF ModemInv, ProgOK
  <2> QED
    BY <1>1, <2>1, <2>2 DEF ModemInv, ProgOK
<1>13. LinkInv'
  <2> SUFFICES ASSUME last[1] \notin {"none", "boot"}
               PROVE  /\ reg'["pa"] = 15 /\ reg'["sync"] = 52 /\ reg'["mc1"].bw = 9
                      /\ \A u \in Tasks : Holds(u, "mc1")' => copy'[u].bw = 9
    BY <1>1 DEF LinkInv
  <2>1. reg'["mc1"].bw = 9
    <3>1. CASE a.reg = "mc1"
      BY <1>1, <1>5, <1>7, <3>1 DEF ModemInv, LinkInv
    <3>2. CASE a.reg # "mc1"
      BY <1>7, <1>8, <3>2 DEF ModemInv, LinkInv
    <3> QED
      BY <3>1, <3>2
  <2> QED
    BY <1>2, <1>9, <2>1 DEF ModemInv, LinkInv
<1>14. AloneInv'
  <2>1. CASE alone
    <3>1. Done(a)'
      BY <1>0, <1>7, <1>10 DEF Done
    <3>2. \A g \in Goals(last) : Done(g) => Done(g)'
      <4> SUFFICES ASSUME NEW g \in Goals(last), Done(g)
                   PROVE  Done(g)'
        OBVIOUS
      <4>1. g \in Accesses /\ g.do \in {"write", "back"}
        BY GoalFacts DEF ModemInv, ProgOK
      <4>2. g.reg \in Registers /\ g.field \in Fields
        BY <4>1 DEF Accesses
      <4>3. CASE g.do = "write"
        <5>1. g.reg # a.reg
          BY <1>6, <4>1, <4>3, AccessFacts
        <5> QED
          BY <1>7, <4>2, <4>3, <5>1 DEF Done
      <4>4. CASE g.do = "back" /\ g.reg # a.reg
        BY <1>7, <4>2, <4>4 DEF Done
      <4>5. CASE g.do = "back" /\ g.reg = a.reg /\ g.field = a.field
        <5>1. Same(a, g)
          BY <1>0, <4>5 DEF Same
        <5>2. a = g
          BY <1>1, <2>1, <5>1 DEF ModemInv, AloneInv
        <5> QED
          BY <3>1, <5>2 DEF Done
      <4>6. CASE g.do = "back" /\ g.reg = a.reg /\ g.field # a.field
        <5>1. copy[t] = reg[a.reg]
          BY <1>1, <1>6, <2>1 DEF ModemInv, AloneInv
        <5>2. reg'[g.reg][g.field] = reg[g.reg][g.field]
          BY <1>7, <1>10, <4>2, <4>6, <5>1
        <5> QED
          BY <4>6, <5>2 DEF Done
      <4> QED
        BY <4>1, <4>3, <4>4, <4>5, <4>6
    <3>3. \A u \in Tasks, r \in {"mc1", "mc2"} : ~Holds(u, r)'
      <4>1. \A u \in Tasks : u # t => prog[u] = <<>>
        <5>1. prog[t] # <<>>
          BY StepLeaves
        <5> QED
          BY <2>1, <5>1 DEF ModemInv, AloneInv
      <4>2. \A u \in Tasks, r \in {"mc1", "mc2"} : u # t => ~Holds(u, r)
        BY <4>1 DEF Holds
      <4> QED
        BY <1>2, <4>2
    <3> QED
      BY <1>0, <2>1, <3>1, <3>2, <3>3, GoalsKept
  <2>2. CASE ~alone
    BY <1>1, <2>2 DEF ModemInv, AloneInv
  <2> QED
    BY <2>1, <2>2
<1> QED
  BY <1>11, <1>12, <1>13, <1>14 DEF ModemInv

\* A task makes one access.
LEMMA StepKeeps ==
    ASSUME ModemInv, NEW t \in Tasks, Modem!Step(t)
    PROVE  ModemInv'
<1>1. prog[t] \in Seq(Accesses) /\ Rest(prog[t]) /\ prog[t] # <<>>
  BY DEF ModemInv, ProgOK, Modem!Step
<1>2. Head(prog[t]) = prog[t][1]
  BY <1>1, RestFacts
<1>3. \/ /\ prog[t][1].do = "write"
         /\ reg' = [reg EXCEPT ![prog[t][1].reg] = prog[t][1].val] /\ copy' = copy
      \/ /\ prog[t][1].do = "read"
         /\ copy' = [copy EXCEPT ![t] = reg[prog[t][1].reg]] /\ reg' = reg
      \/ /\ prog[t][1].do = "back"
         /\ reg' = [reg EXCEPT ![prog[t][1].reg] =
                       [copy[t] EXCEPT ![prog[t][1].field] = prog[t][1].val]]
         /\ copy' = [copy EXCEPT ![t] = <<>>]
  BY <1>2 DEF Modem!Step
<1> QED
  BY <1>3, WriteKeeps, ReadKeeps, BackKeeps

\* The modem after a reset.
LEMMA ModemInit == Modem!Init => ModemInv
<1> SUFFICES ASSUME Modem!Init
             PROVE  ModemInv
  OBVIOUS
<1>1. last = <<"none">> /\ last[1] = "none" /\ alone = TRUE
  BY DEF Modem!Init
<1>2. /\ DOMAIN prog = Tasks /\ DOMAIN copy = Tasks
      /\ \A t \in Tasks : prog[t] = <<>> /\ prog[t] \in Seq(Accesses)
  BY DEF Modem!Init
<1>3. /\ \A t \in Tasks, r \in {"mc1", "mc2"} : ~Holds(t, r)
      /\ \A t \in Tasks : Rest(prog[t]) /\ Items(prog[t]) = {}
  BY <1>2 DEF Holds, Rest, Items
<1>4. RegOK
  BY DEF Modem!Init, RegOK, Registers, Mc1, Mc2
<1>5. ProgOK
  BY <1>1, <1>2, <1>3 DEF ProgOK, Names
<1>6. LinkInv
  BY <1>1 DEF LinkInv
<1>7. AloneInv
  <2>1. Goals(last) = {}
    BY <1>1 DEF Goals
  <2> QED
    BY <1>1, <1>2, <1>3, <2>1 DEF AloneInv
<1> QED
  BY <1>4, <1>5, <1>6, <1>7 DEF ModemInv

\* Any step of any task.
LEMMA ModemNext ==
    ASSUME ModemInv, Modem!Next
    PROVE  ModemInv'
<1>1. PICK t \in Tasks :
         \/ Modem!RegisterLora(t) \/ Modem!Send(t) \/ Modem!Beacon(t) \/ Modem!Upstream(t)
         \/ Modem!Sleep(t) \/ Modem!Step(t)
  BY DEF Modem!Next
<1>2. CASE Modem!RegisterLora(t)
  <2>1. /\ last[1] = "none" /\ Modem!Start(t, <<"boot">>, Modem!Boot)
        /\ <<"boot">> \in Names /\ <<"boot">>[1] = "boot"
    BY <1>2 DEF Modem!RegisterLora, Names
  <2> QED
    BY <2>1, StartKeeps, BootFits
<1>3. CASE Modem!Send(t)
  <2>1. /\ Modem!Booted /\ Modem!Start(t, <<"send">>, Modem!loraSend)
        /\ <<"send">> \in Names /\ <<"send">>[1] \notin {"none", "boot"}
    BY <1>3 DEF Modem!Send, Names
  <2> QED
    BY <2>1, StartKeeps, SendFits
<1>4. CASE Modem!Beacon(t)
  <2>1. PICK b \in BeaconBands :
           Modem!Start(t, <<"beacon", b>>, Modem!lora_receive_beacon(b))
    BY <1>4 DEF Modem!Beacon
  <2>2. /\ Modem!Booted /\ b \in Nat
        /\ <<"beacon", b>> \in Names /\ <<"beacon", b>>[1] \notin {"none", "boot"}
    BY <1>4, DriversAssumption DEF Modem!Beacon, Names
  <2> QED
    BY <2>1, <2>2, StartKeeps, BeaconFits
<1>5. CASE Modem!Upstream(t)
  <2>1. /\ Modem!Booted /\ Modem!Start(t, <<"upstream">>, Modem!lora_receive_upstream)
        /\ <<"upstream">> \in Names /\ <<"upstream">>[1] \notin {"none", "boot"}
    BY <1>5 DEF Modem!Upstream, Names
  <2> QED
    BY <2>1, StartKeeps, UpstreamFits
<1>6. CASE Modem!Sleep(t)
  <2>1. /\ Modem!Booted /\ Modem!Start(t, <<"sleep">>, Modem!lora_sleep)
        /\ <<"sleep">> \in Names /\ <<"sleep">>[1] \notin {"none", "boot"}
    BY <1>6 DEF Modem!Sleep, Names
  <2> QED
    BY <2>1, StartKeeps, SleepFits
<1>7. CASE Modem!Step(t)
  BY <1>7, StepKeeps
<1> QED
  BY <1>1, <1>2, <1>3, <1>4, <1>5, <1>6, <1>7

\* The invariant of the modem.
THEOREM ModemInvHolds == MCSpec => []ModemInv
<1>1. MCInit => ModemInv
  BY ModemInit DEF MCInit
<1>2. ModemInv /\ [MCNext]_<<vars, modemVars, i2cVars, frame, driver>> => ModemInv'
  <2> SUFFICES ASSUME ModemInv, [MCNext]_<<vars, modemVars, i2cVars, frame, driver>>
               PROVE  ModemInv'
    OBVIOUS
  <2>1. CASE UNCHANGED modemVars
    BY <2>1 DEF modemVars, ModemInv, RegOK, ProgOK, LinkInv, AloneInv, Holds, Done
  <2>2. CASE Modem!Next
    BY <2>2, ModemNext
  <2> QED
    BY <2>1, <2>2 DEF MCNext
<1> QED
  BY <1>1, <1>2, PTL DEF MCSpec

\* Registers of the modem, and the variables of the i2c commands and of the
\* display, keep their ranges.
THEOREM TypesCorrect == MCSpec => []DriverTypes
<1>1. ModemInv /\ I2cInv => DriverTypes
  BY DEF ModemInv, RegOK, Mc1, Mc2, I2cInv, DriverTypes, Modem!TypeOK
<1> QED
  BY <1>1, ModemInvHolds, I2cInvHolds, PTL

\* After the boot no interleaving of updates loses the modem's bandwidth, checksum
\* mode, power or sync word.
THEOREM LinkKeptHolds == MCSpec => []LinkKept
<1>1. ModemInv => LinkKept
  <2> SUFFICES ASSUME ModemInv, Modem!Booted
               PROVE  reg.mc1.bw = 9 /\ reg.mc2.crc = 0 /\ reg.pa = 15 /\ reg.sync = 52
    BY DEF LinkKept, Modem!LinkKept
  <2>1. reg.mc2.crc = 0
    BY DEF ModemInv, RegOK, Mc2
  <2>2. last[1] # "none" /\ (last[1] = "boot" => Modem!Idle)
    BY NameFacts DEF ModemInv, ProgOK, Modem!Booted
  <2>3. reg["mc1"].bw = 9 /\ reg["pa"] = 15 /\ reg["sync"] = 52
    <3>1. CASE last[1] = "boot"
      BY <2>2, <3>1, LinkReached
    <3>2. CASE last[1] # "boot"
      BY <2>2, <3>2 DEF ModemInv, LinkInv
    <3> QED
      BY <3>1, <3>2
  <2> QED
    BY <2>1, <2>3
<1> QED
  BY <1>1, ModemInvHolds, PTL

\* A receive mode set without another task in between is complete, whatever tasks
\* that overlapped before had left in the registers.
THEOREM ModeCompleteHolds == MCSpec => []ModeComplete
<1>1. ModemInv => ModeComplete
  <2> SUFFICES ASSUME ModemInv
               PROVE  Modem!ModeComplete
    BY DEF ModeComplete
  <2>1. ASSUME Modem!Idle, alone
        PROVE  \A g \in Goals(last) : Done(g)
    <3>1. \A t \in Tasks : Items(prog[t]) = {}
      BY <2>1 DEF Modem!Idle, Items
    <3> QED
      BY <2>1, <3>1 DEF ModemInv, AloneInv
  <2>2. ASSUME Modem!Idle, alone, last[1] = "beacon", NEW b, b = last[2]
        PROVE  /\ reg.__frequency = b /\ reg.msb = b /\ reg.mid = b /\ reg.lsb = b
               /\ reg.iq = 0 /\ reg.iq2 = 0 /\ reg.__implicit = 1 /\ reg.mc1.hdr = 1
               /\ reg.length = BeaconSize /\ reg.mc2.sf = 12 /\ reg.op = "rx"
    <3>1. Goals(last) = BeaconGoals(b)
      BY <2>2 DEF Goals
    <3>2. /\ Done(W("__frequency", b)) /\ Done(W("msb", b)) /\ Done(W("mid", b))
          /\ Done(W("lsb", b)) /\ Done(W("iq", 0)) /\ Done(W("iq2", 0))
          /\ Done(W("__implicit", 1)) /\ Done(B("mc1", "hdr", 1))
          /\ Done(W("length", BeaconSize)) /\ Done(B("mc2", "sf", 12)) /\ Done(W("op", "rx"))
      BY <2>1, <2>2, <3>1 DEF BeaconGoals, FrequencyGoals
    <3> QED
      BY <3>2 DEF Done, W, B
  <2>3. ASSUME Modem!Idle, alone, last[1] = "upstream"
        PROVE  /\ reg.__frequency = 0 /\ reg.msb = 0 /\ reg.mid = 0 /\ reg.lsb = 0
               /\ reg.iq = 1 /\ reg.iq2 = 1 /\ reg.__implicit = 0 /\ reg.mc1.hdr = 0
               /\ reg.mc2.sf = LoraSf /\ reg.op = "rx"
    <3>1. Goals(last) = UpstreamGoals
      BY <2>3 DEF Goals
    <3>2. /\ Done(W("__frequency", 0)) /\ Done(W("msb", 0)) /\ Done(W("mid", 0))
          /\ Done(W("lsb", 0)) /\ Done(W("iq", 1)) /\ Done(W("iq2", 1))
          /\ Done(W("__implicit", 0)) /\ Done(B("mc1", "hdr", 0))
          /\ Done(B("mc2", "sf", LoraSf)) /\ Done(W("op", "rx"))
      BY <2>1, <2>3, <3>1 DEF UpstreamGoals, FrequencyGoals
    <3> QED
      BY <3>2 DEF Done, W, B
  <2> QED
    BY <2>2, <2>3 DEF Modem!ModeComplete
<1> QED
  BY <1>1, ModemInvHolds, PTL

-----------------------------------------------------------------------------
(* The frames of NAN *)

\* The result of handleDAF's walk at an offset, given the results g at later ones.
WalkStep(g, f, len, next) ==
    IF next >= len - Frames!Checksum THEN [met |-> {}, end |-> "done"]
    ELSE IF next \notin DOMAIN f.at THEN [met |-> {}, end |-> "astray"]
    ELSE IF Frames!Size(f.at[next]) = 0 \/ next + 3 + Frames!Size(f.at[next]) > len
      THEN [met |-> {}, end |-> "overflow"]
    ELSE [g[next + 3 + Frames!Size(f.at[next])] EXCEPT !.met = @ \cup {next}]

Walks(g, f, len) == g = [next \in Nat |-> WalkStep(g, f, len, next)]

\* Once some function satisfies the recursion of the walk, Walk takes the result of
\* one that does at the first attribute.
LEMMA WalkDefined ==
    ASSUME NEW f, NEW len, NEW h, Walks(h, f, len)
    PROVE  \E g : Walks(g, f, len) /\ Frames!Walk(f, len) = g[30]
<1> DEFINE w == CHOOSE g : Walks(g, f, len)
<1>1. Walks(w, f, len)
  OBVIOUS
<1>2. Frames!Walk(f, len) = w[30]
  BY DEF Frames!Walk, Walks, WalkStep, Frames!Header
<1> HIDE DEF w
<1> QED
  BY <1>1, <1>2

\* The two bytes of a size give it back.
LEMMA TwoBytes == \A s \in Nat : 256 * (s \div 256) + (s % 256) = s
OBVIOUS

\* What an attribute and a service descriptor hold.
LEMMA AttributeFacts ==
    ASSUME NEW s \in Nat
    PROVE  /\ \A tag : /\ Frames!Attribute(tag, s).tag = tag
                       /\ Frames!Size(Frames!Attribute(tag, s)) = s
           /\ \A c, t : /\ Frames!Descriptor(s, c, t).tag = 3
                        /\ Frames!Descriptor(s, c, t).control = c
                        /\ Frames!Descriptor(s, c, t).tlen = t
                        /\ Frames!Size(Frames!Descriptor(s, c, t)) = s
<1>1. \A tag : /\ Frames!Attribute(tag, s).tag = tag
               /\ Frames!Attribute(tag, s).lo = s % 256
               /\ Frames!Attribute(tag, s).hi = s \div 256
  BY DEF Frames!Attribute
<1>2. \A c, t : /\ Frames!Descriptor(s, c, t).tag = 3
                /\ Frames!Descriptor(s, c, t).control = c
                /\ Frames!Descriptor(s, c, t).tlen = t
                /\ Frames!Descriptor(s, c, t).lo = s % 256
                /\ Frames!Descriptor(s, c, t).hi = s \div 256
  BY DEF Frames!Descriptor, Frames!Attribute
<1> QED
  BY <1>1, <1>2, TwoBytes DEF Frames!Size

\* A frame with one attribute that fills it is walked over in one step.
LEMMA WalkOne ==
    ASSUME NEW f, NEW size \in Nat \ {0}, NEW len, len = 33 + size,
           DOMAIN f.at = {30}, Frames!Size(f.at[30]) = size
    PROVE  Frames!Walk(f, len + Frames!Checksum) = [met |-> {30}, end |-> "done"]
<1> DEFINE total == len + Frames!Checksum
           h == [o \in Nat |-> IF o >= 33 + size THEN [met |-> {}, end |-> "done"]
                               ELSE IF o # 30 THEN [met |-> {}, end |-> "astray"]
                               ELSE [met |-> {30}, end |-> "done"]]
<1>1. total - Frames!Checksum = 33 + size /\ ~(30 >= 33 + size) /\ 33 + size \in Nat
  BY DEF Frames!Checksum
<1>2. ~(size = 0) /\ ~(30 + 3 + size > total) /\ 30 + 3 + size = 33 + size
  BY DEF Frames!Checksum
<1> HIDE DEF total
<1>3. ASSUME NEW g
      PROVE  /\ \A o \in Nat : o >= 33 + size =>
                   WalkStep(g, f, total, o) = [met |-> {}, end |-> "done"]
             /\ \A o \in Nat : ~(o >= 33 + size) /\ o # 30 =>
                   WalkStep(g, f, total, o) = [met |-> {}, end |-> "astray"]
             /\ WalkStep(g, f, total, 30) = [g[33 + size] EXCEPT !.met = @ \cup {30}]
  <2>1. \A o : o \in DOMAIN f.at <=> o = 30
    OBVIOUS
  <2> QED
    BY <1>1, <1>2, <2>1, Zenon DEF WalkStep
<1>4. Walks(h, f, total)
  <2>1. h[33 + size] = [met |-> {}, end |-> "done"]
    BY <1>1
  <2>2. [h[33 + size] EXCEPT !.met = @ \cup {30}] = [met |-> {30}, end |-> "done"]
    <3> HIDE DEF h
    <3> QED
      BY <2>1
  <2>3. ASSUME NEW o \in Nat
        PROVE  h[o] = WalkStep(h, f, total, o)
    <3>1. CASE o >= 33 + size
      <4>1. h[o] = [met |-> {}, end |-> "done"]
        BY <3>1
      <4> HIDE DEF h
      <4> QED
        BY <1>3, <3>1, <4>1
    <3>2. CASE ~(o >= 33 + size) /\ o # 30
      <4>1. h[o] = [met |-> {}, end |-> "astray"]
        BY <3>2
      <4> HIDE DEF h
      <4> QED
        BY <1>3, <3>2, <4>1
    <3>3. CASE o = 30
      <4>1. h[30] = [met |-> {30}, end |-> "done"]
        BY <1>1
      <4> HIDE DEF h
      <4>2. WalkStep(h, f, total, 30) = [met |-> {30}, end |-> "done"]
        BY <1>3, <2>2
      <4> QED
        BY <3>3, <4>1, <4>2, Zenon
    <3> QED
      BY <3>1, <3>2, <3>3
  <2>4. h = [o \in Nat |-> h[o]]
    OBVIOUS
  <2> HIDE DEF h
  <2> QED
    BY <2>3, <2>4 DEF Walks
<1>5. PICK g : Walks(g, f, total) /\ Frames!Walk(f, total) = g[30]
  <2> HIDE DEF h
  <2> QED
    BY <1>4, WalkDefined
<1>6. \A o \in Nat : g[o] = WalkStep(g, f, total, o)
  BY <1>5 DEF Walks
<1>7. g[33 + size] = [met |-> {}, end |-> "done"]
  <2>1. 33 + size >= 33 + size
    BY <1>1
  <2> QED
    BY <1>1, <1>3, <1>6, <2>1, Zenon
<1>8. g[30] = [met |-> {30}, end |-> "done"]
  <2>1. g[30] = [g[33 + size] EXCEPT !.met = @ \cup {30}]
    BY <1>3, <1>6
  <2> QED
    BY <1>7, <2>1
<1> QED
  BY <1>5, <1>8 DEF total

\* Four attributes at a, b, c and d, each of which ends where the next one begins,
\* and the last one at e.
Chained(f, a, b, c, d, e) ==
    /\ DOMAIN f.at = {a, b, c, d}
    /\ \A p \in {<<a, b>>, <<b, c>>, <<c, d>>, <<d, e>>} :
          Frames!Size(f.at[p[1]]) \in Nat \ {0} /\ p[1] + 3 + Frames!Size(f.at[p[1]]) = p[2]

\* They are met one after the other.
LEMMA WalkFour ==
    ASSUME NEW f, NEW a \in Nat, NEW b \in Nat, NEW c \in Nat, NEW d \in Nat, NEW e \in Nat,
           a = 30, a < b, b < c, c < d, d < e, Chained(f, a, b, c, d, e)
    PROVE  Frames!Walk(f, e + Frames!Checksum) = [met |-> {a, b, c, d}, end |-> "done"]
<1> DEFINE total == e + Frames!Checksum
           Met(S) == [met |-> S, end |-> "done"]
           astray == [met |-> {}, end |-> "astray"]
           h == [o \in Nat |-> IF o >= e THEN Met({})
                               ELSE IF o = d THEN Met({d})
                               ELSE IF o = c THEN Met({c, d})
                               ELSE IF o = b THEN Met({b, c, d})
                               ELSE IF o = a THEN Met({a, b, c, d})
                               ELSE astray]
           Add(w, x) == [w EXCEPT !.met = @ \cup {x}]
           Skips(g, x, y) == WalkStep(g, f, total, x) = Add(g[y], x)
<1>1. /\ total - Frames!Checksum = e /\ total \in Nat
      /\ \A y \in {b, c, d, e} : ~(y > total)
      /\ \A x \in {a, b, c, d} : ~(x >= e)
  BY DEF Frames!Checksum
<1> HIDE DEF total
<1>2. /\ \A g : Skips(g, a, b) /\ Skips(g, b, c) /\ Skips(g, c, d) /\ Skips(g, d, e)
      /\ \A g : \A o \in Nat : o >= e => WalkStep(g, f, total, o) = Met({})
      /\ \A g : \A o \in Nat : ~(o >= e) /\ o \notin {a, b, c, d} =>
                   WalkStep(g, f, total, o) = astray
  <2>1. ASSUME NEW g, NEW x \in {a, b, c, d}, NEW y \in {b, c, d, e},
               Frames!Size(f.at[x]) \in Nat \ {0}, x + 3 + Frames!Size(f.at[x]) = y
        PROVE  Skips(g, x, y)
    <3>1. x \in DOMAIN f.at
      BY DEF Chained
    <3>2. ~(Frames!Size(f.at[x]) = 0)
      BY <2>1
    <3> QED
      BY <1>1, <2>1, <3>1, <3>2, Zenon DEF WalkStep
  <2>2. /\ Frames!Size(f.at[a]) \in Nat \ {0} /\ a + 3 + Frames!Size(f.at[a]) = b
        /\ Frames!Size(f.at[b]) \in Nat \ {0} /\ b + 3 + Frames!Size(f.at[b]) = c
        /\ Frames!Size(f.at[c]) \in Nat \ {0} /\ c + 3 + Frames!Size(f.at[c]) = d
        /\ Frames!Size(f.at[d]) \in Nat \ {0} /\ d + 3 + Frames!Size(f.at[d]) = e
    BY DEF Chained
  <2> HIDE DEF Skips
  <2>3. ASSUME NEW g PROVE Skips(g, a, b) /\ Skips(g, b, c) /\ Skips(g, c, d) /\ Skips(g, d, e)
    <3>1. Skips(g, a, b)
      BY <2>1, <2>2
    <3>2. Skips(g, b, c)
      BY <2>1, <2>2
    <3>3. Skips(g, c, d)
      BY <2>1, <2>2
    <3>4. Skips(g, d, e)
      BY <2>1, <2>2
    <3> QED
      BY <3>1, <3>2, <3>3, <3>4
  <2>4. \A g : \A o \in Nat : o >= e => WalkStep(g, f, total, o) = Met({})
    BY <1>1, Zenon DEF WalkStep
  <2>5. \A g : \A o \in Nat : ~(o >= e) /\ o \notin {a, b, c, d} =>
                  WalkStep(g, f, total, o) = astray
    BY <1>1, Zenon DEF WalkStep, Chained
  <2> QED
    BY <2>3, <2>4, <2>5, Zenon
<1>3. /\ Add(Met({}), d) = Met({d}) /\ Add(Met({d}), c) = Met({c, d})
      /\ Add(Met({c, d}), b) = Met({b, c, d})
      /\ Add(Met({b, c, d}), a) = Met({a, b, c, d})
  <2>1. \A S, x : Add(Met(S), x) = Met(S \cup {x})
    OBVIOUS
  <2>2. /\ {} \cup {d} = {d} /\ {d} \cup {c} = {c, d}
        /\ {c, d} \cup {b} = {b, c, d} /\ {b, c, d} \cup {a} = {a, b, c, d}
    OBVIOUS
  <2> HIDE DEF Add, Met
  <2>3. Add(Met({}), d) = Met({d}) /\ Add(Met({d}), c) = Met({c, d})
    BY <2>1, <2>2
  <2>4. Add(Met({c, d}), b) = Met({b, c, d})
    BY <2>1, <2>2
  <2>5. Add(Met({b, c, d}), a) = Met({a, b, c, d})
    BY <2>1, <2>2
  <2> QED
    BY <2>3, <2>4, <2>5
<1> HIDE DEF Add
<1>4. Walks(h, f, total)
  <2>1. /\ h[e] = Met({}) /\ h[d] = Met({d}) /\ h[c] = Met({c, d})
        /\ h[b] = Met({b, c, d}) /\ h[a] = Met({a, b, c, d})
    <3> HIDE DEF Met, astray
    <3> QED
      OBVIOUS
  <2>2. \A o \in Nat : /\ o >= e => h[o] = Met({})
                       /\ ~(o >= e) /\ o \notin {a, b, c, d} => h[o] = astray
    <3> HIDE DEF Met, astray
    <3> QED
      OBVIOUS
  <2>3. h = [o \in Nat |-> h[o]]
    <3> HIDE DEF Met, astray
    <3> QED
      OBVIOUS
  <2> HIDE DEF h, Met, astray
  <2>4. /\ h[a] = WalkStep(h, f, total, a) /\ h[b] = WalkStep(h, f, total, b)
        /\ h[c] = WalkStep(h, f, total, c) /\ h[d] = WalkStep(h, f, total, d)
    <3>1. h[a] = WalkStep(h, f, total, a)
      BY <1>2, <1>3, <2>1, Zenon
    <3>2. h[b] = WalkStep(h, f, total, b)
      BY <1>2, <1>3, <2>1, Zenon
    <3>3. h[c] = WalkStep(h, f, total, c)
      BY <1>2, <1>3, <2>1, Zenon
    <3>4. h[d] = WalkStep(h, f, total, d)
      BY <1>2, <1>3, <2>1, Zenon
    <3> QED
      BY <3>1, <3>2, <3>3, <3>4
  <2>5. ASSUME NEW o \in Nat PROVE h[o] = WalkStep(h, f, total, o)
    <3>1. CASE o >= e
      BY <1>2, <2>2, <3>1, Zenon
    <3>2. CASE ~(o >= e) /\ o \notin {a, b, c, d}
      BY <1>2, <2>2, <3>2, Zenon
    <3>3. CASE o \in {a, b, c, d}
      BY <2>4, <3>3, Zenon
    <3> QED
      BY <3>1, <3>2, <3>3, Zenon
  <2> QED
    BY <2>3, <2>5 DEF Walks
<1>5. PICK g : Walks(g, f, total) /\ Frames!Walk(f, total) = g[30]
  <2> HIDE DEF h
  <2> QED
    BY <1>4, WalkDefined
<1>6. \A o \in Nat : g[o] = WalkStep(g, f, total, o)
  BY <1>5 DEF Walks
<1> HIDE DEF h, Met, astray
<1>7. g[a] = Met({a, b, c, d})
  <2>1. e >= e
    OBVIOUS
  <2>2. g[e] = Met({})
    BY <1>2, <1>6, <2>1, Zenon
  <2>3. g[d] = Met({d})
    BY <1>2, <1>3, <1>6, <2>2, Zenon
  <2>4. g[c] = Met({c, d})
    BY <1>2, <1>3, <1>6, <2>3, Zenon
  <2>5. g[b] = Met({b, c, d})
    BY <1>2, <1>3, <1>6, <2>4, Zenon
  <2> QED
    BY <1>2, <1>3, <1>6, <2>5, Zenon
<1> QED
  BY <1>5, <1>7, Zenon DEF total, Met

\* FramesParsed, of any frame.
Taken(f) ==
    /\ f.kind = "action" =>
          /\ Frames!Walk(f, f.len + Frames!Checksum) = [met |-> DOMAIN f.at, end |-> "done"]
          /\ f.len <= BufferSize
          /\ \A o \in DOMAIN f.at : f.at[o].tag = 3 =>
                /\ 10 + f.at[o].tlen = Frames!Size(f.at[o])
                /\ Frames!Meaning(f.at[o].control) =
                      IF DOMAIN f.at = {30} THEN "message" ELSE "publish"
    /\ f.kind = "beacon" => f.interval = Frames!Sync /\ 36 + 2 + f.ie = f.len

\* FramesParsed says it of the frame sent last.
LEMMA TakenParsed ==
    ASSUME NEW f
    PROVE  /\ frame = f /\ Taken(f) => FramesParsed
           /\ frame' = f /\ Taken(f) => FramesParsed'
BY Zenon DEF Taken, FramesParsed, Frames!FramesParsed, Frames!IsSync, Frames!Header

\* The data of a follow-up and the size of its attribute.
LEMMA DataFacts ==
    ASSUME NEW data \in 0 .. 255
    PROVE  /\ data % 256 = data /\ 30 + 13 + data = 43 + data
           /\ data + 10 \in Nat \ {0} /\ data + 10 \in Nat
           /\ 43 + data = 33 + (data + 10)
           /\ 10 + data = data + 10 /\ 43 + data <= 298 /\ 43 + data \in Nat
<1>1. data % 256 = data
  OBVIOUS
<1>2. data + 10 \in Nat \ {0} /\ data + 10 \in Nat
  OBVIOUS
<1>3. /\ 30 + 13 + data = 43 + data /\ 43 + data = 33 + (data + 10)
      /\ 10 + data = data + 10 /\ 43 + data <= 298 /\ 43 + data \in Nat
  OBVIOUS
<1> QED
  BY <1>1, <1>2, <1>3, Zenon

\* A follow-up is one descriptor, with as much data as it says, for every length of
\* the message.
LEMMA SendNowParsed ==
    ASSUME NEW len \in Nat, Frames!nanSendNow(len)
    PROVE  FramesParsed'
<1> DEFINE data == IF len > 255 THEN 255 ELSE len
           att == Frames!Descriptor(data + 10, 18, data % 256)
           fr == Frames!Action(30 + 13 + data, [o \in {30} |-> att])
<1>1. frame' = fr
  BY DEF Frames!nanSendNow, Frames!Header
<1>2. data \in 0 .. 255
  OBVIOUS
<1> HIDE DEF data
<1>3. att.tag = 3 /\ att.control = 18 /\ att.tlen = data /\ Frames!Size(att) = data + 10
  BY <1>2, DataFacts, AttributeFacts
<1> HIDE DEF att
<1>4. /\ fr.kind = "action" /\ fr.len = 43 + data /\ fr.at = [o \in {30} |-> att]
  BY <1>2, DataFacts DEF Frames!Action
<1> HIDE DEF fr
<1>5. DOMAIN fr.at = {30} /\ fr.at[30] = att
  BY <1>4
<1>6. Frames!Walk(fr, fr.len + Frames!Checksum) = [met |-> {30}, end |-> "done"]
  BY <1>2, <1>3, <1>4, <1>5, DataFacts, WalkOne
<1>7. fr.len <= BufferSize
  BY <1>2, <1>4, DataFacts, DriversAssumption DEF DriversAssumption
<1>8. Frames!Meaning(18) = "message"
  BY DEF Frames!Meaning
<1>9. 10 + att.tlen = Frames!Size(att)
  BY <1>2, <1>3, DataFacts
<1>10. fr.kind # "beacon"
  BY <1>4
<1>11. Taken(fr)
  BY <1>3, <1>4, <1>5, <1>6, <1>7, <1>8, <1>9, <1>10, Zenon DEF Taken
<1> QED
  BY <1>1, <1>11, TakenParsed

\* The tables of a publish frame follow each other and fill it, and its descriptor
\* is taken for a publication.
LEMMA PublishParsed ==
    ASSUME NEW type, Frames!nanSendPublish(type)
    PROVE  FramesParsed'
<1> DEFINE at == [o \in {30, 42, 72, 79} |->
                     IF o = 30 THEN Frames!nanDeviceCapabilities
                     ELSE IF o = 42 THEN Frames!nanAvailability
                     ELSE IF o = 72 THEN Frames!nanServiceExtension
                     ELSE Frames!nanServiceDescriptor]
           fr == Frames!Action(108, at)
<1>1. frame' = fr
  <2>1. /\ 30 + 3 + 9 = 42 /\ 42 + 3 + 27 = 72 /\ 72 + 3 + 4 = 79 /\ 79 + 3 + 26 = 108
    OBVIOUS
  <2> QED
    BY <2>1 DEF Frames!nanSendPublish, Frames!Header
<1>2. 9 \in Nat /\ 27 \in Nat /\ 4 \in Nat /\ 26 \in Nat
  OBVIOUS
<1>3. /\ Frames!nanDeviceCapabilities.tag # 3 /\ Frames!nanAvailability.tag # 3
      /\ Frames!nanServiceExtension.tag # 3
      /\ Frames!Size(Frames!nanDeviceCapabilities) = 9
      /\ Frames!Size(Frames!nanAvailability) = 27
      /\ Frames!Size(Frames!nanServiceExtension) = 4
  BY <1>2, AttributeFacts DEF Frames!nanDeviceCapabilities, Frames!nanAvailability,
                              Frames!nanServiceExtension
<1>4. /\ Frames!nanServiceDescriptor.control = 16 /\ Frames!nanServiceDescriptor.tlen = 16
      /\ Frames!Size(Frames!nanServiceDescriptor) = 26
  BY <1>2, AttributeFacts DEF Frames!nanServiceDescriptor
<1>5. /\ DOMAIN at = {30, 42, 72, 79}
      /\ at[30] = Frames!nanDeviceCapabilities /\ at[42] = Frames!nanAvailability
      /\ at[72] = Frames!nanServiceExtension /\ at[79] = Frames!nanServiceDescriptor
  OBVIOUS
<1> HIDE DEF at
<1>6. fr.kind = "action" /\ fr.len = 108 /\ fr.at = at
  BY DEF Frames!Action
<1> HIDE DEF fr
<1>7. Frames!Walk(fr, fr.len + Frames!Checksum) = [met |-> DOMAIN fr.at, end |-> "done"]
  <2>1. Chained(fr, 30, 42, 72, 79, 108)
    BY <1>3, <1>4, <1>5, <1>6 DEF Chained
  <2>2. Frames!Walk(fr, 108 + Frames!Checksum) = [met |-> {30, 42, 72, 79}, end |-> "done"]
    BY <2>1, WalkFour
  <2> QED
    BY <1>5, <1>6, <2>2
<1>8. fr.len <= BufferSize
  BY <1>6, DriversAssumption DEF DriversAssumption
<1>9. DOMAIN fr.at # {30}
  BY <1>5, <1>6
<1>10. \A o \in DOMAIN fr.at : fr.at[o].tag = 3 => fr.at[o] = Frames!nanServiceDescriptor
  BY <1>3, <1>5, <1>6
<1>11. Frames!Meaning(16) = "publish" /\ 10 + 16 = 26 /\ fr.kind # "beacon"
  BY <1>6 DEF Frames!Meaning
<1>12. \A o \in DOMAIN fr.at : fr.at[o].tag = 3 =>
          10 + fr.at[o].tlen = Frames!Size(fr.at[o]) /\ Frames!Meaning(fr.at[o].control) = "publish"
  BY <1>4, <1>10, <1>11
<1>13. fr.kind = "action" /\ fr.kind # "beacon"
  BY <1>6, <1>11
<1>14. Taken(fr)
  BY <1>7, <1>8, <1>9, <1>12, <1>13, Zenon DEF Taken
<1> QED
  BY <1>1, <1>14, TakenParsed

\* A sync beacon has the interval handleBeacon looks for.
LEMMA SyncParsed ==
    ASSUME Frames!nanSendSync(512)
    PROVE  FramesParsed'
<1> DEFINE fr == [Frames!Beacon EXCEPT !.interval = <<0, 2>>]
<1>1. frame' = fr
  <2>1. 512 % 256 = 0 /\ (512 \div 256) % 256 = 2
    OBVIOUS
  <2> QED
    BY <2>1 DEF Frames!nanSendSync
<1>2. /\ fr.kind = "beacon" /\ fr.interval = Frames!Sync
      /\ fr.len = 72 /\ fr.ie = 34
  BY DEF Frames!Beacon, Frames!Sync
<1> HIDE DEF fr
<1>3. 36 + 2 + fr.ie = fr.len /\ fr.kind # "action"
  BY <1>2
<1>4. Taken(fr)
  BY <1>2, <1>3, Zenon DEF Taken
<1> QED
  BY <1>1, <1>4, TakenParsed

\* Every frame sent is taken by handleDAF and handleBeacon for what it is, whatever
\* the length of the message and the size of the buffer it fits in.
THEOREM FramesParsedHolds == MCSpec => []FramesParsed
<1> DEFINE v == <<vars, modemVars, i2cVars, frame, driver>>
<1>1. MCInit => FramesParsed
  <2> SUFFICES ASSUME Frames!Init PROVE Frames!FramesParsed
    BY DEF MCInit, FramesParsed
  <2>1. frame.kind # "action" /\ frame.kind # "beacon"
    BY DEF Frames!Init
  <2> QED
    BY <2>1, Zenon DEF Frames!FramesParsed
<1>2. FramesParsed /\ [MCNext]_v => FramesParsed'
  <2> SUFFICES ASSUME FramesParsed, [MCNext]_v
               PROVE  FramesParsed'
    OBVIOUS
  <2>1. CASE UNCHANGED frame
    BY <2>1 DEF FramesParsed, Frames!FramesParsed, Frames!IsSync
  <2>2. CASE Frames!Next
    <3>1. ASSUME NEW type \in {0, 1}, Frames!nanSendPublish(type) PROVE FramesParsed'
      BY <3>1, PublishParsed
    <3>2. ASSUME NEW len \in Lengths, Frames!nanSendNow(len) PROVE FramesParsed'
      <4>1. len \in Nat
        BY DriversAssumption DEF DriversAssumption
      <4> QED
        BY <3>2, <4>1, SendNowParsed
    <3>3. CASE Frames!nanSendSync(512)
      BY <3>3, SyncParsed
    <3> QED
      BY <2>2, <3>1, <3>2, <3>3 DEF Frames!Next
  <2> QED
    BY <2>1, <2>2, Zenon DEF MCNext
<1> QED
  BY <1>1, <1>2, PTL DEF MCSpec
=============================================================================
