----------------------------- MODULE MCDrivers -----------------------------
(***************************************************************************)
(* Four drivers of the ESP32 that share nothing: NAN and the frames it     *)
(* sends, the registers of the LoRa modem, and the I2C ports.  A behaviour *)
(* is about one of them, chosen initially; the others never change.        *)
(***************************************************************************)
EXTENDS MCNanEsp

CONSTANTS Tasks, BeaconBands, BeaconSize, LoraSf, LoraCr, Scan, Lengths, BufferSize

\* A command makes a transaction; the length register and the fields of the modem
\* have room for what the driver is configured with, and the buffer of NAN for the
\* longest message nanSendNow does not cut.
ASSUME DriversAssumption ==
    /\ Scan \in Nat \ {0}
    /\ BeaconBands \subseteq Nat /\ BeaconSize \in 0 .. 255
    /\ LoraSf \in 6 .. 12 /\ LoraCr \in Nat
    /\ Lengths \subseteq Nat /\ BufferSize \in Nat /\ BufferSize >= 298

\* Lengths around the cut of nanSendNow and the limits of one byte.
EdgeLengths == (0 .. 5) \cup (240 .. 262) \cup {300, 511, 512}

VARIABLES driver, reg, prog, copy, last, alone, drv, pins, rst, awake, tools, todo,
          i2c_port, tool_pins, ui, text, page, drawn, touched, taken, frame

modemVars == <<reg, prog, copy, last, alone>>
i2cVars == <<drv, pins, rst, awake, tools, todo, i2c_port, tool_pins, ui, text, page,
             drawn, touched, taken>>

Modem == INSTANCE LoraModem
I2c == INSTANCE I2cBus WITH console <- tools, line <- text
Frames == INSTANCE NanFrames

MCInit ==
    /\ driver \in {"nan", "frames", "lora", "i2c"}
    /\ Init /\ Modem!Init /\ I2c!Init /\ Frames!Init

MCNext ==
    /\ UNCHANGED driver
    /\ \/ driver = "nan" /\ Next /\ UNCHANGED <<modemVars, i2cVars, frame>>
       \/ driver = "frames" /\ Frames!Next /\ UNCHANGED <<vars, modemVars, i2cVars>>
       \/ driver = "lora" /\ Modem!Next /\ UNCHANGED <<vars, i2cVars, frame>>
       \/ driver = "i2c" /\ I2c!Next /\ UNCHANGED <<vars, modemVars, frame>>

MCSpec == MCInit /\ [][MCNext]_<<vars, modemVars, i2cVars, frame, driver>>

-----------------------------------------------------------------------------
\* The fields of the modem's registers stay in their ranges; an i2c command makes
\* as many transactions as it announced, and the display selects pages it has.
DriverTypes == Modem!TypeOK /\ I2c!TypeOK

\* After the boot no interleaving of updates loses the modem's bandwidth, checksum
\* mode, power or sync word.
LinkKept == Modem!LinkKept

\* A receive mode set without another task in between is complete.
ModeComplete == Modem!ModeComplete

\* Between commands the only driver there can be is the display's: i2c commands
\* leave none behind on any port, and after one on port 0 the display has none.
DriverFreed == I2c!DriverFreed

\* As long as no i2c command used the display's port, no i2c or gpio command its
\* pins, and none reset it, a round of task_ui draws each of the eight pages,
\* whatever was done on the other port.
PagesDrawn == I2c!PagesDrawn

\* handleDAF and handleBeacon take every frame that nanSendPublish, nanSendNow and
\* nanSendSync send for what it is, attribute by attribute.
FramesParsed == Frames!FramesParsed
=============================================================================
