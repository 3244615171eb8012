------------------------------- MODULE I2cBus -------------------------------
(***************************************************************************)
(* The I2C ports of the ESP32 and their two users: the display task        *)
(* (main/ui.c, ssd1306.c) on port 0, and the console commands i2cconfig,   *)
(* i2cdetect, i2cget, i2cset and i2cdump (i2ctools.c) on the port chosen   *)
(* with i2cconfig, port 0 at first.  Nothing tells a command that the      *)
(* display uses its port: it installs the driver (which fails, unnoticed,  *)
(* when there is one), sets its own pins, and deletes the driver at the    *)
(* end.  A command on port 1 may be configured with the display's pins,    *)
(* and takes them from port 0; so does the gpio command (cmd_gpio.c), that *)
(* may also drive the display's reset pin.                                 *)
(*                                                                         *)
(* External: a transaction of the task shows on the display if the port    *)
(* has a driver and its pins, and the display was not reset since it was   *)
(* set up.                                                                 *)
(* Text, fonts, the set-up of the display's registers and the values read  *)
(* by the commands are left out.                                           *)
(***************************************************************************)
EXTENDS Naturals, Integers

CONSTANT
    Scan    \* transactions of i2cdetect and i2cdump (128, and 128 over the size)

VARIABLES
    drv,      \* port -> a driver is installed
    pins,     \* port -> whose pins are configured: "none", "oled" or "tool"
    rst,      \* the reset pin of the display: "high", "low", or "none"
    awake,    \* the display is as ssd1306_init left it
    console,  \* the console task: "boot", "ready", "param", "use" or "delete"
    todo,     \* transactions left in the command that runs
    i2c_port, tool_pins,   \* what i2cconfig sets: port, pins (the display's, or others)
    ui,       \* the display task: "none", "wait", "draw" or "sleep"
    line,     \* u.line
    page,     \* page register of the display
    drawn,    \* pages written in this round
    touched,  \* history: a command used the display's port
    taken     \* history: a command used the display's pins, or reset it

busVars == <<drv, pins>>
toolVars == <<console, todo, i2c_port, tool_pins, touched, taken>>
oledVars == <<rst, awake>>
uiVars == <<ui, line, page, drawn>>
vars == <<drv, pins, rst, awake, console, todo, i2c_port, tool_pins, ui, line, page,
          drawn, touched, taken>>

Ports == {0, 1}
Pages == 0 .. 7

Init ==
    /\ drv = [p \in Ports |-> FALSE] /\ pins = [p \in Ports |-> "none"]
    /\ rst = "none" /\ awake = FALSE /\ console = "boot" /\ todo = 0
    /\ i2c_port = 0 /\ tool_pins = "tool"
    /\ ui = "none" /\ line = 0 /\ page = 0 /\ drawn = {}
    /\ touched = FALSE /\ taken = FALSE

-----------------------------------------------------------------------------
(* register_ui, in the main task before the console starts *)

\* i2c_master_init returns an error when NVS lacks a pin.
I2cMasterInit(hasPins) ==
    /\ drv' = [drv EXCEPT ![0] = hasPins]
    /\ pins' = [pins EXCEPT ![0] = IF hasPins THEN "oled" ELSE "none"]

\* What ssd1306_init may return: the display answers the set-up, or there is none.
Ssd1306Init(hasPins) == IF hasPins THEN {TRUE, FALSE} ELSE {FALSE}

\* The task is created when the display answered; without an answer the driver
\* stays installed.
RegisterUi ==
    /\ console = "boot"
    /\ rst' \in {"none", "high"}
    /\ \E hasPins \in BOOLEAN :
          /\ I2cMasterInit(hasPins)
          /\ \E answered \in Ssd1306Init(hasPins) :
                /\ ui' = IF answered THEN "wait" ELSE "none"
                /\ awake' = answered
    /\ console' = "ready"
    /\ UNCHANGED <<todo, i2c_port, tool_pins, line, page, drawn, touched, taken>>

-----------------------------------------------------------------------------
(* The display task *)

\* Transactions of the display go to port 0.
Reached == drv[0] /\ pins[0] = "oled" /\ awake

\* Mutant of UiSetline: the last line is taken for the first.
UiSetlineMutant(l) ==
    LET to == IF l > 6 THEN 0 ELSE l
    IN  page' = IF Reached /\ to \in Pages THEN to ELSE page

\* ui_setline: a line over 8 is line 0; 0xB0 | 8 selects no page.  (ui_println
\* passes the address of its own pointer: only its increment reaches u.line.)
UiSetline(l) ==
    LET to == IF l > 8 THEN 0 ELSE l
    IN  page' = IF Reached /\ to \in Pages THEN to ELSE page

\* Five seconds passed (ui_update sets no bit): the reset pin is driven high.
Wake ==
    /\ ui = "wait"
    /\ rst' = IF rst = "none" THEN "none" ELSE "high"
    /\ ui' = "draw" /\ drawn' = {} /\ line' = 0
    /\ UiSetline(0)
    /\ UNCHANGED <<busVars, awake, toolVars>>

\* writeChar, for each character of a line, in the page that is selected.
WriteChars == drawn' = IF Reached THEN drawn \cup {page} ELSE drawn

\* ui_println, eight times: sixteen characters, then the next line.  The lock
\* against light sleep is held for three seconds after the last.
Println ==
    /\ ui = "draw"
    /\ WriteChars
    /\ line' = line + 1
    /\ UiSetline(line + 1)
    /\ ui' = IF line + 1 = 8 THEN "sleep" ELSE "draw"
    /\ UNCHANGED <<busVars, oledVars, toolVars>>

Release ==
    /\ ui = "sleep"
    /\ ui' = "wait"
    /\ UNCHANGED <<busVars, oledVars, toolVars, line, page, drawn>>

-----------------------------------------------------------------------------
(* The console task *)

\* i2cconfig: a port that does not exist is refused before anything is set, and
\* a negative one is port 0.
I2cConfig ==
    /\ console = "ready"
    /\ \E port \in {-1, 0, 1, 2} :
          /\ port < 2
          /\ i2c_port' = IF port \in Ports THEN port ELSE 0
          /\ tool_pins' \in {"oled", "tool"}
    /\ UNCHANGED <<busVars, oledVars, uiVars, console, todo, touched, taken>>

\* Mutant of Install: the command goes to port 0 whatever i2cconfig chose.
InstallMutant(n) ==
    /\ console = "ready"
    /\ drv' = [drv EXCEPT ![0] = TRUE]
    /\ touched' = (touched \/ i2c_port = 0)
    /\ console' = "param" /\ todo' = n
    /\ UNCHANGED <<pins, oledVars, uiVars, i2c_port, tool_pins, taken>>

\* i2c_driver_install of a command with n transactions: an error is ignored.
Install(n) ==
    /\ console = "ready"
    /\ drv' = [drv EXCEPT ![i2c_port] = TRUE]
    /\ touched' = (touched \/ i2c_port = 0)
    /\ console' = "param" /\ todo' = n
    /\ UNCHANGED <<pins, oledVars, uiVars, i2c_port, tool_pins, taken>>

\* The pins x are given to port p: a pin carries the signals of one port.
Route(p, x) == [q \in Ports |-> IF q = p THEN x
                               ELSE IF pins[q] = x THEN "none" ELSE pins[q]]

\* i2c_master_driver_initialize
ParamConfig ==
    /\ console = "param"
    /\ pins' = Route(i2c_port, tool_pins)
    /\ taken' = (taken \/ tool_pins = "oled")
    /\ console' = "use"
    /\ UNCHANGED <<drv, oledVars, uiVars, todo, i2c_port, tool_pins, touched>>

\* i2c_master_cmd_begin: the command goes on whatever it returns.
Transact ==
    /\ console = "use"
    /\ todo' = todo - 1
    /\ console' = IF todo = 1 THEN "delete" ELSE "use"
    /\ UNCHANGED <<busVars, oledVars, uiVars, i2c_port, tool_pins, touched, taken>>

\* i2c_driver_delete, also of the display's driver.
DriverDelete ==
    /\ console = "delete"
    /\ drv' = [drv EXCEPT ![i2c_port] = FALSE]
    /\ console' = "ready"
    /\ UNCHANGED <<pins, oledVars, uiVars, todo, i2c_port, tool_pins, touched, taken>>

I2cDetect == Install(Scan)
I2cGet == Install(1)
I2cSet == Install(1)
I2cDump == Install(Scan)

\* gpio --pin <reset pin> --mode ... [--level ...], also in the middle of a round:
\* an output keeps or gets a level, an input has the one of the board.  A low level
\* undoes the set-up of the display.
GpioReset ==
    /\ console = "ready" /\ rst # "none"
    /\ rst' \in {"low", "high"}
    /\ awake' = (awake /\ rst' = "high")
    /\ taken' = (taken \/ rst' = "low")
    /\ UNCHANGED <<busVars, console, todo, i2c_port, tool_pins, touched, uiVars>>

\* gpio --pin <pin of the display's bus> --mode ...: the pin is no longer the port's.
GpioBus ==
    /\ console = "ready"
    /\ pins' = [p \in Ports |-> IF pins[p] = "oled" THEN "none" ELSE pins[p]]
    /\ taken' = TRUE
    /\ UNCHANGED <<drv, oledVars, console, todo, i2c_port, tool_pins, touched, uiVars>>

GpioCmd == GpioReset \/ GpioBus

-----------------------------------------------------------------------------
Next ==
    \/ RegisterUi \/ Wake \/ Println \/ Release \/ I2cConfig \/ ParamConfig
    \/ Transact \/ DriverDelete \/ I2cDetect \/ I2cGet \/ I2cSet \/ I2cDump \/ GpioCmd

Spec == Init /\ [][Next]_vars

-----------------------------------------------------------------------------
(* Properties *)

TypeOK ==
    /\ drv \in [Ports -> BOOLEAN] /\ pins \in [Ports -> {"none", "oled", "tool"}]
    /\ rst \in {"none", "high", "low"} /\ awake \in BOOLEAN
    /\ console \in {"boot", "ready", "param", "use", "delete"} /\ todo \in 0 .. Scan
    /\ i2c_port \in Ports /\ tool_pins \in {"oled", "tool"}
    /\ ui \in {"none", "wait", "draw", "sleep"}
    /\ line \in 0 .. 8 /\ page \in Pages /\ drawn \subseteq Pages
    /\ touched \in BOOLEAN /\ taken \in BOOLEAN

\* Between commands the only driver there can be is the display's: commands leave
\* none behind on any port, and after a command on port 0 the display has none.
DriverFreed ==
    console = "ready" => /\ ~drv[1]
                         /\ drv[0] => ~touched

\* As long as no command used port 0, or on port 1 or with gpio the display's pins,
\* and gpio did not reset it, the display's bus works and a round of the task draws
\* each of the eight pages, whatever commands ran meanwhile on other pins.
PagesDrawn ==
    ~touched /\ ~taken /\ ui # "none" =>
        /\ Reached
        /\ ui = "sleep" => drawn = Pages
        /\ ui = "draw" => page = line
=============================================================================
