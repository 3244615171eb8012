-------------------------------- MODULE Node --------------------------------
(***************************************************************************)
(* The node from boot to restart: app_main (main/main.c) and the console   *)
(* task (main/console.c) over the settings (Nvs), the Wi-Fi station        *)
(* (Station) and sleep (Power).  The console task exists, with a higher    *)
(* priority, before app_main has made the event group, the station and the *)
(* wake-up sources.  A restart, by a command, by the end of deep sleep, by *)
(* a failed ESP_ERROR_CHECK or by a power cut, keeps only the settings.    *)
(*                                                                         *)
(* The commands of the radios, the display and the buses are in LoraRadio, *)
(* LoraModem, BtServers, NanEsp and I2cBus.                                *)
(***************************************************************************)
EXTENDS Nvs, Station, Power

VARIABLES
    main,      \* the main task: the next part of app_main, or "done"
    console,   \* the console task: "none", "prompt", "typing" or "join"
    ble        \* the BLE server was started at boot

nodeVars == <<main, console, ble>>
vars == <<nvsVars, stationVars, powerVars, nodeVars>>

TypeOK ==
    /\ NvsTypeOK /\ StationTypeOK /\ PowerTypeOK
    /\ main \in {"console", "sources", "lsleep", "group", "station", "lora", "done"}
    /\ console \in {"none", "prompt", "typing", "join"}
    /\ ble \in BOOLEAN

NodeInit == main = "console" /\ console = "none" /\ ble = FALSE

Init == NvsInit /\ StationInit /\ PowerInit /\ NodeInit

-----------------------------------------------------------------------------
(* Restarts *)

Restart ==
    /\ NvsRestart /\ StationOff /\ PowerRestart
    /\ main' = "console" /\ console' = "none" /\ ble' = FALSE

\* A power cut or a panic in a driver.
PowerCut == Restart

\* A source of deep sleep fires.
TimerWake == power = "deep" /\ "timer" \in wake /\ Restart

PinWake == power = "deep" /\ "ext1" \in wake /\ Restart

-----------------------------------------------------------------------------
(* app_main *)

Running == power = "run"

\* register_spp_ble starts the server when NVS says "sble" and no Wi-Fi.
StartBle == Read("sble", "i32") = "1" /\ Read("wifi", "i32") \in {"none", "0"}

\* register_console: the commands, the BLE server and the console task.
RegisterConsole ==
    /\ Running /\ main = "console"
    /\ ble' = StartBle
    /\ main' = "sources" /\ console' = "prompt"
    /\ UNCHANGED <<nvsVars, stationVars, powerVars>>

BootSources ==
    /\ Running /\ main = "sources"
    /\ EnableSources
    /\ main' = "lsleep"
    /\ UNCHANGED <<nvsVars, stationVars, console, ble>>

BootSleep ==
    /\ Running /\ main = "lsleep"
    /\ ConfigureSleep(Read("lsleep", "i32") \notin {"none", "0"})
    /\ main' = "group"
    /\ UNCHANGED <<nvsVars, stationVars, console, ble>>

\* Mode 4 is NAN, which uses no event group; every other mode calls init_wifi.
BootMode ==
    /\ Running /\ main = "group"
    /\ IF Read("wifi", "i32") = "4"
         THEN \/ NanStart /\ main' = "lora"
                 /\ UNCHANGED <<nvsVars, powerVars, console, ble>>
              \/ NanStartAborts /\ Restart
         ELSE CreateGroup /\ main' = "station"
              /\ UNCHANGED <<nvsVars, powerVars, console, ble>>

\* init_wifi starts a station in mode 1 with an SSID; modes 2 and 3 start
\* nothing.  An SSID stored as "" has length 1 and is tried.
BootStation ==
    /\ Running /\ main = "station"
    /\ LET ssid == Read("ssid", "str")
       IN  IF Read("wifi", "i32") = "1" /\ ssid # "none"
             THEN \/ ssid # "empty" /\ WifiSta
                     /\ main' = "lora"
                     /\ UNCHANGED <<nvsVars, powerVars, console, ble>>
                  \/ WifiStaAborts(ssid) /\ Restart
             ELSE /\ main' = "lora"
                  /\ UNCHANGED <<nvsVars, stationVars, powerVars, console, ble>>

\* register_lora returns, with or without a radio.
BootLora ==
    /\ Running /\ main = "lora"
    /\ main' = "done"
    /\ UNCHANGED <<nvsVars, stationVars, powerVars, console, ble>>

Boot == RegisterConsole \/ BootSources \/ BootSleep \/ BootMode \/ BootStation \/ BootLora

-----------------------------------------------------------------------------
(* The console task *)

\* The first character of a line, or the hook called again.
Key ==
    /\ Running /\ console \in {"prompt", "typing"}
    /\ GetLock
    /\ console' = "typing"
    /\ UNCHANGED <<nvsVars, stationVars, sleepVars, main, ble>>

\* linenoise returns NULL: the loop goes on and the lock is kept.
NoLine ==
    /\ Running /\ console = "typing"
    /\ console' = "prompt" /\ ErrnoKept
    /\ UNCHANGED <<nvs, flash, told, current_namespace, stationVars, powerVars, main,
                   ble>>

\* A line is run: a command, then the release of the lock.
Line(Command) ==
    /\ Running /\ console = "typing"
    /\ Command
    /\ ReleaseLock
    /\ console' = "prompt"
    /\ UNCHANGED <<main, ble>>

NvsCommand ==
    Line(/\ SetValue \/ SetNamespace \/ GetValue \/ ListEntries
         /\ UNCHANGED <<stationVars, sleepVars>>)

\* free, heap, tasks and version only print.
InfoCommand ==
    Line(ErrnoKept /\ UNCHANGED <<nvs, flash, told, current_namespace, stationVars,
                                  sleepVars>>)

\* The command returns only after light sleep, so the lock is released then.
LightSleepCommand ==
    /\ Running /\ console = "typing"
    /\ LightSleep /\ ErrnoKept
    /\ UNCHANGED <<nvs, flash, told, current_namespace, stationVars, lockVars, nodeVars>>

LightWake ==
    /\ power = "light"
    /\ wake # {}
    /\ power' = "run" /\ console' = "prompt"
    /\ ReleaseLock
    /\ UNCHANGED <<wake, auto, order, cut, nvsVars, stationVars, main, ble>>

SleepCommand ==
    Line(/\ AutoSleepOn \/ LightSleepRefused
         /\ ErrnoKept
         /\ UNCHANGED <<nvs, flash, told, current_namespace, stationVars>>)

\* The command returns only if it was refused; the radio is off in deep sleep.
DeepSleepCommand ==
    Line(/\ DeepSleep
         /\ IF power' = "deep" THEN StationOff ELSE UNCHANGED stationVars
         /\ ErrnoKept /\ UNCHANGED <<nvs, flash, told, current_namespace>>)

\* A call of the driver that ESP_ERROR_CHECK does not accept.
Abort(failed) == Running /\ console = "typing" /\ failed /\ Restart

\* wifi --stop
StopCommand ==
    \/ Line(/\ StopWifi \/ StopNothing
            /\ ErrnoKept
            /\ UNCHANGED <<nvs, flash, told, current_namespace, sleepVars>>)
    \/ Abort(StopAborts)

\* nan --start and nan --stop, in any mode of the node.
NanCommand ==
    \/ Line(/\ NanStart \/ NanStop
            /\ ErrnoKept
            /\ UNCHANGED <<nvs, flash, told, current_namespace, sleepVars>>)
    \/ Abort(NanStartAborts)
    \/ Abort(NanStopAborts)

RestartCommand ==
    /\ Running /\ console = "typing"
    /\ Restart

\* wifi --ssid: without an event group (before init_wifi, or in NAN mode) the
\* wait for the bit aborts, as does a refused call of the driver.
JoinCommand ==
    /\ Running /\ console = "typing"
    /\ \E ssid \in {"empty", "net"} :
          \/ /\ ssid # "empty" /\ wifi_event_group
             /\ WifiSta
             /\ console' = "join" /\ ErrnoKept
             /\ UNCHANGED <<nvs, flash, told, current_namespace, powerVars, main,
                            ble>>
          \/ /\ wifi_event_group => WifiStaAborts(ssid)
             /\ Restart

\* wifi_join returns with the bit, or after ten seconds.
JoinReturns ==
    /\ Running /\ console = "join"
    /\ console' = "prompt"
    /\ ReleaseLock
    /\ UNCHANGED <<nvsVars, stationVars, sleepVars, main, ble>>

Console ==
    \/ Key \/ NoLine \/ NvsCommand \/ InfoCommand
    \/ LightSleepCommand \/ LightWake \/ SleepCommand \/ DeepSleepCommand
    \/ StopCommand \/ NanCommand \/ RestartCommand \/ JoinCommand \/ JoinReturns

-----------------------------------------------------------------------------
(* The event task, the driver and the chip *)

HandleEvent ==
    /\ Running
    /\ EventHandler
    /\ UNCHANGED <<nvsVars, powerVars, nodeVars>>

RadioEvent ==
    /\ power # "deep"
    /\ GotIp \/ LinkLost
    /\ UNCHANGED <<nvsVars, powerVars, nodeVars>>

\* Only when the main task and the event task have nothing to do.
ChipSleeps ==
    /\ AutoSleep
    /\ main = "done" /\ events = <<>>
    /\ UNCHANGED <<nvsVars, stationVars, nodeVars>>

ChipWakes ==
    /\ AutoWake
    /\ UNCHANGED <<nvsVars, stationVars, nodeVars>>

Next ==
    \/ Boot \/ Console \/ HandleEvent \/ RadioEvent
    \/ ChipSleeps \/ ChipWakes \/ TimerWake \/ PinWake \/ PowerCut

\* The event task runs when an event is queued, the chip wakes from automatic
\* sleep for it, and the timer of deep sleep fires.
Spec == Init /\ [][Next]_vars
             /\ WF_vars(HandleEvent) /\ WF_vars(ChipWakes) /\ WF_vars(TimerWake)

-----------------------------------------------------------------------------
(* Properties *)

\* A value reported as stored is what the node reads, now and after any
\* restart, until it is set again or the flash is erased: also when other
\* settings fail, half fail or fail because of a stale errno.
Stored ==
    \A k \in Keys : told[k] # Unset => nvs[k] = told[k] /\ flash[k] = told[k]

\* While a line is typed or a command runs the node does not fall asleep by
\* itself, and the lock that keeps it awake is given back as often as it is taken.
AwakeForConsole ==
    /\ LockMatches
    /\ console \in {"typing", "join"} => power # "auto"

\* A disconnection is not overlooked, however losses, joins and sleep interleave
\* with the handler: the station is connecting again or the handler has tried and
\* was refused, which it does not try again, unless the console stops the driver
\* or puts the node to sleep.
Reconnects ==
    link = "idle" ~> (link # "idle" \/ refused \/ driver # "station" \/ power = "light")

\* A node sent to sleep with deep_sleep --start comes back by its timer.
MeshSleepEnds == order = "mesh" ~> power = "run"

=============================================================================
