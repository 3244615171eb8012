---------------------------- MODULE MCBluetooth ----------------------------
(***************************************************************************)
(* The two Bluetooth components, either of which would own the controller: *)
(* the servers over Bluedroid, which the firmware is built with, and the   *)
(* raw HCI, which the repository keeps without building it.  Which of them *)
(* is registered is chosen initially, and the variables of the other one   *)
(* never change: one run checks both.                                      *)
(***************************************************************************)
EXTENDS BtServers

CONSTANT MaxTasks

VARIABLES build, hctrl, hadv, hciInit, hciRun, hconsole, tasks, hci_cmd_buf, kept

hciVars == <<hctrl, hadv, hciInit, hciRun, hconsole, tasks, hci_cmd_buf, kept>>

Hci == INSTANCE HciAdv WITH ctrl <- hctrl, adv <- hadv, console <- hconsole

MCInit == Init /\ Hci!Init /\ build \in {"bluedroid", "hci"}

MCNext ==
    /\ UNCHANGED build
    /\ \/ build = "bluedroid" /\ Next /\ UNCHANGED hciVars
       \/ build = "hci" /\ Hci!Next /\ UNCHANGED vars

\* Nothing of a component that is not registered is ever enabled.
MCSpec ==
    MCInit /\ [][MCNext]_<<vars, hciVars, build>> /\ WF_vars(Handle) /\ Hci!Fairness

-----------------------------------------------------------------------------
\* hci --start and --stop leave a running server with an enabled controller and
\* the task of its start, unless that could not be created, and a stopped one
\* silent, unless the controller could not be disabled.
RunHasTask == Hci!RunHasTask

\* A server over the raw HCI that keeps running, with its task created, ends up
\* advertising for good, whatever tasks of earlier starts do to their buffer.
AdvertisingStays == Hci!AdvertisingStays
=============================================================================
