------------------------------- MODULE HciAdv -------------------------------
(***************************************************************************)
(* BLE advertising over the raw HCI of the ESP32's controller              *)
(* (esp32/components/l2-ble-bt/ble_hci.c).  The file is kept in the        *)
(* repository but is in no build: it is not among the SRCS of its          *)
(* component and console.c:734 has the call of register_hci_ble commented  *)
(* out.  The module says what it would do if it were put back.             *)
(*                                                                         *)
(* hci --start creates a task that sends four commands, one per round of   *)
(* three seconds, and then idles until hciRun is cleared.  A task notices  *)
(* the end only after its delay, so that a stop and a start in between     *)
(* leave the old task running beside the new one: both fill and send the   *)
(* one buffer hci_cmd_buf.  Two results are ignored: the creation of the   *)
(* task, which leaves hciRun set without one, and the disabling of the     *)
(* controller, which leaves it on, advertising, with hciRun cleared.       *)
(*                                                                         *)
(* External: a controller that is not enabled accepts no packet and does   *)
(* not advertise; of a packet whose length is not the one of the command   *)
(* in the buffer the controller may execute the command or ignore it.      *)
(***************************************************************************)
EXTENDS Naturals, Sequences

CONSTANTS MaxTasks   \* bound: number of starts that reach the creation of a task

VARIABLES
    ctrl, adv,        \* the controller: its state, whether it advertises
    hciInit, hciRun,
    console,          \* the console task: "ready", "stop", "run" or "create"
    tasks,            \* the task of each start: position and number of commands sent
    hci_cmd_buf,      \* the command in the buffer
    kept              \* history: the last stop could not disable the controller

vars == <<ctrl, adv, hciInit, hciRun, console, tasks, hci_cmd_buf, kept>>

\* The commands in their order, named by the value of cmd_cnt that sends them.
Reset == 0
AdvParam == 1
AdvData == 2
AdvEnable == 3
Commands == Reset .. AdvEnable

\* Boot: register_hci_ble starts nothing, or calls start_hci, like the command.
Init ==
    /\ ctrl = "idle" /\ adv = FALSE
    /\ hciInit = FALSE /\ hciRun = FALSE /\ console = "ready"
    /\ tasks = <<>> /\ hci_cmd_buf = Reset /\ kept = FALSE

-----------------------------------------------------------------------------
(* Console *)

\* Mutant of StartHci: hciRun is set before the calls that may fail.
StartHciMutant ==
    /\ console = "ready" /\ Len(tasks) < MaxTasks
    /\ hciRun' = TRUE
    /\ hciInit' \in {hciInit, TRUE}
    /\ ctrl' = IF ctrl = "idle" /\ hciInit' THEN "inited" ELSE ctrl
    /\ UNCHANGED <<adv, console, tasks, hci_cmd_buf, kept>>

\* start_hci: the controller is initialised once; enabling it fails when it is
\* enabled, and any call may fail.
StartHci ==
    /\ console = "ready" /\ Len(tasks) < MaxTasks
    /\ hciInit' \in {hciInit, TRUE}
    /\ \/ /\ hciInit' /\ ctrl # "enabled"
          /\ ctrl' = "enabled" /\ console' = "run"
       \/ /\ ctrl' = IF ctrl = "idle" /\ hciInit' THEN "inited" ELSE ctrl
          /\ UNCHANGED console
    /\ UNCHANGED <<adv, hciRun, tasks, hci_cmd_buf, kept>>

SetRun ==
    /\ console = "run"
    /\ hciRun' = TRUE /\ console' = "create"
    /\ UNCHANGED <<ctrl, adv, hciInit, tasks, hci_cmd_buf, kept>>

\* xTaskCreatePinnedToCore, whose result is ignored: without memory there is no
\* task, and hciRun stays set.
CreateTask ==
    /\ console = "create"
    /\ \E at \in {"test", "failed"} : tasks' = Append(tasks, [at |-> at, cmd_cnt |-> 0])
    /\ console' = "ready"
    /\ UNCHANGED <<ctrl, adv, hciInit, hciRun, hci_cmd_buf, kept>>

\* hci --stop: the controller first, then hciRun.  The result of
\* esp_bt_controller_disable is ignored: a controller may stay as it is.
StopHci ==
    /\ console = "ready"
    /\ \/ /\ ctrl' = IF ctrl = "enabled" THEN "inited" ELSE ctrl
          /\ adv' = FALSE /\ kept' = FALSE
       \/ /\ ctrl = "enabled" /\ UNCHANGED <<ctrl, adv>>
          /\ kept' = TRUE
    /\ console' = "stop"
    /\ UNCHANGED <<hciInit, hciRun, tasks, hci_cmd_buf>>

ClearRun ==
    /\ console = "stop"
    /\ hciRun' = FALSE /\ console' = "ready"
    /\ UNCHANGED <<ctrl, adv, hciInit, tasks, hci_cmd_buf, kept>>

-----------------------------------------------------------------------------
(* bleAdvtTask *)

Move(t, at) == tasks' = [tasks EXCEPT ![t].at = at]

\* while (hciRun): the delay follows, or the task is deleted.
Test(t) ==
    /\ tasks[t].at = "test"
    /\ Move(t, IF hciRun THEN "delay" ELSE "deleted")
    /\ UNCHANGED <<ctrl, adv, hciInit, hciRun, console, hci_cmd_buf, kept>>

\* After the delay: make_cmd_... fills the buffer, if the controller can take a
\* packet and there is a command left.
Fill(t) ==
    /\ tasks[t].at = "delay"
    /\ IF ctrl = "enabled" /\ tasks[t].cmd_cnt \in Commands
          THEN Move(t, "send") /\ hci_cmd_buf' = tasks[t].cmd_cnt
          ELSE Move(t, "test") /\ UNCHANGED hci_cmd_buf
    /\ UNCHANGED <<ctrl, adv, hciInit, hciRun, console, kept>>

\* Mutant of Busy: the command is counted although it was not sent.
BusyMutant(t) ==
    /\ tasks[t].at = "delay" /\ tasks[t].cmd_cnt \in Commands
    /\ tasks' = [tasks EXCEPT ![t] = [at |-> "test", cmd_cnt |-> @.cmd_cnt + 1]]
    /\ UNCHANGED <<ctrl, adv, hciInit, hciRun, console, hci_cmd_buf, kept>>

\* The controller is still busy with a packet; the next round tries again.
Busy(t) ==
    /\ tasks[t].at = "delay" /\ tasks[t].cmd_cnt \in Commands
    /\ Move(t, "test")
    /\ UNCHANGED <<ctrl, adv, hciInit, hciRun, console, hci_cmd_buf, kept>>

\* What a command does to advertising.
Executed(cmd) ==
    adv' = CASE cmd = Reset -> FALSE [] cmd = AdvEnable -> TRUE [] OTHER -> adv

\* esp_vhci_host_send_packet with the length of the task's own command.
Send(t) ==
    /\ tasks[t].at = "send"
    /\ tasks' = [tasks EXCEPT ![t] = [at |-> "test", cmd_cnt |-> @.cmd_cnt + 1]]
    /\ \/ ctrl = "enabled" /\ Executed(hci_cmd_buf)
       \/ (ctrl # "enabled" \/ hci_cmd_buf # tasks[t].cmd_cnt) /\ UNCHANGED adv
    /\ UNCHANGED <<ctrl, hciInit, hciRun, console, hci_cmd_buf, kept>>

-----------------------------------------------------------------------------
Console == StartHci \/ SetRun \/ CreateTask \/ StopHci \/ ClearRun
Task(t) == Test(t) \/ Fill(t) \/ Busy(t) \/ Send(t)
Next == Console \/ \E t \in DOMAIN tasks : Task(t)

Spec == Init /\ [][Next]_vars

\* A command of the console ends; tasks are scheduled, and a controller that is
\* enabled takes a packet again and again.
Fairness ==
    /\ WF_vars(SetRun \/ CreateTask \/ ClearRun)
    /\ \A t \in 1 .. MaxTasks :
          /\ WF_vars(t \in DOMAIN tasks /\ Task(t))
          /\ SF_vars(t \in DOMAIN tasks /\ Fill(t))

FairSpec == Spec /\ Fairness

-----------------------------------------------------------------------------
(* Properties *)

\* Where the task of the latest start is.
Latest == IF tasks = <<>> THEN "none" ELSE tasks[Len(tasks)].at

TypeOK ==
    /\ ctrl \in {"idle", "inited", "enabled"} /\ adv \in BOOLEAN
    /\ hciInit \in BOOLEAN /\ hciRun \in BOOLEAN /\ kept \in BOOLEAN
    /\ console \in {"ready", "stop", "run", "create"}
    /\ tasks \in Seq([at : {"test", "delay", "send", "deleted", "failed"},
                      cmd_cnt : 0 .. 4])
    /\ hci_cmd_buf \in Commands

\* Between commands, a server that runs has an enabled controller and the task of
\* its own start, or none because that one could not be created; and one that does
\* not run does not advertise, although tasks of earlier starts may still send,
\* unless the last stop could not disable the controller.
RunHasTask ==
    console = "ready" =>
        /\ hciRun => ctrl = "enabled" /\ Latest \notin {"none", "deleted"}
        /\ ~hciRun => kept \/ (~adv /\ ctrl # "enabled")

\* A server that keeps running, with a task that could be created, ends up
\* advertising and stays so, whatever tasks that outlived a stop do to the shared
\* buffer and to the controller: a task that resets it enables advertising later,
\* and the last packet sent is whole.
AdvertisingStays ==
    (<>[] (hciRun /\ Latest # "failed")) => <>[] (adv /\ ctrl = "enabled")
=============================================================================
