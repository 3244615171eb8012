------------------------------- MODULE Power --------------------------------
(***************************************************************************)
(* Sleep of the node: the commands deep_sleep and light_sleep of           *)
(* cmd_system.c, dmesh_enter_deep_sleep (main/main.c), automatic light     *)
(* sleep, and the lock against it that the console takes with the first    *)
(* character of a line and releases after the command (main/console.c).    *)
(* Wake-up sources are state of the chip: they stay enabled from one       *)
(* command to the next until light_sleep disables all of them.             *)
(*                                                                         *)
(* External, the chip: light sleep ends by any enabled source, deep sleep  *)
(* by the timer or by ext1 and with a restart; automatic light sleep also  *)
(* ends by itself when a task has to run.                                  *)
(***************************************************************************)
EXTENDS Naturals

VARIABLES
    power,      \* "run", "auto" or "light" sleep, or "deep"
    wake,       \* enabled wake-up sources
    auto,       \* automatic light sleep is configured
    lock,       \* acquisitions of light_sleep_pm_lock
    lock_held,
    order,      \* how the chip was sent to deep sleep: "none", "mesh", "plain"
                \* (no option) or "chosen"
    cut         \* history: a refused light_sleep left its sources disabled

powerVars == <<power, wake, auto, lock, lock_held, order, cut>>
sleepVars == <<power, wake, auto, order, cut>>
lockVars == <<lock, lock_held>>

Sources == {"timer", "gpio", "uart", "ext1"}

PowerTypeOK ==
    /\ power \in {"run", "auto", "light", "deep"}
    /\ wake \in SUBSET Sources
    /\ auto \in BOOLEAN /\ lock_held \in BOOLEAN /\ cut \in BOOLEAN
    /\ lock \in 0 .. 1
    /\ order \in {"none", "mesh", "plain", "chosen"}
    /\ (order = "none") = (power # "deep")

PowerInit ==
    /\ power = "run" /\ wake = {} /\ auto = FALSE /\ lock = 0 /\ lock_held = FALSE
    /\ order = "none" /\ cut = FALSE

PowerRestart ==
    /\ power' = "run" /\ wake' = {} /\ auto' = FALSE /\ lock' = 0
    /\ lock_held' = FALSE /\ order' = "none" /\ cut' = FALSE

-----------------------------------------------------------------------------
(* The lock of the console *)

\* Mutant of GetLock: every call acquires.
GetLockMutant ==
    /\ lock' = IF lock < 2 THEN lock + 1 ELSE lock
    /\ lock_held' = TRUE

\* getlock: linenoise may call it more than once for a line.
GetLock ==
    /\ lock' = IF lock_held THEN lock ELSE lock + 1
    /\ lock_held' = TRUE

\* Mutant of ReleaseLock: the lock goes, the flag stays.
ReleaseLockMutant ==
    /\ lock' = IF lock > 0 THEN lock - 1 ELSE 0
    /\ UNCHANGED lock_held

\* After a command (esp_pm_lock_release refuses a lock that is not held).
ReleaseLock ==
    /\ lock' = IF lock > 0 THEN lock - 1 ELSE 0
    /\ lock_held' = FALSE

-----------------------------------------------------------------------------
(* Commands *)

\* Mutant of MeshSleep: the timer is not enabled.
MeshSleepMutant ==
    \E rtc \in BOOLEAN :
        /\ wake' = wake \cup IF rtc THEN {"ext1"} ELSE {}
        /\ power' = IF rtc THEN "deep" ELSE power
        /\ order' = IF rtc THEN "mesh" ELSE order
        /\ UNCHANGED <<auto, cut>>

\* dmesh_enter_deep_sleep: an interrupt pin that is not an RTC pin ends it
\* after the timer was enabled.
MeshSleep ==
    \E rtc \in BOOLEAN :
        /\ wake' = wake \cup {"timer"} \cup IF rtc THEN {"ext1"} ELSE {}
        /\ power' = IF rtc THEN "deep" ELSE power
        /\ order' = IF rtc THEN "mesh" ELSE order
        /\ UNCHANGED <<auto, cut>>

\* deep_sleep without --start: the timer is enabled first, a pin or a level
\* that is refused ends the command.
PlainSleep ==
    \E timed, pin, valid \in BOOLEAN :
        LET timer == IF timed THEN {"timer"} ELSE {}
            ext1 == IF pin /\ valid THEN {"ext1"} ELSE {}
        IN  /\ wake' = wake \cup timer \cup ext1
            /\ power' = IF pin => valid THEN "deep" ELSE power
            /\ order' = IF ~(pin => valid) THEN order
                        ELSE IF timed \/ pin THEN "chosen" ELSE "plain"
            /\ UNCHANGED <<auto, cut>>

DeepSleep == MeshSleep \/ PlainSleep

\* light_sleep --auto
AutoSleepOn ==
    /\ auto' = TRUE /\ wake' = wake \cup {"uart"} /\ cut' = FALSE
    /\ UNCHANGED <<power, order>>

\* Mutant of LightSleep: the console wakes the node only from pins.
LightSleepMutant ==
    \E timed, pins \in BOOLEAN :
        /\ wake' = (IF timed THEN {"timer"} ELSE {}) \cup (IF pins THEN {"gpio"} ELSE {"uart"})
        /\ power' = "light" /\ cut' = FALSE
        /\ UNCHANGED <<auto, order>>

\* light_sleep: every source is disabled, then those of the line and the UART
\* are enabled.
LightSleep ==
    \E timed, pins \in BOOLEAN :
        /\ wake' = {"uart"} \cup (IF timed THEN {"timer"} ELSE {})
                            \cup (IF pins THEN {"gpio"} ELSE {})
        /\ power' = "light" /\ cut' = FALSE
        /\ UNCHANGED <<auto, order>>

\* light_sleep with pins and levels that do not match, or another level: it
\* returns with no source enabled but the timer.
LightSleepRefused ==
    \E timed \in BOOLEAN :
        /\ wake' = IF timed THEN {"timer"} ELSE {}
        /\ cut' = TRUE
        /\ UNCHANGED <<power, auto, order>>

-----------------------------------------------------------------------------
(* Boot: app_main enables sources, then automatic sleep if NVS says so *)

EnableSources ==
    /\ wake' = wake \cup {"gpio", "uart"} /\ cut' = FALSE
    /\ UNCHANGED <<power, auto, order, lockVars>>

ConfigureSleep(lsleep) ==
    /\ auto' = (auto \/ lsleep)
    /\ UNCHANGED <<power, wake, order, cut, lockVars>>

-----------------------------------------------------------------------------
(* The chip *)

\* Every task is blocked and nobody holds the lock.
AutoSleep ==
    /\ power = "run" /\ auto /\ lock = 0
    /\ power' = "auto"
    /\ UNCHANGED <<wake, auto, order, cut, lockVars>>

\* A task has to run: a time-out, an interrupt, or the timer of register_dmesh,
\* which fires every five seconds.
AutoWake ==
    /\ power = "auto"
    /\ power' = "run"
    /\ UNCHANGED <<wake, auto, order, cut, lockVars>>

-----------------------------------------------------------------------------
(* Properties *)

\* The lock is taken once for a line and given back once: its count is what
\* lock_held says, also when linenoise calls the hook again or returns no line.
\* A count that stays up would keep the node from sleeping for ever.
LockMatches == lock = IF lock_held THEN 1 ELSE 0

\* Unless a refused light_sleep took the source away, a node that sleeps by
\* itself wakes up when the user types, whatever sleep commands came before.
ConsoleWakes == auto /\ ~cut => "uart" \in wake

=============================================================================
