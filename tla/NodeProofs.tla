----------------------------- MODULE NodeProofs -----------------------------
(***************************************************************************)
(* Proofs about the node: its settings, its station and its sleep, for any *)
(* settings in the flash, any arguments of nvs_set and any bound on the    *)
(* events that wait, from boot to boot.                                    *)
(*                                                                         *)
(* Each part has a lemma that says which of its operations a step of the   *)
(* node may be, and its invariant is proved from those operations.         *)
(***************************************************************************)
EXTENDS Node, TLAPS

-----------------------------------------------------------------------------
(* The settings *)

\* The settings are left alone.
NvsSame == ErrnoKept /\ UNCHANGED <<nvs, flash, told, current_namespace>>

\* What a step of the node does to the settings: a command that sets one or
\* changes the namespace, a restart, or nothing but errno.
LEMMA NvsMoves ==
    ASSUME [Next]_vars
    PROVE  NvsSame \/ SetValue \/ SetNamespace \/ NvsRestart
<1> USE DEF NvsSame, nvsVars
<1>1. CASE UNCHANGED nvsVars
  BY <1>1 DEF ErrnoKept
<1>2. CASE Boot
  BY <1>1, <1>2
  DEF Boot, RegisterConsole, BootSources, BootSleep, BootMode, BootStation,
      BootLora, Restart
<1>3. CASE Console
  BY <1>1, <1>3
  DEF Console, Key, NoLine, Line, NvsCommand, InfoCommand, LightSleepCommand,
      LightWake, SleepCommand, DeepSleepCommand, StopCommand, NanCommand,
      Abort, RestartCommand, JoinCommand, JoinReturns, GetValue, ListEntries, Restart
<1>4. CASE HandleEvent \/ RadioEvent \/ ChipSleeps \/ ChipWakes
  BY <1>1, <1>4 DEF HandleEvent, RadioEvent, ChipSleeps, ChipWakes
<1>5. CASE TimerWake \/ PinWake \/ PowerCut
  BY <1>5 DEF TimerWake, PinWake, PowerCut, Restart
<1> QED
  BY <1>1, <1>2, <1>3, <1>4, <1>5 DEF Next, vars

\* What one nvs_set may do to the flash.
LEMMA SetMoves ==
    ASSUME SetValue, erange \in BOOLEAN
    PROVE  \/ NvsSame
           \/ \E i \in Inputs :
              /\ \/ UNCHANGED nvs
                 \/ nvs' = [nvs EXCEPT ![i.key] = Entry(i)]
              /\ flash' \in {flash, nvs'}
              /\ \/ UNCHANGED <<nvs, flash, told>>
                 \/ told' = [told EXCEPT ![i.key] = Unset]
                 \/ /\ told' = [told EXCEPT ![i.key] = Entry(i)]
                    /\ nvs' = [nvs EXCEPT ![i.key] = Entry(i)] /\ flash' = nvs'
              /\ erange' \in {erange, FALSE, TRUE} /\ UNCHANGED current_namespace
<1>1. CASE SetUndefined
  BY <1>1 DEF SetUndefined, NvsSame
<1>2. CASE \E i \in Inputs :
              SetOther(i) \/ SetRange(i) \/ SetStale(i) \/ SetFails(i) \/ SetStored(i)
  <2>1. PICK i \in Inputs :
            SetOther(i) \/ SetRange(i) \/ SetStale(i) \/ SetFails(i) \/ SetStored(i)
    BY <1>2
  <2>2. Errno(i) \in {FALSE, TRUE}
    BY DEF Errno
  <2> QED
    BY <2>1, <2>2 DEF SetOther, SetRange, SetStale, SetFails, SetStored, Commit
<1> QED
  BY <1>1, <1>2 DEF SetValue

\* The type of the settings, their agreement with what was reported.
LEMMA NvsNext ==
    ASSUME NvsTypeOK, Stored, [Next]_vars
    PROVE  NvsTypeOK' /\ Stored'
<1> DEFINE Entries == {Unset} \cup {Entry(i) : i \in Inputs}
                              \cup UNION {{s[k] : k \in Keys} : s \in Settings}
<1>0. /\ nvs \in [Keys -> Entries] /\ flash \in [Keys -> Entries]
      /\ told \in [Keys -> Entries] /\ Unset \in Entries
      /\ erange \in BOOLEAN /\ current_namespace \in {"storage", "other"}
      /\ \A i \in Inputs : Entry(i) \in Entries
  BY DEF NvsTypeOK
<1> DEFINE Typed == /\ nvs' \in [Keys -> Entries] /\ flash' \in [Keys -> Entries]
                    /\ told' \in [Keys -> Entries] /\ erange' \in BOOLEAN
                    /\ current_namespace' \in {"storage", "other"}
<1> SUFFICES Typed /\ Stored'
  BY DEF NvsTypeOK
<1> HIDE DEF Entries
<1>1. CASE NvsSame
  BY <1>0, <1>1 DEF NvsSame, ErrnoKept, Stored
<1>2. CASE SetValue /\ ~NvsSame
  <2>1. PICK i \in Inputs :
              /\ \/ UNCHANGED nvs
                 \/ nvs' = [nvs EXCEPT ![i.key] = Entry(i)]
              /\ flash' \in {flash, nvs'}
              /\ \/ UNCHANGED <<nvs, flash, told>>
                 \/ told' = [told EXCEPT ![i.key] = Unset]
                 \/ /\ told' = [told EXCEPT ![i.key] = Entry(i)]
                    /\ nvs' = [nvs EXCEPT ![i.key] = Entry(i)] /\ flash' = nvs'
              /\ erange' \in {erange, FALSE, TRUE} /\ UNCHANGED current_namespace
    BY <1>0, <1>2, SetMoves
  <2>2. i.key \in Keys /\ Entry(i) \in Entries
    BY <1>0, NvsAssumption DEF NvsAssumption
  <2>3. Typed
    <3>1. nvs' \in [Keys -> Entries]
      BY <1>0, <2>1, <2>2
    <3>2. told' \in [Keys -> Entries]
      BY <1>0, <2>1, <2>2
    <3>3. flash' \in [Keys -> Entries] /\ erange' \in BOOLEAN
      BY <1>0, <2>1, <3>1
    <3> QED
      BY <1>0, <2>1, <3>1, <3>2, <3>3
  <2>4. Stored'
    BY <1>0, <2>1, <2>2 DEF Stored
  <2> QED
    BY <2>3, <2>4
<1>3. CASE SetNamespace
  BY <1>0, <1>3 DEF SetNamespace, ErrnoKept, Stored
<1>4. CASE NvsRestart
  <2>1. CASE Erase
    BY <1>0, <1>4, <2>1 DEF NvsRestart, Erase, Stored
  <2>2. CASE nvs' \in {nvs, flash} /\ flash' = nvs' /\ UNCHANGED told
    BY <1>0, <1>4, <2>2 DEF NvsRestart, Stored
  <2> QED
    BY <1>4, <2>1, <2>2 DEF NvsRestart
<1> QED
  BY <1>1, <1>2, <1>3, <1>4, NvsMoves

-----------------------------------------------------------------------------
(* The station *)

\* What a step of the node does to the station.
LEMMA StationMoves ==
    ASSUME [Next]_vars
    PROVE  \/ UNCHANGED stationVars \/ StationOff \/ CreateGroup \/ WifiSta
           \/ StopWifi \/ StopNothing \/ NanStart \/ NanStop
           \/ EventHandler \/ GotIp \/ LinkLost
<1>1. CASE Boot
  BY <1>1
  DEF Boot, RegisterConsole, BootSources, BootSleep, BootMode, BootStation,
      BootLora, Restart
<1>2. CASE Console
  BY <1>2
  DEF Console, Key, NoLine, Line, NvsCommand, InfoCommand, LightSleepCommand,
      LightWake, SleepCommand, DeepSleepCommand, StopCommand, NanCommand,
      Abort, RestartCommand, JoinCommand, JoinReturns, Restart
<1>3. CASE HandleEvent \/ RadioEvent \/ ChipSleeps \/ ChipWakes
  BY <1>3 DEF HandleEvent, RadioEvent, ChipSleeps, ChipWakes
<1>4. CASE TimerWake \/ PinWake \/ PowerCut
  BY <1>4 DEF TimerWake, PinWake, PowerCut, Restart
<1> QED
  BY <1>1, <1>2, <1>3, <1>4 DEF Next, vars

\* The last event posted says whether there is a link, also while the bit is
\* stale; with no event waiting a bit that is not stale says it.
BitInv ==
    /\ events # <<>> => ((Last(events) = "got_ip") <=> (link = "up"))
    /\ events = <<>> /\ ~stale => (connected <=> (link = "up"))

\* What the queue of events becomes.
LEMMA EventFacts ==
    ASSUME NEW q \in Seq({"disconnected", "got_ip"})
    PROVE  /\ Len(q) \in Nat
           /\ \A e \in {"disconnected", "got_ip"} :
                 /\ Append(q, e) \in Seq({"disconnected", "got_ip"})
                 /\ Append(q, e) # <<>> /\ Last(Append(q, e)) = e
                 /\ Len(Append(q, e)) = Len(q) + 1
           /\ q # <<>> => /\ Tail(q) \in Seq({"disconnected", "got_ip"})
                          /\ Len(Tail(q)) <= Len(q)
                          /\ Tail(q) = <<>> => Last(q) = Head(q)
                          /\ Tail(q) # <<>> => Last(Tail(q)) = Last(q)
<1>1. ASSUME NEW e \in {"disconnected", "got_ip"}
      PROVE  /\ Append(q, e) \in Seq({"disconnected", "got_ip"})
             /\ Append(q, e) # <<>> /\ Last(Append(q, e)) = e
             /\ Len(Append(q, e)) = Len(q) + 1
  BY DEF Last
<1>2. ASSUME q # <<>>
      PROVE  /\ Tail(q) \in Seq({"disconnected", "got_ip"})
             /\ Len(Tail(q)) = Len(q) - 1 /\ Len(q) \in Nat /\ Len(q) >= 1
  BY <1>2
<1>3. ASSUME q # <<>>, Tail(q) = <<>>
      PROVE  Last(q) = Head(q)
  <2>0. Len(Tail(q)) = Len(q) - 1 /\ Len(q) \in Nat /\ Len(Tail(q)) = 0
    BY <1>2, <1>3
  <2>1. Len(q) = 1
    BY <2>0
  <2>2. Head(q) = q[1]
    BY <1>3
  <2> QED
    BY <2>1, <2>2 DEF Last
<1>4. ASSUME q # <<>>, Tail(q) # <<>>
      PROVE  Last(Tail(q)) = Last(q)
  BY <1>2, <1>4 DEF Last
<1> QED
  BY <1>1, <1>2, <1>3, <1>4

\* The events keep their type and the last one tells the link, however the
\* driver, the handler, the console and app_main interleave.
LEMMA StationNext ==
    ASSUME StationTypeOK, BitInv, [Next]_vars
    PROVE  StationTypeOK' /\ BitInv'
<1> DEFINE Q == Seq({"disconnected", "got_ip"})
<1>0. events \in Q /\ Len(events) <= MaxEvents /\ MaxEvents \in Nat
  BY MaxEventsAssumption DEF StationTypeOK, MaxEventsAssumption
<1>1. CASE UNCHANGED stationVars
  BY <1>1 DEF stationVars, StationTypeOK, BitInv
<1>2. CASE StationOff
  <2>1. <<>> \in Q /\ Len(<<>>) <= MaxEvents
    BY <1>0
  <2> QED
    BY <1>2, <2>1 DEF StationOff, StationTypeOK, BitInv
<1>3. CASE CreateGroup
  BY <1>3 DEF CreateGroup, StationTypeOK, BitInv
<1>4. CASE NanStart
  BY <1>4 DEF NanStart, StationTypeOK, BitInv
<1>5. CASE StopWifi \/ StopNothing
  <2>1. <<>> \in Q /\ Len(<<>>) <= MaxEvents
    BY <1>0
  <2>2. CASE StopWifi
    BY <2>1, <2>2 DEF StopWifi, StationTypeOK, BitInv
  <2>3. CASE StopNothing
    <3>1. /\ events' = <<>> /\ stale' = connected /\ link \in {"off", "idle"}
          /\ UNCHANGED <<wifi_event_group, initialized, connected, driver, link, refused>>
      BY <2>3 DEF StopNothing, StationTypeOK
    <3>2. StationTypeOK'
      BY <2>1, <3>1 DEF StationTypeOK
    <3>3. BitInv'
      BY <3>1 DEF StationTypeOK, BitInv
    <3> QED
      BY <3>2, <3>3
  <2> QED
    BY <1>5, <2>2, <2>3
<1>6. ASSUME Disconnected \/ AddressGot
      PROVE  StationTypeOK' /\ BitInv'
  <2>1. /\ events # <<>> /\ events' = Tail(events) /\ UNCHANGED initialized
        /\ UNCHANGED <<wifi_event_group, driver>> /\ stale' = FALSE
        /\ refused' \in {refused, FALSE, TRUE}
        /\ \/ link' = link
           \/ link = "idle" /\ driver = "station" /\ link' = "connecting"
        /\ \/ Head(events) = "disconnected" /\ connected' = FALSE
           \/ Head(events) = "got_ip" /\ connected' = TRUE /\ link' = link
    BY <1>6 DEF Disconnected, AddressGot
  <2>2. /\ events' \in Q /\ Len(events') <= MaxEvents
        /\ events' = <<>> => Last(events) = Head(events)
        /\ events' # <<>> => Last(events') = Last(events)
    BY <1>0, <2>1, EventFacts
  <2>3. /\ link' \in {"off", "idle", "connecting", "up"}
        /\ (link' = "up") <=> (link = "up")
        /\ (link' # "off") <=> (link # "off")
    BY <2>1 DEF StationTypeOK
  <2>4. StationTypeOK'
    BY <2>1, <2>2, <2>3 DEF StationTypeOK
  <2>5. BitInv'
    BY <2>1, <2>2, <2>3 DEF BitInv
  <2> QED
    BY <2>4, <2>5
<1>7. ASSUME NEW e \in {"disconnected", "got_ip"}, Post(e),
             e = "got_ip" => link' = "up",
             e = "disconnected" => link' \in {"idle", "connecting"},
             initialized' = TRUE, driver' = "station" \/ (driver' = "none" /\ link' = "idle"),
             refused' \in BOOLEAN, UNCHANGED <<wifi_event_group, connected, stale>>
      PROVE  StationTypeOK' /\ BitInv'
  <2>1. /\ events' \in Q /\ events' # <<>> /\ Last(events') = e
        /\ Len(events') <= MaxEvents
    BY <1>0, <1>7, EventFacts DEF Post
  <2>2. link' \in {"idle", "connecting", "up"} /\ ((link' = "up") <=> (e = "got_ip"))
    BY <1>7
  <2>3. StationTypeOK'
    BY <1>7, <2>1, <2>2 DEF StationTypeOK
  <2>4. BitInv'
    BY <2>1, <2>2 DEF BitInv
  <2> QED
    BY <2>3, <2>4
<1>8. CASE GotIp
  BY <1>7, <1>8 DEF GotIp, StationTypeOK
<1>9. CASE LinkLost
  BY <1>7, <1>9 DEF LinkLost, StationTypeOK
<1>10. CASE WifiSta
  <2>1. CASE link = "up" /\ link' = "connecting" /\ Post("disconnected")
    BY <1>7, <1>10, <2>1 DEF WifiSta
  <2>2. CASE UNCHANGED events /\ link' = IF link \in {"off", "idle"} THEN "connecting" ELSE link
    <3>1. /\ link' \in {"idle", "connecting", "up"}
          /\ (link' = "up") <=> (link = "up")
      BY <2>2 DEF StationTypeOK
    <3> QED
      BY <1>10, <2>2, <3>1 DEF WifiSta, StationTypeOK, BitInv
  <2> QED
    BY <1>10, <2>1, <2>2, Zenon DEF WifiSta
<1>11. CASE NanStop
  <2>1. CASE link \in {"connecting", "up"} /\ link' = "idle" /\ Post("disconnected")
    BY <1>7, <1>11, <2>1 DEF NanStop, StationTypeOK
  <2>2. CASE /\ link \in {"off", "idle", "connecting"} /\ UNCHANGED events
             /\ link' = IF link = "off" THEN "off" ELSE "idle"
    BY <1>11, <2>2 DEF NanStop, StationTypeOK, BitInv
  <2> QED
    BY <1>11, <2>1, <2>2 DEF NanStop
<1> QED
  BY <1>1, <1>2, <1>3, <1>4, <1>5, <1>6, <1>8, <1>9, <1>10, <1>11, StationMoves
  DEF EventHandler

\* A station that has lost its link has the event of the loss still to be handled,
\* unless the handler's attempt was refused or NAN stopped the driver.
AttemptDue ==
    link = "idle" /\ driver = "station" /\ ~refused =>
        events # <<>> /\ Last(events) = "disconnected"

\* No step loses the event of a disconnection: the one that takes it from the queue
\* makes the attempt, and whatever else empties the queue leaves no such station.
LEMMA AttemptNext ==
    ASSUME StationTypeOK, BitInv, AttemptDue, [Next]_vars
    PROVE  AttemptDue'
<1>0. events \in Seq({"disconnected", "got_ip"})
  BY DEF StationTypeOK
<1>1. CASE UNCHANGED stationVars
  BY <1>1 DEF stationVars, AttemptDue
<1>2. CASE StationOff \/ CreateGroup \/ StopWifi \/ StopNothing \/ NanStart \/ NanStop
  BY <1>2
  DEF StationOff, CreateGroup, StopWifi, StopNothing, NanStart, NanStop, AttemptDue
<1>3. CASE WifiSta \/ GotIp
  BY <1>3 DEF WifiSta, GotIp, AttemptDue, StationTypeOK
<1>4. CASE LinkLost
  BY <1>0, <1>4, EventFacts DEF LinkLost, Post, AttemptDue
<1>5. CASE Disconnected
  <2>1. link' # "idle" \/ refused'
    BY <1>5 DEF Disconnected
  <2> QED
    BY <2>1 DEF AttemptDue
<1>6. CASE AddressGot
  <2>1. /\ events # <<>> /\ Head(events) = "got_ip" /\ events' = Tail(events)
        /\ UNCHANGED <<driver, link, refused>>
    BY <1>6 DEF AddressGot
  <2>2. /\ Tail(events) = <<>> => Last(events) = "got_ip"
        /\ Tail(events) # <<>> => Last(Tail(events)) = Last(events)
    BY <1>0, <2>1, EventFacts
  <2> QED
    BY <2>1, <2>2 DEF AttemptDue
<1> QED
  BY <1>1, <1>2, <1>3, <1>4, <1>5, <1>6, StationMoves DEF EventHandler

-----------------------------------------------------------------------------
(* Sleep and the console *)

\* A line that is typed or run holds the lock.
LineLocks == console \in {"typing", "join"} => lock_held

\* Once app_main has enabled the sources, or automatic sleep is configured, the
\* console wakes the node unless a refused light_sleep took the source away.
UartWakes ==
    (auto \/ main \notin {"console", "sources"}) /\ ~cut => "uart" \in wake

NodeType ==
    /\ main \in {"console", "sources", "lsleep", "group", "station", "lora", "done"}
    /\ console \in {"none", "prompt", "typing", "join"}
    /\ ble \in BOOLEAN

PowerInv ==
    /\ PowerTypeOK /\ NodeType /\ LockMatches /\ LineLocks /\ UartWakes
    /\ console \in {"typing", "join"} => power # "auto"

\* What taking and giving back the lock does to its count.
LEMMA LockFacts ==
    ASSUME PowerTypeOK, LockMatches, GetLock \/ ReleaseLock
    PROVE  /\ LockMatches' /\ lock' \in 0 .. 1
           /\ GetLock => lock_held' = TRUE
           /\ ReleaseLock => lock_held' = FALSE
BY DEF PowerTypeOK, LockMatches, GetLock, ReleaseLock

\* The part of PowerInv that is not about the lock.
SleepInv ==
    /\ power \in {"run", "auto", "light", "deep"}
    /\ wake \in SUBSET Sources
    /\ auto \in BOOLEAN /\ cut \in BOOLEAN
    /\ order \in {"none", "mesh", "plain", "chosen"}
    /\ (order = "none") = (power # "deep")
    /\ UartWakes

\* The end of a line gives the lock back: what is left is what the command did
\* to sleep.
LEMMA LineEnds ==
    ASSUME PowerInv, ReleaseLock, SleepInv', console' = "prompt",
           UNCHANGED <<main, ble>>
    PROVE  PowerInv'
<1>1. /\ NodeType /\ LockMatches /\ lock \in 0 .. 1 /\ PowerTypeOK
  BY DEF PowerInv, PowerTypeOK
<1>2. LockMatches' /\ lock' \in 0 .. 1 /\ lock_held' = FALSE
  BY <1>1, LockFacts
<1>3. NodeType' /\ LineLocks'
  BY <1>1 DEF NodeType, LineLocks
<1>4. PowerTypeOK' /\ UartWakes'
  BY <1>2, Zenon DEF PowerTypeOK, SleepInv
<1> QED
  BY <1>2, <1>3, <1>4 DEF PowerInv

\* A restart leaves nothing behind.
LEMMA RestartPower ==
    ASSUME Restart
    PROVE  PowerInv'
<1>1. /\ power' = "run" /\ wake' = {} /\ auto' = FALSE /\ lock' = 0
      /\ lock_held' = FALSE /\ order' = "none" /\ cut' = FALSE
      /\ main' = "console" /\ console' = "none" /\ ble' = FALSE
  BY DEF Restart, PowerRestart
<1>2. PowerTypeOK'
  <2>1. (order' = "none") = (power' # "deep")
    BY <1>1
  <2>2. wake' \in SUBSET Sources /\ lock' \in 0 .. 1
    BY <1>1
  <2>3. /\ power' \in {"run", "auto", "light", "deep"}
        /\ order' \in {"none", "mesh", "plain", "chosen"}
        /\ auto' \in BOOLEAN /\ lock_held' \in BOOLEAN /\ cut' \in BOOLEAN
    BY <1>1
  <2> QED
    BY <2>1, <2>2, <2>3 DEF PowerTypeOK
<1>3. NodeType'
  BY <1>1 DEF NodeType
<1>4. LockMatches' /\ LineLocks' /\ UartWakes'
  BY <1>1 DEF LockMatches, LineLocks, UartWakes
<1> QED
  BY <1>1, <1>2, <1>3, <1>4 DEF PowerInv

\* The steps of app_main.
LEMMA BootPower ==
    ASSUME PowerInv, Boot
    PROVE  PowerInv'
<1> USE DEF PowerInv, PowerTypeOK, NodeType, LockMatches, LineLocks, UartWakes,
            powerVars, lockVars, Sources
<1>1. CASE RegisterConsole
  BY <1>1 DEF RegisterConsole, StartBle
<1>2. CASE BootSources
  <2>1. /\ wake' = wake \cup {"gpio", "uart"} /\ cut' = FALSE /\ main' = "lsleep"
        /\ UNCHANGED <<power, auto, order, lock, lock_held, console, ble>>
    BY <1>2 DEF BootSources, EnableSources
  <2>2. wake' \in SUBSET Sources /\ "uart" \in wake'
    BY <2>1
  <2> HIDE DEF Sources
  <2> QED
    BY <2>1, <2>2
<1>3. CASE BootSleep
  BY <1>3 DEF BootSleep, ConfigureSleep
<1>4. CASE BootMode \/ BootStation
  <2>1. \/ Restart
        \/ /\ main \in {"group", "station"} /\ main' \in {"station", "lora"}
           /\ UNCHANGED <<powerVars, console, ble>>
    BY <1>4 DEF BootMode, BootStation
  <2>2. CASE Restart
    BY <2>2, RestartPower DEF PowerInv
  <2>3. CASE /\ main \in {"group", "station"} /\ main' \in {"station", "lora"}
             /\ UNCHANGED <<powerVars, console, ble>>
    BY <2>3
  <2> QED
    BY <2>1, <2>2, <2>3, Zenon
<1>6. CASE BootLora
  BY <1>6 DEF BootLora
<1> QED
  BY <1>1, <1>2, <1>3, <1>4, <1>6 DEF Boot

\* The steps of the console task.
LEMMA ConsolePower ==
    ASSUME PowerInv, Console
    PROVE  PowerInv'
<1>0. /\ SleepInv /\ NodeType /\ LockMatches /\ LineLocks /\ PowerTypeOK
      /\ console \in {"typing", "join"} => power # "auto"
  BY Zenon DEF PowerInv, PowerTypeOK, SleepInv
<1>1. CASE Key
  <2>1. /\ power = "run" /\ GetLock /\ UNCHANGED <<power, wake, auto, order, cut>>
        /\ console' = "typing" /\ UNCHANGED <<main, ble>>
    BY <1>1 DEF Key, Running, sleepVars
  <2>2. LockMatches' /\ lock' \in 0 .. 1 /\ lock_held' = TRUE
    BY <1>0, <2>1, LockFacts
  <2>3. PowerTypeOK'
    BY <1>0, <2>1, <2>2, Zenon DEF PowerTypeOK
  <2>4. NodeType' /\ UartWakes' /\ LineLocks'
    BY <1>0, <2>1, <2>2 DEF SleepInv, NodeType, UartWakes, LineLocks
  <2> QED
    BY <2>1, <2>2, <2>3, <2>4 DEF PowerInv
<1>2. CASE NoLine
  <2>1. console' = "prompt" /\ UNCHANGED <<powerVars, main, ble>>
    BY <1>2 DEF NoLine
  <2>2. PowerTypeOK' /\ LockMatches' /\ UartWakes' /\ NodeType' /\ LineLocks'
    BY <1>0, <2>1
    DEF powerVars, PowerTypeOK, SleepInv, LockMatches, UartWakes, NodeType, LineLocks
  <2> QED
    BY <2>1, <2>2 DEF PowerInv
<1>3. CASE NvsCommand \/ InfoCommand \/ StopCommand \/ NanCommand
  <2>1. CASE Restart
    BY <2>1, RestartPower
  <2>2. CASE ~Restart
    <3>1. /\ ReleaseLock /\ console' = "prompt" /\ UNCHANGED <<main, ble>>
          /\ UNCHANGED sleepVars
      BY <1>3, <2>2 DEF NvsCommand, InfoCommand, StopCommand, NanCommand, Line, Abort
    <3>2. SleepInv'
      BY <1>0, <3>1, Zenon DEF SleepInv, UartWakes, sleepVars
    <3> QED
      BY <3>1, <3>2, LineEnds
  <2> QED
    BY <2>1, <2>2
<1>4. CASE LightSleepCommand
  <2>1. /\ power = "run" /\ power' = "light" /\ "uart" \in wake' /\ wake' \subseteq Sources
        /\ cut' = FALSE
        /\ UNCHANGED <<auto, order, lock, lock_held, main, console, ble>>
    BY <1>4
    DEF LightSleepCommand, LightSleep, nodeVars, lockVars, Running, Sources
  <2>2. PowerTypeOK'
    BY <1>0, <2>1 DEF PowerTypeOK
  <2>3. NodeType' /\ LockMatches' /\ LineLocks' /\ UartWakes'
    BY <1>0, <2>1 DEF NodeType, LockMatches, LineLocks, UartWakes
  <2> QED
    BY <2>1, <2>2, <2>3 DEF PowerInv
<1>5. CASE LightWake
  <2>1. /\ power = "light" /\ power' = "run" /\ ReleaseLock /\ console' = "prompt"
        /\ UNCHANGED <<wake, auto, order, cut, main, ble>>
    BY <1>5 DEF LightWake
  <2>2. SleepInv'
    BY <1>0, <2>1 DEF SleepInv, UartWakes
  <2> QED
    BY <2>1, <2>2, LineEnds
<1>6. CASE SleepCommand
  <2>1. /\ ReleaseLock /\ console' = "prompt" /\ UNCHANGED <<main, ble, power, order>>
        /\ \/ auto' = TRUE /\ wake' = wake \cup {"uart"} /\ cut' = FALSE
           \/ cut' = TRUE /\ wake' \in {{"timer"}, {}} /\ UNCHANGED auto
    BY <1>6 DEF SleepCommand, Line, AutoSleepOn, LightSleepRefused
  <2>2. SleepInv'
    BY <1>0, <2>1 DEF SleepInv, UartWakes, Sources
  <2> QED
    BY <2>1, <2>2, LineEnds
<1>7. CASE DeepSleepCommand
  <2>1. /\ power = "run" /\ wake \subseteq wake' /\ wake' \subseteq Sources
        /\ UNCHANGED <<auto, cut>>
        /\ \/ UNCHANGED <<power, order>>
           \/ power' = "deep" /\ order' \in {"mesh", "plain", "chosen"}
    <3>0. power = "run" /\ wake \subseteq Sources
      BY <1>0, <1>7 DEF DeepSleepCommand, Line, Running, SleepInv
    <3>1. MeshSleep \/ PlainSleep
      BY <1>7 DEF DeepSleepCommand, Line, DeepSleep
    <3>2. CASE MeshSleep
      BY <3>0, <3>2 DEF MeshSleep, Sources
    <3>3. CASE PlainSleep
      BY <3>0, <3>3 DEF PlainSleep, Sources
    <3> QED
      BY <3>1, <3>2, <3>3
  <2>2. ReleaseLock /\ console' = "prompt" /\ UNCHANGED <<main, ble>>
    BY <1>7 DEF DeepSleepCommand, Line
  <2>3. SleepInv'
    BY <1>0, <2>1, <2>2 DEF SleepInv, UartWakes
  <2> QED
    BY <2>2, <2>3, LineEnds
<1>8. CASE RestartCommand
  BY <1>8, RestartPower DEF RestartCommand
<1>9. CASE JoinCommand
  <2>1. \/ Restart
        \/ /\ console = "typing" /\ console' = "join"
           /\ UNCHANGED <<powerVars, main, ble>>
    BY <1>9 DEF JoinCommand
  <2>2. CASE Restart
    BY <2>2, RestartPower
  <2>3. CASE /\ console = "typing" /\ console' = "join"
             /\ UNCHANGED <<powerVars, main, ble>>
    <3>1. PowerTypeOK' /\ LockMatches' /\ UartWakes' /\ NodeType'
      BY <1>0, <2>3
      DEF powerVars, PowerTypeOK, SleepInv, LockMatches, UartWakes, NodeType
    <3>2. lock_held' /\ power' # "auto"
      BY <1>0, <2>3 DEF LineLocks, powerVars
    <3> QED
      BY <3>1, <3>2 DEF PowerInv, LineLocks
  <2> QED
    BY <2>1, <2>2, <2>3, Zenon
<1>10. CASE JoinReturns
  <2>1. /\ ReleaseLock /\ console' = "prompt" /\ UNCHANGED <<main, ble>>
        /\ UNCHANGED sleepVars
    BY <1>10 DEF JoinReturns
  <2>2. SleepInv'
    BY <1>0, <2>1, Zenon DEF SleepInv, UartWakes, sleepVars
  <2> QED
    BY <2>1, <2>2, LineEnds
<1> QED
  BY <1>1, <1>2, <1>3, <1>4, <1>5, <1>6, <1>7, <1>8, <1>9, <1>10 DEF Console

\* Every step of the node keeps what is known of sleep and of the lock.
LEMMA PowerNext ==
    ASSUME PowerInv, [Next]_vars
    PROVE  PowerInv'
<1> USE DEF PowerInv, PowerTypeOK, NodeType, LockMatches, LineLocks, UartWakes,
            powerVars, lockVars, nodeVars
<1>1. CASE HandleEvent \/ RadioEvent \/ UNCHANGED vars
  <2>1. UNCHANGED <<powerVars, nodeVars>>
    BY <1>1 DEF HandleEvent, RadioEvent, vars
  <2> QED
    BY <2>1
<1>2. CASE ChipSleeps
  BY <1>2 DEF ChipSleeps, AutoSleep
<1>3. CASE ChipWakes
  BY <1>3 DEF ChipWakes, AutoWake
<1>4. CASE TimerWake \/ PinWake \/ PowerCut
  BY <1>4, RestartPower DEF TimerWake, PinWake, PowerCut
<1> QED
  BY <1>1, <1>2, <1>3, <1>4, BootPower, ConsolePower DEF Next

-----------------------------------------------------------------------------
(* The theorems *)

NodeInv == NvsTypeOK /\ Stored /\ StationTypeOK /\ BitInv /\ AttemptDue /\ PowerInv

\* A node with any settings starts in the invariant.
LEMMA NodeInvInit == Init => NodeInv
<1> SUFFICES ASSUME Init
             PROVE  NodeInv
  OBVIOUS
<1>1. NvsTypeOK /\ Stored
  <2>1. nvs \in Settings /\ nvs = [k \in Keys |-> nvs[k]]
    BY NvsAssumption DEF NvsAssumption, Init, NvsInit
  <2>2. /\ flash = nvs /\ told = [k \in Keys |-> Unset]
        /\ erange = FALSE /\ current_namespace = "storage"
    BY DEF Init, NvsInit
  <2>3. ASSUME NEW k \in Keys
        PROVE  nvs[k] \in UNION {{s[l] : l \in Keys} : s \in Settings}
    BY <2>1
  <2> QED
    BY <2>1, <2>2, <2>3 DEF NvsTypeOK, Stored
<1>2. StationTypeOK /\ BitInv /\ AttemptDue
  <2>1. <<>> \in Seq({"disconnected", "got_ip"}) /\ Len(<<>>) <= MaxEvents
    BY MaxEventsAssumption DEF MaxEventsAssumption
  <2> QED
    BY <2>1 DEF Init, StationInit, StationTypeOK, BitInv, AttemptDue
<1>3. PowerInv
  <2>1. /\ power = "run" /\ wake = {} /\ auto = FALSE /\ lock = 0
        /\ lock_held = FALSE /\ order = "none" /\ cut = FALSE
        /\ main = "console" /\ console = "none" /\ ble = FALSE
    BY DEF Init, PowerInit, NodeInit
  <2>2. PowerTypeOK
    <3>1. (order = "none") = (power # "deep")
      BY <2>1
    <3>2. wake \in SUBSET Sources /\ lock \in 0 .. 1
      BY <2>1
    <3>3. /\ power \in {"run", "auto", "light", "deep"}
          /\ order \in {"none", "mesh", "plain", "chosen"}
          /\ auto \in BOOLEAN /\ lock_held \in BOOLEAN /\ cut \in BOOLEAN
      BY <2>1
    <3> QED
      BY <3>1, <3>2, <3>3 DEF PowerTypeOK
  <2>3. NodeType /\ LockMatches /\ LineLocks /\ UartWakes
    BY <2>1 DEF NodeType, LockMatches, LineLocks, UartWakes
  <2> QED
    BY <2>1, <2>2, <2>3 DEF PowerInv
<1> QED
  BY <1>1, <1>2, <1>3 DEF NodeInv

\* The invariant of the node: what is typed, what is stored, where the bit and
\* the lock are.
THEOREM NodeInvHolds == Spec => []NodeInv
<1>1. NodeInv /\ [Next]_vars => NodeInv'
  BY NvsNext, StationNext, AttemptNext, PowerNext DEF NodeInv
<1> QED
  BY NodeInvInit, <1>1, PTL DEF Spec

\* Every variable keeps its type.
THEOREM TypeCorrect == Spec => []TypeOK
<1>1. NodeInv => TypeOK
  BY DEF NodeInv, PowerInv, NodeType, TypeOK
<1> QED
  BY <1>1, NodeInvHolds, PTL

\* A setting reported as stored is what the node reads and what is committed,
\* whatever commands and restarts follow, until it is set again or erased.
THEOREM StoredHolds == Spec => []Stored
<1>1. NodeInv => Stored
  BY DEF NodeInv
<1> QED
  BY <1>1, NodeInvHolds, PTL

\* With every posted event handled CONNECTED_BIT says whether the station has
\* an address, unless stop left it set.
THEOREM BitFollowsLinkHolds == Spec => []BitFollowsLink
<1>1. NodeInv => BitFollowsLink
  BY DEF NodeInv, BitInv, StationTypeOK, BitFollowsLink, BitToBe
<1> QED
  BY <1>1, NodeInvHolds, PTL

\* The safety half of Reconnects: event_handler still has the event of every loss
\* it has not answered, unless its attempt was refused or the driver is stopped.
THEOREM AttemptDueHolds == Spec => []AttemptDue
<1>1. NodeInv => AttemptDue
  BY DEF NodeInv
<1> QED
  BY <1>1, NodeInvHolds, PTL

\* A node that sleeps by itself wakes up when the user types, unless a refused
\* light_sleep disabled the source.
THEOREM ConsoleWakesHolds == Spec => []ConsoleWakes
<1>1. NodeInv => ConsoleWakes
  BY DEF NodeInv, PowerInv, UartWakes, ConsoleWakes
<1> QED
  BY <1>1, NodeInvHolds, PTL

\* The node does not fall asleep under a line that is typed or a command that
\* runs, and the lock that keeps it awake is given back as often as taken.
THEOREM AwakeForConsoleHolds == Spec => []AwakeForConsole
<1>1. NodeInv => AwakeForConsole
  BY DEF NodeInv, PowerInv, AwakeForConsole
<1> QED
  BY <1>1, NodeInvHolds, PTL
=============================================================================
