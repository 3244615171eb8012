------------------------------- MODULE NanEsp -------------------------------
(***************************************************************************)
(* NAN on the ESP32 (esp32/components/esp-nan-aware/nan.c) of a device     *)
(* that starts in NAN mode.                                                *)
(*                                                                         *)
(* Three tasks share the driver's state without a lock: the console task   *)
(* runs cmd_nan (nanQueue, nanStart, nanStop), the Wi-Fi task runs         *)
(* sniffer_cb1 on each received frame, the timer task runs timerCB.  A     *)
(* task may be preempted anywhere, so that the increment and the decrement *)
(* of outQueueLen are a load and a store.  A failing ESP_ERROR_CHECK or    *)
(* assert, or a write to a constant, restarts the device.                  *)
(*                                                                         *)
(* All stations share peers[0].  Counters, time and the sync beacons       *)
(* themselves are left out.                                                *)
(***************************************************************************)
EXTENDS Integers

CONSTANTS
    Stations,     \* the other NAN devices in range
    Cluster,      \* station -> the cluster whose windows it keeps
    Messages,     \* texts of "nan --send"
    None,
    OutQueueSize, \* OUT_QUEUE_SIZE
    MaxStarts,    \* bound: calls of nanStart since boot
    MaxRestarts   \* bound: restarts

Clusters == {Cluster[s] : s \in Stations}

ASSUME NanAssumption ==
    /\ None \notin Stations \cup Messages \cup Clusters
    /\ OutQueueSize \in Nat \ {0}
    /\ MaxStarts \in Nat \ {0}
    /\ MaxRestarts \in Nat

VARIABLES
    wifi,         \* the Wi-Fi driver is started and captures frames
    running,      \* aware.running
    timer,        \* timerOneOff: handles are numbered as they are created
    armed,        \* the timers that will fire
    callback,     \* the timer task is about to run timerCB
    net,          \* aware.nanNet, always copied together with peer->nanNet
    mac,          \* peer->mac
    outQueue,     \* peer->outQueue: the text data pointed to when stored
    outQueueLen,  \* peer->outQueueLen
    line,         \* text in the console's command buffer, where data points
    console,      \* the console task: where it is, the index l, a register
    rx,           \* the Wi-Fi task in handleBeacon: where it is, a register
    sent,         \* history: the last queued message given to the radio, or None
    restarts      \* history: number of restarts

timerVars == <<timer, armed, callback>>
peerVars == <<net, mac>>
queueVars == <<outQueue, outQueueLen>>
vars == <<wifi, running, timer, armed, callback, net, mac, outQueue, outQueueLen,
          line, console, rx, sent, restarts>>

Indices == 0..(OutQueueSize - 1)
AtPrompt == [at |-> "prompt", l |-> 0, reg |-> 0]
Waiting == [at |-> "wait", reg |-> 0]

\* The state after app_main: nanStart was called.
Booted(w, r, t, a, cb, n, m, q, len, txt, c, x) ==
    /\ w = TRUE /\ r = TRUE
    /\ t = 1 /\ a = {1} /\ cb = FALSE
    /\ n = None /\ m = None
    /\ q = [i \in Indices |-> None] /\ len = 0
    /\ txt = None
    /\ c = AtPrompt /\ x = Waiting

Init ==
    /\ Booted(wifi, running, timer, armed, callback, net, mac, outQueue,
              outQueueLen, line, console, rx)
    /\ sent = None
    /\ restarts = 0

Restart ==
    /\ restarts < MaxRestarts
    /\ restarts' = restarts + 1
    /\ Booted(wifi', running', timer', armed', callback', net', mac', outQueue',
              outQueueLen', line', console', rx')
    /\ UNCHANGED sent

-----------------------------------------------------------------------------
(* Console task *)

\* A command other than nan; its text replaces the one in the buffer.
OtherCommand ==
    /\ console.at = "prompt"
    /\ line' = None
    /\ UNCHANGED <<wifi, running, timerVars, peerVars, queueVars, console, rx,
                   sent, restarts>>

\* Mutant of NanQueue: the limit is one too high.
NanQueueMutant(m) ==
    /\ console.at = "prompt"
    /\ line' = m
    /\ console' = IF outQueueLen > OutQueueSize THEN console
                  ELSE [at |-> "store", l |-> outQueueLen, reg |-> 0]
    /\ UNCHANGED <<wifi, running, timerVars, peerVars, queueVars, rx, sent,
                   restarts>>

\* nan --send m: nanQueue drops the message when the queue is full.
NanQueue(m) ==
    /\ console.at = "prompt"
    /\ line' = m
    /\ console' = IF outQueueLen >= OutQueueSize THEN console
                  ELSE [at |-> "store", l |-> outQueueLen, reg |-> 0]
    /\ UNCHANGED <<wifi, running, timerVars, peerVars, queueVars, rx, sent,
                   restarts>>

\* The entry is stored, with a pointer to the command buffer.
StoreEntry ==
    /\ console.at = "store"
    /\ outQueue' = [outQueue EXCEPT ![console.l] = line]
    /\ console' = [console EXCEPT !.at = "load"]
    /\ UNCHANGED <<wifi, running, timerVars, peerVars, outQueueLen, line, rx,
                   sent, restarts>>

\* outQueueLen++: the compiler may read it again or use l.
LoadLength ==
    /\ console.at = "load"
    /\ \E v \in {console.l, outQueueLen} :
          console' = [console EXCEPT !.at = "increment", !.reg = v]
    /\ UNCHANGED <<wifi, running, timerVars, peerVars, queueVars, line, rx,
                   sent, restarts>>

StoreLength ==
    /\ console.at = "increment"
    /\ outQueueLen' = console.reg + 1
    /\ console' = AtPrompt
    /\ UNCHANGED <<wifi, running, timerVars, peerVars, outQueue, line, rx, sent,
                   restarts>>

\* nan --stop: esp_wifi_set_promiscuous fails unless Wi-Fi was started.
NanStop ==
    /\ console.at = "prompt"
    /\ \/ /\ wifi
          /\ wifi' = FALSE
          /\ line' = None
          /\ UNCHANGED <<running, timerVars, peerVars, queueVars, console, rx,
                         sent, restarts>>
       \/ ~wifi /\ Restart

\* nan --start: the station interface cannot be created a second time.
NanStart ==
    /\ console.at = "prompt"
    /\ \/ /\ ~wifi /\ timer < MaxStarts
          /\ wifi' = TRUE /\ running' = TRUE
          /\ line' = None
          /\ console' = [console EXCEPT !.at = "create"]
          /\ UNCHANGED <<timerVars, peerVars, queueVars, rx, sent, restarts>>
       \/ wifi /\ Restart

\* nanTimer: a new timer is created, stopped and armed.  Arming a timer that
\* is armed already fails, and the error is ignored.
CreateTimer ==
    /\ console.at = "create"
    /\ timer' = timer + 1
    /\ console' = [console EXCEPT !.at = "stop"]
    /\ UNCHANGED <<wifi, running, armed, callback, peerVars, queueVars, line,
                   rx, sent, restarts>>

StopTimer ==
    /\ console.at = "stop"
    /\ armed' = armed \ {timer}
    /\ console' = [console EXCEPT !.at = "arm"]
    /\ UNCHANGED <<wifi, running, timer, callback, peerVars, queueVars, line,
                   rx, sent, restarts>>

ArmTimer ==
    /\ console.at = "arm"
    /\ armed' = armed \cup {timer}
    /\ console' = AtPrompt
    /\ UNCHANGED <<wifi, running, timer, callback, peerVars, queueVars, line,
                   rx, sent, restarts>>

-----------------------------------------------------------------------------
(* Timer task *)

\* A timer fires once; callbacks run one after another (external).
TimerFires(t) ==
    /\ t \in armed /\ ~callback
    /\ armed' = armed \ {t}
    /\ callback' = TRUE
    /\ UNCHANGED <<wifi, running, timer, peerVars, queueVars, line, console, rx,
                   sent, restarts>>

\* Mutant of TimerCB: the timer is not armed again while Wi-Fi is stopped.
TimerCBMutant ==
    /\ callback
    /\ callback' = FALSE
    /\ armed' = IF running /\ wifi THEN armed \cup {timer} ELSE armed
    /\ UNCHANGED <<wifi, running, timer, peerVars, queueVars, line, console, rx,
                   sent, restarts>>

\* timerCB sends a sync beacon and arms timerOneOff, which may be a later
\* timer than the one that fired, and armed already (an error it ignores).
TimerCB ==
    /\ callback
    /\ callback' = FALSE
    /\ armed' = IF running THEN armed \cup {timer} ELSE armed
    /\ UNCHANGED <<wifi, running, timer, peerVars, queueVars, line, console, rx,
                   sent, restarts>>

-----------------------------------------------------------------------------
(* Wi-Fi task *)

\* A frame of station s is captured while no other is handled.
Captures(s) == wifi /\ rx.at = "wait" /\ net' = Cluster[s]

\* A discovery beacon sets the cluster.
DiscoveryBeacon(s) ==
    /\ Captures(s)
    /\ UNCHANGED <<wifi, running, timerVars, mac, queueVars, line, console, rx,
                   sent, restarts>>

\* Mutant of SyncBeacon: the queue is not checked to be non-empty.
SyncBeaconMutant(s) ==
    /\ Captures(s)
    /\ rx' = [rx EXCEPT !.at = "send"]
    /\ UNCHANGED <<wifi, running, timerVars, mac, queueVars, line, console,
                   sent, restarts>>

\* A sync beacon: a publish is sent, then the queued message, if any.
SyncBeacon(s) ==
    /\ Captures(s)
    /\ rx' = IF outQueueLen > 0 THEN [rx EXCEPT !.at = "send"] ELSE rx
    /\ UNCHANGED <<wifi, running, timerVars, mac, queueVars, line, console,
                   sent, restarts>>

\* nanSendNow(peer->mac, ..., outQueue[0]): what is transmitted is what the
\* pointer refers to now, and nothing if Wi-Fi was stopped meanwhile.
SendQueued ==
    /\ rx.at = "send"
    /\ rx' = [rx EXCEPT !.at = "load"]
    /\ sent' = IF wifi THEN [id |-> outQueue[0], text |-> line,
                              to |-> mac, net |-> net]
               ELSE sent
    /\ UNCHANGED <<wifi, running, timerVars, peerVars, queueVars, line, console,
                   restarts>>

\* outQueueLen--: the entries are not moved.
LoadForDecrement ==
    /\ rx.at = "load"
    /\ rx' = [at |-> "decrement", reg |-> outQueueLen]
    /\ UNCHANGED <<wifi, running, timerVars, peerVars, queueVars, line, console,
                   sent, restarts>>

Decrement ==
    /\ rx.at = "decrement"
    /\ outQueueLen' = rx.reg - 1
    /\ rx' = Waiting
    /\ UNCHANGED <<wifi, running, timerVars, peerVars, outQueue, line, console,
                   sent, restarts>>

\* handleDAF: a service discovery frame with a service descriptor is answered
\* (publish, subscribe) or counted (follow-up).
ServiceFrame(s) ==
    /\ Captures(s)
    /\ mac' = s
    /\ UNCHANGED <<wifi, running, timerVars, queueVars, line, console, rx, sent,
                   restarts>>

\* A follow-up that starts with PING: the answer is put together in resBuf,
\* which is declared const; the write succeeds or restarts the device.
PingFrame(s) == ServiceFrame(s) \/ (wifi /\ rx.at = "wait" /\ Restart)

ConsoleTask ==
    \/ OtherCommand \/ NanStop \/ NanStart
    \/ \E m \in Messages : NanQueue(m)
    \/ StoreEntry \/ LoadLength \/ StoreLength
    \/ CreateTimer \/ StopTimer \/ ArmTimer

TimerTask == TimerCB \/ \E t \in armed : TimerFires(t)

WifiTask ==
    \/ \E s \in Stations : DiscoveryBeacon(s) \/ SyncBeacon(s) \/ PingFrame(s)
    \/ SendQueued \/ LoadForDecrement \/ Decrement

Next == ConsoleTask \/ TimerTask \/ WifiTask

Spec == Init /\ [][Next]_vars

\* Sync beacons keep coming, armed timers fire, and a task that is not
\* waiting for input continues.
Fairness ==
    /\ WF_vars(TimerTask)
    /\ WF_vars(\E s \in Stations : SyncBeacon(s))
    /\ WF_vars(SendQueued \/ LoadForDecrement \/ Decrement)
    /\ WF_vars(StoreEntry \/ LoadLength \/ StoreLength
               \/ CreateTimer \/ StopTimer \/ ArmTimer)

FairSpec == Spec /\ Fairness

-----------------------------------------------------------------------------
(* Properties *)

Follows == [id : Messages \cup {None}, text : Messages \cup {None},
            to : Stations \cup {None}, net : Clusters \cup {None}]

TypeOK ==
    /\ wifi \in BOOLEAN /\ running \in BOOLEAN
    /\ timer \in 1..MaxStarts /\ armed \in SUBSET (1..MaxStarts)
    /\ callback \in BOOLEAN
    /\ net \in Clusters \cup {None} /\ mac \in Stations \cup {None}
    /\ outQueue \in [Indices -> Messages \cup {None}]
    /\ outQueueLen \in Nat
    /\ line \in Messages \cup {None}
    /\ console \in [at : {"prompt", "store", "load", "increment", "create",
                          "stop", "arm"}, l : Nat, reg : Nat]
    /\ rx \in [at : {"wait", "send", "load", "decrement"}, reg : Nat]
    /\ sent \in Follows \cup {None}
    /\ restarts \in 0..MaxRestarts

\* nanQueue never writes past outQueue, however the console and the Wi-Fi task
\* interleave their unlocked updates of outQueueLen.
QueueBounded ==
    /\ outQueueLen \in 0..OutQueueSize
    /\ console.at = "store" => console.l \in Indices

\* handleBeacon never sends an entry of the queue that was not stored: updates
\* of outQueueLen may be lost but the length is never positive too early.
SentWasStored == rx.at = "send" => outQueue[0] # None

\* However timers of earlier starts fire while nanStart creates a new one, a
\* running driver has its current timer armed or is about to arm it: the sync
\* beacons go on.
TimerAlive ==
    running /\ console.at \notin {"create", "stop", "arm"}
        => timer \in armed \/ callback

\* "Will be sent in the next window for the peer's cluster": a message accepted
\* by nanQueue is sent to the peer with the text that was queued and with the
\* cluster of that peer, if the device does not restart and Wi-Fi stays on.
QueuedIsSent ==
    \A m \in Messages :
        (\E i \in Indices : i < outQueueLen /\ outQueue[i] = m)
            ~> \/ /\ sent # None /\ sent.id = m /\ sent.text = m
                  /\ sent.to # None => sent.net = Cluster[sent.to]
               \/ restarts > 0 \/ ~wifi
=============================================================================
