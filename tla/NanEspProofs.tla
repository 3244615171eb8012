---------------------------- MODULE NanEspProofs ----------------------------
(***************************************************************************)
(* Proofs about the NAN driver of the ESP32: for every queue size, set of  *)
(* stations and messages, and every interleaving of the three tasks.       *)
(***************************************************************************)
EXTENDS NanEsp, TLAPS

\* The console task inside nanQueue.
Queueing == console.at \in {"store", "load", "increment"}

\* The console task saw room in the queue, and the Wi-Fi task can only have
\* made more; the Wi-Fi task saw an entry, and the console can only have added.
Lengths ==
    /\ outQueueLen <= OutQueueSize
    /\ Queueing => /\ outQueueLen < OutQueueSize
                   /\ console.l < OutQueueSize /\ console.reg < OutQueueSize
    /\ rx.at \in {"send", "load"} => outQueueLen >= 1
    /\ rx.at = "decrement" => rx.reg >= 1 /\ rx.reg <= OutQueueSize

\* Once the first entry was stored it stays; no task counts on it before.
FirstStored ==
    \/ outQueueLen > 0
    \/ rx.at # "wait"
    \/ console.at \in {"load", "increment"}
    \/ console.at = "store" /\ console.l > 0
    => outQueue[0] # None

\* The command buffer keeps its text while nanQueue runs, and nanStart found
\* a timer handle left.
InCommand ==
    /\ console.at = "store" => line \in Messages
    /\ console.at = "create" => timer < MaxStarts

IInv == TypeOK /\ Lengths /\ FirstStored /\ InCommand /\ TimerAlive

ConsoleType == [at : {"prompt", "store", "load", "increment", "create", "stop",
                      "arm"}, l : Nat, reg : Nat]
RxType == [at : {"wait", "send", "load", "decrement"}, reg : Nat]

-----------------------------------------------------------------------------
\* Entry 0 is in the queue, and so is every index below its size.
LEMMA IndexFacts ==
    /\ 0 \in Indices
    /\ \A i \in Nat : i < OutQueueSize => i \in Indices
BY NanAssumption DEF NanAssumption, Indices

\* The values the two task records take.
LEMMA RecordFacts ==
    /\ AtPrompt \in ConsoleType /\ AtPrompt.at = "prompt"
    /\ Waiting \in RxType /\ Waiting.at = "wait"
    /\ \A c \in ConsoleType : c.l \in Nat /\ c.reg \in Nat
    /\ \A x \in RxType : x.reg \in Nat
BY DEF AtPrompt, Waiting, ConsoleType, RxType

\* The state after a boot satisfies the invariant.
LEMMA BootedInv ==
    ASSUME wifi = TRUE, running = TRUE, timer = 1, armed = {1}, callback = FALSE,
           net = None, mac = None, outQueue = [i \in Indices |-> None],
           outQueueLen = 0, line = None, console = AtPrompt, rx = Waiting,
           sent \in Follows \cup {None}, restarts \in 0..MaxRestarts
    PROVE  IInv
<1>1. AtPrompt \in ConsoleType /\ Waiting \in RxType
      /\ AtPrompt.at = "prompt" /\ Waiting.at = "wait"
  BY RecordFacts
<1>2. 1 \in 1..MaxStarts
  BY NanAssumption DEF NanAssumption
<1>3. TypeOK
  BY <1>1, <1>2 DEF TypeOK, ConsoleType, RxType
<1>4. Lengths /\ FirstStored /\ InCommand /\ TimerAlive
  BY <1>1, NanAssumption
     DEF NanAssumption, Lengths, Queueing, FirstStored, InCommand, TimerAlive
<1> QED
  BY <1>3, <1>4 DEF IInv

\* A restart begins again.
LEMMA RestartInv == IInv /\ Restart => IInv'
<1> SUFFICES ASSUME IInv, Restart
             PROVE  IInv'
  OBVIOUS
<1>1. AtPrompt \in ConsoleType /\ Waiting \in RxType
      /\ AtPrompt.at = "prompt" /\ Waiting.at = "wait"
  BY RecordFacts
<1>2. 1 \in 1..MaxStarts
  BY NanAssumption DEF NanAssumption
<1>3. /\ wifi' = TRUE /\ running' = TRUE /\ timer' = 1 /\ armed' = {1}
      /\ callback' = FALSE /\ net' = None /\ mac' = None
      /\ outQueue' = [i \in Indices |-> None] /\ outQueueLen' = 0
      /\ line' = None /\ console' = AtPrompt /\ rx' = Waiting
  BY DEF Restart, Booted
<1>4. sent' \in Follows \cup {None} /\ restarts' \in 0..MaxRestarts
  BY NanAssumption DEF Restart, IInv, TypeOK, NanAssumption
<1>5. TypeOK'
  BY <1>1, <1>2, <1>3, <1>4 DEF TypeOK, ConsoleType, RxType
<1>6. Lengths' /\ FirstStored' /\ InCommand' /\ TimerAlive'
  BY <1>1, <1>3, NanAssumption
     DEF NanAssumption, Lengths, Queueing, FirstStored, InCommand, TimerAlive
<1> QED
  BY <1>5, <1>6 DEF IInv

-----------------------------------------------------------------------------
\* The console task.
LEMMA ConsoleStep == IInv /\ ConsoleTask => IInv'
<1> SUFFICES ASSUME IInv, ConsoleTask
             PROVE  IInv'
  OBVIOUS
<1> USE DEF timerVars, peerVars, queueVars
<1>0. console \in ConsoleType /\ rx \in RxType /\ outQueueLen \in Nat
      /\ OutQueueSize \in Nat \ {0}
  BY NanAssumption DEF NanAssumption, IInv, TypeOK, ConsoleType, RxType
<1>1. CASE OtherCommand
  <2>1. TypeOK'
    BY <1>1 DEF OtherCommand, IInv, TypeOK
  <2>2. Lengths' /\ FirstStored' /\ InCommand' /\ TimerAlive'
    BY <1>1 DEF OtherCommand, IInv, Lengths, Queueing, FirstStored, InCommand,
                TimerAlive
  <2> QED
    BY <2>1, <2>2 DEF IInv
<1>2. ASSUME NEW m \in Messages, NanQueue(m)
      PROVE  IInv'
  <2>1. CASE outQueueLen >= OutQueueSize
    <3>1. console' = console /\ line' = m /\ console.at = "prompt"
          /\ UNCHANGED <<wifi, running, timer, armed, callback, net, mac,
                         outQueue, outQueueLen, rx, sent, restarts>>
      BY <1>2, <2>1 DEF NanQueue
    <3>2. TypeOK'
      BY <3>1 DEF IInv, TypeOK
    <3>3. Lengths' /\ FirstStored' /\ InCommand' /\ TimerAlive'
      BY <3>1 DEF IInv, Lengths, Queueing, FirstStored, InCommand, TimerAlive
    <3> QED
      BY <3>2, <3>3 DEF IInv
  <2>2. CASE ~(outQueueLen >= OutQueueSize)
    <3>1. console' = [at |-> "store", l |-> outQueueLen, reg |-> 0]
          /\ line' = m /\ console.at = "prompt"
          /\ UNCHANGED <<wifi, running, timer, armed, callback, net, mac,
                         outQueue, outQueueLen, rx, sent, restarts>>
      BY <1>2, <2>2 DEF NanQueue
    <3>2. console' \in ConsoleType /\ console'.at = "store"
          /\ console'.l = outQueueLen /\ console'.reg = 0
      BY <1>0, <3>1 DEF ConsoleType
    <3>3. TypeOK'
      BY <3>1, <3>2 DEF IInv, TypeOK, ConsoleType
    <3>4. Lengths'
      BY <1>0, <2>2, <3>1, <3>2 DEF IInv, Lengths
    <3>5. FirstStored' /\ InCommand' /\ TimerAlive'
      BY <1>0, <3>1, <3>2 DEF IInv, FirstStored, InCommand, TimerAlive
    <3> QED
      BY <3>3, <3>4, <3>5 DEF IInv
  <2> QED
    BY <2>1, <2>2
<1>3. CASE StoreEntry
  <2>1. console.at = "store" /\ line \in Messages /\ console.l \in Indices
    BY <1>0, <1>3, IndexFacts, RecordFacts DEF StoreEntry, IInv, InCommand,
       Lengths, Queueing
  <2>2. console' \in ConsoleType /\ console'.at = "load"
        /\ console'.l = console.l /\ console'.reg = console.reg
    BY <1>0, <1>3 DEF StoreEntry, ConsoleType
  <2>3. outQueue' = [outQueue EXCEPT ![console.l] = line]
        /\ UNCHANGED <<wifi, running, timer, armed, callback, net, mac,
                       outQueueLen, line, rx, sent, restarts>>
    BY <1>3 DEF StoreEntry
  <2>4. outQueue' \in [Indices -> Messages \cup {None}]
    BY <2>1, <2>3 DEF IInv, TypeOK
  <2>5. TypeOK'
    BY <2>2, <2>3, <2>4 DEF IInv, TypeOK, ConsoleType
  <2>6. Lengths'
    BY <2>1, <2>2, <2>3 DEF IInv, Lengths, Queueing
  <2>7. outQueue'[0] # None
    <3>1. outQueue \in [Indices -> Messages \cup {None}] /\ None \notin Messages
          /\ line # None
      BY <2>1, NanAssumption DEF NanAssumption, IInv, TypeOK
    <3>2. CASE console.l = 0
      BY <2>1, <2>3, <3>1, <3>2
    <3>3. CASE console.l > 0
      BY <2>1, <2>3, <3>1, <3>3, IndexFacts DEF IInv, FirstStored
    <3> QED
      BY <1>0, <3>2, <3>3, RecordFacts
  <2>8. FirstStored' /\ InCommand' /\ TimerAlive'
    BY <2>1, <2>2, <2>3, <2>7 DEF IInv, FirstStored, InCommand, TimerAlive
  <2> QED
    BY <2>5, <2>6, <2>8 DEF IInv
<1>4. CASE LoadLength
  <2>1. PICK v \in {console.l, outQueueLen} :
           console' = [console EXCEPT !.at = "increment", !.reg = v]
    BY <1>4 DEF LoadLength
  <2>2. console.at = "load" /\ v \in Nat /\ v < OutQueueSize
    BY <1>0, <1>4, RecordFacts DEF LoadLength, IInv, Lengths, Queueing
  <2>3. console' \in ConsoleType /\ console'.at = "increment"
        /\ console'.l = console.l /\ console'.reg = v
    BY <1>0, <2>1, <2>2 DEF ConsoleType
  <2>4. UNCHANGED <<wifi, running, timer, armed, callback, net, mac, outQueue,
                    outQueueLen, line, rx, sent, restarts>>
    BY <1>4 DEF LoadLength
  <2>5. TypeOK'
    BY <2>3, <2>4 DEF IInv, TypeOK, ConsoleType
  <2>6. Lengths'
    BY <2>2, <2>3, <2>4 DEF IInv, Lengths, Queueing
  <2>7. FirstStored' /\ InCommand' /\ TimerAlive'
    BY <2>2, <2>3, <2>4 DEF IInv, FirstStored, InCommand, TimerAlive
  <2> QED
    BY <2>5, <2>6, <2>7 DEF IInv
<1>5. CASE StoreLength
  <2>1. console.at = "increment" /\ outQueueLen' = console.reg + 1
        /\ console' = AtPrompt
        /\ UNCHANGED <<wifi, running, timer, armed, callback, net, mac,
                       outQueue, line, rx, sent, restarts>>
    BY <1>5 DEF StoreLength
  <2>2. console.reg \in Nat /\ console.reg < OutQueueSize
    BY <1>0, <2>1, RecordFacts DEF IInv, Lengths, Queueing
  <2>3. console' \in ConsoleType /\ console'.at = "prompt"
    BY <2>1, RecordFacts
  <2>4. outQueueLen' \in Nat /\ outQueueLen' >= 1 /\ outQueueLen' <= OutQueueSize
    BY <1>0, <2>1, <2>2
  <2>5. TypeOK'
    BY <2>1, <2>3, <2>4 DEF IInv, TypeOK, ConsoleType
  <2>6. Lengths'
    BY <2>1, <2>3, <2>4 DEF IInv, Lengths, Queueing
  <2>7. FirstStored' /\ InCommand' /\ TimerAlive'
    BY <2>1, <2>3 DEF IInv, FirstStored, InCommand, TimerAlive
  <2> QED
    BY <2>5, <2>6, <2>7 DEF IInv
<1>6. CASE NanStop
  <2>1. CASE Restart
    BY <2>1, RestartInv
  <2>2. CASE ~Restart
    <3>1. console.at = "prompt" /\ wifi' = FALSE /\ line' = None
          /\ UNCHANGED <<running, timer, armed, callback, net, mac, outQueue,
                         outQueueLen, console, rx, sent, restarts>>
      BY <1>6, <2>2 DEF NanStop
    <3>2. TypeOK'
      BY <3>1 DEF IInv, TypeOK
    <3>3. Lengths' /\ FirstStored' /\ InCommand' /\ TimerAlive'
      BY <3>1 DEF IInv, Lengths, Queueing, FirstStored, InCommand, TimerAlive
    <3> QED
      BY <3>2, <3>3 DEF IInv
  <2> QED
    BY <2>1, <2>2
<1>7. CASE NanStart
  <2>1. CASE Restart
    BY <2>1, RestartInv
  <2>2. CASE ~Restart
    <3>1. console.at = "prompt" /\ timer < MaxStarts
          /\ wifi' = TRUE /\ running' = TRUE /\ line' = None
          /\ console' = [console EXCEPT !.at = "create"]
          /\ UNCHANGED <<timer, armed, callback, net, mac, outQueue,
                         outQueueLen, rx, sent, restarts>>
      BY <1>7, <2>2 DEF NanStart
    <3>2. console' \in ConsoleType /\ console'.at = "create"
      BY <1>0, <3>1 DEF ConsoleType
    <3>3. TypeOK'
      BY <3>1, <3>2 DEF IInv, TypeOK, ConsoleType
    <3>4. Lengths' /\ FirstStored' /\ InCommand' /\ TimerAlive'
      BY <3>1, <3>2 DEF IInv, Lengths, Queueing, FirstStored, InCommand,
                        TimerAlive
    <3> QED
      BY <3>3, <3>4 DEF IInv
  <2> QED
    BY <2>1, <2>2
<1>8. CASE CreateTimer
  <2>1. console.at = "create" /\ timer' = timer + 1
        /\ console' = [console EXCEPT !.at = "stop"]
        /\ UNCHANGED <<wifi, running, armed, callback, net, mac, outQueue,
                       outQueueLen, line, rx, sent, restarts>>
    BY <1>8 DEF CreateTimer
  <2>2. timer' \in 1..MaxStarts
    BY <2>1, NanAssumption DEF NanAssumption, IInv, TypeOK, InCommand
  <2>3. console' \in ConsoleType /\ console'.at = "stop"
    BY <1>0, <2>1 DEF ConsoleType
  <2>4. TypeOK'
    BY <2>1, <2>2, <2>3 DEF IInv, TypeOK, ConsoleType
  <2>5. Lengths' /\ FirstStored' /\ InCommand' /\ TimerAlive'
    BY <2>1, <2>3 DEF IInv, Lengths, Queueing, FirstStored, InCommand, TimerAlive
  <2> QED
    BY <2>4, <2>5 DEF IInv
<1>9. CASE StopTimer
  <2>1. console.at = "stop" /\ armed' = armed \ {timer}
        /\ console' = [console EXCEPT !.at = "arm"]
        /\ UNCHANGED <<wifi, running, timer, callback, net, mac, outQueue,
                       outQueueLen, line, rx, sent, restarts>>
    BY <1>9 DEF StopTimer
  <2>2. console' \in ConsoleType /\ console'.at = "arm"
    BY <1>0, <2>1 DEF ConsoleType
  <2>3. armed' \in SUBSET (1..MaxStarts)
    BY <2>1 DEF IInv, TypeOK
  <2>4. TypeOK'
    BY <2>1, <2>2, <2>3 DEF IInv, TypeOK, ConsoleType
  <2>5. Lengths' /\ FirstStored' /\ InCommand' /\ TimerAlive'
    BY <2>1, <2>2 DEF IInv, Lengths, Queueing, FirstStored, InCommand, TimerAlive
  <2> QED
    BY <2>4, <2>5 DEF IInv
<1>10. CASE ArmTimer
  <2>1. console.at = "arm" /\ armed' = armed \cup {timer}
        /\ console' = AtPrompt
        /\ UNCHANGED <<wifi, running, timer, callback, net, mac, outQueue,
                       outQueueLen, line, rx, sent, restarts>>
    BY <1>10 DEF ArmTimer
  <2>2. console' \in ConsoleType /\ console'.at = "prompt"
    BY <2>1, RecordFacts
  <2>3. armed' \in SUBSET (1..MaxStarts)
    BY <2>1 DEF IInv, TypeOK
  <2>4. TypeOK'
    BY <2>1, <2>2, <2>3 DEF IInv, TypeOK, ConsoleType
  <2>5. Lengths' /\ FirstStored' /\ InCommand' /\ TimerAlive'
    BY <2>1, <2>2 DEF IInv, Lengths, Queueing, FirstStored, InCommand, TimerAlive
  <2> QED
    BY <2>4, <2>5 DEF IInv
<1> QED
  BY <1>1, <1>2, <1>3, <1>4, <1>5, <1>6, <1>7, <1>8, <1>9, <1>10 DEF ConsoleTask

-----------------------------------------------------------------------------
\* The timer task.
LEMMA TimerStep == IInv /\ TimerTask => IInv'
<1> SUFFICES ASSUME IInv, TimerTask
             PROVE  IInv'
  OBVIOUS
<1>1. UNCHANGED <<wifi, running, timer, net, mac, outQueue, outQueueLen, line,
                  console, rx, sent, restarts>>
  BY DEF TimerTask, TimerCB, TimerFires, peerVars, queueVars
<1>2. armed' \in SUBSET (1..MaxStarts) /\ callback' \in BOOLEAN
  BY DEF TimerTask, TimerCB, TimerFires, IInv, TypeOK
<1>3. TypeOK'
  BY <1>1, <1>2 DEF IInv, TypeOK
<1>4. Lengths' /\ FirstStored' /\ InCommand'
  BY <1>1 DEF IInv, Lengths, Queueing, FirstStored, InCommand
<1>5. running => timer \in armed' \/ callback'
  BY DEF TimerTask, TimerCB, TimerFires
<1>6. TimerAlive'
  BY <1>1, <1>5 DEF TimerAlive
<1> QED
  BY <1>3, <1>4, <1>6 DEF IInv

\* The Wi-Fi task.
LEMMA WifiStep == IInv /\ WifiTask => IInv'
<1> SUFFICES ASSUME IInv, WifiTask
             PROVE  IInv'
  OBVIOUS
<1> USE DEF timerVars, peerVars, queueVars
<1>0. console \in ConsoleType /\ rx \in RxType /\ outQueueLen \in Nat
      /\ OutQueueSize \in Nat \ {0}
  BY NanAssumption DEF NanAssumption, IInv, TypeOK, ConsoleType, RxType
<1>1. ASSUME NEW s \in Stations, DiscoveryBeacon(s)
      PROVE  IInv'
  <2>1. net' \in Clusters
    BY <1>1 DEF DiscoveryBeacon, Captures, Clusters
  <2>2. TypeOK'
    BY <1>1, <2>1 DEF DiscoveryBeacon, IInv, TypeOK
  <2>3. Lengths' /\ FirstStored' /\ InCommand' /\ TimerAlive'
    BY <1>1 DEF DiscoveryBeacon, IInv, Lengths, Queueing, FirstStored,
                InCommand, TimerAlive
  <2> QED
    BY <2>2, <2>3 DEF IInv
<1>2. ASSUME NEW s \in Stations, SyncBeacon(s)
      PROVE  IInv'
  <2>1. net' \in Clusters /\ rx.at = "wait"
    BY <1>2 DEF SyncBeacon, Captures, Clusters
  <2>2. UNCHANGED <<wifi, running, timer, armed, callback, mac, outQueue,
                    outQueueLen, line, console, sent, restarts>>
    BY <1>2 DEF SyncBeacon
  <2>3. rx' \in RxType /\ (rx' = rx \/ (rx'.at = "send" /\ outQueueLen > 0))
    BY <1>0, <1>2 DEF SyncBeacon, RxType
  <2>4. TypeOK'
    BY <2>1, <2>2, <2>3 DEF IInv, TypeOK, RxType
  <2>5. Lengths'
    BY <1>0, <2>1, <2>2, <2>3 DEF IInv, Lengths, Queueing
  <2>6. FirstStored' /\ InCommand' /\ TimerAlive'
    BY <2>1, <2>2, <2>3 DEF IInv, FirstStored, InCommand, TimerAlive
  <2> QED
    BY <2>4, <2>5, <2>6 DEF IInv
<1>3. ASSUME NEW s \in Stations, PingFrame(s)
      PROVE  IInv'
  <2>1. CASE Restart
    BY <2>1, RestartInv
  <2>2. CASE ServiceFrame(s)
    <3>1. net' \in Clusters
      BY <2>2 DEF ServiceFrame, Captures, Clusters
    <3>2. TypeOK'
      BY <2>2, <3>1 DEF ServiceFrame, IInv, TypeOK
    <3>3. Lengths' /\ FirstStored' /\ InCommand' /\ TimerAlive'
      BY <2>2 DEF ServiceFrame, IInv, Lengths, Queueing, FirstStored,
                  InCommand, TimerAlive
    <3> QED
      BY <3>2, <3>3 DEF IInv
  <2> QED
    BY <1>3, <2>1, <2>2 DEF PingFrame
<1>4. CASE SendQueued
  <2>1. rx.at = "send" /\ rx' \in RxType /\ rx'.at = "load"
    BY <1>0, <1>4 DEF SendQueued, RxType
  <2>2. UNCHANGED <<wifi, running, timer, armed, callback, net, mac, outQueue,
                    outQueueLen, line, console, restarts>>
    BY <1>4 DEF SendQueued
  <2>3. outQueue[0] \in Messages \cup {None} /\ line \in Messages \cup {None}
        /\ mac \in Stations \cup {None} /\ net \in Clusters \cup {None}
    BY IndexFacts DEF IInv, TypeOK
  <2>4. [id |-> outQueue[0], text |-> line, to |-> mac, net |-> net] \in Follows
    BY <2>3 DEF Follows
  <2>5. sent' \in Follows \cup {None}
    BY <1>4, <2>4 DEF SendQueued, IInv, TypeOK
  <2>6. TypeOK'
    BY <2>1, <2>2, <2>5 DEF IInv, TypeOK, RxType
  <2>7. Lengths' /\ FirstStored' /\ InCommand' /\ TimerAlive'
    BY <2>1, <2>2 DEF IInv, Lengths, Queueing, FirstStored, InCommand, TimerAlive
  <2> QED
    BY <2>6, <2>7 DEF IInv
<1>5. CASE LoadForDecrement
  <2>1. rx.at = "load" /\ rx' = [at |-> "decrement", reg |-> outQueueLen]
        /\ UNCHANGED <<wifi, running, timer, armed, callback, net, mac, outQueue,
                       outQueueLen, line, console, sent, restarts>>
    BY <1>5 DEF LoadForDecrement
  <2>2. rx' \in RxType /\ rx'.at = "decrement" /\ rx'.reg = outQueueLen
    BY <1>0, <2>1 DEF RxType
  <2>3. TypeOK'
    BY <2>1, <2>2 DEF IInv, TypeOK, RxType
  <2>4. Lengths'
    BY <2>1, <2>2 DEF IInv, Lengths, Queueing
  <2>5. FirstStored' /\ InCommand' /\ TimerAlive'
    BY <2>1, <2>2 DEF IInv, FirstStored, InCommand, TimerAlive
  <2> QED
    BY <2>3, <2>4, <2>5 DEF IInv
<1>6. CASE Decrement
  <2>1. rx.at = "decrement" /\ outQueueLen' = rx.reg - 1 /\ rx' = Waiting
        /\ UNCHANGED <<wifi, running, timer, armed, callback, net, mac, outQueue,
                       line, console, sent, restarts>>
    BY <1>6 DEF Decrement
  <2>2. rx.reg \in Nat /\ rx.reg >= 1 /\ rx.reg <= OutQueueSize
    BY <1>0, <2>1, RecordFacts DEF IInv, Lengths
  <2>3. outQueueLen' \in Nat /\ outQueueLen' < OutQueueSize
    BY <1>0, <2>1, <2>2
  <2>4. rx' \in RxType /\ rx'.at = "wait"
    BY <2>1, RecordFacts
  <2>5. TypeOK'
    BY <2>1, <2>3, <2>4 DEF IInv, TypeOK, RxType
  <2>6. Lengths'
    BY <1>0, <2>1, <2>3, <2>4 DEF IInv, Lengths, Queueing
  <2>7. FirstStored' /\ InCommand' /\ TimerAlive'
    BY <2>1, <2>4 DEF IInv, FirstStored, InCommand, TimerAlive
  <2> QED
    BY <2>5, <2>6, <2>7 DEF IInv
<1> QED
  BY <1>1, <1>2, <1>3, <1>4, <1>5, <1>6 DEF WifiTask

-----------------------------------------------------------------------------
\* Initially.
LEMMA IInvInit == Init => IInv
<1> SUFFICES ASSUME Init
             PROVE  IInv
  OBVIOUS
<1>1. sent \in Follows \cup {None} /\ restarts \in 0..MaxRestarts
  BY NanAssumption DEF Init, NanAssumption
<1> QED
  BY <1>1, BootedInv DEF Init, Booted

\* A step of any task.
LEMMA IInvNext == IInv /\ [Next]_vars => IInv'
<1>1. IInv /\ UNCHANGED vars => IInv'
  BY DEF vars, IInv, TypeOK, Lengths, Queueing, FirstStored, InCommand, TimerAlive
<1> QED
  BY <1>1, ConsoleStep, TimerStep, WifiStep DEF Next

\* In every reachable state.
LEMMA IInvHolds == Spec => []IInv
BY IInvInit, IInvNext, PTL DEF Spec

\* The driver's state stays well formed; the length is never negative.
THEOREM TypeCorrect == Spec => []TypeOK
<1>1. IInv => TypeOK
  BY DEF IInv
<1> QED
  BY <1>1, IInvHolds, PTL

\* nanQueue never writes past the queue, whatever the size of the queue and
\* however the unlocked updates of outQueueLen interleave.
THEOREM QueueBoundedHolds == Spec => []QueueBounded
<1>1. IInv => QueueBounded
  <2> SUFFICES ASSUME IInv
               PROVE  QueueBounded
    OBVIOUS
  <2>1. outQueueLen \in Nat /\ console \in ConsoleType /\ OutQueueSize \in Nat
    BY NanAssumption DEF NanAssumption, IInv, TypeOK, ConsoleType
  <2> QED
    BY <2>1, IndexFacts, RecordFacts DEF IInv, Lengths, Queueing, QueueBounded
<1> QED
  BY <1>1, IInvHolds, PTL

\* handleBeacon sends only an entry that nanQueue has stored.
THEOREM SentWasStoredHolds == Spec => []SentWasStored
<1>1. IInv => SentWasStored
  BY DEF IInv, FirstStored, SentWasStored
<1> QED
  BY <1>1, IInvHolds, PTL

\* Timers of earlier starts never leave a running driver without a timer.
THEOREM TimerAliveHolds == Spec => []TimerAlive
<1>1. IInv => TimerAlive
  BY DEF IInv
<1> QED
  BY <1>1, IInvHolds, PTL
=============================================================================
