--------------------------- MODULE LoraRadioProofs ---------------------------
(***************************************************************************)
(* Proofs about LoraRadio: the state stays well formed, and each received  *)
(* packet is announced by exactly one event, for every length of the queue *)
(* and number of bands.                                                    *)
(***************************************************************************)
EXTENDS LoraRadio, TLAPS

\* What the reader is about to clear includes RxDone.
ClearsRx == at["reader"] = "clear" => "rx" \in irq

IInv == TypeOK /\ EventPerPacket /\ ClearsRx

-----------------------------------------------------------------------------
\* A step of a task other than the reader that leaves the interrupt alone.
LEMMA OthersMove ==
    ASSUME IInv, NEW t \in Tasks \ {"reader"}, NEW p, Go(t, p),
           PlaceType', UNCHANGED <<rcvQ, irq, beaconBand>>,
           "rx" \in flags' <=> "rx" \in flags,
           flags' \subseteq {"rx", "tx", "crc"},
           opMode' \in {"sleep", "stdby", "tx", "rx"},
           beaconReceive' \in BOOLEAN, dataReceive' \in BOOLEAN
    PROVE  IInv'
<1>1. at'["reader"] = at["reader"]
  BY DEF IInv, TypeOK, PlaceType, Go, Tasks
<1>2. TypeOK'
  BY <1>1 DEF IInv, TypeOK
<1>3. EventPerPacket' /\ ClearsRx'
  BY <1>1 DEF IInv, EventPerPacket, ClearsRx, Answering
<1>4. QED
  BY <1>2, <1>3 DEF IInv

\* A task moves to a place of its own.
LEMMA PlaceKept ==
    ASSUME PlaceType, NEW t \in Tasks, NEW p, Go(t, p),
           \/ p \in SharedPlaces
           \/ t \in Senders /\ p \in SendPlaces
           \/ t = "lora_task" /\ p \in PingPlaces
           \/ t = "reader" /\ p \in ReadPlaces
    PROVE  PlaceType' /\ at'[t] = p /\ (t # "reader" => at'["reader"] = at["reader"])
<1>1. Tasks = {"lora_task", "bt", "reader", "console"}
  BY DEF Tasks, Senders
<1>2. p \in SharedPlaces \cup SendPlaces \cup PingPlaces \cup ReadPlaces
  OBVIOUS
<1>3. at' \in [Tasks -> SharedPlaces \cup SendPlaces \cup PingPlaces \cup ReadPlaces]
  BY <1>2 DEF PlaceType, Go
<1>4. \A u \in Tasks : at'[u] = IF u = t THEN p ELSE at[u]
  BY DEF PlaceType, Go
<1>5. QED
  BY <1>1, <1>3, <1>4 DEF PlaceType, Senders

\* The state register_lora leaves.
LEMMA Initially == Init => IInv
<1>1. SUFFICES ASSUME Init PROVE IInv
  OBVIOUS
<1>2. PICK m \in LoraModes :
          /\ opMode = IF m \in {1, 2} THEN "rx" ELSE "stdby"
          /\ beaconReceive = (m = 1)
          /\ dataReceive = (m = 2)
          /\ beaconBand = 0
          /\ flags = {} /\ irq = {}
          /\ rcvQ = 0
          /\ at = [t \in Tasks |-> IF t = "lora_task" /\ m <= 2
                                      THEN "absent" ELSE "ready"]
  BY <1>1 DEF Init
<1>3. PlaceType
  BY <1>2 DEF PlaceType, SharedPlaces, PingPlaces, Tasks, Senders
<1>4. at["reader"] = "ready"
  BY <1>2 DEF Tasks, Senders
<1>5. beaconReceive \in BOOLEAN /\ dataReceive \in BOOLEAN
  BY <1>2, Zenon
<1>6. beaconBand \in 0..(Bands - 1) /\ rcvQ \in 0..RcvQSize
  BY <1>2, LoraAssumption DEF LoraAssumption
<1>7. TypeOK
  BY <1>2, <1>3, <1>5, <1>6 DEF TypeOK
<1>8. EventPerPacket /\ ClearsRx
  BY <1>2, <1>4 DEF EventPerPacket, Answering, ClearsRx
<1>9. QED
  BY <1>7, <1>8 DEF IInv

\* The radio receives a packet or ends a transmission.
LEMMA RadioSteps ==
    ASSUME IInv, RxDone \/ TxDone
    PROVE  IInv'
<1>1. CASE RxDone
  <2>1. UNCHANGED <<opMode, beaconReceive, dataReceive, beaconBand, irq, at>>
    BY <1>1 DEF RxDone, driverVars
  <2>2. "rx" \in flags' /\ flags' \subseteq {"rx", "tx", "crc"}
    BY <1>1 DEF RxDone, IInv, TypeOK
  <2>3. rcvQ' = IF Answering THEN 0 ELSE 1
    BY <1>1, LoraAssumption
       DEF RxDone, IInv, TypeOK, EventPerPacket, Answering, LoraAssumption
  <2>4. rcvQ' \in 0..RcvQSize
    BY <2>3, LoraAssumption DEF LoraAssumption
  <2>5. TypeOK'
    BY <2>1, <2>2, <2>4 DEF IInv, TypeOK, PlaceType
  <2>6. EventPerPacket' /\ ClearsRx'
    BY <2>1, <2>2, <2>3 DEF IInv, EventPerPacket, Answering, ClearsRx
  <2>7. QED
    BY <2>5, <2>6 DEF IInv
<1>2. CASE TxDone
  <2>1. UNCHANGED <<rcvQ, beaconReceive, dataReceive, beaconBand, irq, at>>
    BY <1>2 DEF TxDone, driverVars
  <2>2. opMode' = "stdby" /\ flags' = flags \cup {"tx"}
    BY <1>2 DEF TxDone
  <2>3. TypeOK'
    BY <2>1, <2>2 DEF IInv, TypeOK, PlaceType
  <2>4. EventPerPacket' /\ ClearsRx'
    BY <2>1, <2>2 DEF IInv, EventPerPacket, Answering, ClearsRx
  <2>5. QED
    BY <2>3, <2>4 DEF IInv
<1>3. QED
  BY <1>1, <1>2

\* A sender clears TX_DONE only, and changes the mode of the radio.
LEMMA SendSteps ==
    ASSUME IInv, NEW t \in Senders, LoraSend(t) \/ Sending(t)
    PROVE  IInv'
<1>0. t \in Tasks \ {"reader"} /\ (t = "lora_task" \/ t = "bt")
  BY DEF Tasks, Senders
<1>1. PICK p \in SharedPlaces \cup SendPlaces \cup PingPlaces :
          /\ Go(t, p)
          /\ p \in PingPlaces => t = "lora_task"
          /\ p \in {"ready", "beacon"} \cup SendPlaces \cup {"listen", "listen data"}
  <2>1. CASE LoraSend(t)
    BY <2>1 DEF LoraSend, SendPlaces, SharedPlaces, PingPlaces
  <2>2. CASE Fill(t) \/ Transmit(t) \/ Poll(t)
    BY <2>2 DEF Fill, Transmit, Poll, SendPlaces, SharedPlaces, PingPlaces
  <2>3. CASE Sent(t)
    BY <2>3 DEF Sent, SendPlaces, SharedPlaces, PingPlaces
  <2>4. CASE Listen(t)
    <3>1. t = "lora_task"
      BY <1>0, <2>4 DEF Listen, IInv, TypeOK, PlaceType, SharedPlaces, SendPlaces
    <3>2. QED
      BY <2>4, <3>1 DEF Listen, SendPlaces, SharedPlaces, PingPlaces
  <2>5. QED
    BY <2>1, <2>2, <2>3, <2>4 DEF Sending
<1>2. PlaceType'
  BY <1>0, <1>1, PlaceKept DEF IInv, TypeOK
<1>3. /\ UNCHANGED <<rcvQ, irq, beaconReceive, dataReceive, beaconBand>>
      /\ opMode' \in {opMode, "stdby", "tx"}
      /\ flags' \in {flags, flags \ {"tx"}}
  BY DEF LoraSend, Sending, Fill, Transmit, Poll, Sent, Listen, driverVars, radioVars
<1>4. QED
  BY <1>0, <1>1, <1>2, <1>3, OthersMove DEF IInv, TypeOK

\* The console starts a reception or puts the radio to sleep.
LEMMA ConsoleStep ==
    ASSUME IInv, Console
    PROVE  IInv'
<1>1. UNCHANGED <<flags, rcvQ, irq, beaconReceive, dataReceive, beaconBand>>
  BY DEF Console, driverVars
<1>2. CASE opMode' = "sleep" /\ UNCHANGED at
  BY <1>1, <1>2
     DEF IInv, TypeOK, PlaceType, EventPerPacket, Answering, ClearsRx
<1>3. CASE \E p \in {"beacon", "upstream"} : Go("console", p) /\ UNCHANGED opMode
  <2>1. PICK p \in {"beacon", "upstream"} : Go("console", p) /\ UNCHANGED opMode
    BY <1>3
  <2>2. "console" \in Tasks \ {"reader"} /\ p \in SharedPlaces
    BY DEF Tasks, SharedPlaces
  <2>3. PlaceType'
    BY <2>1, <2>2, PlaceKept DEF IInv, TypeOK
  <2>4. QED
    BY <1>1, <2>1, <2>2, <2>3, OthersMove DEF IInv, TypeOK
<1>4. QED
  BY <1>2, <1>3 DEF Console

\* The steps of lora_receive_beacon and lora_receive_upstream.
LEMMA ReceiveSteps ==
    ASSUME IInv, NEW t \in Tasks, Receiving(t)
    PROVE  IInv'
<1>1. PICK p \in SharedPlaces : Go(t, p)
  BY DEF Receiving, ListenData, ReceiveBeacon, ReceiveUpstream, ReceiveData,
         LoraReceive, SharedPlaces
<1>2. /\ UNCHANGED <<flags, rcvQ, irq, beaconBand>>
      /\ opMode' \in {opMode, "rx"}
      /\ at[t] \in {"listen data", "beacon", "upstream", "upstream data", "receive"}
  BY DEF Receiving, ListenData, ReceiveBeacon, ReceiveUpstream, ReceiveData,
         LoraReceive, radioVars, driverVars
<1>3. beaconReceive' \in BOOLEAN /\ dataReceive' \in BOOLEAN
  BY DEF Receiving, ListenData, ReceiveBeacon, ReceiveUpstream, ReceiveData,
         LoraReceive, radioVars, driverVars, IInv, TypeOK
<1>4. PlaceType' /\ at'[t] = p
  BY <1>1, PlaceKept DEF IInv, TypeOK
<1>5. CASE t # "reader"
  BY <1>1, <1>2, <1>3, <1>4, <1>5, OthersMove DEF IInv, TypeOK
<1>6. CASE t = "reader"
  <2>1. /\ at'["reader"] \in SharedPlaces
        /\ at["reader"] \notin {"check", "packet", "clear", "wrap"}
    BY <1>2, <1>4, <1>6
  <2>2. TypeOK'
    BY <1>2, <1>3, <1>4, <2>1 DEF IInv, TypeOK
  <2>3. EventPerPacket' /\ ClearsRx'
    BY <1>2, <2>1 DEF IInv, EventPerPacket, Answering, ClearsRx, SharedPlaces
  <2>4. QED
    BY <2>2, <2>3 DEF IInv
<1>7. QED
  BY <1>5, <1>6

\* A step of the reader outside the time it answers an event.
LEMMA ReaderMoves ==
    ASSUME IInv, NEW p, Go("reader", p), PlaceType', at'["reader"] = p,
           p \notin {"check", "packet", "clear"}, ~Answering,
           UNCHANGED <<flags, rcvQ, irq, beaconReceive, dataReceive>>,
           opMode' \in {"sleep", "stdby", "tx", "rx"},
           beaconBand' \in 0..(Bands - 1) \/ (beaconBand' = Bands /\ p = "wrap")
    PROVE  IInv'
<1>1. TypeOK'
  BY DEF IInv, TypeOK
<1>2. EventPerPacket' /\ ClearsRx'
  BY DEF IInv, EventPerPacket, Answering, ClearsRx
<1>3. QED
  BY <1>1, <1>2 DEF IInv

\* The steps from the event to the cleared flags.
LEMMA AnswerSteps ==
    ASSUME IInv, Wake \/ Check \/ ReadFlags \/ ClearFlags
    PROVE  IInv'
<1>0. "reader" \in Tasks
  BY DEF Tasks
<1>1. UNCHANGED <<opMode, beaconReceive, dataReceive, beaconBand>>
  BY DEF Wake, Check, ReadFlags, ClearFlags, radioVars, driverVars
<1>2. CASE Wake
  <2>1. /\ Go("reader", "check") /\ UNCHANGED <<flags, irq>>
        /\ at["reader"] = "ready" /\ rcvQ > 0 /\ rcvQ' = rcvQ - 1
    BY <1>2 DEF Wake, radioVars
  <2>2. PlaceType' /\ at'["reader"] = "check"
    BY <1>0, <2>1, PlaceKept DEF IInv, TypeOK, ReadPlaces
  <2>3. rcvQ = 1 /\ "rx" \in flags /\ rcvQ' = 0
    BY <2>1 DEF IInv, EventPerPacket, Answering
  <2>4. TypeOK'
    BY <1>1, <2>1, <2>2, <2>3, LoraAssumption DEF IInv, TypeOK, LoraAssumption
  <2>5. EventPerPacket' /\ ClearsRx'
    BY <2>1, <2>2, <2>3 DEF EventPerPacket, Answering, ClearsRx
  <2>6. QED
    BY <2>4, <2>5 DEF IInv
<1>3. CASE Check
  <2>1. at["reader"] = "check" /\ "rx" \in flags
    BY <1>3 DEF Check, IInv, EventPerPacket, Answering
  <2>2. Go("reader", "packet") /\ UNCHANGED <<flags, rcvQ, irq>>
    BY <1>3, <2>1 DEF Check, radioVars
  <2>3. PlaceType' /\ at'["reader"] = "packet"
    BY <1>0, <2>2, PlaceKept DEF IInv, TypeOK, ReadPlaces
  <2>4. TypeOK'
    BY <1>1, <2>1, <2>2, <2>3 DEF IInv, TypeOK
  <2>5. EventPerPacket' /\ ClearsRx'
    BY <2>1, <2>2, <2>3 DEF IInv, EventPerPacket, Answering, ClearsRx
  <2>6. QED
    BY <2>4, <2>5 DEF IInv
<1>4. CASE ReadFlags
  <2>1. at["reader"] = "packet" /\ "rx" \in flags
    BY <1>4 DEF ReadFlags, IInv, EventPerPacket, Answering
  <2>2. Go("reader", "clear") /\ irq' = flags /\ UNCHANGED <<flags, rcvQ>>
    BY <1>4 DEF ReadFlags, radioVars
  <2>3. PlaceType' /\ at'["reader"] = "clear"
    BY <1>0, <2>2, PlaceKept DEF IInv, TypeOK, ReadPlaces
  <2>4. TypeOK'
    BY <1>1, <2>1, <2>2, <2>3 DEF IInv, TypeOK
  <2>5. EventPerPacket' /\ ClearsRx'
    BY <2>1, <2>2, <2>3 DEF IInv, EventPerPacket, Answering, ClearsRx
  <2>6. QED
    BY <2>4, <2>5 DEF IInv
<1>5. CASE ClearFlags
  <2>1. /\ at["reader"] = "clear" /\ "rx" \in irq
        /\ flags' = flags \ irq /\ irq' = {} /\ rcvQ' = rcvQ
    BY <1>5 DEF ClearFlags, IInv, ClearsRx
  <2>2. PICK p \in {"fetch", "handle"} : Go("reader", p)
    BY <1>5 DEF ClearFlags
  <2>3. PlaceType' /\ at'["reader"] = p
    BY <1>0, <2>2, PlaceKept DEF IInv, TypeOK, ReadPlaces
  <2>4. TypeOK'
    BY <1>1, <2>1, <2>3 DEF IInv, TypeOK
  <2>5. rcvQ = 0
    BY <2>1 DEF IInv, EventPerPacket, Answering
  <2>6. EventPerPacket' /\ ClearsRx'
    BY <2>1, <2>2, <2>3, <2>5 DEF EventPerPacket, Answering, ClearsRx
  <2>7. QED
    BY <2>4, <2>6 DEF IInv
<1>6. QED
  BY <1>2, <1>3, <1>4, <1>5

\* What the comparison with the last band computes.
LEMMA WrapFacts ==
    ASSUME NEW b, b \in 0..(Bands - 1) \/ b = Bands
    PROVE  (IF b > Bands - 1 THEN 0 ELSE b) \in 0..(Bands - 1)
<1>1. Bands \in Nat /\ Bands # 0
  BY LoraAssumption DEF LoraAssumption
<1>2. CASE b \in 0..(Bands - 1)
  <2>1. ~(b > Bands - 1)
    BY <1>1, <1>2
  <2>2. QED
    BY <1>2, <2>1, Zenon
<1>3. CASE b = Bands
  BY <1>1, <1>3
<1>4. QED
  BY <1>2, <1>3

\* The steps that follow, until reception starts again.
LEMMA HandleSteps ==
    ASSUME IInv, Fetch \/ Handle \/ NextBand \/ WrapBand
    PROVE  IInv'
<1>0. "reader" \in Tasks
  BY DEF Tasks
<1>1. UNCHANGED <<flags, rcvQ, irq, beaconReceive, dataReceive>> /\ ~Answering
  BY DEF Fetch, Handle, NextBand, WrapBand, radioVars, driverVars, Answering
<1>2. PICK p \in {"handle", "next band", "listen data", "wrap", "beacon"} :
          /\ Go("reader", p)
          /\ NextBand => p = "wrap"
  BY DEF Fetch, Handle, NextBand, WrapBand
<1>3. PlaceType' /\ at'["reader"] = p
  BY <1>0, <1>2, PlaceKept DEF IInv, TypeOK, ReadPlaces, SharedPlaces
<1>4. opMode' \in {opMode, "stdby"}
  BY DEF Fetch, Handle, NextBand, WrapBand, radioVars
<1>5. beaconBand' \in 0..(Bands - 1) \/ (beaconBand' = Bands /\ p = "wrap")
  <2>1. CASE Fetch \/ Handle
    BY <2>1 DEF Fetch, Handle, driverVars, IInv, TypeOK
  <2>2. CASE NextBand
    <3>1. beaconBand \in 0..(Bands - 1)
      BY <2>2 DEF NextBand, IInv, TypeOK
    <3>2. beaconBand' = beaconBand + 1 /\ p = "wrap"
      BY <1>2, <2>2 DEF NextBand
    <3>3. QED
      BY <3>1, <3>2, LoraAssumption DEF LoraAssumption
  <2>3. CASE WrapBand
    <3>1. beaconBand \in 0..(Bands - 1) \/ beaconBand = Bands
      BY DEF IInv, TypeOK
    <3>2. beaconBand' = IF beaconBand > Bands - 1 THEN 0 ELSE beaconBand
      BY <2>3 DEF WrapBand
    <3>3. QED
      BY <3>1, <3>2, WrapFacts, Zenon
  <2>4. QED
    BY <2>1, <2>2, <2>3
<1>6. QED
  BY <1>1, <1>2, <1>3, <1>4, <1>5, ReaderMoves DEF IInv, TypeOK

\* Every step keeps the invariant.
LEMMA Preserved == IInv /\ [Next]_vars => IInv'
<1>1. SUFFICES ASSUME IInv, [Next]_vars PROVE IInv'
  OBVIOUS
<1>2. CASE UNCHANGED vars
  BY <1>1, <1>2
     DEF vars, IInv, TypeOK, PlaceType, EventPerPacket, Answering, ClearsRx
<1>3. CASE RxDone \/ TxDone
  BY <1>1, <1>3, RadioSteps
<1>4. CASE Console
  BY <1>1, <1>4, ConsoleStep
<1>5. CASE Reading
  BY <1>1, <1>5, AnswerSteps, HandleSteps DEF Reading
<1>6. CASE \E t \in Senders : LoraSend(t) \/ Sending(t)
  BY <1>1, <1>6, SendSteps
<1>7. CASE \E t \in Tasks : Receiving(t)
  BY <1>1, <1>7, ReceiveSteps
<1>8. QED
  BY <1>1, <1>2, <1>3, <1>4, <1>5, <1>6, <1>7 DEF Next

-----------------------------------------------------------------------------
\* The driver's state stays well formed; beaconBand leaves its range only while
\* the reader wraps it around, for every number of bands.
THEOREM TypeCorrect == Spec => []TypeOK
<1>1. IInv => TypeOK
  BY DEF IInv
<1>2. QED
  BY Initially, Preserved, <1>1, PTL DEF Spec

\* Each received packet is announced by exactly one event however the tasks
\* interleave, so that a queue of any length never overflows.
THEOREM EventPerPacketHolds == Spec => []EventPerPacket
<1>1. IInv => EventPerPacket
  BY DEF IInv
<1>2. QED
  BY Initially, Preserved, <1>1, PTL DEF Spec
=============================================================================
