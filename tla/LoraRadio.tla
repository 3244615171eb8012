------------------------------ MODULE LoraRadio ------------------------------
(***************************************************************************)
(* The LoRa radio of the ESP32 (esp32/components/l2lora).                  *)
(*                                                                         *)
(* Four tasks drive one radio without a lock: the reader (task_lora_read), *)
(* woken by the interrupt of a received packet; lora_task, which sends     *)
(* pings; the Bluetooth task, whose messages onMessage passes to loraSend; *)
(* and the console (cmd_lora).  An access to a register is atomic, and any *)
(* task may run between two of them.                                       *)
(*                                                                         *)
(* The radio is external: its interrupt flags are cleared by writes only,  *)
(* DIO0 is raised by RxDone and seen at its rising edge, a transmission    *)
(* ends in standby and is lost when the mode is changed before.  Modulation*)
(* and contents of packets are left out; counters are for display only.    *)
(* lora_repeat_send is never set, and lora.onMessage neither, so the       *)
(* reader itself does not send.                                            *)
(***************************************************************************)
EXTENDS Naturals

CONSTANTS
    LoraModes,   \* values of "lora" in NVS that are considered
    RcvQSize,    \* length of rcvQ
    Bands        \* entries of downstream

Senders == {"lora_task", "bt"}
Tasks == Senders \cup {"reader", "console"}

ASSUME LoraAssumption ==
    /\ LoraModes \subseteq Nat
    /\ RcvQSize \in Nat \ {0}
    /\ Bands \in Nat \ {0}

VARIABLES
    opMode,         \* REG_OP_MODE
    flags,          \* REG_IRQ_FLAGS
    rcvQ,           \* number of events in rcvQ
    beaconReceive, dataReceive, beaconBand,   \* fields of lora
    irq,            \* the flags lora_receive_packet read, until it has used them
    at              \* where each task is

radioVars == <<opMode, flags>>
driverVars == <<beaconReceive, dataReceive, beaconBand>>
vars == <<opMode, flags, rcvQ, beaconReceive, dataReceive, beaconBand, irq, at>>

Go(t, place) == at' = [at EXCEPT ![t] = place]

\* The state after register_lora, by the mode stored in NVS.
Init ==
    \E loraMode \in LoraModes :
        /\ opMode = IF loraMode \in {1, 2} THEN "rx" ELSE "stdby"
        /\ beaconReceive = (loraMode = 1)
        /\ dataReceive = (loraMode = 2)
        /\ beaconBand = 0
        /\ flags = {} /\ irq = {}
        /\ rcvQ = 0
        /\ at = [t \in Tasks |-> IF t = "lora_task" /\ loraMode <= 2
                                    THEN "absent" ELSE "ready"]

-----------------------------------------------------------------------------
(* The radio (external) and the interrupt *)

\* A packet is received, perhaps with a wrong checksum.  DIO0 rises unless
\* RxDone is still set from an earlier packet; lora_isr_handler then queues an
\* event, and drops it when the queue is full.
RxDone ==
    /\ opMode = "rx"
    /\ \E crc \in {{}, {"crc"}} : flags' = flags \cup {"rx"} \cup crc
    /\ rcvQ' = IF "rx" \notin flags /\ rcvQ < RcvQSize THEN rcvQ + 1 ELSE rcvQ
    /\ UNCHANGED <<opMode, driverVars, irq, at>>

TxDone ==
    /\ opMode = "tx"
    /\ opMode' = "stdby"
    /\ flags' = flags \cup {"tx"}
    /\ UNCHANGED <<rcvQ, driverVars, irq, at>>

-----------------------------------------------------------------------------
(* loraSend, by lora_task and the Bluetooth task *)

\* The modulation is set up.
LoraSend(t) ==
    /\ t \in Senders /\ at[t] = "ready"
    /\ Go(t, "fill")
    /\ UNCHANGED <<radioVars, rcvQ, driverVars, irq>>

\* lora_send_packet: standby, then the data goes to the FIFO.
Fill(t) ==
    /\ at[t] = "fill"
    /\ opMode' = "stdby"
    /\ Go(t, "transmit")
    /\ UNCHANGED <<flags, rcvQ, driverVars, irq>>

Transmit(t) ==
    /\ at[t] = "transmit"
    /\ opMode' = "tx"
    /\ Go(t, "poll")
    /\ UNCHANGED <<flags, rcvQ, driverVars, irq>>

\* The loop ends when TX_DONE is seen.
Poll(t) ==
    /\ at[t] = "poll" /\ "tx" \in flags
    /\ Go(t, "sent")
    /\ UNCHANGED <<radioVars, rcvQ, driverVars, irq>>

\* Mutant of Sent: all flags are cleared.
SentMutant(t) ==
    /\ at[t] = "sent"
    /\ flags' = {}
    /\ Go(t, IF t = "lora_task" THEN "listen" ELSE "ready")
    /\ UNCHANGED <<opMode, rcvQ, driverVars, irq>>

\* TX_DONE is cleared; lora_task then goes back to receiving.
Sent(t) ==
    /\ at[t] = "sent"
    /\ flags' = flags \ {"tx"}
    /\ Go(t, IF t = "lora_task" THEN "listen" ELSE "ready")
    /\ UNCHANGED <<opMode, rcvQ, driverVars, irq>>

\* lora_task after its ping, in the mode that was chosen last.
Listen(t) ==
    /\ at[t] = "listen"
    /\ Go(t, IF beaconReceive THEN "beacon" ELSE "listen data")
    /\ UNCHANGED <<radioVars, rcvQ, driverVars, irq>>

\* dataReceive is read after beaconReceive: another task may run in between.
ListenData(t) ==
    /\ at[t] = "listen data"
    /\ Go(t, IF dataReceive THEN "upstream" ELSE "ready")
    /\ UNCHANGED <<radioVars, rcvQ, driverVars, irq>>

-----------------------------------------------------------------------------
(* lora_receive_beacon and lora_receive_upstream, by any task *)

\* The flag is set, then the modulation, with the frequency of beaconBand.
ReceiveBeacon(t) ==
    /\ at[t] = "beacon"
    /\ beaconReceive' = TRUE
    /\ Go(t, "receive")
    /\ UNCHANGED <<radioVars, rcvQ, dataReceive, beaconBand, irq>>

ReceiveUpstream(t) ==
    /\ at[t] = "upstream"
    /\ beaconReceive' = FALSE
    /\ Go(t, "upstream data")
    /\ UNCHANGED <<radioVars, rcvQ, dataReceive, beaconBand, irq>>

ReceiveData(t) ==
    /\ at[t] = "upstream data"
    /\ dataReceive' = TRUE
    /\ Go(t, "receive")
    /\ UNCHANGED <<radioVars, rcvQ, beaconReceive, beaconBand, irq>>

\* lora_receive, the last step of both.
LoraReceive(t) ==
    /\ at[t] = "receive"
    /\ opMode' = "rx"
    /\ Go(t, "ready")
    /\ UNCHANGED <<flags, rcvQ, driverVars, irq>>

-----------------------------------------------------------------------------
(* cmd_lora *)

Console ==
    /\ at["console"] = "ready"
    /\ \/ opMode' = "sleep" /\ UNCHANGED at
       \/ \E place \in {"beacon", "upstream"} :
             Go("console", place) /\ UNCHANGED opMode
    /\ UNCHANGED <<flags, rcvQ, driverVars, irq>>

-----------------------------------------------------------------------------
(* task_lora_read *)

Wake ==
    /\ at["reader"] = "ready" /\ rcvQ > 0
    /\ rcvQ' = rcvQ - 1
    /\ Go("reader", "check")
    /\ UNCHANGED <<radioVars, driverVars, irq>>

\* lora_received
Check ==
    /\ at["reader"] = "check"
    /\ Go("reader", IF "rx" \in flags THEN "packet" ELSE "ready")
    /\ UNCHANGED <<radioVars, rcvQ, driverVars, irq>>

\* lora_receive_packet reads the flags,
ReadFlags ==
    /\ at["reader"] = "packet"
    /\ irq' = flags
    /\ Go("reader", "clear")
    /\ UNCHANGED <<radioVars, rcvQ, driverVars>>

\* Mutant of ClearFlags: a bad packet is dropped before the flags are cleared.
ClearFlagsMutant ==
    /\ at["reader"] = "clear"
    /\ flags' = IF "crc" \in irq THEN flags ELSE flags \ irq
    /\ Go("reader", IF "crc" \in irq THEN "handle" ELSE "fetch")
    /\ irq' = {}
    /\ UNCHANGED <<opMode, rcvQ, driverVars>>

\* clears those it has read, and returns 0 if there is no good packet.
ClearFlags ==
    /\ at["reader"] = "clear"
    /\ flags' = flags \ irq
    /\ Go("reader", IF "rx" \in irq /\ "crc" \notin irq THEN "fetch"
                    ELSE "handle")
    /\ irq' = {}
    /\ UNCHANGED <<opMode, rcvQ, driverVars>>

\* The packet is fetched from the FIFO in standby.
Fetch ==
    /\ at["reader"] = "fetch"
    /\ opMode' = "stdby"
    /\ Go("reader", "handle")
    /\ UNCHANGED <<flags, rcvQ, driverVars, irq>>

\* lora_handle_beacon or a data packet; a packet of length 0 counts as well.
Handle ==
    /\ at["reader"] = "handle"
    /\ Go("reader", IF beaconReceive THEN "next band" ELSE "listen data")
    /\ UNCHANGED <<radioVars, rcvQ, driverVars, irq>>

NextBand ==
    /\ at["reader"] = "next band"
    /\ beaconBand' = beaconBand + 1
    /\ Go("reader", "wrap")
    /\ UNCHANGED <<radioVars, rcvQ, beaconReceive, dataReceive, irq>>

\* Mutant of WrapBand: the comparison is off by one.
WrapBandMutant ==
    /\ at["reader"] = "wrap"
    /\ beaconBand' = IF beaconBand > Bands THEN 0 ELSE beaconBand
    /\ Go("reader", "beacon")
    /\ UNCHANGED <<radioVars, rcvQ, beaconReceive, dataReceive, irq>>

WrapBand ==
    /\ at["reader"] = "wrap"
    /\ beaconBand' = IF beaconBand > Bands - 1 THEN 0 ELSE beaconBand
    /\ Go("reader", "beacon")
    /\ UNCHANGED <<radioVars, rcvQ, beaconReceive, dataReceive, irq>>

Receiving(t) ==
    \/ ListenData(t) \/ ReceiveBeacon(t) \/ ReceiveUpstream(t)
    \/ ReceiveData(t) \/ LoraReceive(t)

Sending(t) == Fill(t) \/ Transmit(t) \/ Poll(t) \/ Sent(t) \/ Listen(t)

Reading ==
    \/ Wake \/ Check \/ ReadFlags \/ ClearFlags \/ Fetch \/ Handle
    \/ NextBand \/ WrapBand

Next ==
    \/ RxDone \/ TxDone \/ Console \/ Reading
    \/ \E t \in Senders : LoraSend(t) \/ Sending(t)
    \/ \E t \in Tasks : Receiving(t)

Spec == Init /\ [][Next]_vars

\* Tasks that are not waiting for input go on, and the radio completes a
\* transmission that is not aborted.  Packets and commands need not come.
Fairness ==
    /\ WF_vars(TxDone)
    /\ WF_vars(Reading)
    /\ \A t \in Senders : WF_vars(Sending(t))
    /\ \A t \in Tasks : WF_vars(Receiving(t))

FairSpec == Spec /\ Fairness

-----------------------------------------------------------------------------
(* Properties *)

\* Places of a task: the ones all tasks share, and its own.
SharedPlaces == {"ready", "beacon", "upstream", "upstream data", "receive"}
SendPlaces == {"fill", "transmit", "poll", "sent"}
PingPlaces == {"listen", "listen data", "absent"}
ReadPlaces == {"check", "packet", "clear", "fetch", "handle", "next band", "wrap",
               "listen data"}

PlaceType ==
    /\ at \in [Tasks -> SharedPlaces \cup SendPlaces \cup PingPlaces
                          \cup ReadPlaces]
    /\ at["reader"] \in SharedPlaces \cup ReadPlaces
    /\ at["lora_task"] \in SharedPlaces \cup SendPlaces \cup PingPlaces
    /\ at["bt"] \in SharedPlaces \cup SendPlaces
    /\ at["console"] \in SharedPlaces

\* beaconBand is one past the table only while the reader wraps it around.
TypeOK ==
    /\ opMode \in {"sleep", "stdby", "tx", "rx"}
    /\ flags \subseteq {"rx", "tx", "crc"} /\ irq \subseteq {"rx", "tx", "crc"}
    /\ rcvQ \in 0..RcvQSize
    /\ beaconReceive \in BOOLEAN /\ dataReceive \in BOOLEAN
    /\ beaconBand \in 0..(Bands - 1)
       \/ (beaconBand = Bands /\ at["reader"] = "wrap")
    /\ PlaceType

\* The reader took an event and has not cleared RxDone for it yet.
Answering == at["reader"] \in {"check", "packet", "clear"}

\* However senders, console and reader interleave, the interrupt is never lost
\* and never doubled: RxDone is set exactly while one event waits in rcvQ or is
\* being answered.  rcvQ never overflows, the reader is never woken in vain,
\* and no packet is left in the radio with nobody told about it.
EventPerPacket ==
    /\ rcvQ = IF "rx" \in flags /\ ~Answering THEN 1 ELSE 0
    /\ Answering => "rx" \in flags

\* Every received packet is taken from the radio, although senders may poll for
\* ever and other tasks change the mode of the radio under the reader.
PacketHandled == "rx" \in flags ~> "rx" \notin flags

\* "Start transmission and wait for conclusion": lora_send_packet returns.
SendEnds == \A t \in Senders : at[t] = "poll" ~> at[t] # "poll"
=============================================================================
