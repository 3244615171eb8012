------------------------------ MODULE BtServers ------------------------------
(***************************************************************************)
(* The BLE and the classic Bluetooth serial servers of the ESP32           *)
(* (esp32/components/l2-ble-bt) and the bridge between them (dmesh.c).     *)
(*                                                                         *)
(* The console task starts and stops the stack; Bluedroid's BTC task runs  *)
(* the callbacks, one at a time and in the order of its queue, and also    *)
(* what they call: onMessage, loraSend, bleSend and btSend.  Meanwhile     *)
(* clients connect, negotiate and leave, so that a callback sees the links *)
(* as they were when its event was queued.                                 *)
(*                                                                         *)
(* External: the controller ends advertising when a client connects;       *)
(* esp_bluedroid_disable is served by the BTC task after the events before *)
(* it; links end when either layer is disabled, and then no event tells of *)
(* it; an initialised controller is only left by a reboot.  Events that    *)
(* the callbacks only log are left out, and so are messages written by BLE *)
(* clients (ble.driver.onMessage is never set) and cspp_handle (always 0). *)
(***************************************************************************)
EXTENDS Naturals, Sequences, FiniteSets

CONSTANTS
    BleClients, SppClients,   \* their names serve as connection ids and handles
    None,
    Mtus,       \* MTUs a BLE client may ask for
    DefaultMtu, \* the MTU of a link before an exchange, initial spp_mtu_size
    ServerMtu,  \* argument of esp_ble_gatt_set_local_mtu
    MaxMessage, \* the longest message of an SPP client
    MaxQueue    \* bound: a client acts while the BTC queue is shorter than this

ASSUME BtAssumption ==
    /\ IsFiniteSet(BleClients) /\ IsFiniteSet(SppClients)
    /\ None \notin BleClients \cup SppClients
    /\ Mtus \subseteq Nat /\ DefaultMtu \in Nat /\ ServerMtu \in Nat
    /\ DefaultMtu > 7 /\ ServerMtu > DefaultMtu /\ \A m \in Mtus : m > DefaultMtu
    /\ MaxMessage \in Nat /\ MaxQueue \in Nat
    \* The loop over the pieces ends: its counter, a byte, can exceed their number.
    /\ MaxMessage <= 254 * (DefaultMtu - 7)

VARIABLES
    ctrl, bluedroid,  \* states of the controller and of the host stack
    console,          \* the console task: "ready", or "stopping" in ble --stop
    btc,              \* events that wait for the BTC task
    busy,             \* the SPP client whose message is in loraSend, or None
    adv,              \* the controller advertises
    link,             \* BLE client -> MTU in force on its link, 0 without link
    localMtu,         \* the largest MTU the stack agrees to
    conn_id, is_connected, mtu_size,   \* spp_conn_id, is_connected, spp_mtu_size
    listening,        \* the SPP server accepts clients
    paired, open,     \* SPP clients that are paired, that have a connection
    spp_handle,
    fault             \* history: the stack reported a failure, which is not retried

stackVars == <<ctrl, bluedroid, console>>
bleVars == <<adv, link, localMtu>>
sppVars == <<listening, paired, open>>
connVars == <<conn_id, is_connected, mtu_size>>
vars == <<ctrl, bluedroid, console, btc, busy, adv, link, localMtu, conn_id,
          is_connected, mtu_size, listening, paired, open, spp_handle, fault>>

\* Both layers are enabled: there can be advertising and links.
Up == ctrl = "enabled" /\ bluedroid = "enabled"

Smaller(a, b) == IF a < b THEN a ELSE b
Ev(type, from) == [type |-> type, from |-> from, mtu |-> 0]

\* Power on: nothing is started.
Init ==
    /\ ctrl = "idle" /\ bluedroid = "off" /\ console = "ready"
    /\ btc = <<>> /\ busy = None
    /\ adv = FALSE /\ link = [c \in BleClients |-> 0] /\ localMtu = DefaultMtu
    /\ conn_id = None /\ is_connected = FALSE /\ mtu_size = DefaultMtu
    /\ listening = FALSE /\ paired = {} /\ open = {} /\ spp_handle = None
    /\ fault = FALSE

-----------------------------------------------------------------------------
(* Console: ble --start, ble --stop, bt --start *)

\* Mutant of BringUp: the start goes on after a call that failed.
BringUpMutant(done) ==
    IF ctrl # "idle" THEN ~done /\ UNCHANGED <<ctrl, bluedroid>>
    ELSE /\ ctrl' \in {"idle", "inited", "enabled"}
         /\ bluedroid' \in {"off", "init", "enabled"}
         /\ done = (bluedroid' = "enabled")

\* Initialise and enable the controller, then Bluedroid.  A call may fail, and
\* the first one does unless the controller is idle; a failure ends the start.
BringUp(done) ==
    IF ctrl # "idle" THEN ~done /\ UNCHANGED <<ctrl, bluedroid>>
    ELSE /\ ctrl' \in {"idle", "inited", "enabled"}
         /\ bluedroid' \in {"off", "init", "enabled"}
         /\ bluedroid' # "off" => ctrl' = "enabled"
         /\ done = (bluedroid' = "enabled")

\* Callbacks and applications are registered; the local MTU is not set when the
\* client's callback could not be registered.
InitBleSvc(events) ==
    /\ btc' = btc \o <<Ev("REG", None)>> \o events
    /\ localMtu' \in {DefaultMtu, ServerMtu}

\* start_ble_server, from ble --start or at boot when NVS says so.
StartBleServer ==
    /\ console = "ready"
    /\ \E done \in BOOLEAN :
          /\ BringUp(done)
          /\ IF done THEN InitBleSvc(<<>>) ELSE UNCHANGED <<btc, localMtu>>
    /\ UNCHANGED <<console, busy, adv, link, connVars, sppVars, spp_handle, fault>>

\* init_bt, from bt --start: the BLE service, then SPP, unless a callback could
\* not be registered.
InitBt ==
    /\ console = "ready"
    /\ \E done \in BOOLEAN, events \in {<<>>, <<Ev("INIT", None)>>} :
          /\ BringUp(done)
          /\ IF done THEN InitBleSvc(events) ELSE UNCHANGED <<btc, localMtu>>
    /\ UNCHANGED <<console, busy, adv, link, connVars, sppVars, spp_handle, fault>>

\* ble --stop once esp_bluedroid_disable returned and left the host stack as it
\* says: the controller is disabled in any case, and may refuse too.  Links end
\* without a callback, and the driver's variables stay.
StopController(host) ==
    /\ bluedroid' = host
    /\ ctrl' \in {ctrl, IF ctrl = "enabled" THEN "inited" ELSE ctrl}
    /\ IF Up' THEN UNCHANGED <<adv, link, listening, open>>
       ELSE /\ adv' = FALSE /\ link' = [c \in BleClients |-> 0]
            /\ listening' = FALSE /\ open' = {}
    /\ fault' \in BOOLEAN
    /\ fault' <=> fault \/ (host = "enabled" /\ ctrl' # "enabled")
    /\ console' = "ready"
    /\ UNCHANGED <<busy, localMtu, connVars, paired, spp_handle>>

\* ble --stop: esp_bluedroid_disable waits for the BTC task, or fails at once, as
\* it does when Bluedroid is not enabled.  Its result is ignored.
BleStop ==
    /\ console = "ready"
    /\ \/ /\ bluedroid = "enabled"
          /\ btc' = Append(btc, Ev("DISABLE", None))
          /\ console' = "stopping"
          /\ UNCHANGED <<ctrl, bluedroid, busy, bleVars, connVars, sppVars, spp_handle,
                         fault>>
       \/ StopController(bluedroid) /\ UNCHANGED btc

-----------------------------------------------------------------------------
(* Clients (external) *)

Enqueue(e) ==
    /\ Len(btc) < MaxQueue
    /\ btc' = Append(btc, e)

Connect(c) ==
    /\ adv /\ link[c] = 0
    /\ Enqueue(Ev("CONNECT", c))
    /\ adv' = FALSE
    /\ link' = [link EXCEPT ![c] = DefaultMtu]
    /\ UNCHANGED <<stackVars, busy, localMtu, connVars, sppVars, spp_handle, fault>>

ExchangeMtu(c, m) ==
    /\ link[c] = DefaultMtu
    /\ LET agreed == Smaller(m, localMtu)
       IN  /\ Enqueue([Ev("MTU", c) EXCEPT !.mtu = agreed])
           /\ link' = [link EXCEPT ![c] = agreed]
    /\ UNCHANGED <<stackVars, busy, adv, localMtu, connVars, sppVars, spp_handle, fault>>

Disconnect(c) ==
    /\ link[c] # 0
    /\ Enqueue(Ev("DISCONNECT", c))
    /\ link' = [link EXCEPT ![c] = 0]
    /\ UNCHANGED <<stackVars, busy, adv, localMtu, connVars, sppVars, spp_handle, fault>>

\* An SPP client pairs before its first connection.
AskPairing(h) ==
    /\ listening /\ h \notin paired
    /\ Enqueue(Ev("PAIR", h))
    /\ UNCHANGED <<stackVars, busy, bleVars, connVars, sppVars, spp_handle, fault>>

SppOpen(h) ==
    /\ listening /\ h \in paired \ open
    /\ Enqueue(Ev("SRV_OPEN", h))
    /\ open' = open \cup {h}
    /\ UNCHANGED <<stackVars, busy, bleVars, connVars, listening, paired, spp_handle,
                   fault>>

SppClose(h) ==
    /\ h \in open
    /\ Enqueue(Ev("CLOSE", h))
    /\ open' = open \ {h}
    /\ UNCHANGED <<stackVars, busy, bleVars, connVars, listening, paired, spp_handle,
                   fault>>

\* A message that begins with 'l' is for the LoRa radio as well.
SppData(h) ==
    /\ h \in open
    /\ \E type \in {"DATA", "LORA"} : Enqueue(Ev(type, h))
    /\ UNCHANGED <<stackVars, busy, bleVars, connVars, sppVars, spp_handle, fault>>

-----------------------------------------------------------------------------
(* The BTC task *)

\* The event at the head of the queue is handled; more may be queued by it.
Take(type, more) ==
    /\ busy = None /\ btc # <<>> /\ Head(btc).type = type
    /\ btc' = Tail(btc) \o more

\* esp_ble_gap_start_advertising: an error is logged and that is all.
StartAdvertising ==
    \/ Up /\ adv' = TRUE /\ UNCHANGED fault
    \/ fault' = TRUE /\ UNCHANGED adv

\* ESP_GATTS_REG_EVT: advertising data and attribute table are configured.
Registered ==
    /\ \/ Take("REG", <<Ev("ADV_SET", None), Ev("ATTR_TAB", None)>>) /\ UNCHANGED fault
       \/ Take("REG", <<>>) /\ fault' = TRUE
    /\ UNCHANGED <<stackVars, busy, bleVars, connVars, sppVars, spp_handle>>

\* ESP_GAP_BLE_ADV_DATA_RAW_SET_COMPLETE_EVT
AdvDataSet ==
    /\ Take("ADV_SET", <<>>)
    /\ StartAdvertising
    /\ UNCHANGED <<stackVars, busy, link, localMtu, connVars, sppVars, spp_handle>>

\* ESP_GATTS_CREAT_ATTR_TAB_EVT: the service starts, if the table is complete.
AttrTabCreated ==
    /\ Take("ATTR_TAB", <<>>)
    /\ fault' \in {fault, TRUE}
    /\ UNCHANGED <<stackVars, busy, bleVars, connVars, sppVars, spp_handle>>

\* Mutant of Connected: advertising is started again for more clients.
ConnectedMutant ==
    /\ Take("CONNECT", <<>>)
    /\ conn_id' = Head(btc).from /\ is_connected' = TRUE
    /\ StartAdvertising
    /\ UNCHANGED <<stackVars, busy, link, localMtu, mtu_size, sppVars, spp_handle>>

\* ESP_GATTS_CONNECT_EVT: spp_mtu_size keeps the MTU of the client before.
Connected ==
    /\ Take("CONNECT", <<>>)
    /\ conn_id' = Head(btc).from /\ is_connected' = TRUE
    /\ UNCHANGED <<stackVars, busy, bleVars, mtu_size, sppVars, spp_handle, fault>>

\* Mutant of MtuChanged: only a larger MTU is taken.
MtuChangedMutant ==
    /\ Take("MTU", <<>>)
    /\ mtu_size' = IF Head(btc).mtu > mtu_size THEN Head(btc).mtu ELSE mtu_size
    /\ UNCHANGED <<stackVars, busy, bleVars, conn_id, is_connected, sppVars,
                   spp_handle, fault>>

\* ESP_GATTS_MTU_EVT
MtuChanged ==
    /\ Take("MTU", <<>>)
    /\ mtu_size' = Head(btc).mtu
    /\ UNCHANGED <<stackVars, busy, bleVars, conn_id, is_connected, sppVars,
                   spp_handle, fault>>

\* Mutant of Disconnected: the handler forgets to advertise.
DisconnectedMutant ==
    /\ Take("DISCONNECT", <<>>)
    /\ is_connected' = FALSE
    /\ UNCHANGED <<stackVars, busy, bleVars, conn_id, mtu_size, sppVars, spp_handle,
                   fault>>

\* ESP_GATTS_DISCONNECT_EVT
Disconnected ==
    /\ Take("DISCONNECT", <<>>)
    /\ is_connected' = FALSE
    /\ StartAdvertising
    /\ UNCHANGED <<stackVars, busy, link, localMtu, conn_id, mtu_size, sppVars,
                   spp_handle>>

\* ESP_SPP_INIT_EVT: the device becomes connectable and the server starts.
SppInit ==
    /\ Take("INIT", <<>>)
    /\ listening' = Up
    /\ UNCHANGED <<stackVars, busy, bleVars, connVars, paired, open, spp_handle, fault>>

\* esp_bt_gap_cb: PIN requests and confirmations are always granted.
Pair ==
    /\ Take("PAIR", <<>>)
    /\ paired' = paired \cup {Head(btc).from}
    /\ UNCHANGED <<stackVars, busy, bleVars, connVars, listening, open, spp_handle, fault>>

\* ESP_SPP_SRV_OPEN_EVT: the latest client replaces the one before.
SppOpened ==
    /\ Take("SRV_OPEN", <<>>)
    /\ spp_handle' = Head(btc).from
    /\ UNCHANGED <<stackVars, busy, bleVars, connVars, sppVars, fault>>

\* Mutant of SppClosed: the handle is not reset.
SppClosedMutant ==
    /\ Take("CLOSE", <<>>)
    /\ UNCHANGED <<stackVars, busy, bleVars, connVars, sppVars, spp_handle, fault>>

\* ESP_SPP_CLOSE_EVT: the handle is reset whichever client left.
SppClosed ==
    /\ Take("CLOSE", <<>>)
    /\ spp_handle' = None
    /\ UNCHANGED <<stackVars, busy, bleVars, connVars, sppVars, fault>>

\* Mutant of Total: the last, shorter piece is forgotten.
TotalMutant(size) == (size \div (mtu_size - 7)) % 256

\* The number of notifications bleSend uses, kept in one byte.
Total(size) ==
    IF size <= mtu_size - 3 THEN 1
    ELSE LET piece == mtu_size - 7
         IN  (IF size % piece = 0 THEN size \div piece ELSE size \div piece + 1) % 256

\* bleSend: the parts of a message of the given size that go to the client.  When
\* there are several, each one has four bytes of numbering in front, and if there
\* is no room for their buffer the message is dropped.
bleSend(size, room) ==
    LET piece == mtu_size - 7
    IN  [n \in 1 .. (IF room \/ size <= mtu_size - 3 THEN Total(size) ELSE 0) |->
            IF size <= mtu_size - 3 THEN [from |-> 0, len |-> size, bytes |-> size]
            ELSE LET len == IF n < Total(size) THEN piece ELSE size - (n - 1) * piece
                 IN  [from |-> (n - 1) * piece, len |-> len, bytes |-> len + 4]]

\* btSend: the SPP clients a message is written to.
btSend == IF spp_handle = None THEN {} ELSE {spp_handle}

\* ESP_SPP_DATA_IND_EVT: onMessage.  loraSend keeps the BTC task until the radio
\* has sent; bleSend and btSend then write to conn_id and spp_handle.
Message ==
    /\ \/ Take("DATA", <<>>) /\ UNCHANGED busy
       \/ Take("LORA", <<>>) /\ busy' = Head(btc).from
    /\ UNCHANGED <<stackVars, bleVars, connVars, sppVars, spp_handle, fault>>

\* loraSend returns, if ever (see LoraRadio), and the message is forwarded.
LoraSent ==
    /\ busy # None
    /\ busy' = None
    /\ UNCHANGED <<stackVars, btc, bleVars, connVars, sppVars, spp_handle, fault>>

\* esp_bluedroid_disable succeeds or fails, and the console goes on.
Disable ==
    /\ Take("DISABLE", <<>>)
    /\ \E host \in {"init", bluedroid} : StopController(host)

Handle ==
    \/ Registered \/ AdvDataSet \/ AttrTabCreated \/ Connected \/ MtuChanged
    \/ Disconnected \/ SppInit \/ Pair \/ SppOpened \/ SppClosed \/ Message \/ Disable

Next ==
    \/ StartBleServer \/ InitBt \/ BleStop \/ Handle \/ LoraSent
    \/ \E c \in BleClients : Connect(c) \/ Disconnect(c)
    \/ \E c \in BleClients, m \in Mtus : ExchangeMtu(c, m)
    \/ \E h \in SppClients : \/ AskPairing(h) \/ SppOpen(h) \/ SppClose(h)
                             \/ SppData(h)

Spec == Init /\ [][Next]_vars

\* The BTC task is scheduled.  Nothing is assumed of clients, of the console or
\* of the radio in loraSend.
FairSpec == Spec /\ WF_vars(Handle)

-----------------------------------------------------------------------------
(* Properties *)

EventTypes == {"REG", "ADV_SET", "ATTR_TAB", "CONNECT", "MTU", "DISCONNECT", "INIT",
               "PAIR", "SRV_OPEN", "CLOSE", "DATA", "LORA", "DISABLE"}

\* Types, and the order of the layers: the host stack is enabled over a controller
\* that is not only after a stop that could disable no more than the controller.
TypeOK ==
    /\ ctrl \in {"idle", "inited", "enabled"} /\ bluedroid \in {"off", "init", "enabled"}
    /\ bluedroid = "enabled" => ctrl = "enabled" \/ fault
    /\ console \in {"ready", "stopping"}
    /\ btc \in Seq([type : EventTypes, from : BleClients \cup SppClients \cup {None},
                    mtu : Nat])
    /\ busy \in SppClients \cup {None}
    /\ adv \in BOOLEAN /\ link \in [BleClients -> Nat] /\ localMtu \in Nat
    /\ conn_id \in BleClients \cup {None} /\ is_connected \in BOOLEAN
    /\ mtu_size \in Nat /\ listening \in BOOLEAN
    /\ paired \subseteq SppClients /\ open \subseteq SppClients
    /\ spp_handle \in SppClients \cup {None} /\ fault \in BOOLEAN

Linked == {c \in BleClients : link[c] # 0}
Waiting(types) == {i \in DOMAIN btc : btc[i].type \in types}

\* "In some cases, code assumes there is a single client": however clients come
\* and go while events wait, at most one has a link, and nobody can connect
\* before the end of the last link was handled (spp_conn_id is a single value).
SingleClient ==
    /\ Cardinality(Linked) <= 1
    /\ adv => Linked = {} /\ Waiting({"CONNECT", "DISCONNECT"}) = {}

\* Once the events of BLE links are handled the driver knows the link there is,
\* and its MTU if one was exchanged: what bleSend writes goes to a client that
\* is there, in pieces it can take.  (Before an exchange the MTU may be the one
\* of an earlier client.)
LinkKnown ==
    Up /\ Waiting({"CONNECT", "MTU", "DISCONNECT"}) = {} =>
        /\ is_connected <=> Linked # {}
        /\ \A c \in Linked : /\ conn_id = c
                             /\ link[c] # DefaultMtu => mtu_size = link[c]

\* Sizes at which bleSend changes the number of its notifications.
EdgeSizes ==
    {size \in {0, mtu_size - 3, mtu_size - 2, MaxMessage}
                \cup {k * (mtu_size - 7) + d : k \in 1 .. 5, d \in {0, 1}} :
        size <= MaxMessage}

\* A message that is about to be forwarded reaches the client in full and in
\* order, or not at all when there is no memory: whatever MTU the clients so far
\* left in spp_mtu_size, the parts follow each other from the first byte to the
\* last, and each fits the link, if its MTU was exchanged and the event handled.
FragmentsCover ==
    is_connected /\ btc # <<>> /\ Head(btc).type \in {"DATA", "LORA"} =>
        \A size \in EdgeSizes, room \in BOOLEAN :
          LET part == bleSend(size, room)
              last == Len(part)
          IN  \/ last = 0 /\ ~room /\ size > mtu_size - 3
              \/ /\ last >= 1 /\ part[1].from = 0
                 /\ part[last].from + part[last].len = size
                 /\ \A n \in 1 .. last - 1 : part[n].from + part[n].len = part[n + 1].from
                 /\ \A n \in 1 .. last :
                       /\ part[n].bytes <= mtu_size - 3
                       /\ Waiting({"CONNECT", "MTU", "DISCONNECT"}) = {} =>
                             \A c \in Linked : link[c] # DefaultMtu =>
                                                  part[n].bytes <= link[c] - 3

\* btSend never writes to a handle that was closed, except while the event of
\* its end still waits, although several clients share one variable.
HandleOpen ==
    Up =>
        btSend \subseteq open \cup {btc[i].from : i \in Waiting({"CLOSE"})}

\* When a BLE client leaves, the server becomes reachable again, unless the
\* stack refuses, is stopped, or the BTC task is kept in loraSend.
Reachable ==
    Waiting({"DISCONNECT"}) # {} ~> adv \/ Linked # {} \/ fault \/ busy # None
                                      \/ bluedroid # "enabled"
=============================================================================
