-------------------------- MODULE BluetoothProofs --------------------------
(***************************************************************************)
(* Proofs about the Bluetooth servers, for any number of BLE and of SPP    *)
(* clients, any MTUs, any length of the BTC queue and any number of tasks  *)
(* of the raw HCI.                                                         *)
(***************************************************************************)
EXTENDS MCBluetooth, TLAPS, FiniteSetTheorems

-----------------------------------------------------------------------------
(* The invariant of the servers over Bluedroid *)

Is(i, types) == i \in DOMAIN btc /\ btc[i].type \in types

\* Advertising is handed on: from the registration to the advertising data, to
\* the controller, to the link of a client, to the event of its end, and back to
\* the controller.
Handover == {"REG", "ADV_SET", "DISCONNECT"}
LinkEvents == {"CONNECT", "MTU"}

\* Who an event is from.
FromClients ==
    \A i \in DOMAIN btc :
        /\ btc[i].type \in {"CONNECT", "MTU", "DISCONNECT"} => btc[i].from \in BleClients
        /\ btc[i].type \in {"PAIR", "SRV_OPEN", "CLOSE", "DATA", "LORA"} =>
              btc[i].from \in SppClients

\* Before the first start nothing happened.
Fresh ==
    ctrl = "idle" => /\ btc = <<>> /\ ~adv /\ ~is_connected /\ spp_handle = None
                     /\ ~listening /\ open = {} /\ bluedroid # "enabled"
                     /\ \A c \in BleClients : link[c] = 0

\* Advertising is in one hand: an event, the controller or a link.
OneHand ==
    /\ \A i, j \in DOMAIN btc : Is(i, Handover) /\ Is(j, Handover) => i = j
    /\ \A i \in DOMAIN btc : Is(i, Handover) => ~adv /\ \A c \in BleClients : link[c] = 0
    /\ adv => \A c \in BleClients : link[c] = 0
    /\ \A c, d \in BleClients : link[c] # 0 /\ link[d] # 0 => c = d

\* The events of a link come before the event of its end, and none of an earlier
\* link is left.
InOrder ==
    /\ adv => \A i \in DOMAIN btc : ~Is(i, LinkEvents)
    /\ \A i, j \in DOMAIN btc :
          Is(i, Handover) /\ Is(j, LinkEvents) => j < i /\ btc[i].type = "DISCONNECT"
    /\ \A c \in BleClients : link[c] # 0 =>
          \A i \in DOMAIN btc : Is(i, LinkEvents) => btc[i].from = c

\* What the driver knows once the event is handled.
Known ==
    /\ \A c \in BleClients : link[c] # 0 /\ (\A i \in DOMAIN btc : ~Is(i, {"CONNECT"})) =>
          is_connected /\ conn_id = c
    /\ Up /\ (\A c \in BleClients : link[c] = 0)
          /\ (\A i \in DOMAIN btc : ~Is(i, {"DISCONNECT"})) =>
             ~is_connected /\ \A i \in DOMAIN btc : ~Is(i, LinkEvents)

\* An MTU that was agreed is the one of the event, or of the variable once the
\* event is handled; none is below the default.
MtuKnown ==
    /\ mtu_size >= DefaultMtu /\ localMtu \in {DefaultMtu, ServerMtu}
    /\ \A i \in DOMAIN btc : btc[i].type = "MTU" =>
          /\ btc[i].mtu >= DefaultMtu
          /\ btc[i].mtu = DefaultMtu => localMtu = DefaultMtu
          /\ \A c \in BleClients : link[c] # 0 => btc[i].mtu = link[c]
    /\ \A c \in BleClients :
          link[c] \notin {0, DefaultMtu} /\ (\A i \in DOMAIN btc : btc[i].type # "MTU") =>
             mtu_size = link[c]

\* A handle that is or will be stored is open, or the event of its end follows.
HandleKnown ==
    Up =>
      /\ \A i \in DOMAIN btc : btc[i].type = "SRV_OPEN" =>
            \/ btc[i].from \in open
            \/ \E j \in DOMAIN btc : j > i /\ btc[j].type = "CLOSE" /\ btc[j].from = btc[i].from
      /\ spp_handle # None =>
            \/ spp_handle \in open
            \/ \E j \in DOMAIN btc : btc[j].type = "CLOSE" /\ btc[j].from = spp_handle

BtInv ==
    /\ TypeOK /\ FromClients /\ Fresh /\ OneHand /\ InOrder /\ Known /\ MtuKnown
    /\ HandleKnown

-----------------------------------------------------------------------------
(* The queue *)

Events == [type : EventTypes, from : BleClients \cup SppClients \cup {None}, mtu : Nat]

\* The event is put at the end.
Pushed(e) ==
    /\ Len(btc) \in Nat /\ DOMAIN btc = 1 .. Len(btc)
    /\ DOMAIN btc' = 1 .. Len(btc) + 1
    /\ \A i \in 1 .. Len(btc) : btc'[i] = btc[i]
    /\ btc'[Len(btc) + 1] = e

\* The head, an event of this type, is gone.
Popped(type) ==
    /\ Len(btc) \in Nat /\ DOMAIN btc = 1 .. Len(btc) /\ Len(btc) >= 1
    /\ DOMAIN btc' = 1 .. Len(btc) - 1
    /\ \A i \in 1 .. Len(btc) - 1 : btc'[i] = btc[i + 1]
    /\ btc[1].type = type

\* The queue after the registration, with or without the event of the SPP server.
LEMMA StartQueue ==
    ASSUME NEW S, NEW a \in S, NEW b \in S
    PROVE  \A s : s = <<>> \o <<a>> \o <<>> \/ s = <<>> \o <<a>> \o <<b>> => s \in Seq(S)
<1>1. <<>> \o <<a>> = <<a>> /\ <<a>> \o <<>> = <<a>>
  OBVIOUS
<1>2. <<a>> \o <<b>> \in Seq(S) /\ <<a>> \in Seq(S)
  OBVIOUS
<1> QED
  BY <1>1, <1>2

\* What is at its positions.
LEMMA StartPositions ==
    ASSUME NEW a, NEW b
    PROVE  \A s : s = <<>> \o <<a>> \o <<>> \/ s = <<>> \o <<a>> \o <<b>> =>
              \A i \in DOMAIN s : (i = 1 /\ s[i] = a) \/ (i = 2 /\ s[i] = b)
<1>1. <<>> \o <<a>> = <<a>> /\ <<a>> \o <<>> = <<a>>
  OBVIOUS
<1>2. \A i \in DOMAIN (<<a>> \o <<b>>) :
         (i = 1 /\ (<<a>> \o <<b>>)[i] = a) \/ (i = 2 /\ (<<a>> \o <<b>>)[i] = b)
  OBVIOUS
<1>3. \A i \in DOMAIN <<a>> : i = 1 /\ <<a>>[i] = a
  OBVIOUS
<1> QED
  BY <1>1, <1>2, <1>3

\* An event is put into the queue.
LEMMA PushFacts ==
    ASSUME TypeOK, NEW e \in Events, btc' = Append(btc, e)
    PROVE  Pushed(e) /\ btc' \in Seq(Events)
<1>1. btc \in Seq(Events)
  BY DEF TypeOK, Events
<1> HIDE DEF Events
<1> QED
  BY <1>1 DEF Pushed

\* The head of the queue is handled, and nothing new is queued.
LEMMA PopFacts ==
    ASSUME TypeOK, NEW type, Take(type, <<>>)
    PROVE  /\ Popped(type) /\ btc' \in Seq(Events) /\ btc # <<>>
           /\ Head(btc) = btc[1] /\ btc[1] \in Events /\ busy = None
<1>1. btc \in Seq(Events) /\ btc # <<>> /\ Head(btc).type = type
  BY DEF TypeOK, Events, Take
<1>2. btc' = Tail(btc) \o <<>> /\ busy = None
  BY DEF Take
<1> HIDE DEF Events
<1>3. Tail(btc) \in Seq(Events)
  BY <1>1
<1>4. btc' = Tail(btc)
  BY <1>2, <1>3
<1>5. Head(btc) = btc[1] /\ btc[1] \in Events /\ Len(btc) >= 1
  BY <1>1
<1> QED
  BY <1>1, <1>2, <1>3, <1>4, <1>5 DEF Popped

\* An event that is not of a BLE link changes nothing for the links.
LEMMA BlePush ==
    ASSUME OneHand, InOrder, Known, MtuKnown, NEW e, Pushed(e),
           e.type \notin Handover \cup LinkEvents,
           UNCHANGED <<adv, link, localMtu, conn_id, is_connected, mtu_size, ctrl, bluedroid>>
    PROVE  OneHand' /\ InOrder' /\ Known' /\ MtuKnown'
<1> USE DEF Pushed, Is, Handover, LinkEvents
<1>1. OneHand'
  BY DEF OneHand
<1>2. InOrder'
  BY DEF InOrder
<1>3. Known'
  BY DEF Known, Up
<1>4. MtuKnown'
  BY DEF MtuKnown
<1> QED
  BY <1>1, <1>2, <1>3, <1>4

\* An event that is not about BLE links is handled.
LEMMA BlePop ==
    ASSUME OneHand, InOrder, Known, MtuKnown, NEW type, Popped(type),
           type \notin Handover \cup LinkEvents,
           UNCHANGED <<adv, link, localMtu, conn_id, is_connected, mtu_size, ctrl, bluedroid>>
    PROVE  OneHand' /\ InOrder' /\ Known' /\ MtuKnown'
<1>0. \A i \in DOMAIN btc' : i + 1 \in DOMAIN btc /\ btc'[i] = btc[i + 1]
  BY DEF Popped
<1>a. \A j \in DOMAIN btc : btc[j].type \in Handover \cup LinkEvents =>
          j - 1 \in DOMAIN btc' /\ btc'[j - 1] = btc[j]
  BY DEF Popped
<1>1. OneHand'
  BY <1>0 DEF OneHand, Popped, Is, Handover
<1>2. InOrder'
  BY <1>0 DEF InOrder, Popped, Is, Handover, LinkEvents
<1>3. Known'
  BY <1>0, <1>a DEF Known, Up, Is, Handover, LinkEvents
<1>4. MtuKnown'
  <2>1. \A i \in DOMAIN btc : btc[i].type = "MTU" =>
            i - 1 \in DOMAIN btc' /\ btc'[i - 1].type = "MTU"
    BY <1>a DEF LinkEvents
  <2> QED
    BY <1>0, <2>1 DEF MtuKnown
<1> QED
  BY <1>1, <1>2, <1>3, <1>4

\* An event that is not of an SPP connection changes nothing for the handle.
LEMMA SppPush ==
    ASSUME HandleKnown, NEW e, Pushed(e), e.type # "SRV_OPEN",
           UNCHANGED <<ctrl, bluedroid, open, spp_handle>>
    PROVE  HandleKnown'
BY DEF HandleKnown, Up, Pushed

\* An event that ends no SPP connection is handled, and the handle is kept.
LEMMA SppPop ==
    ASSUME HandleKnown, NEW type, Popped(type), type # "CLOSE",
           UNCHANGED <<ctrl, bluedroid, open, spp_handle>>
    PROVE  HandleKnown'
<1>1. SUFFICES ASSUME Up
               PROVE  HandleKnown'
  BY DEF HandleKnown, Up
<1>2. \A i \in DOMAIN btc' : i + 1 \in DOMAIN btc /\ btc'[i] = btc[i + 1]
  BY DEF Popped
<1>3. \A j \in DOMAIN btc : btc[j].type = "CLOSE" =>
          j - 1 \in DOMAIN btc' /\ btc'[j - 1] = btc[j]
  BY DEF Popped
<1>4. ASSUME NEW i \in DOMAIN btc', btc'[i].type = "SRV_OPEN", btc'[i].from \notin open
      PROVE  \E j \in DOMAIN btc' : j > i /\ btc'[j].type = "CLOSE" /\ btc'[j].from = btc'[i].from
  <2>1. PICK j \in DOMAIN btc : /\ j > i + 1 /\ btc[j].type = "CLOSE"
                                /\ btc[j].from = btc'[i].from
    BY <1>1, <1>2, <1>4 DEF HandleKnown
  <2>2. j - 1 > i
    BY <2>1 DEF Popped
  <2> QED
    BY <1>3, <2>1, <2>2
<1>5. ASSUME spp_handle # None, spp_handle \notin open
      PROVE  \E j \in DOMAIN btc' : btc'[j].type = "CLOSE" /\ btc'[j].from = spp_handle
  BY <1>1, <1>3, <1>5 DEF HandleKnown
<1> QED
  BY <1>4, <1>5 DEF HandleKnown

\* Who the events are from, after a push or a pop.
LEMMA FromPush ==
    ASSUME FromClients, NEW e, Pushed(e),
           e.type \in {"CONNECT", "MTU", "DISCONNECT"} => e.from \in BleClients,
           e.type \in {"PAIR", "SRV_OPEN", "CLOSE", "DATA", "LORA"} => e.from \in SppClients
    PROVE  FromClients'
BY DEF FromClients, Pushed

\* The events that stay have their senders.
LEMMA FromPop ==
    ASSUME FromClients, NEW type, Popped(type)
    PROVE  FromClients'
<1>1. \A i \in DOMAIN btc' : i + 1 \in DOMAIN btc /\ btc'[i] = btc[i + 1]
  BY DEF Popped
<1> QED
  BY <1>1 DEF FromClients

\* Once something happened the start is over.
LEMMA NotFresh ==
    ASSUME Fresh, UNCHANGED <<ctrl, bluedroid>>,
           \/ btc # <<>> \/ adv \/ listening \/ open # {}
           \/ \E c \in BleClients : link[c] # 0
    PROVE  Fresh'
BY DEF Fresh

\* A failure is not forgotten, so that the order of the layers stays explained.
LEMMA FaultStays ==
    ASSUME TypeOK, UNCHANGED <<ctrl, bluedroid>>, fault' = TRUE \/ fault' = fault
    PROVE  fault' \in BOOLEAN /\ (bluedroid' = "enabled" => ctrl' = "enabled" \/ fault')
<1>1. CASE fault' = TRUE
  BY <1>1, Zenon
<1>2. CASE fault' = fault
  BY <1>2, Zenon DEF TypeOK
<1> QED
  BY <1>1, <1>2

-----------------------------------------------------------------------------
(* Steps of SPP clients and of the callbacks that are not about BLE links *)

\* An SPP client asks for pairing, opens or closes its connection, or writes.
LEMMA SppClientKeeps ==
    ASSUME BtInv, NEW h \in SppClients,
           AskPairing(h) \/ SppOpen(h) \/ SppClose(h) \/ SppData(h)
    PROVE  BtInv'
<1>0. PICK type \in {"PAIR", "SRV_OPEN", "CLOSE", "DATA", "LORA"} :
          /\ btc' = Append(btc, Ev(type, h))
          /\ type = "SRV_OPEN" => open' = open \cup {h}
          /\ type = "CLOSE" => open' = open \ {h}
          /\ type \notin {"SRV_OPEN", "CLOSE"} => open' = open
          /\ listening \/ open # {}
  BY DEF AskPairing, SppOpen, SppClose, SppData, Enqueue, sppVars
<1> DEFINE e == Ev(type, h)
<1>1. e \in Events /\ e.type = type /\ e.from = h
  BY DEF Ev, Events, EventTypes
<1>2. UNCHANGED <<ctrl, bluedroid, console, busy, adv, link, localMtu, conn_id,
                  is_connected, mtu_size, listening, paired, spp_handle, fault>>
  BY DEF AskPairing, SppOpen, SppClose, SppData, stackVars, bleVars, connVars, sppVars
<1>3. Pushed(e) /\ btc' \in Seq(Events)
  BY <1>0, <1>1, PushFacts DEF BtInv
<1> HIDE DEF e
<1>4. TypeOK'
  <2>1. open' \subseteq SppClients
    BY <1>0 DEF BtInv, TypeOK
  <2> QED
    BY <1>2, <1>3, <2>1 DEF BtInv, TypeOK, Events
<1>5. FromClients'
  BY <1>1, <1>3, FromPush DEF BtInv
<1>6. Fresh'
  BY <1>0, <1>2, NotFresh DEF BtInv
<1>7. OneHand' /\ InOrder' /\ Known' /\ MtuKnown'
  BY <1>1, <1>2, <1>3, BlePush DEF BtInv, Handover, LinkEvents
<1>8. HandleKnown'
  BY <1>0, <1>1, <1>2, <1>3 DEF BtInv, HandleKnown, Up, Pushed
<1> QED
  BY <1>4, <1>5, <1>6, <1>7, <1>8 DEF BtInv

\* Callbacks of the classic stack, and of the attribute table.
LEMMA SppHandlerKeeps ==
    ASSUME BtInv,
           AttrTabCreated \/ SppInit \/ Pair \/ SppOpened \/ SppClosed \/ Message
    PROVE  BtInv'
<1>0. PICK type \in {"ATTR_TAB", "INIT", "PAIR", "SRV_OPEN", "CLOSE", "DATA", "LORA"} :
          /\ Take(type, <<>>)
          /\ fault' \in {fault, TRUE} /\ listening' \in {listening, Up}
          /\ type \in {"PAIR"} => paired' = paired \cup {Head(btc).from}
          /\ type \notin {"PAIR"} => paired' = paired
          /\ type = "SRV_OPEN" => spp_handle' = Head(btc).from
          /\ type = "CLOSE" => spp_handle' = None
          /\ type \notin {"SRV_OPEN", "CLOSE"} => spp_handle' = spp_handle
          /\ type = "LORA" => busy' = Head(btc).from
          /\ type # "LORA" => busy' = busy
  <2>1. CASE AttrTabCreated
    BY <2>1 DEF AttrTabCreated, sppVars
  <2>2. CASE SppInit
    BY <2>2 DEF SppInit
  <2>3. CASE Pair
    BY <2>3 DEF Pair
  <2>4. CASE SppOpened
    BY <2>4 DEF SppOpened, sppVars
  <2>5. CASE SppClosed
    BY <2>5 DEF SppClosed, sppVars
  <2>6. CASE Message
    BY <2>6 DEF Message, sppVars
  <2> QED
    BY <2>1, <2>2, <2>3, <2>4, <2>5, <2>6
<1>1. UNCHANGED <<ctrl, bluedroid, console, adv, link, localMtu, conn_id, is_connected,
                  mtu_size, open>>
  BY DEF AttrTabCreated, SppInit, Pair, SppOpened, SppClosed, Message, stackVars,
         bleVars, connVars, sppVars
<1>2. /\ Popped(type) /\ btc' \in Seq(Events) /\ btc # <<>>
      /\ Head(btc) = btc[1] /\ btc[1] \in Events
  BY <1>0, PopFacts DEF BtInv
<1>3. /\ 1 \in DOMAIN btc /\ btc[1].type = type
      /\ type \in {"PAIR", "SRV_OPEN", "CLOSE", "DATA", "LORA"} => btc[1].from \in SppClients
  BY <1>2 DEF BtInv, FromClients, Popped
<1>4. TypeOK'
  <2>1. /\ listening' \in BOOLEAN /\ paired' \subseteq SppClients
        /\ spp_handle' \in SppClients \cup {None} /\ busy' \in SppClients \cup {None}
    <3>1. listening' \in BOOLEAN
      BY <1>0, Zenon DEF BtInv, TypeOK, Up
    <3> QED
      BY <1>0, <1>2, <1>3, <3>1 DEF BtInv, TypeOK
  <2>2. fault' \in BOOLEAN /\ (bluedroid' = "enabled" => ctrl' = "enabled" \/ fault')
    BY <1>0, <1>1, FaultStays DEF BtInv
  <2> QED
    BY <1>1, <1>2, <2>1, <2>2 DEF BtInv, TypeOK, Events
<1>5. FromClients'
  BY <1>2, FromPop DEF BtInv
<1>6. Fresh'
  BY <1>1, <1>2, NotFresh DEF BtInv
<1>7. OneHand' /\ InOrder' /\ Known' /\ MtuKnown'
  BY <1>1, <1>2, BlePop DEF BtInv, Handover, LinkEvents
<1>8. HandleKnown'
  <2>1. CASE type \notin {"SRV_OPEN", "CLOSE"}
    BY <1>0, <1>1, <1>2, <2>1, SppPop DEF BtInv
  <2> SUFFICES ASSUME type \in {"SRV_OPEN", "CLOSE"}, Up
               PROVE  HandleKnown'
    BY <1>1, <2>1 DEF HandleKnown, Up
  <2>2. \A i \in DOMAIN btc' : i + 1 \in DOMAIN btc /\ btc'[i] = btc[i + 1]
    BY <1>2 DEF Popped
  <2>3. \A j \in DOMAIN btc : j > 1 => j - 1 \in DOMAIN btc' /\ btc'[j - 1] = btc[j]
    BY <1>2 DEF Popped
  <2>4. ASSUME NEW i \in DOMAIN btc', btc'[i].type = "SRV_OPEN", btc'[i].from \notin open
        PROVE  \E j \in DOMAIN btc' : j > i /\ btc'[j].type = "CLOSE" /\ btc'[j].from = btc'[i].from
    <3>1. PICK j \in DOMAIN btc : /\ j > i + 1 /\ btc[j].type = "CLOSE"
                                  /\ btc[j].from = btc'[i].from
      BY <2>2, <2>4 DEF BtInv, HandleKnown
    <3>2. j - 1 > i /\ j > 1
      BY <1>2, <3>1 DEF Popped
    <3> QED
      BY <2>3, <3>1, <3>2
  <2>5. ASSUME spp_handle' # None, spp_handle' \notin open
        PROVE  \E j \in DOMAIN btc' : btc'[j].type = "CLOSE" /\ btc'[j].from = spp_handle'
    <3>1. type = "SRV_OPEN" /\ spp_handle' = btc[1].from
      BY <1>0, <1>2, <2>5
    <3>2. PICK j \in DOMAIN btc : j > 1 /\ btc[j].type = "CLOSE" /\ btc[j].from = btc[1].from
      BY <1>3, <2>5, <3>1 DEF BtInv, HandleKnown
    <3> QED
      BY <2>3, <3>1, <3>2
  <2> QED
    BY <1>1, <2>4, <2>5 DEF HandleKnown
<1> QED
  BY <1>4, <1>5, <1>6, <1>7, <1>8 DEF BtInv

\* loraSend returns.
LEMMA LoraSentKeeps ==
    ASSUME BtInv, LoraSent \/ UNCHANGED vars
    PROVE  BtInv'
<1>1. /\ UNCHANGED <<ctrl, bluedroid, console, btc, adv, link, localMtu, conn_id,
                     is_connected, mtu_size, listening, paired, open, spp_handle, fault>>
      /\ busy' \in {busy, None}
  BY DEF LoraSent, vars, stackVars, bleVars, connVars, sppVars
<1>2. TypeOK'
  BY <1>1 DEF BtInv, TypeOK
<1>3. FromClients' /\ Fresh'
  BY <1>1 DEF BtInv, FromClients, Fresh
<1>4. OneHand' /\ InOrder'
  BY <1>1 DEF BtInv, OneHand, InOrder, Is
<1>5. Known' /\ MtuKnown'
  BY <1>1 DEF BtInv, Known, Up, MtuKnown, Is
<1>6. HandleKnown'
  BY <1>1 DEF BtInv, HandleKnown, Up
<1> QED
  BY <1>2, <1>3, <1>4, <1>5, <1>6 DEF BtInv

-----------------------------------------------------------------------------
(* Steps of BLE clients *)

\* What the constants are.
LEMMA MtuFacts ==
    /\ DefaultMtu \in Nat /\ DefaultMtu > 7 /\ ServerMtu \in Nat /\ ServerMtu > DefaultMtu
    /\ \A m \in Mtus : m \in Nat /\ m > DefaultMtu
BY BtAssumption DEF BtAssumption

\* A client connects: advertising passes from the controller to its link.
LEMMA ConnectKeeps ==
    ASSUME BtInv, NEW c \in BleClients, Connect(c)
    PROVE  BtInv'
<1> DEFINE e == Ev("CONNECT", c)
<1>0. /\ adv /\ adv' = FALSE /\ link' = [link EXCEPT ![c] = DefaultMtu]
      /\ UNCHANGED <<ctrl, bluedroid, console, busy, localMtu, conn_id, is_connected,
                     mtu_size, listening, paired, open, spp_handle, fault>>
      /\ btc' = Append(btc, e)
  BY DEF Connect, Enqueue, stackVars, connVars, sppVars
<1>1. e \in Events /\ e.type = "CONNECT" /\ e.from = c
  BY DEF Ev, Events, EventTypes
<1>2. Pushed(e) /\ btc' \in Seq(Events)
  BY <1>0, <1>1, PushFacts DEF BtInv
<1> HIDE DEF e
<1>3. /\ link \in [BleClients -> Nat] /\ link'[c] = DefaultMtu /\ DefaultMtu # 0
      /\ \A d \in BleClients : d # c => link'[d] = 0
      /\ \A i \in DOMAIN btc : ~Is(i, Handover) /\ ~Is(i, LinkEvents)
  BY <1>0, MtuFacts DEF BtInv, TypeOK, OneHand, InOrder
<1>4. \A i \in DOMAIN btc' : \/ btc'[i] = e
                             \/ btc'[i].type \notin Handover \cup LinkEvents
  BY <1>2, <1>3 DEF Pushed, Is
<1>5. TypeOK'
  BY <1>0, <1>2, MtuFacts DEF BtInv, TypeOK, Events
<1>6. FromClients'
  BY <1>1, <1>2, FromPush DEF BtInv
<1>7. Fresh'
  BY <1>0, NotFresh DEF BtInv
<1>8. OneHand'
  BY <1>0, <1>1, <1>3, <1>4 DEF OneHand, Is, Handover
<1>9. InOrder'
  BY <1>0, <1>1, <1>3, <1>4 DEF InOrder, Is, Handover, LinkEvents
<1>10. Known'
  <2>1. \E i \in DOMAIN btc' : btc'[i].type = "CONNECT"
    BY <1>1, <1>2 DEF Pushed
  <2> QED
    BY <1>3, <2>1 DEF Known, Is
<1>11. MtuKnown'
  BY <1>0, <1>1, <1>3, <1>4 DEF BtInv, MtuKnown, LinkEvents
<1>12. HandleKnown'
  BY <1>0, <1>1, <1>2, SppPush DEF BtInv
<1> QED
  BY <1>5, <1>6, <1>7, <1>8, <1>9, <1>10, <1>11, <1>12 DEF BtInv

\* A client asks for an MTU: the event carries what was agreed.
LEMMA ExchangeKeeps ==
    ASSUME BtInv, NEW c \in BleClients, NEW m \in Mtus, ExchangeMtu(c, m)
    PROVE  BtInv'
<1> DEFINE agreed == Smaller(m, localMtu)
           e == [Ev("MTU", c) EXCEPT !.mtu = agreed]
<1>0. /\ link[c] = DefaultMtu /\ link' = [link EXCEPT ![c] = agreed]
      /\ UNCHANGED <<ctrl, bluedroid, console, busy, adv, localMtu, conn_id, is_connected,
                     mtu_size, listening, paired, open, spp_handle, fault>>
      /\ btc' = Append(btc, e)
  BY DEF ExchangeMtu, Enqueue, stackVars, connVars, sppVars
<1>a. /\ agreed \in Nat /\ agreed >= DefaultMtu /\ agreed > 7
      /\ agreed = DefaultMtu <=> localMtu = DefaultMtu
  BY MtuFacts DEF BtInv, MtuKnown, Smaller
<1>1. e \in Events /\ e.type = "MTU" /\ e.from = c /\ e.mtu = agreed
  BY <1>a DEF Ev, Events, EventTypes
<1>2. Pushed(e) /\ btc' \in Seq(Events)
  BY <1>0, <1>1, PushFacts DEF BtInv
<1> HIDE DEF e, agreed
<1>3. /\ link \in [BleClients -> Nat] /\ link[c] # 0 /\ link'[c] = agreed /\ agreed # 0
      /\ \A d \in BleClients : d # c => link[d] = 0 /\ link'[d] = 0
      /\ ~adv /\ \A i \in DOMAIN btc : ~Is(i, Handover)
  BY <1>0, <1>a, MtuFacts DEF BtInv, TypeOK, OneHand
<1>4. \A i \in DOMAIN btc' : btc'[i] = e \/ (i \in DOMAIN btc /\ btc'[i] = btc[i])
  BY <1>2 DEF Pushed
<1>5. TypeOK'
  BY <1>0, <1>2, <1>a DEF BtInv, TypeOK, Events
<1>6. FromClients'
  BY <1>1, <1>2, FromPush DEF BtInv
<1>7. Fresh'
  BY <1>0, <1>3, NotFresh DEF BtInv
<1>8. OneHand'
  BY <1>0, <1>1, <1>3, <1>4 DEF OneHand, Is, Handover
<1>9. InOrder'
  BY <1>0, <1>1, <1>3, <1>4 DEF BtInv, InOrder, Is, Handover, LinkEvents
<1>10. Known'
  <2>1. \A i \in DOMAIN btc : i \in DOMAIN btc' /\ btc'[i] = btc[i]
    BY <1>2 DEF Pushed
  <2> QED
    BY <1>0, <1>3, <2>1 DEF BtInv, Known, Up, Is
<1>11. MtuKnown'
  <2>1. \E i \in DOMAIN btc' : btc'[i].type = "MTU"
    BY <1>1, <1>2 DEF Pushed
  <2>2. ASSUME NEW i \in DOMAIN btc', btc'[i].type = "MTU"
        PROVE  /\ btc'[i].mtu >= DefaultMtu /\ btc'[i].mtu = agreed
               /\ btc'[i].mtu = DefaultMtu => localMtu = DefaultMtu
    <3>1. CASE btc'[i] = e
      BY <1>1, <1>a, <3>1
    <3>2. CASE i \in DOMAIN btc /\ btc'[i] = btc[i]
      <4>1. btc[i].mtu = DefaultMtu /\ localMtu = DefaultMtu
        BY <1>0, <1>3, <2>2, <3>2 DEF BtInv, MtuKnown
      <4> QED
        BY <1>a, <3>2, <4>1
    <3> QED
      BY <1>4, <3>1, <3>2
  <2> QED
    BY <1>0, <1>3, <2>1, <2>2 DEF BtInv, MtuKnown
<1>12. HandleKnown'
  BY <1>0, <1>1, <1>2, SppPush DEF BtInv
<1> QED
  BY <1>5, <1>6, <1>7, <1>8, <1>9, <1>10, <1>11, <1>12 DEF BtInv

\* A client leaves: advertising passes from its link to the event.
LEMMA DisconnectKeeps ==
    ASSUME BtInv, NEW c \in BleClients, Disconnect(c)
    PROVE  BtInv'
<1> DEFINE e == Ev("DISCONNECT", c)
<1>0. /\ link[c] # 0 /\ link' = [link EXCEPT ![c] = 0]
      /\ UNCHANGED <<ctrl, bluedroid, console, busy, adv, localMtu, conn_id, is_connected,
                     mtu_size, listening, paired, open, spp_handle, fault>>
      /\ btc' = Append(btc, e)
  BY DEF Disconnect, Enqueue, stackVars, connVars, sppVars
<1>1. e \in Events /\ e.type = "DISCONNECT" /\ e.from = c
  BY DEF Ev, Events, EventTypes
<1>2. Pushed(e) /\ btc' \in Seq(Events)
  BY <1>0, <1>1, PushFacts DEF BtInv
<1> HIDE DEF e
<1>3. /\ link \in [BleClients -> Nat] /\ \A d \in BleClients : link'[d] = 0
      /\ ~adv /\ \A i \in DOMAIN btc : ~Is(i, Handover)
  BY <1>0 DEF BtInv, TypeOK, OneHand
<1>4. /\ \A i \in DOMAIN btc' : btc'[i] # e => i \in DOMAIN btc /\ btc'[i] = btc[i]
      /\ \A i \in DOMAIN btc' : btc'[i].type \in Handover => i = Len(btc) + 1
      /\ \A i \in DOMAIN btc' : btc'[i].type \in LinkEvents => i < Len(btc) + 1
      /\ Len(btc) + 1 \in DOMAIN btc' /\ btc'[Len(btc) + 1] = e
  BY <1>1, <1>2, <1>3 DEF Pushed, Is, LinkEvents, Handover
<1>5. TypeOK'
  BY <1>0, <1>2 DEF BtInv, TypeOK, Events
<1>6. FromClients'
  BY <1>1, <1>2, FromPush DEF BtInv
<1>7. Fresh'
  BY <1>0, <1>3, NotFresh DEF BtInv
<1>8. OneHand'
  BY <1>0, <1>3, <1>4 DEF OneHand, Is
<1>9. InOrder'
  BY <1>0, <1>1, <1>3, <1>4 DEF InOrder, Is
<1>10. Known'
  BY <1>1, <1>3, <1>4 DEF Known, Is
<1>11. MtuKnown'
  BY <1>0, <1>1, <1>3, <1>4 DEF BtInv, MtuKnown
<1>12. HandleKnown'
  BY <1>0, <1>1, <1>2, SppPush DEF BtInv
<1> QED
  BY <1>5, <1>6, <1>7, <1>8, <1>9, <1>10, <1>11, <1>12 DEF BtInv

-----------------------------------------------------------------------------
(* Callbacks of BLE links *)

\* The positions after a pop.
LEMMA PopShift ==
    ASSUME NEW type, Popped(type)
    PROVE  /\ 1 \in DOMAIN btc /\ btc[1].type = type
           /\ \A i \in DOMAIN btc' : /\ i + 1 \in DOMAIN btc /\ btc'[i] = btc[i + 1]
                                     /\ i \in Nat /\ i >= 1
           /\ \A j \in DOMAIN btc : j = 1 \/ (j - 1 \in DOMAIN btc' /\ btc'[j - 1] = btc[j])
           /\ DOMAIN btc \subseteq Nat
BY DEF Popped

\* The advertising data are set, or a client's end is handled: the controller
\* advertises, or the stack failed to.
LEMMA AdvertiseKeeps ==
    ASSUME BtInv, AdvDataSet \/ Disconnected
    PROVE  BtInv'
<1>0. PICK type \in {"ADV_SET", "DISCONNECT"} :
          /\ Take(type, <<>>) /\ StartAdvertising
          /\ type = "ADV_SET" => is_connected' = is_connected
          /\ type = "DISCONNECT" => is_connected' = FALSE
  BY DEF AdvDataSet, Disconnected, connVars
<1>1. UNCHANGED <<ctrl, bluedroid, console, busy, link, localMtu, conn_id, mtu_size,
                  listening, paired, open, spp_handle>>
  BY DEF AdvDataSet, Disconnected, stackVars, connVars, sppVars
<1>2. Popped(type) /\ btc' \in Seq(Events) /\ btc # <<>>
  BY <1>0, PopFacts DEF BtInv
<1>3. /\ 1 \in DOMAIN btc /\ btc[1].type = type
      /\ \A i \in DOMAIN btc' : /\ i + 1 \in DOMAIN btc /\ btc'[i] = btc[i + 1]
                                /\ i \in Nat /\ i >= 1
      /\ \A j \in DOMAIN btc : j = 1 \/ (j - 1 \in DOMAIN btc' /\ btc'[j - 1] = btc[j])
      /\ DOMAIN btc \subseteq Nat
  BY <1>2, PopShift
<1>4. Is(1, Handover)
  BY <1>3 DEF Is, Handover
<1>5. /\ ~adv /\ \A c \in BleClients : link[c] = 0
      /\ \A i \in DOMAIN btc : Is(i, Handover) => i = 1
      /\ \A i \in DOMAIN btc : ~Is(i, LinkEvents)
  BY <1>3, <1>4 DEF BtInv, OneHand, InOrder
<1>6. \A i \in DOMAIN btc' : btc'[i].type \notin Handover \cup LinkEvents
  BY <1>3, <1>5 DEF Is
<1>7. TypeOK'
  <2>1. adv' \in BOOLEAN /\ is_connected' \in BOOLEAN
    BY <1>0, Zenon DEF StartAdvertising, BtInv, TypeOK
  <2>2. fault' \in BOOLEAN /\ (bluedroid' = "enabled" => ctrl' = "enabled" \/ fault')
    <3>1. fault' = TRUE \/ fault' = fault
      BY <1>0, Zenon DEF StartAdvertising
    <3> QED
      BY <1>1, <3>1, FaultStays DEF BtInv
  <2> QED
    BY <1>1, <1>2, <2>1, <2>2 DEF BtInv, TypeOK, Events
<1>8. FromClients'
  BY <1>2, FromPop DEF BtInv
<1>9. Fresh'
  BY <1>1, <1>2, NotFresh DEF BtInv
<1>10. OneHand' /\ InOrder'
  BY <1>1, <1>5, <1>6 DEF OneHand, InOrder, Is
<1>11. Known'
  <2>1. Up => ~is_connected'
    <3>1. CASE type = "ADV_SET"
      <4>1. \A i \in DOMAIN btc : ~Is(i, {"DISCONNECT"})
        BY <1>3, <1>5, <3>1 DEF Is, Handover
      <4> QED
        BY <1>0, <1>5, <3>1, <4>1 DEF BtInv, Known
    <3> QED
      BY <1>0, <3>1
  <2> QED
    BY <1>1, <1>5, <1>6, <2>1 DEF Known, Up, Is
<1>12. MtuKnown'
  BY <1>1, <1>5, <1>6 DEF BtInv, MtuKnown, LinkEvents
<1>13. HandleKnown'
  BY <1>1, <1>2, SppPop DEF BtInv
<1> QED
  BY <1>7, <1>8, <1>9, <1>10, <1>11, <1>12, <1>13 DEF BtInv

\* The events of a connection and of an MTU.
LEMMA LinkEventKeeps ==
    ASSUME BtInv, Connected \/ MtuChanged
    PROVE  BtInv'
<1>0. PICK type \in {"CONNECT", "MTU"} :
          /\ Take(type, <<>>)
          /\ type = "CONNECT" => /\ conn_id' = Head(btc).from /\ is_connected' = TRUE
                                 /\ mtu_size' = mtu_size
          /\ type = "MTU" => mtu_size' = Head(btc).mtu /\ UNCHANGED <<conn_id, is_connected>>
  BY DEF Connected, MtuChanged
<1>1. UNCHANGED <<ctrl, bluedroid, console, busy, adv, link, localMtu, listening, paired,
                  open, spp_handle, fault>>
  BY DEF Connected, MtuChanged, stackVars, bleVars, sppVars
<1>2. /\ Popped(type) /\ btc' \in Seq(Events) /\ btc # <<>>
      /\ Head(btc) = btc[1] /\ btc[1] \in Events
  BY <1>0, PopFacts DEF BtInv
<1>3. /\ 1 \in DOMAIN btc /\ btc[1].type = type
      /\ \A i \in DOMAIN btc' : /\ i + 1 \in DOMAIN btc /\ btc'[i] = btc[i + 1]
                                /\ i \in Nat /\ i >= 1
      /\ \A j \in DOMAIN btc : j = 1 \/ (j - 1 \in DOMAIN btc' /\ btc'[j - 1] = btc[j])
      /\ DOMAIN btc \subseteq Nat
  BY <1>2, PopShift
<1>4. Is(1, LinkEvents) /\ ~adv
  BY <1>3 DEF Is, LinkEvents, BtInv, InOrder
<1>5. btc[1].from \in BleClients /\ btc[1].mtu \in Nat
  BY <1>2, <1>3 DEF BtInv, FromClients, Events
<1>6. TypeOK'
  <2>1. conn_id' \in BleClients \cup {None} /\ is_connected' \in BOOLEAN /\ mtu_size' \in Nat
    BY <1>0, <1>2, <1>5 DEF BtInv, TypeOK
  <2> QED
    BY <1>1, <1>2, <2>1 DEF BtInv, TypeOK, Events
<1>7. FromClients'
  BY <1>2, FromPop DEF BtInv
<1>8. Fresh'
  BY <1>1, <1>2, NotFresh DEF BtInv
<1>9. OneHand'
  BY <1>1, <1>3 DEF BtInv, OneHand, Is
<1>10. InOrder'
  BY <1>1, <1>3 DEF BtInv, InOrder, Is
<1>11. Known'
  <2>1. ASSUME NEW c \in BleClients, link[c] # 0, \A i \in DOMAIN btc' : ~Is(i, {"CONNECT"})'
        PROVE  is_connected' /\ conn_id' = c
    <3>1. btc[1].from = c
      BY <1>3, <1>4, <2>1 DEF BtInv, InOrder
    <3>2. CASE type = "MTU"
      <4>1. \A i \in DOMAIN btc : ~Is(i, {"CONNECT"})
        BY <1>3, <2>1, <3>2 DEF Is
      <4> QED
        BY <1>0, <2>1, <3>2, <4>1 DEF BtInv, Known
    <3> QED
      BY <1>0, <1>2, <3>1, <3>2
  <2>2. ASSUME Up, \A c \in BleClients : link[c] = 0
        PROVE  \E i \in DOMAIN btc' : Is(i, {"DISCONNECT"})'
    <3>1. PICK j \in DOMAIN btc : Is(j, {"DISCONNECT"})
      BY <1>3, <1>4, <2>2 DEF BtInv, Known
    <3> QED
      BY <1>0, <1>3, <3>1 DEF Is
  <2> QED
    BY <1>1, <2>1, <2>2 DEF Known, Up
<1>12. MtuKnown'
  <2>1. mtu_size' >= DefaultMtu
    BY <1>0, <1>2, <1>3 DEF BtInv, MtuKnown
  <2>2. ASSUME NEW c \in BleClients, link[c] \notin {0, DefaultMtu},
               \A i \in DOMAIN btc' : btc'[i].type # "MTU"
        PROVE  mtu_size' = link[c]
    <3>1. CASE type = "MTU"
      BY <1>0, <1>2, <1>3, <2>2, <3>1 DEF BtInv, MtuKnown
    <3>2. CASE type = "CONNECT"
      <4>1. \A i \in DOMAIN btc : btc[i].type # "MTU"
        BY <1>3, <2>2, <3>2
      <4> QED
        BY <1>0, <2>2, <3>2, <4>1 DEF BtInv, MtuKnown
    <3> QED
      BY <1>0, <3>1, <3>2
  <2>3. \A i \in DOMAIN btc' : btc'[i].type = "MTU" =>
          /\ btc'[i].mtu >= DefaultMtu
          /\ btc'[i].mtu = DefaultMtu => localMtu = DefaultMtu
          /\ \A c \in BleClients : link[c] # 0 => btc'[i].mtu = link[c]
    BY <1>3 DEF BtInv, MtuKnown
  <2> QED
    BY <1>1, <2>1, <2>2, <2>3 DEF BtInv, MtuKnown
<1>13. HandleKnown'
  BY <1>1, <1>2, SppPop DEF BtInv
<1> QED
  BY <1>6, <1>7, <1>8, <1>9, <1>10, <1>11, <1>12, <1>13 DEF BtInv

\* The registration hands on to the advertising data.
LEMMA RegisteredKeeps ==
    ASSUME BtInv, Registered
    PROVE  BtInv'
<1> DEFINE a == Ev("ADV_SET", None)
           b == Ev("ATTR_TAB", None)
<1>0. /\ btc # <<>> /\ Head(btc).type = "REG" /\ fault' \in {fault, TRUE}
      /\ btc' = Tail(btc) \o <<a, b>> \/ btc' = Tail(btc) \o <<>>
      /\ UNCHANGED <<ctrl, bluedroid, console, busy, adv, link, localMtu, conn_id,
                     is_connected, mtu_size, listening, paired, open, spp_handle>>
  BY DEF Registered, Take, stackVars, bleVars, connVars, sppVars
<1>1. /\ a \in Events /\ a.type = "ADV_SET" /\ b \in Events /\ b.type = "ATTR_TAB"
  BY DEF Ev, Events, EventTypes
<1>2. btc \in Seq(Events)
  BY DEF BtInv, TypeOK, Events
<1> HIDE DEF a, b, Events
<1>3. /\ Len(btc) \in Nat /\ Len(btc) >= 1 /\ DOMAIN btc = 1 .. Len(btc)
      /\ btc[1].type = "REG"
      /\ Tail(btc) \in Seq(Events) /\ Len(Tail(btc)) = Len(btc) - 1
      /\ \A i \in 1 .. Len(btc) - 1 : Tail(btc)[i] = btc[i + 1]
  BY <1>0, <1>2
<1>4. /\ btc' \in Seq(Events)
      /\ \A i \in DOMAIN btc' : \/ btc'[i] \in {a, b} /\ i >= Len(btc) /\ i \in Nat
                                \/ i + 1 \in DOMAIN btc /\ btc'[i] = btc[i + 1]
      /\ \A i, j \in DOMAIN btc' : btc'[i] = a /\ btc'[j] = a /\ i >= Len(btc) /\ j >= Len(btc) => i = j
      /\ \A j \in DOMAIN btc : j = 1 \/ (j - 1 \in DOMAIN btc' /\ btc'[j - 1] = btc[j])
  <2>1. CASE btc' = Tail(btc) \o <<>>
    <3>1. btc' = Tail(btc)
      BY <1>3, <2>1
    <3> QED
      BY <1>3, <3>1
  <2>2. CASE btc' = Tail(btc) \o <<a, b>>
    <3>1. /\ btc' \in Seq(Events) /\ DOMAIN btc' = 1 .. Len(btc) + 1
          /\ \A i \in 1 .. Len(btc) - 1 : btc'[i] = btc[i + 1]
          /\ btc'[Len(btc)] = a /\ btc'[Len(btc) + 1] = b
      BY <1>1, <1>3, <2>2
    <3>2. a # b
      BY <1>1
    <3> QED
      BY <1>3, <3>1, <3>2
  <2> QED
    BY <1>0, <2>1, <2>2
<1>5. /\ ~adv /\ \A c \in BleClients : link[c] = 0
      /\ \A i \in DOMAIN btc : Is(i, Handover) => i = 1
      /\ \A i \in DOMAIN btc : ~Is(i, LinkEvents)
      /\ 1 \in DOMAIN btc
  <2>1. Is(1, Handover) /\ 1 \in DOMAIN btc
    BY <1>3 DEF Is, Handover
  <2> QED
    BY <1>3, <2>1 DEF BtInv, OneHand, InOrder
<1>6. \A i \in DOMAIN btc' : /\ btc'[i].type \notin LinkEvents
                             /\ btc'[i].type \in Handover =>
                                   btc'[i] = a /\ i >= Len(btc)
  <2>1. ASSUME NEW i \in DOMAIN btc', i + 1 \in DOMAIN btc, btc'[i] = btc[i + 1]
        PROVE  btc'[i].type \notin LinkEvents \cup Handover
    <3>1. i + 1 # 1
      <4>1. i \in Nat /\ i >= 1
        BY <1>4
      <4> QED
        BY <4>1
    <3> QED
      BY <1>5, <2>1, <3>1 DEF Is
  <2> QED
    BY <1>1, <1>4, <2>1 DEF LinkEvents, Handover
<1>7. TypeOK'
  <2>1. fault' \in BOOLEAN /\ (bluedroid' = "enabled" => ctrl' = "enabled" \/ fault')
    BY <1>0, FaultStays DEF BtInv
  <2> QED
    BY <1>0, <1>4, <2>1 DEF BtInv, TypeOK, Events
<1>8. FromClients'
  BY <1>1, <1>4 DEF BtInv, FromClients
<1>9. Fresh'
  BY <1>0, NotFresh DEF BtInv
<1>10. OneHand' /\ InOrder'
  BY <1>0, <1>4, <1>5, <1>6 DEF OneHand, InOrder, Is
<1>11. Known'
  <2>1. \A i \in DOMAIN btc : ~Is(i, {"DISCONNECT"})
    BY <1>3, <1>5 DEF Is, Handover
  <2> QED
    BY <1>0, <1>5, <1>6, <2>1 DEF BtInv, Known, Up, Is
<1>12. MtuKnown'
  BY <1>0, <1>5, <1>6 DEF BtInv, MtuKnown, LinkEvents
<1>13. HandleKnown'
  <2>1. SUFFICES ASSUME Up
                 PROVE  HandleKnown'
    BY <1>0 DEF HandleKnown, Up
  <2>2. ASSUME NEW i \in DOMAIN btc', btc'[i].type = "SRV_OPEN", btc'[i].from \notin open
        PROVE  \E j \in DOMAIN btc' : j > i /\ btc'[j].type = "CLOSE" /\ btc'[j].from = btc'[i].from
    <3>1. i + 1 \in DOMAIN btc /\ btc'[i] = btc[i + 1] /\ i \in Nat /\ i >= 1
      BY <1>1, <1>4, <2>2
    <3>2. PICK j \in DOMAIN btc : /\ j > i + 1 /\ btc[j].type = "CLOSE"
                                  /\ btc[j].from = btc'[i].from
      BY <2>1, <2>2, <3>1 DEF BtInv, HandleKnown
    <3>3. j - 1 > i /\ j # 1
      BY <1>3, <3>1, <3>2
    <3> QED
      BY <1>4, <3>2, <3>3
  <2>3. ASSUME spp_handle # None, spp_handle \notin open
        PROVE  \E j \in DOMAIN btc' : btc'[j].type = "CLOSE" /\ btc'[j].from = spp_handle
    <3>1. PICK j \in DOMAIN btc : btc[j].type = "CLOSE" /\ btc[j].from = spp_handle
      BY <2>1, <2>3 DEF BtInv, HandleKnown
    <3> QED
      BY <1>3, <1>4, <3>1
  <2> QED
    BY <1>0, <2>2, <2>3 DEF HandleKnown
<1> QED
  BY <1>7, <1>8, <1>9, <1>10, <1>11, <1>12, <1>13 DEF BtInv

-----------------------------------------------------------------------------
(* The console *)

\* What a stop does to the state, whether or not the layers refuse.
LEMMA StopFacts ==
    ASSUME TypeOK, NEW host \in {"off", "init", "enabled"}, StopController(host)
    PROVE  /\ ctrl' \in {"idle", "inited", "enabled"} /\ (ctrl' = "idle" => ctrl = "idle")
           /\ bluedroid' = host /\ console' = "ready" /\ fault' \in BOOLEAN
           /\ host = "enabled" => ctrl' = "enabled" \/ fault'
           /\ Up' => host = "enabled" /\ ctrl = "enabled"
           /\ \/ Up' /\ UNCHANGED <<adv, link, listening, open>>
              \/ /\ ~Up' /\ adv' = FALSE /\ \A c \in BleClients : link'[c] = 0
                 /\ link' \in [BleClients -> Nat] /\ listening' = FALSE /\ open' = {}
           /\ UNCHANGED <<busy, localMtu, conn_id, is_connected, mtu_size, paired,
                          spp_handle>>
<1>1. /\ ctrl' \in {"idle", "inited", "enabled"} /\ (ctrl' = "idle" => ctrl = "idle")
      /\ ctrl' = "enabled" => ctrl = "enabled"
  BY DEF StopController, TypeOK
<1>2. fault' \in BOOLEAN /\ (host = "enabled" => ctrl' = "enabled" \/ fault')
  BY Zenon DEF StopController
<1>3. \/ Up' /\ UNCHANGED <<adv, link, listening, open>>
      \/ /\ ~Up' /\ adv' = FALSE /\ link' = [c \in BleClients |-> 0]
         /\ listening' = FALSE /\ open' = {}
  BY Zenon DEF StopController
<1>4. /\ bluedroid' = host /\ console' = "ready"
      /\ UNCHANGED <<busy, localMtu, conn_id, is_connected, mtu_size, paired, spp_handle>>
  BY DEF StopController, connVars
<1>5. Up' => host = "enabled" /\ ctrl = "enabled"
  BY <1>1, <1>4 DEF Up
<1> QED
  BY <1>1, <1>2, <1>3, <1>4, <1>5

\* A stop leaves the events that wait: one that hands advertising on may be left.
LEMMA StopKeeps ==
    ASSUME BtInv, NEW host \in {"off", "init", "enabled"}, StopController(host),
           host = "enabled" => bluedroid = "enabled",
           btc' \in Seq(Events), FromClients', Fresh',
           \/ UNCHANGED btc
           \/ Popped("DISABLE")
    PROVE  BtInv'
<1>1. /\ ctrl' \in {"idle", "inited", "enabled"} /\ (ctrl' = "idle" => ctrl = "idle")
      /\ bluedroid' = host /\ console' = "ready" /\ fault' \in BOOLEAN
      /\ host = "enabled" => ctrl' = "enabled" \/ fault'
      /\ Up' => host = "enabled" /\ ctrl = "enabled"
      /\ \/ Up' /\ UNCHANGED <<adv, link, listening, open>>
         \/ /\ ~Up' /\ adv' = FALSE /\ \A c \in BleClients : link'[c] = 0
            /\ link' \in [BleClients -> Nat] /\ listening' = FALSE /\ open' = {}
      /\ UNCHANGED <<busy, localMtu, conn_id, is_connected, mtu_size, paired, spp_handle>>
  BY StopFacts DEF BtInv
<1>2. TypeOK'
  BY <1>1 DEF BtInv, TypeOK, Events
<1>3. CASE Up'
  <2>1. UNCHANGED <<ctrl, bluedroid, adv, link, localMtu, conn_id, is_connected, mtu_size,
                    open, spp_handle>>
    BY <1>1, <1>3 DEF Up
  <2>2. CASE Popped("DISABLE")
    BY <1>2, <2>1, <2>2, BlePop, SppPop DEF BtInv, Handover, LinkEvents
  <2>3. CASE UNCHANGED btc
    <3>1. OneHand' /\ InOrder'
      BY <2>1, <2>3 DEF BtInv, OneHand, InOrder, Is
    <3>2. Known' /\ MtuKnown'
      BY <2>1, <2>3 DEF BtInv, Known, Up, MtuKnown, Is
    <3>3. HandleKnown'
      BY <2>1, <2>3 DEF BtInv, HandleKnown, Up
    <3> QED
      BY <1>2, <3>1, <3>2, <3>3 DEF BtInv
  <2> QED
    BY <2>2, <2>3
<1>4. CASE ~Up'
  <2>1. /\ ~adv' /\ UNCHANGED <<localMtu, mtu_size>>
        /\ \A c \in BleClients : link'[c] = 0
    BY <1>1, <1>4
  <2>4. Known' /\ HandleKnown'
    BY <1>4, <2>1 DEF Known, HandleKnown
  <2>2. CASE Popped("DISABLE")
    <3>1. \A i \in DOMAIN btc' : i + 1 \in DOMAIN btc /\ btc'[i] = btc[i + 1] /\ i \in Nat
      BY <2>2, PopShift
    <3>2. OneHand' /\ InOrder'
      BY <2>1, <2>2, <3>1 DEF BtInv, OneHand, InOrder, Is, Popped
    <3>3. MtuKnown'
      BY <2>1, <3>1 DEF BtInv, MtuKnown
    <3> QED
      BY <1>2, <2>4, <3>2, <3>3, ZenonT(60) DEF BtInv
  <2>3. CASE UNCHANGED btc
    <3>1. OneHand' /\ InOrder'
      BY <2>1, <2>3 DEF BtInv, OneHand, InOrder, Is
    <3>2. MtuKnown'
      BY <2>1, <2>3 DEF BtInv, MtuKnown
    <3> QED
      BY <1>2, <2>4, <3>1, <3>2 DEF BtInv
  <2> QED
    BY <2>2, <2>3
<1> QED
  BY <1>3, <1>4

\* The BTC task serves esp_bluedroid_disable, and the console goes on.
LEMMA DisableKeeps ==
    ASSUME BtInv, Disable
    PROVE  BtInv'
<1>1. PICK host \in {"off", "init", "enabled"} :
         StopController(host) /\ (host = "enabled" => bluedroid = "enabled")
  BY DEF Disable, BtInv, TypeOK
<1>2. Popped("DISABLE") /\ btc' \in Seq(Events) /\ btc # <<>>
  BY PopFacts DEF BtInv, Disable
<1>4. FromClients'
  BY <1>2, FromPop DEF BtInv
<1>5. Fresh'
  <2>1. ctrl # "idle" /\ (ctrl' = "idle" => ctrl = "idle")
    BY <1>1, <1>2, StopFacts DEF BtInv, Fresh
  <2> QED
    BY <2>1 DEF Fresh
<1> QED
  BY <1>1, <1>2, <1>4, <1>5, StopKeeps

\* ble --stop: the end of the stack is queued, or the controller is disabled.
LEMMA BleStopKeeps ==
    ASSUME BtInv, BleStop
    PROVE  BtInv'
<1>1. CASE /\ bluedroid = "enabled" /\ btc' = Append(btc, Ev("DISABLE", None))
           /\ console' = "stopping"
           /\ UNCHANGED <<ctrl, bluedroid, busy, adv, link, localMtu, conn_id, is_connected,
                          mtu_size, listening, paired, open, spp_handle, fault>>
  <2> DEFINE e == Ev("DISABLE", None)
  <2>1. e \in Events /\ e.type = "DISABLE"
    BY DEF Ev, Events, EventTypes
  <2>2. Pushed(e) /\ btc' \in Seq(Events)
    BY <1>1, <2>1, PushFacts DEF BtInv
  <2> HIDE DEF e
  <2>3. TypeOK'
    BY <1>1, <2>2 DEF BtInv, TypeOK, Events
  <2>4. FromClients'
    BY <2>1, <2>2, FromPush DEF BtInv
  <2>5. OneHand' /\ InOrder' /\ Known' /\ MtuKnown'
    BY <1>1, <2>1, <2>2, BlePush DEF BtInv, Handover, LinkEvents
  <2>6. HandleKnown'
    BY <1>1, <2>1, <2>2, SppPush DEF BtInv
  <2>7. Fresh'
    BY <1>1 DEF BtInv, Fresh
  <2> QED
    BY <2>3, <2>4, <2>5, <2>6, <2>7 DEF BtInv
<1>2. CASE StopController(bluedroid) /\ UNCHANGED btc
  <2>1. bluedroid \in {"off", "init", "enabled"} /\ btc' \in Seq(Events)
    BY <1>2 DEF BtInv, TypeOK, Events
  <2>2. FromClients'
    BY <1>2 DEF BtInv, FromClients
  <2>3. Fresh'
    BY <1>2, <2>1, StopFacts DEF BtInv, Fresh
  <2> QED
    BY <1>2, <2>1, <2>2, <2>3, StopKeeps
<1> QED
  BY <1>1, <1>2 DEF BleStop, bleVars, connVars, sppVars

\* ble --start and bt --start: the stack comes up once.
LEMMA StartKeeps ==
    ASSUME BtInv, StartBleServer \/ InitBt
    PROVE  BtInv'
<1>0. /\ UNCHANGED <<console, busy, adv, link, conn_id, is_connected, mtu_size, listening,
                     paired, open, spp_handle, fault>>
      /\ \E done \in BOOLEAN, events \in {<<>>, <<Ev("INIT", None)>>} :
            /\ BringUp(done)
            /\ IF done THEN InitBleSvc(events) ELSE UNCHANGED <<btc, localMtu>>
  BY DEF StartBleServer, InitBt, connVars, sppVars
<1>1. PICK done \in BOOLEAN, events \in {<<>>, <<Ev("INIT", None)>>} :
            /\ BringUp(done)
            /\ IF done THEN InitBleSvc(events) ELSE UNCHANGED <<btc, localMtu>>
  BY <1>0
<1>2. \/ /\ UNCHANGED <<btc, localMtu>>
         /\ \/ UNCHANGED <<ctrl, bluedroid>>
            \/ /\ ctrl = "idle" /\ ctrl' \in {"idle", "inited", "enabled"}
               /\ bluedroid' \in {"off", "init"}
      \/ /\ ctrl = "idle" /\ ctrl' = "enabled" /\ bluedroid' = "enabled"
         /\ InitBleSvc(events)
  BY <1>1 DEF BringUp
<1>3. CASE UNCHANGED <<btc, localMtu, ctrl, bluedroid>>
  BY <1>0, <1>3, LoraSentKeeps DEF vars
<1>4. CASE /\ UNCHANGED <<btc, localMtu>>
           /\ ctrl = "idle" /\ ctrl' \in {"idle", "inited", "enabled"}
           /\ bluedroid' \in {"off", "init"}
  <2>1. TypeOK'
    BY <1>0, <1>4 DEF BtInv, TypeOK
  <2>2. FromClients' /\ Fresh'
    BY <1>0, <1>4 DEF BtInv, FromClients, Fresh
  <2>3. OneHand' /\ InOrder'
    BY <1>0, <1>4 DEF BtInv, OneHand, InOrder, Is
  <2>4. Known' /\ MtuKnown'
    BY <1>0, <1>4 DEF BtInv, Known, Up, MtuKnown, Is
  <2>5. HandleKnown'
    BY <1>4 DEF HandleKnown, Up
  <2> QED
    BY <2>1, <2>2, <2>3, <2>4, <2>5 DEF BtInv
<1>5. CASE /\ ctrl = "idle" /\ ctrl' = "enabled" /\ bluedroid' = "enabled"
           /\ InitBleSvc(events)
  <2> DEFINE a == Ev("REG", None)
             b == Ev("INIT", None)
  <2>1. a \in Events /\ a.type = "REG" /\ b \in Events /\ b.type = "INIT"
    BY DEF Ev, Events, EventTypes
  <2>2. /\ btc = <<>> /\ ~adv /\ ~is_connected /\ spp_handle = None
        /\ \A c \in BleClients : link[c] = 0
        /\ btc' = <<>> \o <<a>> \o events /\ events \in {<<>>, <<b>>}
        /\ localMtu' \in {DefaultMtu, ServerMtu}
    BY <1>5 DEF BtInv, Fresh, InitBleSvc
  <2> HIDE DEF a, b, Events
  <2>3. btc' = <<>> \o <<a>> \o <<>> \/ btc' = <<>> \o <<a>> \o <<b>>
    BY <2>2
  <2>4. \A i \in DOMAIN btc' : (i = 1 /\ btc'[i] = a) \/ (i = 2 /\ btc'[i] = b)
    <3>1. \A s : s = <<>> \o <<a>> \o <<>> \/ s = <<>> \o <<a>> \o <<b>> =>
                  \A i \in DOMAIN s : (i = 1 /\ s[i] = a) \/ (i = 2 /\ s[i] = b)
      BY StartPositions, Zenon
    <3> QED
      BY <2>3, <3>1, Zenon
  <2>10. btc' \in Seq(Events)
    BY <2>1, <2>3, StartQueue
  <2>5. TypeOK'
    BY <1>0, <1>5, <2>2, <2>10, MtuFacts DEF BtInv, TypeOK, Events
  <2>6. FromClients' /\ Fresh'
    BY <1>5, <2>1, <2>4 DEF FromClients, Fresh
  <2>7. OneHand' /\ InOrder'
    <3>1. /\ ~adv' /\ \A c \in BleClients : link'[c] = 0
          /\ \A i \in DOMAIN btc' : btc'[i].type \in {"REG", "INIT"}
          /\ \A i \in DOMAIN btc' : btc'[i].type = "REG" => i = 1
      BY <1>0, <2>1, <2>2, <2>4
    <3> QED
      BY <3>1 DEF OneHand, InOrder, Is, Handover, LinkEvents
  <2>8. Known' /\ MtuKnown'
    BY <1>0, <2>1, <2>2, <2>4 DEF BtInv, Known, MtuKnown, Is, LinkEvents
  <2>9. HandleKnown'
    BY <1>0, <2>1, <2>2, <2>4 DEF HandleKnown
  <2> QED
    BY <2>5, <2>6, <2>7, <2>8, <2>9 DEF BtInv
<1> QED
  BY <1>2, <1>3, <1>4, <1>5

\* Power on.
LEMMA BtInvInit == Init => BtInv
<1> SUFFICES ASSUME Init
             PROVE  BtInv
  OBVIOUS
<1>1. TypeOK
  <2>1. btc \in Seq(Events)
    BY DEF Init
  <2> QED
    BY <2>1, MtuFacts DEF Init, TypeOK, Events
<1>2. DOMAIN btc = {}
  BY DEF Init
<1>3. FromClients /\ Fresh /\ OneHand /\ InOrder
  BY <1>2 DEF Init, FromClients, Fresh, OneHand, InOrder
<1>4. Known /\ MtuKnown /\ HandleKnown
  BY <1>2, MtuFacts DEF Init, Known, MtuKnown, HandleKnown
<1> QED
  BY <1>1, <1>3, <1>4 DEF BtInv

\* Every step of the servers keeps the invariant.
LEMMA BtInvNext == BtInv /\ [Next]_vars => BtInv'
<1> SUFFICES ASSUME BtInv, [Next]_vars
             PROVE  BtInv'
  OBVIOUS
<1>1. CASE Handle
  BY <1>1, RegisteredKeeps, AdvertiseKeeps, LinkEventKeeps, SppHandlerKeeps, DisableKeeps
  DEF Handle
<1> QED
  BY <1>1, StartKeeps, BleStopKeeps, LoraSentKeeps, ConnectKeeps, DisconnectKeeps,
     ExchangeKeeps, SppClientKeeps DEF Next

\* In either build.
THEOREM BtInvHolds == MCSpec => []BtInv
<1>1. MCInit => BtInv
  BY BtInvInit DEF MCInit
<1>2. BtInv /\ [MCNext]_<<vars, hciVars, build>> => BtInv'
  <2> SUFFICES ASSUME BtInv, [MCNext]_<<vars, hciVars, build>>
               PROVE  BtInv'
    OBVIOUS
  <2>1. [Next]_vars
    BY DEF MCNext
  <2> QED
    BY <2>1, BtInvNext
<1> QED
  BY <1>1, <1>2, PTL DEF MCSpec

-----------------------------------------------------------------------------
(* The theorems about the servers over Bluedroid *)

\* Every variable keeps its type, and the host stack is never enabled over a
\* controller that is not.
THEOREM TypeCorrect == MCSpec => []TypeOK
<1>1. BtInv => TypeOK
  BY DEF BtInv
<1> QED
  BY <1>1, BtInvHolds, PTL

\* At most one BLE client has a link, and nobody can connect before the end of
\* the last link was handled, although the code never checks it.
THEOREM SingleClientHolds == MCSpec => []SingleClient
<1>1. BtInv => SingleClient
  <2> SUFFICES ASSUME BtInv
               PROVE  SingleClient
    OBVIOUS
  <2>1. Cardinality(Linked) <= 1
    <3>1. CASE Linked = {}
      BY <3>1, FS_EmptySet
    <3>2. CASE Linked # {}
      <4>1. PICK c : c \in Linked
        BY <3>2
      <4>2. Linked = {c}
        BY <4>1 DEF Linked, BtInv, OneHand
      <4> QED
        BY <4>2, FS_Singleton
    <3> QED
      BY <3>1, <3>2
  <2>2. adv => Linked = {} /\ Waiting({"CONNECT", "DISCONNECT"}) = {}
    BY DEF Linked, Waiting, BtInv, OneHand, InOrder, Is, Handover, LinkEvents
  <2> QED
    BY <2>1, <2>2 DEF SingleClient
<1> QED
  BY <1>1, BtInvHolds, PTL

\* Once the events of BLE links are handled the driver knows the link there is,
\* and the MTU that was agreed on it.
THEOREM LinkKnownHolds == MCSpec => []LinkKnown
<1>1. BtInv => LinkKnown
  <2> SUFFICES ASSUME BtInv, Up,
                      Waiting({"CONNECT", "MTU", "DISCONNECT"}) = {}
               PROVE  /\ is_connected <=> Linked # {}
                      /\ \A c \in Linked : /\ conn_id = c
                                           /\ link[c] # DefaultMtu => mtu_size = link[c]
    BY DEF LinkKnown
  <2>1. \A i \in DOMAIN btc : btc[i].type \notin {"CONNECT", "MTU", "DISCONNECT"}
    BY DEF Waiting
  <2>2. \A c \in Linked : is_connected /\ conn_id = c
    BY <2>1 DEF BtInv, Known, Linked, Is
  <2>3. Linked = {} => ~is_connected
    BY <2>1 DEF BtInv, Known, Linked, Is
  <2>4. \A c \in Linked : link[c] # DefaultMtu => mtu_size = link[c]
    BY <2>1 DEF BtInv, MtuKnown, Linked
  <2> QED
    BY <2>2, <2>3, <2>4
<1> QED
  BY <1>1, BtInvHolds, PTL

\* btSend never writes to a handle that was closed, except while the event of
\* its end still waits.
THEOREM HandleOpenHolds == MCSpec => []HandleOpen
<1>1. BtInv => HandleOpen
  BY DEF BtInv, HandleKnown, HandleOpen, btSend, Waiting
<1> QED
  BY <1>1, BtInvHolds, PTL

-----------------------------------------------------------------------------
(* The pieces of a message *)

\* Division with remainder.
LEMMA Division ==
    ASSUME NEW a \in Nat, NEW b \in Nat, b > 0
    PROVE  \E q \in Nat, r \in Nat :
              q = a \div b /\ r = a % b /\ r < b /\ a = b * q + r
<1>1. a \div b \in Nat /\ a % b \in Nat /\ a % b < b
  OBVIOUS
<1>2. \A q, r \in Nat : q = a \div b /\ r = a % b => a = b * q + r
  OBVIOUS
<1> QED
  BY <1>1, <1>2

\* The number of pieces of a message is below the largest byte, so that the loop
\* over them ends, and they are just enough.
LEMMA Pieces ==
    ASSUME NEW size \in Nat, NEW piece \in Nat, piece > 0, piece < size,
           NEW k \in Nat, k <= piece, size <= 254 * k
    PROVE  LET t == (IF size % piece = 0 THEN size \div piece ELSE size \div piece + 1) % 256
           IN  t \in Nat /\ t >= 1 /\ t < 255 /\ size <= piece * t
<1>1. PICK q \in Nat, r \in Nat :
         q = size \div piece /\ r = size % piece /\ r < piece /\ size = piece * q + r
  BY Division
<1>2. piece * 254 >= size
  OBVIOUS
<1>3. q <= 254 /\ (r # 0 => q < 254)
  <2>1. q <= 254
    <3> SUFFICES ASSUME q >= 255 PROVE FALSE
      OBVIOUS
    <3>1. piece * 255 <= piece * q
      OBVIOUS
    <3> QED
      BY <1>1, <1>2, <3>1
  <2>2. ASSUME r # 0 PROVE q # 254
    BY <1>1, <1>2, <2>2
  <2> QED
    BY <2>1, <2>2
<1>4. q >= 1
  <2> SUFFICES ASSUME q = 0 PROVE FALSE
    OBVIOUS
  <2> QED
    BY <1>1
<1> DEFINE u == IF r = 0 THEN q ELSE q + 1
<1>5. u \in Nat /\ u >= 1 /\ u <= 254
  BY <1>3, <1>4
<1>6. size <= piece * u
  <2>1. CASE r = 0
    BY <1>1, <2>1
  <2>2. CASE r # 0
    <3>1. piece * (q + 1) = piece * q + piece
      OBVIOUS
    <3> QED
      BY <1>1, <2>2, <3>1
  <2> QED
    BY <2>1, <2>2
<1>7. u % 256 = u
  BY <1>5
<1> QED
  BY <1>1, <1>5, <1>6, <1>7

\* A message is cut from its first byte to its last, in pieces of which none is
\* larger than the MTU in spp_mtu_size allows.
LEMMA SendFacts ==
    ASSUME BtInv, NEW size \in Nat, size <= MaxMessage, NEW room \in BOOLEAN,
           room \/ size <= mtu_size - 3
    PROVE  LET part == bleSend(size, room)
               last == Len(part)
           IN  /\ last \in Nat /\ last >= 1 /\ part[1].from = 0
               /\ part[last].from + part[last].len = size
               /\ \A n \in 1 .. last - 1 : part[n].from + part[n].len = part[n + 1].from
               /\ \A n \in 1 .. last : part[n].bytes \in Int /\ part[n].bytes <= mtu_size - 3
<1> DEFINE piece == mtu_size - 7
           t == Total(size)
           part == bleSend(size, room)
<1>1. /\ mtu_size \in Nat /\ piece \in Nat /\ piece > 0 /\ DefaultMtu - 7 \in Nat
      /\ DefaultMtu - 7 <= piece /\ size <= 254 * (DefaultMtu - 7)
  <2>1. mtu_size \in Nat /\ mtu_size >= DefaultMtu
    BY DEF BtInv, TypeOK, MtuKnown
  <2>2. /\ DefaultMtu \in Nat /\ DefaultMtu > 7 /\ MaxMessage \in Nat
        /\ MaxMessage <= 254 * (DefaultMtu - 7)
    BY BtAssumption
  <2> QED
    BY <2>1, <2>2
<1>2. t \in Nat /\ t >= 1 /\ (size > mtu_size - 3 => size <= piece * t)
  <2>1. CASE size <= mtu_size - 3
    BY <1>1, <2>1 DEF Total
  <2>2. CASE size > mtu_size - 3
    <3>1. t = (IF size % piece = 0 THEN size \div piece ELSE size \div piece + 1) % 256
      BY <1>1, <2>2 DEF Total
    <3>2. piece < size
      BY <1>1, <2>2
    <3> HIDE DEF piece, t
    <3> QED
      BY <1>1, <3>1, <3>2, Pieces
  <2> QED
    BY <1>1, <2>1, <2>2
<1>a. part = [n \in 1 .. t |->
                IF size <= mtu_size - 3 THEN [from |-> 0, len |-> size, bytes |-> size]
                ELSE LET len == IF n < t THEN piece ELSE size - (n - 1) * piece
                     IN  [from |-> (n - 1) * piece, len |-> len, bytes |-> len + 4]]
  BY DEF bleSend
<1>3. /\ DOMAIN part = 1 .. t
      /\ \A n \in 1 .. t : size <= mtu_size - 3 =>
            part[n] = [from |-> 0, len |-> size, bytes |-> size]
      /\ \A n \in 1 .. t : size > mtu_size - 3 /\ n < t =>
            part[n] = [from |-> (n - 1) * piece, len |-> piece, bytes |-> piece + 4]
      /\ size > mtu_size - 3 =>
            part[t] = [from |-> (t - 1) * piece, len |-> size - (t - 1) * piece,
                       bytes |-> size - (t - 1) * piece + 4]
  <2> HIDE DEF part, t
  <2> QED
    BY <1>1, <1>2, <1>a
<1>4. Len(part) = t
  <2>1. part = [n \in 1 .. t |-> part[n]]
    BY <1>3, <1>a
  <2> HIDE DEF part, t
  <2> QED
    BY <1>2, <2>1
<1> HIDE DEF part, t
<1>5. CASE size <= mtu_size - 3
  <2>1. t = 1
    BY <1>5 DEF t, Total
  <2> QED
    BY <1>1, <1>3, <1>4, <1>5, <2>1 DEF part
<1>6. CASE size > mtu_size - 3
  <2>1. \A n \in 1 .. t : (n - 1) * piece \in Nat /\ (n - 1) * piece + piece = n * piece
    BY <1>1, <1>2
  <2>2. size - (t - 1) * piece <= piece
    <3>1. piece * t = t * piece
      BY <1>1, <1>2
    <3> QED
      BY <1>1, <1>2, <1>6, <2>1, <3>1
  <2> HIDE DEF piece
  <2>3. part[1].from = 0
    BY <1>1, <1>2, <1>3, <1>6
  <2>4. part[t].from + part[t].len = size
    BY <1>1, <1>2, <1>3, <1>6, <2>1
  <2>5. \A n \in 1 .. t - 1 : part[n].from + part[n].len = part[n + 1].from
    <3> SUFFICES ASSUME NEW n \in 1 .. t - 1
                 PROVE  part[n].from + part[n].len = part[n + 1].from
      OBVIOUS
    <3>1. part[n].from + part[n].len = n * piece
      <4>1. n \in 1 .. t /\ n < t
        BY <1>2
      <4>2. part[n] = [from |-> (n - 1) * piece, len |-> piece, bytes |-> piece + 4]
        BY <1>3, <1>6, <4>1
      <4>3. (n - 1) * piece + piece = n * piece
        BY <2>1, <4>1
      <4> QED
        BY <4>2, <4>3
    <3>2. PICK m \in 1 .. t : m = n + 1
      BY <1>2
    <3>3. part[m].from = (m - 1) * piece
      <4>1. CASE m < t
        BY <1>3, <1>6, <4>1
      <4>2. CASE m = t
        BY <1>3, <1>6, <4>2
      <4> QED
        BY <1>2, <4>1, <4>2
    <3>4. m - 1 = n
      BY <1>2, <3>2
    <3> QED
      BY <3>1, <3>2, <3>3, <3>4
  <2>6. \A n \in 1 .. t : part[n].bytes \in Int /\ part[n].bytes <= piece + 4
    <3> SUFFICES ASSUME NEW n \in 1 .. t
                 PROVE  part[n].bytes \in Int /\ part[n].bytes <= piece + 4
      OBVIOUS
    <3>1. CASE n < t
      BY <1>1, <1>3, <1>6, <3>1
    <3>2. CASE n = t
      <4>1. part[t].bytes = size - (t - 1) * piece + 4
        BY <1>3, <1>6
      <4> QED
        BY <1>1, <1>2, <2>1, <2>2, <3>2, <4>1
    <3> QED
      BY <1>2, <3>1, <3>2
  <2>7. piece + 4 = mtu_size - 3
    BY <1>1 DEF piece
  <2> QED
    BY <1>1, <1>2, <1>4, <2>3, <2>4, <2>5, <2>6, <2>7 DEF part
<1> QED
  BY <1>1, <1>5, <1>6

\* A message that is about to be forwarded reaches the client in full and in
\* order, in pieces that fit the link, whatever MTU earlier clients left behind.
THEOREM FragmentsCoverHolds == MCSpec => []FragmentsCover
<1>1. BtInv => FragmentsCover
  <2> DEFINE Covers(part, size) ==
               LET last == Len(part)
               IN  /\ last >= 1 /\ part[1].from = 0
                   /\ part[last].from + part[last].len = size
                   /\ \A n \in 1 .. last - 1 : part[n].from + part[n].len = part[n + 1].from
                   /\ \A n \in 1 .. last :
                         /\ part[n].bytes <= mtu_size - 3
                         /\ Waiting({"CONNECT", "MTU", "DISCONNECT"}) = {} =>
                               \A c \in Linked : link[c] # DefaultMtu =>
                                  part[n].bytes <= link[c] - 3
  <2> SUFFICES ASSUME BtInv, NEW size \in EdgeSizes, NEW room \in BOOLEAN
               PROVE  \/ Len(bleSend(size, room)) = 0 /\ ~room /\ size > mtu_size - 3
                      \/ Covers(bleSend(size, room), size)
    BY Zenon DEF FragmentsCover
  <2>1. size \in Nat /\ size <= MaxMessage
    <3>1. mtu_size \in Nat /\ mtu_size > 7 /\ MaxMessage \in Nat
      BY BtAssumption DEF BtInv, TypeOK, MtuKnown
    <3>2. \A k \in 1 .. 5, d \in {0, 1} : k * (mtu_size - 7) + d \in Nat
      BY <3>1
    <3> QED
      BY <3>1, <3>2 DEF EdgeSizes
  <2>2. Waiting({"CONNECT", "MTU", "DISCONNECT"}) = {} =>
           \A c \in Linked : link[c] # DefaultMtu => mtu_size = link[c]
    BY DEF Waiting, BtInv, MtuKnown, Linked
  <2> HIDE DEF EdgeSizes
  <2>3. CASE room \/ size <= mtu_size - 3
    <3>1. LET part == bleSend(size, room)
              last == Len(part)
          IN  /\ last \in Nat /\ last >= 1 /\ part[1].from = 0
              /\ part[last].from + part[last].len = size
              /\ \A n \in 1 .. last - 1 : part[n].from + part[n].len = part[n + 1].from
              /\ \A n \in 1 .. last : part[n].bytes \in Int /\ part[n].bytes <= mtu_size - 3
      BY <2>1, <2>3, SendFacts, Zenon
    <3> QED
      BY <2>2, <3>1
  <2>4. CASE ~(room \/ size <= mtu_size - 3)
    <3>1. mtu_size \in Nat
      BY DEF BtInv, TypeOK
    <3>2. bleSend(size, room) = <<>>
      BY <2>4 DEF bleSend
    <3> QED
      BY <2>1, <2>4, <3>1, <3>2
  <2> QED
    BY <2>3, <2>4
<1> QED
  BY <1>1, BtInvHolds, PTL

-----------------------------------------------------------------------------
(* The raw HCI *)

\* A task is about to send only while it has a command left.
SendLeft == \A t \in DOMAIN tasks : tasks[t].at = "send" => tasks[t].cmd_cnt <= 3

\* What holds at each step of the console: a start goes on only over a controller
\* it enabled itself, hence from a server that did not run, and a stop silences
\* the controller before hciRun is cleared, unless it stays enabled.
ConsoleSteps ==
    /\ hconsole \in {"run", "create"} => hctrl = "enabled"
    /\ hconsole = "create" => hciRun
    /\ hconsole = "stop" => kept \/ (hctrl # "enabled" /\ ~hadv)
    /\ hconsole = "ready" /\ ~hciRun => kept \/ (hctrl # "enabled" /\ ~hadv)
    /\ hconsole = "ready" /\ hciRun => hctrl = "enabled"

\* The task of the latest start lives while the server runs, if it was created: it
\* is deleted only when it sees that hciRun was cleared.
LatestAlive ==
    hconsole = "ready" /\ hciRun => /\ Len(tasks) >= 1
                                    /\ tasks[Len(tasks)].at # "deleted"

HciInv == Hci!TypeOK /\ SendLeft /\ ConsoleSteps /\ LatestAlive

TaskStates == [at : {"test", "delay", "send", "deleted", "failed"}, cmd_cnt : 0 .. 4]

\* The console moves between its steps.
LEMMA HciConsoleKeeps ==
    ASSUME HciInv, Hci!StartHci \/ Hci!SetRun \/ Hci!StopHci \/ Hci!ClearRun
    PROVE  HciInv'
<1> USE DEF HciInv, Hci!TypeOK, SendLeft, ConsoleSteps, LatestAlive
<1>1. CASE Hci!StartHci
  BY <1>1 DEF Hci!StartHci
<1>2. CASE Hci!SetRun
  BY <1>2 DEF Hci!SetRun
<1>3. CASE Hci!StopHci
  BY <1>3 DEF Hci!StopHci
<1>4. CASE Hci!ClearRun
  BY <1>4 DEF Hci!ClearRun
<1> QED
  BY <1>1, <1>2, <1>3, <1>4

\* A start ends with a task of its own, or without one.
LEMMA HciCreateKeeps ==
    ASSUME HciInv, Hci!CreateTask
    PROVE  HciInv'
<1>0. PICK at \in {"test", "failed"} : tasks' = Append(tasks, [at |-> at, cmd_cnt |-> 0])
  BY DEF Hci!CreateTask
<1> DEFINE task == [at |-> at, cmd_cnt |-> 0]
<1>1. /\ hconsole = "create" /\ hconsole' = "ready" /\ tasks' = Append(tasks, task)
      /\ UNCHANGED <<hctrl, hadv, hciInit, hciRun, hci_cmd_buf, kept>>
      /\ tasks \in Seq(TaskStates) /\ task \in TaskStates
  BY <1>0 DEF HciInv, Hci!TypeOK, Hci!CreateTask, TaskStates
<1>2. /\ tasks' \in Seq(TaskStates)
      /\ Len(tasks) \in Nat /\ DOMAIN tasks = 1 .. Len(tasks)
      /\ Len(tasks') = Len(tasks) + 1
      /\ DOMAIN tasks' = 1 .. Len(tasks) + 1 /\ tasks'[Len(tasks) + 1] = task
      /\ \A t \in 1 .. Len(tasks) : tasks'[t] = tasks[t]
  <2> HIDE DEF task, TaskStates
  <2> QED
    BY <1>1
<1>3. Hci!TypeOK'
  BY <1>1, <1>2 DEF HciInv, Hci!TypeOK, TaskStates
<1>4. SendLeft'
  BY <1>1, <1>2 DEF HciInv, SendLeft
<1>5. ConsoleSteps'
  BY <1>1 DEF HciInv, ConsoleSteps
<1>6. LatestAlive'
  BY <1>2 DEF LatestAlive
<1> QED
  BY <1>3, <1>4, <1>5, <1>6 DEF HciInv

\* A task takes a step: nothing of the console changes, and only a task that sees
\* hciRun cleared ends.
LEMMA HciTaskKeeps ==
    ASSUME HciInv, NEW t \in DOMAIN tasks, Hci!Task(t)
    PROVE  HciInv'
<1> USE DEF HciInv
<1>1. /\ tasks \in Seq(TaskStates) /\ tasks[t] \in TaskStates
      /\ UNCHANGED <<hctrl, hciInit, hciRun, hconsole, kept>>
  <2>1. tasks \in Seq(TaskStates)
    BY DEF Hci!TypeOK, TaskStates
  <2>2. UNCHANGED <<hctrl, hciInit, hciRun, hconsole, kept>>
    BY DEF Hci!Task, Hci!Test, Hci!Fill, Hci!Busy, Hci!Send
  <2> HIDE DEF TaskStates
  <2> QED
    BY <2>1, <2>2
<1>2. \E new \in TaskStates :
         /\ tasks' = [tasks EXCEPT ![t] = new]
         /\ new.at = "send" => new.cmd_cnt <= 3
         /\ new.at = "deleted" => ~hciRun
  <2>1. tasks[t].cmd_cnt \in 0 .. 4
        /\ \A at \in {"test", "delay", "send", "deleted"} :
              /\ [tasks[t] EXCEPT !.at = at] \in TaskStates
              /\ [tasks[t] EXCEPT !.at = at].at = at
              /\ [tasks[t] EXCEPT !.at = at].cmd_cnt = tasks[t].cmd_cnt
    BY <1>1 DEF TaskStates
  <2>2. CASE Hci!Test(t)
    <3>1. PICK at \in {"delay", "deleted"} :
             /\ tasks' = [tasks EXCEPT ![t] = [tasks[t] EXCEPT !.at = at]]
             /\ at = "deleted" => ~hciRun
      BY <2>2 DEF Hci!Test, Hci!Move
    <3>2. [tasks[t] EXCEPT !.at = at] \in TaskStates
      BY <2>1
    <3> WITNESS [tasks[t] EXCEPT !.at = at] \in TaskStates
    <3> QED
      BY <2>1, <3>1
  <2>3. CASE Hci!Fill(t)
    <3>1. PICK at \in {"test", "send"} :
             /\ tasks' = [tasks EXCEPT ![t] = [tasks[t] EXCEPT !.at = at]]
             /\ at = "send" => tasks[t].cmd_cnt <= 3
      BY <2>1, <2>3 DEF Hci!Fill, Hci!Move, Hci!Commands, Hci!Reset, Hci!AdvEnable
    <3>2. [tasks[t] EXCEPT !.at = at] \in TaskStates
      BY <2>1
    <3> WITNESS [tasks[t] EXCEPT !.at = at] \in TaskStates
    <3> QED
      BY <2>1, <3>1
  <2>4. CASE Hci!Busy(t)
    <3>1. tasks' = [tasks EXCEPT ![t] = [tasks[t] EXCEPT !.at = "test"]]
      BY <2>4 DEF Hci!Busy, Hci!Move
    <3>2. [tasks[t] EXCEPT !.at = "test"] \in TaskStates
      BY <2>1
    <3> WITNESS [tasks[t] EXCEPT !.at = "test"] \in TaskStates
    <3> QED
      BY <2>1, <3>1
  <2>5. CASE Hci!Send(t)
    <3>1. /\ tasks' = [tasks EXCEPT ![t] = [at |-> "test", cmd_cnt |-> tasks[t].cmd_cnt + 1]]
          /\ tasks[t].cmd_cnt <= 3
      BY <2>5 DEF Hci!Send, SendLeft
    <3>2. [at |-> "test", cmd_cnt |-> tasks[t].cmd_cnt + 1] \in TaskStates
      BY <2>1, <3>1 DEF TaskStates
    <3> WITNESS [at |-> "test", cmd_cnt |-> tasks[t].cmd_cnt + 1] \in TaskStates
    <3> QED
      BY <3>1
  <2> QED
    BY <2>2, <2>3, <2>4, <2>5 DEF Hci!Task
<1>3. PICK new \in TaskStates :
         /\ tasks' = [tasks EXCEPT ![t] = new]
         /\ new.at = "send" => new.cmd_cnt <= 3
         /\ new.at = "deleted" => ~hciRun
  BY <1>2
<1>4. /\ tasks' \in Seq(TaskStates) /\ DOMAIN tasks' = DOMAIN tasks /\ tasks'[t] = new
      /\ Len(tasks') = Len(tasks) /\ DOMAIN tasks = 1 .. Len(tasks) /\ Len(tasks) \in Nat
      /\ \A u \in DOMAIN tasks : u # t => tasks'[u] = tasks[u]
  <2> HIDE DEF TaskStates
  <2> QED
    BY <1>1, <1>3
<1>5. hadv' \in BOOLEAN /\ (hadv' => hadv \/ hctrl = "enabled")
  <2>1. hadv' = hadv \/ (hctrl = "enabled" /\ hadv' \in {FALSE, TRUE, hadv})
    <3>1. hadv' = hadv \/ (hctrl = "enabled" /\ Hci!Executed(hci_cmd_buf))
      BY Zenon DEF Hci!Task, Hci!Test, Hci!Fill, Hci!Busy, Hci!Send
    <3> QED
      BY <3>1 DEF Hci!Executed
  <2>2. hadv \in BOOLEAN
    BY DEF Hci!TypeOK
  <2>3. CASE hadv' = hadv
    BY <2>2, <2>3
  <2>4. CASE hctrl = "enabled" /\ hadv' \in {FALSE, TRUE, hadv}
    BY <2>2, <2>4
  <2> QED
    BY <2>1, <2>3, <2>4
<1>6. hci_cmd_buf' \in Hci!Commands
  BY DEF Hci!Task, Hci!Test, Hci!Fill, Hci!Busy, Hci!Send, Hci!TypeOK
<1>7. Hci!TypeOK'
  BY <1>1, <1>4, <1>5, <1>6 DEF Hci!TypeOK, TaskStates
<1>8. SendLeft'
  BY <1>3, <1>4 DEF SendLeft
<1>9. ConsoleSteps'
  BY <1>1, <1>5 DEF ConsoleSteps
<1>10. LatestAlive'
  BY <1>1, <1>3, <1>4 DEF LatestAlive
<1> QED
  BY <1>7, <1>8, <1>9, <1>10

\* The invariant of the raw HCI.
THEOREM HciInvHolds == MCSpec => []HciInv
<1>1. MCInit => HciInv
  <2> SUFFICES ASSUME Hci!Init
               PROVE  HciInv
    BY DEF MCInit
  <2>1. Hci!TypeOK
    <3>1. tasks \in Seq(TaskStates)
      BY DEF Hci!Init
    <3>2. hci_cmd_buf \in Hci!Commands
      BY DEF Hci!Init, Hci!Commands, Hci!Reset, Hci!AdvEnable
    <3>3. /\ hctrl \in {"idle", "inited", "enabled"} /\ hadv \in BOOLEAN /\ kept \in BOOLEAN
          /\ hciInit \in BOOLEAN /\ hciRun \in BOOLEAN
          /\ hconsole \in {"ready", "stop", "run", "create"}
      BY DEF Hci!Init
    <3> QED
      BY <3>1, <3>2, <3>3 DEF Hci!TypeOK, TaskStates
  <2>2. SendLeft
    BY DEF Hci!Init, SendLeft
  <2>3. ConsoleSteps /\ LatestAlive
    BY DEF Hci!Init, ConsoleSteps, LatestAlive
  <2> QED
    BY <2>1, <2>2, <2>3 DEF HciInv
<1>2. HciInv /\ [MCNext]_<<vars, hciVars, build>> => HciInv'
  <2> SUFFICES ASSUME HciInv, [MCNext]_<<vars, hciVars, build>>
               PROVE  HciInv'
    OBVIOUS
  <2>1. CASE UNCHANGED hciVars
    BY <2>1 DEF hciVars, HciInv, Hci!TypeOK, SendLeft, ConsoleSteps, LatestAlive
  <2>2. CASE Hci!Next
    BY <2>2, HciConsoleKeeps, HciCreateKeeps, HciTaskKeeps DEF Hci!Next, Hci!Console
  <2> QED
    BY <2>1, <2>2 DEF MCNext
<1> QED
  BY <1>1, <1>2, PTL DEF MCSpec

\* hci --start and --stop leave a running server with an enabled controller and
\* the task of its start, unless that could not be created, and a stopped one
\* silent, unless the controller could not be disabled, although tasks of earlier
\* starts may still send.
THEOREM RunHasTaskHolds == MCSpec => []RunHasTask
<1>1. HciInv => RunHasTask
  <2> SUFFICES ASSUME HciInv, hconsole = "ready"
               PROVE  /\ hciRun => hctrl = "enabled" /\ Hci!Latest \notin {"none", "deleted"}
                      /\ ~hciRun => kept \/ (~hadv /\ hctrl # "enabled")
    BY DEF RunHasTask, Hci!RunHasTask
  <2>1. tasks \in Seq(TaskStates)
    BY DEF HciInv, Hci!TypeOK, TaskStates
  <2>2. ASSUME hciRun
        PROVE  Hci!Latest \notin {"none", "deleted"}
    <3>1. Len(tasks) >= 1 /\ tasks[Len(tasks)].at # "deleted"
      BY <2>2 DEF HciInv, LatestAlive
    <3>2. tasks # <<>> /\ tasks[Len(tasks)] \in TaskStates
      BY <2>1, <3>1
    <3>3. tasks[Len(tasks)].at # "none"
      BY <3>2 DEF TaskStates
    <3> QED
      BY <3>1, <3>2, <3>3 DEF Hci!Latest
  <2> QED
    BY <2>2 DEF HciInv, ConsoleSteps
<1> QED
  BY <1>1, HciInvHolds, PTL
=============================================================================
