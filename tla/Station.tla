------------------------------ MODULE Station -------------------------------
(***************************************************************************)
(* The Wi-Fi station of the node (main/wifi_sta_ap.c): its start at boot   *)
(* or by the console, the command that stops it, and the event handler     *)
(* that connects again after a disconnection and keeps CONNECTED_BIT, the  *)
(* bit a join waits for.  The bit lives in an event group that init_wifi   *)
(* makes; initialise_wifi and stop do not touch it.  NAN (nan.c) starts    *)
(* and stops the same driver without a look at the station.                *)
(*                                                                         *)
(* External, the Wi-Fi driver: an attempt to connect is refused, or ends   *)
(* with an address or with a disconnection; a connection may be lost at    *)
(* any time; each of these posts an event to the queue of the event task.  *)
(* A driver that is not initialised refuses every call, and a second       *)
(* station interface is refused while there is one.                        *)
(* Passwords, the contents of events other than these two, and time from   *)
(* NTP are left out.                                                       *)
(***************************************************************************)
EXTENDS Naturals, Sequences, SequencesExt

CONSTANT
    MaxEvents   \* bound: events waiting for the event task

ASSUME MaxEventsAssumption == MaxEvents \in Nat \ {0}

VARIABLES
    wifi_event_group,  \* the event group exists
    initialized,       \* initialise_wifi ran, the handlers are registered
    connected,         \* CONNECTED_BIT
    driver,            \* who initialised the driver: "none", "station" or "nan"
    link,              \* of the station: "off", "idle", "connecting" or "up"
    events,            \* posted and not handled: "disconnected" or "got_ip"
    stale,             \* history: stop left the bit set, and no event since
    refused            \* history: the handler's last attempt was refused

stationVars == <<wifi_event_group, initialized, connected, driver, link, events, stale,
                 refused>>

StationTypeOK ==
    /\ wifi_event_group \in BOOLEAN /\ initialized \in BOOLEAN
    /\ connected \in BOOLEAN /\ stale \in BOOLEAN /\ refused \in BOOLEAN
    /\ driver \in {"none", "station", "nan"}
    /\ link \in {"off", "idle", "connecting", "up"}
    /\ events \in Seq({"disconnected", "got_ip"}) /\ Len(events) <= MaxEvents
    /\ initialized <=> link # "off"
    /\ driver = "station" => initialized
    /\ driver = "nan" => ~initialized
    /\ link \in {"connecting", "up"} => driver = "station"

StationOff ==
    /\ wifi_event_group' = FALSE /\ initialized' = FALSE /\ connected' = FALSE
    /\ driver' = "none" /\ link' = "off" /\ events' = <<>> /\ stale' = FALSE
    /\ refused' = FALSE

StationInit ==
    /\ wifi_event_group = FALSE /\ initialized = FALSE /\ connected = FALSE
    /\ driver = "none" /\ link = "off" /\ events = <<>> /\ stale = FALSE
    /\ refused = FALSE

-----------------------------------------------------------------------------
(* The driver *)

Post(e) ==
    /\ Len(events) < MaxEvents
    /\ events' = Append(events, e)

GotIp ==
    /\ link = "connecting"
    /\ link' = "up" /\ Post("got_ip")
    /\ UNCHANGED <<wifi_event_group, initialized, connected, driver, stale, refused>>

LinkLost ==
    /\ link \in {"connecting", "up"}
    /\ link' = "idle" /\ Post("disconnected")
    /\ UNCHANGED <<wifi_event_group, initialized, connected, driver, stale, refused>>

-----------------------------------------------------------------------------
(* The event task *)

\* Mutant of Disconnected: a station that had no address yet is not connected
\* again.
DisconnectedMutant ==
    /\ events # <<>> /\ Head(events) = "disconnected"
    /\ events' = Tail(events)
    /\ link' = IF link = "idle" /\ driver = "station" /\ connected THEN "connecting" ELSE link
    /\ connected' = FALSE /\ stale' = FALSE
    /\ UNCHANGED <<wifi_event_group, initialized, driver, refused>>

\* event_handler on a disconnection: esp_wifi_connect, then the bit is cleared.
\* The result of the call is ignored: the driver may refuse, and does when NAN
\* has stopped it.
Disconnected ==
    /\ events # <<>> /\ Head(events) = "disconnected"
    /\ events' = Tail(events)
    /\ \/ /\ link = "idle" /\ driver = "station"
          /\ link' = "connecting" /\ refused' = FALSE
       \/ /\ link = "idle"
          /\ refused' = TRUE /\ UNCHANGED link
       \/ link # "idle" /\ UNCHANGED <<link, refused>>
    /\ connected' = FALSE /\ stale' = FALSE
    /\ UNCHANGED <<wifi_event_group, initialized, driver>>

\* event_handler on an address.
AddressGot ==
    /\ events # <<>> /\ Head(events) = "got_ip"
    /\ events' = Tail(events)
    /\ connected' = TRUE /\ stale' = FALSE
    /\ UNCHANGED <<wifi_event_group, initialized, driver, link, refused>>

EventHandler == Disconnected \/ AddressGot

-----------------------------------------------------------------------------
(* Calls of the main task and of the console *)

CreateGroup ==
    /\ wifi_event_group' = TRUE
    /\ UNCHANGED <<initialized, connected, driver, link, events, stale, refused>>

\* initialise_wifi does not look at the driver but at its own flag: the calls that
\* follow need a driver that is as the flag says.
DriverAgrees == driver = IF initialized THEN "station" ELSE "none"

\* wifi_sta: the driver is initialised if it is not; a station that is up goes
\* on or starts over, as the driver sees fit.
WifiSta ==
    /\ DriverAgrees
    /\ initialized' = TRUE /\ driver' = "station" /\ refused' = FALSE
    /\ \/ link' = (IF link \in {"off", "idle"} THEN "connecting" ELSE link)
          /\ UNCHANGED events
       \/ link = "up" /\ link' = "connecting" /\ Post("disconnected")
    /\ UNCHANGED <<wifi_event_group, connected, stale>>

\* ESP_ERROR_CHECK aborts: an empty SSID is refused by esp_wifi_connect, and so
\* may be a second attempt while one is under way; a driver that NAN holds or has
\* stopped refuses the calls before.
WifiStaAborts(ssid) ==
    ssid = "empty" \/ link \in {"connecting", "up"} \/ ~DriverAgrees

\* Mutant of StopWifi: the handlers stay registered, their events queued.
StopWifiMutant ==
    /\ driver = "station"
    /\ initialized' = FALSE /\ driver' = "none" /\ link' = "off"
    /\ UNCHANGED <<wifi_event_group, connected, events, stale, refused>>

\* stop: the handlers are gone before the driver reports the disconnection, so
\* nothing clears the bit.
StopWifi ==
    /\ driver = "station"
    /\ initialized' = FALSE /\ driver' = "none" /\ link' = "off" /\ events' = <<>>
    /\ stale' = connected
    /\ UNCHANGED <<wifi_event_group, connected, refused>>

\* stop with a driver that is not initialised returns when the handlers are gone:
\* after NAN stopped the driver, initialized stays set.
StopNothing ==
    /\ driver = "none"
    /\ events' = <<>> /\ stale' = connected
    /\ UNCHANGED <<wifi_event_group, initialized, connected, driver, link, refused>>

\* stop with the driver of NAN: the interface of the station is NULL, which
\* esp_wifi_clear_default_wifi_driver_and_handlers refuses: ESP_ERROR_CHECK aborts.
StopAborts == driver = "nan"

\* nanStart makes a station interface and initialises the driver; it aborts when
\* either is there.
NanStart ==
    /\ driver = "none" /\ ~initialized
    /\ driver' = "nan"
    /\ UNCHANGED <<wifi_event_group, initialized, connected, link, events, stale, refused>>

NanStartAborts == driver # "none" \/ initialized

\* nanStop stops and deinitialises the driver, whoever started it.  A station loses
\* its link, with its handlers registered and initialized set.
NanStop ==
    /\ driver # "none"
    /\ driver' = "none"
    /\ \/ /\ link \in {"connecting", "up"}
          /\ link' = "idle" /\ Post("disconnected")
       \/ /\ link = "connecting"
          /\ link' = "idle" /\ UNCHANGED events
       \/ link \in {"off", "idle"} /\ UNCHANGED <<link, events>>
    /\ UNCHANGED <<wifi_event_group, initialized, connected, stale, refused>>

NanStopAborts == driver = "none"

-----------------------------------------------------------------------------
(* Properties *)

\* What CONNECTED_BIT will be when every posted event is handled.
BitToBe == IF events = <<>> THEN connected ELSE Last(events) = "got_ip"

\* The bit follows the link: with every event handled it says whether the
\* station has an address, however losses, attempts of the handler and joins
\* of the console interleave.  Only a bit left set by stop says nothing.
BitFollowsLink == ~stale => BitToBe = (link = "up")

=============================================================================
