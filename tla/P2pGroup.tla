------------------------------ MODULE P2pGroup ------------------------------
(***************************************************************************)
(* The Wi-Fi Direct group of a Linux node (pkg/l2/wpa_proto.go, dhcp.go):  *)
(* the stream reader handles the events of wpa_supplicant one at a time,   *)
(* waits half a second in OnP2PGroupStart, and leaves a timer behind that  *)
(* starts a DHCP server on whatever interface is set a second later.       *)
(*                                                                         *)
(* A group is the number in its interface name, which wpa_supplicant never *)
(* uses twice; 0 is the empty name.  The result of SendCommand is ignored: *)
(* a command may be lost.                                                  *)
(*                                                                         *)
(* External: wpa_supplicant makes and removes groups, one at a time, and   *)
(* reports them in order; binding the server's socket may fail.            *)
(***************************************************************************)
EXTENDS Integers, Sequences

CONSTANT MaxGroups   \* bound: groups made

VARIABLES
    group,     \* the group there is, or 0
    made,      \* groups made so far
    events,    \* reported and not yet handled
    handling,  \* the reader waits between flushing services and adding its own
    p2pGroupInterface,
    advertised,  \* group whose SSID and passphrase answer a discovery request
    services,    \* groups of the services registered with wpa_supplicant
    timers,      \* timers that have not fired
    starting,    \* goroutines about to call DhcpServer
    servers,     \* interfaces that have a DHCP server
    failed       \* interfaces where it could not be started

groupVars == <<group, made, events, handling, p2pGroupInterface, advertised,
               services, timers, starting, servers, failed>>
serverVars == <<timers, starting, servers, failed>>
adVars == <<advertised, services>>

Event(type, g) == [type |-> type, group |-> g]

GroupInit ==
    /\ group = 0 /\ made = 0 /\ events = <<>> /\ handling = FALSE
    /\ p2pGroupInterface = 0 /\ advertised = 0 /\ services = {}
    /\ timers = 0 /\ starting = 0 /\ servers = {} /\ failed = {}

-----------------------------------------------------------------------------
(* wpa_supplicant *)

GroupCreated ==
    /\ group = 0 /\ made < MaxGroups
    /\ group' = made + 1 /\ made' = made + 1
    /\ events' = Append(events, Event("P2P-GROUP-STARTED", made + 1))
    /\ UNCHANGED <<handling, p2pGroupInterface, adVars, serverVars>>

GroupRemoved ==
    /\ group # 0
    /\ group' = 0
    /\ events' = Append(events, Event("P2P-GROUP-REMOVED", group))
    /\ UNCHANGED <<made, handling, p2pGroupInterface, adVars, serverVars>>

-----------------------------------------------------------------------------
(* The stream reader *)

Reads(type) == ~handling /\ events # <<>> /\ Head(events).type = type

OnP2PGroupStart ==
    /\ Reads("P2P-GROUP-STARTED")
    /\ events' = Tail(events) /\ handling' = TRUE
    /\ p2pGroupInterface' = Head(events).group
    /\ advertised' = Head(events).group
    /\ services' \in {services, {}}          \* P2P_SERVICE_FLUSH
    /\ UNCHANGED <<group, made, serverVars>>

\* The rest of OnP2PGroupStart, half a second later.
AddService ==
    /\ handling
    /\ handling' = FALSE
    /\ services' \in {services, services \cup {advertised}}   \* P2P_SERVICE_ADD
    /\ timers' = timers + 1
    /\ UNCHANGED <<group, made, events, p2pGroupInterface, advertised, starting,
                   servers, failed>>

\* The interface is cleared whichever group the event is about; what a discovery
\* request is answered stays.
OnP2PGroupStop ==
    /\ Reads("P2P-GROUP-REMOVED")
    /\ events' = Tail(events)
    /\ p2pGroupInterface' = 0
    /\ UNCHANGED <<group, made, handling, adVars, serverVars>>

-----------------------------------------------------------------------------
(* The DHCP server *)

\* Mutant of TimerFires: a server that runs is taken to be enough.
TimerFiresMutant ==
    /\ timers > 0
    /\ timers' = timers - 1
    /\ starting' = IF p2pGroupInterface = 0 \/ servers # {} THEN starting ELSE starting + 1
    /\ UNCHANGED <<group, made, events, handling, p2pGroupInterface, adVars, servers,
                   failed>>

TimerFires ==
    /\ timers > 0
    /\ timers' = timers - 1
    /\ starting' = IF p2pGroupInterface = 0 THEN starting ELSE starting + 1
    /\ UNCHANGED <<group, made, events, handling, p2pGroupInterface, adVars, servers,
                   failed>>

\* The goroutine reads the interface again: it may be another one by now, or the
\* empty name.
DhcpServer ==
    /\ starting > 0
    /\ starting' = starting - 1
    /\ \/ servers' = servers \cup {p2pGroupInterface} /\ UNCHANGED failed
       \/ failed' = failed \cup {p2pGroupInterface} /\ UNCHANGED servers
    /\ UNCHANGED <<group, made, events, handling, p2pGroupInterface, adVars, timers>>

GroupNext ==
    \/ GroupCreated \/ GroupRemoved \/ OnP2PGroupStart \/ AddService
    \/ OnP2PGroupStop \/ TimerFires \/ DhcpServer

\* The reader, the timers and the goroutines go on; nothing makes wpa_supplicant
\* make or remove a group.
GroupFairness ==
    /\ WF_groupVars(OnP2PGroupStart \/ AddService \/ OnP2PGroupStop)
    /\ WF_groupVars(TimerFires)
    /\ WF_groupVars(DhcpServer)

GroupSpec == GroupInit /\ [][GroupNext]_groupVars /\ GroupFairness

-----------------------------------------------------------------------------
(* Properties *)

\* A group that stays gets a DHCP server, unless starting one on it failed,
\* whatever groups came and went before and whichever of their timers and
\* goroutines are still to run when it is made.
ServedGroup ==
    \A g \in 1 .. MaxGroups :
        group = g ~> (g \in servers \cup failed \/ group # g)
=============================================================================
