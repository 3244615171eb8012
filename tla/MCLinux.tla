------------------------------ MODULE MCLinux ------------------------------
(***************************************************************************)
(* Four parts of a Linux node that share no state: the DHCP server, the    *)
(* table of Wi-Fi Direct devices, the node's own group, and NAN.  A        *)
(* behaviour is about one of them, chosen initially; the others never      *)
(* change.                                                                 *)
(***************************************************************************)
EXTENDS Dhcp

CONSTANTS Devices, NoDevice, MaxNets, Tails, MaxGroups, Nans, MaxReports

\* A device has a network, NoDevice stands for none, and tails are bytes.
ASSUME LinuxAssumption ==
    NoDevice \notin Devices /\ MaxNets \in Nat \ {0} /\ Tails \subseteq Seq(Nat)

\* After the response for the DMesh service: nothing, "service not available", and
\* the PTR record Android sends (wpa_dnssd_test.go).
TestTails ==
    {<<>>, <<3, 0, 1, 2, 1>>,
     <<17, 0, 1, 1, 0, 3, 95, 100, 109, 192, 28, 0, 12, 1, 2, 100, 109, 192, 39>>}

VARIABLES part, net, process, P2PByMAC, P2PBySSID, scan, posted, moved,
          group, made, events, handling, p2pGroupInterface, advertised, services,
          timers, starting, servers, failed, LastSent, sending, reports, panicked

peerVars == <<net, process, P2PByMAC, P2PBySSID, scan, posted, moved>>
groupVars == <<group, made, events, handling, p2pGroupInterface, advertised, services,
               timers, starting, servers, failed>>
nanVars == <<LastSent, sending, reports, panicked>>

Peers == INSTANCE P2pPeers
Group == INSTANCE P2pGroup
Nan == INSTANCE NanTx

MCInit ==
    /\ part \in {"dhcp", "peers", "group", "nan"}
    /\ Init /\ Peers!PeersInit /\ Group!GroupInit
    /\ IF part = "nan" THEN Nan!TxInit ELSE Nan!TxEnded

MCNext ==
    /\ UNCHANGED part
    /\ \/ part = "dhcp" /\ Next /\ UNCHANGED <<peerVars, groupVars, nanVars>>
       \/ part = "peers" /\ Peers!PeersNext /\ UNCHANGED <<vars, groupVars, nanVars>>
       \/ part = "group" /\ Group!GroupNext /\ UNCHANGED <<vars, peerVars, nanVars>>
       \/ part = "nan" /\ Nan!TxNext /\ UNCHANGED <<vars, peerVars, groupVars>>

\* In the other parts nothing of the group or of NAN is ever enabled.
MCSpec ==
    /\ MCInit /\ [][MCNext]_<<vars, peerVars, groupVars, nanVars, part>>
    /\ Group!GroupFairness /\ Nan!TxFairness

\* The discovery responses alone.
DiscoverySpec ==
    MCInit /\ part = "peers" /\ [][MCNext]_<<vars, peerVars, groupVars, nanVars, part>>

-----------------------------------------------------------------------------
\* A network that sendScanResults posts comes with its own passphrase or none, and
\* with one of its device when that changed its network.
StatusConsistent == Peers!StatusConsistent

\* wpa_dnssd.go: "used to parse WPA P2P-SERV-DISC-RESP".
ResponseParsed == Peers!ResponseParsed

\* A group that stays gets a DHCP server unless starting it failed.
ServedGroup == Group!ServedGroup

\* An interface goes on to transmit NAN frames when TX reports are lost.
FramesContinue == Nan!FramesContinue
=============================================================================
