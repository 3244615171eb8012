------------------------------ MODULE P2pPeers ------------------------------
(***************************************************************************)
(* The Wi-Fi Direct devices known to a Linux node (pkg/l2/wpa_proto.go,    *)
(* wpa.go).  The stream reader records what devices announce; a goroutine  *)
(* per scan looks the networks up by SSID, updates the records it finds    *)
(* and posts them.  Records are shared by pointer: P2PByMAC, P2PBySSID,    *)
(* the scan and LastScan refer to the same ones, without a lock.           *)
(*                                                                         *)
(* A record is identified by the device it was made for; scans also make   *)
(* records for unknown networks, which nobody else sees.  A network is     *)
(* <<device, n>>: its n-th, with an SSID and a passphrase of its own.      *)
(*                                                                         *)
(* External: what devices announce, and in which order a scan lists        *)
(* networks, those that are gone for a short time included.                *)
(***************************************************************************)
EXTENDS DnsSd, FiniteSets

CONSTANTS
    Devices,   \* MAC addresses
    NoDevice,
    Tails,     \* what may follow the response for the DMesh service
    MaxNets    \* bound: networks of one device

VARIABLES
    net,        \* device -> its network
    process,    \* "runs", or what ended it: "panic" of a slice, "race" on a map
    P2PByMAC,   \* device -> its record [ssid, psk], or NoRecord
    P2PBySSID,  \* SSID -> the device whose record is found, or NoDevice
    scan,       \* the scan goroutine: lines left, entries so far
    posted,     \* entries of the last /net/status, with their values
    moved       \* history: devices that announced a second network

peerVars == <<net, process, P2PByMAC, P2PBySSID, scan, posted, moved>>

Nets == Devices \X (1 .. MaxNets)
NoNet == <<NoDevice, 0>>
NoRecord == [ssid |-> NoNet, psk |-> NoNet]
NoScan == [lines |-> <<>>, found |-> <<>>, on |-> FALSE]

PeersInit ==
    /\ net = [d \in Devices |-> 1] /\ process = "runs"
    /\ P2PByMAC = [d \in Devices |-> NoRecord]
    /\ P2PBySSID = [n \in Nets |-> NoDevice]
    /\ scan = NoScan /\ posted = {} /\ moved = {}

-----------------------------------------------------------------------------
\* A device starts its group again, under another name.
NewNet(d) ==
    /\ net[d] < MaxNets
    /\ net' = [net EXCEPT ![d] = @ + 1]
    /\ UNCHANGED <<process, P2PByMAC, P2PBySSID, scan, posted, moved>>

\* The response of a device: its passphrase and SSID, in either order.
Response(d, tail) ==
    LET n == <<d, net[d]>>
        p == Field("p", n, 10)
        s == Field("s", n, 24)
    IN  {PackDns(f, tail) : f \in {<<p, s>>, <<s, p>>}}

Value(meta, key) ==
    IF \E f \in meta : f.key = key THEN (CHOOSE f \in meta : f.key = key).val ELSE NoNet

\* Mutant of ServDiscResp: the record of any device is taken for this one's.
ServDiscRespMutant(d) ==
    /\ process = "runs"
    /\ \E tail \in Tails, mac \in Devices : \E r \in Response(d, tail) :
          LET got == ParseDisc(r)
              rec == [ssid |-> Value(got.meta, "s"), psk |-> Value(got.meta, "p")]
          IN  /\ got.outcome = "ok"
              /\ P2PByMAC' = [P2PByMAC EXCEPT ![mac] = rec]
              /\ P2PBySSID' = [P2PBySSID EXCEPT ![rec.ssid] = mac]
    /\ UNCHANGED <<net, process, scan, posted, moved>>

\* P2P-SERV-DISC-RESP: the record of the device is filled in, and found by its
\* SSID from then on.
ServDiscResp(d) ==
    /\ process = "runs"
    /\ \E tail \in Tails : \E r \in Response(d, tail) :
          LET got == ParseDisc(r)
              old == P2PByMAC[d]
              rec == [ssid |-> Value(got.meta, "s"), psk |-> Value(got.meta, "p")]
          IN  /\ got.outcome = "ok"
              /\ P2PByMAC' = [P2PByMAC EXCEPT ![d] = rec]
              /\ P2PBySSID' = [n \in Nets |-> IF n = rec.ssid THEN d ELSE P2PBySSID[n]]
              /\ moved' = IF old.ssid \in {NoNet, rec.ssid} THEN moved
                          ELSE moved \cup {d}
    /\ UNCHANGED <<net, process, scan, posted>>

\* A response parseDisc panics on ends the process.
ServDiscPanic(d) ==
    /\ process = "runs"
    /\ \E tail \in Tails : \E r \in Response(d, tail) : ParseDisc(r).outcome = "panic"
    /\ process' = "panic"
    /\ UNCHANGED <<net, P2PByMAC, P2PBySSID, scan, posted, moved>>

\* A response that changes P2PBySSID while sendScanResults reads it: the runtime
\* may notice, and ends the process.
MapRace ==
    /\ process = "runs" /\ scan.lines # <<>>
    /\ process' = "race"
    /\ UNCHANGED <<net, P2PByMAC, P2PBySSID, scan, posted, moved>>

\* sendScanResults has its reply: networks that are there, or were.
ScanResults ==
    /\ process = "runs" /\ ~scan.on
    /\ \E a, b \in {n \in Nets : n[2] <= net[n[1]]} :
          scan' = [lines |-> <<a, b>>, found |-> <<>>, on |-> TRUE]
    /\ UNCHANGED <<net, process, P2PByMAC, P2PBySSID, posted, moved>>

\* A line of it: the record found by the SSID, if any, gets that SSID.
ScanLine ==
    /\ process = "runs" /\ scan.lines # <<>>
    /\ LET n == Head(scan.lines)
           d == P2PBySSID[n]
       IN  /\ P2PByMAC' = IF d = NoDevice THEN P2PByMAC
                          ELSE [P2PByMAC EXCEPT ![d].ssid = n]
           /\ scan' = [scan EXCEPT !.lines = Tail(@),
                                   !.found = Append(@, <<n, d>>)]
    /\ UNCHANGED <<net, process, P2PBySSID, posted, moved>>

\* LastScan is posted with the values its records have now.
PostStatus ==
    /\ process = "runs" /\ scan.on /\ scan.lines = <<>>
    /\ posted' = {LET f == scan.found[i]
                  IN  IF f[2] = NoDevice THEN [ssid |-> f[1], psk |-> NoNet]
                      ELSE P2PByMAC[f[2]] : i \in DOMAIN scan.found}
    /\ scan' = NoScan
    /\ UNCHANGED <<net, process, P2PByMAC, P2PBySSID, moved>>

\* The process is started again, with empty tables.
Restart ==
    /\ process # "runs"
    /\ process' = "runs"
    /\ P2PByMAC' = [d \in Devices |-> NoRecord]
    /\ P2PBySSID' = [n \in Nets |-> NoDevice]
    /\ scan' = NoScan /\ posted' = {} /\ moved' = {}
    /\ UNCHANGED net

PeersNext ==
    \/ ScanResults \/ ScanLine \/ PostStatus \/ MapRace \/ Restart
    \/ \E d \in Devices : NewNet(d) \/ ServDiscResp(d) \/ ServDiscPanic(d)

PeersSpec == PeersInit /\ [][PeersNext]_peerVars

-----------------------------------------------------------------------------
(* Properties *)

\* However announcements, scans and restarts overlap, a posted network comes with
\* its own passphrase or none.  The one exception is a device that changed its
\* network, whose record is found under both names: even then the passphrase is
\* one of that device.  A network found by its SSID has a passphrase.
StatusConsistent ==
    /\ \A e \in posted :
          e.psk # NoNet =>
              e.psk[1] = e.ssid[1] /\ (e.psk = e.ssid \/ e.ssid[1] \in moved)
    /\ \A n \in Nets :
          P2PBySSID[n] # NoDevice => P2PByMAC[P2PBySSID[n]].psk[1] = n[1]

\* "used to parse WPA P2P-SERV-DISC-RESP": no response for the DMesh service ends
\* the process, whether other responses follow it or not.
ResponseParsed == process # "panic"
=============================================================================
