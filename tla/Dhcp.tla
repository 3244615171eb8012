-------------------------------- MODULE Dhcp --------------------------------
(***************************************************************************)
(* The DHCP server of a P2P group (pkg/l2/dhcp.go) and its clients.        *)
(*                                                                         *)
(* ServeDHCP handles one packet at a time.  Addresses are the slots        *)
(* 0..Range-1 counted from the start of the range; slot -1 is the address  *)
(* of the server itself, Range the first one past the end.                 *)
(*                                                                         *)
(* The clients and the network are external.  A client may restart, drop   *)
(* or extend its lease, ask for an address it remembers, or retransmit;    *)
(* packets of one client reach the server in order or are lost.  Replies   *)
(* are matched by transaction: the reply to a packet is used only if the   *)
(* client is still in the transaction the packet belongs to ("live").      *)
(***************************************************************************)
EXTENDS Integers, Sequences

CONSTANTS
    Nics,         \* hardware addresses of the clients
    None,         \* no client
    Range,        \* leaseRange
    MaxPending    \* bound: packets of one client under way

ASSUME DhcpAssumption ==
    /\ None \notin Nics
    /\ Range \in Nat \ {0}
    /\ MaxPending \in Nat

Slots == 0..(Range - 1)
Requestable == -1..Range
NoSlot == -2

VARIABLES
    leases,     \* slot -> the client of its lease, or None
    expired,    \* slots whose lease is past its expiry
    mode,       \* where a client is in the protocol
    addr,       \* the slot a client asks for ("requesting") or uses ("bound")
    toServer    \* packets under way to the server, per client

clientVars == <<mode, addr>>
vars == <<leases, expired, mode, addr, toServer>>

Packet(type, slot, live) == [type |-> type, slot |-> slot, live |-> live]
PacketTypes == {"discover", "request", "elsewhere", "release"}

\* A client that leaves a transaction ignores the replies to its packets.
Stale(q) == [i \in DOMAIN q |-> [q[i] EXCEPT !.live = FALSE]]

Init ==
    /\ leases = [s \in Slots |-> None]
    /\ expired = {}
    /\ mode = [n \in Nics |-> "init"]
    /\ addr = [n \in Nics |-> NoSlot]
    /\ toServer = [n \in Nics |-> <<>>]

-----------------------------------------------------------------------------
(* Clients and network (external) *)

\* Client n moves to mode m with address a and sends packet p; packets of an
\* earlier transaction are stale from now on when the transaction changes.
Send(n, m, a, q, p) ==
    /\ Len(toServer[n]) < MaxPending
    /\ mode' = [mode EXCEPT ![n] = m]
    /\ addr' = [addr EXCEPT ![n] = a]
    /\ toServer' = [toServer EXCEPT ![n] = Append(q, p)]
    /\ UNCHANGED <<leases, expired>>

Discover(n) ==
    /\ mode[n] \in {"init", "selecting"}
    /\ Send(n, "selecting", NoSlot, Stale(toServer[n]),
            Packet("discover", NoSlot, TRUE))

\* The request that follows an offer, and its retransmissions.
Request(n) ==
    /\ mode[n] = "requesting"
    /\ Send(n, "requesting", addr[n], toServer[n],
            Packet("request", addr[n], TRUE))

\* A client that restarts asks for an address it remembers.
RequestKnown(n) ==
    /\ mode[n] = "init"
    /\ \E s \in Requestable :
          Send(n, "requesting", s, Stale(toServer[n]), Packet("request", s, TRUE))

\* The client takes the offer of another server.
RequestElsewhere(n) ==
    /\ mode[n] = "requesting"
    /\ Send(n, "init", NoSlot, Stale(toServer[n]),
            Packet("elsewhere", addr[n], FALSE))

Renew(n) ==
    /\ mode[n] = "bound"
    /\ Send(n, "bound", addr[n], toServer[n], Packet("request", addr[n], TRUE))

\* Release, or Decline of an address found to be in use.
Release(n) ==
    /\ mode[n] = "bound"
    /\ Send(n, "init", NoSlot, Stale(toServer[n]),
            Packet("release", addr[n], FALSE))

\* The client restarts, gives up waiting, or its lease runs out.
Forget(n) ==
    /\ mode[n] # "init"
    /\ mode' = [mode EXCEPT ![n] = "init"]
    /\ addr' = [addr EXCEPT ![n] = NoSlot]
    /\ toServer' = [toServer EXCEPT ![n] = Stale(@)]
    /\ UNCHANGED <<leases, expired>>

Lose(n) ==
    /\ toServer[n] # <<>>
    /\ toServer' = [toServer EXCEPT ![n] = Tail(@)]
    /\ UNCHANGED <<leases, expired, clientVars>>

-----------------------------------------------------------------------------
(* Server *)

\* Time passes until the lease of slot s is past its expiry.  A client counts
\* from its request and stops using the address before the server's time.
Expire(s) ==
    /\ leases[s] # None /\ s \notin expired
    /\ \A n \in Nics : mode[n] = "bound" => addr[n] # s
    /\ expired' = expired \cup {s}
    /\ UNCHANGED <<leases, clientVars, toServer>>

Previous(n) == {s \in Slots : leases[s] = n}

\* freeLease searches from a random slot: any slot it accepts can be the one.
FreeLease == {s \in Slots : leases[s] = None \/ s \in expired}

\* The packet at the head of a client's queue is taken by ServeDHCP.
Handles(n, type) == toServer[n] # <<>> /\ Head(toServer[n]).type = type
Taken(n) == toServer' = [toServer EXCEPT ![n] = Tail(@)]

\* Discover: an offer of a lease the client has, or else of a free one; no
\* reply when there is none.
ServeDiscover(n) ==
    LET candidates == IF Previous(n) # {} THEN Previous(n) ELSE FreeLease
    IN  /\ Handles(n, "discover")
        /\ Taken(n)
        /\ \/ /\ candidates = {} \/ ~Head(toServer[n]).live
              /\ UNCHANGED clientVars
           \/ /\ Head(toServer[n]).live
              /\ \E s \in candidates : addr' = [addr EXCEPT ![n] = s]
              /\ mode' = [mode EXCEPT ![n] = "requesting"]
        /\ UNCHANGED <<leases, expired>>

\* Mutant of Grantable: the lower bound is off by one.
GrantableOffByOne(n, s) ==
    /\ -1 <= s /\ s < Range
    /\ s \in Slots => leases[s] \in {None, n}

\* Mutant of Grantable: the holder of the lease is not compared.
GrantableAnyHolder(n, s) == 0 <= s /\ s < Range

\* A request is granted for a slot in the range that has no lease or one of
\* the client itself.  The expiry of a lease is not looked at.
Grantable(n, s) ==
    /\ 0 <= s /\ s < Range
    /\ leases[s] \in {None, n}

Acknowledge(n) ==
    LET p == Head(toServer[n])
    IN  /\ Handles(n, "request") /\ Grantable(n, p.slot)
        /\ Taken(n)
        /\ leases' = [s \in Slots \cup {p.slot} |->
                         IF s = p.slot THEN n ELSE leases[s]]
        /\ expired' = expired \ {p.slot}
        /\ IF p.live
              THEN /\ mode' = [mode EXCEPT ![n] = "bound"]
                   /\ addr' = [addr EXCEPT ![n] = p.slot]
              ELSE UNCHANGED clientVars

Refuse(n) ==
    LET p == Head(toServer[n])
    IN  /\ Handles(n, "request") /\ ~Grantable(n, p.slot)
        /\ Taken(n)
        /\ IF p.live
              THEN /\ mode' = [mode EXCEPT ![n] = "init"]
                   /\ addr' = [addr EXCEPT ![n] = NoSlot]
              ELSE UNCHANGED clientVars
        /\ UNCHANGED <<leases, expired>>

\* A request for another server is ignored.
Ignore(n) ==
    /\ Handles(n, "elsewhere")
    /\ Taken(n)
    /\ UNCHANGED <<leases, expired, clientVars>>

\* Mutant of ServeRelease: the comparison with the client is inverted.
ServeReleaseMutant(n) ==
    LET others == {s \in Slots : leases[s] \notin {None, n}}
    IN  /\ Handles(n, "release")
        /\ Taken(n)
        /\ leases' = [s \in Slots |-> IF s \in others THEN None ELSE leases[s]]
        /\ expired' = expired \ others
        /\ UNCHANGED clientVars

\* Release and Decline: one lease of the client is deleted, whichever the map
\* iteration finds first.
ServeRelease(n) ==
    /\ Handles(n, "release")
    /\ Taken(n)
    /\ IF Previous(n) = {}
          THEN UNCHANGED <<leases, expired>>
          ELSE \E s \in Previous(n) : /\ leases' = [leases EXCEPT ![s] = None]
                                      /\ expired' = expired \ {s}
    /\ UNCHANGED clientVars

ClientNext(n) ==
    \/ Discover(n) \/ Request(n) \/ RequestKnown(n) \/ RequestElsewhere(n)
    \/ Renew(n) \/ Release(n) \/ Forget(n) \/ Lose(n)

ServeDHCP(n) ==
    \/ ServeDiscover(n) \/ Acknowledge(n) \/ Refuse(n) \/ Ignore(n)
    \/ ServeRelease(n)

Next ==
    \/ \E n \in Nics : ClientNext(n) \/ ServeDHCP(n)
    \/ \E s \in Slots : Expire(s)

Spec == Init /\ [][Next]_vars

-----------------------------------------------------------------------------
(* Properties *)

TypeOK ==
    /\ leases \in [Slots -> Nics \cup {None}]
    /\ expired \in SUBSET Slots
    /\ mode \in [Nics -> {"init", "selecting", "requesting", "bound"}]
    /\ addr \in [Nics -> Requestable \cup {NoSlot}]
    /\ toServer \in [Nics -> Seq([type : PacketTypes,
                                  slot : Requestable \cup {NoSlot},
                                  live : BOOLEAN])]

\* Two stations never use the same address, and none uses the server's own or
\* one past the end of the range, through restarts, retransmissions, losses,
\* releases that free whichever lease is found first, and expiry.
AddressUnique ==
    \A n \in Nics : mode[n] = "bound" =>
        /\ addr[n] \in Slots
        /\ \A m \in Nics \ {n} : mode[m] = "bound" => addr[m] # addr[n]

\* The addresses in use, and only these, are what the abstract pool is about.
Using == [n \in Nics |-> IF mode[n] = "bound" THEN addr[n] ELSE NoSlot]
Pool == INSTANCE AddressPool WITH using <- Using

\* The server and its clients implement the address pool: an address is taken
\* by a station only while no other station uses it.
PoolSpec == Pool!Spec
=============================================================================
