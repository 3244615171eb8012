----------------------------- MODULE DhcpProofs -----------------------------
(***************************************************************************)
(* Proofs about the DHCP server: for any number of clients, any size of    *)
(* the address range and any number of packets under way.                  *)
(***************************************************************************)
EXTENDS Dhcp, TLAPS

Packets == [type : PacketTypes, slot : Requestable \cup {NoSlot}, live : BOOLEAN]

\* A station that uses an address has the lease of it, and no release of its
\* own is still on the way (ServeDHCP would delete a lease for it).
Held ==
    \A n \in Nics : mode[n] = "bound" =>
        /\ addr[n] \in Slots
        /\ leases[addr[n]] = n
        /\ \A i \in DOMAIN toServer[n] : toServer[n][i].type # "release"

\* A release is older than every packet the client expects a reply to.
ReleaseFirst ==
    \A n \in Nics : \A i, j \in DOMAIN toServer[n] :
        toServer[n][i].live /\ toServer[n][j].type = "release" => j < i

IInv == TypeOK /\ Held /\ ReleaseFirst

-----------------------------------------------------------------------------
\* The address range and the addresses clients may name.
LEMMA SlotFacts ==
    /\ Slots \subseteq Requestable
    /\ NoSlot \notin Slots
    /\ \A s \in Int : s \in Slots <=> 0 <= s /\ s < Range
BY DhcpAssumption DEF DhcpAssumption, Slots, Requestable, NoSlot

\* Stale keeps the packets and their order, and leaves none of them live.
LEMMA StaleFacts ==
    ASSUME NEW q \in Seq(Packets)
    PROVE  /\ Stale(q) \in Seq(Packets)
           /\ DOMAIN Stale(q) = DOMAIN q
           /\ \A i \in DOMAIN q : /\ Stale(q)[i].type = q[i].type
                                  /\ ~Stale(q)[i].live
<1>1. \A p \in Packets : /\ [p EXCEPT !.live = FALSE] \in Packets
                         /\ [p EXCEPT !.live = FALSE].type = p.type
                         /\ ~[p EXCEPT !.live = FALSE].live
  BY DEF Packets
<1>2. \A i \in DOMAIN q : q[i] \in Packets
  OBVIOUS
<1>3. Stale(q) \in Seq(Packets)
  BY <1>1, <1>2 DEF Stale
<1> QED
  BY <1>1, <1>2, <1>3 DEF Stale

\* What a queue holds after a packet was added at its end.
LEMMA AppendFacts ==
    ASSUME NEW q \in Seq(Packets), NEW p \in Packets
    PROVE  /\ Append(q, p) \in Seq(Packets)
           /\ DOMAIN Append(q, p) = DOMAIN q \cup {Len(q) + 1}
           /\ \A i \in DOMAIN q : i < Len(q) + 1 /\ Append(q, p)[i] = q[i]
           /\ Append(q, p)[Len(q) + 1] = p
OBVIOUS

\* What a queue holds after its first packet was taken.
LEMMA TailFacts ==
    ASSUME NEW q \in Seq(Packets), q # <<>>
    PROVE  /\ Tail(q) \in Seq(Packets)
           /\ Head(q) = q[1] /\ 1 \in DOMAIN q /\ Head(q) \in Packets
           /\ \A i \in DOMAIN Tail(q) : /\ i \in Nat /\ i + 1 \in DOMAIN q
                                        /\ Tail(q)[i] = q[i + 1]
OBVIOUS

-----------------------------------------------------------------------------
\* The effect of a client step on the queues, the client being in TypeOK.
LEMMA SendFacts ==
    ASSUME TypeOK, NEW n \in Nics, NEW m, NEW a, NEW q, NEW p,
           m \in {"init", "selecting", "requesting", "bound"},
           a \in Requestable \cup {NoSlot},
           q \in {toServer[n], Stale(toServer[n])},
           p \in Packets, Send(n, m, a, q, p)
    PROVE  /\ TypeOK'
           /\ mode'[n] = m /\ addr'[n] = a
           /\ toServer'[n] = Append(q, p)
           /\ \A k \in Nics \ {n} : /\ mode'[k] = mode[k] /\ addr'[k] = addr[k]
                                     /\ toServer'[k] = toServer[k]
           /\ UNCHANGED <<leases, expired>>
<1>1. toServer[n] \in Seq(Packets) /\ toServer \in [Nics -> Seq(Packets)]
  BY DEF TypeOK, Packets
<1>2. q \in Seq(Packets)
  BY <1>1, StaleFacts
<1>3. Append(q, p) \in Seq(Packets)
  BY <1>2
<1>4. toServer' = [toServer EXCEPT ![n] = Append(q, p)]
  BY DEF Send
<1>5. toServer' \in [Nics -> Seq(Packets)]
  BY <1>1, <1>3, <1>4
<1>6. mode' = [mode EXCEPT ![n] = m] /\ addr' = [addr EXCEPT ![n] = a]
      /\ UNCHANGED <<leases, expired>>
  BY DEF Send
<1>7. /\ mode \in [Nics -> {"init", "selecting", "requesting", "bound"}]
      /\ addr \in [Nics -> Requestable \cup {NoSlot}]
  BY DEF TypeOK
<1>8. TypeOK'
  BY <1>5, <1>6, <1>7 DEF TypeOK, Packets
<1> QED
  BY <1>1, <1>4, <1>6, <1>7, <1>8

\* A packet that opens a new transaction, or gives the address up.
LEMMA NewTransaction ==
    ASSUME IInv, NEW n \in Nics, NEW m, NEW a, NEW p,
           m \in {"init", "selecting", "requesting"},
           a \in Requestable \cup {NoSlot},
           p \in Packets, p.live => p.type # "release",
           Send(n, m, a, Stale(toServer[n]), p)
    PROVE  IInv'
<1> DEFINE q == Stale(toServer[n])
<1>1. toServer[n] \in Seq(Packets)
  BY DEF IInv, TypeOK, Packets
<1>2. q \in Seq(Packets) /\ \A i \in DOMAIN q : ~q[i].live
  BY <1>1, StaleFacts
<1>3. /\ TypeOK'
      /\ mode'[n] = m
      /\ toServer'[n] = Append(q, p)
      /\ \A k \in Nics \ {n} : /\ mode'[k] = mode[k] /\ addr'[k] = addr[k]
                                /\ toServer'[k] = toServer[k]
      /\ UNCHANGED <<leases, expired>>
  BY SendFacts DEF IInv
<1> HIDE DEF q
<1>4. Held'
  BY <1>3 DEF IInv, Held
<1>5. \A i, j \in DOMAIN Append(q, p) :
         Append(q, p)[i].live /\ Append(q, p)[j].type = "release" => j < i
  BY <1>2, AppendFacts
<1>6. ReleaseFirst'
  BY <1>3, <1>5 DEF IInv, ReleaseFirst
<1> QED
  BY <1>3, <1>4, <1>6 DEF IInv

\* A request within a transaction: a retransmission or a renewal.
LEMMA SameTransaction ==
    ASSUME IInv, NEW n \in Nics, NEW p,
           p \in Packets, p.type = "request",
           Send(n, mode[n], addr[n], toServer[n], p)
    PROVE  IInv'
<1> DEFINE q == toServer[n]
<1>1. /\ q \in Seq(Packets)
      /\ mode[n] \in {"init", "selecting", "requesting", "bound"}
      /\ addr[n] \in Requestable \cup {NoSlot}
  BY DEF IInv, TypeOK, Packets
<1>2. /\ TypeOK'
      /\ mode'[n] = mode[n] /\ addr'[n] = addr[n]
      /\ toServer'[n] = Append(q, p)
      /\ \A k \in Nics \ {n} : /\ mode'[k] = mode[k] /\ addr'[k] = addr[k]
                                /\ toServer'[k] = toServer[k]
      /\ UNCHANGED <<leases, expired>>
  BY <1>1, SendFacts DEF IInv
<1>3. \A i, j \in DOMAIN q : q[i].live /\ q[j].type = "release" => j < i
  BY DEF IInv, ReleaseFirst
<1>4. mode[n] = "bound" => \A i \in DOMAIN q : q[i].type # "release"
  BY DEF IInv, Held
<1> HIDE DEF q
<1>5. \A i, j \in DOMAIN Append(q, p) :
         Append(q, p)[i].live /\ Append(q, p)[j].type = "release" => j < i
  BY <1>1, <1>3, AppendFacts
<1>6. mode[n] = "bound" =>
         \A i \in DOMAIN Append(q, p) : Append(q, p)[i].type # "release"
  BY <1>1, <1>4, AppendFacts
<1>7. Held'
  BY <1>2, <1>6 DEF IInv, Held
<1>8. ReleaseFirst'
  BY <1>2, <1>5 DEF IInv, ReleaseFirst
<1> QED
  BY <1>2, <1>7, <1>8 DEF IInv

\* Every step of a client or of the network keeps the invariant.
LEMMA ClientStep ==
    ASSUME IInv, NEW n \in Nics, ClientNext(n)
    PROVE  IInv'
<1>0. /\ toServer \in [Nics -> Seq(Packets)]
      /\ mode \in [Nics -> {"init", "selecting", "requesting", "bound"}]
      /\ addr \in [Nics -> Requestable \cup {NoSlot}]
  BY DEF IInv, TypeOK, Packets
<1>1. \A t \in PacketTypes, s \in Requestable \cup {NoSlot}, b \in BOOLEAN :
         /\ Packet(t, s, b) \in Packets
         /\ Packet(t, s, b).type = t /\ Packet(t, s, b).live = b
  BY DEF Packet, Packets
<1>2. {"discover", "request", "elsewhere", "release"} \subseteq PacketTypes
  BY DEF PacketTypes
<1>3. CASE Discover(n)
  <2> DEFINE p == Packet("discover", NoSlot, TRUE)
  <2>1. p \in Packets /\ p.type # "release"
    BY <1>1, <1>2
  <2>2. Send(n, "selecting", NoSlot, Stale(toServer[n]), p)
    BY <1>3 DEF Discover
  <2> HIDE DEF p
  <2>3. /\ "selecting" \in {"init", "selecting", "requesting"}
        /\ NoSlot \in Requestable \cup {NoSlot}
        /\ p.live => p.type # "release"
    BY <2>1
  <2> QED
    BY <2>1, <2>2, <2>3, NewTransaction
<1>4. CASE Request(n)
  <2> DEFINE p == Packet("request", addr[n], TRUE)
  <2>1. p \in Packets /\ p.type = "request"
    BY <1>0, <1>1, <1>2
  <2>2. Send(n, mode[n], addr[n], toServer[n], p)
    BY <1>4 DEF Request
  <2> HIDE DEF p
  <2> QED
    BY <2>1, <2>2, SameTransaction
<1>5. CASE RequestKnown(n)
  <2>1. PICK s \in Requestable :
           Send(n, "requesting", s, Stale(toServer[n]), Packet("request", s, TRUE))
    BY <1>5 DEF RequestKnown
  <2> DEFINE p == Packet("request", s, TRUE)
  <2>2. p \in Packets /\ p.type # "release"
    BY <1>1, <1>2
  <2>3. Send(n, "requesting", s, Stale(toServer[n]), p)
    BY <2>1
  <2> HIDE DEF p
  <2>4. /\ "requesting" \in {"init", "selecting", "requesting"}
        /\ s \in Requestable \cup {NoSlot}
        /\ p.live => p.type # "release"
    BY <2>2
  <2> QED
    BY <2>2, <2>3, <2>4, NewTransaction
<1>6. CASE RequestElsewhere(n)
  <2> DEFINE p == Packet("elsewhere", addr[n], FALSE)
  <2>1. p \in Packets /\ p.type # "release"
    BY <1>0, <1>1, <1>2
  <2>2. Send(n, "init", NoSlot, Stale(toServer[n]), p)
    BY <1>6 DEF RequestElsewhere
  <2> HIDE DEF p
  <2>3. /\ "init" \in {"init", "selecting", "requesting"}
        /\ NoSlot \in Requestable \cup {NoSlot}
        /\ p.live => p.type # "release"
    BY <2>1
  <2> QED
    BY <2>1, <2>2, <2>3, NewTransaction
<1>7. CASE Renew(n)
  <2> DEFINE p == Packet("request", addr[n], TRUE)
  <2>1. p \in Packets /\ p.type = "request"
    BY <1>0, <1>1, <1>2
  <2>2. Send(n, mode[n], addr[n], toServer[n], p)
    BY <1>7 DEF Renew
  <2> HIDE DEF p
  <2> QED
    BY <2>1, <2>2, SameTransaction
<1>8. CASE Release(n)
  <2> DEFINE p == Packet("release", addr[n], FALSE)
  <2>1. p \in Packets /\ ~p.live
    BY <1>0, <1>1, <1>2
  <2>2. Send(n, "init", NoSlot, Stale(toServer[n]), p)
    BY <1>8 DEF Release
  <2> HIDE DEF p
  <2>3. /\ "init" \in {"init", "selecting", "requesting"}
        /\ NoSlot \in Requestable \cup {NoSlot}
        /\ p.live => p.type # "release"
    BY <2>1
  <2> QED
    BY <2>1, <2>2, <2>3, NewTransaction
<1>9. CASE Forget(n)
  <2> DEFINE q == Stale(toServer[n])
  <2>1. q \in Seq(Packets) /\ \A i \in DOMAIN q : ~q[i].live
    BY <1>0, StaleFacts
  <2>2. toServer' = [toServer EXCEPT ![n] = q]
    BY <1>9 DEF Forget
  <2> HIDE DEF q
  <2>3. TypeOK'
    BY <1>0, <1>9, <2>1, <2>2 DEF Forget, IInv, TypeOK, Packets
  <2>4. Held'
    BY <1>0, <1>9, <2>2 DEF Forget, IInv, Held
  <2>5. ReleaseFirst'
    BY <1>0, <2>1, <2>2 DEF IInv, ReleaseFirst
  <2> QED
    BY <2>3, <2>4, <2>5 DEF IInv
<1>10. CASE Lose(n)
  <2>1. IInv /\ toServer[n] # <<>> /\ UNCHANGED <<leases, expired, mode, addr>>
        /\ toServer' = [toServer EXCEPT ![n] = Tail(toServer[n])]
    BY <1>10 DEF Lose, clientVars
  <2> DEFINE q == toServer[n]
  <2>2. Tail(q) \in Seq(Packets)
        /\ \A i \in DOMAIN Tail(q) : /\ i \in Nat /\ i + 1 \in DOMAIN q
                                     /\ Tail(q)[i] = q[i + 1]
    BY <1>0, <2>1, TailFacts
  <2>3. \A i, j \in DOMAIN q : q[i].live /\ q[j].type = "release" => j < i
    BY DEF IInv, ReleaseFirst
  <2>4. mode[n] = "bound" => \A i \in DOMAIN q : q[i].type # "release"
    BY DEF IInv, Held
  <2>5. toServer'[n] = Tail(q) /\ \A k \in Nics \ {n} : toServer'[k] = toServer[k]
    BY <1>0, <2>1
  <2>6. TypeOK'
    BY <1>0, <2>1, <2>2 DEF IInv, TypeOK, Packets
  <2> HIDE DEF q
  <2>7. Held'
    BY <2>1, <2>2, <2>4, <2>5 DEF IInv, Held
  <2>8. \A i, j \in DOMAIN Tail(q) :
           Tail(q)[i].live /\ Tail(q)[j].type = "release" => j < i
    BY <2>2, <2>3
  <2>9. ReleaseFirst'
    BY <2>5, <2>8 DEF IInv, ReleaseFirst
  <2> QED
    BY <2>6, <2>7, <2>9 DEF IInv
<1> QED
  BY <1>3, <1>4, <1>5, <1>6, <1>7, <1>8, <1>9, <1>10 DEF ClientNext

-----------------------------------------------------------------------------
\* What ServeDHCP finds and leaves when it takes the first packet of a client:
\* the queues stay well formed, and if the packet is live no release follows.
LEMMA TakenFacts ==
    ASSUME IInv, NEW n \in Nics, toServer[n] # <<>>, Taken(n)
    PROVE  /\ toServer' \in [Nics -> Seq(Packets)]
           /\ ReleaseFirst'
           /\ Head(toServer[n]) \in Packets
           /\ \A k \in Nics : mode[k] = "bound" =>
                 \A i \in DOMAIN toServer'[k] : toServer'[k][i].type # "release"
           /\ Head(toServer[n]).live =>
                 \A i \in DOMAIN toServer'[n] : toServer'[n][i].type # "release"
           /\ Head(toServer[n]).type = "release" => mode[n] # "bound"
<1> DEFINE q == toServer[n]
<1>0. toServer \in [Nics -> Seq(Packets)]
  BY DEF IInv, TypeOK, Packets
<1>1. toServer' = [toServer EXCEPT ![n] = Tail(toServer[n])]
  BY DEF Taken
<1>2. /\ Tail(q) \in Seq(Packets)
      /\ Head(q) = q[1] /\ 1 \in DOMAIN q /\ Head(q) \in Packets
      /\ \A i \in DOMAIN Tail(q) : /\ i \in Nat /\ i + 1 \in DOMAIN q
                                   /\ Tail(q)[i] = q[i + 1]
  BY <1>0, TailFacts
<1>3. \A i, j \in DOMAIN q : q[i].live /\ q[j].type = "release" => j < i
  BY DEF IInv, ReleaseFirst
<1>4. mode[n] = "bound" => \A i \in DOMAIN q : q[i].type # "release"
  BY DEF IInv, Held
<1>5. toServer'[n] = Tail(q) /\ \A k \in Nics \ {n} : toServer'[k] = toServer[k]
  BY <1>0, <1>1
<1>6. toServer' \in [Nics -> Seq(Packets)]
  BY <1>0, <1>1, <1>2
<1> HIDE DEF q
<1>7. \A i, j \in DOMAIN Tail(q) :
         Tail(q)[i].live /\ Tail(q)[j].type = "release" => j < i
  BY <1>2, <1>3
<1>8. ReleaseFirst'
  BY <1>5, <1>7 DEF IInv, ReleaseFirst
<1>9. q[1].live => \A i \in DOMAIN Tail(q) : Tail(q)[i].type # "release"
  <2> SUFFICES ASSUME q[1].live, NEW i \in DOMAIN Tail(q),
                      Tail(q)[i].type = "release"
               PROVE  FALSE
    OBVIOUS
  <2>1. i \in Nat /\ i + 1 \in DOMAIN q /\ q[i + 1].type = "release"
    BY <1>2
  <2>2. i + 1 < 1
    BY <1>2, <1>3, <2>1
  <2> QED
    BY <2>1, <2>2
<1>10. mode[n] = "bound" => \A i \in DOMAIN Tail(q) : Tail(q)[i].type # "release"
  BY <1>2, <1>4
<1>11. \A k \in Nics \ {n} : mode[k] = "bound" =>
          \A i \in DOMAIN toServer[k] : toServer[k][i].type # "release"
  BY DEF IInv, Held
<1>12. \A k \in Nics : mode[k] = "bound" =>
          \A i \in DOMAIN toServer'[k] : toServer'[k][i].type # "release"
  BY <1>5, <1>10, <1>11
<1>13. q[1].type = "release" => mode[n] # "bound"
  BY <1>2, <1>4
<1> QED
  BY <1>2, <1>5, <1>6, <1>8, <1>9, <1>12, <1>13 DEF q

\* Every step of ServeDHCP keeps the invariant.
LEMMA ServeStep ==
    ASSUME IInv, NEW n \in Nics, ServeDHCP(n)
    PROVE  IInv'
<1> DEFINE p == Head(toServer[n])
<1>0. toServer[n] # <<>> /\ Taken(n)
  BY DEF ServeDHCP, ServeDiscover, Acknowledge, Refuse, Ignore, ServeRelease, Handles
<1>1. /\ toServer' \in [Nics -> Seq(Packets)]
      /\ ReleaseFirst'
      /\ p \in Packets
      /\ \A k \in Nics : mode[k] = "bound" =>
            \A i \in DOMAIN toServer'[k] : toServer'[k][i].type # "release"
      /\ p.live => \A i \in DOMAIN toServer'[n] : toServer'[n][i].type # "release"
      /\ p.type = "release" => mode[n] # "bound"
  BY <1>0, TakenFacts
<1>2. /\ leases \in [Slots -> Nics \cup {None}]
      /\ expired \in SUBSET Slots
      /\ mode \in [Nics -> {"init", "selecting", "requesting", "bound"}]
      /\ addr \in [Nics -> Requestable \cup {NoSlot}]
  BY DEF IInv, TypeOK
<1>3. \A k \in Nics : mode[k] = "bound" => addr[k] \in Slots /\ leases[addr[k]] = k
  BY DEF IInv, Held
<1>4. p.slot \in Requestable \cup {NoSlot} /\ p.live \in BOOLEAN
  BY <1>1 DEF Packets
<1>5. CASE ServeDiscover(n)
  <2>1. UNCHANGED <<leases, expired>>
    BY <1>5 DEF ServeDiscover
  <2>2. CASE UNCHANGED clientVars
    <3>1. TypeOK'
      BY <1>1, <1>2, <2>1, <2>2 DEF TypeOK, Packets, clientVars
    <3>2. Held'
      BY <1>1, <1>3, <2>1, <2>2 DEF Held, clientVars
    <3> QED
      BY <1>1, <3>1, <3>2 DEF IInv
  <2>3. CASE \E s \in Slots : /\ addr' = [addr EXCEPT ![n] = s]
                              /\ mode' = [mode EXCEPT ![n] = "requesting"]
    <3>1. PICK s \in Slots : /\ addr' = [addr EXCEPT ![n] = s]
                             /\ mode' = [mode EXCEPT ![n] = "requesting"]
      BY <2>3
    <3>2. s \in Requestable
      BY SlotFacts
    <3>3. TypeOK'
      BY <1>1, <1>2, <2>1, <3>1, <3>2 DEF TypeOK, Packets
    <3>4. Held'
      BY <1>1, <1>2, <1>3, <2>1, <3>1 DEF Held
    <3> QED
      BY <1>1, <3>3, <3>4 DEF IInv
  <2>4. UNCHANGED clientVars \/ \E s \in Slots : /\ addr' = [addr EXCEPT ![n] = s]
                                  /\ mode' = [mode EXCEPT ![n] = "requesting"]
    BY <1>5 DEF ServeDiscover, Previous, FreeLease
  <2> QED
    BY <2>2, <2>3, <2>4
<1>6. CASE Acknowledge(n)
  <2>1. Grantable(n, p.slot)
    BY <1>6 DEF Acknowledge
  <2>2. p.slot \in Slots /\ leases[p.slot] \in {None, n}
    BY <1>4, <2>1, SlotFacts DEF Grantable, Requestable, NoSlot
  <2>3. leases' = [s \in Slots \cup {p.slot} |-> IF s = p.slot THEN n ELSE leases[s]]
        /\ expired' = expired \ {p.slot}
    BY <1>6 DEF Acknowledge
  <2>4. Slots \cup {p.slot} = Slots
    BY <2>2
  <2> HIDE DEF p
  <2>5. leases' = [s \in Slots |-> IF s = p.slot THEN n ELSE leases[s]]
    BY <2>3, <2>4
  <2>6. leases' \in [Slots -> Nics \cup {None}] /\ expired' \in SUBSET Slots
    BY <1>2, <2>3, <2>5
  <2>7. \A k \in Nics : mode[k] = "bound" => leases'[addr[k]] = k
    BY <1>2, <1>3, <2>2, <2>5, DhcpAssumption DEF DhcpAssumption
  <2>8. leases'[p.slot] = n
    BY <2>2, <2>5
  <2>9. CASE p.live
    <3>1. mode' = [mode EXCEPT ![n] = "bound"] /\ addr' = [addr EXCEPT ![n] = p.slot]
      BY <1>6, <2>9 DEF Acknowledge, p
    <3>2. p.slot \in Requestable
      BY <2>2, SlotFacts
    <3>3. TypeOK'
      BY <1>1, <1>2, <2>6, <3>1, <3>2 DEF TypeOK, Packets
    <3>4. Held'
      BY <1>1, <1>2, <1>3, <2>2, <2>7, <2>8, <2>9, <3>1 DEF Held
    <3> QED
      BY <1>1, <3>3, <3>4 DEF IInv
  <2>10. CASE ~p.live
    <3>1. UNCHANGED clientVars
      BY <1>6, <2>10 DEF Acknowledge, p
    <3>2. TypeOK'
      BY <1>1, <1>2, <2>6, <3>1 DEF TypeOK, Packets, clientVars
    <3>3. Held'
      BY <1>1, <1>3, <2>7, <3>1 DEF Held, clientVars
    <3> QED
      BY <1>1, <3>2, <3>3 DEF IInv
  <2> QED
    BY <2>9, <2>10
<1>7. CASE Refuse(n)
  <2>1. UNCHANGED <<leases, expired>>
    BY <1>7 DEF Refuse
  <2>2. CASE p.live
    <3>1. mode' = [mode EXCEPT ![n] = "init"] /\ addr' = [addr EXCEPT ![n] = NoSlot]
      BY <1>7, <2>2 DEF Refuse
    <3> HIDE DEF p
    <3>2. TypeOK'
      BY <1>1, <1>2, <2>1, <3>1 DEF TypeOK, Packets
    <3>3. Held'
      BY <1>1, <1>2, <1>3, <2>1, <3>1 DEF Held
    <3> QED
      BY <1>1, <3>2, <3>3 DEF IInv
  <2>3. CASE ~p.live
    <3>1. UNCHANGED clientVars
      BY <1>7, <2>3 DEF Refuse
    <3> HIDE DEF p
    <3>2. TypeOK'
      BY <1>1, <1>2, <2>1, <3>1 DEF TypeOK, Packets, clientVars
    <3>3. Held'
      BY <1>1, <1>3, <2>1, <3>1 DEF Held, clientVars
    <3> QED
      BY <1>1, <3>2, <3>3 DEF IInv
  <2> QED
    BY <2>2, <2>3
<1>8. CASE Ignore(n)
  <2>1. UNCHANGED <<leases, expired, clientVars>>
    BY <1>8 DEF Ignore
  <2> HIDE DEF p
  <2>2. TypeOK'
    BY <1>1, <1>2, <2>1 DEF TypeOK, Packets, clientVars
  <2>3. Held'
    BY <1>1, <1>3, <2>1 DEF Held, clientVars
  <2> QED
    BY <1>1, <2>2, <2>3 DEF IInv
<1>9. CASE ServeRelease(n)
  <2>1. mode[n] # "bound" /\ UNCHANGED clientVars
    BY <1>1, <1>9 DEF ServeRelease, Handles
  <2> HIDE DEF p
  <2>2. CASE UNCHANGED <<leases, expired>>
    <3>1. TypeOK'
      BY <1>1, <1>2, <2>1, <2>2 DEF TypeOK, Packets, clientVars
    <3>2. Held'
      BY <1>1, <1>3, <2>1, <2>2 DEF Held, clientVars
    <3> QED
      BY <1>1, <3>1, <3>2 DEF IInv
  <2>3. CASE \E s \in Previous(n) : /\ leases' = [leases EXCEPT ![s] = None]
                                    /\ expired' = expired \ {s}
    <3>1. PICK s \in Previous(n) : /\ leases' = [leases EXCEPT ![s] = None]
                                   /\ expired' = expired \ {s}
      BY <2>3
    <3>2. s \in Slots /\ leases[s] = n
      BY DEF Previous
    <3>3. TypeOK'
      BY <1>1, <1>2, <2>1, <3>1, <3>2 DEF TypeOK, Packets, clientVars
    <3>4. \A k \in Nics : mode[k] = "bound" => leases'[addr[k]] = k
      BY <1>2, <1>3, <2>1, <3>1, <3>2
    <3>5. Held'
      BY <1>1, <1>3, <2>1, <3>4 DEF Held, clientVars
    <3> QED
      BY <1>1, <3>3, <3>5 DEF IInv
  <2> QED
    BY <1>9, <2>2, <2>3 DEF ServeRelease
<1> QED
  BY <1>5, <1>6, <1>7, <1>8, <1>9 DEF ServeDHCP

\* The invariant is inductive: an expiry touches only the expired slots.
LEMMA IInvNext == IInv /\ [Next]_vars => IInv'
<1> SUFFICES ASSUME IInv, [Next]_vars
             PROVE  IInv'
  OBVIOUS
<1>1. CASE \E n \in Nics : ClientNext(n)
  BY <1>1, ClientStep
<1>2. CASE \E n \in Nics : ServeDHCP(n)
  BY <1>2, ServeStep
<1>3. CASE \E s \in Slots : Expire(s)
  <2>1. UNCHANGED <<leases, mode, addr, toServer>> /\ expired' \in SUBSET Slots
    BY <1>3 DEF Expire, clientVars, IInv, TypeOK
  <2>2. TypeOK'
    BY <2>1 DEF IInv, TypeOK
  <2>3. Held' /\ ReleaseFirst'
    BY <2>1 DEF IInv, Held, ReleaseFirst
  <2> QED
    BY <2>2, <2>3 DEF IInv
<1>4. CASE UNCHANGED vars
  BY <1>4 DEF vars, IInv, TypeOK, Held, ReleaseFirst
<1> QED
  BY <1>1, <1>2, <1>3, <1>4 DEF Next

\* Initially there is no lease.
LEMMA IInvInit == Init => IInv
BY DEF Init, IInv, TypeOK, Held, ReleaseFirst, Packets

\* In every reachable state.
LEMMA IInvHolds == Spec => []IInv
BY IInvInit, IInvNext, PTL DEF Spec

-----------------------------------------------------------------------------
\* ServeDHCP and its clients keep their state well formed: leases are kept for
\* the slots of the range only, however requests name addresses.
THEOREM TypeCorrect == Spec => []TypeOK
<1>1. IInv => TypeOK
  BY DEF IInv
<1> QED
  BY <1>1, IInvHolds, PTL

\* Two stations never use the same address, and none uses one outside the
\* range that the server was given.
THEOREM AddressUniqueHolds == Spec => []AddressUnique
<1>1. IInv => AddressUnique
  BY DEF IInv, Held, AddressUnique
<1> QED
  BY <1>1, IInvHolds, PTL

-----------------------------------------------------------------------------
(* The server and its clients implement the address pool. *)

\* A step that changes nothing of what the clients use.
LEMMA SameUsing ==
    ASSUME UNCHANGED <<mode, addr>>
    PROVE  UNCHANGED Using
BY DEF Using

\* A step of client n that leaves it without an address.
LEMMA NotBound ==
    ASSUME TypeOK, NEW n \in Nics, NEW m, NEW a, m # "bound",
           mode' = [mode EXCEPT ![n] = m], addr' = [addr EXCEPT ![n] = a]
    PROVE  Using' = [Using EXCEPT ![n] = NoSlot]
BY DEF TypeOK, Using

\* A step of client n that binds it to slot s.
LEMMA Bound ==
    ASSUME TypeOK, NEW n \in Nics, NEW s,
           mode' = [mode EXCEPT ![n] = "bound"], addr' = [addr EXCEPT ![n] = s]
    PROVE  Using' = [Using EXCEPT ![n] = s]
BY DEF TypeOK, Using

\* A client that keeps its mode and its address.
LEMMA Kept ==
    ASSUME TypeOK, NEW n \in Nics,
           mode' = [mode EXCEPT ![n] = mode[n]], addr' = [addr EXCEPT ![n] = addr[n]]
    PROVE  UNCHANGED Using
<1>1. mode' = mode /\ addr' = addr
  BY DEF TypeOK
<1> QED
  BY <1>1, SameUsing

\* Every step is a step of the pool or changes no address in use.
LEMMA PoolStep == IInv /\ [Next]_vars => [Pool!Next]_Using
<1> SUFFICES ASSUME IInv, [Next]_vars
             PROVE  Pool!Next \/ UNCHANGED Using
  OBVIOUS
<1>0. TypeOK
  BY DEF IInv
<1>1. ASSUME NEW n \in Nics, NEW m, NEW a, m # "bound",
             mode' = [mode EXCEPT ![n] = m], addr' = [addr EXCEPT ![n] = a]
      PROVE  Pool!Next
  BY <1>0, <1>1, NotBound DEF Pool!Next, Pool!GiveUp
<1>2. ASSUME NEW n \in Nics, ClientNext(n)
      PROVE  Pool!Next \/ UNCHANGED Using
  <2>1. CASE Discover(n)
    BY <1>1, <2>1 DEF Discover, Send
  <2>2. CASE Request(n)
    BY <1>1, <2>2 DEF Request, Send
  <2>3. CASE RequestKnown(n)
    BY <1>1, <2>3 DEF RequestKnown, Send
  <2>4. CASE RequestElsewhere(n)
    BY <1>1, <2>4 DEF RequestElsewhere, Send
  <2>5. CASE Renew(n)
    BY <1>0, <2>5, Kept DEF Renew, Send
  <2>6. CASE Release(n)
    BY <1>1, <2>6 DEF Release, Send
  <2>7. CASE Forget(n)
    BY <1>1, <2>7 DEF Forget
  <2>8. CASE Lose(n)
    BY <2>8, SameUsing DEF Lose, clientVars
  <2> QED
    BY <1>2, <2>1, <2>2, <2>3, <2>4, <2>5, <2>6, <2>7, <2>8 DEF ClientNext
<1>3. ASSUME NEW n \in Nics, ServeDHCP(n)
      PROVE  Pool!Next \/ UNCHANGED Using
  <2>1. CASE UNCHANGED clientVars
    BY <2>1, SameUsing DEF clientVars
  <2>2. CASE ServeDiscover(n)
    BY <1>1, <2>1, <2>2 DEF ServeDiscover
  <2>3. CASE Acknowledge(n) /\ ~UNCHANGED clientVars
    <3> DEFINE s == Head(toServer[n]).slot
    <3>1. mode' = [mode EXCEPT ![n] = "bound"] /\ addr' = [addr EXCEPT ![n] = s]
          /\ Grantable(n, s)
      BY <2>3 DEF Acknowledge
    <3>2. s \in Requestable \cup {NoSlot}
      <4>1. toServer[n] \in Seq(Packets) /\ toServer[n] # <<>>
        BY <1>0, <2>3 DEF TypeOK, Packets, Acknowledge, Handles
      <4>2. Head(toServer[n]) \in Packets
        BY <4>1, TailFacts
      <4> QED
        BY <4>2 DEF Packets
    <3> HIDE DEF s
    <3>3. s \in Slots /\ leases[s] \in {None, n}
      BY <3>1, <3>2, SlotFacts DEF Grantable, Requestable, NoSlot
    <3>4. Using' = [Using EXCEPT ![n] = s]
      BY <1>0, <3>1, Bound
    <3>5. \A k \in Nics \ {n} : Using[k] # s
      BY <3>3, SlotFacts, DhcpAssumption DEF DhcpAssumption, IInv, Held, Using
    <3> QED
      BY <3>3, <3>4, <3>5 DEF Pool!Next, Pool!Take
  <2>4. CASE Refuse(n)
    BY <1>1, <2>1, <2>4 DEF Refuse
  <2>5. CASE Ignore(n)
    BY <2>1, <2>5 DEF Ignore, clientVars
  <2>6. CASE ServeRelease(n)
    BY <2>1, <2>6 DEF ServeRelease
  <2> QED
    BY <1>3, <2>1, <2>2, <2>3, <2>4, <2>5, <2>6 DEF ServeDHCP
<1>4. CASE \E s \in Slots : Expire(s)
  BY <1>4, SameUsing DEF Expire, clientVars
<1>5. CASE UNCHANGED vars
  BY <1>5, SameUsing DEF vars
<1> QED
  BY <1>2, <1>3, <1>4, <1>5 DEF Next

\* Initially no station uses an address.
LEMMA PoolInit == Init => Pool!Init
BY DEF Init, Pool!Init, Using

\* Refinement: the addresses that stations use behave as the address pool, a
\* station takes one only while no other station uses it.
THEOREM ImplementsPool == Spec => PoolSpec
BY PoolInit, PoolStep, IInvHolds, PTL DEF Spec, PoolSpec, Pool!Spec
=============================================================================
