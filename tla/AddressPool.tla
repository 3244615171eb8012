----------------------------- MODULE AddressPool ----------------------------
(***************************************************************************)
(* What a DHCP server is for: stations take and give up addresses of one   *)
(* range, and a station never takes an address another one is using.       *)
(***************************************************************************)
CONSTANTS Nics, Slots, NoSlot

VARIABLE using   \* the address each station uses, or NoSlot

Init == using = [n \in Nics |-> NoSlot]

Take(n) ==
    \E s \in Slots :
        /\ \A m \in Nics \ {n} : using[m] # s
        /\ using' = [using EXCEPT ![n] = s]

GiveUp(n) == using' = [using EXCEPT ![n] = NoSlot]

Next == \E n \in Nics : Take(n) \/ GiveUp(n)

Spec == Init /\ [][Next]_using
=============================================================================
