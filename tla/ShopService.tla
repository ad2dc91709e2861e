----------------------------- MODULE ShopService -----------------------------
(***************************************************************************)
(* What the PideShop promises its clients: each pide that was ordered is   *)
(* delivered once, one client after the other, and a client leaves         *)
(* satisfied only with all its pides.  No cancellation, no shutdown.       *)
(***************************************************************************)
EXTENDS Naturals

CONSTANTS Clients, Size
VARIABLES client, delivered

PidesOf(c) == {c} \X (1..Size[c])

Init ==
    /\ client = [c \in Clients |-> "idle"]
    /\ delivered = {}

Order(c) ==
    /\ client[c] = "idle"
    /\ client' = [client EXCEPT ![c] = "waiting"]
    /\ UNCHANGED delivered

\* Deliveries to two clients are not interleaved.
Deliver(c) ==
    /\ client[c] = "waiting"
    /\ \A d \in Clients \ {c} : PidesOf(d) \cap delivered = {} \/ client[d] = "DELIVERED"
    /\ \E p \in PidesOf(c) \ delivered : delivered' = delivered \cup {p}
    /\ UNCHANGED client

Leave(c) ==
    /\ client[c] = "waiting" /\ PidesOf(c) \subseteq delivered
    /\ client' = [client EXCEPT ![c] = "DELIVERED"]
    /\ UNCHANGED delivered

Next == \E c \in Clients : Order(c) \/ Deliver(c) \/ Leave(c)

Spec == Init /\ [][Next]_<<client, delivered>>
=============================================================================
