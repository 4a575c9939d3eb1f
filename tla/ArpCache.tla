------------------------------ MODULE ArpCache ------------------------------
(***************************************************************************)
(* What sip_arp.c promises to the rest of the stack: a map from IP to MAC  *)
(* addresses of bounded size that learns and corrects, and never forgets.  *)
(***************************************************************************)
EXTENDS Integers, FiniteSets

CONSTANTS Ips, Macs,   \* the addresses on the wire
          Own, OwnMac, \* those of this host
          Size         \* most addresses the cache holds

VARIABLE map

Init == map = [a \in {} |-> OwnMac]

\* f with mac at ip.
Set(f, ip, mac) == [a \in DOMAIN f \cup {ip} |-> IF a = ip THEN mac ELSE f[a]]

\* A known address is corrected; an unknown one is kept if there is room.
Learnt(f, ip, mac) ==
    IF ip \in DOMAIN f \/ Cardinality(DOMAIN f) < Size THEN Set(f, ip, mac) ELSE f

\* Whoever has claimed this host's address is overruled.
Reclaimed(f) == IF Own \in DOMAIN f THEN Set(f, Own, OwnMac) ELSE f

Next ==
    \E ip \in Ips, mac \in Macs :
        map' \in {Learnt(map, ip, mac), Reclaimed(map), Learnt(Reclaimed(map), ip, mac)}

Spec == Init /\ [][Next]_map
=============================================================================
