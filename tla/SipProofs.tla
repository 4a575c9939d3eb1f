------------------------------ MODULE SipProofs ------------------------------
(***************************************************************************)
(* The SIP stack.  Its ARP table implements the cache of module ArpCache   *)
(* for tables of every size, and every datagram that a handler takes costs *)
(* a buffer.  The table of sockets under any number of threads: what the   *)
(* calls keep as long as none of them overlaps another, and what they keep *)
(* as long as no sip_close does.  The lists of UDP's control blocks: exact *)
(* as long as no block is bound to a second port.  The checksums: which    *)
(* messages of any bytes and any length their receiver accepts.            *)
(***************************************************************************)
EXTENDS SipStack, SipSockets, SipUdp, Checksum, FunctionTheorems, FiniteSetTheorems, SequenceTheorems,
        WellFoundedInduction, TLAPS

\* Used and Map of any table.
UsedOf(t) == {i \in ArpSlots : t[i] # Empty}
MapOf(t) == [ip \in {t[i].ip : i \in UsedOf(t)} |-> t[CHOOSE i \in UsedOf(t) : t[i].ip = ip].mac]

\* A table of entries in which no address occurs twice.
TableOK(t) ==
    /\ t \in [ArpSlots -> ArpEntries \cup {Empty}]
    /\ \A i, j \in UsedOf(t) : t[i].ip = t[j].ip => i = j

(*************************************************************************)
(* Tables and maps                                                        *)
(*************************************************************************)

\* No entry looks like a free one.
LEMMA EntriesAreUsed ==
  ASSUME NEW ip \in Ips, NEW mac \in AllMacs
  PROVE  /\ [ip |-> ip, mac |-> mac] \in ArpEntries
         /\ [ip |-> ip, mac |-> mac] # Empty
  BY SipAssumption DEF Ips, ArpEntries, Empty

\* A used entry is what the map holds for its address.
LEMMA MapAt ==
  ASSUME NEW t, TableOK(t), NEW i \in UsedOf(t)
  PROVE  t[i].ip \in DOMAIN MapOf(t) /\ MapOf(t)[t[i].ip] = t[i].mac
<1>1. t[i].ip \in {t[j].ip : j \in UsedOf(t)}
  OBVIOUS
<1>2. (CHOOSE j \in UsedOf(t) : t[j].ip = t[i].ip) = i
  BY DEF TableOK
<1> QED BY <1>1, <1>2 DEF MapOf

LEMMA MapIsFunction ==
  ASSUME NEW t
  PROVE  MapOf(t) = [a \in DOMAIN MapOf(t) |-> MapOf(t)[a]]
<1> DEFINE S == {t[i].ip : i \in UsedOf(t)}
           F(a) == t[CHOOSE i \in UsedOf(t) : t[i].ip = a].mac
<1>1. MapOf(t) = [a \in S |-> F(a)]
  BY DEF MapOf
<1> HIDE DEF S, F
<1> QED BY <1>1

\* An address is known to the map if an entry holds it.
LEMMA KnownIsHeld ==
  ASSUME NEW t, NEW ip
  PROVE  ip \in DOMAIN MapOf(t) <=> Holding(t, ip) # {}
  BY DEF MapOf, UsedOf, Holding

\* Writing an address to its own entry, or one that no entry holds to a free one, sets it in the map.
LEMMA WrittenIsSet ==
  ASSUME NEW t, TableOK(t), NEW ip \in Ips, NEW mac \in AllMacs, NEW k \in ArpSlots,
         NEW u, u = [t EXCEPT ![k] = [ip |-> ip, mac |-> mac]],
         k \in Holding(t, ip) \/ (t[k] = Empty /\ Holding(t, ip) = {})
  PROVE  TableOK(u) /\ MapOf(u) = Cache!Set(MapOf(t), ip, mac)
<1> DEFINE e == [ip |-> ip, mac |-> mac]
<1>1. e \in ArpEntries /\ e # Empty /\ e.ip = ip /\ e.mac = mac
  BY EntriesAreUsed
<1> HIDE DEF e
<1>2. u = [t EXCEPT ![k] = e]
  BY DEF e
<1>3. t \in [ArpSlots -> ArpEntries \cup {Empty}]
  BY DEF TableOK
<1>4. u \in [ArpSlots -> ArpEntries \cup {Empty}]
  BY <1>1, <1>2, <1>3
<1>5. u[k] = e /\ \A i \in ArpSlots \ {k} : u[i] = t[i]
  BY <1>2, <1>3
<1>6. UsedOf(u) = UsedOf(t) \cup {k}
  BY <1>1, <1>5 DEF UsedOf
<1>7. \A i \in UsedOf(t) \ {k} : t[i].ip # ip
  BY DEF TableOK, Holding, UsedOf
<1>8. TableOK(u)
  <2>1. ASSUME NEW i \in UsedOf(u), NEW j \in UsedOf(u), u[i].ip = u[j].ip
        PROVE  i = j
    <3>1. i \in UsedOf(t) \cup {k} /\ j \in UsedOf(t) \cup {k}
      BY <1>6
    <3>2. i \in ArpSlots /\ j \in ArpSlots
      BY DEF UsedOf
    <3>3. CASE i = k \/ j = k
      BY <1>1, <1>5, <1>7, <2>1, <3>1, <3>2, <3>3
    <3>4. CASE i # k /\ j # k
      BY <1>5, <2>1, <3>1, <3>2, <3>4 DEF TableOK
    <3> QED BY <3>3, <3>4
  <2> QED BY <1>4, <2>1 DEF TableOK
<1>9. k \in UsedOf(t) => t[k].ip = ip
  BY DEF UsedOf, Holding
<1>10. \A a : a \in DOMAIN MapOf(u) <=> a \in DOMAIN MapOf(t) \cup {ip}
  <2>1. DOMAIN MapOf(u) = {u[i].ip : i \in UsedOf(u)} /\ DOMAIN MapOf(t) = {t[i].ip : i \in UsedOf(t)}
    BY DEF MapOf
  <2>2. \A i \in UsedOf(t) \ {k} : u[i].ip = t[i].ip
    BY <1>5 DEF UsedOf
  <2>3. u[k].ip = ip
    BY <1>1, <1>5
  <2>4. {u[i].ip : i \in UsedOf(u)} = {u[i].ip : i \in UsedOf(t) \ {k}} \cup {ip}
    BY <1>6, <2>3
  <2>5. {t[i].ip : i \in UsedOf(t)} \cup {ip} = {t[i].ip : i \in UsedOf(t) \ {k}} \cup {ip}
    BY <1>9
  <2>6. {u[i].ip : i \in UsedOf(t) \ {k}} = {t[i].ip : i \in UsedOf(t) \ {k}}
    BY <2>2
  <2> QED BY <2>1, <2>4, <2>5, <2>6
<1>11. ASSUME NEW a \in DOMAIN MapOf(u)
       PROVE  MapOf(u)[a] = IF a = ip THEN mac ELSE MapOf(t)[a]
  <2>1. PICK i \in UsedOf(u) : a = u[i].ip
    BY <1>11 DEF MapOf
  <2>2. MapOf(u)[a] = u[i].mac
    BY <1>8, <2>1, MapAt
  <2>3. CASE i = k
    BY <1>1, <1>5, <2>1, <2>2, <2>3
  <2>4. CASE i # k
    <3>1. i \in UsedOf(t) /\ u[i] = t[i]
      BY <1>5, <1>6, <2>4 DEF UsedOf
    <3>2. a # ip
      BY <1>7, <2>1, <2>4, <3>1
    <3>3. MapOf(t)[a] = t[i].mac
      BY <2>1, <3>1, MapAt
    <3> QED BY <2>2, <3>1, <3>2, <3>3
  <2> QED BY <2>3, <2>4
<1>12. MapOf(u) = [a \in DOMAIN MapOf(u) |-> MapOf(u)[a]]
  BY MapIsFunction
<1>13. DOMAIN MapOf(u) = DOMAIN MapOf(t) \cup {ip}
  BY <1>10
<1>14. MapOf(u) = [a \in DOMAIN MapOf(t) \cup {ip} |-> IF a = ip THEN mac ELSE MapOf(t)[a]]
  BY <1>11, <1>12, <1>13
<1> QED BY <1>8, <1>14 DEF Cache!Set

(*************************************************************************)
(* arp_add and arp_update                                                 *)
(*************************************************************************)

\* A set of slots has a first one.
LEMMA FirstSlot ==
  ASSUME NEW S \in SUBSET ArpSlots, S # {}
  PROVE  \E i \in S : IsLeast(i, S)
<1>1. S \subseteq Nat
  BY SipAssumption DEF ArpSlots
<1>2. PICK i \in S : \A j \in S : <<j, i>> \notin OpToRel(<, Nat)
  BY <1>1, NatLessThanWellFounded, WFMin
<1>3. \A j \in S : ~(j < i)
  BY <1>1, <1>2 DEF OpToRel
<1>4. \A j \in S : i <= j
  BY <1>1, <1>3
<1> QED BY <1>4 DEF IsLeast

\* Put writes one entry of the set, or nothing if it is empty.
LEMMA PutWritesOne ==
  ASSUME NEW t, TableOK(t), NEW S \in SUBSET ArpSlots, NEW e
  PROVE  /\ S = {} => Put(t, S, e) = t
         /\ S # {} => \E k \in S : Put(t, S, e) = [t EXCEPT ![k] = e]
<1>1. t = [i \in ArpSlots |-> t[i]]
  BY DEF TableOK
<1>2. CASE S = {}
  <2>1. \A i \in ArpSlots : ~IsLeast(i, S)
    BY <1>2 DEF IsLeast
  <2> QED BY <1>1, <1>2, <2>1 DEF Put
<1>3. CASE S # {}
  <2>1. PICK k \in S : IsLeast(k, S)
    BY <1>3, FirstSlot
  <2>2. \A i \in ArpSlots : IsLeast(i, S) <=> i = k
    BY <2>1, SipAssumption DEF IsLeast, ArpSlots
  <2>3. [t EXCEPT ![k] = e] = [i \in ArpSlots |-> IF i = k THEN e ELSE t[i]]
    BY <1>1
  <2>4. Put(t, S, e) = [t EXCEPT ![k] = e]
    BY <2>2, <2>3 DEF Put
  <2> QED BY <1>3, <2>4
<1> QED BY <1>2, <1>3

\* arp_update corrects a known address and leaves others alone.
LEMMA UpdateCorrects ==
  ASSUME NEW t, TableOK(t), NEW ip \in Ips, NEW mac \in AllMacs
  PROVE  /\ TableOK(Updated(t, ip, mac))
         /\ ip \in DOMAIN MapOf(t) => MapOf(Updated(t, ip, mac)) = Cache!Set(MapOf(t), ip, mac)
         /\ ip \notin DOMAIN MapOf(t) => Updated(t, ip, mac) = t
<1> DEFINE e == [ip |-> ip, mac |-> mac]
<1>1. Holding(t, ip) \in SUBSET ArpSlots
  BY DEF Holding
<1>2. CASE Holding(t, ip) = {}
  <2>1. Updated(t, ip, mac) = t
    BY <1>1, <1>2, PutWritesOne DEF Updated
  <2> QED BY <1>2, <2>1, KnownIsHeld
<1>3. CASE Holding(t, ip) # {}
  <2>1. PICK k \in Holding(t, ip) : Updated(t, ip, mac) = [t EXCEPT ![k] = e]
    BY <1>1, <1>3, PutWritesOne DEF Updated
  <2>2. TableOK(Updated(t, ip, mac)) /\ MapOf(Updated(t, ip, mac)) = Cache!Set(MapOf(t), ip, mac)
    BY <1>1, <2>1, WrittenIsSet
  <2> QED BY <1>3, <2>2, KnownIsHeld
<1> QED BY <1>2, <1>3

\* The map is full exactly when the table is.
LEMMA FullIsFull ==
  ASSUME NEW t, TableOK(t)
  PROVE  Cardinality(DOMAIN MapOf(t)) < TableSize <=> \E i \in ArpSlots : t[i] = Empty
<1> DEFINE U == UsedOf(t)
           D == DOMAIN MapOf(t)
           f == [i \in U |-> t[i].ip]
<1>1. IsFiniteSet(ArpSlots) /\ Cardinality(ArpSlots) = TableSize
  BY SipAssumption, FS_Interval DEF ArpSlots
<1>2. U \in SUBSET ArpSlots
  BY DEF UsedOf
<1>3. /\ IsFiniteSet(U) /\ Cardinality(U) <= TableSize
      /\ Cardinality(U) = TableSize => U = ArpSlots
  BY <1>1, <1>2, FS_Subset
<1>4. D = {t[i].ip : i \in U}
  BY DEF MapOf
<1>5. f \in Surjection(U, D)
  <2>1. f \in [U -> D]
    BY <1>4
  <2>2. \A a \in D : \E i \in U : f[i] = a
    BY <1>4
  <2> QED BY <2>1, <2>2 DEF Surjection
<1>6. f \in Injection(U, D)
  <2>1. \A i, j \in U : f[i] = f[j] => i = j
    BY DEF TableOK
  <2>2. f \in [U -> D]
    BY <1>5 DEF Surjection
  <2> QED BY <2>1, <2>2 DEF Injection, IsInjective
<1>7. Cardinality(D) = Cardinality(U)
  BY <1>3, <1>5, <1>6, FS_Surjection
<1>8. Cardinality(U) \in Nat
  BY <1>3, FS_CardinalityType
<1>9. U = ArpSlots => Cardinality(U) = TableSize
  BY <1>1
<1>10. Cardinality(U) < TableSize <=> U # ArpSlots
  BY <1>3, <1>8, <1>9, SipAssumption
<1>11. U # ArpSlots <=> \E i \in ArpSlots : t[i] = Empty
  BY DEF UsedOf
<1> QED BY <1>7, <1>10, <1>11

\* The cache counts its addresses as the table does.
LEMMA SameCount == \A S : Cache!Cardinality(S) = Cardinality(S)
  BY DEF Cache!Cardinality, Cardinality

\* arp_add corrects a known address and learns another while there is room.
LEMMA AddLearns ==
  ASSUME NEW t, TableOK(t), NEW ip \in Ips, NEW mac \in AllMacs
  PROVE  TableOK(Added(t, ip, mac)) /\ MapOf(Added(t, ip, mac)) = Cache!Learnt(MapOf(t), ip, mac)
<1> DEFINE e == [ip |-> ip, mac |-> mac]
           free == {i \in ArpSlots : t[i] = Empty}
<1>0. free \in SUBSET ArpSlots
  OBVIOUS
<1>1. CASE Holding(t, ip) # {}
  <2>1. Added(t, ip, mac) = Updated(t, ip, mac)
    BY <1>1 DEF Added
  <2>2. ip \in DOMAIN MapOf(t)
    BY <1>1, KnownIsHeld
  <2> QED BY <2>1, <2>2, UpdateCorrects DEF Cache!Learnt
<1>2. CASE Holding(t, ip) = {} /\ free # {}
  <2>1. Added(t, ip, mac) = Put(t, free, e)
    BY <1>2 DEF Added
  <2>0. \E k \in free : Put(t, free, e) = [t EXCEPT ![k] = e]
    <3> HIDE DEF free, e
    <3> QED BY <1>0, <1>2, PutWritesOne
  <2>2. PICK k \in free : Added(t, ip, mac) = [t EXCEPT ![k] = e]
    BY <2>0, <2>1
  <2>3. TableOK(Added(t, ip, mac)) /\ MapOf(Added(t, ip, mac)) = Cache!Set(MapOf(t), ip, mac)
    <3>1. k \in ArpSlots /\ t[k] = Empty
      OBVIOUS
    <3> HIDE DEF free
    <3> QED BY <1>2, <2>2, <3>1, WrittenIsSet
  <2>4. Cardinality(DOMAIN MapOf(t)) < TableSize
    BY <1>2, FullIsFull
  <2> QED BY <2>3, <2>4, SameCount DEF Cache!Learnt
<1>3. CASE Holding(t, ip) = {} /\ free = {}
  <2>1. Added(t, ip, mac) = t
    BY <1>3, PutWritesOne DEF Added
  <2>2. ~(Cardinality(DOMAIN MapOf(t)) < TableSize)
    BY <1>3, FullIsFull
  <2>3. ip \notin DOMAIN MapOf(t)
    BY <1>3, KnownIsHeld
  <2> QED BY <2>1, <2>2, <2>3, SameCount DEF Cache!Learnt
<1> QED BY <1>1, <1>2, <1>3

(*************************************************************************)
(* Memory                                                                 *)
(*************************************************************************)

\* What the counters can be.
Counts ==
    /\ live \in 0..Memory /\ reass \in BOOLEAN /\ upper \in Nat
    /\ run \in {"running", "stopped", "crashed", "overrun"}
    /\ out \subseteq {"reply", "ask", "ip"}
    /\ DatagramsCost

\* What a datagram for this host comes to above IP: a buffer kept and counted, one freed, or the end.
LEMMA UpperOutcome ==
  ASSUME NEW src, NEW dst, NEW h \in Headers, NEW n, Upper(src, dst, h, n)
  PROVE  /\ out' = {}
         /\ \/ live' = live + n + 1 /\ upper' = upper + 1 /\ run' = run
            \/ live' = live + n /\ upper' = upper /\ run' = run
            \/ run' \in {"crashed", "overrun"} /\ live' = live /\ upper' = upper + 1
<1>1. tot_len(h) \in {20, 60}
  BY DEF tot_len, IPHDR_LEN
<1>2. ~(ETH_HLEN + tot_len(h) <= mtu)
  BY <1>1 DEF ETH_HLEN, mtu
<1>3. ASSUME IpOutput(src, tot_len(h), n)
      PROVE  out' = {} /\ run' \in {"crashed", "overrun"} /\ live' = live
  BY <1>2, <1>3 DEF IpOutput, Crash
<1>4. CASE h.proto = "echo"
  <2>1. IcmpEcho(src, dst, h, n) /\ upper' = upper + 1
    BY <1>4 DEF Upper, IcmpInput
  <2>2. CASE dst = Bcast
    BY <2>1, <2>2 DEF IcmpEcho, Lost
  <2>3. CASE dst # Bcast
    BY <1>3, <2>1, <2>3 DEF IcmpEcho
  <2> QED BY <2>2, <2>3
<1>5. CASE h.proto = "beyond"
  BY <1>5 DEF Upper, IcmpInput, Freed
<1>6. CASE h.proto \notin {"echo", "beyond"}
  BY <1>6 DEF Upper, IcmpInput, Lost
<1> QED BY <1>4, <1>5, <1>6

\* Whatever ip_input does with a datagram keeps the account.
LEMMA IpKeepsCounts ==
  ASSUME Counts, Reads, NEW src, NEW dst, NEW h \in Headers, IpInput(src, dst, h)
  PROVE  Counts'
<1>1. /\ live \in Nat /\ live < Memory /\ Memory \in Nat /\ upper \in Nat /\ run = "running"
      /\ live = upper + (IF reass THEN 1 ELSE 0)
  BY SipAssumption DEF Counts, Reads, DatagramsCost
<1>2. CASE Refuses(src, dst, h)
  <2>1. live' = live + 0 /\ out' = {} /\ UNCHANGED <<run, reass, upper>>
    BY <1>2 DEF IpInput, Freed
  <2> QED BY <1>1, <2>1 DEF Counts, DatagramsCost
<1>3. CASE ~Refuses(src, dst, h) /\ h.frag = "whole"
  <2>1. Upper(src, dst, h, 0) /\ reass' = reass
    BY <1>3 DEF IpInput
  <2> QED BY <1>1, <2>1, UpperOutcome DEF Counts, DatagramsCost
<1>4. CASE ~Refuses(src, dst, h) /\ h.frag # "whole"
  <2>1. Reassemble(src, dst, h)
    BY <1>4 DEF IpInput
  <2>2. ASSUME Crash, UNCHANGED <<reass, upper>>
        PROVE  Counts'
    BY <2>2, <1>1 DEF Crash, Counts, DatagramsCost
  <2>3. ASSUME reass, Upper(src, dst, h, 0), UNCHANGED reass
        PROVE  Counts'
    BY <1>1, <2>3, UpperOutcome DEF Counts, DatagramsCost
  <2>4. ASSUME ~reass, live + 1 < Memory, Upper(src, dst, h, 1), reass' = TRUE
        PROVE  Counts'
    <3>1. out' = {} /\ reass' \in BOOLEAN
      BY <2>4, UpperOutcome
    <3>2. CASE live' = live + 1 + 1 /\ upper' = upper + 1 /\ run' = run
      BY <1>1, <2>4, <3>1, <3>2 DEF Counts, DatagramsCost
    <3>3. CASE live' = live + 1 /\ upper' = upper /\ run' = run
      BY <1>1, <2>4, <3>1, <3>3 DEF Counts, DatagramsCost
    <3>4. CASE run' \in {"crashed", "overrun"} /\ live' = live /\ upper' = upper + 1
      BY <1>1, <2>4, <3>1, <3>4 DEF Counts, DatagramsCost
    <3> QED BY <2>4, <3>2, <3>3, <3>4, UpperOutcome
  <2>5. ASSUME Freed(0), UNCHANGED <<reass, upper>>
        PROVE  Counts'
    <3>1. live' = live + 0 /\ out' = {} /\ UNCHANGED <<run, reass, upper>>
      BY <2>5 DEF Freed
    <3> QED BY <1>1, <3>1 DEF Counts, DatagramsCost
  <2> QED BY <2>1, <2>2, <2>3, <2>4, <2>5 DEF Reassemble
<1> QED BY <1>2, <1>3, <1>4

(*************************************************************************)
(* The stack                                                              *)
(*************************************************************************)

StackInv == TableOK(table) /\ Counts

LEMMA StackStarts == StackInit => StackInv
<1> SUFFICES ASSUME StackInit
             PROVE  StackInv
  OBVIOUS
<1>1. UsedOf(table) = {}
  BY DEF StackInit, UsedOf
<1>2. TableOK(table)
  BY <1>1 DEF TableOK, StackInit
<1>3. live = 0 /\ reass = FALSE /\ run = "running" /\ out = {} /\ upper = 0
  BY DEF StackInit
<1>4. DatagramsCost
  BY <1>3 DEF DatagramsCost
<1>5. Counts
  <2>1. live \in 0..Memory /\ upper \in Nat
    BY <1>3, SipAssumption
  <2>2. reass \in BOOLEAN /\ run \in {"running", "stopped", "crashed", "overrun"} /\ out \subseteq {"reply", "ask", "ip"}
    BY Zenon, <1>3
  <2> QED BY <1>4, <2>1, <2>2 DEF Counts
<1> QED BY <1>2, <1>5 DEF StackInv

\* What a frame does to the table is what the cache may do.
TableSteps(t) ==
    \E ip \in Ips, mac \in Macs :
        t \in {Added(table, ip, mac), Updated(table, Own, OwnMac), Added(Updated(table, Own, OwnMac), ip, mac)}

LEMMA StepsOfTable ==
  ASSUME StackInv, StackNext
  PROVE  TableSteps(table') \/ table' = table
<1>1. CASE ArpFrame
  BY <1>1 DEF ArpFrame, ArpInput, TableSteps
<1>2. CASE IpFrame
  <2>1. PICK src \in Ips, dst \in Ips, mac \in Macs, h \in Headers : table' = Added(table, src, mac)
    BY <1>2 DEF IpFrame
  <2> QED BY <2>1 DEF TableSteps
<1>3. CASE OtherFrame \/ Sigint
  BY <1>3 DEF OtherFrame, Sigint
<1> QED BY <1>1, <1>2, <1>3 DEF StackNext

\* This host's entry is corrected, if it is there.
LEMMA OwnReclaimed ==
  ASSUME NEW t, TableOK(t)
  PROVE  TableOK(Updated(t, Own, OwnMac)) /\ MapOf(Updated(t, Own, OwnMac)) = Cache!Reclaimed(MapOf(t))
<1>1. Own \in Ips /\ OwnMac \in AllMacs
  BY DEF Ips, AllMacs
<1> QED BY <1>1, UpdateCorrects DEF Cache!Reclaimed

LEMMA TableStepIsCacheStep ==
  ASSUME TableOK(table), TableSteps(table')
  PROVE  TableOK(table') /\ Cache!Next
<1>1. PICK ip \in Ips, mac \in Macs :
         table' \in {Added(table, ip, mac), Updated(table, Own, OwnMac), Added(Updated(table, Own, OwnMac), ip, mac)}
  BY DEF TableSteps
<1>2. mac \in AllMacs
  BY DEF AllMacs
<1>3. MapOf(table) = Map /\ MapOf(table') = Map'
  BY DEF MapOf, UsedOf, Map, Used
<1>4. CASE table' = Added(table, ip, mac)
  <2>1. TableOK(table') /\ MapOf(table') = Cache!Learnt(MapOf(table), ip, mac)
    BY <1>2, <1>4, AddLearns
  <2> QED BY <1>3, <2>1 DEF Cache!Next
<1>5. CASE table' = Updated(table, Own, OwnMac)
  <2>1. TableOK(table') /\ MapOf(table') = Cache!Reclaimed(MapOf(table))
    BY <1>5, OwnReclaimed
  <2> QED BY <1>3, <2>1 DEF Cache!Next
<1>6. CASE table' = Added(Updated(table, Own, OwnMac), ip, mac)
  <2>1. TableOK(table') /\ MapOf(table') = Cache!Learnt(Cache!Reclaimed(MapOf(table)), ip, mac)
    BY <1>2, <1>6, AddLearns, OwnReclaimed
  <2> QED BY <1>3, <2>1 DEF Cache!Next
<1> QED BY <1>1, <1>4, <1>5, <1>6

LEMMA StackStep == StackInv /\ [StackNext]_stackVars => StackInv' /\ [Cache!Next]_Map
<1> SUFFICES ASSUME StackInv, [StackNext]_stackVars
             PROVE  StackInv' /\ [Cache!Next]_Map
  OBVIOUS
<1>1. CASE UNCHANGED stackVars
  <2>1. TableOK(table') /\ Counts'
    BY <1>1 DEF stackVars, StackInv, Counts, DatagramsCost
  <2>2. Map' = Map
    BY <1>1 DEF stackVars, Map, Used
  <2> QED BY <2>1, <2>2 DEF StackInv
<1>2. CASE StackNext
  <2>1. TableOK(table') /\ [Cache!Next]_Map
    <3>1. CASE TableSteps(table')
      BY <3>1, TableStepIsCacheStep DEF StackInv
    <3>2. CASE table' = table
      <4>1. Map' = Map
        BY <3>2 DEF Map, Used
      <4> QED BY <3>2, <4>1 DEF StackInv
    <3> QED BY <1>2, <3>1, <3>2, StepsOfTable
  <2>2. Counts'
    <3>1. CASE ArpFrame
      BY <3>1 DEF ArpFrame, ArpInput, ArpSend, StackInv, Counts, DatagramsCost
    <3>2. CASE IpFrame
      BY <3>2, IpKeepsCounts DEF IpFrame, StackInv
    <3>3. CASE OtherFrame
      <4>1. out' = {} /\ UNCHANGED <<live, reass, run, upper>>
        BY <3>3 DEF OtherFrame
      <4> QED BY <4>1 DEF StackInv, Counts, DatagramsCost
    <3>4. CASE Sigint
      <4>1. run' = "stopped" /\ UNCHANGED <<live, reass, out, upper>>
        BY <3>4 DEF Sigint
      <4> QED BY <4>1 DEF StackInv, Counts, DatagramsCost
    <3> QED BY <1>2, <3>1, <3>2, <3>3, <3>4 DEF StackNext
  <2> QED BY <2>1, <2>2 DEF StackInv
<1> QED BY <1>1, <1>2

\* The table has no address twice, and the counters are what they can be, after any frames.
THEOREM StackInvHolds == StackSpec => []StackInv
<1>1. StackInv /\ [StackNext]_stackVars => StackInv'
  BY StackStep
<1> QED BY <1>1, StackStarts, PTL DEF StackSpec

\* Each datagram that a handler takes costs the stack a buffer for good.
THEOREM EachDatagramCosts == StackSpec => []DatagramsCost
<1>1. StackInv => DatagramsCost
  BY DEF StackInv, Counts
<1> QED BY <1>1, StackInvHolds, PTL

\* The table of any size implements the cache: an empty one is the empty map, and a frame learns, corrects,
\* reclaims or leaves the map alone.
THEOREM TableIsCache == StackSpec => CacheImplemented
<1>1. StackInit => Cache!Init
  <2> SUFFICES ASSUME StackInit
               PROVE  Map = [a \in {} |-> OwnMac]
    BY DEF Cache!Init
  <2>1. Used = {}
    BY DEF StackInit, Used
  <2>2. {table[i].ip : i \in Used} = {}
    BY <2>1
  <2> QED BY <2>2 DEF Map
<1>2. StackInv /\ [StackNext]_stackVars => [Cache!Next]_Map
  BY StackStep
<1> QED BY <1>1, <1>2, StackInvHolds, PTL DEF StackSpec, CacheImplemented, Cache!Spec

-----------------------------------------------------------------------------
(***************************************************************************)
(* The sockets                                                             *)
(***************************************************************************)

\* SockTypes but for the state, which a stop changes and nothing else.
SockWords ==
    /\ sockets \in [Slots -> Socks \cup {NoSock}] /\ used \subseteq Socks
    /\ number \in [Socks -> Slots \cup {-1}]
    /\ pc \in [Threads -> {"idle", "recv"} \cup Opening \cup Closing]
    /\ slot \in [Threads -> Slots] /\ mine \in [Threads -> Socks \cup {NoSock}]
    /\ openRace \in BOOLEAN /\ closeRace \in BOOLEAN

(*************************************************************************)
(* As long as no sip_close overlaps a call                                *)
(*************************************************************************)

ClosesAlone == \A t, u \in Threads : t # u /\ pc[t] \in Closing => pc[u] \notin Opening \cup Closing
MineIsUsed == \A t \in Threads : pc[t] \in Opening => mine[t] \in used
EntriesUsed == \A i \in Slots : \/ sockets[i] \in used \cup {NoSock}
                                \/ \E t \in Threads : pc[t] = "clear" /\ slot[t] = i
OneEntryEach == \A i, j \in Slots : sockets[i] = sockets[j] /\ sockets[i] # NoSock => i = j
NotYetStored == \A t \in Threads : pc[t] = "store" => \A i \in Slots : sockets[i] # mine[t]
MineDiffer == \A t, u \in Threads : t # u /\ pc[t] = "store" /\ pc[u] = "store" => mine[t] # mine[u]
ClearedIsFree == \A t \in Threads : pc[t] = "clear" => sockets[slot[t]] \notin used

CloseInv == /\ ClosesAlone /\ MineIsUsed /\ EntriesUsed /\ OneEntryEach
            /\ NotYetStored /\ MineDiffer /\ ClearedIsFree

(*************************************************************************)
(* As long as no call overlaps another                                    *)
(*************************************************************************)

OpensAlone == \A t, u \in Threads : t # u => ~(pc[t] \in Opening /\ pc[u] \in Opening)
SlotStaysFree == \A t \in Threads : pc[t] = "store" => sockets[slot[t]] = NoSock
MineIsHere == \A t \in Threads : pc[t] = "number" => \A i \in Slots : sockets[i] = mine[t] => i = slot[t]
ThreadKnown == \A i \in Slots : sockets[i] # NoSock =>
             \/ Found(i)
             \/ \E t \in Threads : slot[t] = i /\ (pc[t] = "clear" \/ (pc[t] = "number" /\ mine[t] = sockets[i]))
Reachable == \A s \in used : \/ \E t \in Threads : pc[t] = "store" /\ mine[t] = s
                             \/ \E i \in Slots : sockets[i] = s

OpenInv == OpensAlone /\ SlotStaysFree /\ MineIsHere /\ ThreadKnown /\ Reachable

SockInv == /\ SockWords
           /\ ~closeRace => CloseInv
           /\ ~closeRace /\ ~openRace => OpenInv

LEMMA SockStarts == SockInit => SockInv
<1> SUFFICES ASSUME SockInit
             PROVE  SockInv
  OBVIOUS
<1>1. SockWords
  <2>1. 0 \in Slots
    BY SocketsAssumption DEF Slots
  <2> QED BY <2>1 DEF SockInit, SockWords
<1>2. \A t \in Threads : pc[t] = "idle"
  BY DEF SockInit
<1>3. \A i \in Slots : sockets[i] = NoSock
  BY DEF SockInit
<1>4. used = {}
  BY DEF SockInit
<1>5. CloseInv
  BY <1>2, <1>3 DEF CloseInv, ClosesAlone, MineIsUsed, EntriesUsed, OneEntryEach, NotYetStored, MineDiffer,
     ClearedIsFree, Opening, Closing
<1>6. OpenInv
  BY <1>2, <1>3, <1>4 DEF OpenInv, OpensAlone, SlotStaysFree, MineIsHere, ThreadKnown, Reachable, Opening
<1> QED BY <1>1, <1>5, <1>6 DEF SockInv

(*************************************************************************)
(* The steps                                                              *)
(*************************************************************************)

\* What does not change the table, its socks, or who is at work on them.
LEMMA KeptByOthers ==
  ASSUME SockInv, UNCHANGED <<sockets, used, number, pc, slot, mine, openRace, closeRace>>
  PROVE  SockInv'
  BY DEF SockInv, SockWords, CloseInv, ClosesAlone, MineIsUsed, EntriesUsed, OneEntryEach, NotYetStored, MineDiffer,
     ClearedIsFree, OpenInv, OpensAlone, SlotStaysFree, MineIsHere, ThreadKnown, Reachable, Found

\* A call that begins, as one that waits or as a sip_close that nobody is in the way of.
LEMMA KeptByBegin ==
  ASSUME SockInv, NEW t \in Threads, NEW i \in Slots, NEW step \in {"recv", "free"},
         pc[t] = "idle", Go(t, step, i), UNCHANGED <<sockets, used, number, mine, openRace>>,
         IF step = "recv" THEN closeRace' = closeRace
         ELSE closeRace' = (closeRace \/ \E u \in Threads \ {t} : pc[u] \in Opening \cup Closing)
  PROVE  SockInv'
<1>1. /\ pc' = [pc EXCEPT ![t] = step] /\ slot' = [slot EXCEPT ![t] = i] /\ SockWords
  BY DEF Go, SockInv
<1>2. closeRace' \in BOOLEAN
  BY Zenon, <1>1 DEF SockWords
<1>3. SockWords'
  BY <1>1, <1>2 DEF SockWords, Closing
<1>4. pc'[t] = step /\ \A u \in Threads \ {t} : pc'[u] = pc[u] /\ slot'[u] = slot[u]
  BY <1>1 DEF SockWords
<1>5. step \notin Opening /\ step # "clear"
  BY DEF Opening
<1>6. ASSUME ~closeRace'
      PROVE  ~closeRace /\ (step = "free" => \A u \in Threads \ {t} : pc[u] \notin Opening \cup Closing)
  BY <1>6
<1>7. ASSUME ~closeRace'
      PROVE  CloseInv'
  <2>1. CloseInv
    BY <1>6, <1>7 DEF SockInv
  <2>2. ClosesAlone'
    BY <1>4, <1>6, <1>7, <2>1 DEF CloseInv, ClosesAlone, Opening, Closing
  <2>3. MineIsUsed' /\ OneEntryEach' /\ NotYetStored' /\ MineDiffer' /\ ClearedIsFree'
    BY <1>4, <1>5, <2>1 DEF CloseInv, MineIsUsed, OneEntryEach, NotYetStored, MineDiffer, ClearedIsFree, Opening
  <2>4. EntriesUsed'
    BY <1>4, <2>1 DEF CloseInv, EntriesUsed
  <2> QED BY <2>2, <2>3, <2>4 DEF CloseInv
<1>8. ASSUME ~closeRace', ~openRace'
      PROVE  OpenInv'
  <2>1. OpenInv
    BY <1>6, <1>8 DEF SockInv
  <2>2. OpensAlone' /\ SlotStaysFree' /\ MineIsHere'
    BY <1>4, <1>5, <2>1 DEF OpenInv, OpensAlone, SlotStaysFree, MineIsHere, Opening
  <2>3. ThreadKnown' /\ Reachable'
    BY <1>4, <1>5, <2>1 DEF OpenInv, ThreadKnown, Reachable, Found
  <2> QED BY <2>2, <2>3 DEF OpenInv
<1> QED BY <1>3, <1>7, <1>8 DEF SockInv

LEMMA KeptBySocket ==
  ASSUME SockInv, NEW t \in Threads, NEW s \in Socks, Socket(t, s)
  PROVE  SockInv'
<1>1. CASE UNCHANGED sockVars
  BY <1>1, KeptByOthers DEF sockVars
<1>2. ASSUME NEW i \in Slots, FreeSlot(i), Go(t, "store", i), SockNew(s), mine' = [mine EXCEPT ![t] = s],
             openRace' = (openRace \/ \E u \in Threads \ {t} : pc[u] \in Opening),
             closeRace' = (closeRace \/ \E u \in Threads \ {t} : pc[u] \in Closing),
             UNCHANGED sockets, pc[t] = "idle", s \notin used
      PROVE  SockInv'
  <2>1. /\ pc' = [pc EXCEPT ![t] = "store"] /\ slot' = [slot EXCEPT ![t] = i] /\ SockWords
        /\ used' = used \cup {s} /\ number' = [number EXCEPT ![s] = -1]
    BY <1>2 DEF Go, SockNew, SockInv
  <2>2. openRace' \in BOOLEAN /\ closeRace' \in BOOLEAN
    BY Zenon, <1>2
  <2>3. SockWords'
    BY <1>2, <2>1, <2>2 DEF SockWords, Opening
  <2>4. /\ pc'[t] = "store" /\ slot'[t] = i /\ mine'[t] = s
        /\ \A u \in Threads \ {t} : pc'[u] = pc[u] /\ slot'[u] = slot[u] /\ mine'[u] = mine[u]
    BY <1>2, <2>1 DEF SockWords
  <2>5. ASSUME ~closeRace'
        PROVE  CloseInv' /\ \A j \in Slots : sockets[j] # s
    <3>1. ~closeRace /\ \A u \in Threads : pc[u] \notin Closing
      BY <1>2, <2>5 DEF Closing
    <3>2. CloseInv
      BY <3>1 DEF SockInv
    <3>3. \A j \in Slots : sockets[j] \in used \cup {NoSock}
      BY <3>1, <3>2 DEF CloseInv, EntriesUsed, Closing
    <3>4. \A j \in Slots : sockets[j] # s
      BY <1>2, <3>3, SocketsAssumption
    <3>5. ClosesAlone' /\ ClearedIsFree'
      BY <2>4, <3>1 DEF ClosesAlone, ClearedIsFree, Closing
    <3>6. MineIsUsed'
      BY <2>1, <2>4, <3>2 DEF CloseInv, MineIsUsed
    <3>7. EntriesUsed' /\ OneEntryEach'
      BY <1>2, <2>1, <3>2, <3>3 DEF CloseInv, EntriesUsed, OneEntryEach
    <3>8. NotYetStored'
      BY <1>2, <2>4, <3>2, <3>4 DEF CloseInv, NotYetStored
    <3>9. MineDiffer'
      BY <1>2, <2>4, <3>2 DEF CloseInv, MineDiffer, MineIsUsed, Opening
    <3> QED BY <3>4, <3>5, <3>6, <3>7, <3>8, <3>9 DEF CloseInv
  <2>6. ASSUME ~closeRace', ~openRace'
        PROVE  OpenInv'
    <3>1. ~closeRace /\ ~openRace /\ \A u \in Threads : pc[u] \notin Opening \cup Closing
      BY <1>2, <2>6 DEF Opening, Closing
    <3>2. OpenInv
      BY <3>1 DEF SockInv
    <3>3. OpensAlone' /\ MineIsHere'
      BY <2>4, <3>1 DEF OpensAlone, MineIsHere, Opening
    <3>4. SlotStaysFree'
      BY <1>2, <2>4, <3>1 DEF SlotStaysFree, FreeSlot, Opening
    <3>5. \A j \in Slots : sockets[j] # NoSock => Found(j)
      BY <3>1, <3>2 DEF OpenInv, ThreadKnown, Opening, Closing
    <3>6. ThreadKnown'
      BY <1>2, <2>1, <2>5, <2>6, <3>5 DEF ThreadKnown, Found, SockWords
    <3>7. Reachable'
      BY <1>2, <2>1, <2>4, <3>1, <3>2 DEF OpenInv, Reachable, Opening
    <3> QED BY <3>3, <3>4, <3>6, <3>7 DEF OpenInv
  <2> QED BY <2>3, <2>5, <2>6 DEF SockInv
<1> QED BY <1>1, <1>2 DEF Socket

LEMMA KeptByStore ==
  ASSUME SockInv, NEW t \in Threads, Store(t)
  PROVE  SockInv'
<1>1. /\ pc[t] = "store" /\ sockets' = [sockets EXCEPT ![slot[t]] = mine[t]]
      /\ pc' = [pc EXCEPT ![t] = "number"] /\ slot' = [slot EXCEPT ![t] = slot[t]]
      /\ UNCHANGED <<used, number, mine, openRace, closeRace>>
      /\ SockWords
  BY DEF Store, Go, SockInv
<1>2. SockWords'
  BY <1>1 DEF SockWords, Opening
<1>3. pc'[t] = "number" /\ (\A u \in Threads \ {t} : pc'[u] = pc[u]) /\ slot' = slot /\ slot[t] \in Slots
  BY <1>1 DEF SockWords
<1>4. sockets'[slot[t]] = mine[t] /\ \A j \in Slots \ {slot[t]} : sockets'[j] = sockets[j]
  BY <1>1 DEF SockWords
<1>5. ASSUME ~closeRace'
      PROVE  CloseInv' /\ CloseInv /\ mine[t] \in used /\ mine[t] # NoSock
  <2>1. CloseInv
    BY <1>1, <1>5 DEF SockInv
  <2>2. mine[t] \in used /\ mine[t] # NoSock
    BY <1>1, <2>1, SocketsAssumption DEF CloseInv, MineIsUsed, Opening, SockWords
  <2>3. \A u \in Threads : pc[u] \notin Closing
    BY <1>1, <2>1 DEF CloseInv, ClosesAlone, Opening, Closing
  <2>4. ClosesAlone' /\ ClearedIsFree'
    BY <1>3, <2>3 DEF ClosesAlone, ClearedIsFree, Closing
  <2>5. MineIsUsed' /\ MineDiffer'
    BY <1>1, <1>3, <2>1 DEF CloseInv, MineIsUsed, MineDiffer, Opening
  <2>6. \A j \in Slots : sockets[j] \in used \cup {NoSock}
    BY <2>1, <2>3 DEF CloseInv, EntriesUsed, Closing
  <2>7. EntriesUsed'
    BY <1>1, <1>4, <2>2, <2>6 DEF EntriesUsed
  <2>8. OneEntryEach'
    BY <1>1, <1>4, <2>1 DEF CloseInv, OneEntryEach, NotYetStored
  <2>9. NotYetStored'
    BY <1>1, <1>3, <1>4, <2>1 DEF CloseInv, NotYetStored, MineDiffer
  <2> QED BY <2>1, <2>2, <2>4, <2>5, <2>7, <2>8, <2>9 DEF CloseInv
<1>6. ASSUME ~closeRace', ~openRace'
      PROVE  OpenInv'
  <2>1. OpenInv
    BY <1>1, <1>6 DEF SockInv
  <2>2. \A u \in Threads \ {t} : pc[u] \notin Opening
    BY <1>1, <2>1 DEF OpenInv, OpensAlone, Opening
  <2>3. OpensAlone' /\ SlotStaysFree'
    BY <1>3, <2>2 DEF OpensAlone, SlotStaysFree, Opening
  <2>4. MineIsHere'
    BY <1>1, <1>3, <1>4, <1>5, <1>6, <2>2 DEF MineIsHere, CloseInv, NotYetStored, Opening
  <2>5. ThreadKnown'
    <3>1. ASSUME NEW j \in Slots, sockets'[j] # NoSock, j # slot[t]
          PROVE  \/ Found(j)'
                 \/ \E u \in Threads : slot'[u] = j /\ (pc'[u] = "clear" \/ (pc'[u] = "number" /\ mine'[u] = sockets'[j]))
      <4>1. sockets'[j] = sockets[j]
        BY <1>4, <3>1
      <4>2. CASE Found(j)
        BY <1>1, <4>1, <4>2 DEF Found
      <4>3. CASE \E u \in Threads : slot[u] = j /\ (pc[u] = "clear" \/ (pc[u] = "number" /\ mine[u] = sockets[j]))
        BY <1>1, <1>3, <4>1, <4>3
      <4> QED BY <2>1, <3>1, <4>1, <4>2, <4>3 DEF OpenInv, ThreadKnown
    <3> QED BY <1>1, <1>3, <1>4, <3>1 DEF ThreadKnown
  <2>6. Reachable'
    <3>1. sockets[slot[t]] = NoSock
      BY <1>1, <2>1 DEF OpenInv, SlotStaysFree
    <3>2. NoSock \notin used
      BY <1>1, SocketsAssumption DEF SockWords
    <3>3. ASSUME NEW s \in used
          PROVE  \E j \in Slots : sockets'[j] = s
      <4>1. CASE \E u \in Threads : pc[u] = "store" /\ mine[u] = s
        BY <1>3, <1>4, <2>2, <4>1 DEF Opening
      <4>2. CASE \E j \in Slots : sockets[j] = s
        BY <1>4, <3>1, <3>2, <4>2
      <4> QED BY <2>1, <4>1, <4>2 DEF OpenInv, Reachable
    <3> QED BY <1>1, <3>3 DEF Reachable
  <2> QED BY <2>3, <2>4, <2>5, <2>6 DEF OpenInv
<1> QED BY <1>2, <1>5, <1>6 DEF SockInv

LEMMA KeptByNumber ==
  ASSUME SockInv, NEW t \in Threads, Number(t)
  PROVE  SockInv'
<1>1. CASE mine[t] \notin used
  BY <1>1, KeptByOthers DEF Number, Stop
<1>2. CASE mine[t] \in used
  <2>1. /\ pc[t] = "number" /\ number' = [number EXCEPT ![mine[t]] = slot[t]]
        /\ pc' = [pc EXCEPT ![t] = "idle"] /\ slot' = [slot EXCEPT ![t] = 0] /\ mine' = [mine EXCEPT ![t] = NoSock]
        /\ UNCHANGED <<sockets, used, openRace, closeRace>>
        /\ SockWords
    BY <1>2 DEF Number, Return, SockInv
  <2>2. 0 \in Slots
    BY SocketsAssumption DEF Slots
  <2>3. SockWords'
    BY <1>2, <2>1, <2>2 DEF SockWords
  <2>4. /\ pc'[t] = "idle"
        /\ \A u \in Threads \ {t} : pc'[u] = pc[u] /\ slot'[u] = slot[u] /\ mine'[u] = mine[u]
    BY <2>1 DEF SockWords
  <2>5. ASSUME ~closeRace'
        PROVE  CloseInv'
    <3>1. CloseInv
      BY <2>1, <2>5 DEF SockInv
    <3>2. ClosesAlone' /\ MineIsUsed'
      BY <2>1, <2>4, <3>1 DEF CloseInv, ClosesAlone, MineIsUsed, Opening, Closing
    <3>3. EntriesUsed' /\ OneEntryEach'
      BY <2>1, <2>4, <3>1 DEF CloseInv, EntriesUsed, OneEntryEach
    <3>4. NotYetStored' /\ MineDiffer' /\ ClearedIsFree'
      BY <2>1, <2>4, <3>1 DEF CloseInv, NotYetStored, MineDiffer, ClearedIsFree
    <3> QED BY <3>2, <3>3, <3>4 DEF CloseInv
  <2>6. ASSUME ~closeRace', ~openRace'
        PROVE  OpenInv'
    <3>1. OpenInv
      BY <2>1, <2>6 DEF SockInv
    <3>2. OpensAlone' /\ SlotStaysFree' /\ MineIsHere'
      BY <2>1, <2>4, <3>1 DEF OpenInv, OpensAlone, SlotStaysFree, MineIsHere, Opening
    <3>3. ASSUME NEW j \in Slots, sockets[j] # NoSock
          PROVE  \/ Found(j)'
                 \/ \E u \in Threads : slot'[u] = j /\ (pc'[u] = "clear" \/ (pc'[u] = "number" /\ mine'[u] = sockets'[j]))
      <4>1. CASE sockets[j] = mine[t]
        <5>1. j = slot[t]
          BY <2>1, <3>1, <4>1 DEF OpenInv, MineIsHere
        <5>2. number'[mine[t]] = slot[t]
          BY <1>2, <2>1 DEF SockWords
        <5> QED BY <1>2, <2>1, <4>1, <5>1, <5>2 DEF Found
      <4>2. CASE sockets[j] # mine[t] /\ Found(j)
        <5>1. number'[sockets[j]] = number[sockets[j]]
          BY <2>1, <4>2 DEF SockWords, Found
        <5> QED BY <2>1, <4>2, <5>1 DEF Found
      <4>3. ASSUME sockets[j] # mine[t], NEW u \in Threads, slot[u] = j,
                   pc[u] = "clear" \/ (pc[u] = "number" /\ mine[u] = sockets[j])
            PROVE  \E v \in Threads : slot'[v] = j /\ (pc'[v] = "clear" \/ (pc'[v] = "number" /\ mine'[v] = sockets'[j]))
        <5>1. u # t
          BY <2>1, <4>3
        <5> QED BY <2>1, <2>4, <4>3, <5>1
      <4> QED BY <3>1, <3>3, <4>1, <4>2, <4>3 DEF OpenInv, ThreadKnown
    <3>4. ThreadKnown'
      BY <2>1, <3>3 DEF ThreadKnown
    <3>5. Reachable'
      BY <2>1, <2>4, <3>1 DEF OpenInv, Reachable
    <3> QED BY <3>2, <3>4, <3>5 DEF OpenInv
  <2> QED BY <2>3, <2>5, <2>6 DEF SockInv
<1> QED BY <1>1, <1>2

LEMMA KeptByFree ==
  ASSUME SockInv, NEW t \in Threads, Free(t)
  PROVE  SockInv'
<1>1. CASE Stale(slot[t])
  BY <1>1, KeptByOthers DEF Free, Stop
<1>2. CASE ~Stale(slot[t])
  <2>1. /\ pc[t] = "free" /\ used' = used \ {sockets[slot[t]]}
        /\ pc' = [pc EXCEPT ![t] = "clear"] /\ slot' = [slot EXCEPT ![t] = slot[t]]
        /\ UNCHANGED <<sockets, number, mine, openRace, closeRace>>
        /\ SockWords
    BY <1>2 DEF Free, Go, SockInv
  <2>2. SockWords'
    BY <2>1 DEF SockWords, Closing
  <2>3. pc'[t] = "clear" /\ (\A u \in Threads \ {t} : pc'[u] = pc[u]) /\ slot' = slot /\ slot[t] \in Slots
    BY <2>1 DEF SockWords
  <2>4. ASSUME ~closeRace'
        PROVE  CloseInv' /\ CloseInv /\ \A u \in Threads \ {t} : pc[u] \notin Opening \cup Closing
    <3>1. CloseInv
      BY <2>1, <2>4 DEF SockInv
    <3>2. \A u \in Threads \ {t} : pc[u] \notin Opening \cup Closing
      BY <2>1, <3>1 DEF CloseInv, ClosesAlone, Closing
    <3>3. ClosesAlone' /\ MineIsUsed' /\ NotYetStored' /\ MineDiffer'
      BY <2>3, <3>2 DEF ClosesAlone, MineIsUsed, NotYetStored, MineDiffer, Opening, Closing
    <3>4. OneEntryEach'
      BY <2>1, <3>1 DEF CloseInv, OneEntryEach
    <3>5. ClearedIsFree'
      BY <2>1, <2>3, <3>2 DEF ClearedIsFree, Closing
    <3>6. EntriesUsed'
      <4>1. ASSUME NEW j \in Slots, j # slot[t]
            PROVE  sockets[j] \in used' \cup {NoSock}
        <5>1. sockets[j] \in used \cup {NoSock}
          BY <2>1, <3>1, <3>2 DEF CloseInv, EntriesUsed, Closing
        <5>2. sockets[j] = NoSock \/ sockets[j] # sockets[slot[t]]
          BY <2>3, <3>1, <4>1 DEF CloseInv, OneEntryEach
        <5> QED BY <2>1, <5>1, <5>2
      <4> QED BY <2>1, <2>3, <4>1 DEF EntriesUsed
    <3> QED BY <3>1, <3>2, <3>3, <3>4, <3>5, <3>6 DEF CloseInv
  <2>5. ASSUME ~closeRace', ~openRace'
        PROVE  OpenInv'
    <3>1. OpenInv
      BY <2>1, <2>5 DEF SockInv
    <3>2. OpensAlone' /\ SlotStaysFree' /\ MineIsHere'
      BY <2>3, <2>4, <2>5 DEF OpensAlone, SlotStaysFree, MineIsHere, Opening
    <3>3. ASSUME NEW j \in Slots, sockets[j] # NoSock, j # slot[t]
          PROVE  Found(j)'
      <4>1. Found(j)
        BY <2>1, <2>4, <2>5, <3>1, <3>3 DEF OpenInv, ThreadKnown, Opening, Closing
      <4>2. sockets[j] # sockets[slot[t]]
        BY <2>3, <2>4, <2>5, <3>3 DEF CloseInv, OneEntryEach
      <4> QED BY <2>1, <4>1, <4>2 DEF Found
    <3>4. ThreadKnown'
      BY <2>1, <2>3, <3>3 DEF ThreadKnown
    <3>5. Reachable'
      BY <2>1, <2>3, <3>1 DEF OpenInv, Reachable
    <3> QED BY <3>2, <3>4, <3>5 DEF OpenInv
  <2> QED BY <2>2, <2>4, <2>5 DEF SockInv
<1> QED BY <1>1, <1>2

LEMMA KeptByClear ==
  ASSUME SockInv, NEW t \in Threads, Clear(t)
  PROVE  SockInv'
<1>1. /\ pc[t] = "clear" /\ sockets' = [sockets EXCEPT ![slot[t]] = NoSock]
      /\ pc' = [pc EXCEPT ![t] = "idle"] /\ slot' = [slot EXCEPT ![t] = 0]
      /\ UNCHANGED <<used, number, mine, openRace, closeRace>>
      /\ SockWords
  BY DEF Clear, Return, SockInv
<1>2. 0 \in Slots
  BY SocketsAssumption DEF Slots
<1>3. SockWords'
  BY <1>1, <1>2 DEF SockWords
<1>4. pc'[t] = "idle" /\ (\A u \in Threads \ {t} : pc'[u] = pc[u] /\ slot'[u] = slot[u]) /\ slot[t] \in Slots
  BY <1>1 DEF SockWords
<1>5. sockets'[slot[t]] = NoSock /\ \A j \in Slots \ {slot[t]} : sockets'[j] = sockets[j]
  BY <1>1 DEF SockWords
<1>6. ASSUME ~closeRace'
      PROVE  CloseInv' /\ CloseInv /\ \A u \in Threads : pc'[u] \notin Opening \cup Closing
  <2>1. CloseInv
    BY <1>1, <1>6 DEF SockInv
  <2>2. \A u \in Threads : pc'[u] \notin Opening \cup Closing
    BY <1>1, <1>4, <2>1 DEF CloseInv, ClosesAlone, Opening, Closing
  <2>3. ClosesAlone' /\ MineIsUsed' /\ NotYetStored' /\ MineDiffer' /\ ClearedIsFree'
    BY <2>2 DEF ClosesAlone, MineIsUsed, NotYetStored, MineDiffer, ClearedIsFree, Opening, Closing
  <2>4. OneEntryEach'
    BY <1>5, <2>1 DEF CloseInv, OneEntryEach
  <2>5. EntriesUsed'
    <3>1. ASSUME NEW j \in Slots, j # slot[t]
          PROVE  sockets[j] \in used \cup {NoSock}
      BY <1>1, <1>4, <2>1, <2>2, <3>1 DEF CloseInv, EntriesUsed, Closing
    <3> QED BY <1>1, <1>5, <3>1 DEF EntriesUsed
  <2> QED BY <2>1, <2>2, <2>3, <2>4, <2>5 DEF CloseInv
<1>7. ASSUME ~closeRace', ~openRace'
      PROVE  OpenInv'
  <2>1. OpenInv
    BY <1>1, <1>7 DEF SockInv
  <2>2. OpensAlone' /\ SlotStaysFree' /\ MineIsHere'
    BY <1>6, <1>7 DEF OpensAlone, SlotStaysFree, MineIsHere, Opening
  <2>3. ASSUME NEW j \in Slots, sockets'[j] # NoSock
        PROVE  Found(j)'
    <3>1. j # slot[t] /\ sockets'[j] = sockets[j]
      BY <1>5, <2>3
    <3>2. Found(j)
      BY <1>1, <1>4, <1>6, <1>7, <2>1, <2>3, <3>1 DEF OpenInv, ThreadKnown, Opening, Closing
    <3> QED BY <1>1, <3>1, <3>2 DEF Found
  <2>4. ThreadKnown'
    BY <2>3 DEF ThreadKnown
  <2>5. Reachable'
    <3>1. sockets[slot[t]] \notin used
      BY <1>1, <1>6, <1>7 DEF CloseInv, ClearedIsFree
    <3> QED BY <1>1, <1>4, <1>5, <2>1, <3>1 DEF OpenInv, Reachable
  <2> QED BY <2>2, <2>4, <2>5 DEF OpenInv
<1> QED BY <1>3, <1>6, <1>7 DEF SockInv

(*************************************************************************)
(* The calls                                                              *)
(*************************************************************************)

LEMMA SockStep == SockInv /\ [SockNext]_sockVars => SockInv'
<1> SUFFICES ASSUME SockInv, [SockNext]_sockVars
             PROVE  SockInv'
  OBVIOUS
<1>1. CASE UNCHANGED sockVars
  BY <1>1, KeptByOthers DEF sockVars
<1>2. ASSUME NEW t \in Threads, NEW i \in Slots, Close(t, i)
      PROVE  SockInv'
  BY <1>2, KeptByOthers, KeptByBegin DEF Close, Stop, sockVars
<1>3. ASSUME NEW t \in Threads, NEW i \in Slots, Recv(t, i)
      PROVE  SockInv'
  BY <1>3, KeptByOthers, KeptByBegin DEF Recv, Stop, sockVars
<1>4. ASSUME NEW t \in Threads, NEW i \in Slots, Send(t, i) \/ BindOrConnect(t, i) \/ SendTo(t, i) \/ Stream(t)
      PROVE  SockInv'
  BY <1>4, KeptByOthers DEF Send, BindOrConnect, SendTo, Stream, NoControlBlock, Stop, sockVars
<1>5. CASE SockNext
  <2>1. PICK t \in Threads :
          \/ \E s \in Socks : Socket(t, s)
          \/ Stream(t) \/ Store(t) \/ Number(t)
          \/ \E i \in Slots : Close(t, i) \/ Recv(t, i) \/ Send(t, i) \/ BindOrConnect(t, i) \/ SendTo(t, i)
          \/ Free(t) \/ Clear(t)
    BY <1>5 DEF SockNext
  <2>2. 0 \in Slots
    BY SocketsAssumption DEF Slots
  <2> QED BY <1>2, <1>3, <1>4, <2>1, <2>2, KeptBySocket, KeptByStore, KeptByNumber, KeptByFree, KeptByClear
<1> QED BY <1>1, <1>5

\* SockWords, and what the calls keep as long as none of them overlaps.
THEOREM SockInvHolds == SockSpec => []SockInv
  BY SockStarts, SockStep, PTL DEF SockSpec

\* Without overlapping calls each sock in use is behind one descriptor, which it knows, or on its way there.
THEOREM TableStaysConsistent == SockSpec => []TableConsistent
<1>1. SockInv => TableConsistent
  <2> SUFFICES ASSUME SockInv, ~openRace, ~closeRace
               PROVE  /\ ThreadKnown
                      /\ \A s \in used : \/ \E t \in Threads : (pc[t] = "store" /\ mine[t] = s)
                                         \/ Cardinality({i \in Slots : sockets[i] = s}) = 1
    BY DEF TableConsistent, ThreadKnown
  <2>1. OpenInv /\ CloseInv /\ SockWords
    BY DEF SockInv
  <2>2. ASSUME NEW s \in used, NEW k \in Slots, sockets[k] = s
        PROVE  Cardinality({i \in Slots : sockets[i] = s}) = 1
    <3>1. s # NoSock
      BY <2>1, SocketsAssumption DEF SockWords
    <3>2. {i \in Slots : sockets[i] = s} = {k}
      BY <2>1, <2>2, <3>1 DEF CloseInv, OneEntryEach
    <3> QED BY <3>2, FS_Singleton
  <2> QED BY <2>1, <2>2 DEF OpenInv, Reachable
<1> QED BY <1>1, SockInvHolds, PTL

\* Overlapping sip_socket calls alone leave no descriptor with freed memory.
THEOREM OnlyClosesDangle == SockSpec => []OnlyCloseDangles
<1>1. SockInv => OnlyCloseDangles
  BY DEF SockInv, CloseInv, EntriesUsed, OnlyCloseDangles, Stale
<1> QED BY <1>1, SockInvHolds, PTL

\* A set of numbers has a least member.
LEMMA Least ==
    ASSUME NEW T, T \subseteq Nat, T # {}
    PROVE  \E x \in T : \A y \in T : x <= y
<1> DEFINE U == {0..i : i \in T}
           R == StrictSubsetOrdering(Nat)
<1>1. U \subseteq FiniteSubsetsOf(Nat)
  <2>1. \A i \in Nat : IsFiniteSet(0..i) /\ 0..i \subseteq Nat
    BY FS_Interval
  <2>2. QED
    BY <2>1 DEF FiniteSubsetsOf
<1>2. U # {}
  OBVIOUS
<1>3. IsWellFoundedOn(R, FiniteSubsetsOf(Nat))
  BY FS_StrictSubsetOrderingWellFounded
<1>4. \E s \in U : \A t \in U : ~(<<t, s>> \in R)
  <2> HIDE DEF U, R
  <2> QED
    BY <1>1, <1>2, <1>3, WFMin
<1>5. PICK x \in T : \A y \in T : ~(<<0..y, 0..x>> \in R)
  BY <1>4
<1>6. ASSUME NEW y \in T, y < x PROVE FALSE
  <2>1. 0..y \subseteq 0..x /\ x \in 0..x /\ x \notin 0..y /\ 0..x \subseteq Nat
    BY <1>6
  <2>2. <<0..y, 0..x>> \in R
    BY <2>1 DEF StrictSubsetOrdering
  <2>3. QED
    BY <1>5, <2>2
<1>7. QED
  BY <1>6

(***************************************************************************)
(* The lists of UDP                                                        *)
(***************************************************************************)

Blocks == Pcbs \cup {NULL}

\* L[b] is the list at b: its i-th block for each i, counted from 0, and NULL from its length len[b] on.
Shape(L, len) ==
    /\ L \in [Heads -> [Nat -> Blocks]] /\ len \in [Heads -> Nat]
    /\ \A b \in Heads : /\ \A i \in Nat : L[b][i] = NULL <=> len[b] <= i
                        /\ \A i, j \in Nat : i < len[b] /\ L[b][i] = L[b][j] => i = j

\* The pointers lead from the head of the array through the list.
Linked(L, len) ==
    \A b \in Heads : /\ L[b][0] = head[b]
                     /\ \A i \in Nat : i < len[b] => next[L[b][i]] = L[b][i + 1]

\* A block is in the list of its port, and in no other.
Listed(L, len) ==
    \A b \in Heads : \A p \in Pcbs :
        (\E i \in Nat : i < len[b] /\ L[b][i] = p) <=> made[p] = "yes" /\ port_local[p] = b /\ b # 0

Exact(L, len) == Shape(L, len) /\ Linked(L, len) /\ Listed(L, len)

UdpInv ==
    /\ UdpTypes
    /\ \A p \in Pcbs : made[p] = "no" => port_local[p] = 0
    /\ mode = "crashed" => twice \/ again
    /\ mode = "hung" => again
    /\ mode = "ok" /\ ~again =>
           /\ \E L, len : Exact(L, len)
           /\ \A p \in Pcbs : port_local[p] \in Heads
           /\ ~twice => \A p, q \in Pcbs : made[p] = "yes" /\ made[q] = "yes" /\ port_local[p] = port_local[q]
                                           => p = q \/ port_local[p] = 0

\* A list has no more blocks than there are.
LEMMA NoLonger ==
    ASSUME NEW L, NEW len, Shape(L, len), NEW b \in Heads
    PROVE  Size \in Nat /\ len[b] <= Size
<1>1. IsFiniteSet(Pcbs) /\ Size \in Nat
  BY UdpAssumption, FS_CardinalityType DEF Size
<1>2. len[b] \in Nat /\ L[b] \in [Nat -> Blocks]
  BY DEF Shape
<1>3. CASE len[b] = 0
  BY <1>1, <1>3
<1>4. CASE len[b] # 0
  <2> DEFINE I == 0..(len[b] - 1)
             f == [i \in I |-> L[b][i]]
  <2>1. IsFiniteSet(I) /\ Cardinality(I) = len[b]
    <3>1. len[b] - 1 \in Int /\ ~(0 > len[b] - 1) /\ (len[b] - 1) - 0 + 1 = len[b]
      BY <1>2, <1>4
    <3>2. QED
      BY <3>1, FS_Interval
  <2>2. \A i \in I : i \in Nat /\ i < len[b]
    BY <1>2
  <2>3. \A i \in I : L[b][i] \in Pcbs
    BY <1>2, <2>2 DEF Shape, Blocks
  <2>4. f \in [I -> Pcbs] /\ \A i \in I : f[i] = L[b][i]
    BY <2>3
  <2>5. \A i, j \in I : f[i] = f[j] => i = j
    BY <2>2, <2>4 DEF Shape
  <2>6. ~(Cardinality(Pcbs) < Cardinality(I))
    <3> HIDE DEF f, I
    <3>1. QED
      BY <1>1, <2>1, <2>4, <2>5, FS_PigeonHole, UdpAssumption
  <2>7. QED
    BY <1>1, <1>2, <2>1, <2>6 DEF Size
<1>5. QED
  BY <1>1, <1>3, <1>4

\* What After computes by following the pointers is the list of the witness.
LEMMA AfterIs ==
    ASSUME NEW L, NEW len, Shape(L, len), Linked(L, len), NEW b \in Heads, NEW n \in Nat
    PROVE  After(head[b], n) = L[b][n]
<1> DEFINE s == [i \in 0..n |-> L[b][i]]
           R(f) == f = [i \in 0..n |-> IF i = 0 THEN head[b] ELSE IF f[i - 1] = NULL THEN NULL ELSE next[f[i - 1]]]
<1>1. len[b] \in Nat /\ L[b] \in [Nat -> Blocks] /\ \A i \in Nat : L[b][i] = NULL <=> len[b] <= i
  BY DEF Shape
<1>2. ASSUME NEW i \in 0..n, i # 0
      PROVE  i - 1 \in 0..n /\ L[b][i] = IF L[b][i - 1] = NULL THEN NULL ELSE next[L[b][i - 1]]
  <2>1. i - 1 \in Nat /\ i \in Nat /\ (i - 1) + 1 = i /\ i - 1 \in 0..n
    BY <1>2
  <2>2. (L[b][i - 1] = NULL <=> len[b] <= i - 1) /\ (L[b][i] = NULL <=> len[b] <= i)
    BY <1>1, <2>1
  <2>3. CASE L[b][i - 1] = NULL
    BY <1>1, <2>1, <2>2, <2>3
  <2>4. CASE L[b][i - 1] # NULL
    <3>1. i - 1 < len[b]
      BY <1>1, <2>1, <2>2, <2>4
    <3>2. next[L[b][i - 1]] = L[b][(i - 1) + 1]
      BY <2>1, <3>1 DEF Linked
    <3>3. QED
      BY <2>1, <2>4, <3>2
  <2>5. QED
    BY <2>3, <2>4
<1>3. R(s)
  <2>1. ASSUME NEW i \in 0..n
        PROVE  L[b][i] = IF i = 0 THEN head[b] ELSE IF s[i - 1] = NULL THEN NULL ELSE next[s[i - 1]]
    <3>1. CASE i = 0
      BY <3>1 DEF Linked
    <3>2. CASE i # 0
      BY <1>2, <3>2
    <3>3. QED
      BY <3>1, <3>2
  <2>2. QED
    BY <2>1
<1>4. PICK f : f = CHOOSE g : R(g)
  OBVIOUS
<1>5. After(head[b], n) = f[n]
  BY <1>4 DEF After
<1>6. R(f)
  <2> HIDE DEF R
  <2> QED
    BY <1>3, <1>4
<1>7. f = [i \in 0..n |-> IF i = 0 THEN head[b] ELSE IF f[i - 1] = NULL THEN NULL ELSE next[f[i - 1]]]
  BY <1>6
<1> HIDE DEF R, s
<1> DEFINE D == {i \in 0..n : f[i] # L[b][i]}
<1>8. D = {}
  <2> SUFFICES ASSUME D # {} PROVE FALSE
    OBVIOUS
  <2>1. D \subseteq Nat
    OBVIOUS
  <2>2. PICK x \in D : \A y \in D : x <= y
    BY <2>1, Least
  <2>3. CASE x = 0
    BY <1>7, <2>2, <2>3 DEF Linked
  <2>4. CASE x # 0
    <3>1. x \in 0..n /\ x - 1 \in 0..n /\ ~(x <= x - 1)
      BY <2>4
    <3>2. f[x - 1] = L[b][x - 1]
      BY <2>2, <3>1
    <3>3. f[x] = IF f[x - 1] = NULL THEN NULL ELSE next[f[x - 1]]
      BY <1>7, <2>4, <3>1
    <3>4. f[x] = L[b][x]
      BY <1>2, <2>4, <3>1, <3>2, <3>3
    <3>5. QED
      BY <3>4
  <2>5. QED
    BY <2>3, <2>4
<1>9. n \in 0..n
  OBVIOUS
<1>10. QED
  BY <1>5, <1>8, <1>9

\* So the blocks of a list are those that the witness names, and a walk comes to its end.
LEMMA ListIs ==
    ASSUME NEW L, NEW len, Exact(L, len), NEW b \in Heads
    PROVE  /\ Nodes(head[b]) = {p \in Pcbs : made[p] = "yes" /\ port_local[p] = b /\ b # 0}
           /\ Walk(head[b]) = "ok"
<1>1. Shape(L, len) /\ Linked(L, len)
  BY DEF Exact
<1>2. /\ len[b] \in Nat /\ Size \in Nat /\ len[b] <= Size /\ L[b] \in [Nat -> Blocks]
      /\ \A i \in Nat : L[b][i] = NULL <=> len[b] <= i
  BY <1>1, NoLonger DEF Shape
<1>3. \A n \in Nat : After(head[b], n) = L[b][n]
  BY <1>1, AfterIs
<1>4. ASSUME NEW p PROVE p \in Nodes(head[b]) <=> p \in Pcbs /\ \E i \in Nat : i < len[b] /\ L[b][i] = p
  <2>1. ASSUME p \in Nodes(head[b]) PROVE p \in Pcbs /\ \E i \in Nat : i < len[b] /\ L[b][i] = p
    <3>1. PICK n \in 0..Size : p = After(head[b], n) /\ p # NULL
      BY <2>1 DEF Nodes
    <3>2. n \in Nat /\ p = L[b][n]
      BY <1>3, <3>1
    <3>3. p \in Pcbs /\ n < len[b]
      BY <1>2, <3>1, <3>2 DEF Blocks
    <3>4. QED
      BY <3>2, <3>3
  <2>2. ASSUME p \in Pcbs, NEW i \in Nat, i < len[b], L[b][i] = p PROVE p \in Nodes(head[b])
    <3>1. i \in 0..Size
      BY <1>2, <2>2
    <3>2. After(head[b], i) = p /\ p # NULL
      BY <1>3, <2>2, UdpAssumption
    <3>3. QED
      BY <3>1, <3>2 DEF Nodes
  <2>3. QED
    BY <2>1, <2>2
<1>5. ASSUME NEW p PROVE p \in Nodes(head[b]) <=> p \in {q \in Pcbs : made[q] = "yes" /\ port_local[q] = b /\ b # 0}
  BY <1>4 DEF Exact, Listed
<1>6. After(head[b], Size) = NULL
  BY <1>2, <1>3
<1>7. \A q \in Nodes(head[b]) : made[q] # "freed"
  BY <1>5
<1>8. QED
  BY <1>5, <1>6, <1>7 DEF Walk

\* Who has no port is in no list, and what is in a list is not NULL.
LEMMA InList ==
    ASSUME NEW L, NEW len, Exact(L, len), NEW b \in Heads, NEW i \in Nat, i < len[b]
    PROVE  L[b][i] \in Pcbs /\ made[L[b][i]] = "yes" /\ port_local[L[b][i]] = b /\ b # 0
<1>1. L[b][i] \in Pcbs
  BY DEF Exact, Shape, Blocks
<1>2. QED
  BY <1>1 DEF Exact, Listed

\* A new head of a list.
LEMMA Pushed ==
    ASSUME UdpTypes, NEW L, NEW len, Exact(L, len), NEW p \in Pcbs, NEW n \in Heads \ {0},
           made[p] = "yes", port_local[p] = 0, made' = made, port_local' = [port_local EXCEPT ![p] = n],
           head' = [head EXCEPT ![n] = p], next' = [next EXCEPT ![p] = head[n]]
    PROVE  \E K, k : Exact(K, k)'
<1>1. /\ len \in [Heads -> Nat] /\ L \in [Heads -> [Nat -> Blocks]] /\ p # NULL
      /\ \A b \in Heads : \A i \in Nat : L[b][i] = NULL <=> len[b] <= i
  BY UdpAssumption DEF Exact, Shape
<1>0. ASSUME NEW b \in Heads, NEW i \in Nat, L[b][i] = p PROVE FALSE
  <2>1. ~(len[b] <= i)
    BY <1>0, <1>1
  <2>2. i < len[b]
    <3>1. len[b] \in Nat
      BY <1>1
    <3>2. QED
      BY <2>1, <3>1
  <2>3. QED
    BY <1>0, <2>2, InList
<1>2. PICK K, k : /\ K = [L EXCEPT ![n] = [i \in Nat |-> IF i = 0 THEN p ELSE L[n][i - 1]]]
                  /\ k = [len EXCEPT ![n] = @ + 1]
  OBVIOUS
<1>3. /\ K \in [Heads -> [Nat -> Blocks]] /\ k \in [Heads -> Nat]
      /\ \A b \in Heads \ {n} : K[b] = L[b] /\ k[b] = len[b]
      /\ k[n] = len[n] + 1
  <2>1. [i \in Nat |-> IF i = 0 THEN p ELSE L[n][i - 1]] \in [Nat -> Blocks]
    <3>1. \A i \in Nat : i # 0 => i - 1 \in Nat
      OBVIOUS
    <3>2. \A i \in Nat : i # 0 => L[n][i - 1] \in Blocks
      BY <1>1, <3>1
    <3>3. QED
      BY <3>2 DEF Blocks
  <2>2. K \in [Heads -> [Nat -> Blocks]]
    BY <1>1, <1>2, <2>1
  <2>3. QED
    BY <1>1, <1>2, <2>2
<1>4. K[n][0] = p /\ \A i \in Nat : i # 0 => i - 1 \in Nat /\ K[n][i] = L[n][i - 1]
  BY <1>1, <1>2
<1>5. \A i \in Nat : i + 1 \in Nat /\ i + 1 # 0 /\ K[n][i + 1] = L[n][i]
  <2>1. ASSUME NEW i \in Nat PROVE i + 1 \in Nat /\ i + 1 # 0 /\ (i + 1) - 1 = i
    OBVIOUS
  <2>2. QED
    BY <1>4, <2>1
<1>6. Shape(K, k)'
  <2>1. ASSUME NEW i \in Nat PROVE K[n][i] = NULL <=> k[n] <= i
    <3>1. CASE i = 0
      BY <1>1, <1>3, <1>4, <3>1
    <3>2. CASE i # 0
      <4>1. L[n][i - 1] = NULL <=> len[n] <= i - 1
        BY <1>1, <1>4, <3>2
      <4>2. len[n] \in Nat
        BY <1>1
      <4>3. QED
        BY <1>3, <1>4, <3>2, <4>1, <4>2
    <3>3. QED
      BY <3>1, <3>2
  <2>2. ASSUME NEW i \in Nat, NEW j \in Nat, i < k[n], K[n][i] = K[n][j] PROVE i = j
    <3>1. CASE i = 0 \/ j = 0
      BY <1>0, <1>4, <2>2, <3>1
    <3>2. CASE i # 0 /\ j # 0
      <4>1. L[n][i - 1] = L[n][j - 1] /\ i - 1 \in Nat /\ j - 1 \in Nat
        BY <1>4, <2>2, <3>2
      <4>2. i - 1 < len[n]
        BY <1>1, <1>3, <2>2
      <4>3. i - 1 = j - 1
        BY <4>1, <4>2 DEF Exact, Shape
      <4>4. QED
        BY <4>3
    <3>3. QED
      BY <3>1, <3>2
  <2>3. ASSUME NEW b \in Heads
        PROVE  /\ \A i \in Nat : K[b][i] = NULL <=> k[b] <= i
               /\ \A i, j \in Nat : i < k[b] /\ K[b][i] = K[b][j] => i = j
    <3>1. CASE b = n
      BY <2>1, <2>2, <3>1
    <3>2. CASE b # n
      BY <1>3, <3>2 DEF Exact, Shape
    <3>3. QED
      BY <3>1, <3>2
  <2>4. QED
    BY <1>3, <2>3 DEF Shape
<1>7. Linked(K, k)'
  <2>1. ASSUME NEW b \in Heads, NEW i \in Nat, i < len[b] PROVE next'[L[b][i]] = L[b][i + 1]
    <3>1. L[b][i] \in Pcbs /\ L[b][i] # p
      BY <1>0, <2>1, InList
    <3>2. next[L[b][i]] = L[b][i + 1]
      BY <2>1 DEF Exact, Linked
    <3>3. QED
      BY <3>1, <3>2 DEF UdpTypes
  <2>2. next'[p] = L[n][0] /\ head'[n] = p /\ \A b \in Heads \ {n} : head'[b] = L[b][0]
    BY DEF UdpTypes, Exact, Linked
  <2>3. ASSUME NEW i \in Nat, i < k[n] PROVE next'[K[n][i]] = K[n][i + 1]
    <3>1. CASE i = 0
      BY <1>4, <1>5, <2>2, <3>1
    <3>2. CASE i # 0
      <4>1. i - 1 \in Nat /\ i - 1 < len[n] /\ (i - 1) + 1 = i
        BY <1>1, <1>3, <2>3, <3>2
      <4>2. next'[L[n][i - 1]] = L[n][i]
        BY <2>1, <4>1
      <4>3. QED
        BY <1>4, <1>5, <3>2, <4>2
    <3>3. QED
      BY <3>1, <3>2
  <2>4. ASSUME NEW b \in Heads
        PROVE  K[b][0] = head'[b] /\ \A i \in Nat : i < k[b] => next'[K[b][i]] = K[b][i + 1]
    BY <1>3, <1>4, <2>1, <2>2, <2>3
  <2>5. QED
    BY <2>4 DEF Linked
<1>8. Listed(K, k)'
  <2>1. ASSUME NEW b \in Heads, NEW q \in Pcbs
        PROVE  (\E i \in Nat : i < k[b] /\ K[b][i] = q) <=> made'[q] = "yes" /\ port_local'[q] = b /\ b # 0
    <3>1. CASE b # n
      <4>1. K[b] = L[b] /\ k[b] = len[b]
        BY <1>3, <3>1
      <4>2. port_local'[q] = b /\ b # 0 <=> port_local[q] = b /\ b # 0
        BY <3>1 DEF UdpTypes
      <4>3. QED
        BY <4>1, <4>2 DEF Exact, Listed
    <3>2. CASE b = n /\ q = p
      <4>1. 0 < k[n]
        BY <1>1, <1>3
      <4>2. made'[q] = "yes" /\ port_local'[q] = b
        BY <3>2 DEF UdpTypes
      <4>3. QED
        BY <1>4, <3>2, <4>1, <4>2
    <3>3. CASE b = n /\ q # p
      <4>1. port_local'[q] = port_local[q]
        BY <3>3 DEF UdpTypes
      <4>2. (\E i \in Nat : i < k[n] /\ K[n][i] = q) <=> \E i \in Nat : i < len[n] /\ L[n][i] = q
        <5>1. ASSUME NEW i \in Nat, i < k[n], K[n][i] = q PROVE \E j \in Nat : j < len[n] /\ L[n][j] = q
          <6>1. i # 0
            BY <1>4, <3>3, <5>1
          <6>2. i - 1 \in Nat /\ i - 1 < len[n] /\ L[n][i - 1] = q
            BY <1>1, <1>3, <1>4, <5>1, <6>1
          <6>3. QED
            BY <6>2
        <5>2. ASSUME NEW i \in Nat, i < len[n], L[n][i] = q PROVE \E j \in Nat : j < k[n] /\ K[n][j] = q
          <6>1. i + 1 \in Nat /\ i + 1 < k[n] /\ K[n][i + 1] = q
            BY <1>1, <1>3, <1>5, <5>2
          <6>2. QED
            BY <6>1
        <5>3. QED
          BY <5>1, <5>2
      <4>3. QED
        BY <3>3, <4>1, <4>2 DEF Exact, Listed
    <3>4. QED
      BY <3>1, <3>2, <3>3
  <2>2. QED
    BY <2>1 DEF Listed
<1>9. QED
  BY <1>6, <1>7, <1>8 DEF Exact

\* A list without its m-th block.
LEMMA Removed ==
    ASSUME UdpTypes, NEW L, NEW len, Exact(L, len), NEW b \in Heads, NEW m \in Nat, m < len[b], NEW p, p = L[b][m],
           made' = [made EXCEPT ![p] = "freed"], port_local' = port_local,
           \/ m = 0 /\ head' = [head EXCEPT ![b] = next[p]] /\ next' = next
           \/ /\ m # 0 /\ head' = head
              /\ \A q \in Pcbs : next'[q] = IF q = L[b][m - 1] THEN next[p] ELSE next[q]
    PROVE  \E K, k : Exact(K, k)'
<1>1. /\ len \in [Heads -> Nat] /\ L \in [Heads -> [Nat -> Blocks]]
      /\ \A c \in Heads : \A i \in Nat : L[c][i] = NULL <=> len[c] <= i
  BY DEF Exact, Shape
<1>2. p \in Pcbs /\ made[p] = "yes" /\ port_local[p] = b /\ b # 0 /\ next[p] = L[b][m + 1] /\ len[b] \in Nat
  BY <1>1, InList DEF Exact, Linked
<1>3. PICK K, k : /\ K = [L EXCEPT ![b] = [i \in Nat |-> IF i < m THEN L[b][i] ELSE L[b][i + 1]]]
                  /\ k = [len EXCEPT ![b] = @ - 1]
  OBVIOUS
<1>4. /\ K \in [Heads -> [Nat -> Blocks]] /\ k \in [Heads -> Nat]
      /\ \A c \in Heads \ {b} : K[c] = L[c] /\ k[c] = len[c]
      /\ k[b] = len[b] - 1
  <2>1. [i \in Nat |-> IF i < m THEN L[b][i] ELSE L[b][i + 1]] \in [Nat -> Blocks]
    <3>1. \A i \in Nat : L[b][i] \in Blocks /\ L[b][i + 1] \in Blocks
      BY <1>1
    <3>2. QED
      BY <3>1
  <2>2. len[b] - 1 \in Nat
    BY <1>2
  <2>3. QED
    BY <1>1, <1>3, <2>1, <2>2
<1>5. \A i \in Nat : /\ i < m => K[b][i] = L[b][i]
                     /\ ~(i < m) => K[b][i] = L[b][i + 1]
  BY <1>1, <1>3
\* Where in the list the i-th block of the shorter list is.
<1> DEFINE old(i) == IF i < m THEN i ELSE i + 1
<1>6. \A i \in Nat : /\ old(i) \in Nat /\ old(i) # m /\ K[b][i] = L[b][old(i)]
                     /\ i < k[b] <=> old(i) < len[b]
                     /\ k[b] <= i <=> len[b] <= old(i)
                     /\ \A j \in Nat : old(i) = old(j) => i = j
  <2> SUFFICES ASSUME NEW i \in Nat
               PROVE  /\ old(i) \in Nat /\ old(i) # m /\ K[b][i] = L[b][old(i)]
                      /\ i < k[b] <=> old(i) < len[b]
                      /\ k[b] <= i <=> len[b] <= old(i)
                      /\ \A j \in Nat : old(i) = old(j) => i = j
    OBVIOUS
  <2>1. K[b][i] = L[b][old(i)]
    BY <1>5
  <2>2. i < k[b] <=> old(i) < len[b]
    BY <1>2, <1>4
  <2>3. k[b] <= i <=> len[b] <= old(i)
    BY <1>2, <1>4
  <2>4. old(i) \in Nat /\ old(i) # m /\ \A j \in Nat : old(i) = old(j) => i = j
    OBVIOUS
  <2>5. QED
    BY <2>1, <2>2, <2>3, <2>4
<1>7. \A i, j \in Nat : i < len[b] /\ L[b][i] = L[b][j] => i = j
  BY DEF Exact, Shape
<1> HIDE DEF old
<1>8. Shape(K, k)'
  <2>1. \A i \in Nat : K[b][i] = NULL <=> k[b] <= i
    BY <1>1, <1>6
  <2>2. \A i, j \in Nat : i < k[b] /\ K[b][i] = K[b][j] => i = j
    BY <1>6, <1>7
  <2>3. ASSUME NEW c \in Heads
        PROVE  /\ \A i \in Nat : K[c][i] = NULL <=> k[c] <= i
               /\ \A i, j \in Nat : i < k[c] /\ K[c][i] = K[c][j] => i = j
    <3>1. CASE c = b
      BY <2>1, <2>2, <3>1
    <3>2. CASE c # b
      BY <1>4, <3>2 DEF Exact, Shape
    <3>3. QED
      BY <3>1, <3>2
  <2>4. QED
    BY <1>4, <2>3 DEF Shape
<1>9. Linked(K, k)'
  <2>1. ASSUME NEW c \in Heads, NEW i \in Nat, i < len[c], c # b \/ i + 1 # m
        PROVE  next'[L[c][i]] = L[c][i + 1]
    <3>1. L[c][i] \in Pcbs /\ port_local[L[c][i]] = c /\ next[L[c][i]] = L[c][i + 1]
      BY <2>1, InList DEF Exact, Linked
    <3>2. CASE m = 0
      BY <3>1, <3>2
    <3>3. CASE m # 0
      <4>1. m - 1 # i \/ c # b
        BY <1>2, <2>1, <3>3
      <4>2. m - 1 \in Nat /\ m - 1 < len[b]
        BY <1>2, <3>3
      <4>3. port_local[L[b][m - 1]] = b
        BY <4>2, InList
      <4>4. L[c][i] # L[b][m - 1]
        BY <1>7, <3>1, <4>1, <4>2, <4>3
      <4>5. QED
        BY <3>1, <3>3, <4>4
    <3>4. QED
      BY <3>2, <3>3
  <2>2. ASSUME NEW i \in Nat, i + 1 = m PROVE next'[L[b][i]] = L[b][m + 1]
    <3>1. i < len[b] /\ i = m - 1 /\ m # 0
      BY <1>2, <2>2
    <3>2. L[b][i] \in Pcbs
      BY <3>1, InList
    <3>3. QED
      BY <1>2, <3>1, <3>2
  <2>3. ASSUME NEW i \in Nat, i < k[b] PROVE next'[K[b][i]] = K[b][i + 1]
    <3>1. old(i) \in Nat /\ old(i) < len[b] /\ K[b][i] = L[b][old(i)] /\ i + 1 \in Nat
      BY <1>6, <2>3
    <3>2. CASE i + 1 = m
      <4>1. old(i) = i /\ K[b][i + 1] = L[b][m + 1]
        BY <1>5, <3>2 DEF old
      <4>2. QED
        BY <2>2, <3>1, <3>2, <4>1
    <3>3. CASE i + 1 # m
      <4>1. old(i) + 1 # m /\ K[b][i + 1] = L[b][old(i) + 1]
        <5>1. CASE i + 1 < m
          <6>1. old(i) = i /\ K[b][i + 1] = L[b][i + 1]
            BY <1>5, <3>1, <5>1 DEF old
          <6>2. QED
            BY <3>3, <6>1
        <5>2. CASE ~(i + 1 < m)
          <6>1. ~(i < m)
            BY <3>3, <5>2
          <6>2. old(i) = i + 1 /\ K[b][i + 1] = L[b][(i + 1) + 1]
            BY <1>5, <3>1, <5>2, <6>1 DEF old
          <6>3. i + 1 + 1 # m
            BY <6>1
          <6>4. QED
            BY <6>2, <6>3
        <5>3. QED
          BY <5>1, <5>2
      <4>2. QED
        BY <2>1, <3>1, <4>1
    <3>4. QED
      BY <3>2, <3>3
  <2>4. K[b][0] = head'[b]
    <3>1. CASE m = 0
      <4>1. K[b][0] = L[b][1] /\ head'[b] = next[p]
        BY <1>5, <3>1 DEF UdpTypes
      <4>2. QED
        BY <1>2, <3>1, <4>1
    <3>2. CASE m # 0
      BY <1>5, <3>2 DEF Exact, Linked
    <3>3. QED
      BY <3>1, <3>2
  <2>5. ASSUME NEW c \in Heads
        PROVE  K[c][0] = head'[c] /\ \A i \in Nat : i < k[c] => next'[K[c][i]] = K[c][i + 1]
    <3>1. CASE c = b
      BY <2>3, <2>4, <3>1
    <3>2. CASE c # b
      <4>1. K[c] = L[c] /\ k[c] = len[c] /\ head'[c] = L[c][0]
        BY <1>4, <3>2 DEF UdpTypes, Exact, Linked
      <4>2. QED
        BY <2>1, <3>2, <4>1
    <3>3. QED
      BY <3>1, <3>2
  <2>6. QED
    BY <2>5 DEF Linked
<1>10. Listed(K, k)'
  <2>1. ASSUME NEW c \in Heads, NEW q \in Pcbs
        PROVE  (\E i \in Nat : i < k[c] /\ K[c][i] = q) <=> made'[q] = "yes" /\ port_local'[q] = c /\ c # 0
    <3>1. CASE c # b
      <4>1. K[c] = L[c] /\ k[c] = len[c]
        BY <1>4, <3>1
      <4>2. made'[q] = "yes" /\ port_local'[q] = c <=> made[q] = "yes" /\ port_local[q] = c
        BY <1>2, <3>1 DEF UdpTypes
      <4>3. QED
        BY <4>1, <4>2 DEF Exact, Listed
    <3>2. CASE c = b /\ q = p
      <4>1. ASSUME NEW i \in Nat, i < k[b], K[b][i] = p PROVE FALSE
        BY <1>6, <1>7, <4>1
      <4>2. made'[q] # "yes"
        BY <3>2 DEF UdpTypes
      <4>3. QED
        BY <3>2, <4>1, <4>2
    <3>3. CASE c = b /\ q # p
      <4>1. made'[q] = made[q] /\ port_local'[q] = port_local[q]
        BY <3>3 DEF UdpTypes
      <4>2. (\E i \in Nat : i < k[b] /\ K[b][i] = q) <=> \E i \in Nat : i < len[b] /\ L[b][i] = q
        <5>1. ASSUME NEW i \in Nat, i < k[b], K[b][i] = q PROVE \E j \in Nat : j < len[b] /\ L[b][j] = q
          BY <1>6, <5>1
        <5>2. ASSUME NEW i \in Nat, i < len[b], L[b][i] = q PROVE \E j \in Nat : j < k[b] /\ K[b][j] = q
          <6>1. i # m
            BY <3>3, <5>2
          <6>2. CASE i < m
            BY <1>2, <1>4, <1>5, <5>2, <6>2
          <6>3. CASE ~(i < m)
            <7>0. i - 1 \in Nat /\ ~(i - 1 < m) /\ (i - 1) + 1 = i
              BY <6>1, <6>3
            <7>1. i - 1 \in Nat /\ ~(i - 1 < m) /\ i - 1 < k[b] /\ (i - 1) + 1 = i
              <8>1. k[b] = len[b] - 1 /\ len[b] \in Nat /\ i < len[b]
                BY <1>2, <1>4, <5>2
              <8>2. i - 1 < len[b] - 1
                BY <8>1
              <8>3. QED
                BY <7>0, <8>1, <8>2
            <7>2. K[b][i - 1] = q
              BY <1>5, <5>2, <7>1
            <7>3. QED
              BY <7>1, <7>2
          <6>4. QED
            BY <6>2, <6>3
        <5>3. QED
          BY <5>1, <5>2
      <4>3. QED
        BY <3>3, <4>1, <4>2 DEF Exact, Listed
    <3>4. QED
      BY <3>1, <3>2, <3>3
  <2>2. QED
    BY <2>1 DEF Listed
<1>11. QED
  BY <1>8, <1>9, <1>10 DEF Exact

\* The lists stay as they are when no pointer changes and no block enters or leaves one.
LEMMA SameLists ==
    ASSUME NEW L, NEW len, Exact(L, len), head' = head, next' = next,
           \A q \in Pcbs, b \in Heads \ {0} : made'[q] = "yes" /\ port_local'[q] = b
                                               <=> made[q] = "yes" /\ port_local[q] = b
    PROVE  \E K, k : Exact(K, k)'
<1>1. Shape(L, len)' /\ Linked(L, len)'
  BY DEF Exact, Shape, Linked
<1>2. Listed(L, len)'
  <2>1. ASSUME NEW b \in Heads, NEW q \in Pcbs
        PROVE  (\E i \in Nat : i < len[b] /\ L[b][i] = q) <=> made'[q] = "yes" /\ port_local'[q] = b /\ b # 0
    <3>1. (\E i \in Nat : i < len[b] /\ L[b][i] = q) <=> made[q] = "yes" /\ port_local[q] = b /\ b # 0
      BY DEF Exact, Listed
    <3>2. CASE b = 0
      BY <3>1, <3>2
    <3>3. CASE b # 0
      <4>1. made'[q] = "yes" /\ port_local'[q] = b <=> made[q] = "yes" /\ port_local[q] = b
        BY <3>3
      <4>2. QED
        BY <3>1, <3>3, <4>1
    <3>4. QED
      BY <3>2, <3>3
  <2>2. QED
    BY <2>1 DEF Listed
<1>3. QED
  BY <1>1, <1>2 DEF Exact

\* The list of a number is one of the array's, and a number below HTABLE is that of its list.
LEMMA HeadOf ==
    ASSUME NEW n \in Nat
    PROVE  n % HTABLE \in Heads /\ (n < HTABLE => n \in Heads /\ n % HTABLE = n)
<1>1. HTABLE \in Nat /\ HTABLE > 0
  BY UdpAssumption
<1>2. n % HTABLE \in 0..(HTABLE - 1)
  BY <1>1
<1>3. ASSUME n < HTABLE PROVE n \in 0..(HTABLE - 1) /\ n % HTABLE = n
  <2>1. n \in 0..(HTABLE - 1)
    BY <1>1, <1>3
  <2>2. n = HTABLE * (n \div HTABLE) + (n % HTABLE)
    BY <1>1
  <2>3. n % HTABLE = n
    BY <1>1, <1>3
  <2>4. QED
    BY <2>1, <2>3
<1>4. QED
  BY <1>2, <1>3 DEF Heads

\* While no block is bound to a second port, every list is that of its blocks.
LEMMA ListsAre ==
    ASSUME UdpInv, mode = "ok", ~again, NEW b \in Heads
    PROVE  /\ Nodes(head[b]) = {p \in Pcbs : made[p] = "yes" /\ port_local[p] = b /\ b # 0}
           /\ Walk(head[b]) = "ok"
<1>1. PICK L, len : Exact(L, len)
  BY DEF UdpInv
<1>2. QED
  BY <1>1, ListIs

\* A call that stops the program.
LEMMA FailsStep ==
    ASSUME UdpInv, NEW m \in {"crashed", "hung", "wild"}, Fails(m),
           m = "hung" => again, m = "crashed" => twice \/ again
    PROVE  UdpInv'
<1>1. UdpTypes' /\ \A p \in Pcbs : made'[p] = "no" => port_local'[p] = 0
  BY DEF UdpInv, UdpTypes, Fails
<1>2. mode' # "ok" /\ (mode' = "crashed" => twice' \/ again') /\ (mode' = "hung" => again')
  BY DEF Fails
<1>3. QED
  BY <1>1, <1>2 DEF UdpInv

\* Only a circle keeps a walk from its end.
LEMMA WalkFails ==
    ASSUME UdpInv, mode = "ok", NEW b \in Heads, Walk(head[b]) # "ok", Fails(Walk(head[b]))
    PROVE  UdpInv'
<1>1. again
  BY ListsAre DEF UdpInv, UdpTypes
<1>2. PICK m : m = Walk(head[b])
  OBVIOUS
<1>3. m \in {"hung", "wild"}
  BY <1>2 DEF Walk
<1>4. QED
  BY <1>1, <1>2, <1>3, FailsStep

\* A block gets a port: it is new in its list, or nothing changes, or it has a second port.
LEMMA LinkStep ==
    ASSUME UdpInv, mode = "ok", NEW p \in Pcbs, made[p] = "yes", NEW n \in Nat, NEW rebind \in BOOLEAN,
           rebind \/ n \in Heads, index' \in 0..HTABLE, Link(p, n, rebind),
           ~again' => n \in Heads \ {0} /\ (rebind <=> p \in Nodes(head[n]))
    PROVE  UdpInv'
<1>1. UdpTypes'
  <2>1. port_local' \in [Pcbs -> Nat] /\ made' = made /\ mode' = mode
    BY DEF UdpInv, UdpTypes, Link
  <2>2. head' \in [Heads -> Pcbs \cup {NULL}]
    BY DEF UdpInv, UdpTypes, Link
  <2>3. next' \in [Pcbs -> Pcbs \cup {NULL}]
    <3>1. CASE rebind
      BY <3>1 DEF UdpInv, UdpTypes, Link
    <3>2. CASE ~rebind
      <4>1. head[n] \in Pcbs \cup {NULL}
        BY <3>2 DEF UdpInv, UdpTypes
      <4>2. QED
        BY <3>2, <4>1 DEF UdpInv, UdpTypes, Link
    <3>3. QED
      BY <3>1, <3>2
  <2>4. again' \in BOOLEAN /\ twice' \in BOOLEAN
    BY DEF Link
  <2>5. QED
    BY <2>1, <2>2, <2>3, <2>4 DEF UdpInv, UdpTypes
<1>2. \A q \in Pcbs : made'[q] = "no" => port_local'[q] = 0
  BY DEF UdpInv, UdpTypes, Link
<1>3. mode' = "ok"
  BY DEF Link
<1>4. ASSUME ~again' PROVE \E L, len : Exact(L, len)'
  <2>1. ~again /\ (port_local[p] = 0 \/ port_local[p] = n) /\ n \in Heads \ {0}
    BY <1>4 DEF Link
  <2>2. p \in Nodes(head[n]) <=> port_local[p] = n
    BY <2>1, ListsAre
  <2>3. PICK L, len : Exact(L, len)
    BY <2>1 DEF UdpInv
  <2>4. CASE rebind
    <3>1. port_local[p] = n
      BY <1>4, <2>2, <2>4
    <3>2. head' = head /\ next' = next /\ made' = made /\ port_local' = port_local
      BY <2>4, <3>1 DEF Link, UdpInv, UdpTypes
    <3>3. QED
      BY <2>3, <3>2, SameLists
  <2>5. CASE ~rebind
    <3>1. port_local[p] = 0
      BY <1>4, <2>1, <2>2, <2>5
    <3>2. /\ made' = made /\ port_local' = [port_local EXCEPT ![p] = n]
          /\ head' = [head EXCEPT ![n] = p] /\ next' = [next EXCEPT ![p] = head[n]]
      BY <2>5 DEF Link
    <3>3. QED
      BY <2>1, <2>3, <3>1, <3>2, Pushed DEF UdpInv
  <2>6. QED
    BY <2>4, <2>5
<1>5. ASSUME ~again' PROVE \A q \in Pcbs : port_local'[q] \in Heads
  BY <1>4, <1>5 DEF UdpInv, UdpTypes, Link
<1>6. ASSUME ~again', ~twice', NEW q \in Pcbs, NEW r \in Pcbs, made'[q] = "yes", made'[r] = "yes",
             port_local'[q] = port_local'[r]
      PROVE  q = r \/ port_local'[q] = 0
  <2>1. ~again /\ ~twice /\ made[q] = "yes" /\ made[r] = "yes"
    BY <1>6 DEF Link
  <2>2. \A s \in Pcbs \ {p} : made[s] = "yes" => port_local[s] # n
    BY <1>6 DEF Link
  <2>3. /\ port_local'[p] = n
        /\ \A s \in Pcbs \ {p} : port_local'[s] = port_local[s]
    BY DEF Link, UdpInv, UdpTypes
  <2>4. CASE q = p \/ r = p
    BY <1>6, <2>1, <2>2, <2>3, <2>4
  <2>5. CASE q # p /\ r # p
    <3>1. port_local[q] = port_local[r] /\ port_local'[q] = port_local[q]
      BY <1>6, <2>3, <2>5
    <3>2. QED
      BY <2>1, <3>1 DEF UdpInv
  <2>6. QED
    BY <2>4, <2>5
<1>7. QED
  BY <1>1, <1>2, <1>3, <1>4, <1>5, <1>6 DEF UdpInv

\* Any port: the number that the loop stops with is in no list.
LEMMA BindAnyStep ==
    ASSUME UdpInv, mode = "ok", NEW p \in Pcbs, made[p] = "yes", NEW rebind \in BOOLEAN,
           ~again => ~rebind, BindAny(p, rebind)
    PROVE  UdpInv'
<1>1. HTABLE \in Nat /\ index \in 0..HTABLE
  BY UdpAssumption DEF UdpInv, UdpTypes
<1>2. PICK n \in index + 1..HTABLE :
          /\ AnyPort(n)
          /\ IF n = HTABLE THEN Fails("wild")
             ELSE IF Walk(head[n]) # "ok" THEN Fails(Walk(head[n]))
             ELSE index' = n /\ Link(p, n, rebind)
  BY DEF BindAny
<1>3. CASE n = HTABLE
  BY <1>2, <1>3, FailsStep
<1>4. CASE n # HTABLE
  <2>1. n \in Heads \ {0} /\ n \in Nat /\ n \in 0..HTABLE
    BY <1>1, <1>4 DEF Heads
  <2>2. CASE Walk(head[n]) # "ok"
    BY <1>2, <1>4, <2>1, <2>2, WalkFails
  <2>3. CASE Walk(head[n]) = "ok"
    <3>1. index' \in 0..HTABLE /\ Link(p, n, rebind)
      BY <1>2, <1>4, <2>1, <2>3
    <3>2. ASSUME ~again' PROVE ~rebind /\ p \notin Nodes(head[n])
      <4>1. ~again
        BY <3>1, <3>2 DEF Link
      <4>2. \A q \in Nodes(head[n]) : port_local[q] # n
        BY <1>2, <1>4 DEF AnyPort, Unused
      <4>3. \A q \in Nodes(head[n]) : port_local[q] = n
        BY <2>1, <4>1, ListsAre
      <4>4. QED
        BY <4>1, <4>2, <4>3
    <3>3. QED
      BY <2>1, <3>1, <3>2, LinkStep
  <2>4. QED
    BY <2>2, <2>3
<1>5. QED
  BY <1>3, <1>4

LEMMA BindStep ==
    ASSUME UdpInv, mode = "ok", NEW p \in Pcbs, made[p] = "yes", NEW n \in Nat, UdpBind(p, n)
    PROVE  UdpInv'
<1>1. PICK b \in Heads : b = n % HTABLE /\ (n < HTABLE => b = n)
  BY HeadOf
<1>2. PICK rebind \in BOOLEAN : rebind <=> p \in Nodes(head[b])
  <2>1. (p \in Nodes(head[b])) \in BOOLEAN
    OBVIOUS
  <2>2. QED
    BY <2>1
<1>3. IF Walk(head[b]) # "ok" THEN Fails(Walk(head[b]))
      ELSE IF n = 0 THEN BindAny(p, p \in Nodes(head[b]))
      ELSE IF n >= HTABLE /\ ~(p \in Nodes(head[b])) THEN Fails("wild")
      ELSE Link(p, n, p \in Nodes(head[b])) /\ UNCHANGED index
  BY <1>1 DEF UdpBind
<1>4. (p \in Nodes(head[b])) = rebind
  BY <1>2
<1>5. CASE Walk(head[b]) # "ok"
  BY <1>3, <1>5, WalkFails
<1>6. CASE Walk(head[b]) = "ok" /\ n = 0
  <2>1. BindAny(p, rebind)
    BY <1>3, <1>4, <1>6
  <2>2. b = 0
    BY <1>1, <1>6, UdpAssumption
  <2>3. ~again => ~rebind
    BY <1>2, <2>2, ListsAre
  <2>4. QED
    BY <2>1, <2>3, BindAnyStep
<1>7. CASE Walk(head[b]) = "ok" /\ n # 0 /\ n >= HTABLE /\ ~rebind
  <2>1. Fails("wild")
    BY <1>2, <1>3, <1>7
  <2>2. QED
    BY <2>1, FailsStep
<1>8. CASE Walk(head[b]) = "ok" /\ n # 0 /\ ~(n >= HTABLE /\ ~rebind)
  <2>1. Link(p, n, rebind) /\ index' = index
    BY <1>3, <1>4, <1>8
  <2>2. HTABLE \in Nat /\ (n >= HTABLE => n # b) /\ (~(n >= HTABLE) => n < HTABLE)
    BY <1>1, UdpAssumption DEF Heads
  <2>3. rebind \/ n \in Heads
    BY <1>1, <1>8, <2>2
  <2>4. ASSUME ~again' PROVE n \in Heads \ {0} /\ (rebind <=> p \in Nodes(head[n]))
    <3>1. ~again /\ (port_local[p] = 0 \/ port_local[p] = n)
      BY <2>1, <2>4 DEF Link
    <3>2. CASE n >= HTABLE
      <4>1. rebind
        BY <1>8, <3>2
      <4>2. port_local[p] = b /\ b # 0
        BY <1>2, <3>1, <4>1, ListsAre
      <4>3. QED
        BY <2>2, <3>1, <3>2, <4>2
    <3>3. CASE ~(n >= HTABLE)
      BY <1>1, <1>2, <1>8, <2>2, <3>3
    <3>4. QED
      BY <3>2, <3>3
  <2>5. index' \in 0..HTABLE
    BY <2>1 DEF UdpInv, UdpTypes
  <2>6. QED
    BY <2>1, <2>3, <2>4, <2>5, LinkStep
<1>9. QED
  BY <1>5, <1>6, <1>7, <1>8

LEMMA UnchangedStep ==
    ASSUME UdpInv, UNCHANGED udpVars
    PROVE  UdpInv'
<1>1. /\ head' = head /\ next' = next /\ port_local' = port_local /\ made' = made
      /\ index' = index /\ mode' = mode /\ again' = again /\ twice' = twice
  BY DEF udpVars
<1>2. UdpTypes'
  BY <1>1 DEF UdpInv, UdpTypes
<1>3. ASSUME mode = "ok", ~again PROVE \E L, len : Exact(L, len)'
  <2>1. PICK L, len : Exact(L, len)
    BY <1>3 DEF UdpInv
  <2>2. QED
    BY <1>1, <2>1, SameLists
<1>4. QED
  BY <1>1, <1>2, <1>3 DEF UdpInv

LEMMA ConnectStep ==
    ASSUME UdpInv, mode = "ok", NEW p \in Pcbs, made[p] = "yes", UdpConnect(p)
    PROVE  UdpInv'
<1>1. port_local[p] \in Nat /\ HTABLE \in Nat
  BY UdpAssumption DEF UdpInv, UdpTypes
<1>2. CASE port_local[p] = 0
  <2>1. UdpBind(p, 0)
    BY <1>2 DEF UdpConnect
  <2>2. QED
    BY <2>1, BindStep
<1>3. CASE port_local[p] # 0 /\ port_local[p] >= HTABLE
  <2>1. Fails("wild")
    BY <1>3 DEF UdpConnect
  <2>2. QED
    BY <2>1, FailsStep
<1>4. CASE port_local[p] # 0 /\ ~(port_local[p] >= HTABLE)
  <2>1. PICK b \in Heads : b = port_local[p]
    BY <1>1, <1>4 DEF Heads
  <2>2. IF Walk(head[b]) # "ok" THEN Fails(Walk(head[b]))
        ELSE IF p \in Nodes(head[b]) THEN UNCHANGED udpVars
        ELSE Link(p, b, FALSE) /\ UNCHANGED index
    BY <1>4, <2>1 DEF UdpConnect
  <2>3. CASE Walk(head[b]) # "ok"
    BY <2>2, <2>3, WalkFails
  <2>4. CASE Walk(head[b]) = "ok" /\ p \in Nodes(head[b])
    <3>1. UNCHANGED udpVars
      BY <2>2, <2>4
    <3>2. QED
      BY <3>1, UnchangedStep
  <2>5. CASE Walk(head[b]) = "ok" /\ p \notin Nodes(head[b])
    <3>1. Link(p, b, FALSE) /\ index' = index
      BY <2>2, <2>5
    <3>2. ASSUME ~again' PROVE FALSE
      <4>1. ~again
        BY <3>1, <3>2 DEF Link
      <4>2. QED
        BY <1>4, <2>1, <2>5, <4>1, ListsAre
    <3>3. index' \in 0..HTABLE /\ b \in Nat
      BY <1>1, <2>1, <3>1 DEF UdpInv, UdpTypes
    <3>4. QED
      BY <3>1, <3>2, <3>3, LinkStep
  <2>6. QED
    BY <2>3, <2>4, <2>5
<1>5. QED
  BY <1>2, <1>3, <1>4

LEMMA NewStep ==
    ASSUME UdpInv, mode = "ok", NEW p \in Pcbs, UdpNew(p)
    PROVE  UdpInv'
<1>1. /\ made' = [made EXCEPT ![p] = "yes"] /\ head' = head /\ next' = next /\ port_local' = port_local
      /\ index' = index /\ mode' = mode /\ again' = again /\ twice' = twice
      /\ made[p] = "no" /\ port_local[p] = 0 /\ made \in [Pcbs -> {"no", "yes", "freed"}]
  BY DEF UdpInv, UdpTypes, UdpNew
<1>2. UdpTypes'
  BY <1>1 DEF UdpInv, UdpTypes
<1>3. \A q \in Pcbs : made'[q] = "no" => port_local'[q] = 0
  BY <1>1 DEF UdpInv
<1>4. ASSUME ~again PROVE \E L, len : Exact(L, len)'
  <2>1. PICK L, len : Exact(L, len)
    BY <1>4 DEF UdpInv
  <2>2. \A q \in Pcbs, b \in Heads \ {0} : made'[q] = "yes" /\ port_local'[q] = b
                                           <=> made[q] = "yes" /\ port_local[q] = b
    BY <1>1
  <2>3. QED
    BY <1>1, <2>1, <2>2, SameLists
<1>5. ASSUME ~again, ~twice, NEW q \in Pcbs, NEW r \in Pcbs, made'[q] = "yes", made'[r] = "yes",
             port_local[q] = port_local[r]
      PROVE  q = r \/ port_local[q] = 0
  <2>1. CASE q = p \/ r = p
    BY <1>1, <1>5, <2>1
  <2>2. CASE q # p /\ r # p
    <3>1. made[q] = "yes" /\ made[r] = "yes"
      BY <1>1, <1>5, <2>2
    <3>2. QED
      BY <1>5, <3>1 DEF UdpInv
  <2>3. QED
    BY <2>1, <2>2
<1>6. QED
  BY <1>1, <1>2, <1>3, <1>4, <1>5 DEF UdpInv

\* A block leaves its list: the one before it is then followed by the one behind it.
LEMMA RemoveStep ==
    ASSUME UdpInv, mode = "ok", NEW p \in Pcbs, made[p] = "yes", UdpRemove(p)
    PROVE  UdpInv'
<1>1. UdpTypes /\ port_local[p] \in Nat /\ NULL \notin Pcbs /\ HTABLE \in Nat
  BY UdpAssumption DEF UdpInv, UdpTypes
<1>2. PICK b \in Heads : b = port_local[p] % HTABLE /\ (port_local[p] < HTABLE => b = port_local[p])
  BY <1>1, HeadOf
<1>3. PICK before : before = {q \in Nodes(head[b]) : next[q] = p}
  OBVIOUS
<1>4. IF head[b] = p
      THEN /\ head' = [head EXCEPT ![b] = next[p]]
           /\ made' = [made EXCEPT ![p] = "freed"]
           /\ UNCHANGED <<next, port_local, index, mode, again, twice>>
      ELSE IF Walk(head[b]) # "ok" THEN Fails(Walk(head[b]))
      ELSE IF before # {} /\ next[p] = NULL THEN Fails("crashed")
      ELSE /\ next' = [q \in Pcbs |-> IF q \in before THEN next[p] ELSE next[q]]
           /\ made' = [made EXCEPT ![p] = "freed"]
           /\ UNCHANGED <<head, port_local, index, mode, again, twice>>
  BY <1>2, <1>3 DEF UdpRemove
\* The block is the m-th of the list at b, or has no port and is in none.
<1>5. ASSUME ~again
      PROVE  /\ b = port_local[p]
             /\ b = 0 => head[b] # p /\ before = {}
             /\ b # 0 => \E L, len : Exact(L, len)
                         /\ \E m \in Nat : /\ m < len[b] /\ L[b][m] = p
                                           /\ m = 0 <=> head[b] = p
                                           /\ m # 0 => before = {L[b][m - 1]} /\ L[b][m - 1] \in Pcbs \ {p}
                                                       /\ made[L[b][m - 1]] = "yes" /\ port_local[L[b][m - 1]] = b
  <2>1. b = port_local[p]
    <3>1. port_local[p] \in Heads
      BY <1>5 DEF UdpInv
    <3>2. QED
      BY <1>1, <1>2, <3>1 DEF Heads
  <2>2. PICK L, len : Exact(L, len)
    BY <1>5 DEF UdpInv
  <2>3. Nodes(head[b]) = {q \in Pcbs : made[q] = "yes" /\ port_local[q] = b /\ b # 0}
    BY <2>2, ListIs
  <2>4. /\ len[b] \in Nat /\ head[b] = L[b][0] /\ (L[b][0] = NULL <=> len[b] <= 0)
        /\ \A i, j \in Nat : i < len[b] /\ L[b][i] = L[b][j] => i = j
        /\ \A i \in Nat : i < len[b] => next[L[b][i]] = L[b][i + 1]
    BY <2>2 DEF Exact, Shape, Linked
  <2>5. CASE b = 0
    <3>1. ~(0 < len[b])
      BY <2>2, <2>5, InList
    <3>2. head[b] # p
      BY <1>1, <2>4, <3>1
    <3>3. QED
      BY <1>3, <2>1, <2>3, <2>5, <3>2
  <2>6. CASE b # 0
    <3>1. PICK m \in Nat : m < len[b] /\ L[b][m] = p
      BY <2>1, <2>2, <2>6 DEF Exact, Listed
    <3>2. m = 0 <=> head[b] = p
      BY <2>4, <3>1
    <3>3. ASSUME m # 0
          PROVE  /\ before = {L[b][m - 1]} /\ L[b][m - 1] \in Pcbs \ {p}
                 /\ made[L[b][m - 1]] = "yes" /\ port_local[L[b][m - 1]] = b
      <4>1. m - 1 \in Nat /\ m - 1 < len[b] /\ (m - 1) + 1 = m /\ m - 1 # m
        BY <2>4, <3>1, <3>3
      <4>2. /\ L[b][m - 1] \in Pcbs /\ made[L[b][m - 1]] = "yes" /\ port_local[L[b][m - 1]] = b
            /\ next[L[b][m - 1]] = p
        BY <2>2, <2>4, <3>1, <4>1, InList
      <4>3. L[b][m - 1] # p
        BY <2>4, <3>1, <4>1
      <4>4. ASSUME NEW q \in before PROVE q = L[b][m - 1]
        <5>1. q \in Nodes(head[b]) /\ next[q] = p
          BY <1>3, <4>4
        <5>2. PICK i \in Nat : i < len[b] /\ L[b][i] = q
          BY <2>2, <2>3, <5>1 DEF Exact, Listed
        <5>3. L[b][i + 1] = p /\ i + 1 \in Nat
          BY <2>4, <5>1, <5>2
        <5>4. m = i + 1
          BY <2>4, <3>1, <5>3
        <5>5. i = m - 1
          BY <5>4
        <5>6. QED
          BY <5>2, <5>5
      <4>5. L[b][m - 1] \in before
        BY <1>3, <2>3, <2>6, <4>2
      <4>6. QED
        BY <4>2, <4>3, <4>4, <4>5
    <3>4. QED
      BY <2>1, <2>2, <2>6, <3>1, <3>2, <3>3
  <2>7. QED
    BY <2>5, <2>6
<1>6. CASE head[b] # p /\ Walk(head[b]) # "ok"
  BY <1>4, <1>6, WalkFails
<1>7. CASE head[b] # p /\ Walk(head[b]) = "ok" /\ before # {} /\ next[p] = NULL
  <2>1. Fails("crashed")
    BY <1>4, <1>7
  <2>2. ASSUME ~again, ~twice PROVE FALSE
    <3>1. b # 0 /\ b = port_local[p]
      BY <1>5, <1>7, <2>2
    <3>2. PICK q \in Pcbs \ {p} : made[q] = "yes" /\ port_local[q] = b
      BY <1>5, <1>7, <2>2, <3>1
    <3>3. QED
      BY <2>2, <3>1, <3>2 DEF UdpInv
  <2>3. QED
    BY <2>1, <2>2, FailsStep
<1>8. CASE head[b] = p \/ (Walk(head[b]) = "ok" /\ ~(before # {} /\ next[p] = NULL))
  <2>1. /\ made' = [made EXCEPT ![p] = "freed"] /\ port_local' = port_local
        /\ index' = index /\ mode' = mode /\ again' = again /\ twice' = twice
    BY <1>4, <1>8
  <2>2. \/ head[b] = p /\ head' = [head EXCEPT ![b] = next[p]] /\ next' = next
        \/ head[b] # p /\ head' = head /\ next' = [q \in Pcbs |-> IF q \in before THEN next[p] ELSE next[q]]
    BY <1>4, <1>8
  <2>3. UdpTypes'
    <3>1. next[p] \in Pcbs \cup {NULL}
      BY <1>1 DEF UdpTypes
    <3>2. head' \in [Heads -> Pcbs \cup {NULL}] /\ next' \in [Pcbs -> Pcbs \cup {NULL}]
      BY <1>1, <2>2, <3>1 DEF UdpTypes
    <3>3. QED
      BY <1>1, <2>1, <3>2 DEF UdpTypes
  <2>4. \A q \in Pcbs : /\ made'[q] = "no" => port_local'[q] = 0
                        /\ made'[q] = "yes" <=> made[q] = "yes" /\ q # p
    BY <1>1, <2>1 DEF UdpInv, UdpTypes
  <2>5. ASSUME ~again PROVE \E L, len : Exact(L, len)'
    <3>1. CASE b = 0
      <4>1. head[b] # p /\ before = {} /\ port_local[p] = 0
        BY <1>5, <2>5, <3>1
      <4>2. head' = head /\ next' = next
        BY <1>1, <2>2, <4>1 DEF UdpTypes
      <4>3. \A q \in Pcbs, c \in Heads \ {0} : made'[q] = "yes" /\ port_local'[q] = c
                                              <=> made[q] = "yes" /\ port_local[q] = c
        BY <2>1, <2>4, <4>1
      <4>4. PICK L, len : Exact(L, len)
        BY <2>5 DEF UdpInv
      <4>5. QED
        BY <4>2, <4>3, <4>4, SameLists
    <3>2. CASE b # 0
      <4>1. PICK L, len, m : /\ Exact(L, len) /\ m \in Nat /\ m < len[b] /\ L[b][m] = p
                             /\ m = 0 <=> head[b] = p
                             /\ m # 0 => before = {L[b][m - 1]}
        BY <1>5, <2>5, <3>2
      <4>2. CASE m = 0
        <5>1. head' = [head EXCEPT ![b] = next[p]] /\ next' = next
          BY <2>2, <4>1, <4>2
        <5>2. QED
          BY <1>1, <2>1, <4>1, <4>2, <5>1, Removed
      <4>3. CASE m # 0
        <5>1. before = {L[b][m - 1]} /\ head' = head
              /\ next' = [q \in Pcbs |-> IF q \in before THEN next[p] ELSE next[q]]
          BY <2>2, <4>1, <4>3
        <5>2. \A q \in Pcbs : next'[q] = IF q = L[b][m - 1] THEN next[p] ELSE next[q]
          BY <5>1
        <5>3. m # 0 /\ head' = head /\ \A q \in Pcbs : next'[q] = IF q = L[b][m - 1] THEN next[p] ELSE next[q]
          BY <4>3, <5>1, <5>2
        <5>4. /\ UdpTypes /\ Exact(L, len) /\ m \in Nat /\ m < len[b] /\ p = L[b][m]
              /\ made' = [made EXCEPT ![p] = "freed"] /\ port_local' = port_local
          BY <1>1, <2>1, <4>1
        <5>5. QED
          BY <5>3, <5>4, Removed
      <4>4. QED
        BY <4>2, <4>3
    <3>3. QED
      BY <3>1, <3>2
  <2>6. QED
    BY <2>1, <2>3, <2>4, <2>5 DEF UdpInv
<1>9. QED
  BY <1>6, <1>7, <1>8

LEMMA InputStep ==
    ASSUME UdpInv, mode = "ok", NEW n \in Nat, UdpInput(n)
    PROVE  UdpInv'
<1>1. PICK b \in Heads : b = n % HTABLE
  BY HeadOf
<1>2. CASE UNCHANGED udpVars
  BY <1>2, UnchangedStep
<1>3. CASE ~UNCHANGED udpVars
  <2>1. Walk(head[b]) # "ok" /\ Fails(Walk(head[b]))
    BY <1>1, <1>3 DEF UdpInput
  <2>2. QED
    BY <2>1, WalkFails
<1>4. QED
  BY <1>2, <1>3

\* Every list is empty at first.
LEMMA UdpStarts ==
    ASSUME UdpInit
    PROVE  UdpInv
<1>1. HTABLE \in Nat /\ 0 \in Heads
  BY UdpAssumption DEF Heads
<1>2. UdpTypes
  <2>1. 0 \in 0..HTABLE /\ 0 \in Nat
    BY <1>1
  <2>2. head \in [Heads -> Pcbs \cup {NULL}] /\ next \in [Pcbs -> Pcbs \cup {NULL}]
    BY DEF UdpInit
  <2>3. port_local \in [Pcbs -> Nat] /\ made \in [Pcbs -> {"no", "yes", "freed"}]
    BY DEF UdpInit
  <2>4. QED
    BY <2>1, <2>2, <2>3 DEF UdpInit, UdpTypes
<1>3. PICK L, len : L = [b \in Heads |-> [i \in Nat |-> NULL]] /\ len = [b \in Heads |-> 0]
  OBVIOUS
<1>4. Shape(L, len)
  BY <1>3 DEF Shape, Blocks
<1>5. Linked(L, len)
  BY <1>3 DEF Linked, UdpInit
<1>6. Listed(L, len)
  BY <1>3 DEF Listed, UdpInit
<1>7. QED
  BY <1>1, <1>2, <1>4, <1>5, <1>6 DEF UdpInv, UdpInit, Exact

LEMMA UdpStep ==
    ASSUME UdpInv, [UdpNext]_udpVars
    PROVE  UdpInv'
<1>1. CASE UNCHANGED udpVars
  BY <1>1, UnchangedStep
<1>2. CASE UdpNext
  <2>1. mode = "ok"
    BY <1>2 DEF UdpNext
  <2>2. ASSUME NEW p \in Pcbs, UdpNew(p) PROVE UdpInv'
    BY <2>1, <2>2, NewStep
  <2>3. ASSUME NEW p \in Pcbs, made[p] = "yes", UdpConnect(p) PROVE UdpInv'
    BY <2>1, <2>3, ConnectStep
  <2>4. ASSUME UdpSendTo PROVE UdpInv'
    <3>1. Fails("wild")
      BY <2>4 DEF UdpSendTo
    <3>2. QED
      BY <3>1, FailsStep
  <2>5. ASSUME NEW p \in Pcbs, made[p] = "yes", UdpRemove(p) PROVE UdpInv'
    BY <2>1, <2>5, RemoveStep
  <2>6. ASSUME NEW p \in Pcbs, NEW n \in Ports, made[p] = "yes", UdpBind(p, n) PROVE UdpInv'
    <3>1. n \in Nat
      BY UdpAssumption
    <3>2. QED
      BY <2>1, <2>6, <3>1, BindStep
  <2>7. ASSUME NEW n \in Ports, UdpInput(n) PROVE UdpInv'
    <3>1. n \in Nat
      BY UdpAssumption
    <3>2. QED
      BY <2>1, <2>7, <3>1, InputStep
  <2>8. QED
    BY <1>2, <2>2, <2>3, <2>4, <2>5, <2>6, <2>7 DEF UdpNext
<1>3. QED
  BY <1>1, <1>2

THEOREM UdpInvHolds == UdpSpec => []UdpInv
<1>1. UdpInit => UdpInv
  BY UdpStarts
<1>2. UdpInv /\ [UdpNext]_udpVars => UdpInv'
  BY UdpStep
<1>3. QED
  BY <1>1, <1>2, PTL DEF UdpSpec

\* While no block is bound to a second port, the array lists the blocks bound to each port, each once and
\* nothing freed, for any number of blocks and any size of the array.
THEOREM ListsAreExact == UdpSpec => []ListsExact
<1>1. UdpInv => ListsExact
  BY ListsAre DEF UdpInv, ListsExact
<1>2. QED
  BY <1>1, UdpInvHolds, PTL

(*************************************************************************)
(* Sums                                                                   *)
(*************************************************************************)

\* What holds of 0 and passes on to the next number holds of all up to n.
LEMMA Climb ==
  ASSUME NEW n \in Nat, NEW P, 0 \in P, \A k \in 1 .. n : k - 1 \in P => k \in P
  PROVE  \A k \in 0 .. n : k \in P
<1> DEFINE Out == (0 .. n) \ P
<1> SUFFICES ASSUME Out # {} PROVE FALSE
  OBVIOUS
<1>1. Out \subseteq Nat
  OBVIOUS
<1>2. PICK k \in Out : \A m \in Out : k <= m
  <2> HIDE DEF Out
  <2> QED BY <1>1, Least
<1>3. k \in 1 .. n /\ k - 1 \in 0 .. n
  OBVIOUS
<1>4. k - 1 \notin Out
  BY <1>1, <1>2
<1> QED BY <1>3, <1>4

\* f[k] is the sum of the first k words.
Sums(f, word, n) == /\ f \in [0 .. n -> Int] /\ f[0] = 0
                    /\ \A k \in 1 .. n : f[k] = f[k - 1] + word[k]

LEMMA SumsExist ==
  ASSUME NEW n \in Nat, NEW word, \A k \in 1 .. n : word[k] \in Int
  PROVE  \E f : Sums(f, word, n)
<1> DEFINE P == {k \in 0 .. n : \E f : Sums(f, word, k)}
<1>1. 0 \in P
  <2>1. Sums([k \in 0 .. 0 |-> 0], word, 0)
    BY DEF Sums
  <2> QED BY <2>1
<1>2. ASSUME NEW k \in 1 .. n, k - 1 \in P PROVE k \in P
  <2>1. PICK f : Sums(f, word, k - 1)
    BY <1>2
  <2> DEFINE g == [j \in 0 .. k |-> IF j = k THEN f[k - 1] + word[k] ELSE f[j]]
  <2>2. f \in [0 .. k - 1 -> Int] /\ f[k - 1] + word[k] \in Int
    BY <2>1 DEF Sums
  <2>3. g \in [0 .. k -> Int]
    <3>1. ASSUME NEW j \in 0 .. k PROVE (IF j = k THEN f[k - 1] + word[k] ELSE f[j]) \in Int
      BY <2>2
    <3> QED BY <3>1
  <2>4. g[0] = 0
    BY <2>1 DEF Sums
  <2>5. ASSUME NEW j \in 1 .. k PROVE g[j] = g[j - 1] + word[j]
    <3>1. CASE j = k
      BY <3>1
    <3>2. CASE j # k
      BY <3>2, <2>1 DEF Sums
    <3> QED BY <3>1, <3>2
  <2> HIDE DEF g
  <2>6. Sums(g, word, k)
    BY <2>3, <2>4, <2>5 DEF Sums
  <2> QED BY <2>6
<1> HIDE DEF P
<1>3. n \in P
  BY <1>1, <1>2, Climb
<1> QED BY <1>3 DEF P

\* Total is the last of the sums.
LEMMA TotalIs ==
  ASSUME NEW n \in Nat, NEW word, \A k \in 1 .. n : word[k] \in Int
  PROVE  \E f : Sums(f, word, n) /\ Total(word, n) = f[n]
<1>1. PICK f : Sums(f, word, n)
  BY SumsExist
<1> DEFINE acc == CHOOSE g : g = [k \in 0 .. n |-> IF k = 0 THEN 0 ELSE g[k - 1] + word[k]]
<1>2. Total(word, n) = acc[n]
  BY DEF Total
<1>3. f = [k \in 0 .. n |-> IF k = 0 THEN 0 ELSE f[k - 1] + word[k]]
  <2>1. \A k \in 0 .. n : f[k] = IF k = 0 THEN 0 ELSE f[k - 1] + word[k]
    BY <1>1 DEF Sums
  <2>2. f \in [0 .. n -> Int]
    BY <1>1 DEF Sums
  <2> QED BY <2>1, <2>2
<1>4. acc = [k \in 0 .. n |-> IF k = 0 THEN 0 ELSE acc[k - 1] + word[k]]
  BY <1>3
<1> HIDE DEF acc
<1> DEFINE P == {k \in 0 .. n : acc[k] = f[k]}
<1>5. 0 \in P
  BY <1>1, <1>4 DEF Sums
<1>6. ASSUME NEW k \in 1 .. n, k - 1 \in P PROVE k \in P
  BY <1>1, <1>4, <1>6 DEF Sums
<1> HIDE DEF P
<1>7. n \in P
  BY <1>5, <1>6, Climb
<1> QED BY <1>1, <1>2, <1>7 DEF P

LEMMA TotalInt ==
  ASSUME NEW n \in Nat, NEW word, \A k \in 1 .. n : word[k] \in Int
  PROVE  Total(word, n) \in Int
  BY TotalIs DEF Sums

\* One word more at the front.
LEMMA Peel ==
  ASSUME NEW n \in Nat, NEW u, NEW v, \A k \in 1 .. n : u[k] \in Int, v[1] \in Int,
         \A k \in 1 .. n : v[k + 1] = u[k]
  PROVE  Total(v, n + 1) = v[1] + Total(u, n)
<1>1. PICK f : Sums(f, u, n) /\ Total(u, n) = f[n]
  BY TotalIs
<1>2. \A k \in 1 .. n + 1 : v[k] \in Int
  <2>1. ASSUME NEW k \in 1 .. n + 1, k # 1 PROVE v[k] \in Int
    <3>1. k - 1 \in 1 .. n /\ (k - 1) + 1 = k
      BY <2>1
    <3> QED BY <3>1
  <2> QED BY <2>1
<1>3. PICK g : Sums(g, v, n + 1) /\ Total(v, n + 1) = g[n + 1]
  BY <1>2, TotalIs
<1> DEFINE P == {k \in 0 .. n : g[k + 1] = v[1] + f[k]}
<1>4. 0 \in P
  <2>1. g[1] = g[0] + v[1] /\ g[0] = 0 /\ f[0] = 0
    BY <1>1, <1>3 DEF Sums
  <2> QED BY <2>1
<1>5. ASSUME NEW k \in 1 .. n, k - 1 \in P PROVE k \in P
  <2>1. g[k + 1] = g[k] + v[k + 1] /\ f[k] = f[k - 1] + u[k] /\ f[k - 1] \in Int
    BY <1>1, <1>3 DEF Sums
  <2>2. g[k] = v[1] + f[k - 1]
    BY <1>5
  <2> QED BY <2>1, <2>2
<1> HIDE DEF P
<1>6. n \in P
  BY <1>4, <1>5, Climb
<1> QED BY <1>1, <1>3, <1>6 DEF P

\* Bytes and words of 16 bits.
U8 == {b \in Nat : b <= 255}
U16 == {w \in Nat : w <= 65535}

\* Words of 16 bits: each is at most the total, which is 0 only if they are.
LEMMA TotalBounds ==
  ASSUME NEW n \in Nat, NEW word, \A k \in 1 .. n : word[k] \in U16
  PROVE  /\ Total(word, n) \in Nat /\ Total(word, n) <= 65535 * n
         /\ \A k \in 1 .. n : word[k] <= Total(word, n)
         /\ (\A k \in 1 .. n : word[k] = 0) => Total(word, n) = 0
<1>1. PICK f : Sums(f, word, n) /\ Total(word, n) = f[n]
  <2>1. \A k \in 1 .. n : word[k] \in Int
    BY DEF U16
  <2> QED BY <2>1, TotalIs
<1> DEFINE P == {k \in 0 .. n : /\ f[k] \in Nat /\ f[k] <= 65535 * k
                                /\ \A j \in 1 .. k : word[j] <= f[k]
                                /\ (\A j \in 1 .. n : word[j] = 0) => f[k] = 0}
<1>2. 0 \in P
  BY <1>1 DEF Sums
<1>3. ASSUME NEW k \in 1 .. n, k - 1 \in P PROVE k \in P
  <2>1. /\ f[k] = f[k - 1] + word[k] /\ word[k] \in Nat /\ word[k] <= 65535
        /\ f[k - 1] \in Nat /\ f[k - 1] <= 65535 * (k - 1)
    BY <1>1, <1>3 DEF Sums, U16
  <2>2. f[k] \in Nat /\ f[k] <= 65535 * k
    BY <2>1
  <2>3. ASSUME NEW j \in 1 .. k PROVE word[j] <= f[k]
    <3>1. CASE j = k
      BY <2>1, <3>1
    <3>2. CASE j # k
      <4>1. word[j] <= f[k - 1] /\ word[j] \in Nat
        BY <1>3, <3>2 DEF U16
      <4> QED BY <2>1, <4>1
    <3> QED BY <3>1, <3>2
  <2>4. (\A j \in 1 .. n : word[j] = 0) => f[k] = 0
    BY <2>1, <1>3
  <2> QED BY <2>2, <2>3, <2>4
<1> HIDE DEF P
<1>4. n \in P
  BY <1>2, <1>3, Climb
<1> QED BY <1>1, <1>4 DEF P

(*************************************************************************)
(* Bytes and words                                                        *)
(*************************************************************************)

Data == Seq(U8)

\* The word that SIP_Chksum adds, and the one that icmp_cksum adds.
WordOf(d) == [i \in Words(d) |-> 256 * Byte(d, 2 * i - 1) + Byte(d, 2 * i)]
LowWordOf(d) == LET odd == Len(d) % 2 = 1
                    low(i) == IF odd /\ 2 * i > Len(d) THEN 0 ELSE d[2 * i - 1]
                    high(i) == IF odd /\ 2 * i > Len(d) THEN d[2 * i - 1] ELSE d[2 * i] IN
                [i \in Words(d) |-> low(i) + 256 * high(i)]

LEMMA Sizes ==
  ASSUME NEW d \in Data
  PROVE  /\ Len(d) \in Nat /\ Halves(d) \in Nat /\ Halves(d) <= Len(d)
         /\ 2 * Halves(d) = Len(d) \/ 2 * Halves(d) = Len(d) + 1
         /\ 2 * Halves(d) = Len(d) + 1 <=> Len(d) % 2 = 1
         /\ \A i \in 1 .. Len(d) : d[i] \in U8
         /\ \A i \in Nat \ {0} : Byte(d, i) \in U8
<1>1. Len(d) \in Nat /\ \A i \in 1 .. Len(d) : d[i] \in U8
  BY DEF Data
<1>2. \A n \in Nat : /\ (n + 1) \div 2 \in Nat /\ (n + 1) \div 2 <= n
                     /\ 2 * ((n + 1) \div 2) = n \/ 2 * ((n + 1) \div 2) = n + 1
                     /\ 2 * ((n + 1) \div 2) = n + 1 <=> n % 2 = 1
  OBVIOUS
<1>3. \A i \in Nat \ {0} : Byte(d, i) \in U8
  BY <1>1 DEF Byte, U8
<1> QED BY <1>1, <1>2, <1>3 DEF Halves

LEMMA WordsOf ==
  ASSUME NEW d \in Data
  PROVE  /\ SumOf(d) = Total(WordOf(d), Halves(d))
         /\ \A k \in 1 .. Halves(d) : /\ WordOf(d)[k] = 256 * Byte(d, 2 * k - 1) + Byte(d, 2 * k)
                                      /\ WordOf(d)[k] \in U16
<1>1. SumOf(d) = Total(WordOf(d), Halves(d))
  BY DEF SumOf, WordOf
<1>2. ASSUME NEW k \in 1 .. Halves(d) PROVE WordOf(d)[k] = 256 * Byte(d, 2 * k - 1) + Byte(d, 2 * k)
  BY DEF WordOf, Words
<1>3. ASSUME NEW k \in 1 .. Halves(d) PROVE WordOf(d)[k] \in U16
  <2>1. Halves(d) \in Nat
    BY Sizes
  <2>2. 2 * k - 1 \in Nat \ {0} /\ 2 * k \in Nat \ {0}
    BY <2>1
  <2>3. Byte(d, 2 * k - 1) \in U8 /\ Byte(d, 2 * k) \in U8
    BY <2>2, Sizes
  <2> QED BY <1>2, <2>3 DEF U8, U16
<1> QED BY <1>1, <1>2, <1>3

\* The sum of a __u16's worth of bytes fits into a __u32; only that of zeros is 0.
LEMMA SumBounds ==
  ASSUME NEW d \in Data
  PROVE  /\ SumOf(d) \in Nat /\ SumOf(d) <= 65535 * Halves(d)
         /\ SumOf(d) = 0 <=> \A i \in 1 .. Len(d) : d[i] = 0
<1> DEFINE n == Halves(d)
           w == WordOf(d)
<1>1. n \in Nat /\ SumOf(d) = Total(w, n) /\ \A k \in 1 .. n : w[k] \in U16
  BY Sizes, WordsOf
<1>2. \A k \in 1 .. n : w[k] = 256 * Byte(d, 2 * k - 1) + Byte(d, 2 * k)
  BY WordsOf
<1>3. /\ SumOf(d) \in Nat /\ SumOf(d) <= 65535 * n
      /\ \A k \in 1 .. n : w[k] <= SumOf(d)
      /\ (\A k \in 1 .. n : w[k] = 0) => SumOf(d) = 0
  <2> HIDE DEF n, w
  <2> QED BY <1>1, TotalBounds
<1>4. ASSUME SumOf(d) = 0, NEW i \in 1 .. Len(d) PROVE d[i] = 0
  <2>1. PICK k \in 1 .. n : i = 2 * k - 1 \/ i = 2 * k
    <3>1. 2 * n >= Len(d) /\ Len(d) \in Nat
      BY Sizes
    <3>2. (i + 1) \div 2 \in 1 .. n /\ (i = 2 * ((i + 1) \div 2) - 1 \/ i = 2 * ((i + 1) \div 2))
      <4> HIDE DEF n
      <4> QED BY <1>1, <3>1
    <3> QED BY <3>2
  <2>2. w[k] = 0
    <3> HIDE DEF w, n
    <3> QED BY <1>1, <1>3, <1>4 DEF U16
  <2>3. Byte(d, 2 * k - 1) \in U8 /\ Byte(d, 2 * k) \in U8
    <3>1. 2 * k - 1 \in Nat \ {0} /\ 2 * k \in Nat \ {0}
      <4> HIDE DEF n
      <4> QED BY <1>1
    <3> QED BY <3>1, Sizes
  <2>4. Byte(d, 2 * k - 1) = 0 /\ Byte(d, 2 * k) = 0
    <3> HIDE DEF w, n
    <3> QED BY <1>2, <2>2, <2>3 DEF U8
  <2> QED BY <2>1, <2>4 DEF Byte
<1>5. ASSUME \A i \in 1 .. Len(d) : d[i] = 0 PROVE SumOf(d) = 0
  <2>1. ASSUME NEW k \in 1 .. n PROVE w[k] = 0
    <3>1. Byte(d, 2 * k - 1) = 0 /\ Byte(d, 2 * k) = 0
      <4>1. 2 * k - 1 \in Nat \ {0} /\ 2 * k \in Nat \ {0} /\ Len(d) \in Nat
        <5> HIDE DEF n
        <5> QED BY <1>1, Sizes
      <4> QED BY <1>5, <4>1 DEF Byte
    <3> HIDE DEF w
    <3> QED BY <1>2, <3>1
  <2> QED BY <1>3, <2>1
<1> QED BY <1>3, <1>4, <1>5

\* Two bytes at the front are one word more.
LEMMA SumOfFront ==
  ASSUME NEW d \in Data, NEW a \in U8, NEW b \in U8
  PROVE  /\ <<a, b>> \o d \in Data
         /\ Len(<<a, b>> \o d) = Len(d) + 2
         /\ Halves(<<a, b>> \o d) = Halves(d) + 1
         /\ SumOf(<<a, b>> \o d) = 256 * a + b + SumOf(d)
<1> DEFINE e == <<a, b>> \o d
<1>1. /\ e \in Data /\ Len(e) = Len(d) + 2 /\ e[1] = a /\ e[2] = b
      /\ \A i \in 1 .. Len(d) : e[i + 2] = d[i]
  BY DEF Data
<1> HIDE DEF e
<1>2. Len(d) \in Nat /\ Halves(d) \in Nat
  BY Sizes
<1>3. Halves(e) = Halves(d) + 1
  BY <1>1, <1>2 DEF Halves
<1>4. \A i \in Nat \ {0} : Byte(e, i + 2) = Byte(d, i)
  <2>1. ASSUME NEW i \in Nat \ {0}, i <= Len(d) PROVE Byte(e, i + 2) = Byte(d, i)
    BY <1>1, <1>2, <2>1 DEF Byte
  <2>2. ASSUME NEW i \in Nat \ {0}, ~(i <= Len(d)) PROVE Byte(e, i + 2) = Byte(d, i)
    BY <1>1, <1>2, <2>2 DEF Byte
  <2> QED BY <2>1, <2>2
<1>5. Byte(e, 1) = a /\ Byte(e, 2) = b
  BY <1>1, <1>2 DEF Byte
<1>6. WordOf(e)[1] = 256 * a + b
  <2>1. 1 \in 1 .. Halves(e)
    BY <1>2, <1>3
  <2>2. WordOf(e)[1] = 256 * Byte(e, 2 * 1 - 1) + Byte(e, 2 * 1)
    BY <1>1, <2>1, WordsOf
  <2> QED BY <1>5, <2>2
<1>7. ASSUME NEW k \in 1 .. Halves(d) PROVE WordOf(e)[k + 1] = WordOf(d)[k]
  <2>1. k + 1 \in 1 .. Halves(e)
    BY <1>2, <1>3
  <2>2. WordOf(e)[k + 1] = 256 * Byte(e, 2 * (k + 1) - 1) + Byte(e, 2 * (k + 1))
    BY <1>1, <2>1, WordsOf
  <2>3. WordOf(d)[k] = 256 * Byte(d, 2 * k - 1) + Byte(d, 2 * k)
    BY WordsOf
  <2>4. /\ 2 * k - 1 \in Nat \ {0} /\ 2 * k \in Nat \ {0}
        /\ 2 * (k + 1) - 1 = (2 * k - 1) + 2 /\ 2 * (k + 1) = 2 * k + 2
    BY <1>2
  <2> QED BY <1>4, <2>2, <2>3, <2>4
<1>8. Total(WordOf(e), Halves(d) + 1) = WordOf(e)[1] + Total(WordOf(d), Halves(d))
  <2>1. \A k \in 1 .. Halves(d) : WordOf(d)[k] \in Int
    BY WordsOf DEF U16
  <2>2. WordOf(e)[1] \in Int
    BY <1>6 DEF U8
  <2> QED BY <1>2, <1>7, <2>1, <2>2, Peel
<1>9. SumOf(e) = Total(WordOf(e), Halves(e)) /\ SumOf(d) = Total(WordOf(d), Halves(d))
  BY <1>1, WordsOf
<1>10. SumOf(e) = 256 * a + b + SumOf(d)
  BY <1>3, <1>6, <1>8, <1>9
<1> QED BY <1>1, <1>3, <1>10 DEF e

(*************************************************************************)
(* Arithmetic of the checksums                                            *)
(*************************************************************************)

\* x and y have the same sum of 16 bits, except that 0 and 65535 are not told apart.
Apart(x, y, q) == x = y + 65535 * q
Same(x, y) == \E q \in Int : Apart(x, y, q)

LEMMA SameSym ==
  ASSUME NEW x \in Int, NEW y \in Int, Same(x, y)
  PROVE  Same(y, x)
<1>1. PICK q \in Int : Apart(x, y, q)
  BY DEF Same
<1>2. Apart(y, x, 0 - q) /\ 0 - q \in Int
  BY <1>1 DEF Apart
<1> QED BY <1>2 DEF Same

LEMMA SameTrans ==
  ASSUME NEW x \in Int, NEW y \in Int, NEW z \in Int, Same(x, y), Same(y, z)
  PROVE  Same(x, z)
<1>1. PICK q1 \in Int : Apart(x, y, q1)
  BY DEF Same
<1>2. PICK q2 \in Int : Apart(y, z, q2)
  BY DEF Same
<1>3. Apart(x, z, q1 + q2) /\ q1 + q2 \in Int
  BY <1>1, <1>2 DEF Apart
<1> QED BY <1>3 DEF Same

LEMMA SamePlus ==
  ASSUME NEW x \in Int, NEW y \in Int, NEW z \in Int, Same(x, y)
  PROVE  Same(x + z, y + z)
<1>1. PICK q \in Int : Apart(x, y, q)
  BY DEF Same
<1>2. Apart(x + z, y + z, q)
  BY <1>1 DEF Apart
<1> QED BY <1>2 DEF Same

LEMMA Same256 ==
  ASSUME NEW x \in Int, NEW y \in Int, Same(x, y)
  PROVE  Same(256 * x, 256 * y)
<1>1. PICK q \in Int : Apart(x, y, q)
  BY DEF Same
<1>2. Apart(256 * x, 256 * y, 256 * q) /\ 256 * q \in Int
  BY <1>1 DEF Apart
<1> QED BY <1>2 DEF Same

LEMMA SameMinus ==
  ASSUME NEW x \in Int, NEW y \in Int, Same(x, y)
  PROVE  Same(65535 - x, 0 - y)
<1>1. PICK q \in Int : Apart(x, y, q)
  BY DEF Same
<1>2. Apart(65535 - x, 0 - y, 1 - q) /\ 1 - q \in Int
  BY <1>1 DEF Apart
<1> QED BY <1>2 DEF Same

\* Which numbers are sums of nothing.
LEMMA SameZero ==
  ASSUME NEW x \in Int
  PROVE  Same(x, 0) <=> x % 65535 = 0
<1>1. ASSUME Same(x, 0) PROVE x % 65535 = 0
  BY <1>1 DEF Same, Apart
<1>2. ASSUME x % 65535 = 0 PROVE Same(x, 0)
  <2>1. Apart(x, 0, x \div 65535) /\ x \div 65535 \in Int
    BY <1>2 DEF Apart
  <2> QED BY <2>1 DEF Same
<1> QED BY <1>1, <1>2

LEMMA SameTwice ==
  ASSUME NEW x \in Int
  PROVE  Same(2 * x, 0) <=> Same(x, 0)
<1>1. ASSUME Same(2 * x, 0) PROVE Same(x, 0)
  <2>1. PICK q \in Int : 2 * x = 65535 * q
    BY <1>1 DEF Same, Apart
  <2>2. q % 2 = 0
    BY <2>1
  <2>3. PICK p \in Int : q = 2 * p
    <3>1. q = 2 * (q \div 2) /\ q \div 2 \in Int
      BY <2>2
    <3> QED BY <3>1
  <2>4. Apart(x, 0, p)
    BY <2>1, <2>3 DEF Apart
  <2> QED BY <2>4 DEF Same
<1>2. ASSUME Same(x, 0) PROVE Same(2 * x, 0)
  <2>1. PICK q \in Int : Apart(x, 0, q)
    BY <1>2 DEF Same
  <2>2. Apart(2 * x, 0, 2 * q) /\ 2 * q \in Int
    BY <2>1 DEF Apart
  <2> QED BY <2>2 DEF Same
<1> QED BY <1>1, <1>2

LEMMA SameSmall ==
  ASSUME NEW x \in U16, NEW y \in U16, Same(x, y), x # y
  PROVE  (x = 0 /\ y = 65535) \/ (x = 65535 /\ y = 0)
<1>1. x \in Nat /\ x <= 65535 /\ y \in Nat /\ y <= 65535
  BY DEF U16
<1>2. PICK q \in Int : x = y + 65535 * q
  BY DEF Same, Apart
<1>3. q = 1 \/ q = 0 - 1
  BY <1>1, <1>2
<1> QED BY <1>1, <1>2, <1>3

\* What the accumulator, a __u32, can hold.
U32 == {x \in Nat : x \div 65536 <= 65535}

\* Adding the carries in keeps the sum, and only 0 becomes 0.
LEMMA FoldTwice ==
  ASSUME NEW x \in U32
  PROVE  /\ Fold(Fold(x)) \in U16
         /\ Same(x, Fold(Fold(x)))
         /\ Fold(Fold(x)) = 0 <=> x = 0
<1> DEFINE a == x \div 65536
           b == x % 65536
<1>1. a \in Nat /\ b \in Nat /\ x = 65536 * a + b /\ a < 65536 /\ b < 65536 /\ x \in Nat
  BY DEF U32
<1>2. Fold(x) = a + b
  BY DEF Fold
<1> DEFINE c == (a + b) \div 65536
           e == (a + b) % 65536
<1>3. Fold(a + b) = c + e
  BY DEF Fold
<1> HIDE DEF a, b
<1>4. c \in Nat /\ e \in Nat /\ a + b = 65536 * c + e /\ c < 2 /\ e < 65536
  BY <1>1
<1> HIDE DEF c, e
<1>5. c + e \in U16
  BY <1>1, <1>4 DEF U16
<1>6. Same(x, c + e)
  <2>1. Apart(x, c + e, a + c) /\ a + c \in Int
    BY <1>1, <1>4 DEF Apart
  <2> QED BY <2>1 DEF Same
<1>7. c + e = 0 <=> x = 0
  BY <1>1, <1>4
<1> QED BY <1>2, <1>3, <1>5, <1>6, <1>7

LEMMA Swapped ==
  ASSUME NEW w \in U16
  PROVE  /\ htons(w) \in U16 /\ Same(htons(w), 256 * w)
         /\ htons(w) = 65535 <=> w = 65535
         /\ htons(w) = 0 <=> w = 0
         /\ w % 256 \in U8 /\ w \div 256 \in U8
<1> DEFINE h == w \div 256
           l == w % 256
<1>1. h \in Nat /\ l \in Nat /\ w = 256 * h + l /\ h < 256 /\ l < 256
  BY DEF U16
<1>2. htons(w) = 256 * l + h
  BY DEF htons
<1> HIDE DEF h, l
<1>3. Same(256 * l + h, 256 * w)
  <2>1. Apart(256 * l + h, 256 * w, 0 - h) /\ 0 - h \in Int
    BY <1>1 DEF Apart
  <2> QED BY <2>1 DEF Same
<1>4. 256 * l + h \in U16 /\ l \in U8 /\ h \in U8
  BY <1>1 DEF U16, U8
<1>5. (256 * l + h = 65535 <=> w = 65535) /\ (256 * l + h = 0 <=> w = 0)
  BY <1>1
<1> QED BY <1>2, <1>3, <1>4, <1>5 DEF h, l

\* The sum of what fits into a __u16 fits into the accumulator.
LEMMA SumFits ==
  ASSUME NEW d \in Data, Len(d) <= 65535
  PROVE  SumOf(d) \in U32
<1>1. SumOf(d) \in Nat /\ SumOf(d) <= 65535 * Halves(d) /\ Halves(d) \in Nat /\ Halves(d) <= 65535
  BY Sizes, SumBounds
<1>2. \A x, h \in Nat : h <= 65535 /\ x <= 65535 * h => x \div 65536 <= 65535
  OBVIOUS
<1> QED BY <1>1, <1>2 DEF U32

\* The checksum of SIP_Chksum, and what it accepts.
LEMMA ChksumIs ==
  ASSUME NEW d \in Data, Len(d) <= 65535
  PROVE  /\ SIP_Chksum(d) \in U16
         /\ Same(SIP_Chksum(d), 0 - 256 * SumOf(d))
         /\ SIP_Chksum(d) = 0 <=> SumOf(d) # 0 /\ Same(SumOf(d), 0)
<1>1. PICK S \in U32 : S = SumOf(d)
  BY SumFits
<1>2. PICK y \in U16 : y = Fold(Fold(S)) /\ Same(S, y) /\ (y = 0 <=> S = 0)
  BY <1>1, FoldTwice
<1>3. PICK z \in U16 : z = htons(y) /\ Same(z, 256 * y) /\ (z = 65535 <=> y = 65535)
  BY <1>2, Swapped
<1>4. SIP_Chksum(d) = 65535 - z
  BY <1>1, <1>2, <1>3 DEF SIP_Chksum, Complement
<1>5. z \in Nat /\ z <= 65535 /\ y \in Nat /\ y <= 65535 /\ S \in Nat
  BY DEF U16, U32
<1>6. Same(65535 - z, 0 - 256 * S)
  <2>1. Same(y, S)
    BY <1>1, <1>2, <1>5, SameSym
  <2>2. Same(256 * y, 256 * S)
    BY <1>1, <1>5, <2>1, Same256
  <2>3. 256 * y \in Int /\ 256 * S \in Int /\ z \in Int
    BY <1>5
  <2>4. Same(z, 256 * S)
    BY <1>3, <2>2, <2>3, SameTrans
  <2> QED BY <2>3, <2>4, SameMinus
<1>7. 65535 - z \in U16
  BY <1>5 DEF U16
<1>8. 65535 - z = 0 <=> S # 0 /\ Same(S, 0)
  <2>1. 65535 - z = 0 <=> y = 65535
    BY <1>3, <1>5
  <2>2. ASSUME y = 65535 PROVE S # 0 /\ Same(S, 0)
    <3>1. Same(y, 0)
      <4>1. Apart(y, 0, 1)
        BY <2>2 DEF Apart
      <4> QED BY <4>1 DEF Same
    <3> QED BY <1>2, <1>5, <2>2, <3>1, SameTrans
  <2>3. ASSUME S # 0, Same(S, 0) PROVE y = 65535
    <3>1. Same(y, S)
      BY <1>2, <1>5, SameSym
    <3>2. Same(y, 0)
      BY <1>5, <2>3, <3>1, SameTrans
    <3>3. 0 \in U16 /\ y # 0
      BY <1>2, <2>3 DEF U16
    <3> QED BY <3>2, <3>3, SameSmall
  <2> QED BY <2>1, <2>2, <2>3
<1> QED BY <1>1, <1>4, <1>6, <1>7, <1>8

LEMMA SameSum ==
  ASSUME NEW x \in Int, NEW y \in Int, NEW z \in Int, NEW w \in Int, Same(x, y), Same(z, w)
  PROVE  Same(x + z, y + w)
<1>1. PICK q1 \in Int : Apart(x, y, q1)
  BY DEF Same
<1>2. PICK q2 \in Int : Apart(z, w, q2)
  BY DEF Same
<1>3. Apart(x + z, y + w, q1 + q2) /\ q1 + q2 \in Int
  BY <1>1, <1>2 DEF Apart
<1> QED BY <1>3 DEF Same

Swaps(u, v, n, x) == \A k \in 1 .. n : Same(v[k], 256 * u[k] + (IF k = n THEN x ELSE 0))

\* Words that are 256 times as much, the last one with x in addition, have such a total.
LEMMA Scaled ==
  ASSUME NEW n \in Nat \ {0}, NEW u, NEW v, NEW x \in Int,
         \A k \in 1 .. n : u[k] \in Int /\ v[k] \in Int,
         Swaps(u, v, n, x)
  PROVE  Same(Total(v, n), 256 * Total(u, n) + x)
<1>1. PICK f : Sums(f, u, n) /\ Total(u, n) = f[n]
  BY TotalIs
<1>2. PICK g : Sums(g, v, n) /\ Total(v, n) = g[n]
  BY TotalIs
<1> DEFINE last(k) == IF k = n THEN x ELSE 0
           P == {k \in 0 .. n : Same(g[k], 256 * f[k] + last(k))}
<1>3. 0 \in P
  <2>1. f[0] = 0 /\ g[0] = 0 /\ last(0) = 0
    BY <1>1, <1>2 DEF Sums
  <2>2. Apart(0, 256 * 0 + 0, 0)
    BY DEF Apart
  <2>3. Same(0, 256 * 0 + 0)
    BY <2>2 DEF Same
  <2> QED BY <2>1, <2>3
<1>4. ASSUME NEW k \in 1 .. n, k - 1 \in P PROVE k \in P
  <2>1. f[k] = f[k - 1] + u[k] /\ g[k] = g[k - 1] + v[k] /\ f[k - 1] \in Int /\ g[k - 1] \in Int
    BY <1>1, <1>2 DEF Sums
  <2>2. last(k - 1) = 0 /\ last(k) \in Int /\ u[k] \in Int /\ v[k] \in Int
    OBVIOUS
  <2>3. Same(v[k], 256 * u[k] + last(k))
    BY DEF Swaps
  <2> HIDE DEF last
  <2>4. Same(g[k - 1], 256 * f[k - 1] + last(k - 1))
    BY <1>4
  <2>5. PICK y \in Int : y = 256 * f[k - 1] + last(k - 1)
    BY <2>1, <2>2
  <2>6. PICK z \in Int : z = 256 * u[k] + last(k)
    BY <2>2
  <2>7. Same(g[k - 1] + v[k], y + z)
    <3>1. Same(g[k - 1], y) /\ Same(v[k], z)
      BY <2>3, <2>4, <2>5, <2>6
    <3>2. g[k - 1] \in Int /\ v[k] \in Int
      BY <2>1, <2>2
    <3> QED BY <3>1, <3>2, SameSum
  <2>8. y + z = 256 * f[k] + last(k)
    BY <2>1, <2>2, <2>5, <2>6
  <2> QED BY <2>1, <2>7, <2>8
<1>5. n \in P
  <2> HIDE DEF P
  <2> QED BY <1>3, <1>4, Climb
<1> QED BY <1>1, <1>2, <1>5

\* The last byte of an odd number of them.
StrayOf(d) == IF Len(d) % 2 = 1 THEN d[Len(d)] ELSE 0

\* The checksum of icmp_cksum: the bytes of each word changed places, but not those of an odd last one.
LEMMA CksumIs ==
  ASSUME NEW d \in Data, Len(d) <= 65535, Len(d) # 0
  PROVE  /\ icmp_cksum(d) \in U16
         /\ StrayOf(d) \in U8
         /\ Same(icmp_cksum(d), 0 - (256 * SumOf(d) + 255 * StrayOf(d)))
<1> DEFINE n == Halves(d)
           u == WordOf(d)
           v == LowWordOf(d)
           s == StrayOf(d)
<1>1. /\ n \in Nat \ {0} /\ n <= 65535 /\ Len(d) \in Nat
      /\ 2 * n = Len(d) \/ 2 * n = Len(d) + 1
      /\ 2 * n = Len(d) + 1 <=> Len(d) % 2 = 1
  BY Sizes
<1>2. s \in U8
  <2>1. Len(d) \in 1 .. Len(d)
    BY <1>1
  <2> QED BY <2>1, Sizes DEF StrayOf, U8
<1>3. \A k \in 1 .. n : u[k] \in Int
  BY WordsOf DEF U16
<1>4. ASSUME NEW k \in 1 .. n
      PROVE  v[k] \in U16 /\ Same(v[k], 256 * u[k] + (IF k = n THEN 255 * s ELSE 0))
  <2>1. u[k] = 256 * Byte(d, 2 * k - 1) + Byte(d, 2 * k)
    BY WordsOf
  <2>2. 2 * k - 1 \in 1 .. Len(d)
    <3> HIDE DEF n
    <3> QED BY <1>1
  <2>3. PICK h \in U8 : h = d[2 * k - 1]
    BY <2>2, Sizes
  <2>4. Byte(d, 2 * k - 1) = h
    BY <2>2, <2>3 DEF Byte
  <2>5. k \in Words(d)
    BY DEF Words
  <2>6. CASE Len(d) % 2 = 1 /\ k = n
    <3>1. 2 * k = Len(d) + 1 /\ 2 * k > Len(d) /\ ~(2 * k <= Len(d)) /\ 2 * k - 1 = Len(d)
      <4> HIDE DEF n
      <4> QED BY <1>1, <2>6
    <3>2. v[k] = 0 + 256 * h
      BY <2>3, <2>5, <2>6, <3>1 DEF LowWordOf
    <3>3. Byte(d, 2 * k) = 0
      BY <3>1 DEF Byte
    <3>4. s = h
      BY <2>3, <2>6, <3>1 DEF StrayOf
    <3>5. u[k] = 256 * h
      <4> HIDE DEF u
      <4> QED BY <2>1, <2>4, <3>3 DEF U8
    <3>6. Apart(256 * h, 256 * (256 * h) + 255 * h, 0 - h) /\ 0 - h \in Int
      BY DEF Apart, U8
    <3>7. Same(256 * h, 256 * (256 * h) + 255 * h)
      BY <3>6 DEF Same
    <3>8. v[k] = 256 * h /\ 256 * h \in U16
      <4> HIDE DEF v
      <4> QED BY <3>2 DEF U8, U16
    <3> HIDE DEF u, v, s, n
    <3> QED BY <2>6, <3>4, <3>5, <3>7, <3>8
  <2>7. CASE ~(Len(d) % 2 = 1 /\ k = n)
    <3>1. 2 * k \in 1 .. Len(d) /\ ~(2 * k > Len(d))
      <4> HIDE DEF n
      <4> QED BY <1>1, <2>7
    <3>2. PICK l \in U8 : l = d[2 * k]
      BY <3>1, Sizes
    <3>3. v[k] = h + 256 * l
      BY <2>3, <2>5, <3>1, <3>2 DEF LowWordOf
    <3>4. Byte(d, 2 * k) = l
      BY <3>1, <3>2 DEF Byte
    <3>5. u[k] = 256 * h + l
      <4> HIDE DEF u
      <4> QED BY <2>1, <2>4, <3>4
    <3>6. (IF k = n THEN 255 * s ELSE 0) = 0
      <4>1. k = n => s = 0
        BY <2>7 DEF StrayOf
      <4> HIDE DEF s, n
      <4> QED BY <4>1
    <3>7. Apart(h + 256 * l, 256 * (256 * h + l) + 0, 0 - h) /\ 0 - h \in Int
      BY DEF Apart, U8
    <3>8. Same(h + 256 * l, 256 * (256 * h + l) + 0)
      BY <3>7 DEF Same
    <3>9. h + 256 * l \in U16
      BY DEF U8, U16
    <3> HIDE DEF u, v, s, n
    <3> QED BY <3>3, <3>5, <3>6, <3>8, <3>9
  <2> QED BY <2>6, <2>7
<1>5. icmp_cksum(d) = 65535 - (Fold(Fold(Total(v, n))) % 65536)
  BY DEF icmp_cksum, LowWordOf, Complement
<1>6. SumOf(d) = Total(u, n) /\ SumOf(d) \in Nat
  BY WordsOf, SumBounds
<1> HIDE DEF n, u, v, s
<1>7. PICK T \in U32 : T = Total(v, n)
  <2>1. Total(v, n) \in Nat /\ Total(v, n) <= 65535 * n
    BY <1>1, <1>4, TotalBounds
  <2>2. \A x, h \in Nat : h <= 65535 /\ x <= 65535 * h => x \div 65536 <= 65535
    OBVIOUS
  <2> QED BY <1>1, <2>1, <2>2 DEF U32
<1>8. Same(T, 256 * SumOf(d) + 255 * s)
  <2>1. \A k \in 1 .. n : u[k] \in Int /\ v[k] \in Int
    BY <1>3, <1>4 DEF U16
  <2>2. PICK x \in Int : x = 255 * s
    BY <1>2 DEF U8
  <2>3. Swaps(u, v, n, x)
    BY <1>4, <2>2 DEF Swaps
  <2>4. Same(Total(v, n), 256 * Total(u, n) + x)
    BY <1>1, <2>1, <2>3, Scaled
  <2> QED BY <1>6, <1>7, <2>2, <2>4
<1>9. PICK y \in U16 : y = Fold(Fold(T)) /\ Same(T, y)
  BY FoldTwice
<1>10. y % 65536 = y /\ y \in Nat /\ y <= 65535
  BY DEF U16
<1>11. icmp_cksum(d) = 65535 - y
  BY <1>5, <1>7, <1>9, <1>10
<1>12. PICK w \in Int : w = 256 * SumOf(d) + 255 * s
  BY <1>2, <1>6 DEF U8
<1>13. Same(y, w)
  <2>1. T \in Int /\ y \in Int
    BY <1>10 DEF U32
  <2>2. Same(y, T)
    BY <1>9, <2>1, SameSym
  <2> QED BY <1>8, <1>12, <2>1, <2>2, SameTrans
<1>14. Same(65535 - y, 0 - w)
  BY <1>10, <1>13, SameMinus
<1>15. 65535 - y \in U16
  BY <1>10 DEF U16
<1> QED BY <1>2, <1>11, <1>12, <1>14, <1>15 DEF s

(*************************************************************************)
(* Messages                                                               *)
(*************************************************************************)

MessageOf(a, b, c, r) == <<a, b>> \o <<c % 256, c \div 256>> \o r

LEMMA MessageSum ==
  ASSUME NEW a \in U8, NEW b \in U8, NEW c \in U16, NEW r \in Data, Len(r) <= 65531
  PROVE  /\ MessageOf(a, b, c, r) \in Data
         /\ Len(MessageOf(a, b, c, r)) <= 65535 /\ Len(MessageOf(a, b, c, r)) # 0
         /\ SumOf(MessageOf(a, b, c, r)) = 256 * a + b + htons(c) + SumOf(r)
         /\ StrayOf(MessageOf(a, b, c, r)) = StrayOf(r)
<1> DEFINE l == c % 256
           h == c \div 256
           e == <<l, h>> \o r
           d == <<a, b>> \o e
<1>1. l \in U8 /\ h \in U8 /\ htons(c) = 256 * l + h
  BY Swapped DEF htons
<1>2. Len(r) \in Nat
  BY Sizes
<1>3. MessageOf(a, b, c, r) = d
  <2>1. <<a, b>> \in Seq(U8) /\ <<l, h>> \in Seq(U8) /\ r \in Seq(U8)
    BY <1>1 DEF Data
  <2> HIDE DEF l, h
  <2>2. (<<a, b>> \o <<l, h>>) \o r = <<a, b>> \o (<<l, h>> \o r)
    BY <2>1, ConcatAssociative
  <2> QED BY <2>2 DEF MessageOf, l, h
<1> HIDE DEF l, h
<1>4. e \in Data /\ Len(e) = Len(r) + 2 /\ SumOf(e) = 256 * l + h + SumOf(r)
  BY <1>1, SumOfFront
<1> HIDE DEF e
<1>5. d \in Data /\ Len(d) = Len(e) + 2 /\ SumOf(d) = 256 * a + b + SumOf(e)
  BY <1>4, SumOfFront
<1> HIDE DEF d
<1>6. Len(d) <= 65535 /\ Len(d) # 0
  BY <1>2, <1>4, <1>5
<1>7. SumOf(d) = 256 * a + b + htons(c) + SumOf(r)
  <2>1. SumOf(r) \in Nat
    BY SumBounds
  <2> QED BY <1>1, <1>4, <1>5, <2>1 DEF U8
<1>8. StrayOf(d) = StrayOf(r)
  <2>1. Len(d) = Len(r) + 4
    BY <1>2, <1>4, <1>5
  <2>2. Len(d) % 2 = Len(r) % 2
    BY <1>2, <2>1
  <2>3. ASSUME Len(r) % 2 = 1 PROVE d[Len(d)] = r[Len(r)]
    <3>1. Len(r) \in 1 .. Len(r)
      BY <1>2, <2>3
    <3>2. e[Len(r) + 2] = r[Len(r)]
      BY <1>1, <3>1 DEF Data, e
    <3>3. d[(Len(r) + 2) + 2] = e[Len(r) + 2]
      BY <1>2, <1>4 DEF Data, d
    <3> QED BY <1>2, <2>1, <3>2, <3>3
  <2> QED BY <2>2, <2>3 DEF StrayOf
<1> QED BY <1>3, <1>5, <1>6, <1>7, <1>8

\* The checksum of a request makes its sum what the stray byte leaves; over nothing but zeros it is 65527.
LEMMA RequestSum ==
  ASSUME NEW r \in Data, Len(r) <= 65531, NEW c, c = icmp_cksum(MessageOf(8, 0, 0, r))
  PROVE  /\ c \in U16 /\ StrayOf(r) \in U8
         /\ Same(2048 + htons(c) + SumOf(r), 255 * StrayOf(r))
         /\ SumOf(r) = 0 => c = 65527
<1> DEFINE d == MessageOf(8, 0, 0, r)
<1>1. d \in Data /\ Len(d) <= 65535 /\ Len(d) # 0 /\ SumOf(d) = 2048 + SumOf(r) /\ StrayOf(d) = StrayOf(r)
  <2>1. 8 \in U8 /\ 0 \in U8 /\ 0 \in U16 /\ htons(0) = 0
    BY DEF U8, U16, htons
  <2>2. SumOf(r) \in Nat
    BY SumBounds
  <2>3. /\ d \in Data /\ Len(d) <= 65535 /\ Len(d) # 0 /\ SumOf(d) = 256 * 8 + 0 + htons(0) + SumOf(r)
        /\ StrayOf(d) = StrayOf(r)
    <3> HIDE DEF d
    <3> QED BY <2>1, MessageSum DEF d
  <2> QED BY <2>1, <2>2, <2>3
<1> HIDE DEF d
<1>2. c \in U16 /\ StrayOf(r) \in U8 /\ Same(c, 0 - (256 * SumOf(d) + 255 * StrayOf(d)))
  BY <1>1, CksumIs DEF d
<1>3. PICK s \in U8, S \in Nat : s = StrayOf(r) /\ S = SumOf(r)
  BY <1>2, SumBounds
<1>4. PICK q \in Int : c = (0 - (256 * (2048 + S) + 255 * s)) + 65535 * q
  BY <1>1, <1>2, <1>3 DEF Same, Apart
<1>5. PICK p \in Int : Apart(htons(c), 256 * c, p)
  BY <1>2, Swapped DEF Same
<1>6. s \in Nat /\ s <= 255 /\ c \in Nat /\ c <= 65535
  BY <1>2 DEF U8, U16
<1>7. Same(2048 + htons(c) + S, 255 * s)
  <2>1. Apart(2048 + htons(c) + S, 255 * s, 256 * q + p - S - s - 2048)
    BY <1>4, <1>5, <1>6 DEF Apart
  <2>2. 256 * q + p - S - s - 2048 \in Int
    BY <1>6
  <2> QED BY <2>1, <2>2 DEF Same
<1>8. ASSUME S = 0 PROVE c = 65527
  <2>1. s = 0
    <3>1. \A i \in 1 .. Len(r) : r[i] = 0
      <4>1. SumOf(r) = 0
        BY <1>3, <1>8
      <4> QED BY <4>1, SumBounds
    <3>2. Len(r) \in Nat
      BY Sizes
    <3>3. Len(r) % 2 = 1 => Len(r) \in 1 .. Len(r)
      BY <3>2
    <3> QED BY <1>3, <3>1, <3>3 DEF StrayOf
  <2>2. c = 65535 * q - 256 * 2048
    BY <1>4, <1>8, <2>1
  <2>3. q = 9
    BY <1>6, <2>2
  <2> QED BY <2>2, <2>3
<1> QED BY <1>2, <1>3, <1>7, <1>8

\* The correction of icmp_echo makes up for the type, whose share of the sum is 2048.
LEMMA EchoSum ==
  ASSUME NEW c \in U16
  PROVE  /\ EchoCheck(c) \in U16
         /\ Same(htons(EchoCheck(c)), 2048 + htons(c))
         /\ EchoCheck(c) = 0 <=> c = 65527
<1>1. htons(65535 - 256 * ICMP_ECHO) = 65527 /\ htons(256 * ICMP_ECHO) = 8
  BY DEF htons, ICMP_ECHO
<1>2. c \in Nat /\ c <= 65535
  BY DEF U16
<1>3. PICK e \in U16 : e = EchoCheck(c) /\ (e = c + 8 \/ e = c + 8 - 65535) /\ (e = 0 <=> c = 65527)
  <2>1. CASE c >= 65527
    <3>1. EchoCheck(c) = (c + 8 + 1) % 65536
      BY <1>1, <2>1 DEF EchoCheck
    <3>2. (c + 8 + 1) % 65536 = c + 8 - 65535
      BY <1>2, <2>1
    <3>3. c + 8 - 65535 \in U16 /\ (c + 8 - 65535 = 0 <=> c = 65527)
      BY <1>2, <2>1 DEF U16
    <3> QED BY <3>1, <3>2, <3>3
  <2>2. CASE ~(c >= 65527)
    <3>1. EchoCheck(c) = (c + 8) % 65536
      BY <1>1, <2>2 DEF EchoCheck
    <3>2. (c + 8) % 65536 = c + 8
      BY <1>2, <2>2
    <3>3. c + 8 \in U16 /\ c + 8 # 0 /\ c # 65527
      BY <1>2, <2>2 DEF U16
    <3> QED BY <3>1, <3>2, <3>3
  <2> QED BY <2>1, <2>2
<1>4. PICK p \in Int : Apart(htons(c), 256 * c, p)
  BY Swapped DEF Same
<1>5. PICK q \in Int : Apart(htons(e), 256 * e, q)
  BY Swapped DEF Same
<1>6. Same(htons(e), 2048 + htons(c))
  <2>1. CASE e = c + 8
    <3>1. Apart(htons(e), 2048 + htons(c), q - p) /\ q - p \in Int
      BY <1>2, <1>4, <1>5, <2>1 DEF Apart
    <3> QED BY <3>1 DEF Same
  <2>2. CASE e = c + 8 - 65535
    <3>1. Apart(htons(e), 2048 + htons(c), q - p - 256) /\ q - p - 256 \in Int
      BY <1>2, <1>4, <1>5, <2>2 DEF Apart
    <3> QED BY <3>1 DEF Same
  <2> QED BY <1>3, <2>1, <2>2
<1> QED BY <1>3, <1>6

\* A header's checksum completes its sum.
LEMMA HeaderSum ==
  ASSUME NEW a \in U8, NEW b \in U8, NEW r \in Data, Len(r) <= 65531,
         NEW c, c = SIP_Chksum(MessageOf(a, b, 0, r))
  PROVE  c \in U16 /\ Same(256 * a + b + htons(c) + SumOf(r), 0)
<1> DEFINE d == MessageOf(a, b, 0, r)
<1>1. PICK S \in Nat : d \in Data /\ Len(d) <= 65535 /\ SumOf(d) = S /\ S = 256 * a + b + SumOf(r)
  <2>1. 0 \in U16 /\ htons(0) = 0
    BY DEF U16, htons
  <2>2. SumOf(r) \in Nat
    BY SumBounds
  <2>3. d \in Data /\ Len(d) <= 65535 /\ SumOf(d) = 256 * a + b + htons(0) + SumOf(r)
    <3> HIDE DEF d
    <3> QED BY <2>1, MessageSum DEF d
  <2>4. 256 * a + b + SumOf(r) \in Nat /\ SumOf(d) = 256 * a + b + SumOf(r)
    BY <2>1, <2>2, <2>3 DEF U8
  <2> QED BY <2>3, <2>4
<1> HIDE DEF d
<1>2. c \in U16 /\ Same(c, 0 - 256 * S)
  BY <1>1, ChksumIs DEF d
<1>3. PICK q \in Int : Apart(c, 0 - 256 * S, q)
  BY <1>2 DEF Same
<1>4. PICK p \in Int : Apart(htons(c), 256 * c, p)
  BY <1>2, Swapped DEF Same
<1>5. Apart(S + htons(c), 0, 256 * q + p - S) /\ 256 * q + p - S \in Int
  BY <1>3, <1>4 DEF Apart
<1>6. S + htons(c) = 256 * a + b + htons(c) + SumOf(r)
  <2>1. SumOf(r) \in Nat
    BY SumBounds
  <2>2. htons(c) \in Int
    BY <1>2, Swapped DEF U16
  <2> QED BY <1>1, <2>1, <2>2 DEF U8
<1> QED BY <1>2, <1>5, <1>6 DEF Same

\* With its checksum and the pseudo header a datagram sums to twice what its bytes do.
LEMMA DatagramSum ==
  ASSUME NEW a \in U8, NEW b \in U8, NEW r \in Data, Len(r) <= 65531,
         NEW k, k = SIP_ChksumPseudo(MessageOf(a, b, 0, r)), NEW c, c = IF k = 0 THEN 65535 ELSE k
  PROVE  /\ c \in U16
         /\ Same(256 * a + b + htons(c) + SumOf(r) + 256 * PseudoSum, 2 * (256 * a + b + SumOf(r)))
<1> DEFINE d == MessageOf(a, b, 0, r)
<1>1. PICK S \in Nat : d \in Data /\ Len(d) <= 65535 /\ SumOf(d) = S /\ S = 256 * a + b + SumOf(r)
  <2>1. 0 \in U16 /\ htons(0) = 0
    BY DEF U16, htons
  <2>2. SumOf(r) \in Nat
    BY SumBounds
  <2>3. d \in Data /\ Len(d) <= 65535 /\ SumOf(d) = 256 * a + b + htons(0) + SumOf(r)
    <3> HIDE DEF d
    <3> QED BY <2>1, MessageSum DEF d
  <2>4. 256 * a + b + SumOf(r) \in Nat /\ SumOf(d) = 256 * a + b + SumOf(r)
    BY <2>1, <2>2, <2>3 DEF U8
  <2> QED BY <2>3, <2>4
<1> HIDE DEF d
<1>2. PseudoSum \in Nat /\ PseudoSum <= 6 * 65535
  BY ChecksumConstants
<1>3. PICK m \in U16 : m = SIP_Chksum(d) /\ Same(m, 0 - 256 * S)
  BY <1>1, ChksumIs
<1>4. m + PseudoSum \in U32
  BY <1>2 DEF U16, U32
<1>5. PICK y \in U16 : y = Fold(Fold(m + PseudoSum)) /\ Same(m + PseudoSum, y)
  BY <1>4, FoldTwice
<1>6. k = 65535 - y
  BY <1>3, <1>5 DEF SIP_ChksumPseudo, Complement, d
<1>7. y \in Nat /\ y <= 65535 /\ m \in Nat
  BY DEF U16
<1>8. c \in U16
  BY <1>6, <1>7 DEF U16
<1>9. PICK o \in Int : Apart(c, 65535 - y, o)
  <2>1. CASE k = 0
    <3>1. Apart(c, 65535 - y, 1)
      BY <1>6, <1>7, <2>1 DEF Apart
    <3> QED BY <3>1
  <2>2. CASE k # 0
    <3>1. Apart(c, 65535 - y, 0)
      BY <1>6, <1>7, <2>2 DEF Apart
    <3> QED BY <3>1
  <2> QED BY <2>1, <2>2
<1>10. PICK q \in Int : Apart(m, 0 - 256 * S, q)
  BY <1>3 DEF Same
<1>11. PICK t \in Int : Apart(m + PseudoSum, y, t)
  BY <1>5 DEF Same
<1>12. PICK p \in Int : Apart(htons(c), 256 * c, p)
  BY <1>8, Swapped DEF Same
<1>13. PICK z \in Int : z = 256 * (1 + o + t - q) + p + S
  OBVIOUS
<1>14. Apart(S + htons(c) + 256 * PseudoSum, 2 * S, z)
  BY <1>2, <1>7, <1>9, <1>10, <1>11, <1>12, <1>13 DEF Apart
<1>15. S + htons(c) + 256 * PseudoSum = 256 * a + b + htons(c) + SumOf(r) + 256 * PseudoSum
  <2>1. SumOf(r) \in Nat
    BY SumBounds
  <2>2. htons(c) \in Int
    <3>1. htons(c) \in U16
      BY <1>8, Swapped
    <3> QED BY <3>1 DEF U16
  <2> QED BY <1>1, <1>2, <2>1, <2>2 DEF U8
<1> QED BY <1>1, <1>8, <1>14, <1>15 DEF Same

(*************************************************************************)
(* The way of a message                                                   *)
(*************************************************************************)

Whole == 256 * first[1] + first[2] + htons(check) + SumOf(rest)

SumType == /\ first = <<first[1], first[2]>> /\ first[1] \in U8 /\ first[2] \in U8
           /\ rest \in Data /\ Len(rest) <= 65531 /\ check \in U16
           /\ stage \in {"made", "header", "request", "reply", "datagram"}

(* What the sum of the message is, checksum included, after each of the steps.  A reply of nothing but zeros sums *)
(* to 0, which no receiver accepts.                                                                               *)
SumInv ==
    /\ SumType
    /\ stage = "made" => check = 0
    /\ stage = "header" => first[1] # 0 /\ Same(Whole, 0)
    /\ stage = "request" => /\ first = <<8, 0>> /\ Same(Whole, 255 * StrayOf(rest))
                            /\ SumOf(rest) = 0 => check = 65527
    /\ stage = "reply" => /\ first = <<0, 0>> /\ Same(Whole, 255 * StrayOf(rest))
                          /\ SumOf(rest) = 0 => check = 0
    /\ stage = "datagram" => Same(Whole + 256 * PseudoSum, 2 * SumOf(first \o rest))

LEMMA BytesFit ==
  ASSUME NEW b \in Bytes
  PROVE  b \in U8
  BY ChecksumConstants DEF U8

LEMMA SumInitInv == SumInit => SumInv
<1> SUFFICES ASSUME SumInit PROVE SumInv
  OBVIOUS
<1>1. first = <<first[1], first[2]>> /\ first[1] \in U8 /\ first[2] \in U8
  <2>1. CASE first = <<ICMP_ECHO, 0>>
    BY <2>1 DEF ICMP_ECHO, U8
  <2>2. CASE first \in [1 .. 2 -> Bytes]
    <3>1. first[1] \in Bytes /\ first[2] \in Bytes
      BY <2>2
    <3>2. first = <<first[1], first[2]>>
      BY <2>2
    <3> QED BY <3>1, <3>2, BytesFit
  <2> QED BY <2>1, <2>2 DEF SumInit
<1>2. rest \in Data /\ Len(rest) <= 65531
  <2>1. PICK n \in 0 .. MaxRest : rest \in [1 .. n -> Bytes]
    BY DEF SumInit
  <2>2. n \in Nat /\ n <= 65531
    BY <2>1, ChecksumConstants
  <2>3. rest \in [1 .. n -> U8]
    BY <2>1, BytesFit
  <2>4. rest \in Seq(U8)
    BY <2>2, <2>3
  <2>5. Len(rest) = n
    BY <2>2, <2>3, <2>4
  <2> QED BY <2>2, <2>4, <2>5 DEF Data
<1>3. check = 0 /\ stage = "made"
  BY DEF SumInit
<1>4. check \in U16
  BY <1>3 DEF U16
<1> QED BY <1>1, <1>2, <1>3, <1>4 DEF SumInv, SumType

\* Whole is the sum of the message.
LEMMA WholeIs ==
  ASSUME SumType
  PROVE  /\ Message \in Data /\ Len(Message) <= 65535 /\ SumOf(Message) = Whole
         /\ SumOf(first \o rest) = 256 * first[1] + first[2] + SumOf(rest)
         /\ Message = MessageOf(first[1], first[2], check, rest)
         /\ Whole \in Nat /\ SumOf(rest) \in Nat /\ htons(check) \in Nat /\ first[1] \in Nat /\ first[2] \in Nat
<1>1. first = <<first[1], first[2]>> /\ first[1] \in U8 /\ first[2] \in U8
  BY DEF SumType
<1>2. rest \in Data /\ Len(rest) <= 65531 /\ check \in U16
  BY DEF SumType
<1>3. PICK a \in U8, b \in U8 : a = first[1] /\ b = first[2]
  BY <1>1
<1>4. first = <<a, b>>
  BY <1>1, <1>3
<1>5. Message = MessageOf(a, b, check, rest)
  BY <1>4 DEF Message, MessageOf
<1>6. /\ Message \in Data /\ Len(Message) <= 65535
      /\ SumOf(Message) = 256 * a + b + htons(check) + SumOf(rest)
  BY <1>2, <1>5, MessageSum
<1>7. SumOf(first \o rest) = 256 * a + b + SumOf(rest)
  BY <1>2, <1>4, SumOfFront
<1>8. SumOf(rest) \in Nat
  BY <1>2, SumBounds
<1>9. htons(check) \in Nat
  <2>1. htons(check) \in U16
    BY <1>2, Swapped
  <2> QED BY <2>1 DEF U16
<1>10. a \in Nat /\ b \in Nat
  BY DEF U8
<1>11. Whole = 256 * a + b + htons(check) + SumOf(rest)
  BY <1>3 DEF Whole
<1>12. 256 * a + b + htons(check) + SumOf(rest) \in Nat
  BY <1>8, <1>9, <1>10
<1> QED BY <1>3, <1>5, <1>6, <1>7, <1>8, <1>9, <1>10, <1>11, <1>12

\* Only the checksum and the stage change.
LEMMA StepType ==
  ASSUME SumType, check' \in U16, first' = first, rest' = rest,
         stage' \in {"made", "header", "request", "reply", "datagram"}
  PROVE  SumType'
  BY DEF SumType

LEMMA SumStepInv == SumInv /\ [SumNext]_sumVars => SumInv'
<1> SUFFICES ASSUME SumInv, [SumNext]_sumVars PROVE SumInv'
  OBVIOUS
<1>0. SumType /\ rest \in Data /\ Len(rest) <= 65531 /\ check \in U16 /\ first = <<first[1], first[2]>>
  BY DEF SumInv, SumType
<1>1. CASE icmp_pack
  <2>1. first = <<8, 0>> /\ check = 0 /\ first' = first /\ rest' = rest /\ stage' = "request"
    BY <1>1 DEF icmp_pack, SumInv, ICMP_ECHO
  <2>2. check' = icmp_cksum(MessageOf(8, 0, 0, rest))
    <3>1. Message = MessageOf(8, 0, 0, rest)
      BY <2>1 DEF Message, MessageOf
    <3> QED BY <1>1, <3>1 DEF icmp_pack
  <2>3. /\ check' \in U16 /\ Same(2048 + htons(check') + SumOf(rest), 255 * StrayOf(rest))
        /\ SumOf(rest) = 0 => check' = 65527
    BY <1>0, <2>2, RequestSum
  <2>4. Whole' = 2048 + htons(check') + SumOf(rest)
    <3>1. Whole' = 256 * 8 + 0 + htons(check') + SumOf(rest)
      BY <2>1 DEF Whole
    <3>2. htons(check') \in U16
      BY <2>3, Swapped
    <3>3. SumOf(rest) \in Nat
      BY <1>0, SumBounds
    <3> QED BY <3>1, <3>2, <3>3 DEF U16
  <2>5. SumType'
    BY <1>0, <2>1, <2>3, StepType
  <2> QED BY <2>1, <2>3, <2>4, <2>5 DEF SumInv
<1>2. CASE icmp_echo
  <2>1. /\ stage = "request" /\ first = <<8, 0>> /\ Same(Whole, 255 * StrayOf(rest))
        /\ SumOf(rest) = 0 => check = 65527
    BY <1>2 DEF icmp_echo, SumInv
  <2>2. first' = <<0, 0>> /\ check' = EchoCheck(check) /\ stage' = "reply" /\ rest' = rest
    BY <1>2 DEF icmp_echo, ICMP_ECHOREPLY
  <2>3. check' \in U16 /\ Same(htons(check'), 2048 + htons(check)) /\ (check' = 0 <=> check = 65527)
    BY <1>0, <2>2, EchoSum
  <2>4. SumType'
    <3>1. 0 \in U8
      BY DEF U8
    <3> QED BY <1>0, <2>2, <2>3, <3>1 DEF SumType
  <2>5. Same(Whole', 255 * StrayOf(rest))
    <3>1. PICK h \in Nat, k \in Nat, S \in Nat : h = htons(check) /\ k = htons(check') /\ S = SumOf(rest)
      <4>1. htons(check) \in U16 /\ htons(check') \in U16
        BY <1>0, <2>3, Swapped
      <4>2. SumOf(rest) \in Nat
        BY <1>0, SumBounds
      <4> QED BY <4>1, <4>2 DEF U16
    <3>2. Whole = 2048 + h + S
      BY <2>1, <3>1 DEF Whole
    <3>3. Whole' = k + S
      <4>1. Whole' = 256 * 0 + 0 + htons(check') + SumOf(rest)
        BY <2>2 DEF Whole
      <4> QED BY <3>1, <4>1
    <3>4. PICK g \in Int : g = 2048 + h
      OBVIOUS
    <3>5. Same(k + S, g + S)
      <4>1. Same(k, g)
        BY <2>3, <3>1, <3>4
      <4>2. k \in Int /\ g \in Int /\ S \in Int
        OBVIOUS
      <4> QED BY <4>1, <4>2, SamePlus
    <3>6. PICK t \in Int : t = 255 * StrayOf(rest)
      <4>1. StrayOf(rest) \in U8
        <5>1. Len(rest) \in Nat
          BY <1>0, Sizes
        <5>2. Len(rest) % 2 = 1 => Len(rest) \in 1 .. Len(rest)
          BY <5>1
        <5>3. 0 \in U8
          BY DEF U8
        <5> QED BY <1>0, <5>2, <5>3, Sizes DEF StrayOf
      <4> QED BY <4>1 DEF U8
    <3>7. Same(g + S, t)
      BY <2>1, <3>2, <3>4, <3>6
    <3>8. Same(k + S, t)
      BY <3>5, <3>7, SameTrans
    <3> QED BY <3>3, <3>6, <3>8
  <2> QED BY <2>1, <2>2, <2>3, <2>4, <2>5 DEF SumInv
<1>3. CASE IpHeader
  <2>1. /\ check = 0 /\ first' = first /\ rest' = rest /\ stage' = "header" /\ first[1] # 0
        /\ check' = SIP_Chksum(Message)
    BY <1>3 DEF IpHeader, SumInv
  <2>2. Message = MessageOf(first[1], first[2], 0, rest)
    BY <1>0, <2>1, WholeIs
  <2>3. PICK a \in U8, b \in U8 : a = first[1] /\ b = first[2]
    BY <1>0 DEF SumType
  <2>4. check' \in U16 /\ Same(256 * a + b + htons(check') + SumOf(rest), 0)
    BY <1>0, <2>1, <2>2, <2>3, HeaderSum
  <2>5. Whole' = 256 * a + b + htons(check') + SumOf(rest)
    BY <2>1, <2>3 DEF Whole
  <2>6. SumType'
    BY <1>0, <2>1, <2>4, StepType
  <2> QED BY <2>1, <2>4, <2>5, <2>6 DEF SumInv
<1>4. CASE UdpSend
  <2>1. check = 0 /\ first' = first /\ rest' = rest /\ stage' = "datagram"
    BY <1>4 DEF UdpSend, SumInv
  <2>2. PICK k : /\ k = SIP_ChksumPseudo(Message)
                 /\ check' = IF k = 0 THEN 65535 ELSE k
    BY <1>4 DEF UdpSend
  <2>3. Message = MessageOf(first[1], first[2], 0, rest)
    BY <1>0, <2>1, WholeIs
  <2>4. PICK a \in U8, b \in U8 : a = first[1] /\ b = first[2]
    BY <1>0 DEF SumType
  <2>5. /\ check' \in U16
        /\ Same(256 * a + b + htons(check') + SumOf(rest) + 256 * PseudoSum, 2 * (256 * a + b + SumOf(rest)))
    <3>1. k = SIP_ChksumPseudo(MessageOf(a, b, 0, rest))
      BY <2>2, <2>3, <2>4
    <3> QED BY <1>0, <2>2, <3>1, DatagramSum
  <2>6. Whole' = 256 * a + b + htons(check') + SumOf(rest)
    BY <2>1, <2>4 DEF Whole
  <2>7. SumOf(first' \o rest') = 256 * a + b + SumOf(rest)
    BY <1>0, <2>1, <2>4, WholeIs
  <2>8. SumType'
    BY <1>0, <2>1, <2>5, StepType
  <2> QED BY <2>1, <2>5, <2>6, <2>7, <2>8 DEF SumInv
<1>5. CASE UNCHANGED sumVars
  BY <1>5 DEF sumVars, SumInv, SumType, Whole
<1> QED BY <1>1, <1>2, <1>3, <1>4, <1>5 DEF SumNext

\* Of what sums to the stray byte, only the messages without one are accepted, and nothing but zeros is not.
LEMMA Accepted ==
  ASSUME SumType
  PROVE  /\ SIP_Chksum(Message) = 0 <=> Whole # 0 /\ Same(Whole, 0)
         /\ StrayOf(rest) = 0 <=> (Odd => rest[Len(rest)] = 0)
         /\ Rest0 <=> SumOf(rest) = 0
         /\ Same(Whole, 255 * StrayOf(rest)) => (Same(Whole, 0) <=> StrayOf(rest) = 0)
<1>1. SIP_Chksum(Message) = 0 <=> Whole # 0 /\ Same(Whole, 0)
  BY WholeIs, ChksumIs
<1>2. StrayOf(rest) = 0 <=> (Odd => rest[Len(rest)] = 0)
  BY DEF StrayOf, Odd
<1>3. Rest0 <=> SumOf(rest) = 0
  BY SumBounds DEF Rest0, SumType
<1>4. ASSUME Same(Whole, 255 * StrayOf(rest)) PROVE Same(Whole, 0) <=> StrayOf(rest) = 0
  <2>1. PICK s \in U8 : s = StrayOf(rest)
    <3>1. rest \in Data
      BY DEF SumType
    <3>2. Len(rest) \in Nat
      BY <3>1, Sizes
    <3>3. Len(rest) % 2 = 1 => Len(rest) \in 1 .. Len(rest)
      BY <3>2
    <3>4. 0 \in U8
      BY DEF U8
    <3> QED BY <3>1, <3>3, <3>4, Sizes DEF StrayOf
  <2>2. PICK w \in Int : w = Whole
    BY WholeIs
  <2>3. PICK t \in U16 : t = 255 * s /\ t # 65535 /\ (t = 0 <=> s = 0)
    BY DEF U8, U16
  <2>4. t \in Int /\ 0 \in U16
    BY DEF U16
  <2>5. Same(w, t)
    BY <1>4, <2>1, <2>2, <2>3
  <2>6. ASSUME Same(w, 0) PROVE t = 0
    <3>1. Same(t, w)
      BY <2>4, <2>5, SameSym
    <3>2. Same(t, 0)
      BY <2>4, <2>6, <3>1, SameTrans
    <3> QED BY <2>3, <2>4, <3>2, SameSmall
  <2>7. ASSUME t = 0 PROVE Same(w, 0)
    BY <2>5, <2>7
  <2> QED BY <2>1, <2>2, <2>3, <2>6, <2>7
<1> QED BY <1>1, <1>2, <1>3, <1>4

LEMMA SumInvAccepted == SumInv => AcceptedAsKnown
<1> SUFFICES ASSUME SumInv PROVE AcceptedAsKnown
  OBVIOUS
<1>0. SumType
  BY DEF SumInv
<1>1. /\ SIP_Chksum(Message) = 0 <=> Whole # 0 /\ Same(Whole, 0)
      /\ StrayOf(rest) = 0 <=> (Odd => rest[Len(rest)] = 0)
      /\ Rest0 <=> SumOf(rest) = 0
      /\ Same(Whole, 255 * StrayOf(rest)) => (Same(Whole, 0) <=> StrayOf(rest) = 0)
  BY <1>0, Accepted
<1>2. /\ SumOf(Message) = Whole /\ Whole \in Nat /\ SumOf(rest) \in Nat /\ htons(check) \in Nat
      /\ first[1] \in Nat /\ first[2] \in Nat
      /\ SumOf(first \o rest) = 256 * first[1] + first[2] + SumOf(rest)
  BY <1>0, WholeIs
<1>3. CASE stage = "header"
  <2>1. Same(Whole, 0) /\ first[1] # 0
    BY <1>3 DEF SumInv
  <2>2. Whole # 0
    <3>1. PICK a \in Nat, b \in Nat, h \in Nat, S \in Nat :
             a = first[1] /\ b = first[2] /\ h = htons(check) /\ S = SumOf(rest)
      BY <1>2
    <3>2. Whole = 256 * a + b + h + S
      BY <3>1 DEF Whole
    <3>3. a # 0
      BY <2>1, <3>1
    <3> QED BY <3>2, <3>3
  <2> QED BY <1>1, <1>3, <2>1, <2>2 DEF Receives, AcceptedAsKnown
<1>4. CASE stage = "request"
  <2>1. first = <<8, 0>> /\ Same(Whole, 255 * StrayOf(rest))
    BY <1>4 DEF SumInv
  <2>2. Whole # 0
    BY <1>2, <2>1 DEF Whole
  <2> QED BY <1>1, <1>4, <2>1, <2>2 DEF Receives, AcceptedAsKnown
<1>5. CASE stage = "reply"
  <2>1. first = <<0, 0>> /\ Same(Whole, 255 * StrayOf(rest)) /\ (SumOf(rest) = 0 => check = 0)
    BY <1>5 DEF SumInv
  <2>2. Whole = htons(check) + SumOf(rest)
    BY <1>2, <2>1 DEF Whole
  <2>3. check = 0 => htons(check) = 0
    BY DEF htons
  <2>4. Whole = 0 <=> SumOf(rest) = 0
    BY <1>2, <2>1, <2>2, <2>3
  <2> QED BY <1>1, <1>5, <2>1, <2>4 DEF Receives, AcceptedAsKnown
<1>6. CASE stage = "datagram"
  <2>1. Same(Whole + 256 * PseudoSum, 2 * SumOf(first \o rest))
    BY <1>6 DEF SumInv
  <2>2. PICK x \in Int, y \in Int : x = Whole + 256 * PseudoSum /\ y = SumOf(first \o rest)
    BY <1>2, ChecksumConstants
  <2>3. Same(x, 2 * y) /\ 2 * y \in Int
    BY <2>1, <2>2
  <2>4. Same(x, 0) <=> Same(2 * y, 0)
    BY <2>3, SameSym, SameTrans
  <2>5. x % 65535 = 0 <=> y % 65535 = 0
    BY <2>4, SameZero, SameTwice
  <2> QED BY <1>2, <1>6, <2>2, <2>5 DEF Receives, AcceptedAsKnown
<1>7. CASE stage = "made"
  BY <1>7 DEF AcceptedAsKnown
<1> QED BY <1>0, <1>3, <1>4, <1>5, <1>6, <1>7 DEF SumType

(* Messages of every length a __u16 can hold, of any bytes: which of them a receiver accepts who sums them up with *)
(* the checksums of ip_output, ping, icmp_echo and SIP_UDPSendTo.                                                  *)
THEOREM AcceptedIsKnown == SumSpec => []AcceptedAsKnown
<1>1. SumSpec => []SumInv
  BY SumInitInv, SumStepInv, PTL DEF SumSpec
<1> QED BY <1>1, SumInvAccepted, PTL
=============================================================================
