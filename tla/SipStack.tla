------------------------------ MODULE SipStack ------------------------------
(***************************************************************************)
(* The user-space TCP/IP stack of LinuxCodeBak/Code/19 as its main runs    *)
(* it: one thread reads a frame, hands it up through ARP, IP, ICMP and UDP *)
(* and reads the next.  The model has what a frame leaves behind: the ARP  *)
(* table, memory, the list of reassemblies and the frames that go out.     *)
(*                                                                         *)
(* Addresses are model values, texts, checksums and most header fields are *)
(* left out.  No application runs in this program, so no UDP port is bound *)
(* (module SipSockets has the API).                                        *)
(***************************************************************************)
EXTENDS Integers, FiniteSets

CONSTANTS Hosts, Macs,  \* the other hosts' addresses
          Own, OwnMac,  \* ip_host and hwaddr
          Bcast,        \* an address for which IP_IS_BROADCAST says 1
          TableSize,    \* ARP_TABLE_SIZE (10 in the code)
          Memory        \* bound: buffers that malloc has

ASSUME SipAssumption ==
    /\ TableSize \in Nat \ {0} /\ Memory \in Nat
    /\ Own \notin Hosts /\ Bcast \notin Hosts \cup {Own} /\ OwnMac \notin Macs
    /\ "none" \notin Hosts \cup {Own, Bcast}

VARIABLES
    table, \* arp_table: an entry, or Empty
    live,  \* buffers allocated and not freed between two frames
    reass, \* ip_reass_list is not NULL
    run,   \* "running", "stopped", "crashed", or "overrun": memcpy of a negative size
    out,   \* the kinds of frames that the last step has sent
    upper  \* history: datagrams that ICMP, UDP or nobody has taken; not those of an ICMP type above 18

stackVars == <<table, live, reass, run, out, upper>>

Ips == Hosts \cup {Own, Bcast}
AllMacs == Macs \cup {OwnMac}
Empty == [ip |-> "none", mac |-> "none"]
ArpEntries == [ip : Ips, mac : AllMacs]
ArpSlots == 1..TableSize

IPHDR_LEN == 20
ETH_HLEN == 14

\* sip_init_ethnet sets each field of the device but mtu, which memset leaves 0.
mtu == 0

\* The headers that may come.  len: malformed; tot_len beyond the header, as long as one of 20 octets, or of
\* 60 with options; "fits": offset + len, which sip_reassemble takes from octets in the wrong order, is 20.
Headers ==
    [len : {"bad", "data", "bare", "options"}, frag : {"whole", "more", "last", "fits"},
     proto : {"echo", "icmp", "beyond", "udp", "other"}]

tot_len(h) == IF h.len = "options" THEN 60 ELSE IPHDR_LEN

StackInit ==
    /\ table = [i \in ArpSlots |-> Empty]
    /\ live = 0 /\ reass = FALSE /\ run = "running" /\ out = {} /\ upper = 0

(*************************************************************************)
(* sip_arp.c.  ctime > time(NULL) + 20 is never true: no entry expires.   *)
(*************************************************************************)

IsLeast(i, S) == i \in S /\ \A j \in S : i <= j

\* The entries for ip, of which arp_find_entry returns the first.
Holding(t, ip) == {i \in ArpSlots : t[i] # Empty /\ t[i].ip = ip}

\* Writes the entry of another address when none is free (mutant: i is not checked after the loop).
Put_Anyhow(t, S, e) == [i \in ArpSlots |-> IF IsLeast(i, S) \/ (S = {} /\ i = TableSize) THEN e ELSE t[i]]

\* e is written to the first entry of S.
Put(t, S, e) == [i \in ArpSlots |-> IF IsLeast(i, S) THEN e ELSE t[i]]

Updated(t, ip, mac) == Put(t, Holding(t, ip), [ip |-> ip, mac |-> mac])

Added(t, ip, mac) ==
    IF Holding(t, ip) # {} THEN Updated(t, ip, mac)
    ELSE Put(t, {i \in ArpSlots : t[i] = Empty}, [ip |-> ip, mac |-> mac])

\* arp_create needs a buffer while that of the frame is still held; lowoutput frees it.
ArpSend(type) == IF live + 1 < Memory THEN {type} ELSE {}

\* An ARP frame for this host: its own address is corrected, a request answered, the sender learnt.
ArpInput(op, sip, mac) ==
    /\ out' = IF op = "request" THEN ArpSend("reply") ELSE {}
    /\ LET t == Updated(table, Own, OwnMac) IN
           table' = IF op \in {"request", "reply"} THEN Added(t, sip, mac) ELSE t
    /\ UNCHANGED <<live, reass, run, upper>>

(*************************************************************************)
(* ip_output, ip_frag and output                                          *)
(*************************************************************************)

\* The frame's buffer is kept, and no one holds its address.
Lost(n) == live' = live + n + 1 /\ out' = {} /\ UNCHANGED run
Freed(n) == live' = live + n /\ out' = {} /\ UNCHANGED run
Crash == run' = "crashed" /\ out' = {} /\ UNCHANGED live

\* Division of C, and the byte that takes the number of fragments.
Quotient(a, b) == LET abs(x) == IF x < 0 THEN -x ELSE x
                      q == abs(a) \div abs(b)
                  IN IF (a < 0) = (b < 0) THEN q ELSE -q
FragNum(tot) == Quotient(tot - IPHDR_LEN + (mtu + 1) \div 2, mtu - IPHDR_LEN - ETH_HLEN) % 256

\* output sends to the entry of dst, or asks five times and leaves the buffer: nobody reads answers meanwhile.
Output(dst, n) ==
    LET S == Holding(table', dst) IN
    /\ out' = IF S = {} THEN ArpSend("ask") ELSE {"ip"}
    /\ live' = live + n + (IF S = {} THEN 1 ELSE 0)
    /\ UNCHANGED run

\* With mtu 0 ip_frag makes no fragment, and output reads the header of NULL; or it makes 255 and copies
\* mtu - 34 octets into the second.
IpOutput(dst, tot, n) ==
    IF ETH_HLEN + tot <= mtu THEN Output(dst, n)
    ELSE IF FragNum(tot) = 0 THEN Crash
    ELSE run' = "overrun" /\ out' = {} /\ UNCHANGED live

(*************************************************************************)
(* ip_input, sip_reassemble, and icmp_input and SIP_UDPInput              *)
(*************************************************************************)

\* An echo request to a broadcast address is left alone, and its buffer with it.
IcmpEcho(src, dst, h, n) == IF dst = Bcast THEN Lost(n) ELSE IpOutput(src, tot_len(h), n)

\* Discards what it has no use for (mutant: icmp_discard frees the buffer).
IcmpInput_Discards(src, dst, h, n) == IF h.proto = "echo" THEN IcmpEcho(src, dst, h, n) ELSE Freed(n)

\* A type above 18 is dropped; no other handler frees the buffer, nor do UDP, where no port is bound, and the rest.
IcmpInput(src, dst, h, n) ==
    IF h.proto = "echo" THEN IcmpEcho(src, dst, h, n) ELSE IF h.proto = "beyond" THEN Freed(n) ELSE Lost(n)

Upper(src, dst, h, n) ==
    /\ IF h.proto \in {"echo", "icmp", "beyond"} THEN IcmpInput(src, dst, h, n) ELSE Lost(n)
    /\ upper' = IF h.proto = "beyond" THEN upper ELSE upper + 1

\* The first fragment opens a list and goes up as if it were whole, unless it looks like a complete
\* datagram: then ipr_prev, NULL, is followed.  A later one finds the list expired (timer is never set),
\* frees it and follows it: it crashes or, as free left NULL there, opens a list in the same place.
Reassemble(src, dst, h) ==
    \/ reass /\ Crash /\ UNCHANGED <<reass, upper>>
    \/ h.frag = "fits" /\ (reass \/ live + 1 < Memory) /\ Crash /\ UNCHANGED <<reass, upper>>
    \/ h.frag # "fits" /\ reass /\ Upper(src, dst, h, 0) /\ UNCHANGED reass
    \/ h.frag # "fits" /\ ~reass /\ live + 1 < Memory /\ Upper(src, dst, h, 1) /\ reass' = TRUE
    \/ ~reass /\ live + 1 >= Memory /\ Freed(0) /\ UNCHANGED <<reass, upper>>

\* Line 321 refuses every datagram that is longer than its header.
Refuses(src, dst, h) == h.len \in {"bad", "data"} \/ dst \notin {Own, Bcast} \/ src = Bcast

IpInput(src, dst, h) ==
    IF Refuses(src, dst, h) THEN Freed(0) /\ UNCHANGED <<reass, upper>>
    ELSE IF h.frag # "whole" THEN Reassemble(src, dst, h)
    ELSE Upper(src, dst, h, 0) /\ UNCHANGED reass

(*************************************************************************)
(* input, and main's loop                                                 *)
(*************************************************************************)

\* skb_alloc has the buffer for the frame.
Reads == run = "running" /\ live < Memory

ArpFrame ==
    /\ Reads
    /\ \E op \in {"request", "reply", "other"}, sip \in Ips, mac \in Macs : ArpInput(op, sip, mac)

\* The sender is learnt before the datagram is looked at.
IpFrame ==
    /\ Reads
    /\ \E src \in Ips, dst \in Ips, mac \in Macs, h \in Headers :
          /\ table' = Added(table, src, mac)
          /\ IpInput(src, dst, h)

\* Frames for others, of other types, or ARP about other hosts are freed; without memory every frame is lost.
OtherFrame == run = "running" /\ out' = {} /\ UNCHANGED <<table, live, reass, run, upper>>

Sigint == run = "running" /\ run' = "stopped" /\ UNCHANGED <<table, live, reass, out, upper>>

StackNext == ArpFrame \/ IpFrame \/ OtherFrame \/ Sigint

StackSpec == StackInit /\ [][StackNext]_stackVars

(*************************************************************************)
(* Properties                                                             *)
(*************************************************************************)

Used == {i \in ArpSlots : table[i] # Empty}

\* Types of all variables; no frame needs more memory than there is, and no address is in the ARP table
\* twice (arp_find_entry would find the first for ever, sip_arp.c:16-33).
StackTypes ==
    /\ table \in [ArpSlots -> ArpEntries \cup {Empty}]
    /\ \A i, j \in Used : table[i].ip = table[j].ip => i = j
    /\ live \in 0..Memory /\ reass \in BOOLEAN /\ upper \in Nat
    /\ run \in {"running", "stopped", "crashed", "overrun"}
    /\ out \subseteq {"reply", "ask", "ip"}

\* Each datagram that a handler has taken is a buffer lost, and so is the list of reassemblies: nothing
\* above IP frees one (sip_icmp.c:33-103, sip_udp.c:218-219, sip_ip.c:372), and after Memory of them
\* the stack hears no frame, ARP included (sip_ether.c:38-43).
DatagramsCost == run = "running" => live = upper + (IF reass THEN 1 ELSE 0)

\* The table as a map from address to address.
Map == [ip \in {table[i].ip : i \in Used} |-> table[CHOOSE i \in Used : table[i].ip = ip].mac]

Cache == INSTANCE ArpCache WITH map <- Map, Ips <- Ips, Size <- TableSize

\* The table implements the cache that the stack needs: its ten entries are a function from addresses
\* that learns and corrects, overrules whoever claims this host's own, and never forgets, so that
\* the eleventh host is never learnt (sip_arp.c:22, 35-71, 190).
CacheImplemented == Cache!Spec
=============================================================================
