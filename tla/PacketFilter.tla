---------------------------- MODULE PacketFilter ----------------------------
(* The netfilter module of 17.6.9: setsockopt bans an address, a port of TCP or UDP, or ping, and two hooks drop   *)
(* packets by these settings. All of them lie in one global structure, which calls and hooks on several processors *)
(* read and write without a lock; each access to it is a step. nf_sockopt_get, which changes nothing, is left out.  *)
EXTENDS FiniteSets, Naturals

CONSTANTS Setters,  \* threads that may call setsockopt
          Cpus,     \* processors that handle packets
          PortNos,  \* bound: port numbers
          Addrs     \* bound: addresses

ASSUME FilterConstants == PortNos \subseteq Nat \ {0} /\ Addrs \subseteq Nat \ {0}

VARIABLES hooked,                            \* what the kernel calls: the two hooks, the options
          unloading,                         \* exit has begun
          band_ip, protocol, port, band_ping, \* b_status
          spc, status,                       \* where each call is, and what it copied from the user
          hpc, packet, verdict,              \* where each processor is, with which packet, and what it said
          stirred,                         \* b_status was being written while the processor looked at it
          wanted, mixed                      \* the ban that the last call for ports asked for; two such calls overlapped
settings == <<band_ip, protocol, port, band_ping>>
calls == <<spc, status>>
looks == <<hpc, packet, verdict, stirred>>
filterVars == <<hooked, unloading, settings, calls, looks, wanted, mixed>>

Protocols == {"tcp", "udp"}
Open == [protocol |-> "none", port |-> 0]
Bans == {Open} \cup [protocol : Protocols, port : PortNos]

\* What the hooks look at in a packet; the rest is 0.
Packets == [hook : {"in"}, protocol : Protocols, dest : PortNos, source : {0}]
           \cup [hook : {"in"}, protocol : {"icmp", "other"}, dest : {0}, source : {0}]
           \cup [hook : {"out"}, protocol : {"other"}, dest : {0}, source : Addrs]
Nothing == [hook |-> "none", protocol |-> "other", dest |-> 0, source |-> 0]

FilterInit == /\ hooked = {} /\ unloading = FALSE
              /\ band_ip = 0 /\ protocol = "none" /\ port = 0 /\ band_ping = FALSE
              /\ spc = [s \in Setters |-> "idle"] /\ status = [s \in Setters |-> Open]
              /\ hpc = [q \in Cpus |-> "idle"] /\ packet = [q \in Cpus |-> Nothing]
              /\ verdict = [q \in Cpus |-> "ACCEPT"] /\ stirred = [q \in Cpus |-> FALSE]
              /\ wanted = Open /\ mixed = FALSE

Load == /\ ~unloading
        /\ \/ hooked = {} /\ hooked' = {"in"}
           \/ hooked = {"in"} /\ hooked' = {"in", "out"}
           \/ hooked = {"in", "out"} /\ hooked' = {"in", "out", "sockopt"}
        /\ UNCHANGED <<unloading, settings, calls, looks, wanted, mixed>>

Running(hook) == \E q \in Cpus : hpc[q] \notin {"idle", "said"} /\ packet[q].hook = hook

\* The kernel waits until nobody is in what it unregisters.
Unload == /\ \/ hooked = {"in", "out", "sockopt"} /\ ~Running("in") /\ hooked' = {"out", "sockopt"}
             \/ hooked = {"out", "sockopt"} /\ ~Running("out") /\ hooked' = {"sockopt"}
             \/ hooked = {"sockopt"} /\ (\A s \in Setters : spc[s] = "idle") /\ hooked' = {}
          /\ unloading' = TRUE
          /\ UNCHANGED <<settings, calls, looks, wanted, mixed>>

\* The processors that look at b_status now see it change.
Stir == stirred' = [q \in Cpus |-> stirred[q] \/ hpc[q] # "idle"]
Pending(s) == \E t \in Setters \ {s} : spc[t] = "port"

BandIp == /\ "sockopt" \in hooked
          /\ \E s \in Setters : spc[s] = "idle"
          /\ band_ip' \in Addrs \cup {0} /\ Stir
          /\ UNCHANGED <<hooked, unloading, protocol, port, band_ping, calls, hpc, packet, verdict, wanted, mixed>>

BandPing == /\ "sockopt" \in hooked
            /\ \E s \in Setters : spc[s] = "idle"
            /\ band_ping' \in BOOLEAN /\ Stir
            /\ UNCHANGED <<hooked, unloading, band_ip, protocol, port, calls, hpc, packet, verdict, wanted, mixed>>

\* Any structure without a port of TCP or UDP takes the ban away.
BandProtocol(s, ban) ==
    /\ "sockopt" \in hooked /\ spc[s] = "idle"
    /\ spc' = [spc EXCEPT ![s] = "port"] /\ status' = [status EXCEPT ![s] = ban]
    /\ protocol' = ban.protocol /\ Stir /\ mixed' = Pending(s)
    /\ UNCHANGED <<hooked, unloading, band_ip, port, band_ping, hpc, packet, verdict, wanted>>

BandPort(s) ==
    /\ spc[s] = "port" /\ spc' = [spc EXCEPT ![s] = "idle"] /\ status' = [status EXCEPT ![s] = Open]
    /\ port' = status[s].port /\ wanted' = status[s] /\ Stir
    /\ UNCHANGED <<hooked, unloading, band_ip, protocol, band_ping, hpc, packet, verdict, mixed>>

Arrive(q, p) == /\ hpc[q] = "idle" /\ p.hook \in hooked
                /\ hpc' = [hpc EXCEPT ![q] = "first"] /\ packet' = [packet EXCEPT ![q] = p]
                /\ stirred' = [stirred EXCEPT ![q] = mixed \/ \E s \in Setters : spc[s] = "port"]
                /\ UNCHANGED <<hooked, unloading, settings, calls, verdict, wanted, mixed>>

Say(q, what) == hpc' = [hpc EXCEPT ![q] = "said"] /\ verdict' = [verdict EXCEPT ![q] = what]
GoOn(q, where) == hpc' = [hpc EXCEPT ![q] = where] /\ UNCHANGED verdict
OnlyLooks == UNCHANGED <<hooked, unloading, settings, calls, packet, stirred, wanted, mixed>>

HookOut(q) ==
    /\ packet[q].hook = "out"
    /\ \/ hpc[q] = "first" /\ IF band_ip # 0 THEN GoOn(q, "last") ELSE Say(q, "ACCEPT")
       \/ hpc[q] = "last" /\ Say(q, IF band_ip = packet[q].source THEN "DROP" ELSE "ACCEPT")
    /\ OnlyLooks

\* The port is read again after the protocol (mutant: the port is not compared).
HookIn_AnyPort(q) ==
    /\ packet[q].hook = "in"
    /\ \/ hpc[q] = "first" /\ packet[q].protocol \in Protocols
          /\ IF port # 0 THEN GoOn(q, "second") ELSE Say(q, "ACCEPT")
       \/ hpc[q] = "second" /\ Say(q, IF protocol = packet[q].protocol THEN "DROP" ELSE "ACCEPT")
       \/ hpc[q] = "first" /\ packet[q].protocol = "icmp" /\ Say(q, IF ~band_ping THEN "DROP" ELSE "ACCEPT")
       \/ hpc[q] = "first" /\ packet[q].protocol = "other" /\ Say(q, "ACCEPT")
    /\ OnlyLooks

\* ICMP is dropped when ping is not banned.
HookIn(q) ==
    /\ packet[q].hook = "in"
    /\ \/ hpc[q] = "first" /\ packet[q].protocol \in Protocols
          /\ IF port # 0 THEN GoOn(q, "second") ELSE Say(q, "ACCEPT")
       \/ hpc[q] = "second" /\ IF protocol = packet[q].protocol THEN GoOn(q, "last") ELSE Say(q, "ACCEPT")
       \/ hpc[q] = "last" /\ Say(q, IF port = packet[q].dest THEN "DROP" ELSE "ACCEPT")
       \/ hpc[q] = "first" /\ packet[q].protocol = "icmp" /\ Say(q, IF ~band_ping THEN "DROP" ELSE "ACCEPT")
       \/ hpc[q] = "first" /\ packet[q].protocol = "other" /\ Say(q, "ACCEPT")
    /\ OnlyLooks

Leave(q) == /\ hpc[q] = "said" /\ hpc' = [hpc EXCEPT ![q] = "idle"]
            /\ packet' = [packet EXCEPT ![q] = Nothing] /\ verdict' = [verdict EXCEPT ![q] = "ACCEPT"]
            /\ stirred' = [stirred EXCEPT ![q] = FALSE]
            /\ UNCHANGED <<hooked, unloading, settings, calls, wanted, mixed>>

FilterNext == \/ Load \/ Unload \/ BandIp \/ BandPing
              \/ \E s \in Setters : BandPort(s) \/ \E ban \in Bans : BandProtocol(s, ban)
              \/ \E q \in Cpus : HookOut(q) \/ HookIn(q) \/ Leave(q) \/ \E p \in Packets : Arrive(q, p)

FilterSpec == FilterInit /\ [][FilterNext]_filterVars
-----------------------------------------------------------------------------
FilterTypes ==
    /\ hooked \subseteq {"in", "out", "sockopt"} /\ unloading \in BOOLEAN
    /\ band_ip \in Addrs \cup {0} /\ protocol \in Protocols \cup {"none"} /\ port \in PortNos \cup {0} /\ band_ping \in BOOLEAN
    /\ spc \in [Setters -> {"idle", "port"}] /\ status \in [Setters -> Bans]
    /\ hpc \in [Cpus -> {"idle", "first", "second", "last", "said"}] /\ packet \in [Cpus -> Packets \cup {Nothing}]
    /\ verdict \in [Cpus -> {"ACCEPT", "DROP"}] /\ stirred \in [Cpus -> BOOLEAN]
    /\ wanted \in Bans /\ mixed \in BOOLEAN

Banned(p) == IF p.hook = "out" THEN p.source = band_ip
             ELSE IF p.protocol = "icmp" THEN ~band_ping
             ELSE wanted = [protocol |-> p.protocol, port |-> p.dest]

(* A packet is judged by the ban that the last call asked for, unless a call writes the settings meanwhile, or two *)
(* calls for ports have overlapped: they leave the protocol of one with the port of the other, until the next call *)
(* (test.c:61-79, 147-149, 174-198).                                                                               *)
VerdictAsAsked == \A q \in Cpus : hpc[q] = "said" /\ ~stirred[q] =>
                      verdict[q] = (IF Banned(packet[q]) THEN "DROP" ELSE "ACCEPT")
=============================================================================
