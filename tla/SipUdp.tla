------------------------------- MODULE SipUdp -------------------------------
(***************************************************************************)
(* The control blocks of UDP (sip_udp.c of LinuxCodeBak/Code/19): an array *)
(* of lists linked through next, and the calls that an application makes   *)
(* one after the other, with a datagram coming in between two of them.     *)
(*                                                                         *)
(* A list is looked for at port % HTABLE but linked at udp_pcbs[port].     *)
(***************************************************************************)
EXTENDS Integers, FiniteSets

CONSTANTS Pcbs,   \* control blocks that malloc gives
          NULL,
          HTABLE, \* UDP_HTABLE_SIZE (128 in the code)
          Ports   \* ports that an application asks for; 0 asks for any

ASSUME UdpAssumption ==
    /\ HTABLE \in Nat \ {0} /\ Ports \subseteq Nat /\ NULL \notin Pcbs /\ IsFiniteSet(Pcbs)

VARIABLES
    head,  \* udp_pcbs
    next, port_local,
    made,  \* "no", "yes" or "freed"
    index, \* of found_a_port
    mode,  \* "ok", "crashed": NULL was followed, "hung": a list has no end, or
           \* "wild": memory outside the array or freed was used, or a call passed wrong arguments
    again, \* history: a bound block was bound to a port that has another list
    twice  \* history: a port was asked for that another block had

udpVars == <<head, next, port_local, made, index, mode, again, twice>>

Heads == 0..(HTABLE - 1)

UdpInit ==
    /\ head = [b \in Heads |-> NULL]
    /\ next = [p \in Pcbs |-> NULL] /\ port_local = [p \in Pcbs |-> 0] /\ made = [p \in Pcbs |-> "no"]
    /\ index = 0 /\ mode = "ok" /\ again = FALSE /\ twice = FALSE

(*************************************************************************)
(* Walking a list                                                         *)
(*************************************************************************)

\* The block after n steps from p.
After(p, n) == LET f[i \in 0..n] == IF i = 0 THEN p ELSE IF f[i - 1] = NULL THEN NULL ELSE next[f[i - 1]] IN f[n]

Size == Cardinality(Pcbs)
Nodes(p) == {After(p, n) : n \in 0..Size} \ {NULL}

\* What becomes of a walk to the end of the list at p.
Walk(p) == IF \E q \in Nodes(p) : made[q] = "freed" THEN "wild"
           ELSE IF After(p, Size) # NULL THEN "hung" ELSE "ok"

Fails(m) == mode' = m /\ UNCHANGED <<head, next, port_local, made, index, again, twice>>

(*************************************************************************)
(* The calls                                                              *)
(*************************************************************************)

UdpNew(p) ==
    /\ made[p] = "no"
    /\ made' = [made EXCEPT ![p] = "yes"]
    /\ UNCHANGED <<head, next, port_local, index, mode, again, twice>>

\* No block in the list at n has the number n.
Unused(n) == \A q \in Nodes(head[n]) : port_local[q] # n

\* n is the number that the loop over found_a_port stops with: no block has it, or it is beyond the array.
AnyPort(n) ==
    LET stops(i) == IF i = HTABLE THEN TRUE ELSE Unused(i)
    IN stops(n) /\ \A i \in index + 1..n - 1 : ~stops(i)

\* p gets port n and, unless rebind is set, becomes the head of udp_pcbs[n].
Link(p, n, rebind) ==
    /\ port_local' = [port_local EXCEPT ![p] = n]
    /\ head' = IF rebind THEN head ELSE [head EXCEPT ![n] = p]
    /\ next' = IF rebind THEN next ELSE [next EXCEPT ![p] = head[n]]
    /\ again' = (again \/ (port_local[p] # 0 /\ port_local[p] # n))
    /\ twice' = (twice \/ \E q \in Pcbs \ {p} : made[q] = "yes" /\ port_local[q] = n)
    /\ UNCHANGED <<made, mode>>

BindAny(p, rebind) ==
    \E n \in index + 1..HTABLE :
        /\ AnyPort(n)
        /\ IF n = HTABLE THEN Fails("wild")
           ELSE IF Walk(head[n]) # "ok" THEN Fails(Walk(head[n]))
           ELSE index' = n /\ Link(p, n, rebind)

\* Links a block anew whether or not it is in the list (mutant: rebind is not looked at).
UdpBind_Relinks(p, n) ==
    LET w == Walk(head[n % HTABLE]) IN
    IF w # "ok" THEN Fails(w)
    ELSE IF n = 0 THEN BindAny(p, FALSE)
    ELSE IF n >= HTABLE THEN Fails("wild")
    ELSE Link(p, n, FALSE) /\ UNCHANGED index

\* A block that is already in the list is only given its number.
UdpBind(p, n) ==
    LET b == n % HTABLE
        w == Walk(head[b])
        rebind == p \in Nodes(head[b])
    IN IF w # "ok" THEN Fails(w)
       ELSE IF n = 0 THEN BindAny(p, rebind)
       ELSE IF n >= HTABLE /\ ~rebind THEN Fails("wild")
       ELSE Link(p, n, rebind) /\ UNCHANGED index

\* An unbound block is bound to any port, one that is in no list is linked; the peer is left out.
UdpConnect(p) ==
    IF port_local[p] = 0 THEN UdpBind(p, 0)
    ELSE IF port_local[p] >= HTABLE THEN Fails("wild")
    ELSE LET b == port_local[p] IN
         IF Walk(head[b]) # "ok" THEN Fails(Walk(head[b]))
         ELSE IF p \in Nodes(head[b]) THEN UNCHANGED udpVars
         ELSE Link(p, b, FALSE) /\ UNCHANGED index

\* SIP_UDPSendTo ends in a call of SIP_UDPSendOutput with the arguments of another function, whatever it bound.
UdpSendTo == Fails("wild")

\* The search for p goes on behind it when it is found: with p the last of the list, to NULL->next.
UdpRemove(p) ==
    LET b == port_local[p] % HTABLE
        before == {q \in Nodes(head[b]) : next[q] = p}
    IN IF head[b] = p
       THEN /\ head' = [head EXCEPT ![b] = next[p]]
            /\ made' = [made EXCEPT ![p] = "freed"]
            /\ UNCHANGED <<next, port_local, index, mode, again, twice>>
       ELSE IF Walk(head[b]) # "ok" THEN Fails(Walk(head[b]))
       ELSE IF before # {} /\ next[p] = NULL THEN Fails("crashed")
       ELSE /\ next' = [q \in Pcbs |-> IF q \in before THEN next[p] ELSE next[q]]
            /\ made' = [made EXCEPT ![p] = "freed"]
            /\ UNCHANGED <<head, port_local, index, mode, again, twice>>

\* Looks for the port in its list; no code sets pcb->sock, so that nothing is queued.
UdpInput(n) ==
    LET w == Walk(head[n % HTABLE]) IN
    IF w = "ok" \/ \E q \in Nodes(head[n % HTABLE]) : port_local[q] = n THEN UNCHANGED udpVars ELSE Fails(w)

UdpNext ==
    /\ mode = "ok"
    /\ \/ \E p \in Pcbs : UdpNew(p)
       \/ \E p \in Pcbs : made[p] = "yes" /\ (UdpConnect(p) \/ UdpSendTo \/ UdpRemove(p))
       \/ \E p \in Pcbs, n \in Ports : made[p] = "yes" /\ UdpBind(p, n)
       \/ \E n \in Ports : UdpInput(n)

UdpSpec == UdpInit /\ [][UdpNext]_udpVars

(*************************************************************************)
(* Properties                                                             *)
(*************************************************************************)

UdpTypes ==
    /\ head \in [Heads -> Pcbs \cup {NULL}] /\ next \in [Pcbs -> Pcbs \cup {NULL}]
    /\ port_local \in [Pcbs -> Nat] /\ made \in [Pcbs -> {"no", "yes", "freed"}]
    /\ index \in 0..HTABLE /\ mode \in {"ok", "crashed", "hung", "wild"}
    /\ again \in BOOLEAN /\ twice \in BOOLEAN

\* While no block is bound to a second port, the array is exact: udp_pcbs[n] lists the blocks bound to n,
\* each once and nothing freed, although blocks are looked for in one place and linked in another, and
\* connecting, binding again and removing all write the same links; only a circle of such a block keeps a
\* walk from its end, and SIP_UDPRemove runs off a list's end only when, besides, two blocks may have had one
\* port (sip_udp.c:35-48, 63-102, 125-135).
ListsExact ==
    /\ mode = "ok" /\ ~again =>
           \A b \in Heads :
               /\ Walk(head[b]) = "ok"
               /\ Nodes(head[b]) = {p \in Pcbs : made[p] = "yes" /\ port_local[p] = b /\ b # 0}
    /\ mode = "crashed" => twice \/ again
    /\ mode = "hung" => again
=============================================================================
