---------------------------- MODULE ServersProofs ----------------------------
(***************************************************************************)
(* The client that looks for a server by broadcast names only servers that *)
(* have answered; the time servers of chapter 14 keep each connection in   *)
(* the hands of one task and close it in all others; the server of chapter *)
(* 18 starts with what was typed.  Any number of servers, datagrams,       *)
(* clients, options and lines.                                             *)
(***************************************************************************)
EXTENDS Discovery, TimeServers, HttpParameters, FiniteSetTheorems, WellFoundedInduction, TLAPS

(***************************************************************************)
(* Finding a server                                                        *)
(***************************************************************************)

Senders == Servers \cup {Stranger}
Texts == {"ack", "other", "empty"}

DiscTypes == /\ inbox \in Seq([from : Senders, text : Texts])
             /\ answering \in [Servers -> Nat]
             /\ from_len \in [Servers \cup {Me} -> {"bad", "short", "full"}]
             /\ at \in {"send", "select", "recv", "done"}

\* A datagram that may be in the client's socket: only a server that has answered sends answers.
Honest(d) == IF d.text = "ack" THEN d.from \in served ELSE d.from = Stranger

\* Where an answer is, its server has answered: under way, in the socket, in from_addr and in the buffer.
Underway == \A s \in Servers : answering[s] > 0 => s \in served
Queued == \A i \in 1 .. Len(inbox) : Honest(inbox[i])
Waiting == at = "recv" => inbox # <<>>
Address == /\ from_addr \in served \cup {Nowhere, Stranger}
           /\ from_len[Me] # "full" => from_addr = Nowhere
Buffer == buff = "ack" => found \cap (served \cup {Nowhere}) # {}

DiscInv == DiscTypes /\ Underway /\ Queued /\ Waiting /\ Address /\ Buffer /\ FoundAnswered
-----------------------------------------------------------------------------
LEMMA DiscStarts == DiscInit => DiscInv
BY DiscoveryConstants
   DEF DiscInit, DiscInv, DiscTypes, Underway, Queued, Waiting, Address, Buffer, FoundAnswered, Me

\* What Full does: a bad length stays bad, any other becomes full.
LEMMA FullLength ==
    ASSUME DiscTypes, NEW who \in Servers \cup {Me}, Full(who)
    PROVE  /\ from_len' \in [Servers \cup {Me} -> {"bad", "short", "full"}]
           /\ from_len'[Me] = "bad" <=> from_len[Me] = "bad"
           /\ from_len[Me] = "full" => from_len'[Me] = "full"
           /\ who = Me => from_len'[Me] # "short"
BY DEF DiscTypes, Full, Me

\* The rest of a queue of honest datagrams, and one more at its end.
LEMMA Queue ==
    ASSUME DiscTypes, Queued
    PROVE  /\ inbox # <<>> =>
                  /\ Head(inbox) \in [from : Senders, text : Texts] /\ Honest(Head(inbox))
                  /\ Tail(inbox) \in Seq([from : Senders, text : Texts])
                  /\ \A i \in 1 .. Len(Tail(inbox)) : Honest(Tail(inbox)[i])
           /\ \A d \in [from : Senders, text : Texts] :
                  /\ Append(inbox, d) \in Seq([from : Senders, text : Texts])
                  /\ Honest(d) => \A i \in 1 .. Len(Append(inbox, d)) : Honest(Append(inbox, d)[i])
<1>1. ASSUME inbox # <<>>
      PROVE  /\ Head(inbox) \in [from : Senders, text : Texts] /\ Honest(Head(inbox))
             /\ Tail(inbox) \in Seq([from : Senders, text : Texts])
             /\ \A i \in 1 .. Len(Tail(inbox)) : Honest(Tail(inbox)[i])
  <2>1. Len(inbox) \in Nat /\ Len(inbox) > 0 /\ Head(inbox) = inbox[1] /\ Len(Tail(inbox)) = Len(inbox) - 1
    BY <1>1 DEF DiscTypes
  <2>2. \A i \in 1 .. Len(Tail(inbox)) : Tail(inbox)[i] = inbox[i + 1] /\ i + 1 \in 1 .. Len(inbox)
    BY <1>1, <2>1 DEF DiscTypes
  <2>4. 1 \in 1 .. Len(inbox)
    BY <2>1
  <2>3. Head(inbox) \in [from : Senders, text : Texts] /\ Tail(inbox) \in Seq([from : Senders, text : Texts])
    <3> DEFINE D == [from : Senders, text : Texts]
    <3>1. inbox \in Seq(D)
      BY DEF DiscTypes
    <3> HIDE DEF D
    <3>2. inbox[1] \in D /\ Tail(inbox) \in Seq(D)
      BY <1>1, <2>4, <3>1
    <3>3. QED
      BY <2>1, <3>2 DEF D
  <2>5. Honest(Head(inbox)) /\ \A i \in 1 .. Len(Tail(inbox)) : Honest(Tail(inbox)[i])
    BY <2>1, <2>2, <2>4, Zenon DEF Queued
  <2>6. QED
    BY <2>3, <2>5
<1>2. ASSUME NEW d \in [from : Senders, text : Texts]
      PROVE  /\ Append(inbox, d) \in Seq([from : Senders, text : Texts])
             /\ Honest(d) => \A i \in 1 .. Len(Append(inbox, d)) : Honest(Append(inbox, d)[i])
  <2>1. /\ Append(inbox, d) \in Seq([from : Senders, text : Texts])
        /\ \A i \in 1 .. Len(Append(inbox, d)) :
               (i \in 1 .. Len(inbox) /\ Append(inbox, d)[i] = inbox[i]) \/ Append(inbox, d)[i] = d
    BY DEF DiscTypes
  <2>2. QED
    BY <2>1, Zenon DEF Queued
<1>3. QED
  BY <1>1, <1>2

\* What has been said of a datagram stays true when more servers have answered.
LEMMA HonestLater ==
    ASSUME served \subseteq served', NEW d, Honest(d)
    PROVE  Honest(d)'
BY DEF Honest

\* The client reads a datagram.
LEMMA HearInv == DiscInv /\ Hear => DiscInv'
<1> SUFFICES ASSUME DiscInv, Hear PROVE DiscInv'
  OBVIOUS
<1> DEFINE d == Head(inbox)
<1>1. at = "recv" /\ inbox # <<>> /\ at' = "send" /\ inbox' = Tail(inbox)
  BY DEF DiscInv, Waiting, Hear
<1>2. buff' = Holds(d) /\ from_addr' = Sender(d) /\ Full(Me) /\ UNCHANGED <<net, served, copies, strange>>
  BY DEF Hear
<1>3. found' = IF buff' = "ack" THEN found \cup {from_addr'} ELSE found
  BY DEF Hear
<1>4. d \in [from : Senders, text : Texts] /\ Honest(d)
  BY <1>1, Queue DEF DiscInv
<1>5. DiscTypes /\ Queued /\ Underway
  BY DEF DiscInv
<1>6. /\ from_len' \in [Servers \cup {Me} -> {"bad", "short", "full"}]
      /\ from_len'[Me] = "bad" <=> from_len[Me] = "bad"
      /\ from_len[Me] = "full" => from_len'[Me] = "full"
      /\ from_len'[Me] # "short"
  BY <1>2, <1>5, FullLength
<1>7. served' = served /\ answering' = answering
  BY <1>2 DEF net
<1> HIDE DEF d
<1>8. DiscTypes'
  BY <1>1, <1>5, <1>6, <1>7, Queue DEF DiscTypes
<1>9. Underway' /\ Waiting'
  BY <1>1, <1>5, <1>7 DEF Underway, Waiting
<1>10. Queued'
  BY <1>1, <1>5, <1>7, Queue DEF Queued, Honest
<1>11. d.from \in served \cup {Stranger} /\ (d.text = "ack" => d.from \in served)
  BY <1>4 DEF Honest
<1>12. Address'
  BY <1>2, <1>6, <1>7, <1>11 DEF DiscInv, DiscTypes, Address, Sender, Me
\* The buffer holds an answer only if it held one, or if this is one.
<1>13. buff' = "ack" => d.text = "ack" \/ buff = "ack"
  BY <1>2 DEF Holds
<1>14. d.text = "ack" => from_addr' \in served \cup {Nowhere}
  BY <1>2, <1>5, <1>11 DEF DiscInv, Address, Sender
<1>15. Buffer'
  BY <1>3, <1>7, <1>13, <1>14 DEF DiscInv, Buffer
<1>16. from_addr' \in served \cup {Nowhere, Stranger}
  BY <1>7, <1>12 DEF Address
<1>17. from_len'[Me] = "bad" => from_addr' = Nowhere
  BY <1>12 DEF Address
<1>18. buff' = "ack" => served # {}
  BY <1>11, <1>13 DEF DiscInv, Buffer, FoundAnswered
<1>19. FoundAnswered'
  <2>1. (found # {} => served # {})'
    BY <1>3, <1>7, <1>18 DEF DiscInv, FoundAnswered
  <2>2. (found \subseteq served \cup {Nowhere, Stranger})'
    BY <1>3, <1>7, <1>16 DEF DiscInv, FoundAnswered
  <2>3. (from_len[Me] = "bad" => found \subseteq {Nowhere})'
    BY <1>3, <1>6, <1>17 DEF DiscInv, FoundAnswered
  <2>4. (Stranger \in found => found \cap (served \cup {Nowhere}) # {})'
    BY <1>3, <1>7, <1>15 DEF DiscInv, FoundAnswered, Buffer
  <2>5. QED
    BY <2>1, <2>2, <2>3, <2>4 DEF FoundAnswered
<1>20. QED
  BY <1>8, <1>9, <1>10, <1>12, <1>15, <1>19 DEF DiscInv

\* What changes none of the client's variables but its round and its place, and loses, copies or moves datagrams.
LEMMA NetInv ==
    ASSUME DiscInv, DiscTypes', Waiting', served \subseteq served',
           UNCHANGED <<from_addr, buff, found>>,
           Queued', Underway',
           from_len'[Me] = "bad" <=> from_len[Me] = "bad",
           from_len[Me] = "full" => from_len'[Me] = "full"
    PROVE  DiscInv'
<1>1. Address'
  BY DEF DiscInv, DiscTypes, Address
<1>2. Buffer'
  BY DEF DiscInv, Buffer
<1>3. FoundAnswered'
  BY DEF DiscInv, FoundAnswered
<1>4. QED
  BY <1>1, <1>2, <1>3 DEF DiscInv

LEMMA DiscStep == DiscInv /\ [DiscNext]_discVars => DiscInv'
<1> SUFFICES ASSUME DiscInv, [DiscNext]_discVars PROVE DiscInv'
  OBVIOUS
<1>0. DiscTypes /\ Underway /\ Queued /\ Waiting
  BY DEF DiscInv
<1>1. CASE Broadcast
  <2>1. UNCHANGED <<from_addr, buff, found, from_len, inbox, answering, served>> /\ at' \in {"send", "select", "done"}
    BY <1>1, <1>0 DEF Broadcast
  <2>2. DiscTypes' /\ Waiting' /\ Queued' /\ Underway'
    BY <1>0, <2>1 DEF DiscTypes, Waiting, Queued, Underway, Honest
  <2>3. QED
    BY <2>1, <2>2, NetInv
<1>2. CASE Listen
  <2>1. UNCHANGED <<from_addr, buff, found, from_len, inbox, answering, served>>
    BY <1>2 DEF Listen, net
  <2>2. at' \in {"send", "recv"} /\ (at' = "recv" => inbox # <<>>)
    BY <1>2 DEF Listen
  <2>3. DiscTypes' /\ Waiting' /\ Queued' /\ Underway'
    BY <1>0, <2>1, <2>2 DEF DiscTypes, Waiting, Queued, Underway, Honest
  <2>4. QED
    BY <2>1, <2>3, NetInv
<1>3. CASE Hear
  BY <1>3, HearInv
<1>4. CASE Intrude
  <2>1. PICK text \in {"other", "empty"} : inbox' = Append(inbox, [from |-> Stranger, text |-> text])
    BY <1>4 DEF Intrude
  <2> DEFINE d == [from |-> Stranger, text |-> text]
  <2>2. d \in [from : Senders, text : Texts] /\ Honest(d)
    BY DEF Senders, Texts, Honest
  <2>3. UNCHANGED <<at, from_addr, buff, found, from_len, answering, served>> /\ inbox' = Append(inbox, d)
    BY <1>4, <2>1 DEF Intrude, asker, net
  <2> HIDE DEF d
  <2>4. DiscTypes'
    BY <1>0, <2>2, <2>3, Queue DEF DiscTypes
  <2>5. Queued'
    BY <1>0, <2>2, <2>3, Queue DEF Queued, Honest
  <2>6. Waiting' /\ Underway'
    BY <1>0, <2>2, <2>3 DEF DiscTypes, Waiting, Underway
  <2>7. QED
    BY <2>3, <2>4, <2>5, <2>6, NetInv
<1>5. ASSUME NEW s \in Servers, Serve(s) PROVE DiscInv'
  <2>1. UNCHANGED <<at, from_addr, buff, found, inbox>> /\ Full(s)
    BY <1>5 DEF Serve, asker
  <2>2. served \subseteq served' /\ DiscTypes' /\ Underway'
    <3>1. from_len' \in [Servers \cup {Me} -> {"bad", "short", "full"}]
      BY <1>0, <2>1, FullLength
    <3>2. \/ served' = served \cup {s} /\ answering' = [answering EXCEPT ![s] = @ + 1]
          \/ UNCHANGED <<answering, served>>
      BY <1>5 DEF Serve
    <3>3. answering' \in [Servers -> Nat]
      BY <1>0, <3>2 DEF DiscTypes
    <3>4. \A r \in Servers : answering'[r] > 0 => r \in served'
      BY <1>0, <3>2 DEF DiscTypes, Underway
    <3>5. QED
      BY <1>0, <2>1, <3>1, <3>2, <3>3, <3>4 DEF DiscTypes, Underway
  <2>3. Queued' /\ Waiting'
    BY <1>0, <2>1, <2>2 DEF Queued, Waiting, Honest
  <2>4. /\ from_len'[Me] = "bad" <=> from_len[Me] = "bad"
        /\ from_len[Me] = "full" => from_len'[Me] = "full"
    BY <1>0, <2>1, FullLength
  <2>5. QED
    BY <2>1, <2>2, <2>3, <2>4, NetInv
<1>6. ASSUME NEW s \in Servers, Deliver(s) PROVE DiscInv'
  <2> DEFINE d == [from |-> s, text |-> "ack"]
  <2>1. UNCHANGED <<at, from_addr, buff, found, from_len, served>> /\ inbox' = Append(inbox, d)
    BY <1>6 DEF Deliver, asker
  <2>2. d \in [from : Senders, text : Texts] /\ Honest(d)
    BY <1>0, <1>6 DEF Senders, Texts, Honest, Underway, Deliver
  <2>3. answering[s] > 0 /\ answering' = [answering EXCEPT ![s] = @ - 1]
    BY <1>6 DEF Deliver
  <2> HIDE DEF d
  <2>4. DiscTypes'
    BY <1>0, <2>1, <2>2, <2>3, Queue DEF DiscTypes
  <2>5. Queued'
    BY <1>0, <2>1, <2>2, Queue DEF Queued, Honest
  <2>6. Waiting'
    BY <1>0, <2>1, <2>2 DEF DiscTypes, Waiting
  <2>7. Underway'
    BY <1>0, <2>1, <2>3 DEF DiscTypes, Underway
  <2>8. QED
    BY <2>1, <2>4, <2>5, <2>6, <2>7, NetInv
<1>7. ASSUME NEW s \in Servers, Lose(s) \/ Copy(s) PROVE DiscInv'
  <2>1. UNCHANGED <<at, from_addr, buff, found, from_len, served, inbox>>
    BY <1>7 DEF Lose, Copy, asker
  <2>2. \/ UNCHANGED answering
        \/ answering[s] > 0 /\ answering' = [answering EXCEPT ![s] = @ - 1]
        \/ answering[s] > 0 /\ answering' = [answering EXCEPT ![s] = @ + 1]
    BY <1>7 DEF Lose, Copy
  <2>3. DiscTypes' /\ Underway'
    BY <1>0, <2>1, <2>2 DEF DiscTypes, Underway
  <2>4. Queued' /\ Waiting'
    BY <1>0, <2>1 DEF Queued, Waiting, Honest
  <2>5. QED
    BY <2>1, <2>3, <2>4, NetInv
<1>8. CASE UNCHANGED discVars
  <2>1. UNCHANGED <<at, from_addr, buff, found, from_len, served, inbox, answering>>
    BY <1>8 DEF discVars, asker, net
  <2>2. QED
    BY <2>1 DEF DiscInv, DiscTypes, Underway, Queued, Waiting, Address, Buffer, FoundAnswered, Honest
<1>9. QED
  BY <1>1, <1>2, <1>3, <1>4, <1>5, <1>6, <1>7, <1>8 DEF DiscNext, Client

(* Only servers that have answered are found (client.c:66-73), whatever the network does with the datagrams.       *)
THEOREM FoundHasAnswered == DiscSpec => []FoundAnswered
<1>1. DiscInv => FoundAnswered
  BY DEF DiscInv
<1>2. QED
  BY DiscStarts, DiscStep, <1>1, PTL DEF DiscSpec

\* A set of numbers has a least member.
LEMMA Least ==
    ASSUME NEW T, T \subseteq Nat, T # {}
    PROVE  \E x \in T : \A y \in T : x <= y
<1> DEFINE U == {0..i : i \in T}
           R == StrictSubsetOrdering(Nat)
<1>1. U \subseteq FiniteSubsetsOf(Nat)
  <2>1. \A i \in Nat : IsFiniteSet(0..i) /\ 0..i \subseteq Nat
    BY FS_Interval
  <2>2. QED
    BY <2>1 DEF FiniteSubsetsOf
<1>2. U # {}
  OBVIOUS
<1>3. IsWellFoundedOn(R, FiniteSubsetsOf(Nat))
  BY FS_StrictSubsetOrderingWellFounded
<1>4. \E s \in U : \A t \in U : ~(<<t, s>> \in R)
  <2> HIDE DEF U, R
  <2> QED
    BY <1>1, <1>2, <1>3, WFMin
<1>5. PICK x \in T : \A y \in T : ~(<<0..y, 0..x>> \in R)
  BY <1>4
<1>6. ASSUME NEW y \in T, y < x PROVE FALSE
  <2>1. 0..y \subseteq 0..x /\ x \in 0..x /\ x \notin 0..y /\ 0..x \subseteq Nat
    BY <1>6
  <2>2. <<0..y, 0..x>> \in R
    BY <2>1 DEF StrictSubsetOrdering
  <2>3. QED
    BY <1>5, <1>6, <2>2
<1>7. QED
  BY <1>6

(***************************************************************************)
(* The time servers                                                        *)
(***************************************************************************)

Points == {"lock", "take", "unlock", "hand", "drop", "start", "recv", "wait", "send", "close", "none", "ended"}

\* Where a task has the descriptor of a client.
Holding == {"unlock", "hand", "drop", "recv", "wait", "send", "close"}

States == {"new", "connected", "asked", "told", "failed", "gone", "lost"}

TimeTypes ==
    /\ prog \in Programs /\ prog.hand # "thread"
    /\ client \in [Clients -> States] /\ queue \in Seq(Clients)
    /\ file \in [Fds -> Clients \cup {Nobody}] /\ owners \in [Fds -> SUBSET Tasks]
    /\ pc \in [Tasks -> Points] /\ fd \in [Tasks -> Fds \cup {0}]

\* A client connects once: it is nowhere yet, or waits in one place, or is behind one descriptor.
ConnectsOnce ==
    /\ \A i, j \in 1..Len(queue) : queue[i] = queue[j] => i = j
    /\ \A i \in 1..Len(queue) : client[queue[i]] # "new"
    /\ \A f \in Fds : file[f] # Nobody =>
           /\ client[file[f]] # "new"
           /\ \A i \in 1..Len(queue) : queue[i] # file[f]
           /\ \A g \in Fds : g # f => file[g] # file[f]

\* Descriptors and tasks agree.
Agree ==
    /\ \A f \in Fds : /\ (file[f] = Nobody) = (owners[f] = {})
                      /\ \A p \in owners[f] : fd[p] = f /\ pc[p] \in Holding
                      /\ \A p, q \in owners[f] : p # q => pc[p] = "drop" \/ pc[q] = "drop"
    /\ \A p \in Tasks : pc[p] \in Holding /\ prog.call = "accept" => fd[p] \in Fds /\ p \in owners[fd[p]]
    /\ prog.call = "recvfrom" => /\ \A f \in Fds : owners[f] = {}
                                 /\ \A p \in Tasks : pc[p] \in {"lock", "take", "send", "none", "ended"}

\* Only the parent accepts and hands over, and nobody does when a loop answers itself.
Roles ==
    \A p \in Tasks : /\ pc[p] # "start"
                     /\ prog.hand = "fork" /\ pc[p] \in {"lock", "take", "unlock", "hand", "drop"} => p = 1
                     /\ prog.hand = "fork" /\ prog.call = "recvfrom" /\ pc[p] = "send" => p = 1
                     /\ pc[p] \in {"hand", "drop"} => prog.hand = "fork"

\* A child was made for a client that is not waiting and not the one in hand: M is the set of these clients.
Made(M) ==
    /\ M \subseteq Clients
    /\ \A c \in M : client[c] # "new" /\ \A i \in 1..Len(queue) : queue[i] # c
    /\ prog.hand = "fork" => Cardinality({p \in Tasks : pc[p] # "none"}) = Cardinality(M) + 1
    /\ \A p \in Tasks : pc[p] = "hand" => file[fd[p]] \notin M

TimeInv == prog.hand # "thread" => TimeTypes /\ ConnectsOnce /\ Agree /\ Roles /\ \E M : Made(M)

\* What the programs have in common.
LEMMA Kinds ==
    ASSUME prog \in Programs
    PROVE  /\ prog.call \in {"accept", "recvfrom"} /\ prog.hand \in {"self", "fork", "thread"}
           /\ prog.locks \in BOOLEAN /\ prog.loops \in 0..3
           /\ prog.hand = "fork" => prog.loops = 1 /\ ~prog.locks
<1> DEFINE Kind(r) == /\ r.call \in {"accept", "recvfrom"} /\ r.hand \in {"self", "fork", "thread"}
                      /\ r.locks \in BOOLEAN /\ r.loops \in 0..3
                      /\ r.hand = "fork" => r.loops = 1 /\ ~r.locks
<1>1. Kind(LoopUdp) /\ Kind(LoopTcp) /\ Kind(SharedUdp) /\ Kind(SharedTcp)
  BY DEF LoopUdp, LoopTcp, SharedUdp, SharedTcp, Program
<1>2. Kind(ForkTcp) /\ Kind(ThreadTcp) /\ Kind(LockTcp) /\ Kind(SharedUdpBak)
  BY DEF ForkTcp, ThreadTcp, LockTcp, SharedUdpBak, Program
<1>3. Kind(ForkUdpBak) /\ Kind(SharedTcpBak) /\ Kind(ThreadTcpUnused)
  BY DEF ForkUdpBak, SharedTcpBak, ThreadTcpUnused, Program
<1> HIDE DEF Kind
<1>4. Kind(prog)
  BY <1>1, <1>2, <1>3 DEF Programs, SharedTcpAgain, LoopUdpBak, LoopTcpBak, ForkTcpBak
<1>5. QED
  BY <1>4 DEF Kind

LEMMA Numbers ==
    /\ Cardinality(Clients) \in Nat
    /\ Fds \subseteq Nat /\ IsFiniteSet(Fds) /\ Cardinality(Fds) = Cardinality(Clients)
    /\ Tasks \subseteq Nat /\ IsFiniteSet(Tasks) /\ Cardinality(Tasks) = Cardinality(Clients) + 3
<1>1. Cardinality(Clients) \in Nat
  BY TimeConstants, FS_CardinalityType
<1>2. /\ IsFiniteSet(1..Cardinality(Clients)) /\ Cardinality(1..Cardinality(Clients)) = Cardinality(Clients)
      /\ IsFiniteSet(1..(Cardinality(Clients) + 3))
      /\ Cardinality(1..(Cardinality(Clients) + 3)) = Cardinality(Clients) + 3
  BY <1>1, FS_Interval
<1>3. QED
  BY <1>1, <1>2 DEF Fds, Tasks

LEMMA TimeStarts == TimeInit => TimeInv
<1> SUFFICES ASSUME TimeInit, prog.hand # "thread"
             PROVE  TimeTypes /\ ConnectsOnce /\ Agree /\ Roles /\ \E M : Made(M)
  BY DEF TimeInv
<1>1. /\ prog \in Programs /\ prog.loops \in 0..3 /\ FirstPc(prog) \in {"lock", "take"}
      /\ prog.hand = "fork" => prog.loops = 1
  BY Kinds DEF TimeInit, FirstPc
<1>2. TimeTypes
  <2>1. <<>> \in Seq(Clients)
    OBVIOUS
  <2>2. \A p \in Tasks : pc[p] \in Points
    BY <1>1 DEF TimeInit, Points
  <2>3. pc \in [Tasks -> Points]
    BY <2>2 DEF TimeInit
  <2>4. client \in [Clients -> States] /\ fd \in [Tasks -> Fds \cup {0}]
    BY DEF TimeInit, States
  <2>5. file \in [Fds -> Clients \cup {Nobody}] /\ owners \in [Fds -> SUBSET Tasks]
    BY DEF TimeInit
  <2>6. QED
    BY <1>1, <2>1, <2>3, <2>4, <2>5 DEF TimeInit, TimeTypes
<1>3. ConnectsOnce
  BY DEF TimeInit, ConnectsOnce
<1>4. \A p \in Tasks : pc[p] \in {"lock", "take", "none"} /\ (pc[p] # "none" => p <= prog.loops)
  BY <1>1 DEF TimeInit
<1>5. Agree
  BY <1>4 DEF TimeInit, Agree, Holding
<1>6. Roles
  BY <1>1, <1>4, Numbers DEF Roles, Tasks
<1>7. Made({})
  <2>1. ASSUME prog.hand = "fork" PROVE Cardinality({p \in Tasks : pc[p] # "none"}) = 1
    <3>1. 1 \in Tasks
      BY Numbers DEF Tasks
    <3>2. {p \in Tasks : pc[p] # "none"} = {1}
      BY <1>1, <2>1, <3>1 DEF TimeInit, Tasks
    <3>3. QED
      BY <3>2, FS_Singleton
  <2>2. QED
    BY <1>4, <2>1, FS_EmptySet DEF Made
<1>8. QED
  BY <1>2, <1>3, <1>5, <1>6, <1>7

(***************************************************************************)
(* What the steps leave as it is                                           *)
(***************************************************************************)

Used == {p \in Tasks : pc[p] # "none"}
Lasting == \A c \in Clients : client'[c] = "new" => client[c] = "new"

\* A queue that has lost its first client, or got one that was nowhere.
LEMMA OneLess ==
    ASSUME TimeTypes, ConnectsOnce, queue # <<>>, queue' = Tail(queue)
    PROVE  /\ queue' \in Seq(Clients) /\ Head(queue) \in Clients /\ client[Head(queue)] # "new"
           /\ \A f \in Fds : file[f] # Head(queue)
           /\ \A i \in 1..Len(queue') : queue'[i] # Head(queue) /\ \E j \in 1..Len(queue) : queue'[i] = queue[j]
           /\ \A i, j \in 1..Len(queue') : queue'[i] = queue'[j] => i = j
<1>1. queue \in Seq(Clients) /\ Len(queue) \in Nat /\ Len(queue) > 0
  BY DEF TimeTypes
<1>2. /\ queue' \in Seq(Clients) /\ Len(queue') = Len(queue) - 1 /\ Head(queue) = queue[1] /\ 1 \in 1..Len(queue)
      /\ \A i \in 1..Len(queue') : queue'[i] = queue[i + 1] /\ i + 1 \in 1..Len(queue)
  BY <1>1
<1>3. \A i \in 1..Len(queue') : i + 1 # 1
  BY <1>1, <1>2
<1>4. \A i \in 1..Len(queue') : queue'[i] # Head(queue) /\ \E j \in 1..Len(queue) : queue'[i] = queue[j]
  BY <1>2, <1>3 DEF ConnectsOnce
<1>5. ASSUME NEW i \in 1..Len(queue'), NEW j \in 1..Len(queue'), queue'[i] = queue'[j] PROVE i = j
  <2>1. i + 1 = j + 1
    BY <1>2, <1>5 DEF ConnectsOnce
  <2>2. i \in Int /\ j \in Int
    OBVIOUS
  <2>3. QED
    BY <2>1, <2>2
<1>6. Head(queue) \in Clients /\ client[Head(queue)] # "new"
  BY <1>1, <1>2 DEF ConnectsOnce
<1>7. \A f \in Fds : file[f] # Head(queue)
  BY <1>2, <1>6, TimeConstants DEF ConnectsOnce
<1>8. QED
  BY <1>2, <1>4, <1>5, <1>6, <1>7

LEMMA OneMore ==
    ASSUME TimeTypes, ConnectsOnce, NEW c \in Clients, client[c] = "new", queue' = Append(queue, c)
    PROVE  /\ queue' \in Seq(Clients)
           /\ \A i \in 1..Len(queue') : queue'[i] = c \/ \E j \in 1..Len(queue) : queue'[i] = queue[j]
           /\ \A i, j \in 1..Len(queue') : queue'[i] = queue'[j] => i = j
<1>1. queue \in Seq(Clients) /\ Len(queue) \in Nat
  BY DEF TimeTypes
<1>2. /\ queue' \in Seq(Clients) /\ Len(queue') = Len(queue) + 1 /\ queue'[Len(queue) + 1] = c
      /\ \A i \in 1..Len(queue) : queue'[i] = queue[i]
  BY <1>1
<1>3. \A i \in 1..Len(queue') : i = Len(queue) + 1 \/ i \in 1..Len(queue)
  BY <1>1, <1>2
<1>4. \A i \in 1..Len(queue) : queue[i] # c
  BY DEF ConnectsOnce
<1>5. QED
  BY <1>2, <1>3, <1>4 DEF ConnectsOnce

\* Clients come to the queue when they are new; behind a descriptor they stay or go.
LEMMA OncePlaced ==
    ASSUME TimeTypes, ConnectsOnce, Lasting, queue' \in Seq(Clients),
           \A i, j \in 1..Len(queue') : queue'[i] = queue'[j] => i = j,
           \A i \in 1..Len(queue') : \/ client[queue'[i]] = "new" /\ client'[queue'[i]] # "new"
                                     \/ \E j \in 1..Len(queue) : queue'[i] = queue[j],
           \A f \in Fds : file'[f] \in {file[f], Nobody}
    PROVE  ConnectsOnce'
<1>1. \A i \in 1..Len(queue') : queue'[i] \in Clients
  OBVIOUS
<1>2. \A i \in 1..Len(queue') : client'[queue'[i]] # "new"
  BY <1>1 DEF Lasting, ConnectsOnce
<1>3. ASSUME NEW f \in Fds, file'[f] # Nobody
      PROVE  /\ client'[file'[f]] # "new"
             /\ \A i \in 1..Len(queue') : queue'[i] # file'[f]
             /\ \A g \in Fds : g # f => file'[g] # file'[f]
  <2>1. file'[f] = file[f] /\ file[f] # Nobody /\ file[f] \in Clients
    BY <1>3 DEF TimeTypes
  <2>2. client[file[f]] # "new" /\ \A i \in 1..Len(queue) : queue[i] # file[f]
    BY <2>1 DEF ConnectsOnce
  <2>3. \A g \in Fds : g # f => file[g] # file[f]
    BY <2>1 DEF ConnectsOnce
  <2>4. QED
    BY <1>3, <2>1, <2>2, <2>3 DEF Lasting
<1>4. QED
  BY <1>2, <1>3 DEF ConnectsOnce

\* No child is made, and no client is taken in hand that was not.
LEMMA MadeKept ==
    ASSUME NEW M, Made(M), Lasting, prog' = prog, Used' = Used,
           \A c \in M : \A i \in 1..Len(queue') : queue'[i] # c,
           \A p \in Tasks : pc'[p] = "hand" => file'[fd'[p]] \notin M
    PROVE  Made(M)'
<1>1. \A c \in M : client'[c] # "new"
  BY DEF Made, Lasting
<1>2. {p \in Tasks : pc[p] # "none"}' = {p \in Tasks : pc[p] # "none"}
  BY DEF Used
<1>3. QED
  BY <1>1, <1>2 DEF Made

\* A task that goes on uses no more tasks.
LEMMA SameUsed ==
    ASSUME TimeTypes, NEW p \in Tasks, NEW w, pc[p] # "none", w # "none", pc' = [pc EXCEPT ![p] = w]
    PROVE  Used' = Used
  BY DEF TimeTypes, Used

\* The clients' steps: the tasks and descriptors are as they were.
LEMMA ClientSteps ==
    ASSUME TimeTypes, ConnectsOnce, Agree, Roles, NEW M, Made(M), NEW c \in Clients,
           Connect(c) \/ Ask(c) \/ AskByDatagram(c) \/ Receive(c) \/ GiveUp(c)
    PROVE  TimeTypes' /\ ConnectsOnce' /\ Agree' /\ Roles' /\ Made(M)'
<1>1. UNCHANGED <<prog, file, owners, pc, fd>>
  BY DEF Connect, Ask, AskByDatagram, Receive, GiveUp
<1>2. PICK w \in States \ {"new"} : client' = [client EXCEPT ![c] = w]
  BY DEF Connect, Ask, AskByDatagram, Receive, GiveUp, States
<1>3. client' \in [Clients -> States] /\ client'[c] # "new" /\ Lasting
  BY <1>2 DEF TimeTypes, Lasting
<1>4. queue' = queue \/ (client[c] = "new" /\ queue' = Append(queue, c))
  BY DEF Connect, Ask, AskByDatagram, Receive, GiveUp
<1>5. /\ queue' \in Seq(Clients)
      /\ \A i, j \in 1..Len(queue') : queue'[i] = queue'[j] => i = j
      /\ \A i \in 1..Len(queue') : \/ queue'[i] = c /\ client[c] = "new"
                                   \/ \E j \in 1..Len(queue) : queue'[i] = queue[j]
  <2>1. CASE queue' = queue
    BY <2>1 DEF TimeTypes, ConnectsOnce
  <2>2. CASE client[c] = "new" /\ queue' = Append(queue, c)
    BY <2>2, OneMore
  <2>3. QED
    BY <1>4, <2>1, <2>2
<1>6. TimeTypes'
  BY <1>1, <1>3, <1>5 DEF TimeTypes
<1>7. ConnectsOnce'
  <2>1. \A f \in Fds : file'[f] \in {file[f], Nobody}
    BY <1>1
  <2>2. \A i \in 1..Len(queue') : \/ client[queue'[i]] = "new" /\ client'[queue'[i]] # "new"
                                  \/ \E j \in 1..Len(queue) : queue'[i] = queue[j]
    BY <1>3, <1>5
  <2>3. QED
    BY <1>3, <1>5, <2>1, <2>2, OncePlaced
<1>8. Agree' /\ Roles'
  BY <1>1 DEF Agree, Roles
<1>9. Made(M)'
  <2>1. \A d \in M : \A i \in 1..Len(queue') : queue'[i] # d
    BY <1>5 DEF Made
  <2>2. Used' = Used /\ \A p \in Tasks : pc'[p] = "hand" => file'[fd'[p]] \notin M
    BY <1>1 DEF Used, Made
  <2>3. QED
    BY <1>1, <1>3, <2>1, <2>2, MadeKept
<1>10. QED
  BY <1>6, <1>7, <1>8, <1>9

\* A task that goes on with its descriptor, while everybody else does nothing.
LEMMA GoesOn ==
    ASSUME TimeTypes, ConnectsOnce, Agree, Roles, NEW M, Made(M), NEW p \in Tasks,
           pc[p] \in Holding \ {"drop"}, NEW w \in {"recv", "wait", "send", "close"}, Goes(p, w), prog.call = "accept",
           UNCHANGED <<prog, client, queue, file, owners, fd>>
    PROVE  TimeTypes' /\ ConnectsOnce' /\ Agree' /\ Roles' /\ Made(M)'
<1>1. pc' \in [Tasks -> Points] /\ pc'[p] = w /\ \A q \in Tasks : q # p => pc'[q] = pc[q]
  BY DEF TimeTypes, Points, Goes
<1>2. TimeTypes' /\ ConnectsOnce'
  BY <1>1 DEF TimeTypes, ConnectsOnce
<1>3. ASSUME NEW f \in Fds
      PROVE  /\ (file'[f] = Nobody) = (owners'[f] = {})
             /\ \A q \in owners'[f] : fd'[q] = f /\ pc'[q] \in Holding
             /\ \A q, r \in owners'[f] : q # r => pc'[q] = "drop" \/ pc'[r] = "drop"
  <2>1. owners[f] \subseteq Tasks
    BY DEF TimeTypes
  <2>2. \A q \in owners[f] : fd[q] = f /\ pc'[q] \in Holding
    BY <1>1, <2>1 DEF Agree, Holding
  <2>3. \A q, r \in owners[f] : q # r => pc'[q] = "drop" \/ pc'[r] = "drop"
    BY <1>1, <2>1 DEF Agree
  <2>4. QED
    BY <2>2, <2>3 DEF Agree
<1>4. Agree'
  <2>1. \A q \in Tasks : pc'[q] \in Holding /\ prog'.call = "accept" => fd'[q] \in Fds /\ q \in owners'[fd'[q]]
    BY <1>1 DEF Agree
  <2>2. prog'.call # "recvfrom"
    OBVIOUS
  <2>3. QED
    BY <1>3, <2>1, <2>2 DEF Agree
<1>5. Roles'
  BY <1>1 DEF Roles
<1>6. Made(M)'
  <2>1. Used' = Used
    BY SameUsed DEF Goes, Holding
  <2>2. Lasting /\ \A c \in M : \A i \in 1..Len(queue') : queue'[i] # c
    BY DEF Lasting, Made
  <2>3. \A q \in Tasks : pc'[q] = "hand" => file'[fd'[q]] \notin M
    BY <1>1 DEF Made
  <2>4. QED
    BY <2>1, <2>2, <2>3, MadeKept
<1>7. QED
  BY <1>2, <1>4, <1>5, <1>6

\* A loop that has no descriptor: it waits for a client, or answers a datagram.
LEMMA WithoutFd ==
    ASSUME TimeTypes, ConnectsOnce, Agree, Roles, NEW M, Made(M), NEW p \in Tasks, NEW w, Goes(p, w),
           \/ pc[p] = "lock" /\ w = "take"
           \/ prog.call = "recvfrom" /\ pc[p] \in {"take", "send"} /\ w \in {"take", "send"},
           \/ queue' = queue
           \/ queue # <<>> /\ queue' = Tail(queue),
           client' \in [Clients -> States], Lasting, UNCHANGED <<prog, file, owners, fd>>
    PROVE  TimeTypes' /\ ConnectsOnce' /\ Agree' /\ Roles' /\ Made(M)'
<1>1. /\ pc' \in [Tasks -> Points] /\ pc'[p] = w /\ w \in {"take", "send"}
      /\ \A q \in Tasks : q # p => pc'[q] = pc[q]
  BY DEF TimeTypes, Points, Goes
<1>2. /\ queue' \in Seq(Clients)
      /\ \A i, j \in 1..Len(queue') : queue'[i] = queue'[j] => i = j
      /\ \A i \in 1..Len(queue') : \E j \in 1..Len(queue) : queue'[i] = queue[j]
  <2>1. CASE queue' = queue
    BY <2>1 DEF TimeTypes, ConnectsOnce
  <2>2. CASE queue # <<>> /\ queue' = Tail(queue)
    BY <2>2, OneLess
  <2>3. QED
    BY <2>1, <2>2
<1>3. TimeTypes' /\ ConnectsOnce'
  BY <1>1, <1>2, OncePlaced DEF TimeTypes
<1>4. ASSUME NEW f \in Fds, NEW q \in owners'[f] PROVE q \in Tasks /\ q # p /\ fd'[q] = f /\ pc'[q] \in Holding
  <2>1. q \in Tasks /\ q \in owners[f]
    BY <1>4 DEF TimeTypes
  <2>2. q # p
    BY <2>1 DEF Agree, Holding
  <2>3. QED
    BY <1>1, <2>1, <2>2 DEF Agree
<1>5. Agree'
  <2>1. ASSUME NEW f \in Fds
        PROVE  /\ (file'[f] = Nobody) = (owners'[f] = {})
               /\ \A q, r \in owners'[f] : q # r => pc'[q] = "drop" \/ pc'[r] = "drop"
    BY <1>1, <1>4 DEF Agree
  <2>2. ASSUME NEW q \in Tasks, pc'[q] \in Holding, prog'.call = "accept"
        PROVE  fd'[q] \in Fds /\ q \in owners'[fd'[q]]
    <3>1. pc[q] \in Holding
      BY <1>1, <2>2 DEF Holding
    <3>2. QED
      BY <2>2, <3>1 DEF Agree
  <2>3. prog'.call = "recvfrom" => /\ \A f \in Fds : owners'[f] = {}
                                   /\ \A q \in Tasks : pc'[q] \in {"lock", "take", "send", "none", "ended"}
    BY <1>1 DEF Agree
  <2>4. QED
    BY <1>4, <2>1, <2>2, <2>3 DEF Agree
<1>6. Roles'
  BY <1>1 DEF Roles
<1>7. Made(M)'
  <2>1. Used' = Used
    BY <1>1, SameUsed DEF Goes
  <2>2. \A c \in M : \A i \in 1..Len(queue') : queue'[i] # c
    BY <1>2 DEF Made
  <2>3. \A q \in Tasks : pc'[q] = "hand" => file'[fd'[q]] \notin M
    BY <1>1 DEF Made
  <2>4. QED
    BY <2>1, <2>2, <2>3, MadeKept
<1>8. QED
  BY <1>3, <1>5, <1>6, <1>7

\* There is a free descriptor for each connection, as there are no more descriptors in use than other clients.
LEMMA FdFree ==
    ASSUME TimeTypes, ConnectsOnce, queue # <<>>, queue' = Tail(queue)
    PROVE  NewFd \in Fds /\ file[NewFd] = Nobody
<1> DEFINE Free == {f \in Fds : file[f] = Nobody}
<1>1. Free # {}
  <2> SUFFICES ASSUME \A f \in Fds : file[f] # Nobody PROVE FALSE
    OBVIOUS
  <2> DEFINE rest == Clients \ {Head(queue)}
  <2>1. Head(queue) \in Clients /\ \A f \in Fds : file[f] # Head(queue)
    BY OneLess
  <2>2. file \in [Fds -> rest]
    BY <2>1 DEF TimeTypes
  <2>3. IsFiniteSet(rest) /\ Cardinality(rest) = Cardinality(Clients) - 1
    BY <2>1, TimeConstants, FS_RemoveElement
  <2>4. IsFiniteSet(Fds) /\ Cardinality(rest) < Cardinality(Fds)
    BY <2>3, Numbers
  <2> HIDE DEF rest
  <2>5. \E f, g \in Fds : f # g /\ file[f] = file[g]
    BY <2>2, <2>3, <2>4, FS_PigeonHole
  <2>6. QED
    BY <2>5 DEF ConnectsOnce
<1>2. PICK f \in Free : \A g \in Free : f <= g
  BY <1>1, Least, Numbers
<1>3. f \in Fds /\ file[f] = Nobody /\ \A g \in Fds : g < f => file[g] # Nobody
  <2>1. ASSUME NEW g \in Fds, g < f PROVE file[g] # Nobody
    <3>1. f \in Nat /\ g \in Nat
      BY Numbers
    <3>2. QED
      BY <1>2, <2>1, <3>1
  <2>2. QED
    BY <2>1
<1>4. QED
  BY <1>3 DEF NewFd

\* There is a task for each client that is handed over, as each child has one of its own.
LEMMA TaskFree ==
    ASSUME TimeTypes, NEW M, Made(M), prog.hand = "fork"
    PROVE  NewTask \in Tasks /\ pc[NewTask] = "none"
<1> DEFINE Free == {q \in Tasks : pc[q] = "none"}
<1>1. Free # {}
  <2> SUFFICES ASSUME \A q \in Tasks : pc[q] # "none" PROVE FALSE
    OBVIOUS
  <2>1. {q \in Tasks : pc[q] # "none"} = Tasks
    OBVIOUS
  <2>2. IsFiniteSet(M) /\ Cardinality(M) \in Nat /\ Cardinality(M) <= Cardinality(Clients)
    BY TimeConstants, FS_Subset, FS_CardinalityType DEF Made
  <2>3. Cardinality(Tasks) = Cardinality(M) + 1
    BY <2>1 DEF Made
  <2>4. QED
    BY <2>2, <2>3, Numbers
<1>2. PICK q \in Free : \A r \in Free : q <= r
  BY <1>1, Least, Numbers
<1>3. q \in Tasks /\ pc[q] = "none" /\ \A r \in Tasks : r < q => pc[r] # "none"
  <2>1. ASSUME NEW r \in Tasks, r < q PROVE pc[r] # "none"
    <3>1. q \in Nat /\ r \in Nat
      BY Numbers
    <3>2. QED
      BY <1>2, <2>1, <3>1
  <2>2. QED
    BY <2>1
<1>4. QED
  BY <1>3 DEF NewTask

LEMMA AcceptStep ==
    ASSUME TimeTypes, ConnectsOnce, Agree, Roles, NEW M, Made(M), NEW p \in Tasks, Accept(p)
    PROVE  TimeTypes' /\ ConnectsOnce' /\ Agree' /\ Roles' /\ Made(M)'
<1>1. PICK n, h : /\ n = NewFd /\ h = Head(queue)
                  /\ n \in Fds /\ file[n] = Nobody /\ h \in Clients /\ client[h] # "new"
                  /\ file' = [file EXCEPT ![n] = h] /\ owners' = [owners EXCEPT ![n] = {p}]
                  /\ fd' = [fd EXCEPT ![p] = n]
  BY FdFree, OneLess DEF Accept
<1>2. /\ prog' = prog /\ client' = client /\ pc[p] = "take" /\ prog.call = "accept" /\ queue # <<>>
      /\ queue' = Tail(queue)
  BY DEF Accept
<1>3. PICK w \in {"unlock", "recv", "hand"} : /\ Goes(p, w)
                                              /\ w = "hand" <=> prog.hand = "fork"
                                              /\ w = "unlock" => prog.hand # "fork"
  BY Kinds DEF Accept, AfterAccept, TimeTypes
<1>4. pc' \in [Tasks -> Points] /\ pc'[p] = w /\ \A q \in Tasks : q # p => pc'[q] = pc[q]
  BY <1>3 DEF TimeTypes, Points, Goes
<1>5. /\ queue' \in Seq(Clients) /\ \A f \in Fds : file[f] # h
      /\ \A i \in 1..Len(queue') : queue'[i] # h /\ \E j \in 1..Len(queue) : queue'[i] = queue[j]
      /\ \A i, j \in 1..Len(queue') : queue'[i] = queue'[j] => i = j
  BY <1>1, <1>2, OneLess
<1>6. TimeTypes'
  BY <1>1, <1>2, <1>4, <1>5 DEF TimeTypes
<1>7. ConnectsOnce'
  <2>1. \A i \in 1..Len(queue') : client'[queue'[i]] # "new"
    BY <1>2, <1>5 DEF ConnectsOnce
  <2>2. ASSUME NEW f \in Fds, file'[f] # Nobody
        PROVE  /\ client'[file'[f]] # "new"
               /\ \A i \in 1..Len(queue') : queue'[i] # file'[f]
               /\ \A g \in Fds : g # f => file'[g] # file'[f]
    <3>1. CASE f = n
      BY <1>1, <1>2, <1>5, <3>1 DEF TimeTypes
    <3>2. CASE f # n
      <4>1. file'[f] = file[f] /\ file[f] # Nobody
        BY <1>1, <2>2, <3>2 DEF TimeTypes
      <4>2. client[file[f]] # "new" /\ \A i \in 1..Len(queue') : queue'[i] # file[f]
        BY <1>5, <4>1 DEF ConnectsOnce
      <4>3. \A g \in Fds : g # f => file'[g] # file[f]
        BY <1>1, <1>5, <4>1 DEF TimeTypes, ConnectsOnce
      <4>4. QED
        BY <1>2, <4>1, <4>2, <4>3
    <3>3. QED
      BY <3>1, <3>2
  <2>3. QED
    BY <1>5, <2>1, <2>2 DEF ConnectsOnce
<1>8. \A f \in Fds : p \notin owners[f]
  BY <1>2 DEF Agree, Holding
<1>9. Agree'
  <2>1. ASSUME NEW f \in Fds
        PROVE  /\ (file'[f] = Nobody) = (owners'[f] = {})
               /\ \A q \in owners'[f] : fd'[q] = f /\ pc'[q] \in Holding
               /\ \A q, r \in owners'[f] : q # r => pc'[q] = "drop" \/ pc'[r] = "drop"
    <3>1. CASE f = n
      <4>1. owners'[f] = {p} /\ file'[f] = h /\ fd'[p] = f
        BY <1>1, <3>1 DEF TimeTypes
      <4>2. h # Nobody
        BY <1>1, TimeConstants
      <4>3. QED
        BY <1>4, <4>1, <4>2 DEF Holding
    <3>2. CASE f # n
      <4>1. owners'[f] = owners[f] /\ file'[f] = file[f] /\ p \notin owners[f] /\ owners[f] \subseteq Tasks
        BY <1>1, <1>8, <3>2 DEF TimeTypes
      <4>2. \A q \in owners[f] : fd'[q] = fd[q] /\ pc'[q] = pc[q]
        BY <1>1, <1>4, <4>1 DEF TimeTypes
      <4>3. QED
        BY <4>1, <4>2 DEF Agree
    <3>3. QED
      BY <3>1, <3>2
  <2>2. ASSUME NEW q \in Tasks, pc'[q] \in Holding PROVE fd'[q] \in Fds /\ q \in owners'[fd'[q]]
    <3>1. CASE q = p
      BY <1>1, <3>1 DEF TimeTypes
    <3>2. CASE q # p
      <4>1. fd[q] \in Fds /\ q \in owners[fd[q]] /\ fd'[q] = fd[q]
        BY <1>1, <1>2, <1>4, <2>2, <3>2 DEF Agree, TimeTypes
      <4>2. owners[n] = {}
        BY <1>1 DEF Agree
      <4>3. QED
        BY <1>1, <4>1, <4>2 DEF TimeTypes
    <3>3. QED
      BY <3>1, <3>2
  <2>3. prog'.call # "recvfrom"
    BY <1>2
  <2>4. QED
    BY <2>1, <2>2, <2>3 DEF Agree
<1>10. Roles'
  BY <1>2, <1>3, <1>4 DEF Roles
<1>11. Made(M)'
  <2>1. Used' = Used
    BY <1>2, <1>3, SameUsed DEF Goes
  <2>2. Lasting /\ \A c \in M : \A i \in 1..Len(queue') : queue'[i] # c
    BY <1>2, <1>5 DEF Lasting, Made
  <2>3. ASSUME NEW q \in Tasks, pc'[q] = "hand" PROVE file'[fd'[q]] \notin M
    <3>1. q = p
      BY <1>2, <1>4, <2>3 DEF Roles
    <3>2. file'[fd'[q]] = h
      BY <1>1, <3>1 DEF TimeTypes
    <3>3. queue[1] = h /\ 1 \in 1..Len(queue)
      BY <1>1, <1>2 DEF TimeTypes
    <3>4. QED
      BY <3>2, <3>3 DEF Made
  <2>4. QED
    BY <1>2, <2>1, <2>2, <2>3, MadeKept
<1>12. QED
  BY <1>6, <1>7, <1>9, <1>10, <1>11

\* The close of the parent, and that of who has answered.
LEMMA CloseStep ==
    ASSUME TimeTypes, ConnectsOnce, Agree, Roles, NEW M, Made(M), NEW p \in Tasks, Drop(p) \/ Close(p),
           prog.call = "accept"
    PROVE  TimeTypes' /\ ConnectsOnce' /\ Agree' /\ Roles' /\ Made(M)'
<1>1. /\ prog' = prog /\ client' = client /\ queue' = queue
      /\ pc[p] \in {"drop", "close"} /\ Closed(p, fd[p])
  BY DEF Drop, Close
<1>2. PICK w \in {"lock", "take", "ended"} :
          /\ Goes(p, w)
          /\ prog.hand = "fork" => w = "ended" \/ pc[p] = "drop"
  BY Kinds DEF Drop, Close, FirstPc, TimeTypes
<1>3. pc' \in [Tasks -> Points] /\ pc'[p] = w /\ \A q \in Tasks : q # p => pc'[q] = pc[q]
  BY <1>2 DEF TimeTypes, Points, Goes
<1>4. fd' \in [Tasks -> Fds \cup {0}] /\ \A q \in Tasks : q # p => fd'[q] = fd[q]
  BY DEF Drop, Close, TimeTypes
<1>5. PICK f \in Fds : f = fd[p] /\ p \in owners[f]
  BY <1>1 DEF Agree, Holding
<1>6. PICK left : /\ left = owners[f] \ {p} /\ owners' = [owners EXCEPT ![f] = left]
                  /\ file' = [file EXCEPT ![f] = IF left = {} THEN Nobody ELSE @]
  BY <1>1, <1>5 DEF Closed, TimeTypes
<1>7. /\ owners' \in [Fds -> SUBSET Tasks] /\ file' \in [Fds -> Clients \cup {Nobody}]
      /\ \A g \in Fds : file'[g] \in {file[g], Nobody} /\ owners'[g] = owners[g] \ {p}
      /\ \A g \in Fds : (file'[g] = Nobody) = (owners'[g] = {})
  <2>1. owners' \in [Fds -> SUBSET Tasks] /\ file' \in [Fds -> Clients \cup {Nobody}]
    BY <1>6 DEF TimeTypes
  <2>2. ASSUME NEW g \in Fds
        PROVE  /\ file'[g] \in {file[g], Nobody} /\ owners'[g] = owners[g] \ {p}
               /\ (file'[g] = Nobody) = (owners'[g] = {})
    <3>1. CASE g = f
      <4>1. file[f] # Nobody
        BY <1>5 DEF Agree
      <4>2. owners'[g] = left /\ file'[g] = IF left = {} THEN Nobody ELSE file[g]
        BY <1>6, <3>1 DEF TimeTypes
      <4>3. QED
        BY <1>6, <3>1, <4>1, <4>2
    <3>2. CASE g # f
      <4>1. owners'[g] = owners[g] /\ file'[g] = file[g]
        BY <1>6, <3>2 DEF TimeTypes
      <4>2. p \notin owners[g]
        BY <1>5, <3>2 DEF Agree
      <4>3. QED
        BY <4>1, <4>2 DEF Agree
    <3>3. QED
      BY <3>1, <3>2
  <2>3. QED
    BY <2>1, <2>2
<1>8. TimeTypes'
  BY <1>1, <1>3, <1>4, <1>7 DEF TimeTypes
<1>9. Lasting
  BY <1>1 DEF Lasting
<1>10. ConnectsOnce'
  BY <1>1, <1>7, <1>9, OncePlaced DEF TimeTypes, ConnectsOnce
<1>11. Agree'
  <2>1. ASSUME NEW g \in Fds
        PROVE  /\ \A q \in owners'[g] : fd'[q] = g /\ pc'[q] \in Holding
               /\ \A q, r \in owners'[g] : q # r => pc'[q] = "drop" \/ pc'[r] = "drop"
    <3>1. \A q \in owners'[g] : q \in owners[g] /\ q # p /\ q \in Tasks
      BY <1>7 DEF TimeTypes
    <3>2. QED
      BY <1>3, <1>4, <3>1 DEF Agree
  <2>2. ASSUME NEW q \in Tasks, pc'[q] \in Holding PROVE fd'[q] \in Fds /\ q \in owners'[fd'[q]]
    <3>1. q # p /\ pc[q] \in Holding
      BY <1>3, <2>2 DEF Holding
    <3>2. fd'[q] = fd[q] /\ fd[q] \in Fds /\ q \in owners[fd[q]]
      BY <1>4, <3>1 DEF Agree
    <3>3. QED
      BY <1>7, <3>1, <3>2
  <2>3. prog'.call # "recvfrom"
    BY <1>1
  <2>4. QED
    BY <1>7, <2>1, <2>2, <2>3 DEF Agree
<1>12. Roles'
  BY <1>1, <1>2, <1>3 DEF Roles
<1>13. Made(M)'
  <2>1. Used' = Used
    BY <1>1, <1>2, SameUsed DEF Goes
  <2>2. ASSUME NEW q \in Tasks, pc'[q] = "hand" PROVE file'[fd'[q]] \notin M
    <3>1. q # p /\ pc[q] = "hand" /\ fd'[q] = fd[q] /\ fd[q] \in Fds
      BY <1>2, <1>3, <1>4, <2>2 DEF Agree, Holding
    <3>2. file[fd[q]] \notin M /\ Nobody \notin M
      BY <3>1, TimeConstants DEF Made
    <3>3. file'[fd'[q]] \in {file[fd[q]], Nobody}
      BY <1>7, <3>1
    <3>4. QED
      BY <3>2, <3>3
  <2>3. QED
    BY <1>1, <1>9, <2>1, <2>2, MadeKept DEF Made
<1>14. QED
  BY <1>8, <1>10, <1>11, <1>12, <1>13

\* The child gets the descriptor, which the parent alone has had, and the parent is about to close it.
LEMMA ForkStep ==
    ASSUME TimeTypes, ConnectsOnce, Agree, Roles, NEW M, Made(M), NEW p \in Tasks, Fork(p), prog.call = "accept"
    PROVE  TimeTypes' /\ ConnectsOnce' /\ Agree' /\ Roles' /\ \E N : Made(N)'
<1>1. UNCHANGED <<prog, client, queue, file>> /\ pc[p] = "hand" /\ prog.hand = "fork" /\ p = 1
  BY DEF Fork, Roles
<1>2. PICK n, f : /\ n = NewTask /\ n \in Tasks /\ pc[n] = "none" /\ f = fd[p]
                  /\ pc' = [pc EXCEPT ![p] = "drop", ![n] = "recv"]
                  /\ fd' = [fd EXCEPT ![n] = f] /\ owners' = [owners EXCEPT ![f] = @ \cup {n}]
  BY <1>1, TaskFree DEF Fork
<1>3. n # p /\ f \in Fds /\ p \in owners[f] /\ file[f] # Nobody /\ file[f] \in Clients
  BY <1>1, <1>2 DEF Agree, Holding, TimeTypes
<1>4. owners[f] = {p}
  <2>1. ASSUME NEW q \in owners[f], q # p PROVE FALSE
    <3>1. q \in Tasks /\ pc[q] = "drop"
      BY <1>1, <1>3, <2>1 DEF TimeTypes, Agree
    <3>2. QED
      BY <1>1, <2>1, <3>1 DEF Roles
  <2>2. QED
    BY <1>3, <2>1
<1>5. /\ pc' \in [Tasks -> Points] /\ pc'[p] = "drop" /\ pc'[n] = "recv"
      /\ \A q \in Tasks : q # p /\ q # n => pc'[q] = pc[q]
  BY <1>2, <1>3 DEF TimeTypes, Points
<1>6. fd' \in [Tasks -> Fds \cup {0}] /\ fd'[n] = f /\ \A q \in Tasks : q # n => fd'[q] = fd[q]
  BY <1>2, <1>3 DEF TimeTypes
<1>7. owners' \in [Fds -> SUBSET Tasks] /\ owners'[f] = {p, n} /\ \A g \in Fds : g # f => owners'[g] = owners[g]
  BY <1>2, <1>3, <1>4 DEF TimeTypes
<1>8. TimeTypes' /\ ConnectsOnce'
  BY <1>1, <1>5, <1>6, <1>7 DEF TimeTypes, ConnectsOnce
<1>9. Agree'
  <2>1. ASSUME NEW g \in Fds
        PROVE  /\ (file'[g] = Nobody) = (owners'[g] = {})
               /\ \A q \in owners'[g] : fd'[q] = g /\ pc'[q] \in Holding
               /\ \A q, r \in owners'[g] : q # r => pc'[q] = "drop" \/ pc'[r] = "drop"
    <3>1. CASE g = f
      <4>1. fd'[p] = f /\ file'[f] # Nobody
        BY <1>1, <1>2, <1>3, <1>6
      <4>2. QED
        BY <1>5, <1>6, <1>7, <3>1, <4>1 DEF Holding
    <3>2. CASE g # f
      <4>1. owners[g] \subseteq Tasks /\ p \notin owners[g] /\ n \notin owners[g]
        BY <1>2, <3>2 DEF TimeTypes, Agree, Holding
      <4>2. \A q \in owners[g] : pc'[q] = pc[q] /\ fd'[q] = fd[q]
        BY <1>5, <1>6, <4>1
      <4>3. QED
        BY <1>1, <1>7, <3>2, <4>2 DEF Agree
    <3>3. QED
      BY <3>1, <3>2
  <2>2. ASSUME NEW q \in Tasks, pc'[q] \in Holding PROVE fd'[q] \in Fds /\ q \in owners'[fd'[q]]
    <3>1. CASE q = n
      BY <1>3, <1>6, <1>7, <3>1
    <3>2. CASE q # n
      <4>1. pc[q] \in Holding /\ fd'[q] = fd[q]
        BY <1>1, <1>5, <1>6, <2>2, <3>2 DEF Holding
      <4>2. fd[q] \in Fds /\ q \in owners[fd[q]]
        BY <4>1 DEF Agree
      <4>3. QED
        BY <1>4, <1>7, <4>1, <4>2
    <3>3. QED
      BY <3>1, <3>2
  <2>3. prog'.call # "recvfrom"
    BY <1>1
  <2>4. QED
    BY <2>1, <2>2, <2>3 DEF Agree
<1>10. Roles'
  BY <1>1, <1>5 DEF Roles
<1>11. \E N : Made(N)'
  <2>0. PICK N : N = M \cup {file[f]}
    OBVIOUS
  <2>1. file[f] \notin M /\ M \subseteq Clients
    BY <1>1, <1>2 DEF Made
  <2>2. N \subseteq Clients /\ \A c \in N : client[c] # "new" /\ \A i \in 1..Len(queue) : queue[i] # c
    BY <1>3, <2>0, <2>1 DEF Made, ConnectsOnce
  <2>3. IsFiniteSet(M) /\ Cardinality(N) = Cardinality(M) + 1 /\ Cardinality(M) \in Nat
    BY <2>0, <2>1, TimeConstants, FS_Subset, FS_AddElement, FS_CardinalityType
  <2>4. {q \in Tasks : pc[q] # "none"}' = {q \in Tasks : pc[q] # "none"} \cup {n}
    BY <1>1, <1>2, <1>5
  <2>5. IsFiniteSet({q \in Tasks : pc[q] # "none"}) /\ n \notin {q \in Tasks : pc[q] # "none"}
    <3>1. {q \in Tasks : pc[q] # "none"} \subseteq Tasks
      OBVIOUS
    <3>2. QED
      BY <1>2, <3>1, Numbers, FS_Subset
  <2>6. Cardinality({q \in Tasks : pc[q] # "none"}') = Cardinality({q \in Tasks : pc[q] # "none"}) + 1
    BY <2>4, <2>5, FS_AddElement
  <2>7. Cardinality({q \in Tasks : pc[q] # "none"}) = Cardinality(M) + 1
    BY <1>1 DEF Made
  <2>8. \A q \in Tasks : pc'[q] # "hand"
    BY <1>1, <1>5 DEF Roles
  <2>9. Cardinality({q \in Tasks : pc[q] # "none"}') = Cardinality(N) + 1
    BY <2>3, <2>6, <2>7
  <2>10. QED
    <3>1. N \subseteq Clients /\ \A c \in N : client'[c] # "new" /\ \A i \in 1..Len(queue') : queue'[i] # c
      BY <1>1, <2>2
    <3>2. prog'.hand = "fork" => Cardinality({q \in Tasks : pc'[q] # "none"}) = Cardinality(N) + 1
      BY <2>9
    <3>3. Made(N)'
      BY <2>8, <3>1, <3>2 DEF Made
    <3>4. QED
      BY <3>3
<1>12. QED
  BY <1>8, <1>9, <1>10, <1>11

LEMMA InterruptStep ==
    ASSUME TimeTypes, ConnectsOnce, Agree, Roles, NEW M, Made(M), Interrupt
    PROVE  TimeTypes' /\ ConnectsOnce' /\ Agree' /\ Roles' /\ Made(M)'
<1>1. /\ UNCHANGED <<prog, client, queue>>
      /\ file' = [f \in Fds |-> Nobody] /\ owners' = [f \in Fds |-> {}] /\ fd' = [p \in Tasks |-> 0]
  BY DEF Interrupt
<1>2. /\ pc' \in [Tasks -> Points]
      /\ \A p \in Tasks : pc'[p] \in {"none", "ended"} /\ (pc'[p] = "none" <=> pc[p] = "none")
  BY DEF Interrupt, Live, TimeTypes, Points
<1>3. TimeTypes' /\ ConnectsOnce'
  BY <1>1, <1>2 DEF TimeTypes, ConnectsOnce
<1>4. Agree' /\ Roles'
  BY <1>1, <1>2 DEF Agree, Roles, Holding
<1>5. Used' = Used /\ Lasting /\ \A c \in M : \A i \in 1..Len(queue') : queue'[i] # c
  BY <1>1, <1>2 DEF Used, Lasting, Made
<1>6. Made(M)'
  BY <1>1, <1>2, <1>5, MadeKept
<1>7. QED
  BY <1>3, <1>4, <1>6

\* The calls of one task.
LEMMA CallStep ==
    ASSUME TimeTypes, ConnectsOnce, Agree, Roles, NEW M, Made(M), NEW p \in Tasks, Call(p) \/ ForkFails(p)
    PROVE  TimeTypes' /\ ConnectsOnce' /\ Agree' /\ Roles' /\ \E N : Made(N)'
<1>1. pc[p] \in Holding \ {"send"} => prog.call = "accept"
  BY Kinds DEF Agree, Holding, TimeTypes
<1>2. CASE Lock(p)
  <2>1. client' \in [Clients -> States] /\ Lasting /\ UNCHANGED <<prog, file, owners, fd, queue>>
    BY <1>2 DEF Lock, TimeTypes, Lasting
  <2>2. pc[p] = "lock" /\ Goes(p, "take")
    BY <1>2 DEF Lock
  <2>3. QED
    BY <2>1, <2>2, WithoutFd
<1>3. CASE RecvFrom(p)
  <2>1. client' \in [Clients -> States] /\ Lasting /\ UNCHANGED <<prog, file, owners, fd>>
    BY <1>3 DEF RecvFrom, TimeTypes, Lasting
  <2>2. prog.call = "recvfrom" /\ pc[p] = "take" /\ Goes(p, "send") /\ queue # <<>> /\ queue' = Tail(queue)
    BY <1>3 DEF RecvFrom
  <2>3. QED
    BY <2>1, <2>2, WithoutFd
<1>4. CASE SendTo(p)
  <2>1. client' \in [Clients -> States] /\ Lasting
    <3>1. CASE client' = client
      BY <3>1 DEF TimeTypes, Lasting
    <3>2. CASE client' = [client EXCEPT ![conn[p]] = IF @ = "asked" THEN "lost" ELSE @]
      BY <3>2 DEF TimeTypes, Lasting, States
    <3>3. QED
      BY <1>4, <3>1, <3>2 DEF SendTo
  <2>2. /\ prog.call = "recvfrom" /\ pc[p] = "send" /\ Goes(p, "take")
        /\ UNCHANGED <<prog, file, owners, fd, queue>>
    BY <1>4 DEF SendTo
  <2>3. QED
    BY <2>1, <2>2, WithoutFd
<1>5. CASE Unlock(p) \/ ForkFails(p) \/ Recv(p) \/ RecvReturns(p) \/ Send(p)
  <2>1. /\ pc[p] \in Holding \ {"drop"} /\ prog.call = "accept"
        /\ UNCHANGED <<prog, client, queue, file, owners, fd>>
    BY <1>1, <1>5 DEF Unlock, ForkFails, Recv, RecvReturns, Send, Holding
  <2>2. PICK w \in {"recv", "wait", "send", "close"} : Goes(p, w)
    BY <1>5 DEF Unlock, ForkFails, Recv, RecvReturns, Send
  <2>3. QED
    BY <2>1, <2>2, GoesOn
<1>6. CASE Accept(p)
  BY <1>6, AcceptStep
<1>7. CASE Fork(p)
  BY <1>1, <1>7, ForkStep DEF Fork, Holding
<1>8. CASE Drop(p) \/ Close(p)
  BY <1>1, <1>8, CloseStep DEF Drop, Close, Holding
<1>9. CASE CreateThread(p) \/ Start(p)
  BY <1>9 DEF CreateThread, Start, TimeTypes, Roles
<1>10. QED
  BY <1>2, <1>3, <1>4, <1>5, <1>6, <1>7, <1>8, <1>9 DEF Call

LEMMA TimeStep == TimeInv /\ [TimeNext]_timeVars => TimeInv'
<1> SUFFICES ASSUME TimeInv, [TimeNext]_timeVars, prog'.hand # "thread"
             PROVE  TimeTypes' /\ ConnectsOnce' /\ Agree' /\ Roles' /\ \E N : Made(N)'
  BY DEF TimeInv
<1>1. prog' = prog
  BY DEF TimeNext, timeVars, Connect, Ask, AskByDatagram, Receive, GiveUp, Call, Lock, Accept, Unlock, RecvFrom, Fork,
         Drop, CreateThread, Start, Recv, RecvReturns, Send, SendTo, Close, ForkFails, Interrupt
<1>2. TimeTypes /\ ConnectsOnce /\ Agree /\ Roles
  BY <1>1 DEF TimeInv
<1>3. PICK M : Made(M)
  BY <1>1 DEF TimeInv
<1>4. CASE UNCHANGED timeVars
  <2>1. TimeTypes' /\ ConnectsOnce' /\ Agree' /\ Roles'
    BY <1>2, <1>4 DEF timeVars, TimeTypes, ConnectsOnce, Agree, Roles
  <2>2. Made(M)'
    BY <1>3, <1>4 DEF timeVars, Made
  <2>3. QED
    BY <2>1, <2>2
<1>5. CASE Interrupt
  BY <1>2, <1>3, <1>5, InterruptStep
<1>6. ASSUME NEW c \in Clients, Connect(c) \/ Ask(c) \/ AskByDatagram(c) \/ Receive(c) \/ GiveUp(c)
      PROVE  TimeTypes' /\ ConnectsOnce' /\ Agree' /\ Roles' /\ \E N : Made(N)'
  BY <1>2, <1>3, <1>6, ClientSteps
<1>7. ASSUME NEW p \in Tasks, Call(p) \/ ForkFails(p)
      PROVE  TimeTypes' /\ ConnectsOnce' /\ Agree' /\ Roles' /\ \E N : Made(N)'
  BY <1>2, <1>3, <1>7, CallStep
<1>8. QED
  BY <1>4, <1>5, <1>6, <1>7 DEF TimeNext

\* The inductive invariant: for any number of clients, in all servers but those with a thread for each client.
THEOREM TimeInvHolds == TimeSpec => []TimeInv
  BY TimeStarts, TimeStep, PTL DEF TimeSpec

\* HeldByOne: a client's descriptor is open in one task that uses it and in no task that has forgotten it,
\* whatever children are made, fail to be made, or are interrupted (the close of the parent after fork).
THEOREM EachHeldByOne == TimeSpec => []HeldByOne
<1>1. TimeInv => HeldByOne
  <2> SUFFICES ASSUME TimeInv, prog.hand # "thread", NEW f \in Fds
               PROVE  Cardinality({p \in owners[f] : pc[p] # "drop"}) <= 1
    BY DEF TimeInv, HeldByOne, Agree, Holding
  <2>1. \A p, q \in owners[f] : p # q => pc[p] = "drop" \/ pc[q] = "drop"
    BY DEF TimeInv, Agree
  <2>2. CASE {p \in owners[f] : pc[p] # "drop"} = {}
    BY <2>2, FS_EmptySet
  <2>3. ASSUME NEW p \in owners[f], pc[p] # "drop" PROVE Cardinality({q \in owners[f] : pc[q] # "drop"}) <= 1
    <3>1. {q \in owners[f] : pc[q] # "drop"} = {p}
      BY <2>1, <2>3
    <3>2. Cardinality({p}) = 1
      BY FS_Singleton
    <3>3. QED
      BY <3>1, <3>2
  <2>4. QED
    BY <2>2, <2>3
<1>2. QED
  BY TimeInvHolds, <1>1, PTL

(***************************************************************************)
(* The start of the server of chapter 18                                   *)
(***************************************************************************)

Settings == Strings \cup Numbered

\* Where among the first k options the setting n has got a value.
Given(n, k) == {i \in 1..k : argv[i].name = n /\ ~argv[i].colon}

\* v is what the first k options have made of the setting n.
Last(n, k, v) == \/ Given(n, k) = {} /\ v = Default
                 \/ \E i \in Given(n, k) : (\A j \in Given(n, k) : j <= i) /\ v = argv[i].value

ParamInv ==
    /\ argv \in Seq(Options) /\ optind \in 0..Len(argv)
    /\ conf_para \in [Settings -> Int \cup {Default, Empty}]
    /\ phase # "command line" => optind = Len(argv)
    /\ \A n \in Settings :
           \/ Last(n, optind, conf_para[n])
           \/ phase # "command line" /\ conf_para[n] = Empty /\ n \in {"CGIRoot", "DefaultFile"} /\ config = "text"

LEMMA ParamStarts == ParamInit => ParamInv
<1> SUFFICES ASSUME ParamInit PROVE ParamInv
  OBVIOUS
<1>1. argv \in Seqs!BoundedSeq(Options, MaxTyped)
  BY DEF ParamInit
<1>2. PICK m \in 0..MaxTyped : argv \in [1..m -> Options]
  BY <1>1 DEF Seqs!BoundedSeq, Seqs!SeqOf
<1>3. m \in Nat
  BY ParamConstants
<1>4. argv \in Seq(Options)
  BY <1>2, <1>3
<1>5. optind \in 0..Len(argv)
  <2>1. optind = 0
    BY DEF ParamInit
  <2>2. Len(argv) \in Nat
    BY <1>4
  <2>3. QED
    BY <2>1, <2>2
<1>6. \A n \in Settings : Given(n, optind) = {}
  <2>1. optind = 0
    BY DEF ParamInit
  <2>2. QED
    BY <2>1 DEF Given
<1>7. conf_para = [n \in Settings |-> Default] /\ phase = "command line"
  BY DEF ParamInit, Settings
<1>8. QED
  BY <1>4, <1>5, <1>6, <1>7 DEF ParamInv, Last

\* One more option: it replaces what was typed before for the same setting.
LEMMA ParseStep ==
    ASSUME ParamInv, Para_CmdParse
    PROVE  ParamInv'
<1>1. UNCHANGED <<argv, config>> /\ phase = "command line"
  BY DEF Para_CmdParse
<1>0. argv \in Seq(Options) /\ optind \in 0..Len(argv)
  BY DEF ParamInv
<1>5. Len(argv) \in Nat /\ optind \in Nat /\ optind <= Len(argv)
  BY <1>0
<1>6. conf_para \in [Settings -> Int \cup {Default, Empty}]
  BY DEF ParamInv
<1>7. \A n \in Settings : Last(n, optind, conf_para[n])
  BY <1>1 DEF ParamInv
<1>2. CASE optind = Len(argv)
  <2>1. phase' = "file" /\ UNCHANGED <<optind, conf_para>>
    BY <1>2 DEF Para_CmdParse
  <2>2. QED
    BY <1>0, <1>1, <1>2, <1>6, <1>7, <2>1 DEF ParamInv, Last, Given
<1>3. CASE optind # Len(argv)
  <2>1. PICK k \in 1..Len(argv) : k = optind + 1
    BY <1>3, <1>5
  <2>2. argv[k] \in Options /\ argv[k].name \in Settings \cup {"Help"} /\ argv[k].value \in Int /\ argv[k].colon \in BOOLEAN
    <3>1. argv[k] \in Options
      BY <1>0
    <3>2. argv[k] \in [name : Strings \cup Numbered \cup {"Help"}, colon : BOOLEAN, value : Int]
      BY <3>1, ParamConstants
    <3>3. QED
      BY <3>1, <3>2 DEF Settings
  <2>3. /\ optind' = k /\ phase' = phase
        /\ conf_para' = IF argv[k].name = "Help" \/ argv[k].colon THEN conf_para
                        ELSE [conf_para EXCEPT ![argv[k].name] = argv[k].value]
    BY <1>3, <2>1 DEF Para_CmdParse
  <2>4. conf_para' \in [Settings -> Int \cup {Default, Empty}]
    BY <1>6, <2>2, <2>3
  <2>5. ASSUME NEW n \in Settings PROVE Last(n, k, conf_para'[n])
    <3>1. CASE argv[k].name = n /\ ~argv[k].colon
      <4>1. conf_para'[n] = argv[k].value
        BY <1>6, <2>2, <2>3, <2>5, <3>1 DEF Settings, Strings, Numbered
      <4>2. k \in Given(n, k) /\ \A j \in Given(n, k) : j <= k
        BY <3>1 DEF Given
      <4>3. QED
        BY <4>1, <4>2 DEF Last
    <3>2. CASE ~(argv[k].name = n /\ ~argv[k].colon)
      <4>1. conf_para'[n] = conf_para[n]
        BY <1>6, <2>2, <2>3, <2>5, <3>2
      <4>2. Given(n, k) = Given(n, optind)
        <5>1. 1..k = 1..optind \cup {k}
          BY <1>5, <2>1
        <5>2. QED
          BY <3>2, <5>1 DEF Given
      <4>3. QED
        BY <1>7, <4>1, <4>2 DEF Last
    <3>3. QED
      BY <3>1, <3>2
  <2>6. \A n \in Settings : Last(n, optind, conf_para[n])'
    <3>1. optind' = k /\ argv' = argv
      BY <1>1, <2>3
    <3>2. QED
      BY <2>5, <3>1 DEF Last, Given
  <2>7. optind' \in 0..Len(argv')
    <3>1. k \in 0..Len(argv)
      BY <1>5, <2>1
    <3>2. QED
      BY <1>1, <2>3, <3>1
  <2>8. QED
    BY <1>0, <1>1, <2>3, <2>4, <2>6, <2>7 DEF ParamInv
<1>4. QED
  BY <1>2, <1>3

LEMMA FileStep ==
    ASSUME ParamInv, Para_FileParse
    PROVE  ParamInv'
<1>1. UNCHANGED <<argv, optind, config>> /\ phase = "file" /\ phase' \in {"file", "astray"} /\ config = "text"
  BY DEF Para_FileParse
<1>2. PICK S \in SUBSET {"CGIRoot", "DefaultFile"} :
          conf_para' = [n \in DOMAIN conf_para |-> IF n \in S THEN Empty ELSE conf_para[n]]
  BY DEF Para_FileParse, Setting
<1>3. conf_para' \in [Settings -> Int \cup {Default, Empty}]
  BY <1>2 DEF ParamInv
<1>4. \A n \in Settings : conf_para'[n] = IF n \in S THEN Empty ELSE conf_para[n]
  BY <1>2 DEF ParamInv
<1>5. ASSUME NEW n \in Settings
      PROVE  \/ Last(n, optind, conf_para[n])'
             \/ phase' # "command line" /\ conf_para'[n] = Empty /\ n \in {"CGIRoot", "DefaultFile"} /\ config' = "text"
  BY <1>1, <1>4 DEF ParamInv, Last, Given
<1>6. QED
  BY <1>1, <1>3, <1>5 DEF ParamInv

LEMMA ParamStep == ParamInv /\ [ParamNext]_paramVars => ParamInv'
<1> SUFFICES ASSUME ParamInv, [ParamNext]_paramVars PROVE ParamInv'
  OBVIOUS
<1>1. CASE ReadsNothing \/ FileEnds \/ do_listen \/ UNCHANGED paramVars
  <2>1. UNCHANGED <<argv, optind, config, conf_para>> /\ (phase' = "command line" <=> phase = "command line")
    BY <1>1 DEF ReadsNothing, FileEnds, do_listen, paramVars
  <2>2. QED
    BY <2>1 DEF ParamInv, Last, Given
<1>2. QED
  BY <1>1, ParseStep, FileStep DEF ParamNext

\* Of the values typed for a setting the last one counts.
LEMMA LastIsTyped ==
    ASSUME NEW n, NEW v, Last(n, Len(argv), v), argv \in Seq(Options)
    PROVE  v = Typed(n)
<1>1. Given(n, Len(argv)) = {i \in 1..Len(argv) : argv[i].name = n /\ ~argv[i].colon}
  BY DEF Given
<1>2. CASE Given(n, Len(argv)) = {}
  BY <1>1, <1>2 DEF Last, Typed
<1>3. CASE Given(n, Len(argv)) # {}
  <2> DEFINE G == Given(n, Len(argv))
  <2>1. PICK i \in G : (\A j \in G : j <= i) /\ v = argv[i].value
    BY <1>3 DEF Last
  <2>2. PICK k : k = CHOOSE l \in G : \A j \in G : j <= l
    OBVIOUS
  <2>3. k \in G /\ \A j \in G : j <= k
    BY <2>1, <2>2
  <2>4. i <= k /\ k <= i /\ i \in Int /\ k \in Int
    BY <2>1, <2>3 DEF Given
  <2>5. Typed(n) = argv[k].value
    BY <1>1, <1>3, <2>2 DEF Typed
  <2>6. QED
    BY <2>1, <2>4, <2>5
<1>4. QED
  BY <1>2, <1>3

\* StartsAsTyped: however many options and lines there are, a setting has the last value typed for it, or is one
\* of two strings that the file has emptied, and there are fewer slots than workers made at the start only when
\* fewer were asked for (shttpd_parameters.c:82-160, 221-236).
THEOREM StartedAsTyped == ParamSpec => []StartsAsTyped
<1>1. ParamInv => StartsAsTyped
  <2> SUFFICES ASSUME ParamInv, phase = "workers" PROVE StartsAsTyped
    BY DEF StartsAsTyped
  <2>1. ASSUME NEW n \in Settings, conf_para[n] # Typed(n)
        PROVE  conf_para[n] = Empty /\ n \in {"CGIRoot", "DefaultFile"} /\ config = "text"
    <3>1. ~Last(n, optind, conf_para[n])
      BY <2>1, LastIsTyped DEF ParamInv
    <3>2. QED
      BY <3>1 DEF ParamInv
  <2>2. "MaxClient" \in Settings /\ DOMAIN conf_para = Settings
    BY DEF ParamInv, Settings, Numbered
  <2>3. conf_para["MaxClient"] = Typed("MaxClient")
    BY <2>1, <2>2
  <2>4. MaxClientOf(conf_para) < InitClient <=> Typed("MaxClient") # Default /\ Typed("MaxClient") < InitClient
    BY <2>3 DEF MaxClientOf, InitClient
  <2>5. QED
    BY <2>1, <2>2, <2>4 DEF StartsAsTyped
<1>2. ParamSpec => []ParamInv
  BY ParamStarts, ParamStep, PTL DEF ParamSpec
<1>3. QED
  BY <1>1, <1>2, PTL
=============================================================================
