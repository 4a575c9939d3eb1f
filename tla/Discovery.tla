----------------------------- MODULE Discovery -----------------------------
(* Finding a server by broadcast, as in 11.2.3: the client asks, waits in select, reads one datagram and asks      *)
(* again, ten times in all; servers answer whoever asks. The network loses, copies and reorders datagrams, and a   *)
(* stranger may send the client something. Nobody sets from_len before recvfrom, so that it is bad (negative: the   *)
(* datagram is read, recvfrom fails), short (the address stays as it was) or full; recvfrom makes a short one full. *)
EXTENDS Integers, Sequences

CONSTANTS Servers, Stranger, Nowhere, \* who sends; an address that was never written
          times,      \* rounds of the client: ten in the code
          MaxCopies,  \* bound: datagrams that the network copies
          MaxStrange  \* bound: datagrams of the stranger

ASSUME DiscoveryConstants == /\ times \in Nat /\ MaxCopies \in Nat /\ MaxStrange \in Nat
                             /\ Stranger \notin Servers /\ Nowhere \notin Servers \cup {Stranger}

VARIABLES round, at,    \* the client's round, and where it is in it
          from_len,     \* of the client and of the servers
          from_addr,    \* of the client
          buff,         \* what the client's buffer begins with
          found,        \* addresses that the client has printed
          inbox,        \* datagrams in the client's socket
          asking, answering, \* datagrams under way from and to the client, of each server
          served,       \* servers that have answered
          copies, strange
asker == <<round, at, from_addr, buff, found>>
net == <<asking, answering>>
discVars == <<asker, from_len, inbox, net, served, copies, strange>>

Me == "client"

DiscInit == /\ round = 0 /\ at = "send" /\ from_addr = Nowhere /\ buff = "junk" /\ found = {}
            /\ from_len \in [Servers \cup {Me} -> {"bad", "short", "full"}]
            /\ inbox = <<>> /\ asking = [s \in Servers |-> 0] /\ answering = [s \in Servers |-> 0]
            /\ served = {} /\ copies = 0 /\ strange = 0

Broadcast == /\ at = "send"
             /\ \/ round = times /\ at' = "done" /\ UNCHANGED <<round, asking>>
                \/ round < times /\ at' = "select" /\ asking' = [s \in Servers |-> asking[s] + 1] /\ UNCHANGED round
                \/ round < times /\ round' = round + 1 /\ UNCHANGED <<at, asking>>
             /\ UNCHANGED <<from_addr, buff, found, from_len, inbox, answering, served, copies, strange>>

\* select waits two seconds in all, as it leaves in timeout what is left of them; then it returns at once.
Listen == /\ at = "select"
          /\ IF inbox # <<>> THEN at' = "recv" /\ UNCHANGED round
             ELSE at' = "send" /\ round' = round + 1
          /\ UNCHANGED <<from_addr, buff, found, from_len, inbox, net, served, copies, strange>>

\* What the buffer holds: an empty datagram, or one that is the beginning of an answer, leaves an answer in it.
Holds(d) == IF d.text = "empty" THEN buff ELSE d.text
Sender(d) == IF from_len[Me] = "full" THEN d.from ELSE from_addr
Full(who) == from_len' = [from_len EXCEPT ![who] = IF @ = "short" THEN "full" ELSE @]

\* Every datagram is taken for an answer (mutant: without strstr).
Hear_AnyText == /\ at = "recv" /\ at' = "send" /\ round' = round + 1 /\ inbox' = Tail(inbox)
                /\ buff' = Holds(Head(inbox)) /\ from_addr' = Sender(Head(inbox)) /\ Full(Me)
                /\ found' = found \cup {from_addr'}
                /\ UNCHANGED <<net, served, copies, strange>>

\* The break leaves the switch only, so that the client goes on asking after an answer.
Hear == /\ at = "recv" /\ at' = "send" /\ round' = round + 1 /\ inbox' = Tail(inbox)
        /\ buff' = Holds(Head(inbox)) /\ from_addr' = Sender(Head(inbox)) /\ Full(Me)
        /\ found' = IF buff' = "ack" THEN found \cup {from_addr'} ELSE found
        /\ UNCHANGED <<net, served, copies, strange>>

\* With a bad length the server reads the request and has nothing to compare; with a short one it answers nobody.
Serve(s) == /\ asking[s] > 0 /\ asking' = [asking EXCEPT ![s] = @ - 1] /\ Full(s)
            /\ IF from_len[s] = "full"
               THEN answering' = [answering EXCEPT ![s] = @ + 1] /\ served' = served \cup {s}
               ELSE UNCHANGED <<answering, served>>
            /\ UNCHANGED <<asker, inbox, copies, strange>>

Deliver(s) == /\ answering[s] > 0 /\ at # "done" /\ answering' = [answering EXCEPT ![s] = @ - 1]
              /\ inbox' = Append(inbox, [from |-> s, text |-> "ack"])
              /\ UNCHANGED <<asker, from_len, asking, served, copies, strange>>

Lose(s) == /\ \/ asking[s] > 0 /\ asking' = [asking EXCEPT ![s] = @ - 1] /\ UNCHANGED answering
              \/ answering[s] > 0 /\ answering' = [answering EXCEPT ![s] = @ - 1] /\ UNCHANGED asking
           /\ UNCHANGED <<asker, from_len, inbox, served, copies, strange>>

Copy(s) == /\ copies < MaxCopies /\ copies' = copies + 1
           /\ \/ asking[s] > 0 /\ asking' = [asking EXCEPT ![s] = @ + 1] /\ UNCHANGED answering
              \/ answering[s] > 0 /\ answering' = [answering EXCEPT ![s] = @ + 1] /\ UNCHANGED asking
           /\ UNCHANGED <<asker, from_len, inbox, served, strange>>

Intrude == /\ strange < MaxStrange /\ strange' = strange + 1 /\ at # "done"
           /\ \E text \in {"other", "empty"} : inbox' = Append(inbox, [from |-> Stranger, text |-> text])
           /\ UNCHANGED <<asker, from_len, net, served, copies>>

Client == Broadcast \/ Listen \/ Hear
DiscNext == Client \/ Intrude \/ \E s \in Servers : Serve(s) \/ Deliver(s) \/ Lose(s) \/ Copy(s)
DiscSpec == DiscInit /\ [][DiscNext]_discVars
-----------------------------------------------------------------------------
(* The client prints the address of a server only when that server has answered, whatever is lost, copied or late; *)
(* an address that was never written when from_len was bad, or short at the first answer; and the stranger's only   *)
(* after an answer, which an empty datagram leaves in the buffer (client.c:66-73).                                 *)
FoundAnswered == /\ found # {} => served # {}
                 /\ found \subseteq served \cup {Nowhere, Stranger}
                 /\ from_len[Me] = "bad" => found \subseteq {Nowhere}
                 /\ Stranger \in found => found \cap (served \cup {Nowhere}) # {}
=============================================================================
