---------------------------- MODULE EchoServers ----------------------------
(* The clients and servers of chapters 7 and 9: the client sends what it reads from its terminal and reads an     *)
(* answer, a child of the server answers each read with the number of bytes. TCP keeps no boundaries: a line is    *)
(* one piece or several, and one read takes any number of the pieces, or of the answers, that have come.           *)
EXTENDS Naturals, Sequences, FiniteSets

CONSTANTS Users,      \* the clients
          MaxLines,   \* bound: lines a user types
          MaxPieces   \* bound: pieces of a line, and answers in the buffer of a client

ASSUME EchoConstants == IsFiniteSet(Users) /\ MaxLines \in Nat /\ MaxPieces \in Nat \ {0}

VARIABLES echo,     \* the pair of programs that runs
          user,     \* where each client is
          lines,    \* lines it has sent
          up,       \* pieces on their way to the server
          down,     \* answers on their way to the client
          pending,  \* connections that wait for accept
          parent,   \* where the accepting process is
          child,    \* where the child of each client is
          deaf,     \* children whose recvmsg and sendmsg fail on the entries of the vector that were never set
          broken    \* connections on which the peer has answered with a reset
echoVars == <<echo, user, lines, up, down, pending, parent, child, deaf, broken>>

Pair(closesFirst, clientOnPipe, entries) ==
    [closesFirst |-> closesFirst, clientOnPipe |-> clientOnPipe, entries |-> entries]

Chapter7 == Pair(FALSE, "dies", 0)
Chapter7Log == Pair(FALSE, "dies", 0)
Chapter7Bak == Pair(TRUE, "goes on", 0)
RecvSend == Pair(TRUE, "goes on", 0)
RecvSendBak == RecvSend
ReadvWritev == Pair(TRUE, "dies", 3)
ReadvWritevAgain == ReadvWritev
ReadvWritevBuilt == ReadvWritev
ReadvWritevBak == ReadvWritev
\* msg_iovlen says thirty, and three were allocated.
RecvmsgSendmsg == Pair(TRUE, "dies", 30)
RecvmsgSendmsgBak == RecvmsgSendmsg
Pairs == {Chapter7, Chapter7Log, Chapter7Bak, RecvSend, RecvSendBak, ReadvWritev, ReadvWritevAgain,
          ReadvWritevBuilt, ReadvWritevBak, RecvmsgSendmsg, RecvmsgSendmsgBak}

\* Children that have the listening socket still open, as the parent has.
Holders == {u \in Users : IF echo.closesFirst THEN child[u] = "starting"
                          ELSE child[u] \in {"starting", "reading", "replying", "failed"}}
Listening == parent # "dead" \/ Holders # {}
Pending(u) == \E i \in DOMAIN pending : pending[i] = u
\* Nobody has the server's end of the connection open.
PeerClosed(u) == \/ child[u] \in {"dead", "refused"}
                 \/ child[u] = "none" /\ Pending(u) /\ ~Listening

EchoInit == /\ echo \in Pairs
            /\ user = [u \in Users |-> "new"] /\ lines = [u \in Users |-> 0]
            /\ up = [u \in Users |-> 0] /\ down = [u \in Users |-> 0]
            /\ pending = <<>> /\ parent = "accept"
            /\ child = [u \in Users |-> "none"] /\ deaf = {} /\ broken = {}

Call7(u) == /\ user[u] = "new"
            /\ IF Listening THEN pending' = Append(pending, u) /\ user' = [user EXCEPT ![u] = "typing"]
               ELSE user' = [user EXCEPT ![u] = "gone"] /\ UNCHANGED pending
            /\ UNCHANGED <<echo, lines, up, down, parent, child, deaf, broken>>

\* The first line after the server's end is closed calls up a reset, the next one SIGPIPE.
SendLine(u) == /\ user[u] = "typing" /\ lines[u] < MaxLines
               /\ lines' = [lines EXCEPT ![u] = @ + 1]
               /\ \/ /\ ~PeerClosed(u) /\ \E n \in 1 .. MaxPieces : up' = [up EXCEPT ![u] = @ + n]
                     /\ user' = [user EXCEPT ![u] = "waiting"] /\ UNCHANGED broken
                  \/ /\ PeerClosed(u) /\ u \notin broken /\ broken' = broken \cup {u}
                     /\ user' = [user EXCEPT ![u] = "waiting"] /\ UNCHANGED up
                  \/ /\ PeerClosed(u) /\ u \in broken
                     /\ user' = [user EXCEPT ![u] = IF echo.clientOnPipe = "dies" THEN "gone" ELSE "waiting"]
                     /\ UNCHANGED <<up, broken>>
               /\ UNCHANGED <<echo, down, pending, parent, child, deaf>>

ReadAnswer(u) == /\ user[u] = "waiting"
                 /\ \/ \E n \in 1 .. down[u] : down' = [down EXCEPT ![u] = @ - n]
                    \/ down[u] = 0 /\ PeerClosed(u) /\ UNCHANGED down
                 /\ user' = [user EXCEPT ![u] = "typing"]
                 /\ UNCHANGED <<echo, lines, up, pending, parent, child, deaf, broken>>

\* The connection of a client that leaves answers unread is reset.
Leave(u) == /\ user[u] \in {"typing", "waiting"}
            /\ user' = [user EXCEPT ![u] = "gone"]
            /\ broken' = IF down[u] > 0 THEN broken \cup {u} ELSE broken
            /\ down' = [down EXCEPT ![u] = 0]
            /\ UNCHANGED <<echo, lines, up, pending, parent, child, deaf>>

\* The parent leaves the connection open (mutant: close in the branch of the child only).
AcceptFork_Keeps == /\ parent = "accept" /\ pending # <<>>
                    /\ child' \in {[child EXCEPT ![Head(pending)] = "starting"], child}
                    /\ pending' = Tail(pending)
                    /\ UNCHANGED <<echo, user, lines, up, down, parent, deaf, broken>>

\* When fork fails, the parent closes the connection like that of a child.
AcceptFork == /\ parent = "accept" /\ pending # <<>>
              /\ LET u == Head(pending) IN
                 \/ child' = [child EXCEPT ![u] = "starting"]
                 \/ child' = [child EXCEPT ![u] = "refused"]
              /\ pending' = Tail(pending)
              /\ UNCHANGED <<echo, user, lines, up, down, parent, deaf, broken>>

Begin(u) == /\ child[u] = "starting"
            /\ child' = [child EXCEPT ![u] = "reading"]
            /\ deaf' \in IF echo.entries > 3 THEN {deaf, deaf \cup {u}} ELSE {deaf}
            /\ UNCHANGED <<echo, user, lines, up, down, pending, parent, broken>>

\* At the end of the connection the child goes back to accept, on a socket that it has closed, for ever.
Read(u) == /\ child[u] = "reading" /\ u \notin deaf
           /\ \/ /\ \E n \in 1 .. up[u] : up' = [up EXCEPT ![u] = @ - n]
                 /\ child' = [child EXCEPT ![u] = "replying"]
              \/ /\ up[u] = 0 /\ user[u] = "gone" /\ UNCHANGED up
                 /\ \/ child' = [child EXCEPT ![u] = "spinning"]
                    \/ u \in broken /\ child' = [child EXCEPT ![u] = "failed"]
           /\ UNCHANGED <<echo, user, lines, down, pending, parent, deaf, broken>>

Reply(u) == /\ child[u] = "replying"
            /\ \/ /\ user[u] # "gone" /\ down[u] < MaxPieces * MaxLines
                  /\ down' = [down EXCEPT ![u] = @ + 1]
                  /\ child' = [child EXCEPT ![u] = "reading"] /\ UNCHANGED broken
               \/ /\ user[u] = "gone" /\ broken' = broken \cup {u}
                  /\ child' = [child EXCEPT ![u] = "reading"] /\ UNCHANGED down
               \/ /\ user[u] = "gone" /\ u \in broken
                  /\ child' = [child EXCEPT ![u] = "dead"] /\ UNCHANGED <<down, broken>>
            /\ UNCHANGED <<echo, user, lines, up, pending, parent, deaf>>

\* read has returned -1, which is not 0: the answer to it raises SIGPIPE.
ReplyToError(u) == /\ child[u] = "failed" /\ child' = [child EXCEPT ![u] = "dead"]
                   /\ UNCHANGED <<echo, user, lines, up, down, pending, parent, deaf, broken>>

\* kill ends the parent alone, the terminal's SIGINT every process of the server.
KillParent == /\ parent = "accept" /\ parent' = "dead"
              /\ UNCHANGED <<echo, user, lines, up, down, pending, child, deaf, broken>>

InterruptServer == /\ parent = "accept" /\ parent' = "dead"
                   /\ child' = [u \in Users |-> IF child[u] \in {"none", "refused"} THEN child[u] ELSE "dead"]
                   /\ UNCHANGED <<echo, user, lines, up, down, pending, deaf, broken>>

ChildStep(u) == Begin(u) \/ Read(u) \/ Reply(u) \/ ReplyToError(u)
EchoNext == \/ \E u \in Users : Call7(u) \/ SendLine(u) \/ ReadAnswer(u) \/ Leave(u) \/ ChildStep(u)
            \/ AcceptFork \/ KillParent \/ InterruptServer

EchoSpec == /\ EchoInit /\ [][EchoNext]_echoVars
            /\ WF_echoVars(AcceptFork) /\ \A u \in Users : WF_echoVars(ChildStep(u)) /\ WF_echoVars(ReadAnswer(u))
-----------------------------------------------------------------------------
\* The parent is gone, and a child that closes the listening socket only after its work keeps the others' calls.
Stranded(u) == parent = "dead" /\ Pending(u) /\ Holders # {}

(* A client that waits for an answer stops waiting: however the lines are cut into pieces and the answers come    *)
(* together, whoever dies or leaves, an answer or the end of the connection comes. Except for a client whose child *)
(* cannot use its vector of thirty entries, and one that nobody accepts while a child keeps the socket open.       *)
LineAnswered == \A u \in Users : user[u] = "waiting" ~> (user[u] # "waiting" \/ u \in deaf \/ Stranded(u))

=============================================================================
