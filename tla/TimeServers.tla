---------------------------- MODULE TimeServers ----------------------------
(* The time servers of chapter 14: clients send "TIME" and wait for the date. One server answers alone, others  *)
(* share the socket between processes or threads made beforehand, others hand each client to a process or a     *)
(* thread of its own. A program is the record of what distinguishes it; the actions are the calls of the loop.  *)
EXTENDS Naturals, Sequences, FiniteSets

CONSTANTS Clients,       \* each runs one of the clients once
          Nobody,        \* no client
          BACKLOG,       \* connections that wait for accept
          MaxSlow,       \* bound: clients that may never send their request
          MaxForkFails   \* bound: failing calls of fork

ASSUME TimeConstants == /\ IsFiniteSet(Clients) /\ Nobody \notin Clients
                        /\ BACKLOG \in Nat \ {0} /\ MaxSlow \in Nat /\ MaxForkFails \in Nat

VARIABLES prog,      \* the program that runs
          slow,      \* the clients that may be silent for ever
          client,    \* what each client does
          unread,    \* clients whose request is in the server's buffer of their connection
          answers,   \* clients with an answer on its way
          queue,     \* what the shared socket holds: connections, or datagrams
          file,      \* the connection behind each descriptor of an accepted client
          owners,    \* the processes that have the descriptor open
          last,      \* the variable s_c of the loop that hands its clients over
          pc,        \* the loops and, after them, the handlers in the order of their making
          fd,        \* their descriptors
          conn,      \* the connection a handler's recv is in, or the sender of its datagram
          mutex,     \* the holder of ALOCK, or 0
          forkFails
timeVars == <<prog, slow, client, unread, answers, queue, file, owners, last, pc, fd, conn, mutex, forkFails>>

Program(socket, call, listens, loops, locks, hand) ==
    [socket |-> socket, call |-> call, listens |-> listens, loops |-> loops, locks |-> locks, hand |-> hand]

LoopUdp == Program("datagram", "recvfrom", FALSE, 1, FALSE, "self")
LoopTcp == Program("stream", "accept", TRUE, 1, FALSE, "self")
SharedUdp == Program("datagram", "recvfrom", FALSE, 2, FALSE, "self")
SharedTcp == Program("stream", "accept", TRUE, 3, FALSE, "self")
SharedTcpAgain == SharedTcp
ForkTcp == Program("stream", "accept", TRUE, 1, FALSE, "fork")
ThreadTcp == Program("stream", "accept", TRUE, 1, FALSE, "thread")
LockTcp == Program("stream", "accept", TRUE, 2, TRUE, "self")
LoopUdpBak == LoopUdp
LoopTcpBak == LoopTcp
\* Made for datagrams, these two create a stream socket, on which recvfrom fails at once, again and again.
SharedUdpBak == Program("stream", "recvfrom", FALSE, 2, FALSE, "self")
ForkUdpBak == Program("stream", "recvfrom", FALSE, 1, FALSE, "fork")
SharedTcpBak == Program("stream", "accept", TRUE, 2, FALSE, "self")
ForkTcpBak == ForkTcp
\* main closes the socket without having called handle_connect.
ThreadTcpUnused == Program("stream", "accept", TRUE, 0, FALSE, "thread")

Programs == {LoopUdp, LoopTcp, SharedUdp, SharedTcp, SharedTcpAgain, ForkTcp, ThreadTcp, LockTcp, LoopUdpBak,
             LoopTcpBak, SharedUdpBak, ForkUdpBak, SharedTcpBak, ForkTcpBak, ThreadTcpUnused}

Tasks == 1 .. (Cardinality(Clients) + 3)
Fds == 1 .. Cardinality(Clients)
Live == {p \in Tasks : pc[p] \notin {"none", "ended"}}
FirstPc(pr) == IF pr.locks THEN "lock" ELSE "take"

TimeInit == /\ prog \in Programs
            /\ slow \in {S \in SUBSET Clients : Cardinality(S) <= MaxSlow}
            /\ client = [c \in Clients |-> "new"]
            /\ unread = {} /\ answers = {} /\ queue = <<>>
            /\ file = [f \in Fds |-> Nobody] /\ owners = [f \in Fds |-> {}] /\ last = 0
            /\ pc = [p \in Tasks |-> IF p <= prog.loops THEN FirstPc(prog) ELSE "none"]
            /\ fd = [p \in Tasks |-> 0] /\ conn = [p \in Tasks |-> Nobody]
            /\ mutex = 0 /\ forkFails = 0

\* No descriptor and no call of the server refers to c's connection any more.
Dropped(c) == \/ Live = {}
              \/ c \notin {file[f] : f \in Fds} \cup {conn[p] : p \in Tasks} \cup {queue[i] : i \in DOMAIN queue}

Connect(c) == /\ prog.call = "accept" /\ client[c] = "new"
              /\ IF prog.listens /\ Live # {}
                 THEN /\ Len(queue) <= BACKLOG
                      /\ queue' = Append(queue, c) /\ client' = [client EXCEPT ![c] = "connected"]
                 ELSE client' = [client EXCEPT ![c] = "failed"] /\ UNCHANGED queue
              /\ UNCHANGED <<prog, slow, unread, answers, file, owners, last, pc, fd, conn, mutex, forkFails>>

Ask(c) == /\ client[c] = "connected"
          /\ client' = [client EXCEPT ![c] = "asked"] /\ unread' = unread \cup {c}
          /\ UNCHANGED <<prog, slow, answers, queue, file, owners, last, pc, fd, conn, mutex, forkFails>>

\* A datagram may be lost on its way, or find no socket of its kind.
AskByDatagram(c) == /\ prog.call = "recvfrom" /\ client[c] = "new"
                    /\ \/ /\ prog.socket = "datagram" /\ Live # {}
                          /\ queue' = Append(queue, c) /\ client' = [client EXCEPT ![c] = "asked"]
                       \/ client' = [client EXCEPT ![c] = "lost"] /\ UNCHANGED queue
                    /\ UNCHANGED <<prog, slow, unread, answers, file, owners, last, pc, fd, conn, mutex, forkFails>>

Receive(c) == /\ client[c] = "asked"
              /\ \/ c \in answers /\ client' = [client EXCEPT ![c] = "told"]
                 \/ /\ prog.call = "accept" /\ c \notin answers /\ Dropped(c)
                    /\ client' = [client EXCEPT ![c] = "failed"]
              /\ UNCHANGED <<prog, slow, unread, answers, queue, file, owners, last, pc, fd, conn, mutex, forkFails>>

GiveUp(c) == /\ client[c] \in {"connected", "asked"}
             /\ client' = [client EXCEPT ![c] = "gone"]
             /\ UNCHANGED <<prog, slow, unread, answers, queue, file, owners, last, pc, fd, conn, mutex, forkFails>>

NewFd == CHOOSE f \in Fds : file[f] = Nobody /\ \A g \in Fds : g < f => file[g] # Nobody
NewTask == CHOOSE q \in Tasks : pc[q] = "none" /\ \A r \in Tasks : r < q => pc[r] # "none"
Goes(p, where) == pc' = [pc EXCEPT ![p] = where]

Lock(p) == /\ pc[p] = "lock" /\ mutex = 0
           /\ mutex' = p /\ Goes(p, "take")
           /\ UNCHANGED <<prog, slow, client, unread, answers, queue, file, owners, last, fd, conn, forkFails>>

\* The mutex is never released (mutant: no unlock after accept).
AfterAccept_Holds == IF prog.hand = "self" THEN "recv" ELSE "hand"

AfterAccept == IF prog.locks THEN "unlock" ELSE IF prog.hand = "self" THEN "recv" ELSE "hand"

Accept(p) == /\ pc[p] = "take" /\ prog.call = "accept" /\ queue # <<>>
             /\ file' = [file EXCEPT ![NewFd] = Head(queue)] /\ owners' = [owners EXCEPT ![NewFd] = {p}]
             /\ fd' = [fd EXCEPT ![p] = NewFd] /\ last' = NewFd
             /\ queue' = Tail(queue) /\ Goes(p, AfterAccept)
             /\ UNCHANGED <<prog, slow, client, unread, answers, conn, mutex, forkFails>>

Unlock(p) == /\ pc[p] = "unlock"
             /\ mutex' = 0 /\ Goes(p, "recv")
             /\ UNCHANGED <<prog, slow, client, unread, answers, queue, file, owners, last, fd, conn, forkFails>>

RecvFrom(p) == /\ pc[p] = "take" /\ prog.call = "recvfrom" /\ prog.socket = "datagram" /\ queue # <<>>
               /\ conn' = [conn EXCEPT ![p] = Head(queue)] /\ queue' = Tail(queue)
               /\ Goes(p, "send")
               /\ UNCHANGED <<prog, slow, client, unread, answers, file, owners, last, fd, mutex, forkFails>>

\* The child has the client's descriptor too, and the parent closes its own.
Fork(p) == /\ pc[p] = "hand" /\ prog.hand = "fork"
           /\ pc' = [pc EXCEPT ![p] = "drop", ![NewTask] = "recv"]
           /\ fd' = [fd EXCEPT ![NewTask] = fd[p]]
           /\ owners' = [owners EXCEPT ![fd[p]] = @ \cup {NewTask}]
           /\ UNCHANGED <<prog, slow, client, unread, answers, queue, file, last, conn, mutex, forkFails>>

Closed(p, f) == LET left == IF prog.hand = "thread" THEN {} ELSE owners[f] \ {p} IN
                /\ owners' = [owners EXCEPT ![f] = left]
                /\ file' = [file EXCEPT ![f] = IF left = {} THEN Nobody ELSE @]

\* The parent keeps the descriptor (mutant: no close after fork).
Drop_Keeps(p) == /\ pc[p] = "drop" /\ Goes(p, "take")
                 /\ UNCHANGED <<prog, slow, client, unread, answers, queue, file, owners, last, fd, conn, mutex,
                                forkFails>>

Drop(p) == /\ pc[p] = "drop"
           /\ Closed(p, fd[p]) /\ Goes(p, "take")
           /\ UNCHANGED <<prog, slow, client, unread, answers, queue, last, fd, conn, mutex, forkFails>>

\* With -1 from fork the parent takes itself for the child, answers, and leaves its loop.
ForkFails(p) == /\ pc[p] = "hand" /\ prog.hand = "fork" /\ forkFails < MaxForkFails
                /\ forkFails' = forkFails + 1 /\ Goes(p, "recv")
                /\ UNCHANGED <<prog, slow, client, unread, answers, queue, file, owners, last, fd, conn, mutex>>

\* The thread gets the address of s_c, which the next accept overwrites.
CreateThread(p) == /\ pc[p] = "hand" /\ prog.hand = "thread"
                   /\ pc' = [pc EXCEPT ![p] = "take", ![NewTask] = "start"]
                   /\ UNCHANGED <<prog, slow, client, unread, answers, queue, file, owners, last, fd, conn, mutex,
                                  forkFails>>

Start(p) == /\ pc[p] = "start"
            /\ fd' = [fd EXCEPT ![p] = last] /\ Goes(p, "recv")
            /\ UNCHANGED <<prog, slow, client, unread, answers, queue, file, owners, last, conn, mutex, forkFails>>

Recv(p) == /\ pc[p] = "recv"
           /\ conn' = [conn EXCEPT ![p] = file[fd[p]]]
           /\ Goes(p, IF file[fd[p]] = Nobody THEN "close" ELSE "wait")
           /\ UNCHANGED <<prog, slow, client, unread, answers, queue, file, owners, last, fd, mutex, forkFails>>

RecvReturns(p) == /\ pc[p] = "wait"
                  /\ \/ conn[p] \in unread /\ unread' = unread \ {conn[p]} /\ Goes(p, "send")
                     \/ /\ conn[p] \notin unread /\ client[conn[p]] \in {"told", "failed", "gone"}
                        /\ Goes(p, "close") /\ UNCHANGED unread
                  /\ conn' = [conn EXCEPT ![p] = Nobody]
                  /\ UNCHANGED <<prog, slow, client, answers, queue, file, owners, last, fd, mutex, forkFails>>

Send(p) == /\ pc[p] = "send" /\ prog.call = "accept"
           /\ answers' = answers \cup ({file[fd[p]]} \ {Nobody}) /\ Goes(p, "close")
           /\ UNCHANGED <<prog, slow, client, unread, queue, file, owners, last, fd, conn, mutex, forkFails>>

SendTo(p) == /\ pc[p] = "send" /\ prog.call = "recvfrom"
             /\ \/ answers' = answers \cup {conn[p]} /\ UNCHANGED client
                \/ /\ client' = [client EXCEPT ![conn[p]] = IF @ = "asked" THEN "lost" ELSE @]
                   /\ UNCHANGED answers
             /\ conn' = [conn EXCEPT ![p] = Nobody] /\ Goes(p, "take")
             /\ UNCHANGED <<prog, slow, unread, queue, file, owners, last, fd, mutex, forkFails>>

Close(p) == /\ pc[p] = "close"
            /\ Closed(p, fd[p]) /\ fd' = [fd EXCEPT ![p] = 0]
            /\ Goes(p, IF prog.hand = "self" THEN FirstPc(prog) ELSE "ended")
            /\ UNCHANGED <<prog, slow, client, unread, answers, queue, last, conn, mutex, forkFails>>

\* SIGINT from the terminal ends every process of the server.
Interrupt == /\ Live # {}
             /\ pc' = [p \in Tasks |-> IF p \in Live THEN "ended" ELSE pc[p]]
             /\ file' = [f \in Fds |-> Nobody] /\ owners' = [f \in Fds |-> {}]
             /\ fd' = [p \in Tasks |-> 0] /\ conn' = [p \in Tasks |-> Nobody]
             /\ UNCHANGED <<prog, slow, client, unread, answers, queue, last, mutex, forkFails>>

Call(p) == \/ Lock(p) \/ Accept(p) \/ Unlock(p) \/ RecvFrom(p) \/ Fork(p) \/ Drop(p) \/ CreateThread(p)
           \/ Start(p) \/ Recv(p) \/ RecvReturns(p) \/ Send(p) \/ SendTo(p) \/ Close(p)

TimeNext == \/ \E c \in Clients : Connect(c) \/ Ask(c) \/ AskByDatagram(c) \/ Receive(c) \/ GiveUp(c)
            \/ \E p \in Tasks : Call(p) \/ ForkFails(p)
            \/ Interrupt

(* The processes and threads run on; a client that is not slow sends its request, and reads its answer. *)
TimeFairness == /\ \A p \in Tasks : WF_timeVars(Call(p))
                /\ \A c \in Clients : WF_timeVars(c \notin slow /\ Ask(c)) /\ WF_timeVars(Receive(c))

TimeSpec == TimeInit /\ [][TimeNext]_timeVars /\ TimeFairness
-----------------------------------------------------------------------------
(* Except where the handler is a thread with the address of the loop's variable, an open descriptor of a client  *)
(* is in the hands of one task that will use it, and of no task that has forgotten to close it (the close of     *)
(* the parent after fork, and of the handlers of all the servers).                                               *)
HeldByOne == prog.hand # "thread" =>
    \A f \in Fds : /\ (file[f] = Nobody) = (owners[f] = {})
                   /\ \A p \in owners[f] : fd[p] = f /\ pc[p] \in {"unlock", "hand", "drop", "recv", "wait", "send", "close"}
                   /\ Cardinality({p \in owners[f] : pc[p] # "drop"}) <= 1

(* Slow clients cost a server that answers in its own loops one loop each, and a server with a process for each   *)
(* client nothing. While a loop is left, whoever asks in time gets the time, unless the server is stopped, fork  *)
(* fails, or a datagram is lost.                                                                                  *)
Able(c) == c \notin slow /\ prog.hand # "thread" /\ (prog.hand = "self" => Cardinality(slow) < prog.loops)
TimeTold == \A c \in Clients : (Able(c) /\ client[c] \in {"connected", "asked"}) ~>
                               (client[c] \in {"told", "gone", "lost"} \/ Live = {} \/ forkFails > 0)
=============================================================================
