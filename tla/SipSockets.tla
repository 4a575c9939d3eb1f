----------------------------- MODULE SipSockets -----------------------------
(***************************************************************************)
(* The socket calls of the stack (sip_socket.c and sip_sock.c of           *)
(* LinuxCodeBak/Code/19), made by several threads at once without a lock.  *)
(* A descriptor is an index of the table sockets; a sock is the heap block *)
(* behind it, whose memory malloc gives again once it is freed.            *)
(*                                                                         *)
(* No call makes a control block of UDP: sock->pcb stays NULL, so that     *)
(* binding, connecting and sending reach no code of sip_udp.c, and nothing *)
(* ever posts the semaphore that a receiver waits for.                     *)
(***************************************************************************)
EXTENDS Integers, FiniteSets

CONSTANTS Threads, Socks, NoSock, NUM_SOCKETS

ASSUME SocketsAssumption == NUM_SOCKETS \in Nat \ {0} /\ NoSock \notin Socks

VARIABLES
    sockets,  \* the table: the sock of each descriptor, or NULL
    used,     \* the socks that malloc has given and nobody has freed
    number,   \* sock->socket
    pc, slot, \* of each thread: the step of its call, and the table entry it is at
    mine,     \* the sock that sip_socket has made
    state,    \* "ok", "crashed": NULL was followed, or "wild": freed or arbitrary memory was used
    openRace, closeRace \* history: two sip_socket overlapped; a sip_close overlapped another call

sockVars == <<sockets, used, number, pc, slot, mine, state, openRace, closeRace>>

Slots == 0..(NUM_SOCKETS - 1)
Opening == {"store", "number"}
Closing == {"free", "clear"}

SockInit ==
    /\ sockets = [i \in Slots |-> NoSock] /\ used = {}
    /\ number = [s \in Socks |-> -1]
    /\ pc = [t \in Threads |-> "idle"] /\ slot = [t \in Threads |-> 0] /\ mine = [t \in Threads |-> NoSock]
    /\ state = "ok" /\ openRace = FALSE /\ closeRace = FALSE

Go(t, step, i) == pc' = [pc EXCEPT ![t] = step] /\ slot' = [slot EXCEPT ![t] = i]
Return(t) == pc' = [pc EXCEPT ![t] = "idle"] /\ slot' = [slot EXCEPT ![t] = 0]
Stop(how) == state' = how /\ UNCHANGED <<sockets, used, number, pc, slot, mine, openRace, closeRace>>

(*************************************************************************)
(* sip_socket                                                             *)
(*************************************************************************)

FreeSlot(i) == sockets[i] = NoSock /\ \A j \in 0..(i - 1) : sockets[j] # NoSock

SockNew(s) == used' = used \cup {s} /\ number' = [number EXCEPT ![s] = -1]

\* SIP_SockNew gives s, and alloc_socket finds the first free entry or none, which deletes the sock again.
Socket(t, s) ==
    /\ pc[t] = "idle" /\ s \notin used
    /\ IF \E i \in Slots : FreeSlot(i)
       THEN /\ \E i \in Slots : FreeSlot(i) /\ Go(t, "store", i)
            /\ SockNew(s) /\ mine' = [mine EXCEPT ![t] = s]
            /\ openRace' = (openRace \/ \E u \in Threads \ {t} : pc[u] \in Opening)
            /\ closeRace' = (closeRace \/ \E u \in Threads \ {t} : pc[u] \in Closing)
            /\ UNCHANGED <<sockets, state>>
       ELSE UNCHANGED sockVars

\* A stream socket is not made: the pointer is whatever the stack held, NULL or not.
Stream(t) == pc[t] = "idle" /\ (UNCHANGED sockVars \/ Stop("wild"))

Store(t) ==
    /\ pc[t] = "store"
    /\ sockets' = [sockets EXCEPT ![slot[t]] = mine[t]]
    /\ Go(t, "number", slot[t])
    /\ UNCHANGED <<used, number, mine, state, openRace, closeRace>>

\* The sock never learns its descriptor (mutant: the assignment after alloc_socket is missing).
Number_Forgets(t) ==
    /\ pc[t] = "number"
    /\ Return(t) /\ mine' = [mine EXCEPT ![t] = NoSock]
    /\ UNCHANGED <<sockets, used, number, state, openRace, closeRace>>

Number(t) ==
    /\ pc[t] = "number"
    /\ IF mine[t] \in used
       THEN /\ number' = [number EXCEPT ![mine[t]] = slot[t]]
            /\ Return(t) /\ mine' = [mine EXCEPT ![t] = NoSock]
            /\ UNCHANGED <<sockets, used, state, openRace, closeRace>>
       ELSE Stop("wild")

(*************************************************************************)
(* The calls on a descriptor                                              *)
(*************************************************************************)

\* get_socket(i) for an index of the table; it reads through the entry's pointer.
Stale(i) == sockets[i] # NoSock /\ sockets[i] \notin used
Found(i) == sockets[i] \in used /\ number[sockets[i]] = i

Close(t, i) ==
    /\ pc[t] = "idle"
    /\ IF Stale(i) THEN Stop("wild")
       ELSE IF ~Found(i) THEN UNCHANGED sockVars
       ELSE /\ Go(t, "free", i)
            /\ closeRace' = (closeRace \/ \E u \in Threads \ {t} : pc[u] \in Opening \cup Closing)
            /\ UNCHANGED <<sockets, used, number, mine, state, openRace>>

\* SIP_SockDelete of what the entry holds now, which may be NULL again.
Free(t) ==
    /\ pc[t] = "free"
    /\ IF Stale(slot[t]) THEN Stop("wild")
       ELSE /\ used' = used \ {sockets[slot[t]]}
            /\ Go(t, "clear", slot[t])
            /\ UNCHANGED <<sockets, number, mine, state, openRace, closeRace>>

\* The entry keeps its pointer (mutant: sip_close does not reset socket->sock).
Clear_Keeps(t) ==
    /\ pc[t] = "clear"
    /\ Return(t)
    /\ UNCHANGED <<sockets, used, number, mine, state, openRace, closeRace>>

Clear(t) ==
    /\ pc[t] = "clear"
    /\ sockets' = [sockets EXCEPT ![slot[t]] = NoSock]
    /\ Return(t)
    /\ UNCHANGED <<used, number, mine, state, openRace, closeRace>>

\* sip_recvfrom waits in SIP_SockRecv; sip_recv would store through NULL, had it ever anything to return.
Recv(t, i) ==
    /\ pc[t] = "idle"
    /\ IF Stale(i) THEN Stop("wild")
       ELSE IF ~Found(i) THEN UNCHANGED sockVars
       ELSE Go(t, "recv", i) /\ UNCHANGED <<sockets, used, number, mine, state, openRace, closeRace>>

\* sip_send passes no address to sip_sendto, which reads it.
Send(t, i) ==
    /\ pc[t] = "idle"
    /\ IF Stale(i) THEN Stop("wild") ELSE IF ~Found(i) THEN UNCHANGED sockVars ELSE Stop("crashed")

\* SIP_SockBind, SIP_SockConnect and SIP_SockDisconnect of a sock without a control block.
NoControlBlock == UNCHANGED sockVars

BindOrConnect(t, i) == pc[t] = "idle" /\ IF Stale(i) THEN Stop("wild") ELSE NoControlBlock

\* The buffer of sip_sendto goes nowhere and is lost.
SendTo(t, i) == pc[t] = "idle" /\ IF Stale(i) THEN Stop("wild") ELSE UNCHANGED sockVars

SockNext ==
    /\ state = "ok"
    /\ \E t \in Threads :
        \/ \E s \in Socks : Socket(t, s)
        \/ Stream(t) \/ Store(t) \/ Number(t)
        \/ \E i \in Slots : Close(t, i) \/ Recv(t, i) \/ Send(t, i) \/ BindOrConnect(t, i) \/ SendTo(t, i)
        \/ Free(t) \/ Clear(t)

SockSpec == SockInit /\ [][SockNext]_sockVars

(*************************************************************************)
(* Properties                                                             *)
(*************************************************************************)

SockTypes ==
    /\ sockets \in [Slots -> Socks \cup {NoSock}] /\ used \subseteq Socks
    /\ number \in [Socks -> Slots \cup {-1}]
    /\ pc \in [Threads -> {"idle", "recv"} \cup Opening \cup Closing]
    /\ slot \in [Threads -> Slots] /\ mine \in [Threads -> Socks \cup {NoSock}]
    /\ state \in {"ok", "crashed", "wild"} /\ openRace \in BOOLEAN /\ closeRace \in BOOLEAN

\* As long as no two calls overlap, each sock that is in use belongs to one descriptor and knows it, and a
\* descriptor has no sock that is not in use: what a call in the middle of its steps leaves open is at its
\* own entry (sip_socket.c:46-52, 83-90, 104-111).
TableConsistent ==
    ~openRace /\ ~closeRace =>
        /\ \A i \in Slots : sockets[i] # NoSock =>
               \/ Found(i)
               \/ \E t \in Threads : slot[t] = i /\ (pc[t] = "clear" \/ (pc[t] = "number" /\ mine[t] = sockets[i]))
        /\ \A s \in used : \/ \E t \in Threads : (pc[t] = "store" /\ mine[t] = s)
                           \/ Cardinality({i \in Slots : sockets[i] = s}) = 1

\* Overlapping sip_socket calls lose a sock and give one descriptor twice, but no entry of the table comes to
\* point to freed memory unless a sip_close overlaps another call (sip_socket.c:46-48, 98-111).
OnlyCloseDangles ==
    ~closeRace => \A i \in Slots : Stale(i) => \E t \in Threads : pc[t] = "clear" /\ slot[t] = i
=============================================================================
