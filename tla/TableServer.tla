---------------------------- MODULE TableServer ----------------------------
(* The time server of 14.4.2: one thread accepts and puts the descriptors into connect_host, the other selects    *)
(* over that table and answers. They share the table and connect_number without a lock. Each access to either is  *)
(* a step; the acceptor's test of a free entry and its store are one, as only the acceptor fills entries.         *)
EXTENDS Integers, Sequences

CONSTANTS NumCallers,  \* bound: clients, numbered in the order of their calls
          CLIENTNUM,   \* length of connect_host
          Cleared,     \* entries that memset(connect_host, -1, CLIENTNUM) reaches: it counts bytes
          Descriptors, \* descriptors above 0 that the process may have
          MaxNumber    \* bound on connect_number, which failing accepts raise without end

ASSUME TableConstants == /\ NumCallers \in Nat
                         /\ CLIENTNUM \in Nat /\ Cleared \in 0 .. CLIENTNUM
                         /\ Descriptors \in Nat /\ MaxNumber \in Nat

VARIABLES caller,          \* what each client does
          requests,        \* clients whose request is in the server's buffer
          backlog,         \* connections that wait for accept
          behind,          \* the client behind each open descriptor
          answered,        \* clients the server has sent the time
          connect_host, connect_number,
          typed,           \* something can be read from descriptor 0, and nobody reads it
          accPc, accFd, accI, accNumber,
          selPc, scanfd, selI, selNumber
tableVars == <<caller, requests, backlog, behind, answered, connect_host, connect_number, typed,
               accPc, accFd, accI, accNumber, selPc, scanfd, selI, selNumber>>
accVars == <<accPc, accFd, accI, accNumber>>
selVars == <<selPc, scanfd, selI, selNumber>>
outside == <<caller, requests, backlog, typed>>

Callers == 1 .. NumCallers
None == 0
Entries == 1 .. CLIENTNUM
Numbers == 1 .. Descriptors

TableInit == /\ caller = [c \in Callers |-> "new"] /\ requests = {} /\ backlog = <<>>
             /\ behind = [f \in Numbers |-> None] /\ answered = {}
             /\ connect_host = [i \in Entries |-> IF i <= Cleared THEN -1 ELSE 0] /\ connect_number = 0
             /\ typed = FALSE
             /\ accPc = "accept" /\ accFd = -1 /\ accI = 1 /\ accNumber = 0
             /\ selPc = "build" /\ scanfd = {} /\ selI = 1 /\ selNumber = 0

Dial(c) == /\ caller[c] = "new" /\ \A d \in 1 .. (c - 1) : caller[d] # "new"
           /\ caller' = [caller EXCEPT ![c] = "connected"] /\ backlog' = Append(backlog, c)
           /\ UNCHANGED <<requests, behind, answered, connect_host, connect_number, typed, accVars, selVars>>

Request(c) == /\ caller[c] = "connected"
              /\ caller' = [caller EXCEPT ![c] = "asked"] /\ requests' = requests \cup {c}
              /\ UNCHANGED <<backlog, behind, answered, connect_host, connect_number, typed, accVars, selVars>>

HangUp(c) == /\ caller[c] \in {"connected", "asked"}
             /\ caller' = [caller EXCEPT ![c] = "done"]
             /\ UNCHANGED <<requests, backlog, behind, answered, connect_host, connect_number, typed, accVars, selVars>>

Type == /\ ~typed /\ typed' = TRUE
        /\ UNCHANGED <<caller, requests, backlog, behind, answered, connect_host, connect_number, accVars, selVars>>

Unused == {f \in Numbers : behind[f] = None}

\* Without a free descriptor accept fails, and its -1 is entered like a client.
AcceptCaller == /\ accPc = "accept" /\ backlog # <<>>
                /\ IF Unused = {}
                   THEN /\ connect_number < MaxNumber /\ accFd' = -1 /\ UNCHANGED <<backlog, behind>>
                   ELSE /\ accFd' = CHOOSE f \in Unused : \A g \in Unused : f <= g
                        /\ behind' = [behind EXCEPT ![accFd'] = Head(backlog)] /\ backlog' = Tail(backlog)
                /\ accPc' = "place" /\ accI' = 1
                /\ UNCHANGED <<caller, requests, answered, connect_host, connect_number, typed, accNumber, selVars>>

\* With no free entry the loop ends, and the descriptor is forgotten.
Place == /\ accPc = "place"
         /\ IF accI > CLIENTNUM THEN accPc' = "accept" /\ accI' = 1 /\ UNCHANGED connect_host
            ELSE IF connect_host[accI] = -1
            THEN /\ accPc' = "read" /\ accI' = 1
                 /\ connect_host' = [connect_host EXCEPT ![accI] = accFd]
            ELSE accI' = accI + 1 /\ UNCHANGED <<accPc, connect_host>>
         /\ accFd' = IF accPc' = "place" THEN accFd ELSE -1
         /\ UNCHANGED <<outside, behind, answered, connect_number, accNumber, selVars>>

ReadUp == /\ accPc = "read" /\ accPc' = "write" /\ accNumber' = connect_number
          /\ UNCHANGED <<outside, behind, answered, connect_host, connect_number, accFd, accI, selVars>>

WriteUp == /\ accPc = "write" /\ accPc' = "accept" /\ connect_number' = accNumber + 1 /\ accNumber' = 0
           /\ UNCHANGED <<outside, behind, answered, connect_host, accFd, accI, selVars>>

\* The first entry is never looked at (mutant: the loop starts with i = 1).
Build_Late == /\ selPc = "build"
              /\ IF selI > CLIENTNUM THEN selPc' = "select" /\ UNCHANGED <<selI, scanfd>>
                 ELSE /\ scanfd' = IF selI = 1 THEN scanfd ELSE scanfd \cup ({connect_host[selI]} \ {-1})
                      /\ selI' = selI + 1 /\ UNCHANGED selPc
              /\ UNCHANGED <<outside, behind, answered, connect_host, connect_number, accVars, selNumber>>

Build == /\ selPc = "build"
         /\ IF selI > CLIENTNUM THEN selPc' = "select" /\ UNCHANGED <<selI, scanfd>>
            ELSE /\ scanfd' = scanfd \cup ({connect_host[selI]} \ {-1})
                 /\ selI' = selI + 1 /\ UNCHANGED selPc
         /\ UNCHANGED <<outside, behind, answered, connect_host, connect_number, accVars, selNumber>>

Readable(f) == IF f = 0 THEN typed
               ELSE behind[f] \in requests \/ caller[behind[f]] = "done"
Rebuild == selPc' = "build" /\ selI' = 1 /\ scanfd' = {}

\* select fails on a closed descriptor; its timeout is a second at first, and then what Linux left of it: nothing.
Select == /\ selPc = "select"
          /\ IF \E f \in scanfd \ {0} : behind[f] = None THEN Rebuild
             ELSE LET ready == {f \in scanfd : Readable(f)} IN
                  IF ready = {} \/ connect_number <= 0 THEN Rebuild
                  ELSE selPc' = "walk" /\ selI' = 1 /\ scanfd' = ready
          /\ UNCHANGED <<outside, behind, answered, connect_host, connect_number, accVars, selNumber>>

Walk == /\ selPc = "walk"
        /\ IF selI > CLIENTNUM THEN Rebuild
           ELSE IF connect_host[selI] = -1 \/ connect_host[selI] \notin scanfd
           THEN selI' = selI + 1 /\ UNCHANGED <<selPc, scanfd>>
           ELSE selPc' = "answer" /\ UNCHANGED <<selI, scanfd>>
        /\ UNCHANGED <<outside, behind, answered, connect_host, connect_number, accVars, selNumber>>

\* recv fails on descriptor 0, and returns 0 when the client is gone; no answer then.
Answer == /\ selPc = "answer"
          /\ LET c == IF connect_host[selI] \in Numbers THEN behind[connect_host[selI]] ELSE None IN
             IF c \in requests
             THEN /\ requests' = requests \ {c} /\ answered' = answered \cup {c}
                  /\ caller' = [caller EXCEPT ![c] = IF @ = "asked" THEN "done" ELSE @]
             ELSE UNCHANGED <<requests, answered, caller>>
          /\ selPc' = "free"
          /\ UNCHANGED <<backlog, typed, behind, connect_host, connect_number, accVars, scanfd, selI, selNumber>>

Free == /\ selPc = "free" /\ selPc' = "read"
        /\ connect_host' = [connect_host EXCEPT ![selI] = -1]
        /\ UNCHANGED <<outside, behind, answered, connect_number, accVars, scanfd, selI, selNumber>>

ReadDown == /\ selPc = "read" /\ selPc' = "write" /\ selNumber' = connect_number
            /\ UNCHANGED <<outside, behind, answered, connect_host, connect_number, accVars, scanfd, selI>>

WriteDown == /\ selPc = "write" /\ selPc' = "close" /\ connect_number' = selNumber - 1 /\ selNumber' = 0
             /\ UNCHANGED <<outside, behind, answered, connect_host, accVars, scanfd, selI>>

\* close(connect_host[i]) comes after connect_host[i] = -1: it closes nothing, or a client that took the entry since.
CloseEntry == /\ selPc = "close" /\ selPc' = "walk" /\ selI' = selI + 1
              /\ behind' = [f \in Numbers |-> IF f = connect_host[selI] THEN None ELSE behind[f]]
              /\ UNCHANGED <<outside, answered, connect_host, connect_number, accVars, scanfd, selNumber>>

HandleConnect == AcceptCaller \/ Place \/ ReadUp \/ WriteUp
HandleRequest == Build \/ Select \/ Walk \/ Answer \/ Free \/ ReadDown \/ WriteDown \/ CloseEntry

TableNext == \/ \E c \in Callers : Dial(c) \/ Request(c) \/ HangUp(c)
             \/ Type \/ HandleConnect \/ HandleRequest

TableSpec == TableInit /\ [][TableNext]_tableVars /\ WF_tableVars(HandleConnect) /\ WF_tableVars(HandleRequest)
-----------------------------------------------------------------------------
Entered(c) == \E i \in Entries : connect_host[i] \in Numbers /\ behind[connect_host[i]] = c
Jammed == \E i \in Entries : connect_host[i] \in Numbers /\ behind[connect_host[i]] = None

(* A client in the table that has sent its request is answered, unless connect_number, which the threads change   *)
(* without a lock and descriptor 0 pulls down, says that there is nobody, or a closed descriptor in the table has  *)
(* made select fail for all of them.                                                                               *)
TableAnswers == \A c \in Callers : (Entered(c) /\ c \in requests) ~>
                                   (c \in answered \/ Jammed \/ connect_number <= 0)
=============================================================================
