----------------------------- MODULE Forwarder -----------------------------
(* The port forwarder of select.c: one loop, one pair of connections at a time. Side 1 is the client, side 2 the   *)
(* server it is connected to; buf[s] holds what was read from side s and goes to the other. select fills three     *)
(* sets of descriptor NUMBERS, which the rest of the loop asks, also after a new pair has replaced the old one.    *)
EXTENDS Integers, Sequences

CONSTANTS BUF_SIZE,   \* length of buf1 and buf2
          MaxCalls,   \* bound: clients that call
          MaxBytes    \* bound: bytes that the sides of a pair send

ASSUME ForwarderConstants == BUF_SIZE \in Nat \ {0} /\ MaxCalls \in Nat /\ MaxBytes \in Nat

VARIABLES calls,            \* clients that have called, and those of them accepted
          sock,             \* fd1 and fd2
          sent, arrived,    \* bytes each side has sent, and those of them not yet read
          ended, urgent,    \* sides that have closed, sides with urgent data
          buf, written,     \* what is in buf1 and buf2, and how much of it has been written
          got,              \* what each side has received
          at,               \* where the loop is
          rd, wr, er,       \* the sets of select
          fresh             \* this turn of the loop has accepted a client
fwdVars == <<calls, sock, sent, arrived, ended, urgent, buf, written, got, at, rd, wr, er, fresh>>
peers == <<calls, sent, arrived, ended, urgent>>
sets == <<rd, wr, er, fresh>>

Sides == {1, 2}
Other(s) == 3 - s
Listener == 0
Open == {s \in Sides : sock[s] > 0}
Lowest(used) == CHOOSE n \in 1 .. 4 : n \notin used /\ \A k \in 1 .. (n - 1) : k \in used
Left(s) == Len(buf[s]) - written[s]

\* The counts of the buffers are not initialised; without a pair nothing depends on them.
FwdInit == /\ calls = [made |-> 0, taken |-> 0] /\ sock = [s \in Sides |-> -1]
           /\ sent = [s \in Sides |-> 0] /\ arrived = [s \in Sides |-> <<>>]
           /\ ended = {} /\ urgent = {}
           /\ buf = [s \in Sides |-> <<>>] /\ written = [s \in Sides |-> 0] /\ got = [s \in Sides |-> <<>>]
           /\ at = "select" /\ rd = {} /\ wr = {} /\ er = {} /\ fresh = FALSE

CallIn == /\ calls.made < MaxCalls /\ calls' = [calls EXCEPT !.made = @ + 1]
          /\ UNCHANGED <<sock, sent, arrived, ended, urgent, buf, written, got, at, sets>>

Say(s) == /\ s \in Open \ ended /\ sent[1] + sent[2] < MaxBytes
          /\ sent' = [sent EXCEPT ![s] = @ + 1]
          /\ arrived' = [arrived EXCEPT ![s] = Append(@, [turn |-> calls.taken, byte |-> sent[s] + 1])]
          /\ UNCHANGED <<calls, sock, ended, urgent, buf, written, got, at, sets>>

End(s) == /\ s \in Open \ ended /\ ended' = ended \cup {s}
          /\ UNCHANGED <<calls, sock, sent, arrived, urgent, buf, written, got, at, sets>>

Urge(s) == /\ s \in Open \ (ended \cup urgent) /\ urgent' = urgent \cup {s}
           /\ UNCHANGED <<calls, sock, sent, arrived, ended, buf, written, got, at, sets>>

HasInput(s) == arrived[s] # <<>> \/ s \in ended

\* A signal makes select return with the sets as they were asked (mutant: EINTR does not start the loop over).
Select2_Interrupted == /\ at = "select"
                       /\ rd' = {sock[s] : s \in {t \in Open : Len(buf[t]) < BUF_SIZE}} \cup
                                (IF calls.taken < calls.made THEN {Listener} ELSE {})
                       /\ wr' = {} /\ er' = {}
                       /\ at' = "accept" /\ fresh' = FALSE
                       /\ UNCHANGED <<peers, sock, buf, written, got>>

Select2 == /\ at = "select"
           /\ rd' = {sock[s] : s \in {t \in Open : Len(buf[t]) < BUF_SIZE /\ HasInput(t)}} \cup
                    (IF calls.taken < calls.made THEN {Listener} ELSE {})
           /\ wr' \in SUBSET {sock[s] : s \in {t \in Open : Left(Other(t)) > 0}}
           /\ er' = {sock[s] : s \in Open \cap urgent}
           /\ rd' \cup wr' \cup er' # {}
           /\ at' = "accept" /\ fresh' = FALSE
           /\ UNCHANGED <<peers, sock, buf, written, got>>

\* The descriptor of accept is chosen while the old pair is open, that of connect_socket after it was closed.
AcceptPair == /\ at = "accept" /\ Listener \in rd
              /\ LET r == Lowest({sock[s] : s \in Open}) IN
                 sock' \in {[s \in Sides |-> IF s = 1 THEN r ELSE Lowest({r})], [s \in Sides |-> -1]}
              /\ calls' = [calls EXCEPT !.taken = @ + 1]
              /\ sent' = [s \in Sides |-> 0] /\ arrived' = [s \in Sides |-> <<>>]
              /\ ended' = {} /\ urgent' = {}
              /\ buf' = [s \in Sides |-> <<>>] /\ written' = [s \in Sides |-> 0] /\ got' = [s \in Sides |-> <<>>]
              /\ at' = "oob1" /\ fresh' = TRUE
              /\ UNCHANGED <<rd, wr, er>>

NoCall == /\ at = "accept" /\ (Listener \notin rd) /\ at' = "oob1"
          /\ UNCHANGED <<peers, sock, buf, written, got, sets>>

\* Both branches shut side 1 when there is no urgent byte: the one for side 2 as well.
Oob(s, here, next) ==
    /\ at = here /\ at' = next
    /\ sock' = IF s \in Open /\ sock[s] \in er /\ s \notin urgent THEN [sock EXCEPT ![1] = -1] ELSE sock
    /\ urgent' = IF s \in Open /\ sock[s] \in er THEN urgent \ {s} ELSE urgent
    /\ UNCHANGED <<calls, sent, arrived, ended, buf, written, got, sets>>

Waits(s) == s \in Open /\ sock[s] \in rd /\ ~HasInput(s)

\* A read of a descriptor that is not ready waits, and the loop with it.
ReadSide(s, here, next) ==
    /\ at = here /\ ~Waits(s) /\ at' = next
    /\ IF s \notin Open \/ sock[s] \notin rd THEN UNCHANGED <<sock, arrived, buf>>
       ELSE IF arrived[s] = <<>> THEN sock' = [sock EXCEPT ![s] = -1] /\ UNCHANGED <<arrived, buf>>
       ELSE LET room == BUF_SIZE - Len(buf[s])
                r == IF Len(arrived[s]) < room THEN Len(arrived[s]) ELSE room IN
            /\ buf' = [buf EXCEPT ![s] = @ \o SubSeq(arrived[s], 1, r)]
            /\ arrived' = [arrived EXCEPT ![s] = SubSeq(@, r + 1, Len(@))] /\ UNCHANGED sock
    /\ UNCHANGED <<calls, sent, ended, urgent, written, got, sets>>

\* With nothing left to write, write returns 0, which shuts the side like an error.
WriteSide(s, here, next) ==
    /\ at = here /\ at' = next
    /\ LET o == Other(s) IN
       IF s \notin Open \/ sock[s] \notin wr THEN UNCHANGED <<sock, written, got>>
       ELSE \/ \E r \in 1 .. Left(o) : /\ written' = [written EXCEPT ![o] = @ + r]
                                       /\ got' = [got EXCEPT ![s] = @ \o SubSeq(buf[o], written[o] + 1, written[o] + r)]
                                       /\ UNCHANGED sock
            \/ /\ Left(o) = 0 \/ s \in ended
               /\ sock' = [sock EXCEPT ![s] = -1] /\ UNCHANGED <<written, got>>
    /\ UNCHANGED <<peers, buf, sets>>

\* A buffer is emptied when a part of it has been written (mutant: written > 0 for written == avail).
Tidy_Early == /\ at = "tidy" /\ at' = "select"
              /\ buf' = [s \in Sides |-> IF written[s] > 0 THEN <<>> ELSE buf[s]]
              /\ written' = [s \in Sides |-> 0]
              /\ rd' = {} /\ wr' = {} /\ er' = {} /\ fresh' = FALSE
              /\ UNCHANGED <<peers, sock, got>>

\* The buffers that have been written are emptied, then a side alone is shut when nothing is left for it.
Tidy == /\ at = "tidy" /\ at' = "select"
        /\ buf' = [s \in Sides |-> IF Left(s) = 0 THEN <<>> ELSE buf[s]]
        /\ written' = [s \in Sides |-> IF Left(s) = 0 THEN 0 ELSE written[s]]
        /\ sock' = LET shut2 == IF sock[1] = -1 /\ Left(1) = 0 THEN -1 ELSE sock[2] IN
                   [s \in Sides |-> IF s = 2 THEN shut2 ELSE IF shut2 = -1 /\ Left(2) = 0 THEN -1 ELSE sock[1]]
        /\ rd' = {} /\ wr' = {} /\ er' = {} /\ fresh' = FALSE
        /\ UNCHANGED <<peers, got>>

Loop == \/ Select2 \/ AcceptPair \/ NoCall
        \/ Oob(1, "oob1", "oob2") \/ Oob(2, "oob2", "read1")
        \/ ReadSide(1, "read1", "read2") \/ ReadSide(2, "read2", "write1")
        \/ WriteSide(1, "write1", "write2") \/ WriteSide(2, "write2", "tidy") \/ Tidy

FwdNext == CallIn \/ Loop \/ \E s \in Sides : Say(s) \/ End(s) \/ Urge(s)
FwdSpec == FwdInit /\ [][FwdNext]_fwdVars
-----------------------------------------------------------------------------
(* What a side has received is what the other side of the same pair has sent, from its first byte on, in order:   *)
(* partial reads and writes, full buffers and the replacement of the pair lose, repeat and mix nothing.            *)
InOrder == \A s \in Sides : got[s] = [i \in 1 .. Len(got[s]) |-> [turn |-> calls.taken, byte |-> i]]

(* The loop waits in select only, never in a read, except in a turn that has accepted a client: then the number of *)
(* the new connection may be that of an old one, and in the set for it.                                            *)
WaitsInSelect == (\E s \in Sides : Waits(s) /\ at = (IF s = 1 THEN "read1" ELSE "read2")) => fresh
=============================================================================
