------------------------------- MODULE Ping2 -------------------------------
(***************************************************************************)
(* The earlier ping of LinuxCodeBak/Code/13/ping2.c.  Its icmp_send        *)
(* remembers a request only after sendto has taken it, and counts it only  *)
(* if pingpacket had room: the reply may come before its request is in the *)
(* table, and a request for which there was no room goes out again with    *)
(* the same number.  All else is as in Ping, whose variables these are.    *)
(* (The file names a type before it declares it; the model is of its       *)
(* functions.)                                                             *)
(***************************************************************************)
EXTENDS Ping

\* The number of the request in hand.
Now == Unsigned(psend)

(*************************************************************************)
(* icmp_send                                                              *)
(*************************************************************************)

\* icmp_pack and sendto.
SendFirst ==
    /\ spc = "loop" /\ alive /\ tries < MaxTries
    /\ tries' = tries + 1 /\ sent' = sent + 1 /\ spc' = "find"
    /\ \/ net' = [net EXCEPT ![Now] = @ + 1]
       \/ UNCHANGED net
    /\ UNCHANGED <<mainVars, alive, sp, psend, unrec, recvVars, table, strays, sigs>>

\* sendto fails: continue.
FirstFails ==
    /\ spc = "loop" /\ alive /\ tries < MaxTries
    /\ tries' = tries + 1
    /\ UNCHANGED <<mainVars, alive, spc, sp, psend, sent, unrec, recvVars, table, net, strays, sigs>>

FindAfter ==
    /\ spc = "find"
    /\ \E p \in Entries \cup {NULL} :
          /\ Free(p)
          /\ sp' = p
          /\ spc' = IF p = NULL THEN "loop" ELSE "seq"
          /\ unrec' = IF p = NULL THEN unrec \cup {Now} ELSE unrec
    /\ UNCHANGED <<mainVars, alive, psend, tries, sent, recvVars, table, net, strays, sigs>>

\* The number is one too high (mutant: packet_send++ precedes the record).
RecordSeq_Next ==
    /\ spc = "seq" /\ spc' = "flag"
    /\ seq' = [seq EXCEPT ![sp] = Short(psend + 1)]
    /\ UNCHANGED <<mainVars, alive, sp, psend, tries, sent, unrec, recvVars, flag, net, strays, sigs>>

RecordSeq ==
    /\ spc = "seq" /\ spc' = "flag"
    /\ seq' = [seq EXCEPT ![sp] = psend]
    /\ UNCHANGED <<mainVars, alive, sp, psend, tries, sent, unrec, recvVars, flag, net, strays, sigs>>

RecordFlag ==
    /\ spc = "flag" /\ spc' = "count"
    /\ flag' = [flag EXCEPT ![sp] = TRUE]
    /\ UNCHANGED <<mainVars, alive, sp, psend, tries, sent, unrec, recvVars, seq, net, strays, sigs>>

Count ==
    /\ spc = "count" /\ spc' = "loop"
    /\ psend' = Short(psend + 1)
    /\ UNCHANGED <<mainVars, alive, sp, tries, sent, unrec, recvVars, table, net, strays, sigs>>

Sender2 == SendEnd \/ SendFirst \/ FirstFails \/ FindAfter \/ RecordSeq \/ RecordFlag \/ Count

(*************************************************************************)
(* main with its handler, and icmp_recv with icmp_unpack, as in Ping      *)
(*************************************************************************)

Main2 == MainStart \/ MainJoin \/ Statistics
Receive2 == RecvEnd \/ RecvTake
Unpack2 == RecvFind \/ RecvClear \/ RecvCount
Receiver2 == Receive2 \/ Unpack2

Next2 == Main2 \/ Sender2 \/ Receiver2 \/ Sigint \/ Stray
Spec2 == Init /\ [][Next2]_vars

(*************************************************************************)
(* Properties                                                             *)
(*************************************************************************)

\* As long as pingpacket has had room for every request, a reply that is not found came before its request
\* was in the table, which then waits for ever.  Once a number has been sent twice, this no longer holds: the
\* second of two replies to it frees the entry again, which the sender may have taken for another number
\* (ping2.c:280-296, 202-209).
LostIsEarly ==
    Plain /\ rpc = "unpack" /\ unrec = {} =>
        \/ \E i \in Entries : seq[i] = msg /\ flag[i]
        \/ spc \in {"find", "seq", "flag"} /\ msg = Now

\* The first request is always counted, so that the statistics divide by 0 only if none was sent or the
\* count has overflowed; and though replies may outnumber the requests that were counted, they are not
\* more than those that were sent (ping2.c:166-176, 288-296).
CountsHold ==
    Plain => /\ precv <= sent /\ 0 <= psend /\ psend <= sent
             /\ mpc = "crashed" => sent = 0
=============================================================================
