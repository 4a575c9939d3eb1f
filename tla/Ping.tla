-------------------------------- MODULE Ping --------------------------------
(***************************************************************************)
(* ping of LinuxCode/13/13.6.10: a thread sends an echo request a second   *)
(* and remembers it in pingpacket, another thread receives the replies and *)
(* looks them up there; SIGINT clears alive, which ends both, and main     *)
(* then prints the statistics.  No access to the table is locked.          *)
(*                                                                         *)
(* A message is its icmp_seq; times, texts and the checksum are left out.  *)
(***************************************************************************)
EXTENDS Integers, FiniteSets

CONSTANTS Slots,     \* entries of pingpacket (128 in the code)
          ShortMax,  \* largest short (32767)
          MaxTries,  \* bound: rounds of the sender
          MaxStrays, \* bound: replies that answer no request of this process, or a second time
          MaxSigs    \* bound: SIGINTs

ASSUME PingAssumption ==
    /\ Slots \in Nat \ {0} /\ ShortMax \in Nat
    /\ MaxTries \in Nat /\ MaxStrays \in Nat /\ MaxSigs \in Nat

VARIABLES
    mpc,     \* main's program point
    alive,   \* the flag that SIGINT clears
    spc, sp, \* the sender's program point and its pointer packet (0: NULL)
    rpc, rp, \* the receiver's, likewise
    msg,     \* the reply the receiver holds
    seq,     \* pingpacket[i].seq
    flag,    \* pingpacket[i].flag: sent and not answered
    psend,   \* packet_send, a short
    precv,   \* packet_recv, a short
    net,     \* per icmp_seq, the replies on their way
    tries, strays, sigs, \* counters of the bounds
    sent,    \* history: requests that sendto has taken
    unrec,   \* history: icmp_seqs sent while the table was full
    early    \* history: a SIGINT came before alive was set

mainVars == <<mpc, early>>
sendVars == <<spc, sp, psend, tries, sent, unrec>>
recvVars == <<rpc, rp, msg, precv>>
table == <<seq, flag>>
vars == <<mainVars, alive, sendVars, recvVars, table, net, strays, sigs>>

Entries == 1..Slots
NULL == 0
Shorts == (-ShortMax - 1)..ShortMax
Unsigneds == 0..(2 * ShortMax + 1)

Short(n) == ((n + ShortMax + 1) % (2 * ShortMax + 2)) - ShortMax - 1
Unsigned(n) == n % (2 * ShortMax + 2)

Init ==
    /\ mpc = "alive" /\ alive = FALSE /\ early = FALSE
    /\ spc = "none" /\ sp = NULL /\ psend = 0 /\ tries = 0 /\ sent = 0 /\ unrec = {}
    /\ rpc = "none" /\ rp = NULL /\ msg = 0 /\ precv = 0
    /\ seq = [i \in Entries |-> 0] /\ flag = [i \in Entries |-> FALSE]
    /\ net = [s \in Unsigneds |-> 0] /\ strays = 0 /\ sigs = 0

\* p is the first entry of S, NULL if there is none.
IsFirst(p, S) == IF S = {} THEN p = NULL ELSE p \in S /\ \A j \in S : p <= j

\* icmp_findpacket(-1) returns p.
Free(p) == IsFirst(p, {i \in Entries : ~flag[i]})

\* Takes the first entry that waits, whatever its number (mutant: seq is not looked at).
Finds_Waiting(s, p) == IsFirst(p, {i \in Entries : flag[i]})

\* icmp_findpacket(s) returns p.
Finds(s, p) == IsFirst(p, {i \in Entries : seq[i] = s})

(*************************************************************************)
(* main, and the handler                                                  *)
(*************************************************************************)

MainStart ==
    \/ /\ mpc = "alive" /\ alive' = TRUE /\ mpc' = "sender"
       /\ UNCHANGED <<early, sendVars, recvVars, table, net, strays, sigs>>
    \/ /\ mpc = "sender" /\ spc' = "loop" /\ mpc' = "receiver"
       /\ UNCHANGED <<early, alive, sp, psend, tries, sent, unrec, recvVars, table, net, strays, sigs>>
    \/ /\ mpc = "receiver" /\ rpc' = "loop" /\ mpc' = "join"
       /\ UNCHANGED <<early, alive, sendVars, rp, msg, precv, table, net, strays, sigs>>

MainJoin ==
    /\ mpc = "join" /\ spc = "end" /\ rpc = "end"
    /\ mpc' = "statistics"
    /\ UNCHANGED <<early, alive, sendVars, recvVars, table, net, strays, sigs>>

\* The share of lost packets is divided by packet_send.
Statistics ==
    /\ mpc = "statistics"
    /\ mpc' = IF psend = 0 THEN "crashed" ELSE "done"
    /\ UNCHANGED <<early, alive, sendVars, recvVars, table, net, strays, sigs>>

Sigint ==
    /\ sigs < MaxSigs /\ mpc \notin {"done", "crashed"}
    /\ alive' = FALSE /\ sigs' = sigs + 1
    /\ early' = (early \/ mpc = "alive")
    /\ UNCHANGED <<mpc, sendVars, recvVars, table, net, strays>>

(*************************************************************************)
(* icmp_send                                                              *)
(*************************************************************************)

SendEnd ==
    /\ spc = "loop" /\ ~alive /\ spc' = "end"
    /\ UNCHANGED <<mainVars, alive, sp, psend, tries, sent, unrec, recvVars, table, net, strays, sigs>>

SendFind ==
    /\ spc = "loop" /\ alive /\ tries < MaxTries
    /\ tries' = tries + 1
    /\ \E p \in Entries \cup {NULL} :
          /\ Free(p)
          /\ sp' = p
          /\ spc' = IF p = NULL THEN "send" ELSE "seq"
    /\ UNCHANGED <<mainVars, alive, psend, sent, unrec, recvVars, table, net, strays, sigs>>

SendSetSeq ==
    /\ spc = "seq" /\ spc' = "flag"
    /\ seq' = [seq EXCEPT ![sp] = psend]
    /\ UNCHANGED <<mainVars, alive, sp, psend, tries, sent, unrec, recvVars, flag, net, strays, sigs>>

SendSetFlag ==
    /\ spc = "flag" /\ spc' = "send"
    /\ flag' = [flag EXCEPT ![sp] = TRUE]
    /\ UNCHANGED <<mainVars, alive, sp, psend, tries, sent, unrec, recvVars, seq, net, strays, sigs>>

\* icmp_pack and sendto; a request is answered, or it or its reply is lost on the way.
SendTo ==
    /\ spc = "send" /\ spc' = "count"
    /\ sent' = sent + 1
    /\ LET s == Unsigned(psend) IN
          /\ unrec' = IF sp = NULL THEN unrec \cup {s} ELSE unrec
          /\ \/ net' = [net EXCEPT ![s] = @ + 1]
             \/ UNCHANGED net
    /\ UNCHANGED <<mainVars, alive, sp, psend, tries, recvVars, table, strays, sigs>>

\* A failure counts as well (mutant: packet_send++ precedes the test).
SendFails_Counts ==
    /\ spc = "send" /\ spc' = "loop"
    /\ psend' = Short(psend + 1)
    /\ UNCHANGED <<mainVars, alive, sp, tries, sent, unrec, recvVars, table, net, strays, sigs>>

\* sendto fails: continue, at once and with the entry still taken.
SendFails ==
    /\ spc = "send" /\ spc' = "loop"
    /\ UNCHANGED <<mainVars, alive, sp, psend, tries, sent, unrec, recvVars, table, net, strays, sigs>>

\* packet_send++ and sleep(1).
SendCount ==
    /\ spc = "count" /\ spc' = "loop"
    /\ psend' = Short(psend + 1)
    /\ UNCHANGED <<mainVars, alive, sp, tries, sent, unrec, recvVars, table, net, strays, sigs>>

(*************************************************************************)
(* icmp_recv and icmp_unpack                                              *)
(*************************************************************************)

\* Looks at alive only when a message is there (mutant: recv without select's timeout).
RecvEnd_Blocking ==
    /\ rpc = "loop" /\ ~alive /\ rpc' = "end"
    /\ \E s \in Unsigneds : net[s] > 0
    /\ UNCHANGED <<mainVars, alive, sendVars, rp, msg, precv, table, net, strays, sigs>>

RecvEnd ==
    /\ rpc = "loop" /\ ~alive /\ rpc' = "end"
    /\ UNCHANGED <<mainVars, alive, sendVars, rp, msg, precv, table, net, strays, sigs>>

\* select finds a message and recv takes it.
RecvTake ==
    /\ rpc = "loop" /\ alive
    /\ \E s \in Unsigneds :
          /\ net[s] > 0
          /\ net' = [net EXCEPT ![s] = @ - 1]
          /\ msg' = s
    /\ rpc' = "unpack"
    /\ UNCHANGED <<mainVars, alive, sendVars, rp, precv, table, strays, sigs>>

RecvFind ==
    /\ rpc = "unpack"
    /\ \E p \in Entries \cup {NULL} :
          /\ Finds(msg, p)
          /\ rp' = p
          /\ rpc' = IF p = NULL THEN "loop" ELSE "clear"
    /\ UNCHANGED <<mainVars, alive, sendVars, msg, precv, table, net, strays, sigs>>

RecvClear ==
    /\ rpc = "clear" /\ rpc' = "count"
    /\ flag' = [flag EXCEPT ![rp] = FALSE]
    /\ UNCHANGED <<mainVars, alive, sendVars, rp, msg, precv, seq, net, strays, sigs>>

RecvCount ==
    /\ rpc = "count" /\ rpc' = "loop"
    /\ precv' = Short(precv + 1)
    /\ UNCHANGED <<mainVars, alive, sendVars, rp, msg, table, net, strays, sigs>>

(*************************************************************************)
(* The network: a reply comes twice, or is one to another ping of the     *)
(* same user, for icmp_id is the user's id (line 83).                     *)
(*************************************************************************)

Stray ==
    /\ strays < MaxStrays /\ strays' = strays + 1
    /\ \E s \in Unsigneds : net' = [net EXCEPT ![s] = @ + 1]
    /\ UNCHANGED <<mainVars, alive, sendVars, recvVars, table, sigs>>

Sender == SendEnd \/ SendFind \/ SendSetSeq \/ SendSetFlag \/ SendTo \/ SendFails \/ SendCount
Receiver == RecvEnd \/ RecvTake \/ RecvFind \/ RecvClear \/ RecvCount
Main == MainStart \/ MainJoin \/ Statistics

Next == Main \/ Sender \/ Receiver \/ Sigint \/ Stray

Spec == Init /\ [][Next]_vars

\* The kernel runs every thread that can run; nothing makes a signal or a stray reply arrive.
FairSpec == Spec /\ WF_vars(Main) /\ WF_vars(Sender) /\ WF_vars(Receiver)

(*************************************************************************)
(* Properties                                                             *)
(*************************************************************************)

\* Types of all variables; the counters keep the width of a short.
TypeOK ==
    /\ mpc \in {"alive", "sender", "receiver", "join", "statistics", "done", "crashed"}
    /\ alive \in BOOLEAN /\ early \in BOOLEAN
    /\ spc \in {"none", "loop", "seq", "flag", "send", "count", "end"}
    /\ rpc \in {"none", "loop", "unpack", "clear", "count", "end"}
    /\ sp \in Entries \cup {NULL} /\ rp \in Entries \cup {NULL}
    /\ spc \in {"seq", "flag"} => sp # NULL
    /\ rpc \in {"clear", "count"} => rp # NULL
    /\ msg \in Unsigneds
    /\ seq \in [Entries -> Shorts] /\ flag \in [Entries -> BOOLEAN]
    /\ psend \in Shorts /\ precv \in Shorts
    /\ net \in [Unsigneds -> Nat]
    /\ tries \in Nat /\ strays \in Nat /\ sigs \in Nat /\ sent \in Nat
    /\ unrec \subseteq Unsigneds

\* The network has behaved and packet_send has not overflowed.
Plain == strays = 0 /\ sent <= ShortMax

\* A reply to a request that was recorded is found when it comes: the entry has not been given away,
\* although the receiver frees entries and the sender takes them without a lock
\* (icmp_findpacket, ping.c:345-375).
ReplyIsFound ==
    Plain /\ rpc = "unpack" /\ msg \notin unrec => \E i \in Entries : seq[i] = msg /\ flag[i]

\* The statistics are true: as long as no reply comes twice, not more replies are counted than requests
\* were sent, though a reply may be counted before its request is (packet_send++ follows sendto,
\* ping.c:283-290); and the division by packet_send fails only if no request was sent, or a multiple
\* of 2^16 of them (ping.c:385).
CountsTrue ==
    /\ Plain => precv <= sent /\ sent = psend + (IF spc = "count" THEN 1 ELSE 0)
    /\ mpc = "crashed" => Unsigned(sent) = 0

\* SIGINT ends the program, whatever both threads are doing, unless it came before alive was set to 1,
\* which undoes it (ping.c:117-118).
SigintEnds == (sigs > 0) ~> (mpc \in {"done", "crashed"} \/ early)
=============================================================================
