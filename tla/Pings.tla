------------------------------- MODULE Pings -------------------------------
(* Both versions of ping, Ping and Ping2, over the same variables. Which of    *)
(* them runs is fixed in the initial state.                                    *)
EXTENDS Ping2

VARIABLE version
pingsVars == <<version, vars>>

Later == version = "later" /\ UNCHANGED version
Earlier == version = "earlier" /\ UNCHANGED version

PingsInit == version \in {"later", "earlier"} /\ Init
PingsNext == (Later /\ Next) \/ (Earlier /\ Next2)
PingsSpec == PingsInit /\ [][PingsNext]_pingsVars

\* The fairness of Ping, for both versions.
PingsFair == /\ PingsSpec
             /\ WF_pingsVars((Later /\ Main) \/ (Earlier /\ Main2))
             /\ WF_pingsVars((Later /\ Sender) \/ (Earlier /\ Sender2))
             /\ WF_pingsVars((Later /\ Receiver) \/ (Earlier /\ Receiver2))
-----------------------------------------------------------------------------
\* The later version finds the entry of every reply, as Ping says (icmp_findpacket, ping.c:345-375). What Ping2
\* says of a reply, LostIsEarly, holds of both versions.
LaterFinds == version = "later" => ReplyIsFound

\* What is printed at the end is true, as far as either version can be trusted: the earlier one counts what it
\* sent with what it recorded (icmp_statistics, ping.c:378-386).
EitherCounts == IF version = "later" THEN CountsTrue ELSE CountsHold
=============================================================================
