----------------------------- MODULE SipfwClient -----------------------------
(***************************************************************************)
(* The dialogue of the command line client (sipfw_u.c of                   *)
(* LinuxCode/20/sipfw/app) with the kernel's netlink socket (sipfw_k_nl.c).*)
(* A client sends one command and waits for the answer: one message, or    *)
(* for a list a count and as many rules.  The kernel handles the queue of  *)
(* its socket inside the sendto of whichever client comes by.              *)
(*                                                                         *)
(* The chains are one table here, of which only its length and its count   *)
(* matter; RuleChains has what commands do to the links.  Between commands *)
(* the count is never above the length (RuleChains!ChainsIntact), but      *)
(* it may be below zero.                                                   *)
(***************************************************************************)
EXTENDS Integers, Sequences, SequencesExt

CONSTANTS Clients,
          CommandLines, \* the options a user gives: sequences of Options
          Capacity,     \* messages that the receive buffer of a socket holds
          Width,        \* of the unsigned count of a list: 2^32 in the code
          MaxRules,     \* a bound on the length of the table
          MaxDeficit    \* a bound on how far its count falls below zero

Commands == {"Insert", "Delete", "Append", "List", "Flush"}
ChainNames == {"input", "unknown", "colon"}
Options == [opt : Commands, arg : ChainNames \cup {"none"}]
           \cup [opt : {"action", "number"}, arg : {"none"}]

None == -1
Table == 0  \* a chain that exists
All == 3    \* SIPFW_CHAIN_ALL, which is SIPFW_CHAIN_NUM too

ASSUME ClientAssumption ==
    /\ "none" \notin Clients
    /\ CommandLines \subseteq Seq(Options) /\ Capacity \in Nat \ {0}
    /\ MaxRules \in Nat /\ MaxDeficit \in Nat /\ Width \in Nat /\ Width > MaxRules

(*************************************************************************)
(* The command                                                            *)
(*************************************************************************)

Empty == [cmd |-> "none", chain |-> None, action |-> FALSE, number |-> FALSE]

\* SIPFW_ParseOpt of a chain's name: one that is not known stands for all chains.
ParseOpt(arg) == IF arg = "input" THEN Table ELSE All

\* The last command counts, and the chain of the last option that names one.
Parse(args) ==
    LET Take(o, a) ==
            IF a.opt \in {"action", "number"} THEN [o EXCEPT ![a.opt] = TRUE]
            ELSE [o EXCEPT !.cmd = a.opt, !.chain = IF a.arg \in {"none", "colon"} THEN @ ELSE ParseOpt(a.arg)]
    IN FoldLeft(Take, Empty, args)

\* SIPFW_JudgeCommand: chain 3 passes where it is no chain, and an insert passes whatever it says, as what
\* is wrong with it leads to a break, and what is right to the test of a list.
Judge(o) ==
    CASE o.cmd = "Append" -> o.chain # None /\ o.action
      [] o.cmd = "Delete" -> o.chain # None
      [] o.cmd \in {"Flush", "List", "Insert"} -> TRUE
      [] OTHER -> FALSE

\* A flush or a list without a chain is of all.
Judged(o) == IF o.cmd \in {"Flush", "List"} /\ o.chain = None THEN [o EXCEPT !.chain = All] ELSE o

\* The kernel indexes sipfw_tables with the chain.
OutOfTable(o) == o.cmd \in {"Insert", "Append", "Delete"} /\ o.chain # Table

(*************************************************************************)
(* The state                                                              *)
(*************************************************************************)

VARIABLES
    phase,   \* of each client: "start", "kernel" (in its sendto), "asked" or "listing" (in recvfrom),
             \* "closing" (in the sendto of sig_int), "done" or "failed"
    opts,    \* what it asked for
    left,    \* i of SIPFW_NLRecvRuleList, counting down
    inbox,   \* the receive buffer of its socket
    err,     \* the socket reports an overrun at the next recvfrom
    queue,   \* the receive queue of the kernel's socket: the senders
    job,     \* whose message a client's thread handles in the kernel, or "none"
    step,    \* where it is: "begin" or "rules"
    ahead,   \* rules that the walk of SIPFW_NLAction_RuleList has not reached
    rules, number, \* length of the table and its count
    mode,    \* "ok", "oops": alloc_skb gave NULL, or "wild": a chain that is no table was used
    lost, disturbed \* history, by client: a message to it was lost; the table changed while its list was sent,
                    \* or its list began with the count below zero

clientVars == <<phase, opts, left>>
socketVars == <<inbox, err, lost>>
kernelVars == <<job, step, ahead>>
rulesVars  == <<rules, number>>
sipfwVars == <<clientVars, socketVars, queue, kernelVars, rulesVars, mode, disturbed>>

Idle == "none"

ClientInit ==
    /\ phase = [c \in Clients |-> "start"] /\ opts = [c \in Clients |-> Empty] /\ left = [c \in Clients |-> 0]
    /\ inbox = [c \in Clients |-> <<>>] /\ err = [c \in Clients |-> FALSE] /\ lost = [c \in Clients |-> FALSE]
    /\ queue = <<>>
    /\ job = [c \in Clients |-> Idle] /\ step = [c \in Clients |-> "begin"] /\ ahead = [c \in Clients |-> 0]
    /\ rules \in 0..MaxRules /\ number \in -MaxDeficit..rules
    /\ mode = "ok" /\ disturbed = [c \in Clients |-> FALSE]

(*************************************************************************)
(* The client                                                             *)
(*************************************************************************)

\* A command that is not judged fit ends the client, and so does a socket that cannot be made.
Start(c, args) ==
    /\ phase[c] = "start"
    /\ \/ /\ Judge(Parse(args))
          /\ opts' = [opts EXCEPT ![c] = Judged(Parse(args))]
          /\ phase' = [phase EXCEPT ![c] = "kernel"] /\ queue' = Append(queue, c)
       \/ /\ phase' = [phase EXCEPT ![c] = "failed"] /\ UNCHANGED <<opts, queue>>
    /\ UNCHANGED <<left, socketVars, kernelVars, rulesVars, mode, disturbed>>

Takes(c) == inbox' = [inbox EXCEPT ![c] = Tail(@)] /\ UNCHANGED <<err, lost>>
TakesError(c) == err' = [err EXCEPT ![c] = FALSE] /\ UNCHANGED <<inbox, lost>>
Asks(c, p, n) == phase' = [phase EXCEPT ![c] = p] /\ left' = [left EXCEPT ![c] = n]
Ready(c) == err[c] \/ inbox[c] # <<>>

\* The first answer; an error ends the client.
Answer(c) ==
    /\ phase[c] = "asked" /\ Ready(c)
    /\ IF err[c] THEN TakesError(c) /\ Asks(c, "failed", 0)
       ELSE /\ Takes(c)
            /\ IF opts[c].cmd = "List" /\ Head(inbox[c]) > 0
               THEN Asks(c, "listing", Head(inbox[c]))
               ELSE Asks(c, "done", 0)
    /\ UNCHANGED <<opts, queue, kernelVars, rulesVars, mode, disturbed>>

\* A rule, or an error, which counts as one.
RecvRule(c) ==
    /\ phase[c] = "listing" /\ Ready(c)
    /\ IF err[c] THEN TakesError(c) ELSE Takes(c)
    /\ Asks(c, IF left[c] = 1 THEN "done" ELSE "listing", left[c] - 1)
    /\ UNCHANGED <<opts, queue, kernelVars, rulesVars, mode, disturbed>>

\* sig_int sends a message without a payload and leaves.
SigInt(c) ==
    /\ phase[c] \in {"asked", "listing"}
    /\ phase' = [phase EXCEPT ![c] = "closing"] /\ queue' = Append(queue, c)
    /\ UNCHANGED <<opts, left, socketVars, kernelVars, rulesVars, mode, disturbed>>

(*************************************************************************)
(* The kernel, in the thread of client c                                  *)
(*************************************************************************)

\* netlink_unicast does not wait: what finds no room is lost, and the receiver may be told.  A client that has
\* left receives nothing.
Deliver(d, m) ==
    IF phase[d] \in {"closing", "done", "failed"} THEN UNCHANGED socketVars
    ELSE IF Len(inbox[d]) < Capacity THEN inbox' = [inbox EXCEPT ![d] = Append(@, m)] /\ UNCHANGED <<err, lost>>
    ELSE /\ \E e \in {err[d], TRUE} : err' = [err EXCEPT ![d] = e]
         /\ lost' = [lost EXCEPT ![d] = TRUE] /\ UNCHANGED inbox

\* The message stays in the queue (mutant: skb_peek for skb_dequeue).
Dequeue_Peeks(c) ==
    /\ phase[c] \in {"kernel", "closing"} /\ job[c] = Idle
    /\ IF queue # <<>>
       THEN job' = [job EXCEPT ![c] = Head(queue)] /\ queue' \in {queue, Tail(queue)} /\ UNCHANGED phase
       ELSE /\ phase' = [phase EXCEPT ![c] = IF @ = "kernel" THEN "asked" ELSE "done"]
            /\ UNCHANGED <<job, queue>>
    /\ UNCHANGED <<opts, left, socketVars, step, ahead, rulesVars, mode, disturbed>>

\* SIPFW_NLInput: the next message of the queue, or back to the client.
Dequeue(c) ==
    /\ phase[c] \in {"kernel", "closing"} /\ job[c] = Idle
    /\ IF queue # <<>>
       THEN job' = [job EXCEPT ![c] = Head(queue)] /\ queue' = Tail(queue) /\ UNCHANGED phase
       ELSE /\ phase' = [phase EXCEPT ![c] = IF @ = "kernel" THEN "asked" ELSE "done"]
            /\ UNCHANGED <<job, queue>>
    /\ UNCHANGED <<opts, left, socketVars, step, ahead, rulesVars, mode, disturbed>>

At(c, s) == job[c] # Idle /\ step[c] = s
Finish(c) == job' = [job EXCEPT ![c] = Idle] /\ step' = [step EXCEPT ![c] = "begin"]

\* The walkers are the lists that other threads are sending; a rule goes before or behind where they are.
Walkers == {d \in Clients : At(d, "rules")}
Shift(n, by) == [d \in Clients |-> IF d \in Walkers /\ by # 0 /\ ahead[d] + by >= 0 THEN ahead[d] + n ELSE ahead[d]]

\* What the commands do to the table: an insert within the chain is not counted; a delete may find nothing.
\* A flush leaves a walk in what was freed, or ends it.
Changes(cmd) ==
    \/ /\ cmd \in {"Insert", "Append"} /\ rules < MaxRules
       /\ rules' = rules + 1
       /\ number' \in (IF cmd = "Append" THEN {number + 1} ELSE {number, number + 1})
       /\ \E n \in {0, 1} : ahead' = Shift(n, 1)
    \/ /\ cmd = "Delete" /\ rules > 0 /\ number > -MaxDeficit
       /\ rules' = rules - 1 /\ number' = number - 1
       /\ \E n \in {0, -1} : ahead' = Shift(n, -1)
    \/ /\ cmd = "Flush" /\ rules' = 0 /\ number' = 0
       /\ \/ ahead' = [d \in Clients |-> IF d \in Walkers THEN 0 ELSE ahead[d]]
          \/ UNCHANGED ahead
    \/ cmd # "Flush" /\ UNCHANGED <<rulesVars, ahead>>

Disturbs == disturbed' = [d \in Clients |-> disturbed[d] \/ \E w \in Walkers : job[w] = d]

\* A command that fails has no answer (mutant: the else branch sends nothing).
DoAction_Silent(c) ==
    LET d == job[c] IN
    /\ At(c, "begin") /\ phase[d] # "closing" /\ opts[d].cmd # "List"
    /\ IF OutOfTable(opts[d])
       THEN mode' = "wild" /\ UNCHANGED <<socketVars, kernelVars, rulesVars, disturbed>>
       ELSE /\ Changes(opts[d].cmd) /\ Disturbs /\ Finish(c) /\ UNCHANGED mode
            /\ IF rulesVars' = rulesVars THEN UNCHANGED socketVars ELSE Deliver(d, 0)
    /\ UNCHANGED <<clientVars, queue>>

\* SIPFW_NLDoAction of a command other than a list: the change and the answer.
DoAction(c) ==
    LET d == job[c] IN
    /\ At(c, "begin") /\ phase[d] # "closing" /\ opts[d].cmd # "List"
    /\ IF OutOfTable(opts[d])
       THEN mode' = "wild" /\ UNCHANGED <<socketVars, kernelVars, rulesVars, disturbed>>
       ELSE /\ Changes(opts[d].cmd) /\ Disturbs
            /\ Deliver(d, 0) /\ Finish(c) /\ UNCHANGED mode
    /\ UNCHANGED <<clientVars, queue>>

\* The message of sig_int: the kernel looks neither at its type nor at its length, and takes what lies behind
\* its header for a command.
DoGarbage(c) ==
    /\ At(c, "begin") /\ phase[job[c]] = "closing"
    /\ \/ /\ \E cmd \in Commands : Changes(cmd)
          /\ Disturbs /\ Finish(c) /\ UNCHANGED mode
       \/ mode' = "wild" /\ UNCHANGED <<kernelVars, rulesVars, disturbed>>
    /\ UNCHANGED <<clientVars, socketVars, queue>>

\* SIPFW_NLAction_RuleList: first the count.
ListCount(c) ==
    /\ At(c, "begin") /\ phase[job[c]] # "closing" /\ opts[job[c]].cmd = "List"
    /\ Deliver(job[c], number % Width)
    /\ step' = [step EXCEPT ![c] = "rules"] /\ ahead' = [ahead EXCEPT ![c] = rules]
    /\ disturbed' = [disturbed EXCEPT ![job[c]] = @ \/ number < 0]
    /\ UNCHANGED <<clientVars, queue, job, rulesVars, mode>>

\* Then each rule, to the end of the chain, however many were counted.
ListRule(c) ==
    /\ At(c, "rules")
    /\ IF ahead[c] > 0
       THEN Deliver(job[c], 0) /\ ahead' = [ahead EXCEPT ![c] = @ - 1] /\ UNCHANGED <<job, step>>
       ELSE Finish(c) /\ UNCHANGED <<socketVars, ahead>>
    /\ UNCHANGED <<clientVars, queue, rulesVars, mode, disturbed>>

\* alloc_skb finds no memory, and its NULL is followed.
NoMemory(c) ==
    /\ job[c] # Idle
    /\ mode' = "oops"
    /\ UNCHANGED <<clientVars, socketVars, queue, kernelVars, rulesVars, disturbed>>

Kernel(c) == Dequeue(c) \/ DoAction(c) \/ DoGarbage(c) \/ ListCount(c) \/ ListRule(c)
Reads(c) == Answer(c) \/ RecvRule(c)

ClientNext ==
    /\ mode = "ok"
    /\ \E c \in Clients : \/ \E args \in CommandLines : Start(c, args)
                          \/ Kernel(c) \/ Reads(c) \/ SigInt(c) \/ NoMemory(c)

\* A thread in the kernel goes on, and a client is woken by what it receives.
ClientSpec == /\ ClientInit /\ [][ClientNext]_sipfwVars
        /\ \A c \in Clients : WF_sipfwVars(mode = "ok" /\ Kernel(c)) /\ WF_sipfwVars(mode = "ok" /\ Reads(c))

(*************************************************************************)
(* Properties                                                             *)
(*************************************************************************)

ClientTypes ==
    /\ phase \in [Clients -> {"start", "kernel", "asked", "listing", "closing", "done", "failed"}]
    /\ opts \in [Clients ->
          [cmd : Commands \cup {"none"}, chain : {None, Table, All}, action : BOOLEAN, number : BOOLEAN]]
    /\ left \in [Clients -> Nat]
    /\ inbox \in [Clients -> Seq(Nat)] /\ err \in [Clients -> BOOLEAN] /\ lost \in [Clients -> BOOLEAN]
    /\ queue \in Seq(Clients)
    /\ job \in [Clients -> Clients \cup {Idle}] /\ step \in [Clients -> {"begin", "rules"}]
    /\ ahead \in [Clients -> Nat] /\ rules \in Nat /\ number \in Int
    /\ mode \in {"ok", "oops", "wild"} /\ disturbed \in [Clients -> BOOLEAN]

\* Whichever threads empty the kernel's queue, the command of a waiting client is in one place only: in the
\* queue, in the hands of one thread, or answered once (sipfw_k_nl.c:421-439).
Servers(c) == {d \in Clients : job[d] = c}
AnswerOwed ==
    \A c \in Clients : phase[c] \in {"kernel", "asked"} /\ opts[c].cmd # "List" =>
        \/ \E i \in 1..Len(queue) : /\ queue[i] = c /\ \A j \in 1..Len(queue) : queue[j] = c => j = i
                                    /\ Servers(c) = {} /\ inbox[c] = <<>>
        \/ /\ \E d \in Clients : Servers(c) = {d}
           /\ \A i \in 1..Len(queue) : queue[i] # c
           /\ inbox[c] = <<>>
        \/ Servers(c) = {} /\ (\A i \in 1..Len(queue) : queue[i] # c) /\ Len(inbox[c]) = 1

\* A client that has sent its command ends, or waits for ever for a message that found its buffer full or a
\* rule that another command took out of the list in the meantime, or the count was below zero and read as a
\* large one (sipfw_u.c:423-429, sipfw_k_nl.c:30, 67-80).
WaitsInVain(c) == phase[c] \in {"asked", "listing"} /\ (lost[c] \/ disturbed[c])
ClientEnds ==
    \A c \in Clients : phase[c] = "kernel" ~> phase[c] \in {"done", "failed"} \/ WaitsInVain(c) \/ mode # "ok"
=============================================================================
