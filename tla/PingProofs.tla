----------------------------- MODULE PingProofs -----------------------------
(***************************************************************************)
(* That ping finds the entry of every reply and counts rightly, for tables *)
(* of every size, shorts of every width and any number of requests.        *)
(***************************************************************************)
EXTENDS Pings, FiniteSetTheorems, TLAPS

(*************************************************************************)
(* The inductive invariant                                                *)
(*************************************************************************)

\* The state of both threads and of the table as far as it matters here.
Typed ==
    /\ spc \in {"none", "loop", "find", "seq", "flag", "send", "count", "end"}
    /\ rpc \in {"none", "loop", "unpack", "clear", "count", "end"}
    /\ sp \in Entries \cup {NULL} /\ rp \in Entries \cup {NULL} /\ msg \in Unsigneds
    /\ seq \in [Entries -> Shorts] /\ flag \in [Entries -> BOOLEAN]
    /\ psend \in Shorts /\ precv \in Shorts /\ net \in [Unsigneds -> Nat]
    /\ sent \in Nat /\ strays \in Nat /\ unrec \subseteq Unsigneds
    /\ spc \in {"seq", "flag"} => sp # NULL
    /\ rpc \in {"clear", "count"} => rp # NULL

\* 1 between sendto and packet_send++.
Uncounted == IF spc = "count" THEN 1 ELSE 0

\* A reply is on its way, or in the receiver's hands and not looked up.
Pending(s) == net[s] > 0 \/ (rpc = "unpack" /\ msg = s)
Replies == {s \in Unsigneds : net[s] > 0}

\* The first entry with number s, if there is one, waits for a reply.
Firm(s) == \A i \in Entries : seq[i] = s /\ ~flag[i] => \E j \in Entries : j < i /\ seq[j] = s /\ flag[j]

\* Every request has one reply at most.
OneReply ==
    /\ \A s \in Unsigneds : net[s] <= 1 /\ (net[s] > 0 => s < sent)
    /\ rpc \in {"unpack", "clear"} => msg < sent /\ net[msg] = 0

\* The receiver is about to free an entry that waits, and for its message.
Clearing == rpc = "clear" => flag[rp] /\ seq[rp] = msg

\* The sender writes to an entry that does not wait, and sends what it has recorded.
Recording ==
    /\ spc \in {"seq", "flag"} => ~flag[sp]
    /\ spc = "flag" => seq[sp] = psend
    /\ spc = "send" /\ sp # NULL => flag[sp] /\ seq[sp] = psend

\* No entry is ahead of the sender, and a free one holds an old number or none.
Numbers ==
    \A i \in Entries : /\ 0 <= seq[i] /\ seq[i] <= psend
                       /\ ~flag[i] /\ seq[i] >= sent => sent = 0 \/ (spc = "flag" /\ i = sp)

\* Before the first request is out, the entries are taken from the first on, all with number 0.
AtFirst ==
    sent = 0 => /\ \A i \in Entries : seq[i] = 0
                /\ \A i, j \in Entries : flag[i] /\ j < i => flag[j]
                /\ spc \in {"seq", "flag"} => \A j \in Entries : j < sp => flag[j]
                /\ spc = "send" /\ sp = NULL => \A j \in Entries : flag[j]

TableKept ==
    /\ sent = psend + Uncounted
    /\ OneReply /\ Clearing /\ Recording /\ Numbers /\ AtFirst
    /\ \A s \in Unsigneds : Pending(s) => Firm(s)
    /\ \A s \in Unsigneds : Pending(s) /\ s \notin unrec => \E i \in Entries : seq[i] = s /\ flag[i]

InHand == IF rpc \in {"unpack", "clear", "count"} THEN 1 ELSE 0
RepliesCounted == 0 <= precv /\ precv + InHand + Cardinality(Replies) <= sent

\* packet_send is the number of the requests sent, cut to a short.
SentCut == Unsigned(sent) = Unsigned(psend + Uncounted)

PingInv == /\ Typed /\ SentCut /\ (Plain => TableKept /\ RepliesCounted)
           /\ mpc \in {"alive", "sender"} => spc = "none"
           /\ mpc \in {"statistics", "crashed", "done"} => spc = "end"
           /\ mpc = "crashed" => Unsigned(sent) = 0

(*************************************************************************)
(* Numbers of a width                                                     *)
(*************************************************************************)

\* The rest of a division is the only number that can be one.
LEMMA TheRest ==
    ASSUME NEW m \in Nat \ {0}, NEW q \in Int, NEW r \in Int, NEW a \in Int,
           0 <= r, r < m, a = m * q + r
    PROVE  a % m = r
<1> DEFINE d == a \div m
           t == a % m
<1>1. d \in Int /\ t \in 0..(m - 1) /\ a = m * d + t
  OBVIOUS
<1> HIDE DEF d, t
<1>2. m * (d - q) = r - t
  BY <1>1
<1>3. d = q
  <2>1. CASE d >= q + 1
    <3>1. m * (d - q) >= m
      BY <2>1, <1>1
    <3>2. QED
      BY <3>1, <1>1, <1>2
  <2>2. CASE d <= q - 1
    <3>1. m * (d - q) <= -m
      BY <2>2, <1>1
    <3>2. QED
      BY <3>1, <1>1, <1>2
  <2>3. QED
    BY <2>1, <2>2, <1>1
<1>4. QED
  BY <1>3, <1>1, <1>2 DEF t

\* Adding a multiple changes nothing.
LEMMA SameRest ==
    ASSUME NEW m \in Nat \ {0}, NEW q \in Int, NEW a \in Int
    PROVE  (a - m * q) % m = a % m
<1>1. PICK d \in Int, t \in 0..(m - 1) : a = m * d + t
  BY a \div m \in Int, a % m \in 0..(m - 1), a = m * (a \div m) + (a % m)
<1>2. a - m * q = m * (d - q) + t
  BY <1>1
<1>3. (a - m * q) % m = t
  BY <1>2, TheRest, m * q \in Int
<1>4. a % m = t
  BY <1>1, TheRest
<1>5. QED
  BY <1>3, <1>4

\* Numbers with one rest have one rest after a step too.
LEMMA RestsStep ==
    ASSUME NEW m \in Nat \ {0}, NEW a \in Int, NEW b \in Int, a % m = b % m
    PROVE  (a + 1) % m = (b + 1) % m
<1>1. PICK d \in Int, t \in 0..(m - 1) : a = m * d + t /\ t = a % m
  BY a \div m \in Int, a % m \in 0..(m - 1), a = m * (a \div m) + (a % m)
<1>2. PICK e \in Int, u \in 0..(m - 1) : b = m * e + u /\ u = b % m
  BY b \div m \in Int, b % m \in 0..(m - 1), b = m * (b \div m) + (b % m)
<1>3. (a + 1) - m * (d - e) = b + 1
  BY <1>1, <1>2
<1>4. ((a + 1) - m * (d - e)) % m = (a + 1) % m
  <2> DEFINE q == d - e
             c == a + 1
  <2>1. q \in Int /\ c \in Int
    BY <1>1, <1>2
  <2> HIDE DEF q, c
  <2>2. (c - m * q) % m = c % m
    BY <2>1, SameRest
  <2>3. QED
    BY <2>2 DEF q, c
<1>5. QED
  BY <1>3, <1>4

LEMMA Widths ==
    /\ 2 * ShortMax + 2 \in Nat \ {0} /\ Shorts \subseteq Int /\ Unsigneds \subseteq Nat
    /\ \A n \in Int : Short(n) \in Shorts /\ Unsigned(n) \in Unsigneds
    /\ \A n \in Int : 0 <= n /\ n <= ShortMax => Short(n) = n /\ Unsigned(n) = n
    /\ \A n \in Int : Unsigned(Short(n)) = Unsigned(n)
    /\ \A a, b \in Int : Unsigned(a) = Unsigned(b) => Unsigned(a + 1) = Unsigned(b + 1)
<1> DEFINE m == 2 * ShortMax + 2
<1>1. ShortMax \in Nat /\ m \in Nat \ {0} /\ Shorts \subseteq Int /\ Unsigneds \subseteq Nat
  BY PingAssumption DEF Shorts, Unsigneds
<1>2. ASSUME NEW n \in Int PROVE Short(n) \in Shorts /\ Unsigned(n) \in Unsigneds
  <2>1. \A a \in Int : a % m \in 0..(m - 1)
    <3> HIDE DEF m
    <3>1. QED
      BY <1>1
  <2>2. n + ShortMax + 1 \in Int
    BY <1>1
  <2> DEFINE a == (n + ShortMax + 1) % m
             b == n % m
  <2>3. a \in 0..(m - 1) /\ b \in 0..(m - 1)
    BY <2>1, <2>2
  <2>4. Short(n) = a - ShortMax - 1 /\ Unsigned(n) = b
    BY DEF Short, Unsigned
  <2> HIDE DEF a, b
  <2>5. QED
    BY <1>1, <2>3, <2>4 DEF Shorts, Unsigneds
<1>3. ASSUME NEW n \in Int, 0 <= n, n <= ShortMax PROVE Short(n) = n /\ Unsigned(n) = n
  <2>1. n = m * 0 + n /\ n < m /\ n + ShortMax + 1 = m * 0 + (n + ShortMax + 1) /\ n + ShortMax + 1 < m
        /\ 0 <= n + ShortMax + 1 /\ n + ShortMax + 1 \in Int
    BY <1>1, <1>3
  <2> HIDE DEF m
  <2>2. n % m = n /\ (n + ShortMax + 1) % m = n + ShortMax + 1
    BY <1>1, <1>3, <2>1, TheRest
  <2>3. QED
    BY <1>1, <2>2 DEF Short, Unsigned, m
<1>4. ASSUME NEW n \in Int PROVE Unsigned(Short(n)) = Unsigned(n)
  <2> DEFINE a == n + ShortMax + 1
             q == a \div m
  <2>1. a \in Int /\ q \in Int /\ a % m = a - m * q
    <3>1. a \in Int
      BY <1>1
    <3> HIDE DEF a, m
    <3> DEFINE t == a % m
    <3>2. q \in Int /\ t \in 0..(m - 1) /\ a = m * q + t
      BY <1>1, <3>1
    <3> HIDE DEF q, t
    <3>3. t = a - m * q
      BY <3>1, <3>2, <1>1
    <3>4. QED
      BY <3>1, <3>2, <3>3 DEF t
  <2>2. Short(n) = (a % m) - ShortMax - 1
    BY DEF Short
  <2>3. m * q \in Int
    <3> HIDE DEF a, m, q
    <3>1. QED
      BY <1>1, <2>1
  <2>4. Short(n) = n - m * q
    <3> DEFINE k == m * q
               t == a % m
    <3>1. Short(n) = t - ShortMax - 1 /\ t = a - k /\ k \in Int
      BY <2>1, <2>2, <2>3
    <3> HIDE DEF k, t
    <3>2. Short(n) = n - k
      BY <1>1, <3>1
    <3>3. QED
      BY <3>2 DEF k
  <2> HIDE DEF a, m, q
  <2>5. (n - m * q) % m = n % m
    BY <1>1, <2>1, SameRest
  <2>6. QED
    BY <2>4, <2>5 DEF Unsigned, m
<1>5. ASSUME NEW a \in Int, NEW b \in Int, Unsigned(a) = Unsigned(b) PROVE Unsigned(a + 1) = Unsigned(b + 1)
  BY <1>1, <1>5, RestsStep DEF Unsigned
<1>6. QED
  BY <1>1, <1>2, <1>3, <1>4, <1>5
(*************************************************************************)
(* The steps                                                              *)
(*************************************************************************)

LEMMA InvStarts == Init => PingInv
<1> SUFFICES ASSUME Init PROVE PingInv
  OBVIOUS
<1>1. 0 \in Shorts /\ 0 \in Unsigneds
  BY PingAssumption DEF Shorts, Unsigneds
<1>2. Typed
  BY <1>1 DEF Init, Typed, Entries
<1>3. Replies = {}
  BY DEF Init, Replies
<1>4. TableKept
  BY <1>1, PingAssumption
  DEF Init, TableKept, Uncounted, OneReply, Clearing, Recording, Numbers, AtFirst, Pending, Firm, Entries, NULL
<1>5. RepliesCounted
  BY <1>3, FS_EmptySet DEF Init, RepliesCounted, InHand
<1>6. QED
  BY <1>2, <1>4, <1>5 DEF Init, PingInv, SentCut, Uncounted

LEMMA Whole ==
    /\ Shorts \subseteq Int /\ Unsigneds \subseteq Nat
    /\ Typed => /\ psend \in Int /\ precv \in Int /\ msg \in Nat /\ sent \in Nat
                /\ \A i \in Entries : seq[i] \in Int
                /\ \A s \in Unsigneds : net[s] \in Nat /\ s \in Nat
<1>1. Shorts \subseteq Int /\ Unsigneds \subseteq Nat
  BY PingAssumption DEF Shorts, Unsigneds
<1>2. QED
  BY <1>1 DEF Typed

LEMMA TypedStep == Typed /\ [Next]_vars => Typed'
<1> SUFFICES ASSUME Typed, [Next]_vars PROVE Typed'
  OBVIOUS
<1> USE DEF Typed, mainVars, sendVars, recvVars, table
<1>1. CASE Main \/ Sigint \/ UNCHANGED vars
  BY <1>1 DEF Main, MainStart, MainJoin, Statistics, Sigint, vars
<1>2. CASE SendEnd \/ SendFind \/ SendSetFlag
  BY <1>2 DEF SendEnd, SendFind, SendSetFlag
<1>3. CASE SendSetSeq
  BY <1>3 DEF SendSetSeq
<1>4. CASE SendTo
  <2>1. Unsigned(psend) \in Unsigneds
    BY Widths
  <2>2. net' \in [Unsigneds -> Nat] /\ unrec' \subseteq Unsigneds
    BY <1>4, <2>1 DEF SendTo
  <2>3. QED
    BY <1>4, <2>2 DEF SendTo
<1>5. CASE SendFails \/ SendCount
  <2>1. Short(psend + 1) \in Shorts
    BY Whole, Widths, psend + 1 \in Int
  <2>2. QED
    BY <1>5, <2>1 DEF SendFails, SendCount
<1>6. CASE RecvEnd \/ RecvFind \/ RecvClear \/ RecvCount
  <2>1. Short(precv + 1) \in Shorts
    BY Whole, Widths, precv + 1 \in Int
  <2>2. QED
    BY <1>6, <2>1 DEF RecvEnd, RecvFind, RecvClear, RecvCount
<1>7. CASE RecvTake
  BY <1>7 DEF RecvTake
<1>8. CASE Stray
  BY <1>8 DEF Stray
<1>9. QED
  BY <1>1, <1>2, <1>3, <1>4, <1>5, <1>6, <1>7, <1>8 DEF Next, Sender, Receiver

\* The network does not become good again, nor packet_send smaller.
LEMMA PlainBefore ==
    ASSUME Typed, [Next]_vars, Plain' PROVE Plain /\ ~Stray
<1> USE DEF Typed, Plain, mainVars, sendVars, recvVars, table
<1>1. strays' \in {strays, strays + 1} /\ sent' \in {sent, sent + 1} /\ (Stray => strays' = strays + 1)
  BY DEF Next, Main, MainStart, MainJoin, Statistics, Sigint, Sender, SendEnd, SendFind, SendSetSeq, SendSetFlag,
         SendTo, SendFails, SendCount, Receiver, RecvEnd, RecvTake, RecvFind, RecvClear, RecvCount, Stray, vars
<1>2. QED
  BY <1>1, PingAssumption

\* The number in hand is that of no request before.
LEMMA NowIsSent ==
    ASSUME Typed, Plain, TableKept
    PROVE  /\ psend \in Nat /\ psend <= ShortMax /\ Unsigned(psend) = psend /\ psend \in Unsigneds
           /\ spc # "count" => psend = sent
           /\ spc = "count" => psend + 1 = sent /\ Short(psend + 1) = psend + 1
<1>1. psend \in Nat /\ psend <= ShortMax /\ psend \in Int
  BY Whole, PingAssumption DEF Plain, TableKept, Uncounted, Numbers, Entries
<1>2. QED
  BY <1>1, Widths, PingAssumption DEF Typed, Plain, TableKept, Uncounted, Unsigneds

LEMMA ReplyCount ==
    ASSUME Typed
    PROVE  /\ IsFiniteSet(Replies) /\ Cardinality(Replies) \in Nat
           /\ Typed' => IsFiniteSet(Replies') /\ Cardinality(Replies') \in Nat
<1>1. IsFiniteSet(Unsigneds)
  BY FS_Interval, PingAssumption DEF Unsigneds
<1>2. Replies \subseteq Unsigneds /\ Replies' \subseteq Unsigneds
  BY DEF Replies, Unsigneds
<1>3. QED
  BY <1>1, <1>2, FS_Subset, FS_CardinalityType

\* Steps that keep the table and the network.
LEMMA KeptByOthers ==
    ASSUME PingInv, Plain, Main \/ Sigint \/ SendEnd \/ SendFails \/ RecvEnd \/ UNCHANGED vars
    PROVE  TableKept' /\ RepliesCounted'
<1> USE DEF mainVars, sendVars, recvVars, table
<1>1. /\ UNCHANGED <<seq, flag, net, sent, psend, precv, unrec, msg, sp, rp>>
      /\ spc' = spc \/ (spc \in {"none", "loop", "send"} /\ spc' \in {"loop", "end"})
      /\ rpc' = rpc \/ rpc' \in {"loop", "end"}
  BY DEF PingInv, Main, MainStart, MainJoin, Statistics, Sigint, SendEnd, SendFails, RecvEnd, vars
<1>2. TableKept /\ RepliesCounted /\ Typed
  BY DEF PingInv
<1>3. Replies' = Replies
  BY <1>1 DEF Replies
<1>4. OneReply' /\ Clearing' /\ Recording' /\ Numbers' /\ AtFirst' /\ sent' = psend' + Uncounted'
  BY <1>1, <1>2 DEF TableKept, OneReply, Clearing, Recording, Numbers, AtFirst, Uncounted, Typed
<1>5. ASSUME NEW s \in Unsigneds, Pending(s)'
      PROVE  Firm(s)' /\ (s \notin unrec' => \E i \in Entries : seq'[i] = s /\ flag'[i])
  <2>1. Pending(s)
    BY <1>1, <1>5 DEF Pending
  <2>2. QED
    BY <1>1, <1>2, <2>1 DEF TableKept, Firm
<1>6. RepliesCounted'
  BY <1>1, <1>2, <1>3, ReplyCount, Widths DEF RepliesCounted, InHand, Typed
<1>7. QED
  BY <1>4, <1>5, <1>6 DEF TableKept

\* The sender takes an entry and writes to it.
LEMMA KeptByRecording ==
    ASSUME PingInv, Plain, SendFind \/ SendSetSeq \/ SendSetFlag
    PROVE  TableKept' /\ RepliesCounted'
<1> USE DEF mainVars, sendVars, recvVars, table
<1>1. TableKept /\ RepliesCounted /\ Typed
  BY DEF PingInv
<1>2. UNCHANGED <<net, sent, psend, precv, unrec, msg, rp, rpc>>
  BY DEF SendFind, SendSetSeq, SendSetFlag
<1>3. /\ psend \in Nat /\ psend = sent /\ spc \in {"loop", "seq", "flag"} /\ spc' \in {"send", "seq", "flag"}
      /\ Shorts \subseteq Int
  BY <1>1, NowIsSent, Widths DEF SendFind, SendSetSeq, SendSetFlag
<1>4. /\ OneReply' /\ sent' = psend' + Uncounted'
      /\ RepliesCounted'
      /\ \A s \in Unsigneds : Pending(s)' => Pending(s) /\ s < sent
  <2>1. Replies' = Replies
    BY <1>2 DEF Replies
  <2>2. QED
    BY <1>1, <1>2, <1>3, <2>1 DEF TableKept, OneReply, Uncounted, RepliesCounted, InHand, Pending
<1>5. CASE SendFind
  <2>1. UNCHANGED <<seq, flag>> /\ spc = "loop" /\ Free(sp') /\ sp' \in Entries \cup {NULL}
        /\ spc' = IF sp' = NULL THEN "send" ELSE "seq"
    BY <1>5 DEF SendFind
  <2>2. Recording' /\ Clearing' /\ Numbers'
    BY <1>1, <1>2, <2>1 DEF TableKept, Recording, Clearing, Numbers, Free, IsFirst, Entries, NULL
  <2>3. AtFirst'
    <3>1. sp' # NULL => \A j \in Entries : j < sp' => flag[j]
      BY <2>1 DEF Free, IsFirst, Entries, NULL
    <3>2. sp' = NULL => \A j \in Entries : flag[j]
      BY <2>1 DEF Free, IsFirst, Entries, NULL
    <3>3. QED
      BY <1>1, <1>2, <2>1, <3>1, <3>2 DEF TableKept, AtFirst
  <2>4. QED
    BY <1>1, <1>2, <1>4, <2>1, <2>2, <2>3 DEF TableKept, Firm
<1>6. CASE SendSetSeq
  <2>1. /\ UNCHANGED <<flag, sp>> /\ spc = "seq" /\ spc' = "flag" /\ sp \in Entries /\ ~flag[sp]
        /\ seq' = [seq EXCEPT ![sp] = psend]
    BY <1>1, <1>6 DEF SendSetSeq, Typed, TableKept, Recording
  <2>2. Recording' /\ Clearing' /\ Numbers' /\ AtFirst'
    BY <1>1, <1>2, <1>3, <2>1 DEF TableKept, Recording, Clearing, Numbers, AtFirst, Typed
  <2>3. ASSUME NEW s \in Unsigneds, Pending(s)'
        PROVE  Firm(s)' /\ (s \notin unrec' => \E i \in Entries : seq'[i] = s /\ flag'[i])
    <3>1. Pending(s) /\ s # psend
      BY <1>3, <1>4, <2>3, Widths
    <3>2. Firm(s) /\ (s \notin unrec => \E i \in Entries : seq[i] = s /\ flag[i])
      BY <1>1, <3>1 DEF TableKept
    <3>3. \A i \in Entries : seq'[i] = s <=> seq[i] = s /\ i # sp
      BY <2>1, <3>1, <3>2, <1>1 DEF Typed
    <3>4. QED
      BY <1>2, <2>1, <3>2, <3>3 DEF Firm
  <2>4. QED
    BY <1>4, <2>2, <2>3 DEF TableKept
<1>7. CASE SendSetFlag
  <2>1. /\ UNCHANGED <<seq, sp>> /\ spc = "flag" /\ spc' = "send" /\ sp \in Entries /\ seq[sp] = psend
        /\ flag' = [flag EXCEPT ![sp] = TRUE]
    BY <1>1, <1>7 DEF SendSetFlag, Typed, TableKept, Recording
  <2>2. Recording' /\ Clearing' /\ Numbers'
    BY <1>1, <1>2, <1>3, <2>1 DEF TableKept, Recording, Clearing, Numbers, Typed
  <2>3. AtFirst'
    <3>1. sp # NULL
      BY <2>1 DEF Entries, NULL
    <3>2. QED
      BY <1>1, <1>2, <2>1, <3>1 DEF TableKept, AtFirst, Typed, Entries
  <2>4. QED
    BY <1>1, <1>2, <1>4, <2>1, <2>2, <2>3 DEF TableKept, Firm, Typed
<1>8. QED
  BY <1>5, <1>6, <1>7
\* sendto takes a request: its entry, if it has one, is the first with its number.
LEMMA KeptBySendTo ==
    ASSUME PingInv, Plain, Plain', SendTo PROVE TableKept' /\ RepliesCounted'
<1> USE DEF mainVars, sendVars, recvVars, table
<1>1. TableKept /\ RepliesCounted /\ Typed
  BY DEF PingInv
<1>2. /\ UNCHANGED <<seq, flag, psend, precv, msg, rp, rpc, sp>> /\ spc = "send" /\ spc' = "count"
      /\ sent' = sent + 1 /\ unrec' = (IF sp = NULL THEN unrec \cup {psend} ELSE unrec)
      /\ net' = [net EXCEPT ![psend] = @ + 1] \/ net' = net
      /\ psend = sent /\ psend \in Nat /\ psend \in Unsigneds
  BY <1>1, NowIsSent DEF SendTo
<1>3. net[psend] = 0 /\ (rpc \in {"unpack", "clear"} => msg # psend)
  BY <1>1, <1>2, Widths DEF TableKept, OneReply, Typed
<1>4. sent' = psend' + Uncounted'
  BY <1>2 DEF Uncounted
<1>5. OneReply'
  BY <1>1, <1>2, <1>3, Widths DEF TableKept, OneReply, Typed
<1>6. Clearing' /\ Recording'
  BY <1>1, <1>2 DEF TableKept, Clearing, Recording
<1>7. Numbers' /\ AtFirst'
  BY <1>1, <1>2, Whole DEF TableKept, Numbers, AtFirst
<1>8. Firm(psend)
  <2> SUFFICES ASSUME NEW i \in Entries, seq[i] = psend, ~flag[i]
               PROVE  \E j \in Entries : j < i /\ seq[j] = psend /\ flag[j]
    BY DEF Firm
  <2>1. sent = 0
    BY <1>1, <1>2 DEF TableKept, Numbers
  <2>2. sp # NULL
    BY <1>1, <1>2, <2>1 DEF TableKept, AtFirst
  <2>3. sp \in Entries /\ flag[sp] /\ seq[sp] = psend
    BY <1>1, <1>2, <2>2 DEF Typed, TableKept, Recording
  <2>4. ~(i < sp) /\ i # sp
    BY <1>1, <2>1, <2>3 DEF TableKept, AtFirst
  <2>5. QED
    BY <2>3, <2>4 DEF Entries
<1>9. ASSUME NEW s \in Unsigneds, Pending(s)'
      PROVE  Firm(s)' /\ (s \notin unrec' => \E i \in Entries : seq'[i] = s /\ flag'[i])
  <2>1. CASE s = psend
    <3>1. sp # NULL => sp \in Entries /\ seq[sp] = psend /\ flag[sp]
      BY <1>1, <1>2 DEF Typed, TableKept, Recording
    <3>2. QED
      BY <1>2, <1>8, <2>1, <3>1 DEF Firm
  <2>2. CASE s # psend
    <3>1. Pending(s)
      BY <1>1, <1>2, <1>9, <2>2 DEF Pending, Typed
    <3>2. QED
      BY <1>1, <1>2, <2>2, <3>1 DEF TableKept, Firm
  <2>3. QED
    BY <2>1, <2>2
<1>10. RepliesCounted'
  <2>1. Replies' = Replies \/ Replies' = Replies \cup {psend}
    <3>1. CASE net' = net
      BY <3>1 DEF Replies
    <3>2. CASE net' = [net EXCEPT ![psend] = @ + 1]
      BY <1>1, <1>2, <1>3, <3>2 DEF Replies, Typed
    <3>3. QED
      BY <1>2, <3>1, <3>2
  <2>2. Cardinality(Replies') <= Cardinality(Replies) + 1 /\ Cardinality(Replies') \in Nat
    BY <1>1, <2>1, ReplyCount, FS_AddElement, FS_CardinalityType
  <2>3. QED
    BY <1>1, <1>2, <2>2, ReplyCount, Widths DEF RepliesCounted, InHand, Typed
<1>11. QED
  BY <1>4, <1>5, <1>6, <1>7, <1>9, <1>10 DEF TableKept

LEMMA KeptByCounting ==
    ASSUME PingInv, Plain, SendCount \/ RecvCount PROVE TableKept' /\ RepliesCounted'
<1> USE DEF mainVars, sendVars, recvVars, table
<1>1. TableKept /\ RepliesCounted /\ Typed
  BY DEF PingInv
<1>2. UNCHANGED <<seq, flag, net, sent, unrec, msg, sp, rp>>
  BY DEF SendCount, RecvCount
<1>3. Replies' = Replies
  BY <1>2 DEF Replies
<1>4. CASE SendCount
  <2>1. UNCHANGED <<rpc, precv>> /\ spc = "count" /\ spc' = "loop" /\ psend' = psend + 1 /\ psend' = sent
        /\ psend \in Nat
    BY <1>1, <1>4, NowIsSent DEF SendCount
  <2>2. /\ OneReply' /\ Clearing' /\ Recording' /\ AtFirst' /\ sent' = psend' + Uncounted'
        /\ RepliesCounted'
    BY <1>1, <1>2, <1>3, <2>1
    DEF TableKept, OneReply, Clearing, Recording, AtFirst, Uncounted, RepliesCounted, InHand
  <2>3. Numbers'
    BY <1>1, <1>2, <2>1, Whole DEF TableKept, Numbers
  <2>4. \A s \in Unsigneds : Pending(s)' <=> Pending(s)
    BY <1>2, <2>1 DEF Pending
  <2>5. QED
    BY <1>1, <1>2, <2>2, <2>3, <2>4 DEF TableKept, Firm
<1>5. CASE RecvCount
  <2>1. UNCHANGED <<spc, psend>> /\ rpc = "count" /\ rpc' = "loop" /\ precv' = Short(precv + 1)
    BY <1>5 DEF RecvCount
  <2>2. precv' = precv + 1
    BY <1>1, <2>1, ReplyCount, Widths, PingAssumption DEF RepliesCounted, InHand, Plain, Typed
  <2>3. /\ OneReply' /\ Clearing' /\ Recording' /\ Numbers' /\ AtFirst' /\ sent' = psend' + Uncounted'
    BY <1>1, <1>2, <2>1 DEF TableKept, OneReply, Clearing, Recording, Numbers, AtFirst, Uncounted
  <2>4. RepliesCounted'
    BY <1>1, <1>2, <1>3, <2>1, <2>2, ReplyCount, Widths DEF RepliesCounted, InHand, Typed
  <2>5. \A s \in Unsigneds : Pending(s)' <=> Pending(s)
    BY <1>2, <2>1 DEF Pending
  <2>6. QED
    BY <1>1, <1>2, <2>3, <2>4, <2>5 DEF TableKept, Firm
<1>6. QED
  BY <1>4, <1>5

\* A reply is taken from the network, looked up, and its entry freed.
LEMMA KeptByReceiving ==
    ASSUME PingInv, Plain, RecvTake \/ RecvFind \/ RecvClear PROVE TableKept' /\ RepliesCounted'
<1> USE DEF mainVars, sendVars, recvVars, table
<1>1. TableKept /\ RepliesCounted /\ Typed
  BY DEF PingInv
<1>2. UNCHANGED <<seq, sent, psend, precv, unrec, spc, sp>>
  BY DEF RecvTake, RecvFind, RecvClear
<1>3. sent' = psend' + Uncounted'
  BY <1>1, <1>2 DEF TableKept, Uncounted
<1>4. CASE RecvTake
  <2>1. PICK s \in Unsigneds : /\ net[s] > 0 /\ net' = [net EXCEPT ![s] = @ - 1] /\ msg' = s
                               /\ rpc = "loop" /\ rpc' = "unpack" /\ UNCHANGED <<flag, rp>>
    BY <1>4 DEF RecvTake
  <2>2. net[s] = 1 /\ net'[s] = 0 /\ s < sent
    BY <1>1, <2>1 DEF TableKept, OneReply, Typed
  <2>3. OneReply' /\ Clearing' /\ Recording' /\ Numbers' /\ AtFirst'
    BY <1>1, <1>2, <2>1, <2>2 DEF TableKept, OneReply, Clearing, Recording, Numbers, AtFirst, Typed
  <2>4. \A t \in Unsigneds : Pending(t)' => Pending(t)
    BY <1>1, <2>1, <2>2 DEF Pending, Typed
  <2>5. RepliesCounted'
    <3>1. Replies' = Replies \ {s} /\ s \in Replies
      BY <1>1, <2>1, <2>2 DEF Replies, Typed
    <3>2. Cardinality(Replies') = Cardinality(Replies) - 1
      BY <1>1, <3>1, ReplyCount, FS_RemoveElement
    <3>3. QED
      BY <1>1, <1>2, <2>1, <3>2, ReplyCount, Widths DEF RepliesCounted, InHand, Typed
  <2>6. QED
    BY <1>1, <1>2, <1>3, <2>1, <2>3, <2>4, <2>5 DEF TableKept, Firm
<1>5. CASE RecvFind
  <2>1. /\ rpc = "unpack" /\ UNCHANGED <<net, msg, flag>> /\ rp' \in Entries \cup {NULL} /\ Finds(msg, rp')
        /\ rpc' = IF rp' = NULL THEN "loop" ELSE "clear"
    BY <1>5 DEF RecvFind
  <2>2. Firm(msg)
    BY <1>1, <2>1 DEF TableKept, Pending, Typed
  <2>3. rp' # NULL => rp' \in Entries /\ seq[rp'] = msg /\ \A j \in Entries : seq[j] = msg => rp' <= j
    BY <2>1 DEF Finds, IsFirst, NULL, Entries
  <2>4. rp' # NULL => flag[rp']
    <3>1. SUFFICES ASSUME rp' # NULL, ~flag[rp'] PROVE FALSE
      OBVIOUS
    <3>2. PICK j \in Entries : j < rp' /\ seq[j] = msg
      BY <2>2, <2>3, <3>1 DEF Firm
    <3>3. QED
      BY <2>3, <3>1, <3>2 DEF Entries
  <2>5. OneReply' /\ Clearing' /\ Recording' /\ Numbers' /\ AtFirst'
    BY <1>1, <1>2, <2>1, <2>3, <2>4 DEF TableKept, OneReply, Clearing, Recording, Numbers, AtFirst, Typed
  <2>6. \A t \in Unsigneds : Pending(t)' => Pending(t)
    BY <2>1 DEF Pending
  <2>7. RepliesCounted'
    <3>1. Replies' = Replies
      BY <2>1 DEF Replies
    <3>2. QED
      BY <1>1, <1>2, <2>1, <3>1, ReplyCount, Widths DEF RepliesCounted, InHand, Typed
  <2>8. QED
    BY <1>1, <1>2, <1>3, <2>1, <2>5, <2>6, <2>7 DEF TableKept, Firm
<1>6. CASE RecvClear
  <2>1. /\ rpc = "clear" /\ rpc' = "count" /\ UNCHANGED <<net, msg, rp>> /\ rp \in Entries
        /\ flag' = [flag EXCEPT ![rp] = FALSE]
    BY <1>1, <1>6 DEF RecvClear, Typed
  <2>2. flag[rp] /\ seq[rp] = msg /\ msg < sent /\ net[msg] = 0 /\ msg \in Nat /\ sent > 0
    BY <1>1, <2>1, Widths DEF TableKept, OneReply, Clearing, Typed
  <2>3. \A i \in Entries : flag'[i] <=> flag[i] /\ i # rp
    BY <1>1, <2>1 DEF Typed
  <2>4. OneReply' /\ Clearing' /\ Numbers' /\ AtFirst'
    BY <1>1, <1>2, <2>1, <2>2, <2>3 DEF TableKept, OneReply, Clearing, Numbers, AtFirst
  <2>5. Recording'
    <3>1. spc = "send" => psend = sent
      BY <1>1, NowIsSent
    <3>2. spc = "send" /\ sp # NULL => sp # rp
      BY <1>1, <2>2, <3>1 DEF TableKept, Recording
    <3>3. sp # NULL => sp \in Entries
      BY <1>1 DEF Typed
    <3>4. QED
      BY <1>1, <1>2, <2>3, <3>2, <3>3 DEF TableKept, Recording, Typed
  <2>6. ASSUME NEW s \in Unsigneds, Pending(s)'
        PROVE  Firm(s)' /\ (s \notin unrec' => \E i \in Entries : seq'[i] = s /\ flag'[i])
    <3>1. Pending(s) /\ s # msg
      BY <1>1, <2>1, <2>2, <2>6 DEF Pending, Typed
    <3>2. Firm(s) /\ (s \notin unrec => \E i \in Entries : seq[i] = s /\ flag[i])
      BY <1>1, <3>1 DEF TableKept
    <3>3. \A i \in Entries : seq[i] = s => (flag'[i] <=> flag[i])
      BY <2>2, <2>3, <3>1
    <3>4. QED
      BY <1>2, <3>2, <3>3 DEF Firm
  <2>7. RepliesCounted'
    <3>1. Replies' = Replies
      BY <2>1 DEF Replies
    <3>2. QED
      BY <1>1, <1>2, <2>1, <3>1, ReplyCount, Widths DEF RepliesCounted, InHand, Typed
  <2>8. QED
    BY <1>1, <1>2, <1>3, <2>4, <2>5, <2>6, <2>7 DEF TableKept
<1>7. QED
  BY <1>4, <1>5, <1>6

LEMMA CutStep ==
    ASSUME PingInv, [Next]_vars
    PROVE  /\ SentCut'
           /\ mpc' \in {"alive", "sender"} => spc' = "none"
           /\ mpc' \in {"statistics", "crashed", "done"} => spc' = "end"
           /\ mpc' = "crashed" => Unsigned(sent') = 0
<1> USE DEF mainVars, sendVars, recvVars, table
<1>1. SentCut /\ Typed /\ psend \in Int /\ sent \in Int
  BY Widths DEF PingInv, Typed
<1>2. CASE SendTo
  <2>1. spc = "send" /\ spc' = "count" /\ psend' = psend /\ sent' = sent + 1 /\ UNCHANGED mpc
    BY <1>2 DEF SendTo
  <2>2. QED
    BY <1>1, <2>1, Widths DEF PingInv, SentCut, Uncounted
<1>3. CASE SendCount
  <2>1. spc = "count" /\ spc' = "loop" /\ psend' = Short(psend + 1) /\ UNCHANGED <<mpc, sent>>
    BY <1>3 DEF SendCount
  <2>2. psend + 1 \in Int /\ psend' \in Int
    <3>1. Short(psend + 1) \in Shorts
      BY <1>1, Widths, psend + 1 \in Int
    <3>2. Shorts \subseteq Int /\ psend' \in Shorts
      BY <2>1, <3>1, Whole
    <3>3. QED
      BY <1>1, <3>2
  <2>3. Unsigned(psend' + 0) = Unsigned(psend + 1)
    BY <2>1, <2>2, Widths
  <2>4. QED
    BY <1>1, <2>1, <2>3 DEF PingInv, SentCut, Uncounted
<1>4. CASE Main
  <2>1. sent' = sent /\ psend' = psend /\ (spc' = spc \/ (spc = "none" /\ spc' = "loop" /\ mpc' = "receiver"))
    BY <1>4 DEF Main, MainStart, MainJoin, Statistics, PingInv
  <2>2. SentCut'
    BY <1>1, <2>1 DEF SentCut, Uncounted
  <2>3. CASE MainStart
    BY <2>1, <2>2, <2>3 DEF PingInv, MainStart
  <2>4. CASE MainJoin
    BY <2>1, <2>2, <2>4 DEF PingInv, MainJoin
  <2>5. CASE Statistics
    <3>1. spc = "end" /\ mpc = "statistics" /\ mpc' \in {"crashed", "done"} /\ (mpc' = "crashed" => psend = 0)
          /\ UNCHANGED <<spc, sent>>
      BY <2>5 DEF PingInv, Statistics
    <3>2. Unsigned(sent) = Unsigned(psend + 0)
      BY <1>1, <3>1 DEF SentCut, Uncounted
    <3>3. Unsigned(0 + 0) = 0
      BY Widths, PingAssumption
    <3>4. QED
      BY <2>2, <3>1, <3>2, <3>3
  <2>6. QED
    BY <1>4, <2>3, <2>4, <2>5 DEF Main
<1>5. CASE ~Main /\ ~SendTo /\ ~SendCount
  <2>1. sent' = sent /\ psend' = psend /\ mpc' = mpc
        /\ (spc' = spc \/ (spc \notin {"none", "end", "count"} /\ spc' # "count"))
    BY <1>5
    DEF Next, Sigint, Sender, SendEnd, SendFind, SendSetSeq, SendSetFlag, SendFails,
        Receiver, RecvEnd, RecvTake, RecvFind, RecvClear, RecvCount, Stray, vars
  <2>2. QED
    BY <1>1, <2>1 DEF PingInv, SentCut, Uncounted
<1>6. QED
  BY <1>2, <1>3, <1>4, <1>5

LEMMA InvStep == PingInv /\ [Next]_vars => PingInv'
<1> SUFFICES ASSUME PingInv, [Next]_vars PROVE PingInv'
  OBVIOUS
<1>1. Typed'
  BY TypedStep DEF PingInv
<1>2. ASSUME Plain' PROVE TableKept' /\ RepliesCounted'
  <2>1. Plain /\ ~Stray
    BY <1>2, PlainBefore DEF PingInv
  <2>2. QED
    BY <1>2, <2>1, KeptByOthers, KeptByRecording, KeptBySendTo, KeptByCounting, KeptByReceiving
    DEF Next, Sender, Receiver
<1>3. QED
  BY <1>1, <1>2, CutStep DEF PingInv

(*************************************************************************)
(* The theorems                                                           *)
(*************************************************************************)

\* What ties the table to the requests and replies under way holds for every size of the table.
THEOREM PingInvHolds == Spec => []PingInv
BY InvStarts, InvStep, PTL DEF Spec

LEMMA InvFinds == PingInv => ReplyIsFound
BY DEF PingInv, TableKept, Pending, ReplyIsFound, Typed

\* In a network that behaves, the receiver finds the entry of every reply to a request that was
\* recorded, although the two threads share the table without a lock (icmp_findpacket).
THEOREM EveryReplyIsFound == Spec => []ReplyIsFound
BY InvFinds, PingInvHolds, PTL

LEMMA InvCounts == PingInv => CountsTrue
<1> SUFFICES ASSUME PingInv PROVE CountsTrue
  OBVIOUS
<1>1. Plain => precv <= sent
  BY ReplyCount, Widths DEF PingInv, RepliesCounted, InHand, Typed
<1>2. QED
  BY <1>1 DEF PingInv, TableKept, Uncounted, CountsTrue

\* The statistics are true, and are divided by 0 only after a multiple of 2^16 requests (icmp_statistics).
THEOREM StatisticsAreTrue == Spec => []CountsTrue
BY InvCounts, PingInvHolds, PTL

(*************************************************************************)
(* The earlier ping: its invariant                                        *)
(*************************************************************************)

\* From sendto to packet_send++, which a full table skips, and before the entry says so.
Underway == {"find", "seq", "flag", "count"}
Early == {"find", "seq", "flag"}
Sending == IF spc \in Underway THEN 1 ELSE 0

\* The replies on their way, of which there may be several to one request: the k-th to s is <<s, k>>.
Copies == {r \in Unsigneds \X (Nat \ {0}) : r[2] <= net[r[1]]}

\* What is counted was sent and received, and the first request finds an empty table.
CountsKept ==
    /\ psend >= 0 /\ psend + Sending <= sent
    /\ IsFiniteSet(Copies) /\ 0 <= precv /\ precv + InHand + Cardinality(Copies) <= sent
    /\ psend = 0 => sent = Sending /\ \A i \in Entries : flag[i] => spc = "count"

\* The receiver is about to free the entry of its message, which may not say yet that it waits.
ClearingSoon ==
    rpc = "clear" => /\ seq[rp] = msg
                     /\ \/ flag[rp]
                        \/ spc = "find" /\ msg = 0 /\ psend = 0 /\ rp = 1
                        \/ spc \in {"seq", "flag"} /\ msg = psend /\ rp = sp

\* The number in hand is in no entry but the one the sender writes to, unless it is the first.
NewNumber ==
    \A i \in Entries : /\ 0 <= seq[i] /\ seq[i] <= psend
                       /\ seq[i] = psend => psend = 0 \/ (spc \in {"flag", "count"} /\ i = sp)

FirstEntry ==
    psend = 0 => /\ \A i \in Entries : seq[i] = 0 /\ (flag[i] => i = 1)
                 /\ spc \in {"seq", "flag", "count"} => sp = 1

\* While every request has found an entry.
EarlyKept ==
    /\ sent = psend + Sending
    /\ OneReply /\ ClearingSoon /\ NewNumber /\ FirstEntry
    /\ spc \in {"seq", "flag"} => ~flag[sp]
    /\ spc \in {"flag", "count"} => seq[sp] = psend
    /\ \A s \in Unsigneds : Pending(s) =>
          \/ spc \in Early /\ s = psend
          \/ Firm(s) /\ \E i \in Entries : seq[i] = s /\ flag[i]

Ping2Inv == /\ Typed /\ (spc = "count" => sp # NULL)
            /\ Plain => CountsKept
            /\ Plain /\ unrec = {} => EarlyKept
            /\ mpc \in {"alive", "sender"} => spc = "none"
            /\ mpc \in {"statistics", "crashed", "done"} => spc = "end"
            /\ mpc = "crashed" => psend = 0

LEMMA Inv2Starts == Init => Ping2Inv
<1> SUFFICES ASSUME Init PROVE Ping2Inv
  OBVIOUS
<1>1. Typed
  BY InvStarts DEF PingInv
<1>2. Copies = {}
  BY DEF Init, Copies
<1>3. CountsKept
  BY <1>2, FS_EmptySet DEF Init, CountsKept, Sending, Underway, InHand
<1>4. EarlyKept
  <2>1. \A s \in Unsigneds : ~Pending(s)
    BY DEF Init, Pending
  <2>2. QED
    BY <2>1 DEF Init, EarlyKept, Sending, Underway, OneReply, ClearingSoon, NewNumber, FirstEntry, NULL, Entries
<1>5. QED
  BY <1>1, <1>3, <1>4 DEF Init, Ping2Inv

LEMMA Typed2Step == Ping2Inv /\ [Next2]_vars => Typed' /\ (spc' = "count" => sp' # NULL)
<1> SUFFICES ASSUME Ping2Inv, [Next2]_vars PROVE Typed' /\ (spc' = "count" => sp' # NULL)
  OBVIOUS
<1> USE DEF mainVars, sendVars, recvVars, table
<1>1. CASE Main2 \/ Sigint \/ SendEnd \/ Receiver2 \/ Stray \/ UNCHANGED vars
  <2>1. [Next]_vars
    BY <1>1 DEF Main2, Receiver2, Receive2, Unpack2, Next, Main, Sender, Receiver
  <2>2. Typed'
    BY <2>1, TypedStep DEF Ping2Inv
  <2>3. sp' = sp /\ (spc' = "count" => spc = "count")
    BY <1>1
    DEF Main2, MainStart, MainJoin, Statistics, Sigint, SendEnd, Receiver2, Receive2, Unpack2,
        RecvEnd, RecvTake, RecvFind, RecvClear, RecvCount, Stray, vars
  <2>4. QED
    BY <2>2, <2>3 DEF Ping2Inv
<1>2. CASE SendFirst
  <2>1. Now \in Unsigneds
    BY Widths, Whole DEF Ping2Inv, Now
  <2>2. net' \in [Unsigneds -> Nat]
    BY <1>2, <2>1 DEF SendFirst, Ping2Inv, Typed
  <2>3. QED
    BY <1>2, <2>2 DEF SendFirst, Ping2Inv, Typed
<1>3. CASE FirstFails \/ FindAfter
  <2>1. Now \in Unsigneds
    BY Widths, Whole DEF Ping2Inv, Now
  <2>2. QED
    BY <1>3, <2>1 DEF FirstFails, FindAfter, Ping2Inv, Typed
<1>4. CASE RecordSeq \/ RecordFlag
  BY <1>4 DEF RecordSeq, RecordFlag, Ping2Inv, Typed
<1>5. CASE Count
  <2>1. Short(psend + 1) \in Shorts
    BY Whole, Widths, psend + 1 \in Int DEF Ping2Inv
  <2>2. QED
    BY <1>5, <2>1 DEF Count, Ping2Inv, Typed
<1>6. QED
  BY <1>1, <1>2, <1>3, <1>4, <1>5 DEF Next2, Sender2

LEMMA Plain2Before ==
    ASSUME Ping2Inv, [Next2]_vars, Plain'
    PROVE  Plain /\ ~Stray /\ (unrec' = {} => unrec = {})
<1> USE DEF mainVars, sendVars, recvVars, table
<1>1. strays' \in {strays, strays + 1} /\ sent' \in {sent, sent + 1} /\ (Stray => strays' = strays + 1)
      /\ unrec \subseteq unrec'
  BY DEF Next2, Main2, MainStart, MainJoin, Statistics, Sigint, Sender2, SendEnd, SendFirst, FirstFails, FindAfter,
         RecordSeq, RecordFlag, Count, Receiver2, Receive2, Unpack2, RecvEnd, RecvTake, RecvFind, RecvClear,
         RecvCount, Stray, vars
<1>2. QED
  BY <1>1, PingAssumption, Whole DEF Plain, Ping2Inv, Typed

LEMMA NowIsNumber ==
    ASSUME Ping2Inv, Plain
    PROVE  /\ psend \in Nat /\ Now = psend /\ psend \in Unsigneds /\ precv \in Int /\ sent \in Nat
           /\ IsFiniteSet(Copies) /\ Cardinality(Copies) \in Nat
           /\ spc = "count" => Short(psend + 1) = psend + 1
<1>1. Typed /\ CountsKept /\ psend \in Int
  BY Whole DEF Ping2Inv
<1>2. psend \in Nat /\ psend <= ShortMax /\ (spc = "count" => psend + 1 <= ShortMax) /\ sent \in Nat
  BY <1>1, Whole, PingAssumption DEF CountsKept, Sending, Underway, Plain
<1>3. Now = psend /\ Now \in Unsigneds
  BY <1>2, Widths DEF Now
<1>4. psend + 1 \in Int /\ (spc = "count" => Short(psend + 1) = psend + 1)
  BY <1>2, Widths
<1>5. QED
  BY <1>1, <1>2, <1>3, <1>4, Whole, FS_CardinalityType DEF CountsKept

\* One more reply to s is one more pair, one less is one less.
LEMMA CopiesChange ==
    ASSUME Typed, NEW s \in Unsigneds
    PROVE  /\ net' = [net EXCEPT ![s] = @ + 1] =>
                 Copies' = Copies \cup {<<s, net[s] + 1>>} /\ <<s, net[s] + 1>> \notin Copies
           /\ net' = [net EXCEPT ![s] = @ - 1] /\ net[s] > 0 =>
                 Copies' = Copies \ {<<s, net[s]>>} /\ <<s, net[s]>> \in Copies
           /\ net' = net => Copies' = Copies
<1>1. net \in [Unsigneds -> Nat] /\ net[s] \in Nat
  BY DEF Typed
<1>2. ASSUME net' = [net EXCEPT ![s] = @ + 1]
      PROVE  Copies' = Copies \cup {<<s, net[s] + 1>>} /\ <<s, net[s] + 1>> \notin Copies
  <2>1. ASSUME NEW t \in Unsigneds, NEW k \in Nat \ {0}
        PROVE  k <= net'[t] <=> k <= net[t] \/ (t = s /\ k = net[s] + 1)
    BY <1>1, <1>2
  <2>2. \A r \in Unsigneds \X (Nat \ {0}) : r \in Copies' <=> r \in Copies \/ r = <<s, net[s] + 1>>
    BY <1>1, <2>1 DEF Copies
  <2>3. <<s, net[s] + 1>> \in Unsigneds \X (Nat \ {0}) /\ ~(net[s] + 1 <= net[s])
    BY <1>1
  <2>4. QED
    BY <2>2, <2>3 DEF Copies
<1>3. ASSUME net' = [net EXCEPT ![s] = @ - 1], net[s] > 0
      PROVE  Copies' = Copies \ {<<s, net[s]>>} /\ <<s, net[s]>> \in Copies
  <2>1. ASSUME NEW t \in Unsigneds, NEW k \in Nat \ {0}
        PROVE  k <= net'[t] <=> k <= net[t] /\ ~(t = s /\ k = net[s])
    BY <1>1, <1>3
  <2>2. \A r \in Unsigneds \X (Nat \ {0}) : r \in Copies' <=> r \in Copies /\ r # <<s, net[s]>>
    BY <1>1, <2>1 DEF Copies
  <2>3. <<s, net[s]>> \in Unsigneds \X (Nat \ {0})
    BY <1>1, <1>3
  <2>4. QED
    BY <2>2, <2>3 DEF Copies
<1>4. QED
  BY <1>2, <1>3 DEF Copies

LEMMA CountsStep ==
    ASSUME Ping2Inv, [Next2]_vars, Plain, Plain' PROVE CountsKept'
<1> USE DEF mainVars, sendVars, recvVars, table
<1>1. Typed /\ CountsKept /\ (spc = "count" => sp # NULL)
  BY DEF Ping2Inv
<1>2. /\ psend \in Nat /\ Now = psend /\ psend \in Unsigneds /\ precv \in Int /\ sent \in Nat
      /\ IsFiniteSet(Copies) /\ Cardinality(Copies) \in Nat
      /\ spc = "count" => Short(psend + 1) = psend + 1
  BY NowIsNumber
<1>3. ~Stray
  BY Plain2Before
<1>4. CASE Main2 \/ Sigint \/ SendEnd \/ FirstFails \/ RecvEnd \/ UNCHANGED vars
  <2>1. /\ UNCHANGED <<flag, net, sent, psend, precv>> /\ (rpc' = rpc \/ rpc' \in {"loop", "end"})
        /\ spc' = spc \/ (spc \in {"none", "loop"} /\ spc' \in {"loop", "end"})
    BY <1>4 DEF Main2, MainStart, MainJoin, Statistics, Sigint, SendEnd, FirstFails, RecvEnd, vars, Ping2Inv
  <2>2. Copies' = Copies
    BY <2>1 DEF Copies
  <2>3. QED
    BY <1>1, <1>2, <2>1, <2>2 DEF CountsKept, Sending, Underway, InHand
<1>5. CASE SendFirst
  <2>1. /\ spc = "loop" /\ spc' = "find" /\ sent' = sent + 1 /\ UNCHANGED <<flag, psend, precv, rpc>>
        /\ net' = [net EXCEPT ![psend] = @ + 1] \/ net' = net
    BY <1>2, <1>5 DEF SendFirst
  <2>2. IsFiniteSet(Copies') /\ Cardinality(Copies') <= Cardinality(Copies) + 1 /\ Cardinality(Copies') \in Nat
    <3> DEFINE r == <<psend, net[psend] + 1>>
    <3>1. Copies' = Copies \/ (Copies' = Copies \cup {r} /\ r \notin Copies)
      BY <1>1, <1>2, <2>1, CopiesChange
    <3> HIDE DEF r
    <3>2. IsFiniteSet(Copies \cup {r}) /\ (r \notin Copies => Cardinality(Copies \cup {r}) = Cardinality(Copies) + 1)
      BY <1>2, FS_AddElement
    <3>3. QED
      BY <1>2, <3>1, <3>2
  <2>3. QED
    BY <1>1, <1>2, <2>1, <2>2 DEF CountsKept, Sending, Underway, InHand
<1>6. CASE FindAfter
  <2>1. /\ spc = "find" /\ UNCHANGED <<flag, psend, precv, rpc, net, sent>> /\ sp' \in Entries \cup {NULL}
        /\ Free(sp') /\ spc' = IF sp' = NULL THEN "loop" ELSE "seq"
    BY <1>6 DEF FindAfter
  <2>2. Copies' = Copies
    BY <2>1 DEF Copies
  <2>3. psend = 0 => sp' # NULL
    <3>1. 1 \in Entries /\ 1 # NULL
      BY PingAssumption DEF Entries, NULL
    <3>2. psend = 0 => ~flag[1]
      BY <1>1, <2>1, <3>1 DEF CountsKept
    <3>3. psend = 0 => {i \in Entries : ~flag[i]} # {}
      BY <3>1, <3>2
    <3>4. NULL \notin Entries
      BY DEF NULL, Entries
    <3>5. QED
      BY <2>1, <3>3, <3>4 DEF Free, IsFirst
  <2>4. QED
    BY <1>1, <1>2, <2>1, <2>2, <2>3 DEF CountsKept, Sending, Underway, InHand
<1>7. CASE RecordSeq \/ RecordFlag
  <2>1. /\ UNCHANGED <<psend, precv, rpc, net, sent>> /\ spc \in {"seq", "flag"} /\ spc' \in {"flag", "count"}
        /\ flag' = flag \/ spc' = "count"
    BY <1>7 DEF RecordSeq, RecordFlag
  <2>2. Copies' = Copies
    BY <2>1 DEF Copies
  <2>3. QED
    BY <1>1, <1>2, <2>1, <2>2 DEF CountsKept, Sending, Underway, InHand
<1>8. CASE Count
  <2>1. /\ UNCHANGED <<flag, precv, rpc, net, sent>> /\ spc = "count" /\ spc' = "loop" /\ psend' = psend + 1
    BY <1>2, <1>8 DEF Count
  <2>2. Copies' = Copies
    BY <2>1 DEF Copies
  <2>3. QED
    BY <1>1, <1>2, <2>1, <2>2 DEF CountsKept, Sending, Underway, InHand
<1>9. CASE RecvTake
  <2>1. PICK s \in Unsigneds : /\ net[s] > 0 /\ net' = [net EXCEPT ![s] = @ - 1]
                               /\ rpc = "loop" /\ rpc' = "unpack" /\ UNCHANGED <<flag, psend, precv, sent, spc>>
    BY <1>9 DEF RecvTake
  <2>2. IsFiniteSet(Copies') /\ Cardinality(Copies') = Cardinality(Copies) - 1 /\ Cardinality(Copies') \in Nat
    <3> DEFINE r == <<s, net[s]>>
    <3>1. Copies' = Copies \ {r} /\ r \in Copies
      BY <1>1, <2>1, CopiesChange
    <3> HIDE DEF r
    <3>2. IsFiniteSet(Copies \ {r}) /\ (r \in Copies => Cardinality(Copies \ {r}) = Cardinality(Copies) - 1)
      BY <1>2, FS_RemoveElement
    <3>3. Cardinality(Copies') \in Nat
      BY <3>1, <3>2, FS_CardinalityType
    <3>4. QED
      BY <1>2, <3>1, <3>2, <3>3
  <2>3. QED
    BY <1>1, <1>2, <2>1, <2>2 DEF CountsKept, Sending, Underway, InHand
<1>10. CASE Unpack2
  <2>1. UNCHANGED <<net, psend, sent, spc>>
    BY <1>10 DEF Unpack2, RecvFind, RecvClear, RecvCount
  <2>2. Copies' = Copies
    BY <2>1 DEF Copies
  <2>3. \A i \in Entries : flag'[i] => flag[i]
    BY <1>1, <1>10 DEF Unpack2, RecvFind, RecvClear, RecvCount, Typed
  <2>4. \/ precv' = precv /\ (InHand' = InHand \/ InHand' = 0)
        \/ precv' = precv + 1 /\ InHand = 1 /\ InHand' = 0
    <3>1. CASE RecvFind \/ RecvClear
      <4>1. precv' = precv /\ rpc \in {"unpack", "clear"} /\ rpc' \in {"loop", "clear", "count"}
        BY <3>1 DEF RecvFind, RecvClear
      <4>2. QED
        BY <4>1 DEF InHand
    <3>2. CASE RecvCount
      <4>1. InHand = 1 /\ InHand' = 0 /\ precv' = Short(precv + 1)
        BY <3>2 DEF RecvCount, InHand
      <4>2. precv + 1 \in Int /\ 0 <= precv + 1 /\ precv + 1 <= ShortMax
        BY <1>1, <1>2, <4>1, PingAssumption DEF CountsKept, Plain
      <4>3. Short(precv + 1) = precv + 1
        BY <4>2, Widths
      <4>4. QED
        BY <4>1, <4>3
    <3>3. QED
      BY <1>10, <3>1, <3>2 DEF Unpack2
  <2>5. InHand \in {0, 1}
    BY DEF InHand
  <2>6. 0 <= precv' /\ precv' + InHand' <= precv + InHand
    BY <1>1, <1>2, <2>4, <2>5 DEF CountsKept
  <2>7. precv' + InHand' + Cardinality(Copies) <= sent
    <3> DEFINE k == Cardinality(Copies)
    <3>1. precv' \in Int /\ InHand' \in Int /\ k \in Nat /\ precv \in Int /\ InHand \in Int /\ sent \in Int
      BY <1>2, <2>4, <2>5
    <3>2. precv + InHand + k <= sent
      BY <1>1 DEF CountsKept
    <3> HIDE DEF k
    <3>3. \A a, b, c, d \in Int : a + b <= c + d /\ c + d + k <= sent => a + b + k <= sent
      BY <3>1
    <3>4. precv' + InHand' + k <= sent
      BY <2>6, <3>1, <3>2, <3>3
    <3>5. QED
      BY <3>4 DEF k
  <2>8. QED
    BY <1>1, <1>2, <2>1, <2>2, <2>3, <2>6, <2>7 DEF CountsKept, Sending, Underway
<1>11. QED
  BY <1>3, <1>4, <1>5, <1>6, <1>7, <1>8, <1>9, <1>10 DEF Next2, Sender2, Receiver2, Receive2

LEMMA PlaceStep ==
    ASSUME Ping2Inv, [Next2]_vars
    PROVE  /\ mpc' \in {"alive", "sender"} => spc' = "none"
           /\ mpc' \in {"statistics", "crashed", "done"} => spc' = "end"
           /\ mpc' = "crashed" => psend' = 0
<1> USE DEF mainVars, sendVars, recvVars, table, Ping2Inv
<1>1. CASE Main2
  BY <1>1 DEF Main2, MainStart, MainJoin, Statistics
<1>2. CASE ~Main2
  <2>1. mpc' = mpc /\ (spc' = spc \/ spc \notin {"none", "end"}) /\ (psend' = psend \/ spc \notin {"none", "end"})
    BY <1>2
    DEF Next2, Sigint, Sender2, SendEnd, SendFirst, FirstFails, FindAfter, RecordSeq, RecordFlag, Count,
        Receiver2, Receive2, Unpack2, RecvEnd, RecvTake, RecvFind, RecvClear, RecvCount, Stray, vars
  <2>2. QED
    BY <2>1
<1>3. QED
  BY <1>1, <1>2

\* Steps that keep the table, the network and the number in hand.
LEMMA EarlyByOthers ==
    ASSUME Ping2Inv, Plain, unrec = {}, Main2 \/ Sigint \/ SendEnd \/ FirstFails \/ RecvEnd \/ UNCHANGED vars
    PROVE  EarlyKept'
<1> USE DEF mainVars, sendVars, recvVars, table
<1>1. Typed /\ EarlyKept
  BY DEF Ping2Inv
<1>2. /\ UNCHANGED <<seq, flag, net, sent, psend, precv, unrec, msg, sp, rp>>
      /\ spc' = spc \/ (spc \in {"none", "loop"} /\ spc' \in {"loop", "end"})
      /\ rpc' = rpc \/ rpc' \in {"loop", "end"}
  BY DEF Ping2Inv, Main2, MainStart, MainJoin, Statistics, Sigint, SendEnd, FirstFails, RecvEnd, vars
<1>3. /\ sent' = psend' + Sending' /\ OneReply' /\ ClearingSoon' /\ NewNumber' /\ FirstEntry'
      /\ spc' \in {"seq", "flag"} => ~flag'[sp']
      /\ spc' \in {"flag", "count"} => seq'[sp'] = psend'
  BY <1>1, <1>2 DEF EarlyKept, Sending, Underway, OneReply, ClearingSoon, NewNumber, FirstEntry
<1>4. \A s \in Unsigneds : Pending(s)' => Pending(s)
  BY <1>2 DEF Pending
<1>5. QED
  BY <1>1, <1>2, <1>3, <1>4 DEF EarlyKept, Firm, Early

\* The sender's steps, from sendto to packet_send++.
LEMMA EarlyBySending ==
    ASSUME Ping2Inv, Plain, unrec = {}, unrec' = {},
           SendFirst \/ FindAfter \/ RecordSeq \/ RecordFlag \/ Count
    PROVE  EarlyKept'
<1> USE DEF mainVars, sendVars, recvVars, table
<1>1. Typed /\ EarlyKept /\ CountsKept /\ (spc = "count" => sp \in Entries)
  BY DEF Ping2Inv, Typed
<1>2. /\ psend \in Nat /\ Now = psend /\ psend \in Unsigneds /\ sent \in Nat
      /\ spc = "count" => Short(psend + 1) = psend + 1
  BY NowIsNumber
<1>3. UNCHANGED <<msg, rp, rpc>>
  BY DEF SendFirst, FindAfter, RecordSeq, RecordFlag, Count
<1>4. 1 \in Entries
  BY PingAssumption DEF Entries
<1>5. CASE SendFirst
  <2>1. /\ spc = "loop" /\ spc' = "find" /\ sent' = sent + 1 /\ UNCHANGED <<seq, flag, psend, sp>> /\ psend = sent
        /\ net' = [net EXCEPT ![psend] = @ + 1] \/ net' = net
    BY <1>1, <1>2, <1>5 DEF SendFirst, EarlyKept, Sending, Underway
  <2>2. net[psend] = 0 /\ (rpc \in {"unpack", "clear"} => msg # psend)
    BY <1>1, <1>2, <2>1, Whole DEF EarlyKept, OneReply
  <2>3. OneReply'
    BY <1>1, <1>2, <1>3, <2>1, <2>2, Whole DEF EarlyKept, OneReply, Typed
  <2>4. /\ sent' = psend' + Sending' /\ ClearingSoon' /\ NewNumber' /\ FirstEntry'
        /\ spc' \in {"seq", "flag"} => ~flag'[sp']
        /\ spc' \in {"flag", "count"} => seq'[sp'] = psend'
    BY <1>1, <1>2, <1>3, <2>1 DEF EarlyKept, Sending, Underway, ClearingSoon, NewNumber, FirstEntry
  <2>5. \A s \in Unsigneds : Pending(s)' /\ s # psend => Pending(s)
    BY <1>1, <1>2, <1>3, <2>1 DEF Pending, Typed
  <2>6. QED
    BY <1>1, <2>1, <2>3, <2>4, <2>5 DEF EarlyKept, Firm, Early
<1>6. CASE FindAfter
  <2>1. /\ spc = "find" /\ UNCHANGED <<seq, flag, psend, net, sent>> /\ sp' \in Entries \cup {NULL}
        /\ Free(sp') /\ spc' = IF sp' = NULL THEN "loop" ELSE "seq"
        /\ unrec' = IF sp' = NULL THEN unrec \cup {Now} ELSE unrec
    BY <1>6 DEF FindAfter
  <2>2. sp' # NULL /\ spc' = "seq" /\ sp' \in Entries
    BY <2>1
  <2>3. ~flag[sp'] /\ \A j \in Entries : ~flag[j] => sp' <= j
    BY <2>1, <2>2 DEF Free, IsFirst, NULL, Entries
  <2>4. psend = 0 => sp' = 1
    <3>1. psend = 0 => ~flag[1]
      BY <1>1, <1>4, <2>1 DEF CountsKept
    <3>2. QED
      BY <1>4, <2>2, <2>3, <3>1 DEF Entries
  <2>5. OneReply' /\ ClearingSoon' /\ NewNumber' /\ FirstEntry' /\ sent' = psend' + Sending'
    <3>1. OneReply' /\ NewNumber' /\ sent' = psend' + Sending'
      BY <1>1, <1>3, <2>1, <2>2 DEF EarlyKept, OneReply, NewNumber, Sending, Underway
    <3>2. ClearingSoon'
      BY <1>1, <1>3, <2>1, <2>2, <2>4 DEF EarlyKept, ClearingSoon
    <3>3. FirstEntry'
      BY <1>1, <2>1, <2>2, <2>4 DEF EarlyKept, FirstEntry
    <3>4. QED
      BY <3>1, <3>2, <3>3
  <2>6. \A s \in Unsigneds : Pending(s)' => Pending(s)
    BY <1>3, <2>1 DEF Pending
  <2>7. QED
    BY <1>1, <2>1, <2>2, <2>3, <2>5, <2>6 DEF EarlyKept, Firm, Early
<1>7. CASE RecordSeq
  <2>1. /\ spc = "seq" /\ spc' = "flag" /\ UNCHANGED <<flag, psend, net, sent, sp>> /\ sp \in Entries
        /\ seq' = [seq EXCEPT ![sp] = psend] /\ ~flag[sp]
    BY <1>1, <1>7 DEF RecordSeq, EarlyKept, Typed
  <2>2. \A i \in Entries : seq'[i] = IF i = sp THEN psend ELSE seq[i]
    BY <1>1, <2>1 DEF Typed
  <2>3. OneReply' /\ NewNumber' /\ FirstEntry' /\ sent' = psend' + Sending'
    BY <1>1, <1>2, <1>3, <2>1, <2>2 DEF EarlyKept, OneReply, NewNumber, FirstEntry, Sending, Underway
  <2>4. ClearingSoon'
    BY <1>1, <1>3, <2>1, <2>2 DEF EarlyKept, ClearingSoon, Typed
  <2>5. ASSUME NEW s \in Unsigneds, Pending(s)', s # psend
        PROVE  Firm(s)' /\ \E i \in Entries : seq'[i] = s /\ flag'[i]
    <3>1. Firm(s) /\ \E i \in Entries : seq[i] = s /\ flag[i]
      BY <1>1, <1>3, <2>1, <2>5 DEF Pending, EarlyKept
    <3>2. QED
      BY <2>1, <2>2, <2>5, <3>1 DEF Firm
  <2>6. QED
    BY <2>1, <2>2, <2>3, <2>4, <2>5 DEF EarlyKept, Early
<1>8. CASE RecordFlag
  <2>1. /\ spc = "flag" /\ spc' = "count" /\ UNCHANGED <<seq, psend, net, sent, sp>> /\ sp \in Entries
        /\ flag' = [flag EXCEPT ![sp] = TRUE] /\ seq[sp] = psend
    BY <1>1, <1>8 DEF RecordFlag, EarlyKept, Typed
  <2>2. \A i \in Entries : flag'[i] <=> flag[i] \/ i = sp
    BY <1>1, <2>1 DEF Typed
  <2>3. OneReply' /\ NewNumber' /\ FirstEntry' /\ sent' = psend' + Sending'
    BY <1>1, <1>2, <1>3, <2>1, <2>2 DEF EarlyKept, OneReply, NewNumber, FirstEntry, Sending, Underway
  <2>4. ClearingSoon'
    BY <1>1, <1>3, <2>1, <2>2 DEF EarlyKept, ClearingSoon, Typed
  <2>5. Firm(psend)'
    <3>1. ASSUME NEW i \in Entries, seq[i] = psend, i # sp PROVE sp < i
      <4>1. psend = 0 /\ sp = 1
        BY <1>1, <2>1, <3>1 DEF EarlyKept, NewNumber, FirstEntry
      <4>2. QED
        BY <3>1, <4>1 DEF Entries
    <3>2. QED
      BY <2>1, <2>2, <3>1 DEF Firm
  <2>6. ASSUME NEW s \in Unsigneds, Pending(s)'
        PROVE  Firm(s)' /\ \E i \in Entries : seq'[i] = s /\ flag'[i]
    <3>1. CASE s = psend
      BY <2>1, <2>2, <2>5, <3>1 DEF Firm
    <3>2. CASE s # psend
      <4>1. Firm(s) /\ \E i \in Entries : seq[i] = s /\ flag[i]
        BY <1>1, <1>3, <2>1, <2>6, <3>2 DEF Pending, EarlyKept
      <4>2. QED
        BY <2>1, <2>2, <4>1 DEF Firm
    <3>3. QED
      BY <3>1, <3>2
  <2>7. QED
    BY <2>1, <2>3, <2>4, <2>6 DEF EarlyKept
<1>9. CASE Count
  <2>1. /\ spc = "count" /\ spc' = "loop" /\ UNCHANGED <<seq, flag, net, sent, sp>> /\ psend' = psend + 1
    BY <1>2, <1>9 DEF Count
  <2>2. OneReply' /\ NewNumber' /\ FirstEntry' /\ sent' = psend' + Sending' /\ ClearingSoon'
    <3>1. OneReply' /\ FirstEntry' /\ sent' = psend' + Sending'
      BY <1>1, <1>2, <1>3, <2>1 DEF EarlyKept, OneReply, FirstEntry, Sending, Underway
    <3>2. NewNumber'
      BY <1>1, <1>2, <2>1, Whole DEF EarlyKept, NewNumber
    <3>3. ClearingSoon'
      BY <1>1, <1>3, <2>1 DEF EarlyKept, ClearingSoon
    <3>4. QED
      BY <3>1, <3>2, <3>3
  <2>3. \A s \in Unsigneds : Pending(s)' => Pending(s)
    BY <1>3, <2>1 DEF Pending
  <2>4. QED
    BY <1>1, <2>1, <2>2, <2>3 DEF EarlyKept, Firm, Early
<1>10. QED
  BY <1>5, <1>6, <1>7, <1>8, <1>9

\* The receiver's steps.
LEMMA EarlyByReceiving ==
    ASSUME Ping2Inv, Plain, unrec = {}, RecvTake \/ Unpack2
    PROVE  EarlyKept'
<1> USE DEF mainVars, sendVars, recvVars, table
<1>1. Typed /\ EarlyKept
  BY DEF Ping2Inv
<1>2. UNCHANGED <<seq, sent, psend, spc, sp, unrec>>
  BY DEF RecvTake, Unpack2, RecvFind, RecvClear, RecvCount
<1>3. sent' = psend' + Sending' /\ NewNumber'
      /\ (spc' \in {"flag", "count"} => seq'[sp'] = psend')
  BY <1>1, <1>2 DEF EarlyKept, Sending, NewNumber
<1>4. CASE RecvTake
  <2>1. PICK s \in Unsigneds : /\ net[s] > 0 /\ net' = [net EXCEPT ![s] = @ - 1] /\ msg' = s
                               /\ rpc = "loop" /\ rpc' = "unpack" /\ UNCHANGED <<flag, rp>>
    BY <1>4 DEF RecvTake
  <2>2. net[s] = 1 /\ net'[s] = 0 /\ s < sent
    BY <1>1, <2>1 DEF EarlyKept, OneReply, Typed
  <2>3. OneReply' /\ ClearingSoon' /\ FirstEntry'
    BY <1>1, <1>2, <2>1, <2>2 DEF EarlyKept, OneReply, ClearingSoon, FirstEntry, Typed
  <2>4. \A t \in Unsigneds : Pending(t)' => Pending(t)
    BY <1>1, <2>1, <2>2 DEF Pending, Typed
  <2>5. QED
    BY <1>1, <1>2, <1>3, <2>1, <2>3, <2>4 DEF EarlyKept, Firm, Early
<1>5. CASE RecvFind
  <2>1. /\ rpc = "unpack" /\ UNCHANGED <<net, msg, flag>> /\ rp' \in Entries \cup {NULL} /\ Finds(msg, rp')
        /\ rpc' = IF rp' = NULL THEN "loop" ELSE "clear"
    BY <1>5 DEF RecvFind
  <2>2. rp' # NULL => rp' \in Entries /\ seq[rp'] = msg /\ \A j \in Entries : seq[j] = msg => rp' <= j
    BY <2>1 DEF Finds, IsFirst, NULL, Entries
  <2>3. ClearingSoon'
    <3> SUFFICES ASSUME rp' # NULL, ~flag[rp']
                 PROVE  \/ spc = "find" /\ msg = 0 /\ psend = 0 /\ rp' = 1
                        \/ spc \in {"seq", "flag"} /\ msg = psend /\ rp' = sp
      BY <1>2, <2>1, <2>2 DEF ClearingSoon
    <3>1. ~Firm(msg)
      <4>1. SUFFICES ASSUME Firm(msg) PROVE FALSE
        OBVIOUS
      <4>2. PICK j \in Entries : j < rp' /\ seq[j] = msg
        BY <2>2, <4>1 DEF Firm
      <4>3. QED
        BY <2>2, <4>2 DEF Entries
    <3>2. spc \in Early /\ msg = psend
      BY <1>1, <2>1, <3>1 DEF EarlyKept, Pending, Typed
    <3>3. CASE psend = 0
      <4>1. 1 \in Entries /\ seq[1] = 0
        BY <1>1, <3>3, PingAssumption DEF EarlyKept, FirstEntry, Entries
      <4>2. rp' = 1
        BY <2>2, <3>2, <3>3, <4>1 DEF Entries
      <4>3. QED
        BY <1>1, <3>2, <3>3, <4>2 DEF EarlyKept, FirstEntry, Early
    <3>4. CASE psend # 0
      BY <1>1, <2>2, <3>2, <3>4 DEF EarlyKept, NewNumber, Early
    <3>5. QED
      BY <3>3, <3>4
  <2>4. OneReply' /\ FirstEntry'
    BY <1>1, <1>2, <2>1 DEF EarlyKept, OneReply, FirstEntry
  <2>5. \A t \in Unsigneds : Pending(t)' => Pending(t)
    BY <2>1 DEF Pending
  <2>6. QED
    BY <1>1, <1>2, <1>3, <2>1, <2>3, <2>4, <2>5 DEF EarlyKept, Firm, Early
<1>6. CASE RecvClear
  <2>1. /\ rpc = "clear" /\ rpc' = "count" /\ UNCHANGED <<net, msg, rp>> /\ rp \in Entries
        /\ flag' = [flag EXCEPT ![rp] = FALSE]
    BY <1>1, <1>6 DEF RecvClear, Typed
  <2>2. seq[rp] = msg /\ net[msg] = 0
    BY <1>1, <2>1 DEF EarlyKept, OneReply, ClearingSoon
  <2>3. \A i \in Entries : flag'[i] <=> flag[i] /\ i # rp
    BY <1>1, <2>1 DEF Typed
  <2>4. OneReply' /\ ClearingSoon' /\ FirstEntry'
    BY <1>1, <1>2, <2>1, <2>3 DEF EarlyKept, OneReply, ClearingSoon, FirstEntry
  <2>5. spc' \in {"seq", "flag"} => ~flag'[sp']
    BY <1>1, <1>2, <2>3 DEF EarlyKept, Typed
  <2>6. ASSUME NEW s \in Unsigneds, Pending(s)'
        PROVE  \/ spc' \in Early /\ s = psend'
               \/ Firm(s)' /\ \E i \in Entries : seq'[i] = s /\ flag'[i]
    <3>1. Pending(s) /\ s # msg
      BY <1>1, <2>1, <2>2, <2>6 DEF Pending, Typed
    <3>2. \/ spc \in Early /\ s = psend
          \/ Firm(s) /\ \E i \in Entries : seq[i] = s /\ flag[i]
      BY <1>1, <3>1 DEF EarlyKept
    <3>3. \A i \in Entries : seq[i] = s => (flag'[i] <=> flag[i])
      BY <2>2, <2>3, <3>1
    <3>4. QED
      BY <1>2, <3>2, <3>3 DEF Firm
  <2>7. QED
    BY <1>3, <2>4, <2>5, <2>6 DEF EarlyKept
<1>7. CASE RecvCount
  <2>1. UNCHANGED <<net, flag, msg, rp>> /\ rpc = "count" /\ rpc' = "loop"
    BY <1>7 DEF RecvCount
  <2>2. OneReply' /\ ClearingSoon' /\ FirstEntry'
    BY <1>1, <1>2, <2>1 DEF EarlyKept, OneReply, ClearingSoon, FirstEntry
  <2>3. \A t \in Unsigneds : Pending(t)' => Pending(t)
    BY <2>1 DEF Pending
  <2>4. QED
    BY <1>1, <1>2, <1>3, <2>1, <2>2, <2>3 DEF EarlyKept, Firm, Early
<1>8. QED
  BY <1>4, <1>5, <1>6, <1>7 DEF Unpack2

LEMMA Inv2Step == Ping2Inv /\ [Next2]_vars => Ping2Inv'
<1> SUFFICES ASSUME Ping2Inv, [Next2]_vars PROVE Ping2Inv'
  OBVIOUS
<1>1. ASSUME Plain' PROVE CountsKept'
  BY <1>1, Plain2Before, CountsStep
<1>2. ASSUME Plain', unrec' = {} PROVE EarlyKept'
  <2>1. Plain /\ ~Stray /\ unrec = {}
    BY <1>2, Plain2Before
  <2>2. QED
    BY <1>2, <2>1, EarlyByOthers, EarlyBySending, EarlyByReceiving DEF Next2, Sender2, Receiver2, Receive2
<1>3. QED
  BY <1>1, <1>2, Typed2Step, PlaceStep DEF Ping2Inv

\* The same for the earlier ping, whose table may know of a request later than its reply comes.
THEOREM Ping2InvHolds == Spec2 => []Ping2Inv
BY Inv2Starts, Inv2Step, PTL DEF Spec2

LEMMA Inv2Lost == Ping2Inv => LostIsEarly
<1> SUFFICES ASSUME Ping2Inv, Plain, rpc = "unpack", unrec = {}
             PROVE  \/ \E i \in Entries : seq[i] = msg /\ flag[i]
                    \/ spc \in {"find", "seq", "flag"} /\ msg = Now
  BY DEF LostIsEarly
<1>1. Pending(msg) /\ msg \in Unsigneds /\ Now = psend
  BY NowIsNumber DEF Pending, Ping2Inv, Typed
<1>2. QED
  BY <1>1 DEF Ping2Inv, EarlyKept, Early

\* Without a full table only replies that came before their request was recorded are not found (ping2.c).
THEOREM OnlyEarlyAreLost == Spec2 => []LostIsEarly
BY Inv2Lost, Ping2InvHolds, PTL

LEMMA Inv2Counts == Ping2Inv => CountsHold
<1> SUFFICES ASSUME Ping2Inv, Plain
             PROVE  precv <= sent /\ 0 <= psend /\ psend <= sent /\ (mpc = "crashed" => sent = 0)
  BY DEF CountsHold
<1>1. /\ psend \in Nat /\ precv \in Int /\ sent \in Nat /\ Cardinality(Copies) \in Nat
      /\ InHand \in {0, 1} /\ Sending \in {0, 1}
  BY NowIsNumber DEF InHand, Sending
<1>2. precv <= sent
  <2>1. precv + InHand + Cardinality(Copies) <= sent
    BY DEF Ping2Inv, CountsKept
  <2>2. QED
    BY <1>1, <2>1
<1>3. psend <= sent
  BY <1>1 DEF Ping2Inv, CountsKept
<1>4. mpc = "crashed" => sent = 0
  BY DEF Ping2Inv, CountsKept, Sending, Underway
<1>5. QED
  BY <1>1, <1>2, <1>3, <1>4

\* However often a number is sent again, not more replies are counted than requests were sent, and not more
\* requests; and the statistics divide by 0 only if none was sent (ping2.c).
THEOREM CountsHoldAlways == Spec2 => []CountsHold
BY Inv2Counts, Ping2InvHolds, PTL

(*************************************************************************)
(* Whichever of them runs                                                 *)
(*************************************************************************)

\* Each version keeps its own invariant.
PingsInv == /\ version \in {"later", "earlier"}
            /\ version = "later" => PingInv
            /\ version = "earlier" => Ping2Inv

\* Both invariants hold of whichever version runs, for tables of every size.
THEOREM PingsInvHolds == PingsSpec => []PingsInv
<1>1. PingsInit => PingsInv
  BY InvStarts, Inv2Starts DEF PingsInit, PingsInv
<1>2. PingsInv /\ [PingsNext]_pingsVars => PingsInv'
  <2> SUFFICES ASSUME PingsInv, [PingsNext]_pingsVars PROVE PingsInv'
    OBVIOUS
  <2>1. version' = version
    BY DEF PingsNext, Later, Earlier, pingsVars
  <2>2. CASE version = "later"
    <3>1. PingInv /\ [Next]_vars
      BY <2>2 DEF PingsInv, PingsNext, Later, Earlier, pingsVars
    <3>2. PingInv'
      BY <3>1, InvStep
    <3>3. QED
      BY <2>1, <2>2, <3>2 DEF PingsInv
  <2>3. CASE version = "earlier"
    <3>1. Ping2Inv /\ [Next2]_vars
      BY <2>3 DEF PingsInv, PingsNext, Later, Earlier, pingsVars
    <3>2. Ping2Inv'
      BY <3>1, Inv2Step
    <3>3. QED
      BY <2>1, <2>3, <3>2 DEF PingsInv
  <2>4. QED
    BY <2>2, <2>3 DEF PingsInv
<1>3. QED
  BY <1>1, <1>2, PTL DEF PingsSpec

\* As EveryReplyIsFound says, in the composition of both.
THEOREM LaterAlwaysFinds == PingsSpec => []LaterFinds
<1>1. PingsInv => LaterFinds
  BY InvFinds DEF PingsInv, LaterFinds
<1>2. QED
  BY <1>1, PingsInvHolds, PTL

\* The statistics of both.
THEOREM EitherAlwaysCounts == PingsSpec => []EitherCounts
<1>1. PingsInv => EitherCounts
  BY InvCounts, Inv2Counts DEF PingsInv, EitherCounts
<1>2. QED
  BY <1>1, PingsInvHolds, PTL

\* As long as the table has room, no reply is lost but one that overtakes the record of its request, which in
\* the later version none can.
THEOREM OnlyEarlyAreLostOfEither == PingsSpec => []LostIsEarly
<1>1. PingInv => LostIsEarly
  <2>1. unrec = {} => msg \notin unrec
    OBVIOUS
  <2>2. QED
    BY <2>1, InvFinds DEF ReplyIsFound, LostIsEarly
<1>2. PingsInv => LostIsEarly
  BY <1>1, Inv2Lost DEF PingsInv
<1>3. QED
  BY <1>2, PingsInvHolds, PTL

=============================================================================
