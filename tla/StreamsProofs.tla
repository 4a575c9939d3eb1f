---------------------------- MODULE StreamsProofs ----------------------------
(***************************************************************************)
(* The forwarder of the select examples carries every byte of each side    *)
(* to the other side, in the order it was sent, and never waits in a call  *)
(* other than select(), for any number of descriptors, any buffers and     *)
(* any pieces in which the bytes come and go. And of the echo servers, the *)
(* pairs of threads and the passed descriptor: who waits has somebody left *)
(* to wait for, or the case is one that the liveness properties name.      *)
(***************************************************************************)
EXTENDS EchoServers, Forwarder, Processes, PassedDescriptor, TLAPS

(***************************************************************************)
(* Runs of bytes                                                           *)
(***************************************************************************)

\* What a side sends: its n-th byte in a turn of the forwarder.
Bytes == [turn : Int, byte : Int]

\* q is a piece of what was sent in turn t, from the byte behind the b-th on.
Run(q, t, b) == q \in Seq(Bytes) /\ \A i \in 1..Len(q) : q[i] = [turn |-> t, byte |-> b + i]

LEMMA RunPiece ==
    ASSUME NEW q, NEW t, NEW b \in Int, Run(q, t, b), NEW m \in Nat, NEW n \in Nat, m <= n, n <= Len(q)
    PROVE  Run(SubSeq(q, m + 1, n), t, b + m) /\ Len(SubSeq(q, m + 1, n)) = n - m
<1>1. q \in Seq(Bytes)
  BY DEF Run
<1>2. SubSeq(q, m + 1, n) \in Seq(Bytes) /\ Len(SubSeq(q, m + 1, n)) = n - m
  BY <1>1
<1>3. ASSUME NEW i \in 1..(n - m) PROVE SubSeq(q, m + 1, n)[i] = [turn |-> t, byte |-> (b + m) + i]
  <2>1. SubSeq(q, m + 1, n)[i] = q[m + i] /\ m + i \in 1..Len(q)
    BY <1>1
  <2>2. q[m + i] = [turn |-> t, byte |-> b + (m + i)]
    BY <2>1 DEF Run
  <2>3. b + (m + i) = (b + m) + i
    OBVIOUS
  <2>4. QED
    BY <2>1, <2>2, <2>3
<1>4. QED
  BY <1>2, <1>3 DEF Run

LEMMA RunsJoin ==
    ASSUME NEW p, NEW q, NEW t, NEW b \in Int, Run(p, t, b), Run(q, t, b + Len(p))
    PROVE  Run(p \o q, t, b) /\ Len(p \o q) = Len(p) + Len(q)
<1>1. p \in Seq(Bytes) /\ q \in Seq(Bytes)
  BY DEF Run
<1>2. p \o q \in Seq(Bytes) /\ Len(p \o q) = Len(p) + Len(q) /\ Len(p) \in Nat /\ Len(q) \in Nat
  BY <1>1
<1>3. ASSUME NEW i \in 1..(Len(p) + Len(q)) PROVE (p \o q)[i] = [turn |-> t, byte |-> b + i]
  <2>1. CASE i <= Len(p)
    BY <1>1, <2>1 DEF Run
  <2>2. CASE ~(i <= Len(p))
    <3>1. (p \o q)[i] = q[i - Len(p)] /\ i - Len(p) \in 1..Len(q)
      BY <1>1, <1>2, <2>2
    <3>2. q[i - Len(p)] = [turn |-> t, byte |-> (b + Len(p)) + (i - Len(p))]
      BY <3>1 DEF Run
    <3>3. (b + Len(p)) + (i - Len(p)) = b + i
      BY <1>2
    <3>4. QED
      BY <3>1, <3>2, <3>3
  <2>3. QED
    BY <2>1, <2>2
<1>4. QED
  BY <1>2, <1>3 DEF Run

LEMMA RunGrows ==
    ASSUME NEW q, NEW t \in Int, NEW b \in Int, Run(q, t, b), NEW n, n = b + Len(q) + 1
    PROVE  Run(Append(q, [turn |-> t, byte |-> n]), t, b) /\ Len(Append(q, [turn |-> t, byte |-> n])) = Len(q) + 1
<1> DEFINE e == [turn |-> t, byte |-> n]
<1>1. q \in Seq(Bytes) /\ Len(q) \in Nat
  BY DEF Run
<1>2. e \in Bytes
  BY <1>1 DEF Bytes
<1> HIDE DEF e
<1>3. Append(q, e) \in Seq(Bytes) /\ Len(Append(q, e)) = Len(q) + 1 /\ Append(q, e)[Len(q) + 1] = e
  BY <1>1, <1>2
<1>4. \A i \in 1..Len(q) : Append(q, e)[i] = q[i]
  BY <1>1, <1>2
<1>5. b + (Len(q) + 1) = n
  BY <1>1
<1>6. ASSUME NEW i \in 1..(Len(q) + 1) PROVE Append(q, e)[i] = [turn |-> t, byte |-> b + i]
  <2>1. CASE i = Len(q) + 1
    BY <1>3, <1>5, <2>1 DEF e
  <2>2. CASE i # Len(q) + 1
    <3>1. i \in 1..Len(q)
      BY <1>1, <2>2
    <3>2. QED
      BY <1>4, <3>1 DEF Run
  <2>3. QED
    BY <2>1, <2>2
<1>7. QED
  BY <1>3, <1>6 DEF Run, e

(***************************************************************************)
(* The invariant                                                           *)
(***************************************************************************)

Places == {"select", "accept", "oob1", "oob2", "read1", "read2", "write1", "write2", "tidy"}

FwdTypes ==
    /\ calls \in [made : Int, taken : Int] /\ sock \in [Sides -> {-1} \cup 1..4]
    /\ sent \in [Sides -> Int] /\ arrived \in [Sides -> Seq(Bytes)]
    /\ ended \subseteq Sides /\ urgent \subseteq Sides
    /\ buf \in [Sides -> Seq(Bytes)] /\ written \in [Sides -> Nat] /\ got \in [Sides -> Seq(Bytes)]
    /\ at \in Places /\ fresh \in BOOLEAN

\* How many bytes of side o have been written before the first one that its buffer holds.
Base(o) == Len(got[Other(o)]) - written[o]

\* What side o has sent is in three pieces, one behind the other: with the other side, in the buffer (of which
\* the first part is with the other side too), and not yet read.
Stream(o) ==
    /\ written[o] <= Len(buf[o]) /\ Len(buf[o]) <= BUF_SIZE
    /\ sent[o] = Base(o) + Len(buf[o]) + Len(arrived[o])
    /\ Run(got[Other(o)], calls.taken, 0)
    /\ Run(buf[o], calls.taken, Base(o))
    /\ Run(arrived[o], calls.taken, Base(o) + Len(buf[o]))

\* Descriptors that are open at the same time have different numbers.
TwoNumbers == 1 \in Open /\ 2 \in Open => sock[1] # sock[2]

\* A descriptor in the set for reading has input until the loop has read it, or the set is older than the pair.
Before(s) == IF s = 1 THEN {"accept", "oob1", "oob2", "read1"} ELSE {"accept", "oob1", "oob2", "read1", "read2"}
Ready(s) ==
    /\ at \in Before(s)
    /\ ~fresh /\ s \in Open /\ sock[s] \in rd
    => HasInput(s)

FwdInv == FwdTypes /\ TwoNumbers /\ \A s \in Sides : Stream(s) /\ Ready(s)

LEMMA TwoSides ==
    ASSUME NEW o \in Sides
    PROVE  Other(o) \in Sides /\ Other(o) # o /\ Other(Other(o)) = o
  BY DEF Sides, Other

LEMMA NoBytes == \A t : \A b \in Int : Run(<<>>, t, b)
  BY DEF Run

\* Nothing sent, nothing read: a new pair, or none.
LEMMA NewStream ==
    ASSUME NEW o \in Sides, written[o] = 0, sent[o] = 0, buf[o] = <<>>, arrived[o] = <<>>, got[Other(o)] = <<>>
    PROVE  Stream(o)
<1>1. Base(o) = 0 /\ Len(buf[o]) = 0 /\ Len(arrived[o]) = 0
  BY DEF Base
<1>2. QED
  BY <1>1, NoBytes, ForwarderConstants DEF Stream

LEMMA FwdStarts == FwdInit => FwdInv
<1> SUFFICES ASSUME FwdInit PROVE FwdInv
  OBVIOUS
<1>1. FwdTypes
  <2>1. <<>> \in Seq(Bytes)
    OBVIOUS
  <2>2. calls \in [made : Int, taken : Int] /\ sock \in [Sides -> {-1} \cup 1..4]
    BY DEF FwdInit
  <2>3. QED
    BY <2>1, <2>2 DEF FwdInit, FwdTypes, Places
<1>2. TwoNumbers /\ \A s \in Sides : Ready(s)
  BY DEF FwdInit, TwoNumbers, Ready, Open, Sides
<1>3. ASSUME NEW o \in Sides PROVE Stream(o)
  BY TwoSides, NewStream DEF FwdInit
<1>4. QED
  BY <1>1, <1>2, <1>3 DEF FwdInv

(* What a step leaves alone. *)

LEMMA StreamKept ==
    ASSUME NEW o \in Sides, Stream(o), calls'.taken = calls.taken, sent'[o] = sent[o], arrived'[o] = arrived[o],
           buf'[o] = buf[o], written'[o] = written[o], got'[Other(o)] = got[Other(o)]
    PROVE  Stream(o)'
  BY DEF Stream, Base

LEMMA ReadyKept ==
    ASSUME NEW s \in Sides, Ready(s), at' \in Before(s) => at \in Before(s), fresh' = fresh, rd' = rd,
           s \in Open' => s \in Open /\ sock'[s] = sock[s], HasInput(s) => HasInput(s)'
    PROVE  Ready(s)'
  BY DEF Ready

LEMMA NumbersKept ==
    ASSUME TwoNumbers, \A s \in Sides : s \in Open' => s \in Open /\ sock'[s] = sock[s]
    PROVE  TwoNumbers'
  BY DEF TwoNumbers, Sides

(***************************************************************************)
(* The steps                                                               *)
(***************************************************************************)

\* What clients and servers do.
LEMMA PeersStep ==
    ASSUME FwdInv, CallIn \/ \E s \in Sides : Say(s) \/ End(s) \/ Urge(s)
    PROVE  FwdInv'
<1>1. FwdTypes /\ TwoNumbers
  BY DEF FwdInv
<1>2. UNCHANGED <<sock, buf, written, got, at, sets>> /\ calls'.taken = calls.taken
  BY <1>1 DEF CallIn, Say, End, Urge, FwdTypes
<1>3. TwoNumbers'
  BY <1>1, <1>2, NumbersKept DEF Open
<1>4. CASE \E s \in Sides : Say(s)
  <2>1. PICK s \in Sides : Say(s)
    BY <1>4
  <2> DEFINE b == [turn |-> calls.taken, byte |-> sent[s] + 1]
  <2>2. calls.taken \in Int /\ sent[s] \in Int
    BY <1>1, <2>1 DEF FwdTypes
  <2>3. b \in Bytes
    BY <2>2 DEF Bytes
  <2>4. sent' = [sent EXCEPT ![s] = @ + 1] /\ arrived' = [arrived EXCEPT ![s] = Append(@, b)]
        /\ UNCHANGED <<calls, ended, urgent>>
    BY <2>1 DEF Say
  <2>5. arrived[s] \in Seq(Bytes)
    BY <1>1, <2>1 DEF FwdTypes
  <2>6. Append(arrived[s], b) \in Seq(Bytes)
    BY <2>3, <2>5
  <2>7. FwdTypes'
    BY <1>1, <1>2, <2>4, <2>6 DEF FwdTypes, sets
  <2>8. ASSUME NEW o \in Sides PROVE Stream(o)'
    <3>1. Stream(o)
      BY DEF FwdInv
    <3>2. CASE o # s
      BY <1>1, <1>2, <2>4, <3>1, <3>2, StreamKept DEF FwdTypes
    <3>3. CASE o = s
      <4>1. Base(o) + Len(buf[o]) \in Int /\ Len(arrived[o]) \in Nat
        <5>1. /\ got[Other(o)] \in Seq(Bytes) /\ written[o] \in Nat
              /\ buf[o] \in Seq(Bytes) /\ arrived[o] \in Seq(Bytes)
          BY <1>1, TwoSides DEF FwdTypes
        <5>2. QED
          BY <5>1 DEF Base
      <4>2. sent[o] + 1 = (Base(o) + Len(buf[o])) + Len(arrived[o]) + 1
        BY <4>1, <3>1 DEF Stream
      <4>3. /\ Run(Append(arrived[o], b), calls.taken, Base(o) + Len(buf[o]))
            /\ Len(Append(arrived[o], b)) = Len(arrived[o]) + 1
        BY <2>2, <3>1, <3>3, <4>1, <4>2, RunGrows DEF Stream
      <4>4. sent'[o] = sent[o] + 1 /\ arrived'[o] = Append(arrived[o], b)
        BY <1>1, <2>4, <3>3 DEF FwdTypes
      <4> HIDE DEF b
      <4>5. QED
        BY <1>2, <2>2, <3>1, <4>1, <4>2, <4>3, <4>4 DEF Stream, Base
    <3>4. QED
      BY <3>2, <3>3
  <2>9. ASSUME NEW o \in Sides PROVE Ready(o)'
    <3>1. HasInput(o) => HasInput(o)'
      BY <1>1, <2>3, <2>4 DEF HasInput, FwdTypes
    <3>2. QED
      BY <1>2, <3>1, ReadyKept DEF FwdInv, Open, sets
  <2>10. QED
    BY <1>3, <2>7, <2>8, <2>9 DEF FwdInv
<1>5. CASE CallIn \/ \E s \in Sides : End(s) \/ Urge(s)
  <2>1. sent' = sent /\ arrived' = arrived /\ ended \subseteq ended' /\ ended' \subseteq Sides /\ urgent' \subseteq Sides
    BY <1>1, <1>5 DEF CallIn, End, Urge, FwdTypes
  <2>2. calls' \in [made : Int, taken : Int]
    BY <1>1, <1>5 DEF CallIn, End, Urge, FwdTypes
  <2>3. FwdTypes'
    BY <1>1, <1>2, <2>1, <2>2 DEF FwdTypes, sets
  <2>4. ASSUME NEW o \in Sides PROVE Stream(o)' /\ Ready(o)'
    <3>1. Stream(o) /\ Ready(o)
      BY DEF FwdInv
    <3>2. Stream(o)'
      BY <1>2, <2>1, <3>1, StreamKept
    <3>3. HasInput(o) => HasInput(o)'
      BY <2>1 DEF HasInput
    <3>4. QED
      BY <1>2, <3>1, <3>2, <3>3, ReadyKept DEF Open, sets
  <2>5. QED
    BY <1>3, <2>3, <2>4 DEF FwdInv
<1>6. QED
  BY <1>4, <1>5

\* select, which puts into its set for reading what has input.
LEMMA SelectStep ==
    ASSUME FwdInv, Select2
    PROVE  FwdInv'
<1>1. FwdTypes /\ TwoNumbers
  BY DEF FwdInv
<1>2. UNCHANGED <<peers, sock, buf, written, got>> /\ at' = "accept" /\ fresh' = FALSE
      /\ rd' = {sock[s] : s \in {t \in Open : Len(buf[t]) < BUF_SIZE /\ HasInput(t)}} \cup
              (IF calls.taken < calls.made THEN {Listener} ELSE {})
  BY DEF Select2
<1>3. FwdTypes'
  BY <1>1, <1>2 DEF FwdTypes, peers, Places
<1>4. TwoNumbers'
  BY <1>1, <1>2, NumbersKept DEF Open
<1>5. ASSUME NEW o \in Sides PROVE Stream(o)' /\ Ready(o)'
  <2>1. Stream(o)'
    BY <1>2, StreamKept DEF FwdInv, peers
  <2>2. ASSUME o \in Open, sock[o] \in rd' PROVE HasInput(o)
    <3>1. sock[o] # Listener
      BY <2>2 DEF Open, Listener
    <3>2. PICK t \in Open : HasInput(t) /\ sock[o] = sock[t]
      BY <1>2, <2>2, <3>1
    <3>3. o = t
      BY <1>1, <2>2, <3>2 DEF TwoNumbers, Open, Sides
    <3>4. QED
      BY <3>2, <3>3
  <2>3. QED
    BY <1>2, <2>1, <2>2 DEF Ready, Open, HasInput, peers
<1>6. QED
  BY <1>3, <1>4, <1>5 DEF FwdInv

\* The lowest number that is free, of four when two at most are taken.
LEMMA LowestFree ==
    ASSUME NEW a, NEW b, NEW U, U \subseteq {a, b}
    PROVE  Lowest(U) \in 1..4 /\ Lowest(U) \notin U
<1>1. \E n \in 1..4 : n \notin U /\ \A k \in 1..(n - 1) : k \in U
  <2>1. CASE 1 \notin U
    BY <2>1
  <2>2. CASE 1 \in U /\ 2 \notin U
    BY <2>2
  <2>3. CASE 1 \in U /\ 2 \in U
    BY <2>3
  <2>4. QED
    BY <2>1, <2>2, <2>3
<1>2. QED
  BY <1>1 DEF Lowest

\* A new pair, for which the sets are those of the old one.
LEMMA AcceptStep ==
    ASSUME FwdInv, AcceptPair \/ NoCall
    PROVE  FwdInv'
<1>1. FwdTypes /\ TwoNumbers
  BY DEF FwdInv
<1>2. CASE AcceptPair
  <2>1. PICK r : /\ r = Lowest({sock[s] : s \in Open})
                 /\ sock' \in {[s \in Sides |-> IF s = 1 THEN r ELSE Lowest({r})], [s \in Sides |-> -1]}
    BY <1>2 DEF AcceptPair
  <2>2. r \in 1..4
    <3>1. {sock[s] : s \in Open} \subseteq {sock[1], sock[2]}
      BY DEF Open, Sides
    <3>2. QED
      BY <2>1, <3>1, LowestFree
  <2>3. Lowest({r}) \in 1..4 /\ Lowest({r}) # r
    <3>1. {r} \subseteq {r, r}
      OBVIOUS
    <3>2. QED
      BY <3>1, LowestFree
  <2>4. sock' \in [Sides -> {-1} \cup 1..4] /\ TwoNumbers'
    BY <2>1, <2>2, <2>3 DEF TwoNumbers, Open, Sides
  <2>5. calls' \in [made : Int, taken : Int]
    <3>1. calls' = [calls EXCEPT !.taken = @ + 1]
      BY <1>2 DEF AcceptPair
    <3>2. QED
      BY <1>1, <3>1 DEF FwdTypes
  <2>6. <<>> \in Seq(Bytes)
    OBVIOUS
  <2>7. FwdTypes'
    BY <1>1, <1>2, <2>4, <2>5, <2>6 DEF AcceptPair, FwdTypes, Places
  <2>8. ASSUME NEW o \in Sides PROVE Stream(o)' /\ Ready(o)'
    <3>1. /\ written'[o] = 0 /\ sent'[o] = 0 /\ buf'[o] = <<>> /\ arrived'[o] = <<>> /\ got'[Other(o)] = <<>>
          /\ fresh'
      BY <1>2, TwoSides DEF AcceptPair
    <3>2. Base(o)' = 0 /\ Len(buf'[o]) = 0 /\ Len(arrived'[o]) = 0
      BY <3>1 DEF Base
    <3>3. Stream(o)'
      BY <3>1, <3>2, NoBytes, ForwarderConstants DEF Stream
    <3>4. QED
      BY <3>1, <3>3 DEF Ready
  <2>9. QED
    BY <2>4, <2>7, <2>8 DEF FwdInv
<1>3. CASE NoCall
  <2>1. UNCHANGED <<peers, sock, buf, written, got, sets>> /\ at = "accept" /\ at' = "oob1"
    BY <1>3 DEF NoCall
  <2>2. FwdTypes' /\ TwoNumbers'
    BY <1>1, <2>1, NumbersKept DEF FwdTypes, peers, sets, Places, Open
  <2>3. ASSUME NEW o \in Sides PROVE Stream(o)' /\ Ready(o)'
    <3>1. Stream(o)'
      BY <2>1, StreamKept DEF FwdInv, peers
    <3>2. at \in Before(o) /\ (HasInput(o) => HasInput(o)')
      BY <2>1 DEF Before, HasInput, peers
    <3>3. QED
      BY <2>1, <3>1, <3>2, ReadyKept DEF FwdInv, Open, sets
  <2>4. QED
    BY <2>2, <2>3 DEF FwdInv
<1>4. QED
  BY <1>2, <1>3

\* The urgent byte of a side, for want of which side 1 is shut.
LEMMA OobStep ==
    ASSUME FwdInv, Oob(1, "oob1", "oob2") \/ Oob(2, "oob2", "read1")
    PROVE  FwdInv'
<1>1. FwdTypes /\ TwoNumbers
  BY DEF FwdInv
<1>2. /\ UNCHANGED <<calls, sent, arrived, ended, buf, written, got, sets>>
      /\ sock' = sock \/ sock' = [sock EXCEPT ![1] = -1]
      /\ urgent' \subseteq Sides
      /\ at \in {"oob1", "oob2"} /\ at' \in {"oob2", "read1"}
  BY <1>1 DEF Oob, FwdTypes
<1>3. sock' \in [Sides -> {-1} \cup 1..4] /\ \A s \in Sides : s \in Open' => s \in Open /\ sock'[s] = sock[s]
  BY <1>1, <1>2 DEF FwdTypes, Open, Sides
<1>4. FwdTypes' /\ TwoNumbers'
  BY <1>1, <1>2, <1>3, NumbersKept DEF FwdTypes, sets, Places
<1>5. ASSUME NEW o \in Sides PROVE Stream(o)' /\ Ready(o)'
  <2>1. Stream(o)'
    BY <1>2, StreamKept DEF FwdInv
  <2>2. at \in Before(o) /\ (HasInput(o) => HasInput(o)')
    BY <1>2 DEF Before, HasInput
  <2>3. QED
    BY <1>2, <1>3, <2>1, <2>2, ReadyKept DEF FwdInv, sets
<1>6. QED
  BY <1>4, <1>5 DEF FwdInv

\* A read moves bytes from what has arrived to the end of the buffer, as many as there is room for.
LEMMA ReadStep ==
    ASSUME FwdInv, ReadSide(1, "read1", "read2") \/ ReadSide(2, "read2", "write1")
    PROVE  FwdInv'
<1>1. FwdTypes /\ TwoNumbers
  BY DEF FwdInv
<1>2. PICK s \in Sides, here \in Places, next \in Places :
          /\ ReadSide(s, here, next)
          /\ \/ s = 1 /\ here = "read1" /\ next = "read2"
             \/ s = 2 /\ here = "read2" /\ next = "write1"
  BY DEF Sides, Places
<1>3. /\ UNCHANGED <<calls, sent, ended, urgent, written, got, sets>>
      /\ at' \in {"read2", "write1"}
      /\ \A o \in Sides \ {s} : at' \in Before(o) => at \in Before(o)
      /\ at' \notin Before(s)
  BY <1>2 DEF ReadSide, Before, Sides
<1>4. \/ UNCHANGED <<sock, arrived, buf>>
      \/ sock' = [sock EXCEPT ![s] = -1] /\ UNCHANGED <<arrived, buf>>
      \/ /\ UNCHANGED sock
         /\ \E r \in Nat : /\ r <= Len(arrived[s]) /\ r <= BUF_SIZE - Len(buf[s])
                           /\ buf' = [buf EXCEPT ![s] = @ \o SubSeq(arrived[s], 1, r)]
                           /\ arrived' = [arrived EXCEPT ![s] = SubSeq(@, r + 1, Len(@))]
  <2> DEFINE room == BUF_SIZE - Len(buf[s])
             r == IF Len(arrived[s]) < room THEN Len(arrived[s]) ELSE room
  <2>1. Len(arrived[s]) \in Nat /\ room \in Nat
    BY <1>1, <1>2, ForwarderConstants DEF FwdTypes, FwdInv, Stream
  <2>2. r \in Nat /\ r <= Len(arrived[s]) /\ r <= room
    BY <2>1
  <2>3. \/ UNCHANGED <<sock, arrived, buf>>
        \/ sock' = [sock EXCEPT ![s] = -1] /\ UNCHANGED <<arrived, buf>>
        \/ /\ buf' = [buf EXCEPT ![s] = @ \o SubSeq(arrived[s], 1, r)]
           /\ arrived' = [arrived EXCEPT ![s] = SubSeq(@, r + 1, Len(@))] /\ UNCHANGED sock
    BY <1>2 DEF ReadSide
  <2> HIDE DEF r
  <2>4. QED
    BY <2>2, <2>3
<1>5. sock' \in [Sides -> {-1} \cup 1..4] /\ \A o \in Sides : o \in Open' => o \in Open /\ sock'[o] = sock[o]
  <2>1. sock' = sock \/ sock' = [sock EXCEPT ![s] = -1]
    BY <1>4
  <2>2. CASE sock' = sock
    BY <1>1, <2>2 DEF FwdTypes, Open
  <2>3. CASE sock' = [sock EXCEPT ![s] = -1]
    <3>1. sock' \in [Sides -> {-1} \cup 1..4]
      BY <1>1, <2>3 DEF FwdTypes
    <3>2. sock'[s] = -1 /\ \A o \in Sides \ {s} : sock'[o] = sock[o]
      BY <1>1, <2>3 DEF FwdTypes
    <3>3. QED
      BY <3>1, <3>2 DEF Open
  <2>4. QED
    BY <2>1, <2>2, <2>3
<1>6. TwoNumbers'
  BY <1>1, <1>5, NumbersKept
<1>7. ASSUME NEW o \in Sides PROVE Ready(o)'
  <2>1. CASE o = s
    BY <1>3, <2>1 DEF Ready
  <2>2. CASE o # s
    <3>1. arrived'[o] = arrived[o]
      BY <1>1, <1>4, <2>2 DEF FwdTypes
    <3>2. HasInput(o) => HasInput(o)'
      BY <1>3, <3>1 DEF HasInput
    <3>3. QED
      BY <1>3, <1>5, <2>2, <3>2, ReadyKept DEF FwdInv, sets
  <2>3. QED
    BY <2>1, <2>2
<1>8. CASE UNCHANGED <<arrived, buf>>
  <2>1. FwdTypes'
    BY <1>1, <1>3, <1>5, <1>8 DEF FwdTypes, sets, Places
  <2>2. ASSUME NEW o \in Sides PROVE Stream(o)'
    BY <1>3, <1>8, StreamKept DEF FwdInv
  <2>3. QED
    BY <1>6, <1>7, <2>1, <2>2 DEF FwdInv
<1>9. CASE \E r \in Nat : /\ r <= Len(arrived[s]) /\ r <= BUF_SIZE - Len(buf[s])
                          /\ buf' = [buf EXCEPT ![s] = @ \o SubSeq(arrived[s], 1, r)]
                          /\ arrived' = [arrived EXCEPT ![s] = SubSeq(@, r + 1, Len(@))]
  <2>1. PICK r \in Nat : /\ r <= Len(arrived[s]) /\ r <= BUF_SIZE - Len(buf[s])
                         /\ buf' = [buf EXCEPT ![s] = @ \o SubSeq(arrived[s], 1, r)]
                         /\ arrived' = [arrived EXCEPT ![s] = SubSeq(@, r + 1, Len(@))]
    BY <1>9
  <2>2. PICK p, q, l, t, b : /\ p = buf[s] /\ q = arrived[s] /\ l = Len(q) /\ t = calls.taken /\ b = Base(s)
    OBVIOUS
  <2>3. Stream(s)
    BY DEF FwdInv
  <2>4. b \in Int /\ l \in Nat /\ Len(p) \in Nat /\ Run(p, t, b) /\ Run(q, t, b + Len(p))
    <3>1. buf[s] \in Seq(Bytes) /\ arrived[s] \in Seq(Bytes) /\ written[s] \in Nat /\ got[Other(s)] \in Seq(Bytes)
      BY <1>1, TwoSides DEF FwdTypes
    <3>2. b \in Int /\ l \in Nat /\ Len(p) \in Nat
      BY <2>2, <3>1 DEF Base
    <3>3. QED
      BY <2>2, <2>3, <3>2 DEF Stream
  <2>0. b + Len(p) \in Int /\ r <= l /\ l <= Len(q) /\ 0 \in Nat /\ 0 <= r /\ r <= Len(q)
    BY <2>1, <2>2, <2>4
  <2>5. Run(SubSeq(q, 1, r), t, b + Len(p)) /\ Len(SubSeq(q, 1, r)) = r
    <3>1. Run(SubSeq(q, 0 + 1, r), t, (b + Len(p)) + 0) /\ Len(SubSeq(q, 0 + 1, r)) = r - 0
      BY <2>0, <2>4, RunPiece
    <3>2. (b + Len(p)) + 0 = b + Len(p) /\ r - 0 = r /\ 0 + 1 = 1
      BY <2>4
    <3>3. QED
      BY <3>1, <3>2
  <2>6. Run(SubSeq(q, r + 1, l), t, (b + Len(p)) + r) /\ Len(SubSeq(q, r + 1, l)) = l - r
    BY <2>0, <2>4, RunPiece
  <2>7. Run(p \o SubSeq(q, 1, r), t, b) /\ Len(p \o SubSeq(q, 1, r)) = Len(p) + r
    BY <2>4, <2>5, RunsJoin
  <2>8. buf'[s] = p \o SubSeq(q, 1, r) /\ arrived'[s] = SubSeq(q, r + 1, l)
    BY <1>1, <2>1, <2>2 DEF FwdTypes
  <2>9. buf' \in [Sides -> Seq(Bytes)] /\ arrived' \in [Sides -> Seq(Bytes)]
    <3>1. p \o SubSeq(q, 1, r) \in Seq(Bytes) /\ SubSeq(q, r + 1, l) \in Seq(Bytes)
      BY <2>6, <2>7 DEF Run
    <3>2. QED
      BY <1>1, <2>1, <2>2, <3>1 DEF FwdTypes
  <2>10. FwdTypes'
    BY <1>1, <1>3, <1>5, <2>9 DEF FwdTypes, sets, Places
  <2>11. ASSUME NEW o \in Sides PROVE Stream(o)'
    <3>1. CASE o # s
      <4>1. buf'[o] = buf[o] /\ arrived'[o] = arrived[o]
        BY <1>1, <2>1, <3>1 DEF FwdTypes
      <4>2. QED
        BY <1>3, <4>1, StreamKept DEF FwdInv
    <3>2. CASE o = s
      <4>1. Base(s)' = b /\ Len(buf'[s]) = Len(p) + r /\ Len(arrived'[s]) = l - r
        BY <1>3, <2>2, <2>6, <2>7, <2>8 DEF Base
      <4>2. Run(arrived'[s], t, b + (Len(p) + r))
        <5>1. b + (Len(p) + r) = (b + Len(p)) + r
          BY <2>4
        <5>2. QED
          BY <2>6, <2>8, <5>1
      <4>3. written[s] <= Len(p) + r /\ Len(p) + r <= BUF_SIZE
        <5>1. written[s] <= Len(p) /\ r <= BUF_SIZE - Len(p) /\ written[s] \in Nat
          BY <1>1, <2>1, <2>2, <2>3 DEF Stream, FwdTypes
        <5>2. QED
          BY <2>4, <5>1, ForwarderConstants
      <4>4. sent[s] = b + (Len(p) + r) + (l - r)
        BY <2>2, <2>3, <2>4 DEF Stream
      <4>5. QED
        BY <1>3, <2>2, <2>3, <2>7, <2>8, <3>2, <4>1, <4>2, <4>3, <4>4 DEF Stream
    <3>3. QED
      BY <3>1, <3>2
  <2>12. QED
    BY <1>6, <1>7, <2>10, <2>11 DEF FwdInv
<1>10. QED
  BY <1>4, <1>8, <1>9

\* A write takes bytes from the buffer of the other side, behind those already written.
LEMMA WriteStep ==
    ASSUME FwdInv, WriteSide(1, "write1", "write2") \/ WriteSide(2, "write2", "tidy")
    PROVE  FwdInv'
<1>1. FwdTypes /\ TwoNumbers
  BY DEF FwdInv
<1>2. PICK s \in Sides, here \in Places, next \in {"write2", "tidy"} : WriteSide(s, here, next)
  BY DEF Sides, Places
<1>3. PICK o \in Sides : o = Other(s) /\ s = Other(o) /\ o # s
  BY TwoSides
<1>4. UNCHANGED <<peers, buf, sets>> /\ at' \in {"write2", "tidy"}
  BY <1>2 DEF WriteSide
<1>5. \/ /\ UNCHANGED sock
         /\ \E r \in 1..Left(o) : /\ written' = [written EXCEPT ![o] = @ + r]
                                 /\ got' = [got EXCEPT ![s] = @ \o SubSeq(buf[o], written[o] + 1, written[o] + r)]
      \/ (sock' = sock \/ sock' = [sock EXCEPT ![s] = -1]) /\ UNCHANGED <<written, got>>
  BY <1>2, <1>3 DEF WriteSide
<1>6. sock' \in [Sides -> {-1} \cup 1..4] /\ \A x \in Sides : x \in Open' => x \in Open /\ sock'[x] = sock[x]
  <2>1. sock' = sock \/ sock' = [sock EXCEPT ![s] = -1]
    BY <1>5
  <2>2. CASE sock' = sock
    BY <1>1, <2>2 DEF FwdTypes, Open
  <2>3. CASE sock' = [sock EXCEPT ![s] = -1]
    <3>1. sock' \in [Sides -> {-1} \cup 1..4]
      BY <1>1, <2>3 DEF FwdTypes
    <3>2. sock'[s] = -1 /\ \A x \in Sides \ {s} : sock'[x] = sock[x]
      BY <1>1, <2>3 DEF FwdTypes
    <3>3. QED
      BY <3>1, <3>2 DEF Open
  <2>4. QED
    BY <2>1, <2>2, <2>3
<1>7. TwoNumbers'
  BY <1>1, <1>6, NumbersKept
<1>8. \A x \in Sides : Ready(x)'
  BY <1>4 DEF Ready, Before
<1>9. CASE UNCHANGED <<written, got>>
  <2>1. FwdTypes'
    BY <1>1, <1>4, <1>6, <1>9 DEF FwdTypes, peers, sets, Places
  <2>2. ASSUME NEW x \in Sides PROVE Stream(x)'
    BY <1>4, <1>9, StreamKept DEF FwdInv, peers
  <2>3. QED
    BY <1>7, <1>8, <2>1, <2>2 DEF FwdInv
<1>10. CASE \E r \in 1..Left(o) : /\ written' = [written EXCEPT ![o] = @ + r]
                                /\ got' = [got EXCEPT ![s] = @ \o SubSeq(buf[o], written[o] + 1, written[o] + r)]
  <2>1. PICK r \in 1..Left(o) : /\ written' = [written EXCEPT ![o] = @ + r]
                               /\ got' = [got EXCEPT ![s] = @ \o SubSeq(buf[o], written[o] + 1, written[o] + r)]
    BY <1>10
  <2>2. PICK g, p, w, t, b : g = got[s] /\ p = buf[o] /\ w = written[o] /\ t = calls.taken /\ b = Base(o)
    OBVIOUS
  <2>3. Stream(o)
    BY DEF FwdInv
  <2>4. g \in Seq(Bytes) /\ p \in Seq(Bytes) /\ w \in Nat
    BY <1>1, <2>2 DEF FwdTypes
  <2>5. /\ Len(g) \in Nat /\ Len(p) \in Nat /\ b \in Int /\ b = Len(g) - w
        /\ r \in Nat /\ w <= w + r /\ w + r <= Len(p) /\ w + r \in Nat
    <3>1. /\ Len(g) \in Nat /\ Len(p) \in Nat /\ b = Len(g) - w /\ r \in 1..(Len(p) - w)
      <4>1. Len(g) \in Nat /\ Len(p) \in Nat
        BY <2>4
      <4>2. b = Len(g) - w
        BY <1>3, <2>2 DEF Base
      <4>3. Left(o) = Len(p) - w
        BY <2>2 DEF Left
      <4>4. QED
        BY <2>1, <4>1, <4>2, <4>3
    <3>2. QED
      BY <2>4, <3>1
  <2>6. Run(g, t, 0) /\ Run(p, t, b)
    BY <1>3, <2>2, <2>3 DEF Stream
  <2>7. Run(SubSeq(p, w + 1, w + r), t, 0 + Len(g)) /\ Len(SubSeq(p, w + 1, w + r)) = r
    <3>1. Run(SubSeq(p, w + 1, w + r), t, b + w) /\ Len(SubSeq(p, w + 1, w + r)) = (w + r) - w
      BY <2>4, <2>5, <2>6, RunPiece
    <3>2. b + w = 0 + Len(g) /\ (w + r) - w = r
      BY <2>4, <2>5
    <3>3. QED
      BY <3>1, <3>2
  <2>8. Run(g \o SubSeq(p, w + 1, w + r), t, 0) /\ Len(g \o SubSeq(p, w + 1, w + r)) = Len(g) + r
    BY 0 \in Int, <2>6, <2>7, RunsJoin
  <2>9. written'[o] = w + r /\ got'[s] = g \o SubSeq(p, w + 1, w + r)
    BY <1>1, <2>1, <2>2 DEF FwdTypes
  <2>10. /\ \A x \in Sides \ {o} : written'[x] = written[x]
         /\ \A x \in Sides \ {s} : got'[x] = got[x]
    BY <1>1, <2>1 DEF FwdTypes
  <2>11. FwdTypes'
    <3>1. g \o SubSeq(p, w + 1, w + r) \in Seq(Bytes)
      BY <2>8 DEF Run
    <3>2. got' \in [Sides -> Seq(Bytes)]
      BY <1>1, <2>1, <2>2, <3>1 DEF FwdTypes
    <3>3. written' \in [Sides -> Nat]
      BY <1>1, <2>1, <2>2, <2>5 DEF FwdTypes
    <3>4. QED
      BY <1>1, <1>4, <1>6, <3>2, <3>3 DEF FwdTypes, peers, sets, Places
  <2>12. ASSUME NEW x \in Sides PROVE Stream(x)'
    <3>1. CASE x # o
      <4>1. Other(x) # s
        BY <1>3, <3>1 DEF Other, Sides
      <4>2. written'[x] = written[x] /\ got'[Other(x)] = got[Other(x)]
        BY <2>10, <3>1, <4>1, TwoSides
      <4>3. QED
        BY <1>4, <4>2, StreamKept DEF FwdInv, peers
    <3>2. CASE x = o
      <4>1. Base(o)' = b
        <5>1. (Len(g) + r) - (w + r) = b
          BY <2>4, <2>5
        <5>2. QED
          BY <1>3, <2>8, <2>9, <5>1 DEF Base
      <4>2. Run(got'[s], t, 0)
        BY <2>8, <2>9
      <4>3. QED
        BY <1>3, <1>4, <2>2, <2>3, <2>5, <2>9, <3>2, <4>1, <4>2 DEF Stream, peers
    <3>3. QED
      BY <3>1, <3>2
  <2>13. QED
    BY <1>7, <1>8, <2>11, <2>12 DEF FwdInv
<1>11. QED
  BY <1>5, <1>9, <1>10

\* A buffer that has been written is emptied: what is behind it begins where it ended.
LEMMA TidyStep ==
    ASSUME FwdInv, Tidy
    PROVE  FwdInv'
<1>1. FwdTypes /\ TwoNumbers
  BY DEF FwdInv
<1>2. /\ at' = "select" /\ fresh' = FALSE /\ UNCHANGED <<peers, got>>
      /\ buf' = [x \in Sides |-> IF Left(x) = 0 THEN <<>> ELSE buf[x]]
      /\ written' = [x \in Sides |-> IF Left(x) = 0 THEN 0 ELSE written[x]]
  BY DEF Tidy
<1>3. sock' \in [Sides -> {-1} \cup 1..4] /\ \A x \in Sides : x \in Open' => x \in Open /\ sock'[x] = sock[x]
  <2>1. /\ sock' \in [Sides -> {-1} \cup 1..4]
        /\ \A x \in Sides : sock'[x] = sock[x] \/ sock'[x] = -1
    BY <1>1 DEF Tidy, FwdTypes, Sides
  <2>2. QED
    BY <2>1 DEF Open
<1>4. TwoNumbers'
  BY <1>1, <1>3, NumbersKept
<1>5. FwdTypes'
  <2>1. <<>> \in Seq(Bytes)
    OBVIOUS
  <2>2. buf' \in [Sides -> Seq(Bytes)] /\ written' \in [Sides -> Nat]
    BY <1>1, <1>2, <2>1 DEF FwdTypes
  <2>3. QED
    BY <1>1, <1>2, <1>3, <2>2 DEF FwdTypes, peers, Places
<1>6. ASSUME NEW o \in Sides PROVE Ready(o)' /\ Stream(o)'
  <2>1. Ready(o)'
    BY <1>2 DEF Ready, Before
  <2>2. Stream(o)
    BY DEF FwdInv
  <2>3. CASE Left(o) # 0
    BY <1>2, <2>1, <2>2, <2>3, StreamKept DEF peers
  <2>4. CASE Left(o) = 0
    <3>1. buf'[o] = <<>> /\ written'[o] = 0 /\ arrived'[o] = arrived[o] /\ sent'[o] = sent[o] /\ calls' = calls
      BY <1>2, <2>4 DEF peers
    <3>2. /\ Len(got[Other(o)]) \in Nat /\ Len(buf[o]) \in Nat /\ written[o] \in Nat /\ Len(arrived[o]) \in Nat
          /\ Len(buf[o]) = written[o]
      <4>1. got[Other(o)] \in Seq(Bytes) /\ buf[o] \in Seq(Bytes) /\ arrived[o] \in Seq(Bytes) /\ written[o] \in Nat
        BY <1>1, TwoSides DEF FwdTypes
      <4>2. QED
        BY <2>4, <4>1 DEF Left
    <3>3. Base(o)' = Len(got[Other(o)]) /\ Len(buf'[o]) = 0
      BY <1>2, <3>1, <3>2 DEF Base
    <3>4. Base(o) + Len(buf[o]) = Len(got[Other(o)]) /\ Len(got[Other(o)]) + 0 = Len(got[Other(o)])
      BY <3>2 DEF Base
    <3>5. Run(<<>>, calls.taken, Len(got[Other(o)]))
      BY <3>2, NoBytes
    <3>6. QED
      <4>1. /\ Run(buf'[o], calls.taken, Base(o)') /\ Run(arrived'[o], calls.taken, Base(o)' + Len(buf'[o]))
            /\ sent'[o] = Base(o)' + Len(buf'[o]) + Len(arrived'[o])
        BY <2>2, <3>1, <3>3, <3>4, <3>5 DEF Stream
      <4>2. written'[o] <= Len(buf'[o]) /\ Len(buf'[o]) <= BUF_SIZE
        BY <3>1, <3>3, ForwarderConstants
      <4>3. Run(got'[Other(o)], calls'.taken, 0)
        BY <1>2, <2>2, <3>1 DEF Stream
      <4>4. QED
        BY <2>1, <3>1, <4>1, <4>2, <4>3 DEF Stream
  <2>5. QED
    BY <2>3, <2>4
<1>7. QED
  BY <1>4, <1>5, <1>6 DEF FwdInv

LEMMA FwdStep == FwdInv /\ [FwdNext]_fwdVars => FwdInv'
<1> SUFFICES ASSUME FwdInv, [FwdNext]_fwdVars PROVE FwdInv'
  OBVIOUS
<1>1. CASE UNCHANGED fwdVars
  <2>1. FwdTypes' /\ TwoNumbers'
    BY <1>1 DEF FwdInv, fwdVars, FwdTypes, TwoNumbers, Open
  <2>2. ASSUME NEW o \in Sides PROVE Stream(o)' /\ Ready(o)'
    BY <1>1 DEF FwdInv, fwdVars, Stream, Base, Ready, HasInput, Open
  <2>3. QED
    BY <2>1, <2>2 DEF FwdInv
<1>2. QED
  BY <1>1, PeersStep, SelectStep, AcceptStep, OobStep, ReadStep, WriteStep, TidyStep DEF FwdNext, Loop

\* The inductive invariant of the forwarder, for buffers of any size and any number of clients and bytes.
THEOREM FwdInvHolds == FwdSpec => []FwdInv
  BY FwdStarts, FwdStep, PTL DEF FwdSpec

\* InOrder: partial reads and writes, full buffers and new pairs lose, repeat and mix nothing.
THEOREM BytesInOrder == FwdSpec => []InOrder
<1>1. FwdInv => InOrder
  <2> SUFFICES ASSUME FwdInv, NEW s \in Sides
               PROVE  got[s] = [i \in 1..Len(got[s]) |-> [turn |-> calls.taken, byte |-> i]]
    BY DEF InOrder
  <2>1. Run(got[s], calls.taken, 0)
    BY TwoSides DEF FwdInv, Stream
  <2>2. \A i \in 1..Len(got[s]) : 0 + i = i
    OBVIOUS
  <2>3. got[s] \in Seq(Bytes) /\ \A i \in 1..Len(got[s]) : got[s][i] = [turn |-> calls.taken, byte |-> i]
    BY <2>1, <2>2 DEF Run
  <2>4. QED
    BY <2>3
<1>2. QED
  BY FwdInvHolds, <1>1, PTL

\* WaitsInSelect: a turn of the loop without a new pair never reads a descriptor that has nothing to read.
THEOREM NoReadWaits == FwdSpec => []WaitsInSelect
<1>1. FwdInv => WaitsInSelect
  BY DEF FwdInv, Ready, Before, WaitsInSelect, Waits, Sides
<1>2. QED
  BY FwdInvHolds, <1>1, PTL

(***************************************************************************)
(* The echo servers: nobody waits for nothing                              *)
(***************************************************************************)

Sits == {"new", "typing", "waiting", "gone"}
Children == {"none", "refused", "starting", "reading", "replying", "spinning", "failed", "dead"}

EchoTypes ==
    /\ user \in [Users -> Sits] /\ lines \in [Users -> Nat]
    /\ up \in [Users -> Nat] /\ down \in [Users -> Nat]
    /\ pending \in Seq(Users) /\ parent \in {"accept", "dead"} /\ child \in [Users -> Children]
    /\ deaf \subseteq Users /\ broken \subseteq Users

\* A connection waits once, before it has a child and not after.
CallsOnce ==
    /\ \A i, j \in DOMAIN pending : pending[i] = pending[j] => i = j
    /\ \A u \in Users : Pending(u) => child[u] = "none" /\ user[u] # "new"

\* Who has called waits in the queue or has a child, or had one.
HasCalled(u) ==
    /\ user[u] = "new" => child[u] = "none"
    /\ user[u] \in {"typing", "waiting"} /\ child[u] = "none" => Pending(u)

\* An answer was a piece: what is under way, in the child's hands included, is no more than what was sent.
InChild(u) == IF child[u] = "replying" THEN 1 ELSE 0
Paid(u) == lines[u] <= MaxLines /\ up[u] + down[u] + InChild(u) <= MaxPieces * lines[u]

\* A child stops reading only when its client has gone, and dies only then or with the server.
StopsForReason(u) ==
    /\ child[u] \in {"spinning", "failed"} => user[u] = "gone"
    /\ child[u] = "dead" => user[u] = "gone" \/ parent = "dead"

\* Whoever waits has an answer, a piece or the end of the connection to come.
HasToCome(u) ==
    user[u] = "waiting" => down[u] > 0 \/ up[u] > 0 \/ child[u] = "replying" \/ PeerClosed(u)

EchoInv ==
    /\ EchoTypes /\ CallsOnce
    /\ \A u \in Users : HasCalled(u) /\ Paid(u) /\ StopsForReason(u) /\ HasToCome(u)

\* The next step towards the end of a wait: the client reads, or its child or the parent has something to do.
NextMove(u) ==
    \/ down[u] > 0 \/ PeerClosed(u)
    \/ parent = "accept" /\ Pending(u)
    \/ child[u] = "starting"
    \/ child[u] = "reading" /\ up[u] > 0 /\ u \notin deaf
    \/ child[u] = "replying" /\ down[u] < MaxPieces * MaxLines

LEMMA EchoStarts == EchoInit => EchoInv
<1> SUFFICES ASSUME EchoInit PROVE EchoInv
  OBVIOUS
<1>1. MaxPieces \in Nat /\ MaxLines \in Nat
  BY EchoConstants
<1>2. EchoTypes
  BY DEF EchoInit, EchoTypes, Sits, Children
<1>3. DOMAIN pending = {}
  BY DEF EchoInit
<1>4. CallsOnce
  BY <1>3 DEF EchoInit, CallsOnce, Pending
<1>5. ASSUME NEW u \in Users PROVE HasCalled(u) /\ Paid(u) /\ StopsForReason(u) /\ HasToCome(u)
  BY <1>1 DEF EchoInit, HasCalled, Paid, InChild, StopsForReason, HasToCome
<1>6. QED
  BY <1>2, <1>4, <1>5 DEF EchoInv

\* A queue that is left alone keeps who waits in it.
LEMMA QueueStays ==
    ASSUME pending' = pending, \A u \in Users : Pending(u) => child'[u] = child[u] /\ user'[u] # "new", CallsOnce
    PROVE  CallsOnce' /\ \A u \in Users : Pending(u)' <=> Pending(u)
  BY DEF CallsOnce, Pending

\* The end of a connection stays, as long as no child goes away and nobody is accepted in between.
LEMMA ClosedStays ==
    ASSUME pending' = pending, echo' = echo, parent' = parent \/ parent' = "dead",
           NEW u \in Users, child'[u] = child[u] \/ child[u] \notin {"none", "dead", "refused"},
           \A v \in Users : child'[v] \in {"starting", "reading", "replying", "failed"} =>
                                child[v] \in {"starting", "reading", "replying", "failed"}
                                /\ (child'[v] = "starting" => child[v] = "starting"),
           PeerClosed(u)
    PROVE  PeerClosed(u)'
<1>1. Holders' \subseteq Holders
  BY DEF Holders
<1>2. Listening' => Listening
  BY <1>1 DEF Listening
<1>3. QED
  BY <1>2 DEF PeerClosed, Pending

LEMMA CallStep == ASSUME EchoInv, NEW u \in Users, Call7(u) PROVE EchoInv'
<1>1. EchoTypes /\ CallsOnce /\ user[u] = "new" /\ child[u] = "none" /\ ~Pending(u)
  BY DEF EchoInv, Call7, HasCalled, CallsOnce
<1>2. EchoTypes'
  <2>1. user' \in [Users -> Sits]
    BY <1>1 DEF Call7, EchoTypes, Sits
  <2>2. pending' = pending \/ pending' = Append(pending, u)
    BY DEF Call7
  <2>3. pending \in Seq(Users) /\ Append(pending, u) \in Seq(Users)
    BY <1>1 DEF EchoTypes
  <2>4. pending' \in Seq(Users)
    BY <2>2, <2>3
  <2>5. QED
    BY <1>1, <2>1, <2>4 DEF Call7, EchoTypes
<1>3. CASE pending' = pending
  <2>1. user' = [user EXCEPT ![u] = "gone"]
    BY <1>1, <1>3 DEF Call7, EchoTypes
  <2>2. CallsOnce' /\ \A v \in Users : Pending(v)' <=> Pending(v)
    BY <1>1, <1>3, <2>1, QueueStays DEF Call7, EchoTypes, CallsOnce
  <2>3. ASSUME NEW v \in Users PROVE HasCalled(v)' /\ Paid(v)' /\ StopsForReason(v)' /\ HasToCome(v)'
    <3>1. HasCalled(v) /\ Paid(v) /\ StopsForReason(v) /\ HasToCome(v)
      BY DEF EchoInv
    <3>2. PeerClosed(v) => PeerClosed(v)'
      BY <1>3, ClosedStays DEF Call7
    <3>3. QED
      BY <1>1, <2>1, <2>2, <3>1, <3>2
      DEF Call7, EchoTypes, HasCalled, Paid, InChild, StopsForReason, HasToCome
  <2>4. QED
    BY <1>2, <2>2, <2>3 DEF EchoInv
<1>4. CASE pending' = Append(pending, u) /\ user' = [user EXCEPT ![u] = "typing"] /\ Listening
  <2>1. Len(pending') = Len(pending) + 1 /\ pending'[Len(pending) + 1] = u
        /\ \A i \in 1 .. Len(pending) : pending'[i] = pending[i]
    BY <1>1, <1>4 DEF EchoTypes
  <2>2. DOMAIN pending = 1 .. Len(pending) /\ DOMAIN pending' = 1 .. (Len(pending) + 1) /\ Len(pending) \in Nat
    BY <1>1, <1>2, <2>1 DEF EchoTypes
  <2>3. \A v \in Users : Pending(v)' <=> (Pending(v) \/ v = u)
    BY <2>1, <2>2 DEF Pending
  <2>4. CallsOnce'
    <3>1. \A i, j \in DOMAIN pending' : pending'[i] = pending'[j] => i = j
      BY <1>1, <2>1, <2>2 DEF CallsOnce, Pending
    <3>2. \A v \in Users : Pending(v)' => child'[v] = "none" /\ user'[v] # "new"
      BY <1>1, <1>4, <2>3 DEF CallsOnce, EchoTypes, Call7
    <3>3. QED
      BY <3>1, <3>2 DEF CallsOnce, Pending
  <2>5. ASSUME NEW v \in Users PROVE HasCalled(v)' /\ Paid(v)' /\ StopsForReason(v)' /\ HasToCome(v)'
    <3>1. HasCalled(v) /\ Paid(v) /\ StopsForReason(v) /\ HasToCome(v)
      BY DEF EchoInv
    <3>2. PeerClosed(v) => PeerClosed(v)'
      BY <1>4 DEF Call7, PeerClosed
    <3>3. QED
      BY <1>1, <1>4, <2>3, <3>1, <3>2
      DEF Call7, EchoTypes, HasCalled, Paid, InChild, StopsForReason, HasToCome
  <2>6. QED
    BY <1>2, <2>4, <2>5 DEF EchoInv
<1>5. QED
  BY <1>3, <1>4 DEF Call7

LEMMA ClientStep == ASSUME EchoInv, NEW u \in Users, SendLine(u) \/ ReadAnswer(u) \/ Leave(u) PROVE EchoInv'
<1>1. EchoTypes /\ CallsOnce /\ user[u] \in {"typing", "waiting"} /\ MaxPieces \in Nat
  BY EchoConstants DEF EchoInv, SendLine, ReadAnswer, Leave
<1>2. pending' = pending /\ child' = child /\ parent' = parent /\ echo' = echo
  BY DEF SendLine, ReadAnswer, Leave
<1>3. /\ \A v \in Users \ {u} : user'[v] = user[v] /\ lines'[v] = lines[v] /\ up'[v] = up[v] /\ down'[v] = down[v]
      /\ user'[u] \in {"typing", "waiting", "gone"}
  BY <1>1 DEF SendLine, ReadAnswer, Leave, EchoTypes, Sits
<1>4. EchoTypes'
  <2>1. CASE SendLine(u)
    <3>1. user' \in [Users -> Sits]
      BY <1>1, <2>1 DEF SendLine, EchoTypes, Sits
    <3>2. lines' \in [Users -> Nat] /\ broken' \subseteq Users
      <4>1. lines' = [lines EXCEPT ![u] = lines[u] + 1] /\ (broken' = broken \/ broken' = broken \cup {u})
        BY <2>1 DEF SendLine
      <4>2. lines \in [Users -> Nat] /\ broken \subseteq Users
        BY <1>1 DEF EchoTypes
      <4>3. QED
        BY <4>1, <4>2
    <3>3. up' \in [Users -> Nat]
      <4>1. ASSUME NEW n \in 1 .. MaxPieces, up' = [up EXCEPT ![u] = @ + n] PROVE up' \in [Users -> Nat]
        <5>1. n \in Nat /\ up \in [Users -> Nat]
          BY <1>1 DEF EchoTypes
        <5>2. QED
          BY <4>1, <5>1
      <4>2. up' = up \/ \E n \in 1 .. MaxPieces : up' = [up EXCEPT ![u] = @ + n]
        BY <2>1 DEF SendLine
      <4>3. QED
        BY <1>1, <4>1, <4>2 DEF EchoTypes
    <3>4. QED
      BY <1>1, <2>1, <3>1, <3>2, <3>3 DEF SendLine, EchoTypes
  <2>2. CASE ReadAnswer(u)
    BY <1>1, <2>2 DEF ReadAnswer, EchoTypes, Sits
  <2>3. CASE Leave(u)
    BY <1>1, <2>3 DEF Leave, EchoTypes, Sits
  <2>4. QED
    BY <2>1, <2>2, <2>3
<1>5. CallsOnce' /\ \A v \in Users : Pending(v)' <=> Pending(v)
  BY <1>1, <1>2, <1>3, QueueStays DEF CallsOnce
<1>6. ASSUME NEW v \in Users PROVE PeerClosed(v) => PeerClosed(v)'
  BY <1>2, ClosedStays
<1>7. ASSUME NEW v \in Users PROVE HasCalled(v)' /\ Paid(v)' /\ StopsForReason(v)' /\ HasToCome(v)'
  <2>1. HasCalled(v) /\ Paid(v) /\ StopsForReason(v) /\ HasToCome(v)
    BY DEF EchoInv
  <2>2. CASE v # u
    BY <1>2, <1>3, <1>5, <1>6, <2>1, <2>2 DEF HasCalled, Paid, InChild, StopsForReason, HasToCome
  <2>3. CASE v = u
    <3>1. HasCalled(u)'
      BY <1>1, <1>2, <1>3, <1>5, <2>1, <2>3 DEF HasCalled
    <3>2. StopsForReason(u)'
      BY <1>1, <1>2, <1>3, <2>1, <2>3 DEF StopsForReason
    <3>3. Paid(u)'
      <4>1. InChild(u)' = InChild(u) /\ InChild(u) \in Nat /\ Paid(u)
        BY <1>2, <2>1, <2>3 DEF InChild
      <4>2. CASE SendLine(u)
        <5>1. lines'[u] = lines[u] + 1 /\ lines[u] < MaxLines /\ down'[u] = down[u] /\ up'[u] <= up[u] + MaxPieces
          BY <1>1, <4>2 DEF SendLine, EchoTypes
        <5>2. MaxPieces * (lines[u] + 1) = MaxPieces * lines[u] + MaxPieces /\ MaxPieces * lines[u] \in Nat
          BY <1>1 DEF EchoTypes
        <5>3. lines[u] \in Nat /\ up[u] \in Nat /\ down[u] \in Nat /\ up'[u] \in Nat
          BY <1>1, <1>4 DEF EchoTypes
        <5>4. MaxLines \in Nat
          BY EchoConstants
        <5>5. up'[u] + down'[u] + InChild(u)' <= MaxPieces * lines'[u] /\ lines'[u] <= MaxLines
          BY <1>1, <4>1, <5>1, <5>2, <5>3, <5>4 DEF Paid
        <5>6. QED
          BY <5>5 DEF Paid
      <4>3. CASE ~SendLine(u)
        <5>1. lines'[u] = lines[u] /\ up'[u] = up[u] /\ down'[u] <= down[u]
          BY <1>1, <4>3 DEF ReadAnswer, Leave, EchoTypes
        <5>2. lines[u] \in Nat /\ up[u] \in Nat /\ down[u] \in Nat /\ down'[u] \in Nat /\ MaxPieces * lines[u] \in Nat
          BY <1>1, <1>4 DEF EchoTypes
        <5>3. QED
          BY <4>1, <5>1, <5>2 DEF Paid
      <4>4. QED
        BY <4>2, <4>3
    <3>4. HasToCome(u)'
      <4>1. CASE SendLine(u)
        <5>1. up'[u] > 0 \/ PeerClosed(u)
          BY <1>1, <4>1 DEF SendLine, EchoTypes
        <5>2. QED
          BY <1>6, <5>1 DEF HasToCome
      <4>2. CASE ~SendLine(u)
        <5>1. user'[u] # "waiting"
          BY <1>1, <4>2 DEF ReadAnswer, Leave, EchoTypes
        <5>2. QED
          BY <5>1 DEF HasToCome
      <4>3. QED
        BY <4>1, <4>2
    <3>5. QED
      BY <2>3, <3>1, <3>2, <3>3, <3>4
  <2>4. QED
    BY <2>2, <2>3
<1>8. QED
  BY <1>4, <1>5, <1>7 DEF EchoInv

LEMMA AcceptForkStep == ASSUME EchoInv, AcceptFork PROVE EchoInv'
<1>1. EchoTypes /\ CallsOnce /\ parent = "accept" /\ pending # <<>> /\ parent' = parent /\ pending' = Tail(pending)
  BY DEF EchoInv, AcceptFork
<1>2. PICK h \in Users : h = Head(pending)
  BY <1>1 DEF EchoTypes
<1>3. /\ DOMAIN pending = 1 .. Len(pending) /\ Len(pending) \in Nat /\ Len(pending) >= 1 /\ pending[1] = h
      /\ DOMAIN pending' = 1 .. (Len(pending) - 1) /\ pending' \in Seq(Users)
      /\ \A i \in 1 .. (Len(pending) - 1) : pending'[i] = pending[i + 1]
  BY <1>1, <1>2 DEF EchoTypes
<1>4. /\ user' = user /\ lines' = lines /\ up' = up /\ down' = down /\ echo' = echo
      /\ child' = [child EXCEPT ![h] = "starting"] \/ child' = [child EXCEPT ![h] = "refused"]
  BY <1>2 DEF AcceptFork
<1>5. EchoTypes'
  BY <1>1, <1>3, <1>4 DEF EchoTypes, Children, AcceptFork
<1>6. \A v \in Users : Pending(v)' <=> (Pending(v) /\ v # h)
  <2> SUFFICES ASSUME NEW v \in Users PROVE Pending(v)' <=> (Pending(v) /\ v # h)
    OBVIOUS
  <2>1. ASSUME Pending(v)' PROVE Pending(v) /\ v # h
    <3>1. PICK i \in 1 .. (Len(pending) - 1) : pending'[i] = v
      BY <1>3, <2>1 DEF Pending
    <3>2. i + 1 \in DOMAIN pending /\ 1 \in DOMAIN pending /\ pending[i + 1] = v /\ i + 1 # 1
      BY <1>3, <3>1
    <3>3. QED
      BY <1>1, <1>3, <3>2 DEF CallsOnce, Pending
  <2>2. ASSUME Pending(v), v # h PROVE Pending(v)'
    <3>1. PICK i \in 1 .. Len(pending) : pending[i] = v
      BY <1>3, <2>2 DEF Pending
    <3>2. i - 1 \in 1 .. (Len(pending) - 1) /\ (i - 1) + 1 = i
      BY <1>3, <2>2, <3>1
    <3>3. QED
      BY <1>3, <3>1, <3>2 DEF Pending
  <2>3. QED
    BY <2>1, <2>2
<1>7. CallsOnce'
  <2>1. \A i, j \in DOMAIN pending' : pending'[i] = pending'[j] => i = j
    <3> SUFFICES ASSUME NEW i \in 1 .. (Len(pending) - 1), NEW j \in 1 .. (Len(pending) - 1), pending'[i] = pending'[j]
                 PROVE  i = j
      BY <1>3
    <3>1. i + 1 \in DOMAIN pending /\ j + 1 \in DOMAIN pending /\ pending[i + 1] = pending[j + 1]
      BY <1>3
    <3>2. i + 1 = j + 1
      BY <1>1, <3>1 DEF CallsOnce
    <3>3. QED
      BY <3>2, <1>3
  <2>2. \A v \in Users : Pending(v)' => child'[v] = "none" /\ user'[v] # "new"
    BY <1>1, <1>4, <1>6 DEF CallsOnce, EchoTypes
  <2>3. QED
    BY <2>1, <2>2 DEF CallsOnce, Pending
<1>8. Pending(h) /\ child[h] = "none" /\ user[h] # "new"
  <2>1. 1 \in DOMAIN pending
    BY <1>3
  <2>2. QED
    BY <1>1, <1>3, <2>1 DEF CallsOnce, Pending
<1>9. ASSUME NEW v \in Users PROVE HasCalled(v)' /\ Paid(v)' /\ StopsForReason(v)' /\ HasToCome(v)'
  <2>1. HasCalled(v) /\ Paid(v) /\ StopsForReason(v) /\ HasToCome(v)
    BY DEF EchoInv
  <2>2. PeerClosed(v) => child[v] \in {"dead", "refused"}
    BY <1>1 DEF PeerClosed, Listening
  <2>3. CASE v = h
    <3>1. child'[h] \in {"starting", "refused"} /\ InChild(h)' = InChild(h)
      BY <1>1, <1>4, <1>8 DEF EchoTypes, InChild
    <3>2. Paid(h)' /\ HasCalled(h)' /\ StopsForReason(h)'
      BY <1>4, <1>8, <2>1, <2>3, <3>1 DEF Paid, HasCalled, StopsForReason
    <3>3. HasToCome(h)'
      BY <1>4, <1>8, <2>1, <2>2, <2>3, <3>1 DEF HasToCome, PeerClosed
    <3>4. QED
      BY <2>3, <3>2, <3>3
  <2>4. CASE v # h
    <3>1. child'[v] = child[v] /\ InChild(v)' = InChild(v)
      BY <1>1, <1>4, <2>4 DEF EchoTypes, InChild
    <3>2. PeerClosed(v) => PeerClosed(v)'
      BY <2>2, <3>1 DEF PeerClosed
    <3>3. QED
      BY <1>1, <1>4, <1>6, <2>1, <2>4, <3>1, <3>2 DEF Paid, HasCalled, StopsForReason, HasToCome
  <2>5. QED
    BY <2>3, <2>4
<1>10. QED
  BY <1>5, <1>7, <1>9 DEF EchoInv

\* A step of one child: what its client did, and the queue, stay as they are.
LEMMA ChildStepKeeps == ASSUME EchoInv, NEW u \in Users, ChildStep(u) PROVE EchoInv'
<1>1. EchoTypes /\ CallsOnce /\ MaxPieces \in Nat /\ MaxLines \in Nat
  BY EchoConstants DEF EchoInv
<1>2. /\ user' = user /\ lines' = lines /\ pending' = pending /\ parent' = parent /\ echo' = echo
      /\ child[u] \in {"starting", "reading", "replying", "failed"}
  BY DEF ChildStep, Begin, Read, Reply, ReplyToError
<1>3. /\ child' \in [Users -> Children] /\ \A v \in Users \ {u} : child'[v] = child[v]
      /\ child'[u] \in {"reading", "replying", "spinning", "failed", "dead"}
  BY <1>1 DEF ChildStep, Begin, Read, Reply, ReplyToError, EchoTypes, Children
<1>4. up' \in [Users -> Nat] /\ \A v \in Users \ {u} : up'[v] = up[v]
  <2>1. CASE up' = up
    BY <1>1, <2>1 DEF EchoTypes
  <2>2. ASSUME NEW n \in 1 .. up[u], up' = [up EXCEPT ![u] = @ - n]
        PROVE  up' \in [Users -> Nat] /\ \A v \in Users \ {u} : up'[v] = up[v]
    <3>1. up \in [Users -> Nat] /\ up[u] - n \in Nat
      BY <1>1 DEF EchoTypes
    <3>2. QED
      BY <2>2, <3>1
  <2>3. up' = up \/ \E n \in 1 .. up[u] : up' = [up EXCEPT ![u] = @ - n]
    BY DEF ChildStep, Begin, Read, Reply, ReplyToError
  <2>4. QED
    BY <2>1, <2>2, <2>3
<1>5. down' \in [Users -> Nat] /\ \A v \in Users \ {u} : down'[v] = down[v]
  <2>1. down' = down \/ down' = [down EXCEPT ![u] = @ + 1]
    BY DEF ChildStep, Begin, Read, Reply, ReplyToError
  <2>2. QED
    BY <1>1, <2>1 DEF EchoTypes
<1>6. EchoTypes'
  <2>1. (deaf' = deaf \/ deaf' = deaf \cup {u}) /\ (broken' = broken \/ broken' = broken \cup {u})
    BY DEF ChildStep, Begin, Read, Reply, ReplyToError
  <2>2. QED
    BY <1>1, <1>2, <1>3, <1>4, <1>5, <2>1 DEF EchoTypes
<1>7. CallsOnce' /\ \A v \in Users : Pending(v)' <=> Pending(v)
  <2>1. \A v \in Users : Pending(v) => v # u /\ child'[v] = child[v] /\ user'[v] # "new"
    BY <1>1, <1>2, <1>3 DEF CallsOnce
  <2>2. QED
    BY <1>1, <1>2, <2>1, QueueStays
<1>8. ASSUME NEW v \in Users PROVE PeerClosed(v) => PeerClosed(v)'
  <2>1. child'[u] # "starting"
    BY <1>3
  <2>2. child'[v] = child[v] \/ child[v] \notin {"none", "dead", "refused"}
    BY <1>2, <1>3
  <2>3. \A w \in Users : child'[w] \in {"starting", "reading", "replying", "failed"} =>
                             child[w] \in {"starting", "reading", "replying", "failed"}
                             /\ (child'[w] = "starting" => child[w] = "starting")
    BY <1>2, <1>3, <2>1
  <2>4. QED
    BY <1>2, <2>2, <2>3, ClosedStays
<1>9. ASSUME NEW v \in Users PROVE HasCalled(v)' /\ Paid(v)' /\ StopsForReason(v)' /\ HasToCome(v)'
  <2>1. HasCalled(v) /\ Paid(v) /\ StopsForReason(v) /\ HasToCome(v)
    BY DEF EchoInv
  <2>2. CASE v # u
    BY <1>2, <1>3, <1>4, <1>5, <1>7, <1>8, <2>1, <2>2 DEF HasCalled, Paid, InChild, StopsForReason, HasToCome
  <2>3. CASE v = u
    <3>1. HasCalled(u)'
      BY <1>2, <1>3, <2>1, <2>3 DEF HasCalled
    <3>2. /\ up[u] \in Nat /\ down[u] \in Nat /\ up'[u] \in Nat /\ down'[u] \in Nat
          /\ lines[u] \in Nat /\ MaxPieces * lines[u] \in Nat
      BY <1>1, <1>6 DEF EchoTypes
    <3>3. CASE Begin(u)
      <4>1. child[u] = "starting" /\ child'[u] = "reading" /\ up' = up /\ down' = down
        BY <1>1, <3>3 DEF Begin, EchoTypes
      <4>2. ~PeerClosed(u)
        BY <4>1 DEF PeerClosed
      <4>3. Paid(u)' /\ StopsForReason(u)' /\ HasToCome(u)'
        BY <1>2, <2>1, <2>3, <4>1, <4>2 DEF Paid, InChild, StopsForReason, HasToCome
      <4>4. QED
        BY <2>3, <3>1, <4>3
    <3>4. CASE Read(u)
      <4>1. child[u] = "reading" /\ down' = down
        BY <3>4 DEF Read
      <4>2. \/ up'[u] < up[u] /\ child'[u] = "replying"
            \/ up' = up /\ user[u] = "gone" /\ child'[u] \in {"spinning", "failed"}
        BY <1>1, <3>4 DEF Read, EchoTypes
      <4>3. Paid(u)'
        BY <1>2, <2>1, <2>3, <3>2, <4>1, <4>2 DEF Paid, InChild
      <4>4. StopsForReason(u)' /\ HasToCome(u)'
        BY <1>2, <4>2 DEF StopsForReason, HasToCome
      <4>5. QED
        BY <2>3, <3>1, <4>3, <4>4
    <3>5. CASE Reply(u)
      <4>1. child[u] = "replying" /\ up' = up
        BY <3>5 DEF Reply
      <4>2. \/ user[u] # "gone" /\ down'[u] = down[u] + 1 /\ child'[u] = "reading"
            \/ user[u] = "gone" /\ down' = down /\ child'[u] \in {"reading", "dead"}
        BY <1>1, <3>5 DEF Reply, EchoTypes
      <4>3. Paid(u)'
        BY <1>2, <2>1, <2>3, <3>2, <4>1, <4>2 DEF Paid, InChild
      <4>4. StopsForReason(u)' /\ HasToCome(u)'
        BY <1>2, <3>2, <4>2 DEF StopsForReason, HasToCome
      <4>5. QED
        BY <2>3, <3>1, <4>3, <4>4
    <3>6. CASE ReplyToError(u)
      <4>1. child[u] = "failed" /\ child'[u] = "dead" /\ up' = up /\ down' = down /\ user[u] = "gone"
        BY <1>1, <2>1, <2>3, <3>6 DEF ReplyToError, EchoTypes, StopsForReason
      <4>2. Paid(u)' /\ StopsForReason(u)' /\ HasToCome(u)'
        BY <1>2, <2>1, <2>3, <4>1 DEF Paid, InChild, StopsForReason, HasToCome
      <4>3. QED
        BY <2>3, <3>1, <4>2
    <3>7. QED
      BY <3>3, <3>4, <3>5, <3>6 DEF ChildStep
  <2>4. QED
    BY <2>2, <2>3
<1>10. QED
  BY <1>6, <1>7, <1>9 DEF EchoInv

LEMMA ServerEndsStep == ASSUME EchoInv, KillParent \/ InterruptServer PROVE EchoInv'
<1>1. EchoTypes /\ CallsOnce
  BY DEF EchoInv
<1>2. /\ user' = user /\ lines' = lines /\ up' = up /\ down' = down /\ pending' = pending /\ parent' = "dead"
      /\ echo' = echo /\ deaf' = deaf /\ broken' = broken
  BY DEF KillParent, InterruptServer
<1>3. /\ child' \in [Users -> Children]
      /\ \A v \in Users : child'[v] = child[v] \/ (child'[v] = "dead" /\ child[v] \notin {"none", "refused"})
  <2>1. CASE child' = child
    BY <1>1, <2>1 DEF EchoTypes
  <2>2. CASE child' = [u \in Users |-> IF child[u] \in {"none", "refused"} THEN child[u] ELSE "dead"]
    <3>1. \A v \in Users : child'[v] = IF child[v] \in {"none", "refused"} THEN child[v] ELSE "dead"
      BY <2>2
    <3>2. child' \in [Users -> Children]
      BY <1>1, <2>2 DEF EchoTypes, Children
    <3>3. QED
      BY <3>1, <3>2
  <2>3. QED
    BY <2>1, <2>2 DEF KillParent, InterruptServer
<1>4. EchoTypes'
  BY <1>1, <1>2, <1>3 DEF EchoTypes
<1>5. CallsOnce' /\ \A v \in Users : Pending(v)' <=> Pending(v)
  <2>1. \A v \in Users : Pending(v) => child'[v] = child[v] /\ user'[v] # "new"
    BY <1>1, <1>2, <1>3 DEF CallsOnce
  <2>2. QED
    BY <1>1, <1>2, <2>1, QueueStays
<1>6. ASSUME NEW v \in Users PROVE PeerClosed(v) => PeerClosed(v)'
  <2>1. CASE child'[v] = "dead"
    BY <2>1 DEF PeerClosed
  <2>2. CASE child'[v] = child[v]
    BY <1>2, <1>3, <2>2, ClosedStays
  <2>3. QED
    BY <1>3, <2>1, <2>2
<1>7. ASSUME NEW v \in Users PROVE HasCalled(v)' /\ Paid(v)' /\ StopsForReason(v)' /\ HasToCome(v)'
  <2>1. HasCalled(v) /\ Paid(v) /\ StopsForReason(v) /\ HasToCome(v)
    BY DEF EchoInv
  <2>2. CASE child'[v] = child[v]
    BY <1>2, <1>5, <1>6, <2>1, <2>2 DEF HasCalled, Paid, InChild, StopsForReason, HasToCome
  <2>3. CASE child'[v] = "dead" /\ child[v] \notin {"none", "refused"}
    <3>1. PeerClosed(v)' /\ InChild(v)' = 0 /\ InChild(v) \in {0, 1}
      BY <2>3 DEF PeerClosed, InChild
    <3>2. HasCalled(v)' /\ StopsForReason(v)' /\ HasToCome(v)'
      BY <1>2, <2>1, <2>3, <3>1 DEF HasCalled, StopsForReason, HasToCome
    <3>3. up[v] \in Nat /\ down[v] \in Nat /\ lines[v] \in Nat
      BY <1>1 DEF EchoTypes
    <3>4. MaxPieces * lines[v] \in Nat
      BY <3>3, EchoConstants
    <3>5. Paid(v)'
      BY <1>2, <2>1, <3>1, <3>3, <3>4 DEF Paid
    <3>6. QED
      BY <3>2, <3>5
  <2>4. QED
    BY <1>3, <2>2, <2>3
<1>8. QED
  BY <1>4, <1>5, <1>7 DEF EchoInv

LEMMA EchoIdles == ASSUME EchoInv, UNCHANGED echoVars PROVE EchoInv'
  BY DEF EchoInv, echoVars, EchoTypes, CallsOnce, Pending, HasCalled, Paid, InChild, StopsForReason, HasToCome,
         PeerClosed, Listening, Holders

\* The invariant of the echo servers, for any number of clients, lines and pieces.
THEOREM EchoInvHolds == EchoSpec => []EchoInv
<1>1. EchoInv /\ [EchoNext]_echoVars => EchoInv'
  BY CallStep, ClientStep, AcceptForkStep, ChildStepKeeps, ServerEndsStep, EchoIdles DEF EchoNext
<1>2. QED
  BY EchoStarts, <1>1, PTL DEF EchoSpec

\* A client that waits for its answer (tcp_client.c: read after write) never waits for nothing: the answer or the
\* end of the connection is there, or its child or the parent has a step towards it. So LineAnswered can fail by a
\* child or parent that does not go on, and by the two exceptions it names, but by no piece or call that got lost.
THEOREM NobodyWaitsInVain ==
    EchoSpec => [](\A u \in Users : user[u] = "waiting" => NextMove(u) \/ u \in deaf \/ Stranded(u))
<1>1. EchoInv => \A u \in Users : user[u] = "waiting" => NextMove(u) \/ u \in deaf \/ Stranded(u)
  <2> SUFFICES ASSUME EchoInv, NEW u \in Users, user[u] = "waiting" PROVE NextMove(u) \/ u \in deaf \/ Stranded(u)
    OBVIOUS
  <2>1. EchoTypes /\ CallsOnce /\ HasCalled(u) /\ Paid(u) /\ StopsForReason(u) /\ HasToCome(u)
    BY DEF EchoInv
  <2>2. child[u] \notin {"spinning", "failed"}
    BY <2>1 DEF StopsForReason
  <2>3. CASE child[u] = "none"
    <3>1. Pending(u)
      BY <2>1, <2>3 DEF HasCalled
    <3>2. QED
      BY <2>1, <2>3, <3>1 DEF NextMove, Stranded, PeerClosed, Listening, EchoTypes
  <2>4. CASE child[u] \in {"dead", "refused"}
    BY <2>4 DEF NextMove, PeerClosed
  <2>5. CASE child[u] \in {"starting", "reading"}
    BY <2>1, <2>5 DEF NextMove, HasToCome
  <2>6. CASE child[u] = "replying"
    <3>1. up[u] \in Nat /\ down[u] \in Nat /\ lines[u] \in Nat /\ MaxLines \in Nat /\ MaxPieces \in Nat
      BY <2>1, EchoConstants DEF EchoTypes
    <3>2. lines[u] <= MaxLines /\ up[u] + down[u] + 1 <= MaxPieces * lines[u]
      BY <2>1, <2>6 DEF Paid, InChild
    <3>3. MaxPieces * lines[u] <= MaxPieces * MaxLines
      BY <3>1, <3>2
    <3>4. MaxPieces * lines[u] \in Nat /\ MaxPieces * MaxLines \in Nat
      BY <3>1
    <3>5. down[u] < MaxPieces * MaxLines
      BY <3>1, <3>2, <3>3, <3>4
    <3>6. QED
      BY <2>6, <3>5 DEF NextMove
  <2>7. QED
    BY <2>1, <2>2, <2>3, <2>4, <2>5, <2>6 DEF EchoTypes, Children
<1>2. QED
  BY EchoInvHolds, <1>1, PTL

\* Answers are never made of nothing: the pieces under way, in the child's hands and on their way back are together no
\* more than the pieces that the client has sent (tcp_server.c: what was read is written once).
THEOREM AnswersArePaid == EchoSpec => [](\A u \in Users : Paid(u))
<1>1. EchoInv => \A u \in Users : Paid(u)
  BY DEF EchoInv
<1>2. QED
  BY EchoInvHolds, <1>1, PTL

(***************************************************************************)
(* Chapter 4: threads that are told to stop                                *)
(***************************************************************************)

ThreadPlaces == {"test", "work", "count", "ended"}

ProcTypes ==
    /\ example \in Examples
    /\ thread \in [Workers -> ThreadPlaces] /\ items \in Int
    /\ mainPc \in {"none", "run", "join", "done"} /\ running \in BOOLEAN

\* Where a thread may be in each of the programs, and who has the mutex.
AtWork(t) ==
    /\ thread[t] = "work" => example.shares \in {"mutex", "semaphore"}
    /\ thread[t] = "count" <=> holder = t
    /\ holder = t => example.shares = "mutex"
    /\ thread[t] = "ended" => ~running

ProcInv ==
    /\ ProcTypes
    /\ mainPc # "none" => OnThreads
    /\ mainPc = "join" => ~running
    /\ holder = "" \/ holder \in Workers
    /\ example.shares = "semaphore" => items >= 0
    /\ \A t \in Workers : AtWork(t)

\* The consumer waits for a semaphore that no one raises any more.
Starves ==
    /\ example.shares = "semaphore" /\ items = 0
    /\ thread["producter"] = "ended" /\ thread["consumer"] = "work"

\* A thread that has a step to do after the order to stop, and nothing to wait for.
GoesOn(t) ==
    \/ thread[t] \in {"test", "count"}
    \/ thread[t] = "work" /\ example.shares = "mutex" /\ holder = ""
    \/ thread[t] = "work" /\ example.shares = "semaphore" /\ (t = "producter" \/ items > 0)

LEMMA FourKinds == ASSUME NEW e \in Examples PROVE e.shares \in {"pipe", "mutex", "semaphore", "flag"}
  BY DEF Examples, OneWrite, LongWrite, LongWriteBak, ByteByByte, MutexPair, MutexPairBak, SemPair, SemPairBak,
         OneThread, OneThreadBak, Pipe, Threads

LEMMA ProcStarts == ProcInit => ProcInv
<1> SUFFICES ASSUME ProcInit PROVE ProcInv
  OBVIOUS
<1>1. \A t \in Workers : t # "" /\ thread[t] = "test"
  BY DEF ProcInit, Workers
<1>2. SemStart \in Int /\ SemStart >= 0
  BY ProcessConstants
<1>3. ProcTypes
  <2>1. thread \in [Workers -> ThreadPlaces]
    BY DEF ProcInit, ThreadPlaces
  <2>2. items \in {SemStart, 0}
    BY DEF ProcInit
  <2>3. items \in Int
    BY <1>2, <2>2
  <2>4. QED
    BY <2>1, <2>3 DEF ProcInit, ProcTypes
<1>4. QED
  BY <1>1, <1>2, <1>3 DEF ProcInit, ProcInv, AtWork

LEMMA ProcKeeps == ASSUME ProcInv, [ProcNext]_procVars PROVE ProcInv'
<1>1. CASE UNCHANGED procVars \/ WritePipe \/ WriteEnds \/ ReadPipe \/ ReadEnd
  <2>1. UNCHANGED <<example, threadVars>>
    BY <1>1 DEF procVars, threadVars, WritePipe, WriteEnds, ReadPipe, ReadEnd
  <2>2. QED
    BY <2>1 DEF threadVars, ProcInv, ProcTypes, Workers, OnThreads, AtWork
<1>2. ASSUME NEW t \in Workers, Work(t) PROVE ProcInv'
  <2>1. /\ t # "" /\ example' = example /\ running' = running /\ mainPc' = mainPc /\ Workers' = Workers
        /\ ProcTypes /\ AtWork(t) /\ OnThreads' = OnThreads
    BY <1>2 DEF Work, TestRun, LockMutex, Count, Workers, ProcInv, OnThreads
  <2>2. CASE TestRun(t)
    <3>1. /\ items' = items /\ holder' = holder /\ thread[t] = "test"
          /\ thread' = [thread EXCEPT ![t] = IF ~running THEN "ended"
                                             ELSE IF example.shares = "flag" THEN "test" ELSE "work"]
      BY <2>2 DEF TestRun
    <3>2. example.shares # "flag" => example.shares \in {"mutex", "semaphore"}
      BY <2>1, <2>2, FourKinds DEF ProcTypes, TestRun, OnThreads
    <3>3. ProcTypes'
      BY <2>1, <3>1 DEF ProcTypes, ThreadPlaces
    <3>4. \A u \in Workers : AtWork(u)'
      BY <2>1, <3>1, <3>2 DEF ProcInv, ProcTypes, AtWork
    <3>5. QED
      BY <2>1, <3>1, <3>3, <3>4 DEF ProcInv
  <2>3. CASE LockMutex(t)
    <3>1. /\ items' = items /\ holder = "" /\ holder' = t /\ thread' = [thread EXCEPT ![t] = "count"]
          /\ example.shares = "mutex"
      BY <2>3 DEF LockMutex
    <3>2. ProcTypes'
      BY <2>1, <3>1 DEF ProcTypes, ThreadPlaces
    <3>3. \A u \in Workers : AtWork(u)'
      BY <2>1, <3>1 DEF ProcInv, ProcTypes, AtWork, Workers
    <3>4. QED
      BY <2>1, <3>1, <3>2, <3>3 DEF ProcInv
  <2>4. CASE Count(t)
    <3>1. /\ items' \in {items + 1, items - 1} /\ holder = t /\ holder' = ""
          /\ thread' = [thread EXCEPT ![t] = "test"] /\ example.shares = "mutex"
      BY <2>1, <2>4 DEF Count, AtWork
    <3>2. ProcTypes'
      <4>1. items' \in Int
        <5>1. items \in Int /\ items' \in {items + 1, items - 1}
          BY <2>1, <3>1 DEF ProcTypes
        <5>2. QED
          BY <5>1
      <4>2. thread' \in [Workers -> ThreadPlaces]
        BY <2>1, <3>1 DEF ProcTypes, ThreadPlaces
      <4>3. QED
        BY <2>1, <4>1, <4>2 DEF ProcTypes
    <3>3. \A u \in Workers : AtWork(u)'
      BY <2>1, <3>1 DEF ProcInv, ProcTypes, AtWork, Workers
    <3>4. QED
      BY <2>1, <3>1, <3>2, <3>3 DEF ProcInv
  <2>5. QED
    BY <1>2, <2>2, <2>3, <2>4 DEF Work
<1>3. CASE Post \/ SemWait
  <2>1. PICK t \in {"producter", "consumer"} : /\ thread[t] = "work" /\ thread' = [thread EXCEPT ![t] = "test"]
                                               /\ items' = items + 1 \/ (items > 0 /\ items' = items - 1)
    BY <1>3 DEF Post, SemWait
  <2>2. /\ example' = example /\ running' = running /\ mainPc' = mainPc /\ Workers' = Workers /\ holder' = holder
        /\ example.shares = "semaphore" /\ ProcTypes /\ OnThreads' = OnThreads /\ t \in Workers
    BY <1>3 DEF Post, SemWait, Workers, ProcInv, OnThreads
  <2>3. ProcTypes' /\ items' >= 0
    <3>1. items \in Int /\ items >= 0
      BY <2>2 DEF ProcTypes, ProcInv
    <3>2. items' \in Int /\ items' >= 0
      BY <2>1, <3>1
    <3>3. thread' \in [Workers -> ThreadPlaces]
      BY <2>1, <2>2 DEF ProcTypes, ThreadPlaces
    <3>4. QED
      BY <2>2, <3>2, <3>3 DEF ProcTypes
  <2>4. \A u \in Workers : AtWork(u)'
    BY <2>1, <2>2 DEF ProcInv, ProcTypes, AtWork
  <2>5. QED
    BY <2>2, <2>3, <2>4 DEF ProcInv
<1>4. CASE StopThreads \/ Join
  <2>1. /\ UNCHANGED <<example, items, holder, thread>> /\ mainPc \in {"run", "join"}
        /\ mainPc' \in {"join", "done"} /\ running' \in {running, FALSE}
        /\ mainPc' = "join" => running' = FALSE
    BY <1>4 DEF StopThreads, Join
  <2>2. ProcTypes' /\ OnThreads'
    BY <2>1 DEF ProcInv, ProcTypes, Workers, OnThreads
  <2>3. \A t \in Workers : AtWork(t)'
    BY <2>1 DEF ProcInv, ProcTypes, AtWork
  <2>4. QED
    BY <2>1, <2>2, <2>3 DEF ProcInv, Workers
<1>5. QED
  BY <1>1, <1>2, <1>3, <1>4 DEF ProcNext

THEOREM ProcInvHolds == ProcSpec => []ProcInv
  BY ProcStarts, ProcKeeps, PTL DEF ProcSpec

\* One thread at a time counts between pthread_mutex_lock and unlock (04/4.3.4).
THEOREM OneCounts ==
    ProcSpec => [](\A s, t \in Workers : thread[s] = "count" /\ thread[t] = "count" => s = t)
<1>1. ProcInv => \A s, t \in Workers : thread[s] = "count" /\ thread[t] = "count" => s = t
  BY DEF ProcInv, AtWork
<1>2. QED
  BY ProcInvHolds, <1>1, PTL

\* After main has told the threads to stop, they have ended, one of them can go on, or the consumer starves:
\* in no other way do the threads and main wait for one another, of which StopsOrStarves is the rest.
THEOREM StopIsNotBlocked ==
    ProcSpec => [](mainPc = "join" =>
                       (\A t \in Workers : thread[t] = "ended") \/ Starves \/ (\E t \in Workers : GoesOn(t)))
<1>1. ProcInv => (mainPc = "join" =>
          (\A t \in Workers : thread[t] = "ended") \/ Starves \/ (\E t \in Workers : GoesOn(t)))
  <2> SUFFICES ASSUME ProcInv, mainPc = "join", NEW t \in Workers, thread[t] # "ended",
                      \A u \in Workers : ~GoesOn(u)
               PROVE  Starves
    OBVIOUS
  <2>1. thread[t] = "work" /\ example.shares \in {"mutex", "semaphore"} /\ ProcTypes
    BY DEF ProcInv, ProcTypes, AtWork, GoesOn, ThreadPlaces
  <2>2. example.shares = "semaphore"
    BY <2>1 DEF ProcInv, AtWork, GoesOn
  <2>3. t = "consumer" /\ "producter" \in Workers /\ items = 0
    <3>1. t = "consumer" /\ "producter" \in Workers
      BY <2>1, <2>2 DEF Workers, GoesOn
    <3>2. items \in Int /\ items >= 0 /\ ~(items > 0)
      BY <2>1, <2>2 DEF ProcInv, ProcTypes, GoesOn
    <3>3. QED
      BY <3>1, <3>2
  <2>4. thread["producter"] = "ended"
    BY <2>1, <2>2, <2>3 DEF ProcTypes, ThreadPlaces, GoesOn, AtWork, ProcInv
  <2>5. QED
    BY <2>1, <2>2, <2>3, <2>4 DEF Starves
<1>2. QED
  BY ProcInvHolds, <1>1, PTL

(***************************************************************************)
(* Chapter 11: the descriptor that is passed                               *)
(***************************************************************************)

PassInv ==
    /\ ppc \in [Readers -> {"fork", "none", "exec", "open", "wait", "recv", "read", "ended"}]
    /\ fd \in [Readers -> {"closed", "input", "file"}] /\ status \in [Readers -> {"zero", "other"}]
    /\ ppc[Parent] \notin {"none", "exec", "open"} /\ ppc[Child] \notin {"fork", "wait"}
    /\ ppc[Parent] = "fork" => ppc[Child] = "none"
    /\ ppc[Parent] = "wait" => ppc[Child] # "none"
    /\ openable \in BOOLEAN /\ passed \in BOOLEAN
    /\ ppc[Child] \notin {"none", "ended"} => ppc[Parent] = "wait"
    /\ fd[Child] # "file" /\ copied \subseteq {Parent}
    /\ fd[Parent] = "file" => passed /\ ppc[Parent] \in {"read", "ended"}
    /\ passed => ppc[Child] = "ended" /\ ppc[Parent] \in {"wait", "recv", "read", "ended"}
    /\ passed /\ ppc[Parent] = "recv" => status[Parent] = "zero"
    /\ passed /\ ppc[Parent] \in {"read", "ended"} => fd[Parent] = "file"
    /\ Parent \in copied <=> fd[Parent] = "file" /\ ppc[Parent] = "ended"

THEOREM PassInvHolds == PassSpec => []PassInv
<1>1. PassInit => PassInv
  BY DEF PassInit, PassInv, Readers, Parent, Child
<1>2. PassInv /\ [PassNext]_passVars => PassInv'
  <2> SUFFICES ASSUME PassInv, [PassNext]_passVars PROVE PassInv'
    OBVIOUS
  <2> USE DEF PassInv, Readers, Parent, Child
  <2>1. CASE UNCHANGED passVars
    BY <2>1 DEF passVars
  <2>2. CASE Fork
    BY <2>2 DEF Fork, Goto
  <2>3. CASE Exec
    BY <2>3 DEF Exec, Goto
  <2>4. CASE OpenFile
    BY <2>4 DEF OpenFile, Goto
  <2>5. CASE WaitChild
    BY <2>5 DEF WaitChild, Goto
  <2>6. CASE \E r \in Readers : RecvFd(r)
    BY <2>6 DEF RecvFd, Goto
  <2>7. CASE \E r \in Readers : CopyFile(r)
    BY <2>7 DEF CopyFile, Goto
  <2>8. QED
    BY <2>1, <2>2, <2>3, <2>4, <2>5, <2>6, <2>7 DEF PassNext, Steps
<1>3. QED
  BY <1>1, <1>2, PTL DEF PassSpec

\* Whatever fd and status hold at first and whichever call fails: when the parent has ended (a.c, my_open.c), it has
\* copied the file if and only if the descriptor was passed to it, and a second reader has copied nothing.
THEOREM CopiedIfPassed ==
    PassSpec => [](copied \subseteq {Parent} /\ (ppc[Parent] = "ended" => (passed <=> Parent \in copied)))
<1>1. PassInv => copied \subseteq {Parent} /\ (ppc[Parent] = "ended" => (passed <=> Parent \in copied))
  BY DEF PassInv
<1>2. QED
  BY PassInvHolds, <1>1, PTL
=============================================================================
