------------------------------ MODULE Checksum ------------------------------
(* The checksums of the SIP stack and of ping, byte by byte on a little-endian machine, and the way of a message  *)
(* through them: an IP header that ip_output sends, an echo request of ping that icmp_echo turns into its reply,  *)
(* and a datagram of SIP_UDPSendTo. What stands before the checksum has two bytes, the rest follows it.           *)
EXTENDS Integers, Sequences

CONSTANTS Bytes,    \* bound: the byte values that messages are made of
          MaxRest,  \* bound: bytes after the checksum; the length of all is a __u16
          PseudoSum \* sum of the six words of UDP's pseudo header: addresses, protocol and length

ASSUME ChecksumConstants == /\ Bytes \subseteq 0 .. 255 /\ MaxRest \in Nat /\ MaxRest <= 65531
                            /\ PseudoSum \in Nat \ {0} /\ PseudoSum <= 6 * 65535

VARIABLES first,  \* the two bytes before the checksum
          check,  \* the checksum as the program has it in a __u16
          rest,   \* the bytes after it
          stage   \* what has been done with the message
sumVars == <<first, check, rest, stage>>

ICMP_ECHO == 8
ICMP_ECHOREPLY == 0

\* A __u16 lies in memory with its low byte first.
Message == first \o <<check % 256, check \div 256>> \o rest

htons(w) == (256 * (w % 256)) + (w \div 256)
Complement(w) == 65535 - w
Fold(acc) == (acc \div 65536) + (acc % 65536)

Halves(d) == (Len(d) + 1) \div 2
Words(d) == 1 .. Halves(d)
Byte(d, i) == IF i <= Len(d) THEN d[i] ELSE 0

\* acc after all n words: one is added after the other.
Total(word, n) == LET acc[k \in 0 .. n] == IF k = 0 THEN 0 ELSE acc[k - 1] + word[k] IN acc[n]

\* Most significant byte first, a missing one is 0. The sum of 32768 words fits into a __u32.
SumOf(d) == Total([i \in Words(d) |-> 256 * Byte(d, 2 * i - 1) + Byte(d, 2 * i)], Halves(d))

SIP_Chksum(d) == Complement(htons(Fold(Fold(SumOf(d)))))

\* The sum of the data comes in complemented, which that of a pseudo header must not be.
SIP_ChksumPseudo(d) == Complement(Fold(Fold(SIP_Chksum(d) + PseudoSum)))

\* Words as the machine has them; the last byte of an odd number goes to the high half, where memory has none.
icmp_cksum(d) == LET odd == Len(d) % 2 = 1
                     low(i) == IF odd /\ 2 * i > Len(d) THEN 0 ELSE d[2 * i - 1]
                     high(i) == IF odd /\ 2 * i > Len(d) THEN d[2 * i - 1] ELSE d[2 * i] IN
                 Complement(Fold(Fold(Total([i \in Words(d) |-> low(i) + 256 * high(i)], Halves(d)))) % 65536)

\* The carry is not added in (mutant: += htons(ICMP_ECHO << 8) in both branches).
EchoCheck_NoCarry(c) == (c + htons(256 * ICMP_ECHO)) % 65536

\* The type falls by ICMP_ECHO, the checksum grows by as much, and by the carry.
EchoCheck(c) == IF c >= htons(65535 - 256 * ICMP_ECHO) THEN (c + htons(256 * ICMP_ECHO) + 1) % 65536
                ELSE (c + htons(256 * ICMP_ECHO)) % 65536
-----------------------------------------------------------------------------
SumInit == /\ first \in {<<ICMP_ECHO, 0>>} \cup [1 .. 2 -> Bytes]
           /\ check = 0 /\ rest \in UNION {[1 .. n -> Bytes] : n \in 0 .. MaxRest} /\ stage = "made"

icmp_pack == /\ stage = "made" /\ first = <<ICMP_ECHO, 0>>
             /\ check' = icmp_cksum(Message) /\ stage' = "request" /\ UNCHANGED <<first, rest>>

icmp_echo == /\ stage = "request"
             /\ first' = <<ICMP_ECHOREPLY, 0>> /\ check' = EchoCheck(check) /\ stage' = "reply"
             /\ UNCHANGED rest

\* A header has the version and an even number of bytes.
IpHeader == /\ stage = "made" /\ Len(rest) % 2 = 0 /\ first[1] # 0
            /\ check' = SIP_Chksum(Message) /\ stage' = "header" /\ UNCHANGED <<first, rest>>

\* 0 stands for no checksum.
UdpSend == /\ stage = "made" /\ Len(rest) % 2 = 0
           /\ check' = LET c == SIP_ChksumPseudo(Message) IN IF c = 0 THEN 65535 ELSE c
           /\ stage' = "datagram" /\ UNCHANGED <<first, rest>>

SumNext == icmp_pack \/ icmp_echo \/ IpHeader \/ UdpSend
SumSpec == SumInit /\ [][SumNext]_sumVars
-----------------------------------------------------------------------------
Odd == Len(rest) % 2 = 1
Receives == IF stage = "datagram" THEN (SumOf(Message) + 256 * PseudoSum) % 65535 = 0
            ELSE SIP_Chksum(Message) = 0
Rest0 == \A i \in 1 .. Len(rest) : rest[i] = 0

(* Which messages a receiver accepts, who sums them with their checksum as RFC 1071 says: every IP header; the    *)
(* requests of ping and the replies of the stack, unless an odd last byte was summed into the wrong half, or the   *)
(* correction of the checksum has made a reply of nothing but zeros; and of the datagrams only those whose bytes   *)
(* sum to nothing anyway, as SIP_ChksumPseudo begins with the complement of their sum.                             *)
AcceptedAsKnown == stage # "made" =>
    (Receives <=> CASE stage = "header" -> TRUE
                    [] stage = "request" -> Odd => rest[Len(rest)] = 0
                    [] stage = "reply" -> (Odd => rest[Len(rest)] = 0) /\ ~Rest0
                    [] stage = "datagram" -> SumOf(first \o rest) % 65535 = 0)
=============================================================================
