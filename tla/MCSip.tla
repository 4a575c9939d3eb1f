------------------------------- MODULE MCSip -------------------------------
(* The layers of the SIP stack in one run: frames up to the handlers of a datagram, the control blocks of UDP,   *)
(* the sockets, and the checksums. No call of the program leads from one to another, so that one of them works:  *)
(* which, is fixed in the initial state.                                                                         *)
EXTENDS SipStack, SipUdp, SipSockets, Checksum, TLC

VARIABLE layer

Init == /\ StackInit /\ UdpInit /\ SockInit /\ SumInit /\ layer \in {"frames", "udp", "sockets", "sums"}
        /\ layer # "sums" => first = <<ICMP_ECHO, 0>> /\ rest = <<>>

Next == /\ \/ layer = "frames" /\ StackNext /\ UNCHANGED <<udpVars, sockVars, sumVars>>
           \/ layer = "udp" /\ UdpNext /\ UNCHANGED <<stackVars, sockVars, sumVars>>
           \/ layer = "sockets" /\ SockNext /\ UNCHANGED <<stackVars, udpVars, sumVars>>
           \/ layer = "sums" /\ SumNext /\ UNCHANGED <<stackVars, udpVars, sockVars>>
        /\ UNCHANGED layer

Spec == Init /\ [][Next]_<<layer, stackVars, udpVars, sockVars, sumVars>>

Symmetry == Permutations(Pcbs) \cup Permutations(Threads) \cup Permutations(Socks)
=============================================================================
