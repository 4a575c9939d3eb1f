------------------------------ MODULE MCSipfw ------------------------------
(* The edges of the firewalls in one run: the command line client of SIPFW with the netlink socket, its module   *)
(* with configuration and proc files, and the filter of chapter 17. The first begins when the second has been     *)
(* loaded, and shares nothing with it but the rules, which module RuleChains has; the filter is a module of its   *)
(* own. So one of them works, and which is fixed in the initial state.                                            *)
EXTENDS SipfwClient, SipfwModule, PacketFilter, TLC

VARIABLE edge

Option(opt, arg) == [opt |-> opt, arg |-> arg]

\* What two users type.
Typed == {<<Option("List", "none")>>,
          <<Option("Append", "input"), Option("List", "none")>>,
          <<Option("Flush", "unknown")>>,
          <<Option("Append", "input"), Option("action", "none")>>,
          <<Option("Append", "unknown"), Option("action", "none")>>,
          <<Option("Insert", "input"), Option("number", "none")>>,
          <<Option("Insert", "colon")>>,
          <<Option("Delete", "input")>>,
          <<Option("number", "none")>>}

\* Configurations with and without an empty line, and texts that are longer and shorter than each other.
Files == {<<>>, <<"drop", "log">>, <<"rules", "drop", "empty", "accept">>}
Words == {Accept, Drop, <<"0">>, <<"0", "1", "lf">>}

OfClient == edge = "client" /\ UNCHANGED <<moduleVars, filterVars>>
OfModule == edge = "module" /\ UNCHANGED <<sipfwVars, filterVars>>
OfFilter == edge = "filter" /\ UNCHANGED <<sipfwVars, moduleVars>>

Init == /\ ClientInit /\ ModuleInit /\ FilterInit /\ edge \in {"client", "module", "filter"}
        /\ edge # "module" => rest = <<>> /\ ~cut
        /\ edge # "client" => rules = 0 /\ number = 0

Next == /\ \/ OfClient /\ ClientNext
           \/ OfModule /\ ModuleNext
           \/ OfFilter /\ FilterNext
        /\ UNCHANGED edge

\* The fairness of ClientSpec.
Spec == /\ Init /\ [][Next]_<<edge, sipfwVars, moduleVars, filterVars>>
        /\ \A c \in Clients : /\ WF_sipfwVars(OfClient /\ mode = "ok" /\ Kernel(c))
                              /\ WF_sipfwVars(OfClient /\ mode = "ok" /\ Reads(c))
=============================================================================
