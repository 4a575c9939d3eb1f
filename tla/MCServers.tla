----------------------------- MODULE MCServers -----------------------------
(* What a server is told, how it is found, and how the time servers of chapter 14 answer, in one run. These are    *)
(* programs of their own: which of them runs is fixed in the initial state, and the variables of the rest keep one *)
(* value.                                                                                                          *)
EXTENDS TimeServers, TableServer, Discovery, HttpParameters

VARIABLE program

Option(name, colon, value) == [name |-> name, colon |-> colon, value |-> value]

\* What is typed at the start of the server of chapter 18.
Typing == {Option("CGIRoot", FALSE, 1), Option("CGIRoot", TRUE, 1), Option("ConfigFile", FALSE, 1),
           Option("MaxClient", FALSE, -1), Option("MaxClient", FALSE, 1), Option("MaxClient", FALSE, 8),
           Option("Help", FALSE, 0)}

Time == program = "time" /\ UNCHANGED <<program, tableVars, discVars, paramVars>>
Table == program = "table" /\ UNCHANGED <<program, timeVars, discVars, paramVars>>
Find == program = "find" /\ UNCHANGED <<program, timeVars, tableVars, paramVars>>
Begin == program = "start" /\ UNCHANGED <<program, timeVars, tableVars, discVars>>

Init == /\ program \in {"time", "table", "find", "start"}
        /\ program # "time" => prog = LoopUdp /\ slow = {}
        /\ program # "find" => from_len = [s \in Servers \cup {Me} |-> "full"]
        /\ program # "start" => argv = <<>> /\ lines = <<>> /\ config = "absent"
        /\ TimeInit /\ TableInit /\ DiscInit /\ ParamInit

Next == \/ Time /\ TimeNext
        \/ Table /\ TableNext
        \/ Find /\ DiscNext
        \/ Begin /\ ParamNext

serverVars == <<program, timeVars, tableVars, discVars, paramVars>>

\* The fairness of the modules, each for its own steps.
Spec == /\ Init /\ [][Next]_serverVars
        /\ \A p \in Tasks : WF_serverVars(Time /\ Call(p))
        /\ \A c \in Clients : WF_serverVars(Time /\ c \notin slow /\ Ask(c)) /\ WF_serverVars(Time /\ Receive(c))
        /\ WF_serverVars(Table /\ HandleConnect) /\ WF_serverVars(Table /\ HandleRequest)
=============================================================================
