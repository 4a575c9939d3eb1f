----------------------------- MODULE MCStreams -----------------------------
(* Bytes between processes, in one run: the echo servers of chapters 7 and 9, the forwarder of chapter 9, the      *)
(* pipes and threads of chapter 4, and the descriptor passed in chapter 11. They are programs of their own: which   *)
(* of them runs is fixed in the initial state, and the variables of the others keep one value.                     *)
EXTENDS EchoServers, Forwarder, Processes, PassedDescriptor

VARIABLE chapter

Echo == chapter = "echo" /\ UNCHANGED <<chapter, fwdVars, procVars, passVars>>
Fwd == chapter = "forward" /\ UNCHANGED <<chapter, echoVars, procVars, passVars>>
Proc == chapter = "processes" /\ UNCHANGED <<chapter, echoVars, fwdVars, passVars>>
Pass == chapter = "pass" /\ UNCHANGED <<chapter, echoVars, fwdVars, procVars>>

Init == /\ chapter \in {"echo", "forward", "processes", "pass"} /\ EchoInit /\ FwdInit /\ ProcInit /\ PassInit
        /\ chapter # "echo" => echo = Chapter7
        /\ chapter # "processes" => example = OneThread
        /\ chapter # "pass" => ~openable /\ \A r \in Readers : fd[r] = "closed" /\ status[r] = "zero"

Next == \/ Echo /\ EchoNext
        \/ Fwd /\ FwdNext
        \/ Proc /\ ProcNext
        \/ Pass /\ PassNext

streamVars == <<chapter, echoVars, fwdVars, procVars, passVars>>

\* The fairness of the modules, each for its own steps.
Spec == /\ Init /\ [][Next]_streamVars
        /\ WF_streamVars(Echo /\ AcceptFork)
        /\ \A u \in Users : WF_streamVars(Echo /\ ChildStep(u)) /\ WF_streamVars(Echo /\ ReadAnswer(u))
        /\ WF_streamVars(Proc /\ (WritePipe \/ WriteEnds)) /\ WF_streamVars(Proc /\ (ReadPipe \/ ReadEnd))
        /\ WF_streamVars(Proc /\ (StopThreads \/ Join))
        /\ WF_streamVars(Proc /\ "producter" \in Workers /\ (Work("producter") \/ Post))
        /\ WF_streamVars(Proc /\ "consumer" \in Workers /\ (Work("consumer") \/ SemWait))
        /\ WF_streamVars(Pass /\ (Fork \/ WaitChild)) /\ WF_streamVars(Pass /\ (Exec \/ OpenFile))
        /\ \A r \in Readers : WF_streamVars(Pass /\ ~Typing(r) /\ Steps(r))
=============================================================================
