-------------------------- MODULE PassedDescriptor --------------------------
(* Passing a descriptor, as in 11.1.6: my_open makes a pair of sockets and forks; the child becomes ./openfile,    *)
(* which opens the file and sends the descriptor; the parent waits for the child's end, receives it, and copies    *)
(* from it to its output. The variable fd of my_open is set by recv_fd only. When there is no ./openfile, execl    *)
(* returns and the child goes on in the parent's code, as a second reader.                                        *)

VARIABLES ppc,      \* where the two processes are
          fd,       \* what fd stands for: an uninitialised one for nothing that is open, or for the input
          status,   \* of the two waitpid, uninitialised until one succeeds
          openable, \* the file can be opened
          passed,     \* the descriptor was put into the socket
          copied    \* processes that have copied the file
passVars == <<ppc, fd, status, openable, passed, copied>>

Parent == "parent"
Child == "child"
Readers == {Parent, Child}

PassInit == /\ ppc = [r \in Readers |-> IF r = Parent THEN "fork" ELSE "none"]
            /\ fd \in [Readers -> {"closed", "input"}] /\ status \in [Readers -> {"zero", "other"}]
            /\ openable \in BOOLEAN /\ passed = FALSE /\ copied = {}

Goto(r, where) == ppc' = [ppc EXCEPT ![r] = where]

\* Without a child waitpid fails, and the parent goes on with what status and fd happen to be.
Fork == /\ ppc[Parent] = "fork"
        /\ \/ ppc' = [ppc EXCEPT ![Parent] = "wait", ![Child] = "exec"]
           \/ Goto(Parent, "recv")
        /\ UNCHANGED <<fd, status, openable, passed, copied>>

\* After a failed execl the child waits for children of its own, of which there are none.
Exec == /\ ppc[Child] = "exec" /\ (Goto(Child, "open") \/ Goto(Child, "recv"))
        /\ UNCHANGED <<fd, status, openable, passed, copied>>

\* openfile ends with 0 also when it could not open or send.
OpenFile == /\ ppc[Child] = "open" /\ Goto(Child, "ended") /\ passed' \in {FALSE, openable}
            /\ UNCHANGED <<fd, status, openable, copied>>

WaitChild == /\ ppc[Parent] = "wait" /\ ppc[Child] = "ended" /\ Goto(Parent, "recv")
             /\ status' = [status EXCEPT ![Parent] = "zero"]
             /\ UNCHANGED <<fd, openable, passed, copied>>

\* A descriptor is not taken out of the message (mutant: cmsg_len == sizeof(int)).
RecvFd_OtherLength(r) == /\ ppc[r] = "recv" /\ Goto(r, "read") /\ fd' = [fd EXCEPT ![r] = "closed"]
                         /\ UNCHANGED <<status, openable, passed, copied>>

\* recv_fd sets nothing at the end of the stream. The child has closed this end, but the -1 of recvmsg is a large
\* number as size_t, so that the header is looked at, which holds no length, or by chance the right one.
RecvFd(r) == /\ ppc[r] = "recv" /\ Goto(r, "read")
             /\ fd' \in {[fd EXCEPT ![r] = v] : v \in IF status[r] = "other" THEN {"closed"}
                                                      ELSE IF r = Child THEN {"closed", "input"}
                                                      ELSE IF passed THEN {"file"} ELSE {fd[r]}}
             /\ UNCHANGED <<status, openable, passed, copied>>

\* main reads whatever my_open returned; the input may end, or say nothing for ever.
CopyFile(r) == /\ ppc[r] = "read" /\ Goto(r, "ended")
               /\ copied' = IF fd[r] = "file" THEN copied \cup {r} ELSE copied
               /\ UNCHANGED <<fd, status, openable, passed>>

Steps(r) == RecvFd(r) \/ CopyFile(r)
PassNext == Fork \/ Exec \/ OpenFile \/ WaitChild \/ \E r \in Readers : Steps(r)

Typing(r) == ppc[r] = "read" /\ fd[r] = "input"
PassSpec == /\ PassInit /\ [][PassNext]_passVars
            /\ WF_passVars(Fork \/ WaitChild) /\ WF_passVars(Exec \/ OpenFile)
            /\ \A r \in Readers : WF_passVars(~Typing(r) /\ Steps(r))
-----------------------------------------------------------------------------
(* Once it has tried to fork, the parent ends, and has copied the file exactly when the descriptor was passed to   *)
(* it; or one of the processes reads from the input instead, only when no descriptor was passed (b.c:81-108).      *)
FileCopied == ppc[Parent] # "fork" ~> \/ ppc[Parent] = "ended" /\ (passed <=> Parent \in copied)
                                      \/ ~passed /\ \E r \in Readers : Typing(r)
=============================================================================
