----------------------------- MODULE Processes -----------------------------
(* The examples of chapter 4 in which two processes share a pipe, or two threads a counter, a semaphore or the     *)
(* variable that stops them. What counts in all of them is how, and whether, they end.                             *)
EXTENDS Integers

CONSTANTS WRITELEN,   \* bytes to be written into the pipe
          PipeSize,   \* bytes the pipe holds
          SemStart,   \* first value of the semaphore
          MaxItems    \* bound on the counter and the semaphore

ASSUME ProcessConstants == /\ WRITELEN \in Nat \ {0} /\ PipeSize \in Nat \ {0}
                           /\ SemStart \in 0 .. MaxItems /\ MaxItems \in Nat

VARIABLES example,   \* the program that runs
          left,      \* write_size, or what of the string is still to be written
          inPipe,    \* bytes in the pipe
          writer, reader,
          running,   \* the variable that the threads ask
          items,     \* buffer_has_item, or the semaphore's value
          holder,    \* thread with the mutex
          thread,    \* where each thread is
          mainPc     \* where main is
procVars == <<example, left, inPipe, writer, reader, running, items, holder, thread, mainPc>>
pipeVars == <<left, inPipe, writer, reader>>
threadVars == <<running, items, holder, thread, mainPc>>

Pipe(again, readsAll) == [shares |-> "pipe", again |-> again, readsAll |-> readsAll]
Threads(with) == [shares |-> with, again |-> FALSE, readsAll |-> FALSE]

OneWrite == Pipe(FALSE, FALSE)
\* The loop goes on while write_size >= 0, and writing nothing does not make it less.
LongWrite == Pipe(TRUE, TRUE)
LongWriteBak == LongWrite
ByteByByte == Pipe(FALSE, TRUE)
MutexPair == Threads("mutex")
MutexPairBak == MutexPair
SemPair == Threads("semaphore")
SemPairBak == SemPair
OneThread == Threads("flag")
OneThreadBak == OneThread
Examples == {OneWrite, LongWrite, LongWriteBak, ByteByByte, MutexPair, MutexPairBak, SemPair, SemPairBak,
             OneThread, OneThreadBak}

Workers == IF example.shares = "flag" THEN {"producter"} ELSE {"producter", "consumer"}
OnThreads == example.shares # "pipe"

ProcInit == /\ example \in Examples
            /\ left = WRITELEN /\ inPipe = 0 /\ writer = "write" /\ reader = "read"
            /\ running = TRUE /\ items = (IF example.shares = "semaphore" THEN SemStart ELSE 0)
            /\ holder = "" /\ thread = [t \in Workers |-> "test"]
            /\ mainPc = IF OnThreads THEN "run" ELSE "none"

WritePipe == /\ ~OnThreads /\ writer = "write" /\ left > 0
             /\ \E n \in 1 .. left : /\ inPipe + n <= PipeSize
                                     /\ left' = left - n /\ inPipe' = inPipe + n
             /\ UNCHANGED <<example, writer, reader, threadVars>>

\* All is written: the process ends and closes the pipe, or goes on with writes of nothing, ten seconds apart.
WriteEnds == /\ ~OnThreads /\ writer = "write" /\ left = 0
             /\ writer' = IF example.again THEN "sleep" ELSE "ended"
             /\ UNCHANGED <<example, left, inPipe, reader, threadVars>>

ReadPipe == /\ ~OnThreads /\ reader = "read" /\ inPipe > 0
            /\ \E n \in 1 .. inPipe : inPipe' = inPipe - n
            /\ reader' = IF example.readsAll THEN "read" ELSE "ended"
            /\ UNCHANGED <<example, left, writer, threadVars>>

ReadEnd == /\ ~OnThreads /\ reader = "read" /\ inPipe = 0 /\ writer = "ended"
           /\ reader' = "ended"
           /\ UNCHANGED <<example, left, inPipe, writer, threadVars>>

\* While the program runs, a counter at the bound keeps its thread in this test.
InBounds(t) == IF t = "producter" THEN items < MaxItems ELSE items > -MaxItems
TestRun(t) == /\ OnThreads /\ thread[t] = "test" /\ (running => InBounds(t))
              /\ thread' = [thread EXCEPT ![t] = IF ~running THEN "ended" ELSE IF example.shares = "flag" THEN "test" ELSE "work"]
              /\ UNCHANGED <<example, pipeVars, running, items, holder, mainPc>>

\* The mutex protects the counter, but nothing keeps the consumer from taking what is not there.
LockMutex(t) == /\ example.shares = "mutex" /\ thread[t] = "work" /\ holder = ""
                /\ holder' = t /\ thread' = [thread EXCEPT ![t] = "count"]
                /\ UNCHANGED <<example, pipeVars, running, items, mainPc>>

\* The mutex is kept (mutant: no unlock).
Count_Keeps(t) == /\ thread[t] = "count" /\ holder = t
                  /\ items' = IF t = "producter" THEN items + 1 ELSE items - 1
                  /\ thread' = [thread EXCEPT ![t] = "test"]
                  /\ UNCHANGED <<example, pipeVars, running, holder, mainPc>>

Count(t) == /\ thread[t] = "count" /\ holder = t
            /\ items' = IF t = "producter" THEN items + 1 ELSE items - 1
            /\ holder' = "" /\ thread' = [thread EXCEPT ![t] = "test"]
            /\ UNCHANGED <<example, pipeVars, running, mainPc>>

Post == /\ example.shares = "semaphore" /\ thread["producter"] = "work"
        /\ items' = items + 1 /\ thread' = [thread EXCEPT !["producter"] = "test"]
        /\ UNCHANGED <<example, pipeVars, running, holder, mainPc>>

SemWait == /\ example.shares = "semaphore" /\ thread["consumer"] = "work" /\ items > 0
           /\ items' = items - 1 /\ thread' = [thread EXCEPT !["consumer"] = "test"]
           /\ UNCHANGED <<example, pipeVars, running, holder, mainPc>>

StopThreads == /\ mainPc = "run" /\ running' = FALSE /\ mainPc' = "join"
               /\ UNCHANGED <<example, pipeVars, items, holder, thread>>

Join == /\ mainPc = "join" /\ \A t \in Workers : thread[t] = "ended"
        /\ mainPc' = "done"
        /\ UNCHANGED <<example, pipeVars, running, items, holder, thread>>

Work(t) == TestRun(t) \/ LockMutex(t) \/ Count(t)
ProcNext == \/ WritePipe \/ WriteEnds \/ ReadPipe \/ ReadEnd
            \/ (\E t \in Workers : Work(t)) \/ Post \/ SemWait \/ StopThreads \/ Join

ProcFairness == /\ WF_procVars(WritePipe \/ WriteEnds) /\ WF_procVars(ReadPipe \/ ReadEnd)
                /\ WF_procVars(StopThreads \/ Join)
                /\ WF_procVars("producter" \in Workers /\ (Work("producter") \/ Post))
                /\ WF_procVars("consumer" \in Workers /\ (Work("consumer") \/ SemWait))

ProcSpec == ProcInit /\ [][ProcNext]_procVars /\ ProcFairness
-----------------------------------------------------------------------------
(* After main has told the threads to stop it ends, or the producer has stopped while the consumer waits for the    *)
(* semaphore, which no one raises any more, and main waits for it for ever.                                        *)
StopsOrStarves == mainPc = "join" ~>
    \/ mainPc = "done"
    \/ /\ example.shares = "semaphore" /\ items = 0
       /\ thread["producter"] = "ended" /\ thread["consumer"] = "work"
=============================================================================
