------------------------------ MODULE WorkerPool ------------------------------
(***************************************************************************)
(* The worker pool of the SHTTPD web server                                *)
(* (LinuxCodeBak/Code/18/shttpd_worker.c and the signal set-up of          *)
(* shttpd.c): one dispatching thread (Main) accepts connections and hands  *)
(* each to a slot of the array wctls, the thread of the slot serves it,    *)
(* and a SIGINT handler, run on whatever thread the kernel picks, stops    *)
(* the pool.  Every read or write of memory that two threads share is a    *)
(* step of its own.                                                        *)
(*                                                                         *)
(* Descriptors are numbers that accept() takes lowest-first and close()    *)
(* gives back, so a number can come to stand for another connection.       *)
(* The addresses of mutexes, thread ids, buffers and debug output are      *)
(* left out.  pthread_create fails when MaxThreads threads were created    *)
(* (threads are never joined, so none of their resources come back).       *)
(***************************************************************************)
EXTENDS Integers, FiniteSets

CONSTANTS MaxClient,    \* conf_para.MaxClient, the number of slots
          InitClient,   \* conf_para.InitClient, the threads made at start
          MaxThreads,   \* how many threads the system lets the process create
          MaxFd,        \* the descriptors 1..MaxFd are available to accept()
          Conns,        \* the connections clients make
          NoConn,       \* a descriptor that is not open, a thread with no request
          MaxRequests,  \* the requests a client sends on a connection, at most
          SigHosts      \* the threads that SIGINT may be delivered to

ASSUME PoolAssumption ==
    /\ MaxClient \in Nat \ {0}
    /\ InitClient \in 0..MaxClient
    /\ MaxThreads \in Nat
    /\ MaxFd \in Nat
    /\ MaxRequests \in Nat
    /\ NoConn \notin Conns
    /\ SigHosts \subseteq 0..MaxThreads

Slots   == 0..(MaxClient - 1)
Threads == 1..MaxThreads
Main    == 0
NoFd    == -1
Fds     == 1..MaxFd

Status == {"INITED", "RUNNING", "DETACHING", "DETACHED", "IDEL"}

WorkerPC == {"none", "start", "born", "top", "try", "run", "fetch", "select",
             "read", "handle", "close", "clear", "check", "back", "detach",
             "dec", "decw", "gone"}
MainPC == {"init", "add", "lock", "flag", "create", "await", "inc", "incw",
           "loop", "select", "accept", "findIdle", "findFree", "give", "post",
           "exit"}
SigPC == {"off", "stop", "order", "write", "drain", "fired", "free", "done"}

VARIABLES
    flags,      \* slot -> opts.flags
    mutex,      \* slot -> opts.mutex is locked
    cs,         \* slot -> conn.cs
    initLock,   \* thread_init is locked
    sched,      \* SCHEDULESTATUS is STATUS_RUNNING
    workersnum,
    freed,      \* wctls has been freed and the mutexes destroyed
    fdtab,      \* descriptor -> the connection it stands for
    pending,    \* connections not accepted yet
    left,       \* connection -> requests its client may still send
    mpc, mi, msc, mcall, mreg,  \* Main: program point, i, sc, caller of Worker_Add, register
    created,    \* threads created so far; thread ids are given in order
    tpc, tslot, tfd, treg, \* thread: program point, ctl, fd, register
    hpc, host, hi, hclean       \* SIGINT handler: point, thread it runs on, i, clean/allfired

slotVars == <<flags, mutex, cs>>
netVars  == <<fdtab, pending, left>>
mainVars == <<mpc, mi, msc, mcall, mreg, created>>
thrVars  == <<tpc, tslot, tfd, treg>>
sigVars  == <<hpc, host, hi, hclean, sched, freed>>
vars == <<slotVars, netVars, mainVars, thrVars, sigVars, initLock, workersnum>>

SlotType ==
    /\ flags \in [Slots -> Status]
    /\ mutex \in [Slots -> BOOLEAN]
    /\ cs \in [Slots -> Fds \cup {NoFd}]

NetType ==
    /\ fdtab \in [Fds -> Conns \cup {NoConn}]
    /\ pending \subseteq Conns
    /\ left \in [Conns -> 0..MaxRequests]

MainType ==
    /\ mpc \in MainPC /\ mcall \in {"init", "loop"} /\ mreg \in Int
    /\ mi \in 0..MaxClient
    /\ mpc \notin {"init", "loop", "select", "accept", "exit"} => mi \in Slots
    /\ msc \in Fds \cup {NoFd}
    /\ created \in 0..MaxThreads

ThreadType ==
    /\ tpc \in [Threads -> WorkerPC]
    /\ tslot \in [Threads -> Slots]
    /\ tfd \in [Threads -> Fds \cup {NoFd}]
    /\ treg \in [Threads -> Int]

SigType ==
    /\ hpc \in SigPC /\ host \in 0..MaxThreads /\ hclean \in BOOLEAN
    /\ hi \in 0..MaxClient
    /\ hpc = "write" => hi \in Slots
    /\ sched \in BOOLEAN /\ freed \in BOOLEAN

TypeOK ==
    /\ SlotType /\ NetType /\ MainType /\ ThreadType /\ SigType
    /\ initLock \in BOOLEAN
    /\ workersnum \in Int

(***************************************************************************)
(* Worker_Init up to its thread-creating loop: every slot detached, its    *)
(* mutex locked, no connection.                                            *)
(***************************************************************************)
Init ==
    /\ flags = [i \in Slots |-> "DETACHED"]
    /\ mutex = [i \in Slots |-> TRUE]
    /\ cs = [i \in Slots |-> NoFd]
    /\ initLock = FALSE /\ sched = TRUE /\ freed = FALSE /\ workersnum = 0
    /\ fdtab = [f \in Fds |-> NoConn] /\ pending = Conns
    /\ left \in [Conns -> 0..MaxRequests]
    /\ mpc = "init" /\ mi = 0 /\ msc = NoFd /\ mcall = "init" /\ mreg = 0
    /\ created = 0
    /\ tpc = [t \in Threads |-> "none"] /\ tslot = [t \in Threads |-> 0]
    /\ tfd = [t \in Threads |-> NoFd]
    /\ treg = [t \in Threads |-> 0]
    /\ hpc = "off" /\ host = Main /\ hi = 0 /\ hclean = TRUE

\* A thread can run while the process lives and no handler sits on top of it.
Runs(p) == mpc # "exit" /\ ~(hpc \notin {"off", "done"} /\ host = p)

\* close(f): a descriptor that is not open is refused, nothing changes.
Closed(f) == [g \in Fds |-> IF g = f THEN NoConn ELSE fdtab[g]]

-----------------------------------------------------------------------------
(* Main: Worker_Init's loop, Worker_Add and Worker_ScheduleRun.            *)

MainGo(from, to) == Runs(Main) /\ mpc = from /\ mpc' = to

MainKeeps == UNCHANGED <<netVars, thrVars, sigVars>>

InitLoop ==
    /\ \/ mi < InitClient /\ MainGo("init", "add") /\ mi' = mi
       \/ mi >= InitClient /\ MainGo("init", "loop") /\ mi' = 0
    /\ mcall' = IF mi < InitClient THEN "init" ELSE "loop"
    /\ MainKeeps /\ UNCHANGED <<slotVars, msc, mreg, created, initLock, workersnum>>

\* Where Worker_Add returns to: Worker_Init's loop or the dispatch.
AddReturns ==
    /\ mpc' = IF mcall = "init" THEN "init" ELSE "give"
    /\ mi' = IF mcall = "init" THEN mi + 1 ELSE mi

AddCheck ==
    /\ Runs(Main) /\ mpc = "add" /\ ~freed
    /\ \/ flags[mi] = "RUNNING" /\ AddReturns
       \/ flags[mi] # "RUNNING" /\ mpc' = "lock" /\ mi' = mi
    /\ MainKeeps
    /\ UNCHANGED <<slotVars, msc, mcall, mreg, created, initLock, workersnum>>

AddLock ==
    /\ MainGo("lock", "flag") /\ ~freed
    /\ ~initLock /\ initLock' = TRUE
    /\ MainKeeps /\ UNCHANGED <<slotVars, mi, msc, mcall, mreg, created, workersnum>>

AddFlag ==
    /\ MainGo("flag", "create") /\ ~freed
    /\ flags' = [flags EXCEPT ![mi] = "INITED"]
    /\ MainKeeps
    /\ UNCHANGED <<mutex, cs, mi, msc, mcall, mreg, created, initLock, workersnum>>

\* pthread_create; its error is not looked at.
AddCreate ==
    /\ MainGo("create", "await") /\ ~freed
    /\ IF created < MaxThreads
       THEN /\ created' = created + 1
            /\ tpc' = [tpc EXCEPT ![created + 1] = "start"]
            /\ tslot' = [tslot EXCEPT ![created + 1] = mi]
       ELSE UNCHANGED <<created, tpc, tslot>>
    /\ UNCHANGED <<slotVars, netVars, sigVars, mi, msc, mcall, mreg, tfd,
                   treg, initLock, workersnum>>

\* The second lock of thread_init, released at once.
AddAwait ==
    /\ MainGo("await", "inc") /\ ~freed
    /\ ~initLock
    /\ MainKeeps
    /\ UNCHANGED <<slotVars, mi, msc, mcall, mreg, created, initLock, workersnum>>

\* workersnum++ is a read and a write.
AddInc ==
    /\ MainGo("inc", "incw") /\ mreg' = workersnum
    /\ MainKeeps
    /\ UNCHANGED <<slotVars, mi, msc, mcall, created, initLock, workersnum>>

AddIncWrite ==
    /\ Runs(Main) /\ mpc = "incw" /\ AddReturns
    /\ workersnum' = mreg + 1 /\ mreg' = 0
    /\ MainKeeps /\ UNCHANGED <<slotVars, msc, mcall, created, initLock>>

ScheduleLoop ==
    /\ \/ sched /\ MainGo("loop", "select")
       \/ ~sched /\ MainGo("loop", "exit")
    /\ MainKeeps
    /\ UNCHANGED <<slotVars, mi, msc, mcall, mreg, created, initLock, workersnum>>

\* select on the listening socket: a time-out or EINTR, or a connection waits.
ScheduleSelect ==
    /\ \/ MainGo("select", "loop")
       \/ MainGo("select", "accept") /\ pending # {}
    /\ MainKeeps
    /\ UNCHANGED <<slotVars, mi, msc, mcall, mreg, created, initLock, workersnum>>

\* accept takes the lowest free descriptor; out of descriptors it returns -1,
\* which is not looked at, and the connection stays where it was.
ScheduleAccept ==
    /\ MainGo("accept", "findIdle")
    /\ mi' = 0
    /\ LET free == {f \in Fds : fdtab[f] = NoConn}
       IN  IF free = {}
           THEN msc' = NoFd /\ UNCHANGED <<fdtab, pending>>
           ELSE \E f \in free, c \in pending :
                  /\ \A g \in free : f <= g
                  /\ msc' = f
                  /\ fdtab' = [fdtab EXCEPT ![f] = c]
                  /\ pending' = pending \ {c}
    /\ UNCHANGED <<slotVars, left, thrVars, sigVars, mcall, mreg, created,
                   initLock, workersnum>>

\* WORKER_ISSTATUS(status): the first slot, looked at one by one, that has it.
\* (X_Y is X with the bug Y: it is put in X's place to see a property fail.)
IsStatus(from, status, found, missing) ==
    /\ Runs(Main) /\ mpc = from /\ ~freed
    /\ \/ flags[mi] = status /\ mpc' = found /\ mi' = mi
       \/ flags[mi] # status /\ mi + 1 < MaxClient /\ mpc' = mpc /\ mi' = mi + 1
       \/ flags[mi] # status /\ mi + 1 >= MaxClient /\ mpc' = missing /\ mi' = 0
    /\ MainKeeps
    /\ UNCHANGED <<slotVars, msc, mcall, mreg, created, initLock, workersnum>>

ScheduleFindIdle == IsStatus("findIdle", "IDEL", "give", "findFree")

ScheduleFindFree_Detaching == IsStatus("findFree", "DETACHING", "add", "loop")

\* No slot at all: sc is neither handed over nor closed.
ScheduleFindFree == IsStatus("findFree", "DETACHED", "add", "loop")

ScheduleGive ==
    /\ MainGo("give", "post") /\ ~freed
    /\ cs' = [cs EXCEPT ![mi] = msc]
    /\ MainKeeps
    /\ UNCHANGED <<flags, mutex, mi, msc, mcall, mreg, created, initLock, workersnum>>

SchedulePost ==
    /\ MainGo("post", "loop") /\ ~freed
    /\ mutex' = [mutex EXCEPT ![mi] = FALSE]
    /\ MainKeeps
    /\ UNCHANGED <<flags, cs, mi, msc, mcall, mreg, created, initLock, workersnum>>

MainStep == \/ InitLoop \/ AddCheck \/ AddLock \/ AddFlag \/ AddCreate \/ AddAwait
            \/ AddInc \/ AddIncWrite \/ ScheduleLoop \/ ScheduleSelect
            \/ ScheduleAccept \/ ScheduleFindIdle \/ ScheduleFindFree
            \/ ScheduleGive \/ SchedulePost

-----------------------------------------------------------------------------
(* A worker thread t: worker() and do_work() on the slot tslot[t].         *)

Go(t, from, to) ==
    /\ Runs(t) /\ tpc[t] = from
    /\ tpc' = [tpc EXCEPT ![t] = to]

WorkerKeeps == UNCHANGED <<mainVars, sigVars, tslot>>

WorkerStart(t) ==
    /\ Go(t, "start", "born") /\ ~freed
    /\ initLock' = FALSE
    /\ WorkerKeeps /\ UNCHANGED <<slotVars, netVars, tfd, treg, workersnum>>

SetFlags(t, from, to, status) ==
    /\ Go(t, from, to) /\ ~freed
    /\ flags' = [flags EXCEPT ![tslot[t]] = status]
    /\ WorkerKeeps
    /\ UNCHANGED <<mutex, cs, netVars, tfd, treg, initLock, workersnum>>

WorkerBorn(t) == SetFlags(t, "born", "top", "IDEL")

WorkerTop(t) ==
    /\ ~freed
    /\ \/ flags[tslot[t]] = "DETACHING" /\ Go(t, "top", "detach")
       \/ flags[tslot[t]] # "DETACHING" /\ Go(t, "top", "try")
    /\ WorkerKeeps
    /\ UNCHANGED <<slotVars, netVars, tfd, treg, initLock, workersnum>>

\* pthread_mutex_trylock: a locked mutex sends the thread to sleep and around.
WorkerTry(t) ==
    /\ ~freed
    /\ \/ mutex[tslot[t]] /\ Go(t, "try", "top")
       \/ ~mutex[tslot[t]] /\ Go(t, "try", "run")
    /\ mutex' = [mutex EXCEPT ![tslot[t]] = TRUE]
    /\ WorkerKeeps
    /\ UNCHANGED <<flags, cs, netVars, tfd, treg, initLock, workersnum>>

WorkerRun(t) == SetFlags(t, "run", "fetch", "RUNNING")

WorkFetch(t) ==
    /\ Go(t, "fetch", "select") /\ ~freed
    /\ tfd' = [tfd EXCEPT ![t] = cs[tslot[t]]]
    /\ WorkerKeeps
    /\ UNCHANGED <<slotVars, netVars, treg, initLock, workersnum>>

WorkSelect_StartsOver(t) ==
    /\ \/ /\ tfd[t] \in Fds /\ fdtab[tfd[t]] # NoConn
          /\ Go(t, "select", "read")
       \/ Go(t, "select", "fetch")
    /\ WorkerKeeps
    /\ UNCHANGED <<slotVars, netVars, tfd, treg, initLock, workersnum>>

\* select: ready only on an open descriptor; an error (the number is not open)
\* or a time-out closes fd and ends the task.
WorkSelect(t) ==
    /\ \/ /\ tfd[t] \in Fds /\ fdtab[tfd[t]] # NoConn
          /\ Go(t, "select", "read") /\ UNCHANGED fdtab
       \/ Go(t, "select", "close") /\ fdtab' = Closed(tfd[t])
    /\ WorkerKeeps
    /\ UNCHANGED <<slotVars, pending, left, tfd, treg, initLock, workersnum>>

\* read from conn.cs, which is read again here: a request of the connection it
\* stands for now, or nothing, which closes fd and ends the task.
WorkRead(t) ==
    /\ ~freed
    /\ \/ \E c \in Conns :
            /\ cs[tslot[t]] \in Fds /\ fdtab[cs[tslot[t]]] = c /\ left[c] > 0
            /\ Go(t, "read", "handle")
            /\ left' = [left EXCEPT ![c] = @ - 1]
            /\ UNCHANGED fdtab
       \/ Go(t, "read", "close") /\ fdtab' = Closed(tfd[t]) /\ UNCHANGED left
    /\ WorkerKeeps
    /\ UNCHANGED <<slotVars, pending, tfd, treg, initLock, workersnum>>

\* Request_Parse and Request_Handle: the answer is written to conn.cs.
WorkHandle(t) ==
    /\ Go(t, "handle", "select") /\ ~freed
    /\ WorkerKeeps
    /\ UNCHANGED <<slotVars, netVars, tfd, treg, initLock, workersnum>>

WorkerClose(t) ==
    /\ Go(t, "close", "clear") /\ ~freed
    /\ fdtab' = Closed(cs[tslot[t]])
    /\ tfd' = [tfd EXCEPT ![t] = NoFd]
    /\ WorkerKeeps
    /\ UNCHANGED <<slotVars, pending, left, treg, initLock, workersnum>>

WorkerClear(t) ==
    /\ Go(t, "clear", "check") /\ ~freed
    /\ cs' = [cs EXCEPT ![tslot[t]] = NoFd]
    /\ WorkerKeeps
    /\ UNCHANGED <<flags, mutex, netVars, tfd, treg, initLock, workersnum>>

WorkerCheck_NotIdle(t) ==
    /\ Go(t, "check", IF flags[tslot[t]] = "IDEL" THEN "back" ELSE "detach") /\ ~freed
    /\ WorkerKeeps
    /\ UNCHANGED <<slotVars, netVars, tfd, treg, initLock, workersnum>>

WorkerCheck(t) ==
    /\ ~freed
    /\ \/ flags[tslot[t]] = "DETACHING" /\ Go(t, "check", "detach")
       \/ flags[tslot[t]] # "DETACHING" /\ Go(t, "check", "back")
    /\ WorkerKeeps
    /\ UNCHANGED <<slotVars, netVars, tfd, treg, initLock, workersnum>>

WorkerBack_StaysRunning(t) == SetFlags(t, "back", "top", "RUNNING")

WorkerBack(t) == SetFlags(t, "back", "top", "IDEL")

WorkerDetach_NoStatus(t) == SetFlags(t, "detach", "dec", "DETACHING")

WorkerDetach(t) == SetFlags(t, "detach", "dec", "DETACHED")

\* workersnum-- is a read and a write.
WorkerDec(t) ==
    /\ Go(t, "dec", "decw")
    /\ treg' = [treg EXCEPT ![t] = workersnum]
    /\ WorkerKeeps
    /\ UNCHANGED <<slotVars, netVars, tfd, initLock, workersnum>>

WorkerDecWrite(t) ==
    /\ Go(t, "decw", "gone")
    /\ workersnum' = treg[t] - 1
    /\ treg' = [treg EXCEPT ![t] = 0]
    /\ WorkerKeeps /\ UNCHANGED <<slotVars, netVars, tfd, initLock>>

WorkerStep(t) ==
    \/ WorkerStart(t) \/ WorkerBorn(t) \/ WorkerTop(t) \/ WorkerTry(t)
    \/ WorkerRun(t) \/ WorkFetch(t) \/ WorkSelect(t) \/ WorkRead(t)
    \/ WorkHandle(t) \/ WorkerClose(t) \/ WorkerClear(t) \/ WorkerCheck(t)
    \/ WorkerBack(t) \/ WorkerDetach(t) \/ WorkerDec(t) \/ WorkerDecWrite(t)

-----------------------------------------------------------------------------
(* sig_int: Worker_ScheduleStop, with Worker_Destory, on the thread host.  *)

SigKeeps == UNCHANGED <<netVars, mainVars, thrVars, mutex, cs, initLock, workersnum>>

SigGo(from, to) == mpc # "exit" /\ hpc = from /\ hpc' = to

\* SIGINT comes once, to a thread that exists; its first step stops the schedule.
SigDeliver ==
    /\ SigGo("off", "stop")
    /\ \E p \in SigHosts :
         /\ p # Main => tpc[p] \notin {"none", "gone"}
         /\ host' = p
    /\ SigKeeps /\ UNCHANGED <<flags, hi, hclean, sched, freed>>

StopSchedule ==
    /\ SigGo("stop", "order")
    /\ sched' = FALSE /\ hi' = 0
    /\ SigKeeps /\ UNCHANGED <<flags, host, hclean, freed>>

\* The first loop of Worker_Destory: look at a slot, then write DETACHING.
DestroyLook ==
    /\ \/ hi \in Slots /\ flags[hi] # "DETACHED" /\ SigGo("order", "write") /\ hi' = hi
       \/ hi \in Slots /\ flags[hi] = "DETACHED" /\ SigGo("order", "order") /\ hi' = hi + 1
       \/ hi = MaxClient /\ SigGo("order", "drain") /\ hi' = 0
    /\ hclean' = TRUE
    /\ SigKeeps /\ UNCHANGED <<flags, host, sched, freed>>

WorkerDelete ==
    /\ SigGo("write", "order")
    /\ flags' = [flags EXCEPT ![hi] = "DETACHING"]
    /\ hi' = hi + 1
    /\ SigKeeps /\ UNCHANGED <<host, hclean, sched, freed>>

\* A pass over the slots that is clean when none has a status of dirty; a pass
\* that is not clean is made again.
Pass(at, dirty, then) ==
    /\ \/ /\ hi \in Slots /\ SigGo(at, at) /\ hi' = hi + 1
          /\ hclean' = IF flags[hi] \in dirty THEN FALSE ELSE hclean
       \/ hi = MaxClient /\ ~hclean /\ SigGo(at, at) /\ hclean' = TRUE /\ hi' = 0
       \/ hi = MaxClient /\ hclean /\ SigGo(at, then) /\ hclean' = TRUE /\ hi' = 0
    /\ SigKeeps /\ UNCHANGED <<flags, host, sched, freed>>

DestroyDrain == Pass("drain", {"RUNNING", "DETACHING"}, "fired")

StopFired == Pass("fired", {"DETACHING", "IDEL"}, "free")

StopFree ==
    /\ SigGo("free", "done")
    /\ freed' = TRUE
    /\ SigKeeps /\ UNCHANGED <<flags, host, hi, hclean, sched>>

SigStep == \/ StopSchedule \/ DestroyLook \/ WorkerDelete \/ DestroyDrain
           \/ StopFired \/ StopFree

-----------------------------------------------------------------------------
Next == MainStep \/ (\E t \in Threads : WorkerStep(t)) \/ SigDeliver \/ SigStep

Spec == Init /\ [][Next]_vars

\* Every thread that can run is scheduled; nothing makes SIGINT come.
Fairness == /\ WF_vars(MainStep)
            /\ \A t \in Threads : WF_vars(WorkerStep(t))
            /\ WF_vars(SigStep)

FairSpec == Spec /\ Fairness

-----------------------------------------------------------------------------
Starting(t) == tpc[t] \in {"start", "born"}
Waiting(t)  == tpc[t] \in {"top", "try", "run"}
Serving(t)  == tpc[t] \in {"fetch", "select", "read", "handle", "close", "clear",
                           "check", "back"}
Live(t)     == Starting(t) \/ Waiting(t) \/ Serving(t) \/ tpc[t] = "detach"

On(i) == {t \in Threads : tslot[t] = i}

(* The program points that touch wctls or thread_init.                     *)
MainTouches == mpc \in {"add", "lock", "flag", "create", "await", "findIdle",
                        "findFree", "give", "post"}
WorkerTouches(t) == Live(t) /\ tpc[t] # "select"

(***************************************************************************)
(* A slot never has two threads, from pthread_create until the thread has  *)
(* written WORKER_DETACHED: Worker_Add is only ever run on a slot that     *)
(* nothing uses, whatever the SIGINT handler does to flags meanwhile.      *)
(***************************************************************************)
OneThreadPerSlot ==
    \A t, u \in Threads : Live(t) /\ Live(u) /\ tslot[t] = tslot[u] => t = u

(***************************************************************************)
(* opts.flags tells the truth about the slot's thread, unless an order to  *)
(* leave hides it: DETACHED means no thread, RUNNING one that serves, IDEL *)
(* one that waits, INITED one being made.  Worker_Destory and the          *)
(* dispatcher decide by flags alone.                                       *)
(***************************************************************************)
StatusTruthful ==
    \A i \in Slots :
      /\ flags[i] = "DETACHED" => \A t \in On(i) : ~Live(t)
      /\ flags[i] = "RUNNING" => \E t \in On(i) : Serving(t)
      /\ flags[i] = "IDEL" => \E t \in On(i) : Waiting(t)
      /\ flags[i] = "INITED" => \/ \E t \in On(i) : Starting(t)
                                \/ mpc \in {"create", "await"} /\ mi = i

(***************************************************************************)
(* Worker_Add goes past its second lock of thread_init only when the       *)
(* thread it made for this very slot runs: the hand-shake of the two locks *)
(* and the worker's unlock.                                                *)
(***************************************************************************)
HandshakeDone ==
    mpc \in {"inc", "incw"} =>
      \E t \in Threads : t = created /\ tslot[t] = mi /\ tpc[t] \notin {"none", "start"}

(***************************************************************************)
(* A thread leaves its slot only on an order, and only once the schedule   *)
(* has been told to stop: until then the pool never shrinks.               *)
(***************************************************************************)
LeavesOnlyOnOrder ==
    [][\A i \in Slots : flags[i] # "DETACHED" /\ flags'[i] = "DETACHED"
          => flags[i] = "DETACHING" /\ ~sched]_vars

(***************************************************************************)
(* A connection never stays in a slot for ever: it is closed, or, since    *)
(* the dispatcher decides by flags alone, overwritten in its slot.         *)
(***************************************************************************)
HeldIsClosed ==
    \A i \in Slots, f \in Fds, c \in Conns :
      (cs[i] = f /\ fdtab[f] = c) ~> (fdtab[f] # c \/ cs[i] # f)

(***************************************************************************)
(* Every way in which a stop can fail to end the process.                  *)
(***************************************************************************)
OrderLost == \E i \in Slots : hpc \in {"drain", "fired"} /\ flags[i] = "IDEL"
ThreadNeverMade == /\ hpc = "drain" /\ host = Main
                   /\ mpc = "create" /\ flags[mi] = "DETACHING"
NewThreadHoldsInit == /\ host # Main /\ mpc \in {"lock", "await"}
                      /\ tpc[host] = "start"
UseAfterFree == freed /\ (MainTouches \/ \E t \in Threads : WorkerTouches(t))

(***************************************************************************)
(* After SIGINT the process exits, or one of four known things happened:   *)
(* a worker overwrote its order to leave, the handler interrupted          *)
(* Worker_Add before its thread existed, it interrupted the new thread     *)
(* before it released thread_init, or wctls was freed under a thread.      *)
(***************************************************************************)
StopEndsOrKnownHang ==
    (hpc = "stop") ~> \/ mpc = "exit" \/ OrderLost \/ ThreadNeverMade
                      \/ NewThreadHoldsInit \/ UseAfterFree

-----------------------------------------------------------------------------
(* The inductive invariant behind the safety properties.                   *)

\* Thread ids are given in order and not given twice.
ThreadIds == \A t \in Threads : tpc[t] = "none" <=> t > created

\* A thread and the flags of its slot agree, or an order to leave hides it.
Agree(t) ==
    /\ flags[tslot[t]] # "DETACHED"
    /\ flags[tslot[t]] = "INITED" => Starting(t)
    /\ flags[tslot[t]] = "IDEL" => Waiting(t)
    /\ flags[tslot[t]] = "RUNNING" => Serving(t)
    /\ tpc[t] = "detach" => flags[tslot[t]] = "DETACHING"
FlagsAgree == \A t \in Threads : Live(t) => Agree(t)

\* A slot whose flags tell of a thread has one, or Main is making it.
HasThread ==
    \A i \in Slots : flags[i] \in {"INITED", "IDEL", "RUNNING"} =>
      \/ \E t \in On(i) : Live(t)
      \/ mi = i /\ flags[i] = "INITED" /\ (mpc = "create" \/ (mpc = "await" /\ initLock))

\* The slots the handler has not come to yet carry no order, and the one it
\* is about to write to has not become free since it looked.
NotYetOrdered(i) == hpc \in {"off", "stop"} \/ (hpc \in {"order", "write"} /\ hi <= i)
OrdersInTurn ==
    /\ \A i \in Slots : NotYetOrdered(i) => flags[i] # "DETACHING"
    /\ hpc = "write" => flags[hi] # "DETACHED"
    /\ hpc \notin {"off", "stop"} => ~sched

\* Main makes threads on free slots only, and Worker_Init on fresh ones.
MakesOnFree ==
    /\ mpc \in {"add", "lock", "flag"} => flags[mi] = "DETACHED"
    /\ mpc = "create" => flags[mi] # "DETACHED" /\ \A t \in On(mi) : ~Live(t)
    /\ mpc = "init" => mcall = "init"
    /\ mcall = "init" => mpc \in {"init", "add", "lock", "flag", "create", "await", "inc", "incw"}
    /\ mcall = "init" =>
         \A i \in Slots : (i > mi \/ (mpc = "init" /\ i = mi)) => flags[i] = "DETACHED"

\* thread_init: held from Worker_Add's first lock until its thread starts.
InitLockHeld ==
    /\ mpc \in {"flag", "create"} => initLock
    /\ \A t \in Threads : tpc[t] = "start" =>
          initLock /\ mpc = "await" /\ t = created /\ tslot[t] = mi
    /\ (mpc = "await" /\ ~initLock) \/ mpc \in {"inc", "incw"} =>
         created \in Threads /\ tslot[created] = mi /\ tpc[created] \notin {"none", "start"}

PoolInv == /\ ThreadIds /\ OneThreadPerSlot /\ FlagsAgree /\ HasThread
           /\ OrdersInTurn /\ MakesOnFree /\ InitLockHeld

\* Until the stop no thread has left its slot, and one waits for the work that
\* the dispatcher hands over.
HandoverInv ==
    sched => /\ \A t \in Threads : tpc[t] \notin {"detach", "dec", "decw", "gone"}
             /\ mpc \in {"give", "post"} => \E t \in On(mi) : Live(t)

-----------------------------------------------------------------------------
(* The abstract slot that the pool implements.                             *)

\* What a thread at program point pc does for its slot.
RoleOf(pc) ==
    CASE pc \in {"start", "born"} -> "starting"
      [] pc \in {"top", "try"} -> "waiting"
      [] pc = "detach" -> "leaving"
      [] pc \in {"none", "dec", "decw", "gone"} -> "free"
      [] OTHER -> "serving"

PhaseOf(i) == IF \E t \in On(i) : Live(t)
              THEN RoleOf(tpc[CHOOSE t \in On(i) : Live(t)])
              ELSE "free"
Phases == [i \in Slots |-> PhaseOf(i)]

\* One thread makes the phase of its slot, and no thread leaves it free.
PhaseKnown ==
    /\ \A t \in Threads : Live(t) => PhaseOf(tslot[t]) = RoleOf(tpc[t])
    /\ \A i \in Slots : (\A t \in On(i) : ~Live(t)) => PhaseOf(i) = "free"

\* A hand-over unlocks the mutex of the slot, taking it locks it again.
HandedOver == [i \in Slots |-> ~mutex[i]]

Life == INSTANCE SlotLife WITH phase <- Phases, work <- HandedOver, stopping <- ~sched

(***************************************************************************)
(* Each slot lives as SlotLife says: a thread serves only what was handed  *)
(* over, and once; before the stop no thread leaves its slot, and          *)
(* Worker_ScheduleRun posts only to slots that have a thread, although it  *)
(* chose the slot by flags and posts some steps later.                     *)
(***************************************************************************)
SlotsLive == Life!Spec
===============================================================================
