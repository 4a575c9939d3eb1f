--------------------------- MODULE WorkerPoolProofs ---------------------------
(***************************************************************************)
(* Proofs about WorkerPool, for any number of slots, threads, descriptors, *)
(* connections and requests, and with SIGINT delivered to any thread.      *)
(***************************************************************************)
EXTENDS WorkerPool, TLAPS

USE DEF Main, NoFd

-----------------------------------------------------------------------------
(* Types.                                                                  *)

(***************************************************************************)
(* A pass of the handler over the slots keeps its index within wctls.      *)
(***************************************************************************)
LEMMA PassType ==
    ASSUME TypeOK, NEW at \in SigPC \ {"write"}, NEW then \in SigPC \ {"write"},
           NEW dirty, Pass(at, dirty, then)
    PROVE  SigType'
<1> USE DEF TypeOK, SigType
<1>1. hpc' \in SigPC /\ hpc' # "write" /\ host' \in 0..MaxThreads
  BY DEF Pass, SigGo
<1>2. hclean' \in BOOLEAN
  BY DEF Pass
<1>3. (hi' = hi + 1 /\ hi \in Slots) \/ hi' = 0
  BY DEF Pass
<1>4. hi' \in 0..MaxClient
  BY <1>3, PoolAssumption DEF Slots
<1>5. sched' \in BOOLEAN /\ freed' \in BOOLEAN
  BY DEF Pass
<1>q. QED  BY <1>1, <1>2, <1>4, <1>5

(***************************************************************************)
(* Reading a request: the count of requests left stays in range.           *)
(***************************************************************************)
LEMMA ReadType ==
    ASSUME TypeOK, NEW t \in Threads, WorkRead(t)
    PROVE  NetType' /\ ThreadType'
<1> USE DEF TypeOK, NetType, ThreadType
<1>1. left' \in [Conns -> 0..MaxRequests]
  <2>1. CASE UNCHANGED left
    BY <2>1
  <2>2. ASSUME NEW c \in Conns, left[c] > 0, left' = [left EXCEPT ![c] = @ - 1]
        PROVE  left' \in [Conns -> 0..MaxRequests]
    BY <2>2, PoolAssumption
  <2>q. QED  BY <2>1, <2>2 DEF WorkRead
<1>2. NetType'
  BY <1>1 DEF WorkRead, Closed
<1>3. ThreadType'
  BY DEF WorkRead, WorkerKeeps, Go, WorkerPC
<1>q. QED  BY <1>2, <1>3

(***************************************************************************)
(* Every variable keeps its type: the indices the code computes (i of the  *)
(* dispatcher, of WORKER_ISSTATUS and of the handler) stay inside wctls    *)
(* whenever they are used as an index.                                     *)
(***************************************************************************)
THEOREM TypeCorrect == Spec => []TypeOK
<1> USE PoolAssumption
    DEF SlotType, NetType, MainType, ThreadType, SigType, Slots, Status,
        MainPC, WorkerPC, SigPC
<1>1. Init => TypeOK
  <2> SUFFICES ASSUME Init PROVE TypeOK
    OBVIOUS
  <2>1. SlotType /\ NetType
    BY DEF Init
  <2>2. MainType
    BY DEF Init
  <2>3. SigType
    <3>1. 0 \in 0..MaxClient /\ 0 \in 0..MaxThreads
      OBVIOUS
    <3>q. QED  BY <3>1 DEF Init
  <2>4. 0 \in Slots
    OBVIOUS
  <2>5. ThreadType
    BY <2>4 DEF Init
  <2>q. QED  BY <2>1, <2>2, <2>3, <2>5 DEF Init, TypeOK
<1>2. TypeOK /\ [Next]_vars => TypeOK'
  <2> SUFFICES ASSUME TypeOK, [Next]_vars PROVE TypeOK'
    OBVIOUS
  <2> USE DEF TypeOK, slotVars, netVars, mainVars, thrVars, sigVars
  <2>1. CASE MainStep
    <3> USE DEF MainKeeps, Threads
    <3>1. CASE InitLoop
      BY <3>1 DEF InitLoop, MainGo
    <3>2. CASE AddCheck
      BY <3>2 DEF AddCheck, AddReturns
    <3>3. CASE AddLock
      BY <3>3 DEF AddLock, MainGo
    <3>4. CASE AddFlag
      BY <3>4 DEF AddFlag, MainGo
    <3>5. CASE AddCreate
      <4>1. created < MaxThreads => created + 1 \in Threads
        BY DEF Threads
      <4>2. ThreadType'
        <5>1. mi \in Slots
          BY <3>5 DEF AddCreate, MainGo
        <5>2. UNCHANGED <<tfd, treg>>
          BY <3>5 DEF AddCreate
        <5>3. tpc' \in [Threads -> WorkerPC] /\ tslot' \in [Threads -> Slots]
          BY <3>5, <4>1, <5>1 DEF AddCreate
        <5>q. QED  BY <5>2, <5>3
      <4>3. MainType'
        <5>1. created' \in 0..MaxThreads
          BY <3>5 DEF AddCreate
        <5>2. mpc = "create" /\ mpc' = "await" /\ UNCHANGED <<mi, msc, mcall, mreg>>
          BY <3>5 DEF AddCreate, MainGo
        <5>q. QED  BY <5>1, <5>2
      <4>4. SlotType' /\ NetType' /\ SigType' /\ UNCHANGED <<initLock, workersnum>>
        BY <3>5 DEF AddCreate
      <4>q. QED  BY <4>2, <4>3, <4>4
    <3>6. CASE AddAwait
      BY <3>6 DEF AddAwait, MainGo
    <3>7. CASE AddInc
      <4>1. /\ mpc = "inc" /\ mpc' = "incw" /\ mreg' = workersnum
            /\ UNCHANGED <<slotVars, netVars, thrVars, sigVars>>
            /\ UNCHANGED <<mi, msc, mcall, created, initLock, workersnum>>
        BY <3>7 DEF AddInc, MainGo
      <4>2. MainType'
        BY <4>1
      <4>3. SlotType' /\ NetType'
        BY <4>1
      <4>4. ThreadType' /\ SigType'
        BY <4>1
      <4>q. QED  BY <4>1, <4>2, <4>3, <4>4
    <3>8. CASE AddIncWrite
      <4>1. /\ mpc = "incw" /\ mreg' = 0 /\ workersnum' = mreg + 1
            /\ UNCHANGED <<slotVars, netVars, thrVars, sigVars>>
            /\ UNCHANGED <<msc, mcall, created, initLock>>
            /\ mpc' = (IF mcall = "init" THEN "init" ELSE "give")
            /\ mi' = (IF mcall = "init" THEN mi + 1 ELSE mi)
        BY <3>8 DEF AddIncWrite, AddReturns
      <4>2. MainType'
        <5>1. mi \in Slots
          BY <4>1
        <5>2. mi' \in 0..MaxClient
          BY <4>1, <5>1
        <5>q. QED  BY <4>1, <5>1, <5>2
      <4>3. SlotType' /\ NetType'
        BY <4>1
      <4>4. ThreadType' /\ SigType'
        BY <4>1
      <4>q. QED  BY <4>1, <4>2, <4>3, <4>4
    <3>9. CASE ScheduleLoop
      BY <3>9 DEF ScheduleLoop, MainGo
    <3>10. CASE ScheduleSelect
      BY <3>10 DEF ScheduleSelect, MainGo
    <3>11. CASE ScheduleAccept
      <4>1. SlotType' /\ NetType'
        BY <3>11 DEF ScheduleAccept, MainGo
      <4>2. MainType' /\ ThreadType'
        BY <3>11 DEF ScheduleAccept, MainGo
      <4>3. SigType'
        BY <3>11 DEF ScheduleAccept, MainGo
      <4>q. QED  BY <3>11, <4>1, <4>2, <4>3 DEF ScheduleAccept, MainGo
    <3>12. CASE ScheduleFindIdle
      BY <3>12 DEF ScheduleFindIdle, IsStatus
    <3>13. CASE ScheduleFindFree
      BY <3>13 DEF ScheduleFindFree, IsStatus
    <3>14. CASE ScheduleGive
      BY <3>14 DEF ScheduleGive, MainGo
    <3>15. CASE SchedulePost
      BY <3>15 DEF SchedulePost, MainGo
    <3>q. QED  BY <2>1, <3>1, <3>2, <3>3, <3>4, <3>5, <3>6, <3>7, <3>8, <3>9,
             <3>10, <3>11, <3>12, <3>13, <3>14, <3>15 DEF MainStep
  <2>2. ASSUME NEW t \in Threads, WorkerStep(t) PROVE TypeOK'
    <3> USE DEF WorkerKeeps, Go
    <3>1. CASE WorkerStart(t)
      <4>1. SlotType' /\ NetType'
        BY <3>1 DEF WorkerStart
      <4>2. MainType' /\ ThreadType'
        BY <3>1 DEF WorkerStart
      <4>3. SigType'
        BY <3>1 DEF WorkerStart
      <4>q. QED  BY <3>1, <4>1, <4>2, <4>3 DEF WorkerStart
    <3>2. CASE WorkerBorn(t)
      BY <3>2 DEF WorkerBorn, SetFlags
    <3>3. CASE WorkerTop(t)
      <4>1. SlotType' /\ NetType'
        BY <3>3 DEF WorkerTop
      <4>2. MainType' /\ ThreadType'
        BY <3>3 DEF WorkerTop
      <4>3. SigType'
        BY <3>3 DEF WorkerTop
      <4>q. QED  BY <3>3, <4>1, <4>2, <4>3 DEF WorkerTop
    <3>4. CASE WorkerTry(t)
      <4>1. SlotType' /\ NetType'
        BY <3>4 DEF WorkerTry
      <4>2. MainType' /\ ThreadType'
        BY <3>4 DEF WorkerTry
      <4>3. SigType'
        BY <3>4 DEF WorkerTry
      <4>q. QED  BY <3>4, <4>1, <4>2, <4>3 DEF WorkerTry
    <3>5. CASE WorkerRun(t)
      BY <3>5 DEF WorkerRun, SetFlags
    <3>6. CASE WorkFetch(t)
      BY <3>6 DEF WorkFetch
    <3>7. CASE WorkSelect(t)
      <4>1. SlotType' /\ NetType'
        BY <3>7 DEF WorkSelect, Closed
      <4>2. MainType' /\ ThreadType'
        BY <3>7 DEF WorkSelect, Closed
      <4>3. SigType'
        BY <3>7 DEF WorkSelect, Closed
      <4>q. QED  BY <3>7, <4>1, <4>2, <4>3 DEF WorkSelect, Closed
    <3>8. CASE WorkRead(t)
      <4>1. MainType' /\ SigType' /\ SlotType'
        BY <3>8 DEF WorkRead
      <4>q. QED  BY <3>8, <4>1, ReadType DEF WorkRead
    <3>9. CASE WorkHandle(t)
      BY <3>9 DEF WorkHandle
    <3>10. CASE WorkerClose(t)
      BY <3>10 DEF WorkerClose, Closed
    <3>11. CASE WorkerClear(t)
      BY <3>11 DEF WorkerClear
    <3>12. CASE WorkerCheck(t)
      <4>1. SlotType' /\ NetType'
        BY <3>12 DEF WorkerCheck
      <4>2. MainType' /\ ThreadType'
        BY <3>12 DEF WorkerCheck
      <4>3. SigType'
        BY <3>12 DEF WorkerCheck
      <4>q. QED  BY <3>12, <4>1, <4>2, <4>3 DEF WorkerCheck
    <3>13. CASE WorkerBack(t)
      BY <3>13 DEF WorkerBack, SetFlags
    <3>14. CASE WorkerDetach(t)
      BY <3>14 DEF WorkerDetach, SetFlags
    <3>15. CASE WorkerDec(t)
      <4>1. SlotType' /\ NetType'
        BY <3>15 DEF WorkerDec
      <4>2. MainType' /\ ThreadType'
        BY <3>15 DEF WorkerDec
      <4>3. SigType'
        BY <3>15 DEF WorkerDec
      <4>q. QED  BY <3>15, <4>1, <4>2, <4>3 DEF WorkerDec
    <3>16. CASE WorkerDecWrite(t)
      <4>1. SlotType' /\ NetType'
        BY <3>16 DEF WorkerDecWrite
      <4>2. MainType' /\ ThreadType'
        BY <3>16 DEF WorkerDecWrite
      <4>3. SigType'
        BY <3>16 DEF WorkerDecWrite
      <4>q. QED  BY <3>16, <4>1, <4>2, <4>3 DEF WorkerDecWrite
    <3>q. QED  BY <2>2, <3>1, <3>2, <3>3, <3>4, <3>5, <3>6, <3>7, <3>8, <3>9,
             <3>10, <3>11, <3>12, <3>13, <3>14, <3>15, <3>16 DEF WorkerStep
  <2>3. CASE SigDeliver
    BY <2>3 DEF SigDeliver, SigKeeps, SigGo
  <2>4. CASE SigStep
    <3> USE DEF SigKeeps
    <3>1. CASE StopSchedule
      <4>1. hpc' \in SigPC /\ host' \in 0..MaxThreads /\ hclean' \in BOOLEAN
        BY <3>1 DEF StopSchedule, SigGo
      <4>2. hi' \in 0..MaxClient /\ hpc' # "write"
        BY <3>1 DEF StopSchedule, SigGo
      <4>3. SigType'
        BY <3>1, <4>1, <4>2 DEF StopSchedule
      <4>q. QED  BY <3>1, <4>3 DEF StopSchedule, SigGo
    <3>2. CASE DestroyLook
      BY <3>2 DEF DestroyLook, SigGo
    <3>3. CASE WorkerDelete
      BY <3>3 DEF WorkerDelete, SigGo
    <3>4. CASE DestroyDrain
      <4>1. SigType'
        BY <3>4, PassType DEF DestroyDrain
      <4>q. QED  BY <3>4, <4>1 DEF DestroyDrain, Pass
    <3>5. CASE StopFired
      <4>1. SigType'
        BY <3>5, PassType DEF StopFired
      <4>q. QED  BY <3>5, <4>1 DEF StopFired, Pass
    <3>6. CASE StopFree
      BY <3>6 DEF StopFree, SigGo
    <3>q. QED  BY <2>4, <3>1, <3>2, <3>3, <3>4, <3>5, <3>6 DEF SigStep
  <2>5. CASE UNCHANGED vars
    BY <2>5 DEF vars
  <2>q. QED  BY <2>1, <2>2, <2>3, <2>4, <2>5 DEF Next
<1>q. QED  BY <1>1, <1>2, PTL DEF Spec

-----------------------------------------------------------------------------
(* The inductive invariant.                                                *)

(***************************************************************************)
(* A worker that only moves to another program point - among those where   *)
(* it waits, among those where it serves, out on an order, or once it has  *)
(* left its slot - keeps the invariant.                                    *)
(***************************************************************************)
LEMMA MoveKeepsInv ==
    ASSUME TypeOK, PoolInv, NEW t \in Threads, NEW to \in WorkerPC,
           tpc' = [tpc EXCEPT ![t] = to],
           UNCHANGED <<flags, initLock, mainVars, sigVars, tslot>>,
           \/ Waiting(t) /\ to \in {"top", "try", "run"}
           \/ Serving(t) /\ to \in {"select", "read", "handle", "close", "clear",
                                    "check", "back"}
           \/ /\ Waiting(t) \/ Serving(t)
              /\ to = "detach" /\ flags[tslot[t]] = "DETACHING"
           \/ tpc[t] \in {"dec", "decw"} /\ to \in {"decw", "gone"}
    PROVE  PoolInv'
<1> USE DEF TypeOK, SlotType, MainType, ThreadType, SigType, PoolInv, mainVars,
            sigVars, On, Live, Starting, Waiting, Serving
<1>1. ThreadIds' /\ InitLockHeld'
  BY DEF ThreadIds, InitLockHeld
<1>2. OneThreadPerSlot'
  BY DEF OneThreadPerSlot
<1>3. FlagsAgree'
  BY DEF FlagsAgree, Agree
<1>4. HasThread'
  BY DEF HasThread, FlagsAgree, Agree
<1>5. OrdersInTurn' /\ MakesOnFree'
  BY DEF OrdersInTurn, MakesOnFree, NotYetOrdered
<1>q. QED  BY <1>1, <1>2, <1>3, <1>4, <1>5

(***************************************************************************)
(* A worker that writes opts.flags of its slot.                            *)
(***************************************************************************)
LEMMA FlagsStepKeepsInv ==
    ASSUME TypeOK, PoolInv, NEW t \in Threads,
           WorkerBorn(t) \/ WorkerRun(t) \/ WorkerBack(t) \/ WorkerDetach(t)
    PROVE  PoolInv'
<1> USE DEF TypeOK, SlotType, MainType, ThreadType, SigType, PoolInv, mainVars,
            sigVars, On, Live, Starting, Waiting, Serving, WorkerBorn, WorkerRun,
            WorkerBack, WorkerDetach, SetFlags, Go, WorkerKeeps, netVars
<1>1. ThreadIds' /\ InitLockHeld'
  BY DEF ThreadIds, InitLockHeld
<1>2. OneThreadPerSlot'
  BY DEF OneThreadPerSlot
<1>3. FlagsAgree'
  BY DEF FlagsAgree, Agree, OneThreadPerSlot
<1>4. HasThread'
  BY DEF HasThread
<1>5. OrdersInTurn'
  BY DEF OrdersInTurn, NotYetOrdered, FlagsAgree, Agree
<1>6. MakesOnFree'
  BY DEF MakesOnFree, FlagsAgree, Agree
<1>q. QED  BY <1>1, <1>2, <1>3, <1>4, <1>5, <1>6

(***************************************************************************)
(* pthread_create: the slot has no thread yet, so the new one is alone.    *)
(***************************************************************************)
LEMMA CreateKeepsInv == TypeOK /\ PoolInv /\ AddCreate => PoolInv'
<1> SUFFICES ASSUME TypeOK, PoolInv, AddCreate PROVE PoolInv'
  OBVIOUS
<1> USE PoolAssumption
    DEF TypeOK, SlotType, MainType, ThreadType, SigType, PoolInv, sigVars, On,
        AddCreate, MainGo, slotVars, Live, Starting, Waiting, Serving
<1>1. created < MaxThreads => created + 1 \in Threads
  BY DEF Threads
<1>2. \A t \in Threads : tslot[t] = mi => ~Live(t)
  BY DEF MakesOnFree
<1>3. \A t \in Threads : t # created + 1 => tpc'[t] = tpc[t] /\ tslot'[t] = tslot[t]
  BY <1>1
<1>4. \A t \in Threads : Live(t)' => Live(t) \/ (t = created + 1 /\ tslot'[t] = mi)
  BY <1>1, <1>3
<1>5. ThreadIds'
  BY <1>1 DEF ThreadIds, Threads
<1>6. created < MaxThreads => tpc[created + 1] = "none"
  BY <1>1 DEF ThreadIds, Threads
<1>7. OneThreadPerSlot'
  BY <1>2, <1>3, <1>4, <1>6 DEF OneThreadPerSlot
<1>8. flags[mi] \in {"INITED", "DETACHING"}
  BY <1>2 DEF MakesOnFree, HasThread, Status
<1>9. FlagsAgree'
  <2> SUFFICES ASSUME NEW t \in Threads, Live(t)' PROVE Agree(t)'
    BY DEF FlagsAgree
  <2>1. CASE t = created + 1 /\ created < MaxThreads
    BY <1>1, <1>8, <2>1 DEF Agree
  <2>2. CASE tpc'[t] = tpc[t] /\ tslot'[t] = tslot[t]
    BY <2>2 DEF FlagsAgree, Agree
  <2>q. QED  BY <1>3, <2>1, <2>2
<1>10. HasThread'
  <2>1. ASSUME NEW i \in Slots, NEW t \in On(i), Live(t) PROVE \E u \in On(i)' : Live(u)'
    BY <1>3, <1>6, <2>1
  <2>2. created < MaxThreads => \E u \in On(mi)' : Live(u)'
    BY <1>1
  <2>3. created >= MaxThreads => mpc' = "await" /\ initLock'
    BY DEF InitLockHeld
  <2>4. flags' = flags /\ mi' = mi /\ mpc = "create"
    OBVIOUS
  <2>5. ASSUME NEW i \in Slots, flags[i] \in {"INITED", "IDEL", "RUNNING"}, i # mi
        PROVE  \E u \in On(i)' : Live(u)'
    BY <2>1, <2>5 DEF HasThread
  <2>6. flags[mi] \in {"INITED", "DETACHING"}
    BY <1>8
  <2>q. QED  BY <2>2, <2>3, <2>4, <2>5, <2>6 DEF HasThread
<1>11. OrdersInTurn' /\ MakesOnFree'
  BY DEF OrdersInTurn, NotYetOrdered, MakesOnFree
<1>12. InitLockHeld'
  BY <1>1, <1>3 DEF InitLockHeld, Threads
<1>q. QED  BY <1>5, <1>7, <1>9, <1>10, <1>11, <1>12

(***************************************************************************)
(* PoolInv is inductive relative to the types.                             *)
(***************************************************************************)
LEMMA PoolInvStep == TypeOK /\ PoolInv /\ [Next]_vars => PoolInv'
<1> SUFFICES ASSUME TypeOK, PoolInv, [Next]_vars PROVE PoolInv'
  OBVIOUS
<1> USE PoolAssumption
<1>1. CASE MainStep
  <2> USE DEF TypeOK, SlotType, MainType, ThreadType, SigType, PoolInv,
              slotVars, thrVars, sigVars, MainKeeps, ThreadIds, OneThreadPerSlot,
              FlagsAgree, Agree, HasThread, OrdersInTurn, NotYetOrdered,
              MakesOnFree, InitLockHeld, On, Live, Starting, Waiting, Serving,
              Slots, Threads
  <2>1. CASE InitLoop
    <3> USE <2>1 DEF InitLoop, MainGo
    <3>1. ThreadIds' /\ OneThreadPerSlot' /\ FlagsAgree' /\ HasThread'
      OBVIOUS
    <3>2. OrdersInTurn' /\ MakesOnFree' /\ InitLockHeld'
      OBVIOUS
    <3>q. QED  BY <3>1, <3>2
  <2>2. CASE AddCheck
    BY <2>2 DEF AddCheck, AddReturns
  <2>3. CASE AddLock
    BY <2>3 DEF AddLock, MainGo
  <2>4. CASE AddFlag
    BY <2>4 DEF AddFlag, MainGo
  <2>5. CASE AddCreate
    BY <2>5, CreateKeepsInv
  <2>6. CASE AddAwait
    BY <2>6 DEF AddAwait, MainGo
  <2>7. CASE AddInc
    BY <2>7 DEF AddInc, MainGo
  <2>8. CASE AddIncWrite
    BY <2>8 DEF AddIncWrite, AddReturns
  <2>9. CASE ScheduleLoop
    BY <2>9 DEF ScheduleLoop, MainGo
  <2>10. CASE ScheduleSelect
    BY <2>10 DEF ScheduleSelect, MainGo
  <2>11. CASE ScheduleAccept
    BY <2>11 DEF ScheduleAccept, MainGo
  <2>12. CASE ScheduleFindIdle
    BY <2>12 DEF ScheduleFindIdle, IsStatus
  <2>13. CASE ScheduleFindFree
    BY <2>13 DEF ScheduleFindFree, IsStatus
  <2>14. CASE ScheduleGive
    BY <2>14 DEF ScheduleGive, MainGo
  <2>15. CASE SchedulePost
    BY <2>15 DEF SchedulePost, MainGo
  <2>q. QED  BY <1>1, <2>1, <2>2, <2>3, <2>4, <2>5, <2>6, <2>7, <2>8, <2>9,
           <2>10, <2>11, <2>12, <2>13, <2>14, <2>15 DEF MainStep
<1>2. ASSUME NEW t \in Threads, WorkerStep(t) PROVE PoolInv'
  <2>1. CASE WorkerStart(t)
    <3> USE <2>1 DEF WorkerStart, Go, WorkerKeeps, TypeOK, ThreadType, MainType,
                     SlotType, PoolInv, slotVars, mainVars, sigVars, On, Live,
                     Starting, Waiting, Serving
    <3>1. ThreadIds' /\ OneThreadPerSlot' /\ OrdersInTurn'
      BY DEF ThreadIds, OneThreadPerSlot, OrdersInTurn, NotYetOrdered
    <3>2. FlagsAgree' /\ MakesOnFree'
      BY DEF FlagsAgree, Agree, MakesOnFree
    <3>3. HasThread'
      BY DEF HasThread, InitLockHeld
    <3>4. InitLockHeld'
      BY DEF InitLockHeld
    <3>q. QED  BY <3>1, <3>2, <3>3, <3>4
  <2>2. CASE WorkerBorn(t) \/ WorkerRun(t) \/ WorkerBack(t) \/ WorkerDetach(t)
    BY <2>2, FlagsStepKeepsInv
  <2>3. CASE WorkerTop(t)
    BY <2>3, MoveKeepsInv DEF WorkerTop, Go, WorkerKeeps, WorkerPC, Waiting, Serving, slotVars
  <2>4. CASE WorkerTry(t)
    BY <2>4, MoveKeepsInv DEF WorkerTry, Go, WorkerKeeps, WorkerPC, Waiting, Serving, slotVars
  <2>5. CASE WorkFetch(t)
    BY <2>5, MoveKeepsInv DEF WorkFetch, Go, WorkerKeeps, WorkerPC, Waiting, Serving, slotVars
  <2>6. CASE WorkSelect(t)
    BY <2>6, MoveKeepsInv DEF WorkSelect, Go, WorkerKeeps, WorkerPC, Waiting, Serving, slotVars
  <2>7. CASE WorkRead(t)
    BY <2>7, MoveKeepsInv DEF WorkRead, Go, WorkerKeeps, WorkerPC, Waiting, Serving, slotVars
  <2>8. CASE WorkHandle(t)
    BY <2>8, MoveKeepsInv DEF WorkHandle, Go, WorkerKeeps, WorkerPC, Waiting, Serving, slotVars
  <2>9. CASE WorkerClose(t)
    BY <2>9, MoveKeepsInv DEF WorkerClose, Go, WorkerKeeps, WorkerPC, Waiting, Serving, slotVars
  <2>10. CASE WorkerClear(t)
    BY <2>10, MoveKeepsInv DEF WorkerClear, Go, WorkerKeeps, WorkerPC, Waiting, Serving, slotVars
  <2>11. CASE WorkerCheck(t)
    BY <2>11, MoveKeepsInv DEF WorkerCheck, Go, WorkerKeeps, WorkerPC, Waiting, Serving, slotVars
  <2>12. CASE WorkerDec(t)
    BY <2>12, MoveKeepsInv DEF WorkerDec, Go, WorkerKeeps, WorkerPC, Waiting, Serving, slotVars
  <2>13. CASE WorkerDecWrite(t)
    BY <2>13, MoveKeepsInv DEF WorkerDecWrite, Go, WorkerKeeps, WorkerPC, Waiting, Serving, slotVars
  <2>q. QED  BY <1>2, <2>1, <2>2, <2>3, <2>4, <2>5, <2>6, <2>7, <2>8, <2>9,
           <2>10, <2>11, <2>12, <2>13 DEF WorkerStep
<1>3. CASE SigDeliver \/ SigStep
  <2> USE DEF TypeOK, SlotType, MainType, ThreadType, SigType, PoolInv, mainVars,
              thrVars, SigKeeps, On, Live, Starting, Waiting, Serving, Slots
  <2>1. CASE WorkerDelete
    <3> USE <2>1 DEF WorkerDelete, SigGo
    <3>1. ThreadIds' /\ OneThreadPerSlot' /\ InitLockHeld'
      BY DEF ThreadIds, OneThreadPerSlot, InitLockHeld
    <3>2. FlagsAgree' /\ HasThread'
      BY DEF FlagsAgree, Agree, HasThread
    <3>3. OrdersInTurn' /\ MakesOnFree'
      BY DEF OrdersInTurn, NotYetOrdered, MakesOnFree
    <3>q. QED  BY <3>1, <3>2, <3>3
  <2>2. CASE SigDeliver \/ StopSchedule \/ DestroyLook \/ DestroyDrain \/ StopFired \/ StopFree
    <3>1. UNCHANGED <<flags, mainVars, thrVars, initLock>>
      BY <2>2 DEF SigDeliver, StopSchedule, DestroyLook, DestroyDrain, StopFired,
                  StopFree, Pass
    <3>2. ThreadIds' /\ OneThreadPerSlot' /\ InitLockHeld' /\ MakesOnFree'
      BY <3>1 DEF ThreadIds, OneThreadPerSlot, InitLockHeld, MakesOnFree
    <3>3. FlagsAgree' /\ HasThread'
      BY <3>1 DEF FlagsAgree, Agree, HasThread
    <3>4. OrdersInTurn'
      <4> USE DEF OrdersInTurn, NotYetOrdered, SigGo
      <4>1. CASE SigDeliver \/ StopSchedule
        BY <3>1, <4>1 DEF SigDeliver, StopSchedule
      <4>2. CASE DestroyLook
        BY <3>1, <4>2 DEF DestroyLook
      <4>3. CASE DestroyDrain \/ StopFired
        <5>1. /\ hpc \in {"drain", "fired"} /\ hpc' \in {"drain", "fired", "free"}
              /\ sched' = sched
          BY <4>3 DEF DestroyDrain, StopFired, Pass
        <5>q. QED  BY <3>1, <5>1
      <4>4. CASE StopFree
        BY <3>1, <4>4 DEF StopFree
      <4>q. QED  BY <2>2, <4>1, <4>2, <4>3, <4>4
    <3>q. QED  BY <3>2, <3>3, <3>4
  <2>q. QED  BY <1>3, <2>1, <2>2 DEF SigStep
<1>4. CASE UNCHANGED vars
  BY <1>4 DEF vars, slotVars, thrVars, mainVars, sigVars, PoolInv, ThreadIds,
              OneThreadPerSlot, FlagsAgree, Agree, HasThread, OrdersInTurn,
              NotYetOrdered, MakesOnFree, InitLockHeld, On, Live, Starting,
              Waiting, Serving
<1>q. QED  BY <1>1, <1>2, <1>3, <1>4 DEF Next

(***************************************************************************)
(* The invariant holds throughout.                                         *)
(***************************************************************************)
THEOREM PoolInvHolds == Spec => []PoolInv
<1>1. Init => PoolInv
  BY PoolAssumption
     DEF Init, PoolInv, ThreadIds, OneThreadPerSlot, FlagsAgree, HasThread,
         OrdersInTurn, NotYetOrdered, MakesOnFree, InitLockHeld, On, Live,
         Starting, Waiting, Serving, Threads, Slots
<1>q. QED  BY <1>1, PoolInvStep, TypeCorrect, PTL DEF Spec

-----------------------------------------------------------------------------
(***************************************************************************)
(* No slot ever has two threads: whatever SIGINT interrupts, Worker_Add    *)
(* only creates a thread for a slot nothing else uses.                     *)
(***************************************************************************)
THEOREM ThreadsAreAlone == Spec => []OneThreadPerSlot
BY PoolInvHolds, PTL DEF PoolInv

(***************************************************************************)
(* opts.flags never lies about its slot, except by DETACHING.              *)
(***************************************************************************)
THEOREM FlagsTellTruth == Spec => []StatusTruthful
<1>1. TypeOK /\ PoolInv => StatusTruthful
  <2> SUFFICES ASSUME TypeOK, PoolInv, NEW i \in Slots
               PROVE  StatusTruthful!(i)
    BY DEF StatusTruthful
  <2>1. \A t \in On(i) : Live(t) => Agree(t)
    BY DEF PoolInv, FlagsAgree, On
  <2>2. flags[i] = "DETACHED" => \A t \in On(i) : ~Live(t)
    BY <2>1 DEF Agree, On
  <2>3. flags[i] \in {"RUNNING", "IDEL"} => \E t \in On(i) : Live(t)
    BY DEF PoolInv, HasThread
  <2>4. flags[i] = "RUNNING" => \E t \in On(i) : Serving(t)
    BY <2>1, <2>3 DEF Agree, On
  <2>5. flags[i] = "IDEL" => \E t \in On(i) : Waiting(t)
    BY <2>1, <2>3 DEF Agree, On
  <2>6. flags[i] = "INITED" => \/ \E t \in On(i) : Starting(t)
                               \/ mpc \in {"create", "await"} /\ mi = i
    BY <2>1 DEF PoolInv, HasThread, Agree, On
  <2>q. QED  BY <2>2, <2>4, <2>5, <2>6
<1>q. QED  BY <1>1, TypeCorrect, PoolInvHolds, PTL

(***************************************************************************)
(* Worker_Add passes its second lock only when its own thread runs.        *)
(***************************************************************************)
THEOREM HandshakeHolds == Spec => []HandshakeDone
<1>1. PoolInv => HandshakeDone
  BY DEF PoolInv, InitLockHeld, HandshakeDone
<1>q. QED  BY <1>1, PoolInvHolds, PTL

(***************************************************************************)
(* The pool never shrinks before a stop: a slot becomes DETACHED only from *)
(* DETACHING, with the schedule stopped.                                   *)
(***************************************************************************)
THEOREM LeavingIsOrdered == Spec => LeavesOnlyOnOrder
<1> DEFINE A == \A i \in Slots : flags[i] # "DETACHED" /\ flags'[i] = "DETACHED"
                  => flags[i] = "DETACHING" /\ ~sched
<1>1. TypeOK /\ PoolInv /\ [Next]_vars => [A]_vars
  <2> SUFFICES ASSUME TypeOK, PoolInv, Next PROVE A
    OBVIOUS
  <2> USE DEF TypeOK, SlotType, ThreadType, MainType, SigType, slotVars
  <2>1. CASE MainStep
    BY <2>1 DEF MainStep, MainKeeps, InitLoop, AddCheck, AddLock, AddFlag, AddCreate,
                AddAwait, AddInc, AddIncWrite, ScheduleLoop, ScheduleSelect,
                ScheduleAccept, ScheduleFindIdle, ScheduleFindFree, ScheduleGive,
                SchedulePost, IsStatus
  <2>2. ASSUME NEW t \in Threads, WorkerStep(t) PROVE A
    <3>1. CASE WorkerDetach(t)
      BY <3>1 DEF WorkerDetach, SetFlags, Go, PoolInv, FlagsAgree, Agree, Live,
                  OrdersInTurn, NotYetOrdered
    <3>2. CASE WorkerBorn(t) \/ WorkerRun(t) \/ WorkerBack(t)
      BY <3>2 DEF WorkerBorn, WorkerRun, WorkerBack, SetFlags
    <3>3. CASE UNCHANGED flags
      BY <3>3
    <3>q. QED
      BY <2>2, <3>1, <3>2, <3>3
         DEF WorkerStep, WorkerStart, WorkerTop, WorkerTry, WorkFetch, WorkSelect,
             WorkRead, WorkHandle, WorkerClose, WorkerClear, WorkerCheck, WorkerDec,
             WorkerDecWrite
  <2>3. CASE SigDeliver \/ SigStep
    BY <2>3 DEF SigDeliver, SigStep, StopSchedule, DestroyLook, WorkerDelete,
                DestroyDrain, StopFired, StopFree, Pass
  <2>q. QED  BY <2>1, <2>2, <2>3 DEF Next
<1>q. QED  BY <1>1, TypeCorrect, PoolInvHolds, PTL DEF Spec, LeavesOnlyOnOrder

-----------------------------------------------------------------------------
(* The abstract slot.                                                      *)

(***************************************************************************)
(* A step of a worker before the stop never takes it out of its slot.      *)
(***************************************************************************)
LEMMA WorkerStays ==
    ASSUME TypeOK, PoolInv, HandoverInv, sched, NEW t \in Threads, WorkerStep(t)
    PROVE  /\ \A u \in Threads : tpc'[u] \notin {"detach", "dec", "decw", "gone"}
           /\ \A u \in Threads : Live(u) => Live(u)'
           /\ UNCHANGED <<tslot, mpc, mi, sched>>
<1> USE DEF TypeOK, SlotType, ThreadType, SigType, Go, WorkerKeeps, mainVars, sigVars,
            SetFlags
<1>1. flags[tslot[t]] # "DETACHING"
  BY DEF PoolInv, OrdersInTurn, NotYetOrdered
<1>2. /\ tpc[t] \notin {"none", "detach", "dec", "decw", "gone"}
      /\ UNCHANGED <<tslot, mpc, mi, sched>>
      /\ \E to \in WorkerPC : /\ tpc' = [tpc EXCEPT ![t] = to]
                              /\ to \notin {"none", "detach", "dec", "decw", "gone"}
  <2> USE DEF HandoverInv, WorkerPC
  <2>1. CASE WorkerStart(t) \/ WorkerBorn(t) \/ WorkerTop(t) \/ WorkerTry(t)
    BY <1>1, <2>1 DEF WorkerStart, WorkerBorn, WorkerTop, WorkerTry
  <2>2. CASE WorkerRun(t) \/ WorkFetch(t) \/ WorkSelect(t) \/ WorkRead(t) \/ WorkHandle(t)
    BY <2>2 DEF WorkerRun, WorkFetch, WorkSelect, WorkRead, WorkHandle
  <2>3. CASE WorkerClose(t) \/ WorkerClear(t) \/ WorkerCheck(t) \/ WorkerBack(t)
    BY <1>1, <2>3 DEF WorkerClose, WorkerClear, WorkerCheck, WorkerBack
  <2>4. CASE WorkerDetach(t) \/ WorkerDec(t) \/ WorkerDecWrite(t)
    BY <2>4 DEF WorkerDetach, WorkerDec, WorkerDecWrite
  <2>q. QED  BY <2>1, <2>2, <2>3, <2>4 DEF WorkerStep
<1>q. QED  BY <1>2 DEF HandoverInv, Live, Starting, Waiting, Serving, WorkerPC

(***************************************************************************)
(* Before the stop a slot that Worker_Add has made or that was found idle  *)
(* keeps its thread until the dispatcher has posted to it.                 *)
(***************************************************************************)
LEMMA HandoverStep == TypeOK /\ PoolInv /\ HandoverInv /\ [Next]_vars => HandoverInv'
<1> SUFFICES ASSUME TypeOK, PoolInv, HandoverInv, [Next]_vars, sched' PROVE HandoverInv'
  BY DEF HandoverInv
<1> DEFINE Stayed == \A t \in Threads : tpc[t] \notin {"detach", "dec", "decw", "gone"}
<1> USE DEF TypeOK, SlotType, MainType, ThreadType, SigType
<1>1. CASE MainStep
  <2>1. sched /\ sched' = sched
    BY <1>1 DEF MainStep, MainKeeps, sigVars, InitLoop, AddCheck, AddLock, AddFlag,
                AddCreate, AddAwait, AddInc, AddIncWrite, ScheduleLoop, ScheduleSelect,
                ScheduleAccept, ScheduleFindIdle, ScheduleFindFree, ScheduleGive,
                SchedulePost, IsStatus
  <2>2. Stayed
    BY <2>1 DEF HandoverInv
  <2>3. CASE AddCreate
    <3>1. created < MaxThreads => created + 1 \in Threads
      BY PoolAssumption DEF Threads
    <3>2. Stayed' /\ mpc' = "await"
      BY <2>2, <2>3, <3>1 DEF AddCreate, MainGo
    <3>q. QED  BY <3>2 DEF HandoverInv
  <2>4. CASE AddIncWrite
    <3>1. UNCHANGED <<tpc, tslot>>
      BY <2>4 DEF AddIncWrite, MainKeeps, thrVars
    <3>2. created \in Threads /\ tslot[created] = mi /\ tpc[created] \notin {"none", "start"}
      BY <2>4 DEF AddIncWrite, PoolInv, InitLockHeld
    <3>3. created \in On(mi) /\ Live(created)
      BY <2>2, <3>2 DEF On, Live, Starting, Waiting, Serving, WorkerPC
    <3>4. mpc' = "give" => mi' = mi
      BY <2>4 DEF AddIncWrite, AddReturns
    <3>5. mpc' \in {"give", "init"}
      BY <2>4 DEF AddIncWrite, AddReturns
    <3>q. QED
      BY <2>2, <3>1, <3>3, <3>4, <3>5
         DEF HandoverInv, On, Live, Starting, Waiting, Serving
  <2>5. CASE AddCheck
    <3>1. UNCHANGED <<tpc, tslot>> /\ mpc' = "lock"
      BY <2>5 DEF AddCheck, MainKeeps, thrVars, PoolInv, MakesOnFree
    <3>q. QED  BY <2>2, <3>1 DEF HandoverInv
  <2>6. CASE ScheduleFindIdle
    <3>1. UNCHANGED <<tpc, tslot>>
      BY <2>6 DEF ScheduleFindIdle, IsStatus, MainKeeps, thrVars
    <3>2. mpc' \in {"give", "post"} => mi' = mi /\ flags[mi] = "IDEL" /\ mi \in Slots
      BY <2>6 DEF ScheduleFindIdle, IsStatus
    <3>3. mpc' \in {"give", "post"} => \E t \in On(mi) : Live(t)
      BY <3>2 DEF PoolInv, HasThread
    <3>q. QED
      BY <2>2, <3>1, <3>2, <3>3 DEF HandoverInv, On, Live, Starting, Waiting, Serving
  <2>7. CASE ScheduleGive
    <3>1. UNCHANGED <<tpc, tslot, mi>> /\ mpc = "give"
      BY <2>7 DEF ScheduleGive, MainKeeps, thrVars, MainGo
    <3>q. QED  BY <2>1, <3>1 DEF HandoverInv, On, Live, Starting, Waiting, Serving
  <2>8. CASE \/ InitLoop \/ AddLock \/ AddFlag \/ AddAwait \/ AddInc \/ ScheduleLoop
             \/ ScheduleSelect \/ ScheduleAccept \/ ScheduleFindFree \/ SchedulePost
    <3>1. UNCHANGED <<tpc, tslot>> /\ mpc' \notin {"give", "post"}
      BY <2>8 DEF InitLoop, AddLock, AddFlag, AddAwait, AddInc, ScheduleLoop,
                  ScheduleSelect, ScheduleAccept, ScheduleFindFree, SchedulePost,
                  IsStatus, MainGo, MainKeeps, thrVars
    <3>q. QED  BY <2>2, <3>1 DEF HandoverInv
  <2>q. QED  BY <1>1, <2>3, <2>4, <2>5, <2>6, <2>7, <2>8 DEF MainStep
<1>2. ASSUME NEW t \in Threads, WorkerStep(t) PROVE HandoverInv'
  <2>1. sched
    BY <1>2 DEF WorkerStep, WorkerKeeps, sigVars, WorkerStart, WorkerBorn, WorkerTop,
                WorkerTry, WorkerRun, WorkFetch, WorkSelect, WorkRead, WorkHandle,
                WorkerClose, WorkerClear, WorkerCheck, WorkerBack, WorkerDetach,
                WorkerDec, WorkerDecWrite, SetFlags
  <2>2. mpc' \in {"give", "post"} => \E u \in On(mi) : Live(u)
    BY <1>2, <2>1, WorkerStays DEF HandoverInv
  <2>q. QED  BY <1>2, <2>1, <2>2, WorkerStays DEF HandoverInv, On
<1>3. CASE SigDeliver \/ SigStep
  <2>1. UNCHANGED <<mainVars, thrVars>> /\ (sched' => sched)
    BY <1>3 DEF SigDeliver, SigStep, SigKeeps, StopSchedule, DestroyLook, WorkerDelete,
                DestroyDrain, StopFired, StopFree, Pass
  <2>q. QED
    BY <2>1 DEF HandoverInv, mainVars, thrVars, On, Live, Starting, Waiting, Serving
<1>4. CASE UNCHANGED vars
  BY <1>4 DEF vars, mainVars, thrVars, sigVars, HandoverInv, On, Live, Starting, Waiting,
              Serving
<1>q. QED  BY <1>1, <1>2, <1>3, <1>4 DEF Next

(***************************************************************************)
(* Until the pool is stopped no thread leaves, and work is handed over to  *)
(* slots that have one.                                                    *)
(***************************************************************************)
THEOREM HandoverHolds == Spec => []HandoverInv
<1>1. Init => HandoverInv
  BY DEF Init, HandoverInv, On
<1>q. QED  BY <1>1, HandoverStep, TypeCorrect, PoolInvHolds, PTL DEF Spec

(***************************************************************************)
(* The phase of a slot is the role of its one thread.                      *)
(***************************************************************************)
LEMMA PhaseIs == OneThreadPerSlot /\ tpc \in [Threads -> WorkerPC] => PhaseKnown
<1> SUFFICES ASSUME OneThreadPerSlot, tpc \in [Threads -> WorkerPC] PROVE PhaseKnown
  OBVIOUS
<1> USE DEF PhaseOf, On, OneThreadPerSlot
<1>1. ASSUME NEW t \in Threads, Live(t) PROVE PhaseOf(tslot[t]) = RoleOf(tpc[t])
  <2> DEFINE u == CHOOSE u \in On(tslot[t]) : Live(u)
  <2>1. u \in On(tslot[t]) /\ Live(u)
    BY <1>1
  <2>2. u = t
    BY <1>1, <2>1
  <2>3. PhaseOf(tslot[t]) = RoleOf(tpc[u])
    BY <1>1
  <2>q. QED  BY <2>2, <2>3
<1>2. ASSUME NEW i \in Slots, \A t \in On(i) : ~Live(t) PROVE PhaseOf(i) = "free"
  BY <1>2
<1>q. QED  BY <1>1, <1>2 DEF PhaseKnown

(***************************************************************************)
(* A thread has left its slot exactly when it has no role.                 *)
(***************************************************************************)
LEMMA RoleOfLive ==
    tpc \in [Threads -> WorkerPC] => \A t \in Threads : Live(t) <=> RoleOf(tpc[t]) # "free"
<1> SUFFICES ASSUME tpc \in [Threads -> WorkerPC], NEW t \in Threads
             PROVE  Live(t) <=> RoleOf(tpc[t]) # "free"
  OBVIOUS
<1>q. QED  BY DEF Live, Starting, Waiting, Serving, RoleOf, WorkerPC

(***************************************************************************)
(* When neither the threads' places nor their slots change, the phases do  *)
(* not either.                                                             *)
(***************************************************************************)
LEMMA PhasesStay == UNCHANGED <<tpc, tslot>> => UNCHANGED Phases
BY DEF Phases, PhaseOf, On, Live, Starting, Waiting, Serving

(***************************************************************************)
(* A thread that moves to another program point moves its slot, and only   *)
(* that, from one phase to another.                                        *)
(***************************************************************************)
LEMMA MoveMovesPhase ==
    ASSUME TypeOK, TypeOK', OneThreadPerSlot, OneThreadPerSlot',
           NEW t \in Threads, NEW to \in WorkerPC, Live(t),
           tpc' = [tpc EXCEPT ![t] = to], UNCHANGED tslot
    PROVE  /\ tslot[t] \in Slots
           /\ Phases[tslot[t]] = RoleOf(tpc[t])
           /\ Phases' = [Phases EXCEPT ![tslot[t]] = RoleOf(to)]
<1> USE DEF TypeOK, ThreadType, Phases
<1>1. PhaseKnown /\ PhaseKnown'
  BY PhaseIs, PTL
<1>2. tslot[t] \in Slots /\ Phases[tslot[t]] = RoleOf(tpc[t])
  BY <1>1 DEF PhaseKnown
<1>3. ASSUME NEW i \in Slots PROVE Phases'[i] = [Phases EXCEPT ![tslot[t]] = RoleOf(to)][i]
  <2>1. \A u \in Threads : u # t => tpc'[u] = tpc[u]
    OBVIOUS
  <2>2. Live(t)' <=> RoleOf(to) # "free"
    BY DEF Live, Starting, Waiting, Serving, RoleOf, WorkerPC
  <2>3. CASE i = tslot[t] /\ Live(t)'
    BY <1>1, <2>3 DEF PhaseKnown
  <2>4. CASE i = tslot[t] /\ ~Live(t)'
    <3>1. \A u \in Threads : u # t /\ tslot[u] = i => ~Live(u)'
      BY <2>1, <2>4 DEF OneThreadPerSlot, Live, Starting, Waiting, Serving
    <3>2. PhaseOf(i)' = "free"
      BY <1>1, <2>4, <3>1 DEF PhaseKnown, On
    <3>q. QED  BY <2>2, <2>4, <3>2
  <2>5. CASE i # tslot[t] /\ \E u \in On(i) : Live(u)
    <3>1. PICK u \in Threads : tslot[u] = i /\ Live(u)
      BY <2>5 DEF On
    <3>2. u # t /\ tpc'[u] = tpc[u] /\ Live(u)' /\ tslot'[u] = i
      BY <2>1, <2>5, <3>1 DEF Live, Starting, Waiting, Serving
    <3>3. PhaseOf(i) = RoleOf(tpc[u]) /\ PhaseOf(i)' = RoleOf(tpc'[u])
      BY <1>1, <3>1, <3>2 DEF PhaseKnown
    <3>q. QED  BY <2>5, <3>2, <3>3
  <2>6. CASE i # tslot[t] /\ ~\E u \in On(i) : Live(u)
    <3>1. \A u \in On(i)' : ~Live(u)'
      BY <2>1, <2>6 DEF On, Live, Starting, Waiting, Serving
    <3>2. PhaseOf(i) = "free" /\ PhaseOf(i)' = "free"
      BY <1>1, <2>6, <3>1 DEF PhaseKnown
    <3>q. QED  BY <2>6, <3>2
  <2>q. QED  BY <2>3, <2>4, <2>5, <2>6
<1>q. QED  BY <1>2, <1>3

(***************************************************************************)
(* pthread_create gives a slot that had no thread one that starts.         *)
(***************************************************************************)
LEMMA CreateMakes ==
    ASSUME TypeOK, TypeOK', PoolInv, PoolInv', AddCreate, created < MaxThreads
    PROVE  Phases[mi] = "free" /\ Phases' = [Phases EXCEPT ![mi] = "starting"]
<1> PICK n : n = created + 1
  OBVIOUS
<1> USE DEF TypeOK, ThreadType, MainType, Phases, PoolInv
<1>1. PhaseKnown /\ PhaseKnown'
  BY PhaseIs, PTL
<1>2. /\ n \in Threads /\ mi \in Slots /\ mi' = mi /\ tpc[n] = "none"
      /\ tpc' = [tpc EXCEPT ![n] = "start"] /\ tslot' = [tslot EXCEPT ![n] = mi]
  BY PoolAssumption DEF AddCreate, MainGo, Threads, ThreadIds
<1>3. \A t \in On(mi) : ~Live(t)
  BY DEF MakesOnFree, AddCreate, MainGo
<1>4. Phases[mi] = "free"
  BY <1>1, <1>2, <1>3 DEF PhaseKnown
<1>5. \A t \in Threads : t # n => tpc'[t] = tpc[t] /\ tslot'[t] = tslot[t]
  BY <1>2
<1>6. Live(n)' /\ ~Live(n) /\ tslot'[n] = mi /\ RoleOf(tpc'[n]) = "starting"
  <2>1. tpc'[n] = "start" /\ tslot'[n] = mi
    BY <1>2
  <2>2. RoleOf("start") = "starting"
    BY DEF RoleOf
  <2>q. QED  BY <1>2, <2>1, <2>2 DEF Live, Starting, Waiting, Serving
<1>7. ASSUME NEW i \in Slots PROVE Phases'[i] = [Phases EXCEPT ![mi] = "starting"][i]
  <2>1. CASE i = mi
    <3>1. PhaseOf(mi)' = RoleOf(tpc'[n])
      BY <1>1, <1>2, <1>6 DEF PhaseKnown
    <3>2. [Phases EXCEPT ![mi] = "starting"][mi] = "starting"
      BY <1>2
    <3>3. Phases'[mi] = PhaseOf(mi)'
      BY <1>2
    <3>q. QED  BY <1>6, <2>1, <3>1, <3>2, <3>3
  <2>2. CASE i # mi /\ \E u \in On(i) : Live(u)
    <3>1. PICK u \in Threads : tslot[u] = i /\ Live(u)
      BY <2>2 DEF On
    <3>2. u # n /\ tpc'[u] = tpc[u] /\ Live(u)' /\ tslot'[u] = i
      BY <1>5, <1>6, <3>1 DEF Live, Starting, Waiting, Serving
    <3>3. PhaseOf(i) = RoleOf(tpc[u]) /\ PhaseOf(i)' = RoleOf(tpc'[u])
      BY <1>1, <3>1, <3>2 DEF PhaseKnown
    <3>q. QED  BY <2>2, <3>2, <3>3
  <2>3. CASE i # mi /\ ~\E u \in On(i) : Live(u)
    <3>1. \A u \in On(i)' : ~Live(u)'
      BY <1>5, <1>6, <2>3 DEF On, Live, Starting, Waiting, Serving
    <3>2. PhaseOf(i) = "free" /\ PhaseOf(i)' = "free"
      BY <1>1, <2>3, <3>1 DEF PhaseKnown
    <3>q. QED  BY <2>3, <3>2
  <2>q. QED  BY <2>1, <2>2, <2>3
<1>q. QED  BY <1>4, <1>7

(***************************************************************************)
(* A thread that moves but keeps its role leaves all phases alone.         *)
(***************************************************************************)
LEMMA QuietMove ==
    ASSUME TypeOK, TypeOK', OneThreadPerSlot, OneThreadPerSlot',
           NEW t \in Threads, NEW to \in WorkerPC, RoleOf(to) = RoleOf(tpc[t]),
           tpc' = [tpc EXCEPT ![t] = to], UNCHANGED tslot
    PROVE  UNCHANGED Phases
<1> USE DEF TypeOK, ThreadType
<1>1. PhaseKnown /\ PhaseKnown'
  BY PhaseIs, PTL
<1>2. \A u \in Threads : RoleOf(tpc'[u]) = RoleOf(tpc[u])
  OBVIOUS
<1>3. \A u \in Threads : (Live(u) <=> RoleOf(tpc[u]) # "free")
                         /\ (Live(u)' <=> RoleOf(tpc'[u]) # "free")
  BY DEF Live, Starting, Waiting, Serving, RoleOf, WorkerPC
<1>4. ASSUME NEW i \in Slots PROVE PhaseOf(i)' = PhaseOf(i)
  <2>1. CASE \E u \in On(i) : Live(u)
    <3>1. PICK u \in Threads : tslot[u] = i /\ Live(u)
      BY <2>1 DEF On
    <3>2. Live(u)' /\ tslot'[u] = i
      BY <1>2, <1>3, <3>1
    <3>q. QED  BY <1>1, <1>2, <3>1, <3>2 DEF PhaseKnown
  <2>2. CASE ~\E u \in On(i) : Live(u)
    <3>1. \A u \in On(i)' : ~Live(u)'
      BY <1>2, <1>3, <2>2 DEF On
    <3>q. QED  BY <1>1, <2>2, <3>1 DEF PhaseKnown
  <2>q. QED  BY <2>1, <2>2
<1>q. QED  BY <1>4 DEF Phases

(***************************************************************************)
(* The dispatcher makes threads and hands work over.                       *)
(***************************************************************************)
LEMMA MainLives ==
    ASSUME TypeOK, TypeOK', PoolInv, PoolInv', HandoverInv, MainStep
    PROVE  [Life!Next]_(Life!vars)
<1> USE DEF Life!vars
<1>1. CASE AddCreate
  <2>1. UNCHANGED HandedOver /\ UNCHANGED sched /\ mi \in Slots
    BY <1>1 DEF AddCreate, MainGo, slotVars, sigVars, HandedOver, TypeOK, MainType
  <2>2. CASE created < MaxThreads
    <3>1. Life!Make(mi)
      BY <1>1, <2>1, <2>2, CreateMakes DEF Life!Make, Life!Move
    <3>q. QED  BY <2>1, <3>1 DEF Life!Next
  <2>3. CASE ~(created < MaxThreads)
    BY <1>1, <2>1, <2>3, PhasesStay DEF AddCreate
  <2>q. QED  BY <2>2, <2>3
<1>2. CASE SchedulePost
  <2>1. /\ mpc = "post" /\ mi \in Slots /\ mutex' = [mutex EXCEPT ![mi] = FALSE]
        /\ UNCHANGED <<tpc, tslot, sched>>
    BY <1>2 DEF SchedulePost, MainGo, MainKeeps, thrVars, sigVars, TypeOK, MainType
  <2>2. HandedOver' = [HandedOver EXCEPT ![mi] = TRUE]
    BY <2>1 DEF HandedOver, TypeOK, SlotType
  <2>3. UNCHANGED Phases
    BY <2>1, PhasesStay
  <2>4. sched => Phases[mi] \notin {"free", "leaving"}
    <3> SUFFICES ASSUME sched PROVE Phases[mi] \notin {"free", "leaving"}
      OBVIOUS
    <3>1. PICK t \in Threads : tslot[t] = mi /\ Live(t) /\ tpc[t] # "detach"
      BY <2>1 DEF HandoverInv, On
    <3>2. PhaseKnown
      BY PhaseIs DEF TypeOK, ThreadType, PoolInv
    <3>3. Phases[mi] = RoleOf(tpc[t])
      BY <2>1, <3>1, <3>2 DEF PhaseKnown, Phases
    <3>4. RoleOf(tpc[t]) # "leaving"
      BY <3>1 DEF RoleOf, TypeOK, ThreadType, WorkerPC
    <3>q. QED  BY <3>1, <3>3, <3>4, RoleOfLive DEF TypeOK, ThreadType
  <2>5. Life!Post(mi)
    BY <2>1, <2>2, <2>3, <2>4 DEF Life!Post
  <2>q. QED  BY <2>1, <2>5 DEF Life!Next
<1>3. CASE \/ InitLoop \/ AddCheck \/ AddLock \/ AddFlag \/ AddAwait \/ AddInc
           \/ AddIncWrite \/ ScheduleLoop \/ ScheduleSelect \/ ScheduleAccept
           \/ ScheduleFindIdle \/ ScheduleFindFree \/ ScheduleGive
  <2>1. UNCHANGED <<tpc, tslot, mutex, sched>>
    BY <1>3 DEF InitLoop, AddCheck, AddLock, AddFlag, AddAwait, AddInc, AddIncWrite,
                ScheduleLoop, ScheduleSelect, ScheduleAccept, ScheduleFindIdle,
                ScheduleFindFree, ScheduleGive, IsStatus, MainKeeps, thrVars, sigVars,
                slotVars
  <2>q. QED  BY <2>1, PhasesStay DEF HandedOver
<1>q. QED  BY <1>1, <1>2, <1>3 DEF MainStep

(***************************************************************************)
(* A worker's steps are those of its slot, or leave its phase alone.       *)
(***************************************************************************)
LEMMA WorkerLives ==
    ASSUME TypeOK, TypeOK', PoolInv, PoolInv', NEW t \in Threads, WorkerStep(t)
    PROVE  [Life!Next]_(Life!vars)
<1> DEFINE Goes(to) == tpc' = [tpc EXCEPT ![t] = to] /\ UNCHANGED <<tslot, sched>>
<1> PICK i \in Slots : i = tslot[t]
  BY DEF TypeOK, ThreadType
<1> USE DEF Life!vars
<1>1. ASSUME NEW to \in WorkerPC, Goes(to), UNCHANGED mutex, RoleOf(to) = RoleOf(tpc[t])
      PROVE  UNCHANGED Life!vars
  BY <1>1, QuietMove DEF PoolInv, HandedOver
<1>2. ASSUME NEW to \in WorkerPC, Goes(to), Live(t)
      PROVE  Phases[i] = RoleOf(tpc[t]) /\ Phases' = [Phases EXCEPT ![i] = RoleOf(to)]
  BY <1>2, MoveMovesPhase DEF PoolInv
<1>3. /\ RoleOf("start") = "starting" /\ RoleOf("born") = "starting"
      /\ RoleOf("top") = "waiting" /\ RoleOf("try") = "waiting"
      /\ RoleOf("detach") = "leaving" /\ RoleOf("dec") = "free"
      /\ RoleOf("decw") = "free" /\ RoleOf("gone") = "free"
      /\ \A pc \in {"run", "fetch", "select", "read", "handle", "close", "clear",
                    "check", "back"} : RoleOf(pc) = "serving"
  BY DEF RoleOf
<1> USE DEF Go, WorkerKeeps, sigVars, slotVars, WorkerPC
<1>4. CASE WorkerStart(t)
  <2>1. Goes("born") /\ UNCHANGED mutex /\ tpc[t] = "start"
    BY <1>4 DEF WorkerStart
  <2>q. QED  BY <1>1, <1>3, <2>1
<1>5. CASE WorkerBorn(t)
  <2>1. Goes("top") /\ UNCHANGED mutex /\ tpc[t] = "born"
    BY <1>5 DEF WorkerBorn, SetFlags
  <2>2. Live(t)
    BY <2>1 DEF Live, Starting
  <2>3. Life!Begin(i)
    BY <1>2, <1>3, <2>1, <2>2 DEF Life!Begin, Life!Move, HandedOver
  <2>q. QED  BY <2>3 DEF Life!Next
<1>6. CASE WorkerTop(t)
  <2>1. CASE flags[tslot[t]] = "DETACHING"
    <3>1. Goes("detach") /\ UNCHANGED mutex /\ tpc[t] = "top"
      BY <1>6, <2>1 DEF WorkerTop
    <3>2. ~sched
      BY <2>1 DEF PoolInv, OrdersInTurn, NotYetOrdered
    <3>3. Live(t)
      BY <3>1 DEF Live, Waiting
    <3>4. Life!Leave(i)
      BY <1>2, <1>3, <3>1, <3>2, <3>3 DEF Life!Leave, Life!Move, HandedOver
    <3>q. QED  BY <3>4 DEF Life!Next
  <2>2. CASE flags[tslot[t]] # "DETACHING"
    <3>1. Goes("try") /\ UNCHANGED mutex /\ tpc[t] = "top"
      BY <1>6, <2>2 DEF WorkerTop
    <3>q. QED  BY <1>1, <1>3, <3>1
  <2>q. QED  BY <2>1, <2>2
<1>7. CASE WorkerTry(t)
  <2>1. CASE mutex[tslot[t]]
    <3>1. Goes("top") /\ UNCHANGED mutex /\ tpc[t] = "try"
      BY <1>7, <2>1 DEF WorkerTry, TypeOK, SlotType, ThreadType
    <3>q. QED  BY <1>1, <1>3, <3>1
  <2>2. CASE ~mutex[tslot[t]]
    <3>1. Goes("run") /\ mutex' = [mutex EXCEPT ![i] = TRUE] /\ tpc[t] = "try"
      BY <1>7, <2>2 DEF WorkerTry
    <3>2. Live(t)
      BY <3>1 DEF Live, Waiting
    <3>3. HandedOver[i] /\ HandedOver' = [HandedOver EXCEPT ![i] = FALSE]
      BY <2>2, <3>1 DEF HandedOver, TypeOK, SlotType
    <3>4. Life!Take(i)
      BY <1>2, <1>3, <3>1, <3>2, <3>3 DEF Life!Take, Life!Move
    <3>q. QED  BY <3>4 DEF Life!Next
  <2>q. QED  BY <2>1, <2>2
<1>8. CASE \/ WorkerRun(t) \/ WorkFetch(t) \/ WorkSelect(t) \/ WorkRead(t)
           \/ WorkHandle(t) \/ WorkerClose(t) \/ WorkerClear(t)
  <2>1. PICK to \in {"fetch", "select", "read", "handle", "close", "clear", "check"} :
          Goes(to)
    BY <1>8 DEF WorkerRun, SetFlags, WorkFetch, WorkSelect, WorkRead, WorkHandle,
                WorkerClose, WorkerClear
  <2>2. UNCHANGED mutex /\ tpc[t] \in {"run", "fetch", "select", "read", "handle",
                                       "close", "clear"}
    BY <1>8 DEF WorkerRun, SetFlags, WorkFetch, WorkSelect, WorkRead, WorkHandle,
                WorkerClose, WorkerClear
  <2>q. QED  BY <1>1, <1>3, <2>1, <2>2
<1>9. CASE WorkerCheck(t)
  <2>1. CASE flags[tslot[t]] = "DETACHING"
    <3>1. Goes("detach") /\ UNCHANGED mutex /\ tpc[t] = "check"
      BY <1>9, <2>1 DEF WorkerCheck
    <3>2. ~sched
      BY <2>1 DEF PoolInv, OrdersInTurn, NotYetOrdered
    <3>3. Live(t)
      BY <3>1 DEF Live, Serving
    <3>4. Life!Leave(i)
      BY <1>2, <1>3, <3>1, <3>2, <3>3 DEF Life!Leave, Life!Move, HandedOver
    <3>q. QED  BY <3>4 DEF Life!Next
  <2>2. CASE flags[tslot[t]] # "DETACHING"
    <3>1. Goes("back") /\ UNCHANGED mutex /\ tpc[t] = "check"
      BY <1>9, <2>2 DEF WorkerCheck
    <3>q. QED  BY <1>1, <1>3, <3>1
  <2>q. QED  BY <2>1, <2>2
<1>10. CASE WorkerBack(t)
  <2>1. Goes("top") /\ UNCHANGED mutex /\ tpc[t] = "back"
    BY <1>10 DEF WorkerBack, SetFlags
  <2>2. Live(t)
    BY <2>1 DEF Live, Serving
  <2>3. Life!Done(i)
    BY <1>2, <1>3, <2>1, <2>2 DEF Life!Done, Life!Move, HandedOver
  <2>q. QED  BY <2>3 DEF Life!Next
<1>11. CASE WorkerDetach(t)
  <2>1. Goes("dec") /\ UNCHANGED mutex /\ tpc[t] = "detach"
    BY <1>11 DEF WorkerDetach, SetFlags
  <2>2. Live(t)
    BY <2>1 DEF Live
  <2>3. Life!Gone(i)
    BY <1>2, <1>3, <2>1, <2>2 DEF Life!Gone, Life!Move, HandedOver
  <2>q. QED  BY <2>3 DEF Life!Next
<1>12. CASE WorkerDec(t)
  <2>1. Goes("decw") /\ UNCHANGED mutex /\ tpc[t] = "dec"
    BY <1>12 DEF WorkerDec
  <2>q. QED  BY <1>1, <1>3, <2>1
<1>13. CASE WorkerDecWrite(t)
  <2>1. Goes("gone") /\ UNCHANGED mutex /\ tpc[t] = "decw"
    BY <1>13 DEF WorkerDecWrite
  <2>q. QED  BY <1>1, <1>3, <2>1
<1>q. QED
  BY <1>4, <1>5, <1>6, <1>7, <1>8, <1>9, <1>10, <1>11, <1>12, <1>13 DEF WorkerStep

(***************************************************************************)
(* The handler stops the slots and changes no phase: it writes flags only. *)
(***************************************************************************)
LEMMA SignalLives ==
    ASSUME TypeOK, PoolInv, SigDeliver \/ SigStep
    PROVE  [Life!Next]_(Life!vars)
<1> USE DEF Life!vars
<1>1. UNCHANGED <<tpc, tslot, mutex>>
  BY DEF SigDeliver, SigStep, StopSchedule, DestroyLook, WorkerDelete, DestroyDrain,
         StopFired, StopFree, Pass, SigKeeps, thrVars
<1>2. UNCHANGED <<Phases, HandedOver>>
  BY <1>1, PhasesStay DEF HandedOver
<1>3. CASE StopSchedule
  <2>1. sched' = FALSE
    BY <1>3 DEF StopSchedule
  <2>2. CASE sched
    <3>1. Life!Stop
      BY <1>2, <2>1, <2>2 DEF Life!Stop
    <3>q. QED  BY <3>1 DEF Life!Next
  <2>3. CASE ~sched
    BY <1>2, <2>1, <2>3
  <2>q. QED  BY <2>2, <2>3
<1>4. CASE SigDeliver \/ DestroyLook \/ WorkerDelete \/ DestroyDrain \/ StopFired \/ StopFree
  <2>1. sched' = sched
    BY <1>4 DEF SigDeliver, DestroyLook, WorkerDelete, DestroyDrain, StopFired,
                StopFree, Pass
  <2>q. QED  BY <1>2, <2>1
<1>q. QED  BY <1>3, <1>4 DEF SigStep

(***************************************************************************)
(* The pool implements SlotLife, for any number of slots and threads and   *)
(* wherever SIGINT comes.                                                  *)
(***************************************************************************)
THEOREM SlotsAreLived == Spec => SlotsLive
<1>1. Init => Life!Init
  <2> SUFFICES ASSUME Init PROVE Life!Init
    OBVIOUS
  <2>1. \A t \in Threads : ~Live(t)
    BY DEF Init, Live, Starting, Waiting, Serving
  <2>2. Phases = [i \in Slots |-> "free"]
    BY <2>1 DEF Phases, PhaseOf, On
  <2>3. HandedOver = [i \in Slots |-> FALSE] /\ sched
    BY DEF Init, HandedOver
  <2>q. QED  BY <2>2, <2>3 DEF Life!Init
<1>2. TypeOK /\ TypeOK' /\ PoolInv /\ PoolInv' /\ HandoverInv /\ [Next]_vars
        => [Life!Next]_(Life!vars)
  <2> SUFFICES ASSUME TypeOK, TypeOK', PoolInv, PoolInv', HandoverInv, [Next]_vars
               PROVE  [Life!Next]_(Life!vars)
    OBVIOUS
  <2>1. CASE UNCHANGED vars
    BY <2>1, PhasesStay
       DEF vars, slotVars, thrVars, sigVars, Life!vars, HandedOver
  <2>q. QED  BY <2>1, MainLives, WorkerLives, SignalLives DEF Next
<1>q. QED
  BY <1>1, <1>2, TypeCorrect, PoolInvHolds, HandoverHolds, PTL DEF Spec, SlotsLive, Life!Spec

-----------------------------------------------------------------------------
(* Who waits for whom when the pool is stopped.                            *)

\* thread_init is locked only by Worker_Add, and there only until the thread it made runs, if it made one.
InitLockKnown ==
    initLock => /\ mpc \in {"flag", "create", "await"}
                /\ mpc = "await" => \/ created = MaxThreads
                                    \/ created \in Threads /\ tpc[created] = "start" /\ tslot[created] = mi

\* An order to leave is for a thread, or for the one that Worker_Add is about to make.
OrderHasThread ==
    \A i \in Slots : flags[i] = "DETACHING" =>
      \/ \E t \in On(i) : Live(t)
      \/ mi = i /\ (mpc = "create" \/ (mpc = "await" /\ initLock))

StopInv == InitLockKnown /\ OrderHasThread

(***************************************************************************)
(* A step after which every thread is where it was, or at least still on   *)
(* its slot, and that gives no order.                                      *)
(***************************************************************************)
LEMMA OrdersStay ==
    ASSUME OrderHasThread, UNCHANGED <<tslot, mi, mpc, initLock>>,
           \A t \in Threads : Live(t) => Live(t)',
           \A i \in Slots : flags'[i] = "DETACHING" => flags[i] = "DETACHING"
    PROVE  OrderHasThread'
BY DEF OrderHasThread, On

LEMMA StopMain == TypeOK /\ PoolInv /\ StopInv /\ MainStep => StopInv'
<1> SUFFICES ASSUME TypeOK, PoolInv, StopInv, MainStep PROVE StopInv'
  OBVIOUS
<1> USE DEF StopInv, MainGo, MainKeeps, thrVars, slotVars
<1>1. ASSUME UNCHANGED <<flags, tpc, tslot, initLock>>, mpc \notin {"flag", "create", "await"},
             mpc' \notin {"flag", "create", "await"}
      PROVE  StopInv'
  BY <1>1 DEF InitLockKnown, OrderHasThread, On, Live, Starting, Waiting, Serving
<1>2. CASE \/ InitLoop \/ AddCheck \/ AddInc \/ AddIncWrite \/ ScheduleLoop \/ ScheduleSelect
           \/ ScheduleAccept \/ ScheduleFindIdle \/ ScheduleFindFree \/ ScheduleGive \/ SchedulePost
  BY <1>1, <1>2
     DEF InitLoop, AddCheck, AddInc, AddIncWrite, AddReturns, ScheduleLoop, ScheduleSelect, ScheduleAccept,
         ScheduleFindIdle, ScheduleFindFree, ScheduleGive, SchedulePost, IsStatus
<1>3. CASE AddLock
  BY <1>3 DEF AddLock, InitLockKnown, OrderHasThread, On, Live, Starting, Waiting, Serving
<1>4. CASE AddFlag
  <2>1. /\ mpc = "flag" /\ mpc' = "create" /\ UNCHANGED <<tpc, tslot, initLock, mi>>
        /\ flags' = [flags EXCEPT ![mi] = "INITED"]
    BY <1>4 DEF AddFlag
  <2>2. \A i \in Slots : flags'[i] = "DETACHING" => flags[i] = "DETACHING"
    BY <2>1 DEF TypeOK, SlotType
  <2>3. OrderHasThread'
    BY <2>1, <2>2 DEF OrderHasThread, On, Live, Starting, Waiting, Serving
  <2>4. InitLockKnown'
    BY <2>1 DEF InitLockKnown
  <2>q. QED  BY <2>3, <2>4
<1>5. CASE AddCreate
  <2>1. mpc = "create" /\ mpc' = "await" /\ UNCHANGED <<flags, initLock, mi>> /\ initLock
    BY <1>5 DEF AddCreate, PoolInv, InitLockHeld
  <2>2. CASE created < MaxThreads
    <3>1. created + 1 \in Threads /\ created' = created + 1
      BY <1>5, <2>2, PoolAssumption DEF AddCreate, TypeOK, MainType, Threads
    <3>2. tpc[created + 1] = "none"
      BY <3>1 DEF PoolInv, ThreadIds, Threads, TypeOK, MainType
    <3>3. /\ tpc'[created + 1] = "start" /\ tslot'[created + 1] = mi
          /\ \A t \in Threads \ {created + 1} : tpc'[t] = tpc[t] /\ tslot'[t] = tslot[t]
      BY <1>5, <2>2, <3>1 DEF AddCreate, TypeOK, ThreadType
    <3>4. InitLockKnown'
      BY <2>1, <3>1, <3>3 DEF InitLockKnown
    <3>5. \A t \in Threads : Live(t) => t # created + 1
      BY <3>2 DEF Live, Starting, Waiting, Serving
    <3>6. OrderHasThread'
      BY <2>1, <3>1, <3>3, <3>5 DEF OrderHasThread, On, Live, Starting, Waiting, Serving
    <3>q. QED  BY <3>4, <3>6
  <2>3. CASE ~(created < MaxThreads)
    <3>1. UNCHANGED <<created, tpc, tslot>> /\ created = MaxThreads
      BY <1>5, <2>3, PoolAssumption DEF AddCreate, TypeOK, MainType
    <3>q. QED  BY <2>1, <3>1 DEF InitLockKnown, OrderHasThread, On, Live, Starting, Waiting, Serving
  <2>q. QED  BY <2>2, <2>3
<1>6. CASE AddAwait
  BY <1>6 DEF AddAwait, InitLockKnown, OrderHasThread, On, Live, Starting, Waiting, Serving
<1>q. QED  BY <1>2, <1>3, <1>4, <1>5, <1>6 DEF MainStep

LEMMA StopWorker == TypeOK /\ PoolInv /\ StopInv /\ (\E t \in Threads : WorkerStep(t)) => StopInv'
<1> SUFFICES ASSUME TypeOK, PoolInv, StopInv, NEW t \in Threads, WorkerStep(t) PROVE StopInv'
  OBVIOUS
<1>1. UNCHANGED <<tslot, mi, mpc, created>> /\ tpc \in [Threads -> WorkerPC] /\ flags \in [Slots -> Status]
  BY DEF WorkerStep, WorkerKeeps, mainVars, WorkerStart, WorkerBorn, WorkerTop, WorkerTry, WorkerRun, WorkFetch,
         WorkSelect, WorkRead, WorkHandle, WorkerClose, WorkerClear, WorkerCheck, WorkerBack, WorkerDetach,
         WorkerDec, WorkerDecWrite, SetFlags, TypeOK, ThreadType, SlotType
<1>2. CASE WorkerStart(t)
  <2>1. initLock' = FALSE /\ tpc' = [tpc EXCEPT ![t] = "born"] /\ flags' = flags /\ tpc[t] = "start"
    BY <1>2 DEF WorkerStart, Go, slotVars
  <2>2. tslot[t] = mi /\ mpc = "await"
    BY <2>1 DEF PoolInv, InitLockHeld
  <2>3. Live(t)' /\ \A u \in Threads : Live(u) => Live(u)'
    BY <1>1, <2>1 DEF Live, Starting, Waiting, Serving
  <2>4. OrderHasThread'
    BY <1>1, <2>1, <2>2, <2>3 DEF StopInv, OrderHasThread, On
  <2>q. QED  BY <2>1, <2>4 DEF StopInv, InitLockKnown
<1>3. CASE WorkerDetach(t)
  <2>1. /\ initLock' = initLock /\ tpc' = [tpc EXCEPT ![t] = "dec"] /\ tpc[t] = "detach"
        /\ flags' = [flags EXCEPT ![tslot[t]] = "DETACHED"]
    BY <1>3 DEF WorkerDetach, SetFlags, Go
  <2>2. \A u \in Threads \ {t} : tpc'[u] = tpc[u] /\ (Live(u) => Live(u)')
    BY <1>1, <2>1 DEF Live, Starting, Waiting, Serving
  <2>3. InitLockKnown'
    BY <1>1, <2>1, <2>2 DEF StopInv, InitLockKnown
  <2>4. tslot[t] \in Slots
    BY DEF TypeOK, ThreadType
  <2>5. \A i \in Slots : flags'[i] = "DETACHING" => i # tslot[t] /\ flags[i] = "DETACHING"
    BY <1>1, <2>1, <2>4
  <2>6. OrderHasThread'
    BY <1>1, <2>1, <2>2, <2>5 DEF StopInv, OrderHasThread, On
  <2>q. QED  BY <2>3, <2>6 DEF StopInv
<1>4. CASE ~WorkerStart(t) /\ ~WorkerDetach(t)
  <2>1. initLock' = initLock /\ tpc[t] \notin {"none", "start"}
    BY <1>4 DEF WorkerStep, WorkerBorn, WorkerTop, WorkerTry, WorkerRun, WorkFetch, WorkSelect, WorkRead, WorkHandle,
         WorkerClose, WorkerClear, WorkerCheck, WorkerBack, WorkerDec, WorkerDecWrite, SetFlags, Go
  <2>2. \E to \in WorkerPC : /\ tpc' = [tpc EXCEPT ![t] = to]
                             /\ tpc[t] \notin {"dec", "decw"} => to \notin {"none", "dec", "decw", "gone"}
    <3> USE DEF Go, SetFlags, WorkerPC
    <3>1. CASE WorkerBorn(t) \/ WorkerTop(t) \/ WorkerTry(t) \/ WorkerRun(t) \/ WorkFetch(t)
      BY <3>1 DEF WorkerBorn, WorkerTop, WorkerTry, WorkerRun, WorkFetch
    <3>2. CASE WorkSelect(t) \/ WorkRead(t) \/ WorkHandle(t) \/ WorkerClose(t)
      BY <3>2 DEF WorkSelect, WorkRead, WorkHandle, WorkerClose
    <3>3. CASE WorkerClear(t) \/ WorkerCheck(t) \/ WorkerBack(t)
      BY <3>3 DEF WorkerClear, WorkerCheck, WorkerBack
    <3>4. CASE WorkerDec(t) \/ WorkerDecWrite(t)
      BY <3>4 DEF WorkerDec, WorkerDecWrite
    <3>q. QED  BY <1>4, <3>1, <3>2, <3>3, <3>4 DEF WorkerStep
  <2>3. \A u \in Threads : Live(u) => Live(u)'
    BY <1>1, <2>2 DEF Live, Starting, Waiting, Serving, WorkerPC
  <2>4. \A i \in Slots : flags'[i] = "DETACHING" => flags[i] = "DETACHING"
    BY <1>1, <1>4 DEF WorkerStep, WorkerBorn, WorkerTop, WorkerTry, WorkerRun, WorkFetch, WorkSelect, WorkRead,
         WorkHandle, WorkerClose, WorkerClear, WorkerCheck, WorkerBack, WorkerDec, WorkerDecWrite, SetFlags, slotVars
  <2>5. OrderHasThread'
    BY <1>1, <2>1, <2>3, <2>4, OrdersStay DEF StopInv
  <2>6. created \in Threads /\ tpc[created] = "start" => tpc'[created] = "start"
    BY <1>1, <2>1, <2>2
  <2>7. InitLockKnown'
    BY <1>1, <2>1, <2>6 DEF StopInv, InitLockKnown
  <2>q. QED  BY <2>5, <2>7 DEF StopInv
<1>q. QED  BY <1>2, <1>3, <1>4

LEMMA StopSignal == TypeOK /\ PoolInv /\ StopInv /\ (SigDeliver \/ SigStep) => StopInv'
<1> SUFFICES ASSUME TypeOK, PoolInv, StopInv, SigDeliver \/ SigStep PROVE StopInv'
  OBVIOUS
<1>1. UNCHANGED <<mpc, mi, created, tpc, tslot, initLock>>
  BY DEF SigDeliver, SigStep, SigKeeps, StopSchedule, DestroyLook, WorkerDelete, DestroyDrain, StopFired, StopFree,
         Pass, mainVars, thrVars
<1>2. InitLockKnown'
  BY <1>1 DEF StopInv, InitLockKnown
<1>3. \A t \in Threads : Live(t)' <=> Live(t)
  BY <1>1 DEF Live, Starting, Waiting, Serving
<1>4. CASE WorkerDelete
  <2>1. /\ flags' = [flags EXCEPT ![hi] = "DETACHING"] /\ hpc = "write" /\ hi \in Slots /\ flags \in [Slots -> Status]
    BY <1>4 DEF WorkerDelete, SigGo, TypeOK, SigType, SlotType
  <2>2. flags[hi] \in {"INITED", "IDEL", "RUNNING"}
    BY <2>1 DEF PoolInv, OrdersInTurn, NotYetOrdered, Status, TypeOK, SigType, Slots
  <2>3. (\E t \in On(hi) : Live(t)) \/ (mi = hi /\ (mpc = "create" \/ (mpc = "await" /\ initLock)))
    BY <2>1, <2>2 DEF PoolInv, HasThread
  <2>4. \A i \in Slots \ {hi} : flags'[i] = flags[i]
    BY <2>1
  <2>5. OrderHasThread'
    BY <1>1, <1>3, <2>1, <2>3, <2>4 DEF StopInv, OrderHasThread, On
  <2>q. QED  BY <1>2, <2>5 DEF StopInv
<1>5. CASE ~WorkerDelete
  <2>1. flags' = flags
    BY <1>5 DEF SigDeliver, SigStep, StopSchedule, DestroyLook, DestroyDrain, StopFired, StopFree, Pass
  <2>2. OrderHasThread'
    BY <1>1, <1>3, <2>1, OrdersStay DEF StopInv
  <2>q. QED  BY <1>2, <2>2 DEF StopInv
<1>q. QED  BY <1>4, <1>5

THEOREM StopInvHolds == Spec => []StopInv
<1>1. Init => StopInv
  BY DEF Init, StopInv, InitLockKnown, OrderHasThread
<1>2. StopInv /\ UNCHANGED vars => StopInv'
  BY DEF vars, mainVars, thrVars, slotVars, StopInv, InitLockKnown, OrderHasThread, On, Live, Starting, Waiting,
         Serving
<1>3. TypeOK /\ PoolInv /\ StopInv /\ [Next]_vars => StopInv'
  BY <1>2, StopMain, StopWorker, StopSignal DEF Next
<1>q. QED  BY <1>1, <1>3, TypeCorrect, PoolInvHolds, PTL DEF Spec

\* The two loops of Worker_ScheduleStop that look at the slots again and again, and what keeps them from ending.
HandlerWaitsFor(i) ==
    \/ hpc = "drain" /\ flags[i] \in {"RUNNING", "DETACHING"}
    \/ hpc = "fired" /\ flags[i] \in {"DETACHING", "IDEL"}

WaitsForThread ==
    /\ \A i \in Slots : HandlerWaitsFor(i) =>
          \/ \E t \in On(i) : Live(t)
          \/ mi = i /\ (mpc = "create" \/ (mpc = "await" /\ created = MaxThreads))
    /\ mpc \in {"lock", "await"} /\ initLock =>
          mpc = "await" /\ (created = MaxThreads \/ (created \in Threads /\ tpc[created] = "start"))

(***************************************************************************)
(* The handler of SIGINT waits for a slot (shttpd_worker.c:227-237,        *)
(* 318-327) only while a thread lives in it, or it interrupted Worker_Add  *)
(* between the flag and the thread of that slot; main waits for            *)
(* thread_init only while the thread that it made has yet to run, or there *)
(* are no more threads to be had.  These are the waits of the stop that    *)
(* StopEndsOrKnownHang is about: no other one can keep it from ending.     *)
(***************************************************************************)
THEOREM StopWaitsForThreads == Spec => []WaitsForThread
<1>1. TypeOK /\ PoolInv /\ StopInv => WaitsForThread
  <2> SUFFICES ASSUME TypeOK, PoolInv, StopInv PROVE WaitsForThread
    OBVIOUS
  <2>1. ASSUME NEW i \in Slots, HandlerWaitsFor(i), \A t \in On(i) : ~Live(t)
        PROVE  mi = i /\ (mpc = "create" \/ (mpc = "await" /\ created = MaxThreads))
    <3>1. flags[i] \notin {"RUNNING", "IDEL"}
      BY <2>1 DEF PoolInv, HasThread
    <3>2. flags[i] = "DETACHING"
      BY <2>1, <3>1 DEF HandlerWaitsFor
    <3>3. mi = i /\ (mpc = "create" \/ (mpc = "await" /\ initLock))
      BY <2>1, <3>2 DEF StopInv, OrderHasThread
    <3>4. ~(created \in Threads /\ tpc[created] = "start" /\ tslot[created] = mi)
      BY <2>1, <3>3 DEF On, Live, Starting
    <3>q. QED  BY <3>3, <3>4 DEF StopInv, InitLockKnown
  <2>2. ASSUME mpc \in {"lock", "await"}, initLock
        PROVE  mpc = "await" /\ (created = MaxThreads \/ (created \in Threads /\ tpc[created] = "start"))
    BY <2>2 DEF StopInv, InitLockKnown
  <2>q. QED  BY <2>1, <2>2 DEF WaitsForThread
<1>q. QED  BY <1>1, TypeCorrect, PoolInvHolds, StopInvHolds, PTL
===============================================================================
