-------------------------- MODULE RuleChainsProofs --------------------------
(***************************************************************************)
(* Theorems about the SIPFW rule chains, for every heap, every set of rule *)
(* contents, and any number of command handlers and hooks.                 *)
(***************************************************************************)
EXTENDS RuleChains, FiniteSetTheorems, TLAPS

-----------------------------------------------------------------------------
(* A command that needs one chain is only carried out on one that exists:   *)
(* what makes sipfw_tables[] indexable.                                     *)
OneChain == {"head", "tail", "inc", "incw", "push", "pushw", "seek", "carry",
             "match", "free", "dec", "decw", "drop"}
OnTable ==
    \A h \in Handlers :
        \/ hpc[h] \in OneChain
        \/ hpc[h] = "begin" /\ Op(h) \notin {"List", "Flush", "Destroy"}
        => Chain(h) \in Chains

TypeInv == TypeOK /\ OnTable

\* What a command is, whether a client or SIPFW_Exit gives it.
LEMMA CmdShape ==
    \A c \in Cmds \cup {Destroy} :
        /\ c.op \in CmdNames \cup {"Destroy"}
        /\ c.chain \in 0..All
        /\ c.key \in Keys
        /\ c.number \in Int
        /\ c.number \in Nat \cup {-1}
<1>1. ASSUME NEW c \in Cmds
      PROVE  c.op \in CmdNames /\ c.chain \in 0..All /\ c.key \in Keys /\ c.number \in Nat \cup {-1}
  <2>1. c \in [op : Ops, chain : Targets, key : Keys, number : Positions]
    BY DEF Cmds
  <2>2. c.op \in Ops /\ c.chain \in Targets /\ c.key \in Keys /\ c.number \in Positions
    BY <2>1
  <2>3. Ops \subseteq CmdNames /\ Targets \subseteq 0..All /\ Positions \subseteq Nat \cup {-1}
    BY ChainsAssumption
  <2>4. QED
    BY <2>2, <2>3
<1>2. (CHOOSE k \in Keys : TRUE) \in Keys
  BY ChainsAssumption
<1>3. Destroy.op = "Destroy" /\ Destroy.chain = 3 /\ Destroy.key \in Keys /\ Destroy.number = -1
  BY <1>2 DEF Destroy, All
<1>4. QED
  BY <1>1, <1>3 DEF All

LEMMA TypeInit == Init => TypeInv
BY ChainsAssumption
DEF Init, TypeInv, OnTable, OneChain, TypeOK, HeapType, TableType, HandlerType, HookType,
HandlerPC,
    HookPC, Calmness, Conf, Actions, Chains, Input, Op, Chain

LEMMA TypeUnlink ==
    ASSUME TypeInv, NEW h \in Handlers, hpc[h] \in {"seek", "match"}, cur[h] \in Nodes,
           Unlink(h), Disturb(h)
    PROVE  TypeInv'
<1> USE DEF TypeInv, TypeOK, OnTable, OneChain, Chain, Op, cmdVars, walkVars
<1>1. /\ UNCHANGED <<alloc, key, dest, number, cf, module, cmd, rule, prev, cur, at, ci, tmp,
                     hookVars>>
      /\ hpc' = [hpc EXCEPT ![h] = "free"]
  BY DEF Unlink, Goto
<1>2. Chain(h) \in Chains /\ next[cur[h]] \in Nodes \cup {NIL}
  BY DEF HeapType
<1>3. /\ head' \in [Chains -> Nodes \cup {NIL}]
      /\ next' \in [Nodes -> Nodes \cup {NIL}]
  BY <1>2 DEF Unlink, Redirect, HeapType, TableType
<1>4. HeapType' /\ TableType'
  BY <1>1, <1>3 DEF HeapType, TableType
<1>5. HandlerType'
  BY <1>1 DEF HandlerType, HandlerPC
<1>6. HookType'
  BY <1>1 DEF HookType, hookVars, Disturb, Calmness
<1>7. OnTable'
  BY <1>1, <1>2 DEF HandlerType
<1>8. QED
  BY <1>4, <1>5, <1>6, <1>7

\* A handler's step keeps the types and the tables indexable.
LEMMA TypeHandler ==
    ASSUME TypeInv, NEW h \in Handlers, Handler(h)
    PROVE  TypeInv'
<1> USE CmdShape, ChainsAssumption
    DEF TypeInv, OnTable, OneChain, TypeOK, HeapType, TableType, HandlerType, HookType,
        HandlerPC, Calmness, Chains, All, Op, Chain, heapVars, tableVars, walkVars,
        cmdVars, hookVars, At, Disturb, Goto
<1>1. CASE Receive(h)
  BY <1>1 DEF Receive
<1>2. CASE ReceiveNoMemory(h)
  BY <1>2 DEF ReceiveNoMemory
<1>3. CASE Reply(h)
  BY <1>3 DEF Reply, Return
<1>4. CASE AppendLook(h)
  BY <1>4 DEF AppendLook, StartWalk, Op, Chain
<1>5. CASE AppendHead(h)
  BY <1>5 DEF AppendHead, Chain
<1>6. CASE TailWalk(h)
  BY <1>6 DEF TailWalk, Advance
<1>7. CASE TailLink(h)
  BY <1>7 DEF TailLink, Op
<1>8. CASE CountRead(h)
  BY <1>8 DEF CountRead, Chain
<1>9. CASE CountWrite(h)
  BY <1>9 DEF CountWrite, Chain
<1>10. CASE InsertLook(h)
  BY <1>10 DEF InsertLook, StartWalk, Op, Chain
<1>11. CASE InsertPush(h)
  BY <1>11 DEF InsertPush, Chain
<1>12. CASE InsertPushWrite(h)
  BY <1>12 DEF InsertPushWrite, Chain
<1>13. CASE Seek(h)
  BY <1>13 DEF Seek, Advance, InPlace, Op
<1>14. CASE InsertLink(h)
  BY <1>14 DEF InsertLink, InPlace, Op
<1>15. CASE Carry(h)
  <2>1. /\ hpc[h] = "carry" /\ hpc' \in [Handlers -> HandlerPC]
        /\ \A g \in Handlers \ {h} : hpc'[g] = hpc[g]
        /\ UNCHANGED <<alloc, key, dest, tableVars, cf, module, cmdVars, walkVars, tmp, hookVars>>
    BY <1>15 DEF Carry
  <2>2. next' \in [Nodes -> Nodes \cup {NIL}]
    <3>1. CASE cur[h] = NIL
      BY <1>15, <3>1 DEF Carry
    <3>2. CASE cur[h] # NIL
      <4>1. next[cur[h]] \in Nodes \cup {NIL}
        BY <3>2
      <4>2. next' = [next EXCEPT ![rule[h]] = next[cur[h]]]
        BY <1>15, <3>2 DEF Carry
      <4>3. QED
        BY <4>1, <4>2
    <3>3. QED
      BY <3>1, <3>2
  <2>3. HeapType' /\ TableType' /\ HandlerType'
    BY <2>1, <2>2
  <2>4. HookType'
    BY <1>15 DEF Carry
  <2>5. OnTable'
    BY <2>1
  <2>6. QED
    BY <2>3, <2>4, <2>5
<1>16. CASE ReplaceLook(h)
  BY <1>16 DEF ReplaceLook, StartWalk, Op, Chain
<1>17. CASE ReplaceLink(h)
  BY <1>17 DEF ReplaceLink, Redirect, Chain, Op
<1>18. CASE ReplaceMiss(h)
  BY <1>18 DEF ReplaceMiss
<1>19. CASE ReplaceFree(h)
  BY <1>19 DEF ReplaceFree
<1>20. CASE DeleteLook(h)
  BY <1>20 DEF DeleteLook, StartWalk, Op, Chain
<1>21. CASE DeleteAt(h)
  <2>1. hpc[h] \in {"seek", "match"} /\ cur[h] \in Nodes /\ Unlink(h) /\ Disturb(h)
    BY <1>21 DEF DeleteAt
  <2>2. QED
    BY <2>1, TypeUnlink
<1>22. CASE DeleteMiss(h)
  BY <1>22 DEF DeleteMiss
<1>23. CASE MatchWalk(h)
  BY <1>23 DEF MatchWalk, Advance
<1>24. CASE DeleteMatch(h)
  <2>1. hpc[h] \in {"seek", "match"} /\ cur[h] \in Nodes /\ Unlink(h) /\ Disturb(h)
    BY <1>24 DEF DeleteMatch
  <2>2. QED
    BY <2>1, TypeUnlink
<1>25. CASE MatchMiss(h)
  BY <1>25 DEF MatchMiss
<1>26. CASE DeleteFree(h)
  BY <1>26 DEF DeleteFree
<1>27. CASE UncountRead(h)
  BY <1>27 DEF UncountRead, Chain
<1>28. CASE UncountWrite(h)
  BY <1>28 DEF UncountWrite, Chain
<1>29. CASE FlushLook(h)
  BY <1>29 DEF FlushLook, EnterChain, FirstChain, Chain, Op
<1>30. CASE FlushWalk(h)
  BY <1>30 DEF FlushWalk, Advance
<1>31. CASE FlushHead(h)
  BY <1>31 DEF FlushHead
<1>32. CASE FlushZero(h)
  <2>1. /\ hpc[h] = "zero" /\ Disturb(h)
        /\ number' = [number EXCEPT ![ci[h]] = 0]
        /\ UNCHANGED <<next, key, dest, head, cf, module, cmdVars, tmp, hookVars>>
    BY <1>32 DEF FlushZero
  <2>2. TableType'
    BY <2>1
  <2>3. HookType'
    BY <2>1
  <2>4. CASE ci[h] < LastChain(h)
    <3>1. /\ ci' = [ci EXCEPT ![h] = ci[h] + 1] /\ cur' = [cur EXCEPT ![h] = head[ci[h] + 1]]
          /\ hpc' = [hpc EXCEPT ![h] = "flush"] /\ UNCHANGED <<alloc, prev, at>>
      BY <1>32, <2>4 DEF FlushZero, EnterChain
    <3>2. ci[h] + 1 \in Chains
      BY <2>4 DEF LastChain
    <3>3. HandlerType'
      BY <2>1, <3>1, <3>2
    <3>4. HeapType'
      BY <2>1, <3>1
    <3>5. OnTable'
      BY <2>1, <3>1
    <3>6. QED
      BY <2>2, <2>3, <3>3, <3>4, <3>5
  <2>5. CASE ~(ci[h] < LastChain(h))
    <3>1. /\ alloc' = alloc \ {rule[h]} /\ UNCHANGED walkVars
          /\ hpc' = [hpc EXCEPT ![h] = IF Op(h) = "Flush" THEN "reply" ELSE "hooks"]
      BY <1>32, <2>5 DEF FlushZero
    <3>2. HandlerType'
      BY <2>1, <3>1
    <3>3. HeapType'
      BY <2>1, <3>1
    <3>4. OnTable'
      BY <2>1, <3>1
    <3>5. QED
      BY <2>2, <2>3, <3>2, <3>3, <3>4
  <2>6. QED
    BY <2>4, <2>5
<1>33. CASE ListLook(h)
  BY <1>33 DEF ListLook, FirstChain, Chain, Op
<1>34. CASE ListSend(h)
  BY <1>34 DEF ListSend, Advance
<1>35. CASE ListNext(h)
  <2>1. CASE ci[h] < LastChain(h)
    <3>1. /\ ci' = [ci EXCEPT ![h] = ci[h] + 1] /\ cur' = [cur EXCEPT ![h] = head[ci[h] + 1]]
          /\ UNCHANGED <<hpc, alloc, prev, at, cmdVars, tmp>> /\ Disturb(h)
          /\ UNCHANGED <<next, key, dest, tableVars, cf, module, hookVars>>
      BY <1>35, <2>1 DEF ListNext, EnterChain
    <3>2. ci[h] + 1 \in Chains
      BY <2>1 DEF LastChain
    <3>3. HeapType' /\ TableType' /\ HookType'
      BY <3>1
    <3>4. HandlerType'
      BY <3>1, <3>2
    <3>5. OnTable'
      BY <3>1
    <3>6. QED
      BY <3>3, <3>4, <3>5
  <2>2. CASE ~(ci[h] < LastChain(h))
    <3>1. /\ alloc' = alloc \ {rule[h]} /\ Return(h) /\ Disturb(h)
          /\ UNCHANGED <<next, key, dest, tableVars, cf, module, hookVars>>
      BY <1>35, <2>2 DEF ListNext
    <3>2. HeapType' /\ TableType' /\ HookType'
      BY <3>1
    <3>3. HandlerType'
      BY <3>1 DEF Return
    <3>4. OnTable'
      BY <3>1 DEF Return
    <3>5. QED
      BY <3>2, <3>3, <3>4
  <2>3. QED
    BY <2>1, <2>2
<1>36. CASE ExitBegin(h)
  BY <1>36 DEF ExitBegin, Destroy
<1>37. CASE ExitHooks(h)
  BY <1>37 DEF ExitHooks, Return
<1>38. QED
  BY <1>1, <1>2, <1>3, <1>4, <1>5, <1>6, <1>7, <1>8, <1>9, <1>10, <1>11, <1>12, <1>13, <1>14,
     <1>15, <1>16, <1>17, <1>18, <1>19, <1>20, <1>21, <1>22, <1>23, <1>24, <1>25, <1>26,
     <1>27, <1>28, <1>29, <1>30, <1>31, <1>32, <1>33, <1>34, <1>35, <1>36, <1>37 DEF Handler

LEMMA TypeEnter ==
    ASSUME TypeInv, NEW k \in Hooks, NEW c \in Chains, Enter(k, c)
    PROVE  TypeInv'
<1>1. UNCHANGED <<notHooks, ktmp, hits>>
  BY DEF Enter
<1>2. HeapType' /\ TableType' /\ HandlerType'
  BY <1>1 DEF TypeInv, TypeOK, HeapType, TableType, HandlerType, notHooks, heapVars, tableVars,
     handlerVars
<1>3. kpc' \in [Hooks -> HookPC]
  BY DEF Enter, KGoto, TypeInv, TypeOK, HookType, HookPC
<1>4. kr' \in [Hooks -> Nodes \cup {NIL}] /\ kchain' \in [Hooks -> Chains]
  BY DEF Enter, TypeInv, TypeOK, HookType, TableType
<1>5. kpkt' \in [Hooks -> SUBSET Keys]
  BY DEF Enter, TypeInv, TypeOK, HookType
<1>6. kv' \in [Hooks -> Actions \cup {"STOLEN", "none"}]
  BY DEF Enter, TypeInv, TypeOK, HookType, Actions
<1>7. calm' \in [Hooks -> Calmness]
  <2>1. (IF AllIdle THEN "calm" ELSE IF \A h \in Handlers : hpc[h] = "idle" \/ Growing(h)
         THEN "grown" ELSE "disturbed") \in Calmness
    BY DEF Calmness
  <2>2. QED
    BY <2>1 DEF Enter, TypeInv, TypeOK, HookType
<1>8. ktmp' \in [Hooks -> 0..(HitModulus - 1)] /\ hits' \in 0..(HitModulus - 1)
  BY <1>1 DEF TypeInv, TypeOK, HookType
<1>9. HookType'
  BY <1>3, <1>4, <1>5, <1>6, <1>7, <1>8 DEF HookType
<1>10. OnTable'
  BY <1>1 DEF TypeInv, OnTable, Op, Chain, notHooks, handlerVars
<1>11. QED
  BY <1>2, <1>9, <1>10 DEF TypeInv, TypeOK

\* So does a hook's.
LEMMA TypeHook ==
    ASSUME TypeInv, NEW k \in Hooks, Hook(k)
    PROVE  TypeInv'
<1> USE ChainsAssumption
    DEF TypeInv, OnTable, OneChain, TypeOK, HeapType, TableType, HandlerType, HookType,
        HookPC, Calmness, Chains, Actions, Conf, Op, Chain, heapVars, tableVars, walkVars,
        cmdVars, hookVars, notHooks, handlerVars, KAt, KGoto
<1>1. CASE HookLocalIn(k)
  BY <1>1, TypeEnter DEF HookLocalIn, Input
<1>2. CASE HookLocaOut(k)
  BY <1>2, TypeEnter DEF HookLocaOut, Output
<1>3. CASE HookPreRouting(k)
  BY <1>3, TypeEnter DEF HookPreRouting, Output
<1>4. CASE HookPostRouting(k)
  BY <1>4, TypeEnter DEF HookPostRouting, Output
<1>5. CASE HookForward(k)
  BY <1>5 DEF HookForward
<1>6. CASE HookWalk(k)
  BY <1>6 DEF HookWalk
<1>7. CASE HookMiss(k)
  BY <1>7 DEF HookMiss
<1>8. CASE HookLog(k)
  BY <1>8 DEF HookLog
<1>9. CASE HookHit(k)
  BY <1>9 DEF HookHit
<1>10. CASE HookHitWrite(k)
  BY <1>10 DEF HookHitWrite
<1>11. CASE HookVerdict(k)
  BY <1>11 DEF HookVerdict
<1>12. CASE HookReturn(k)
  BY <1>12 DEF HookReturn, Input
<1>13. QED
  BY <1>1, <1>2, <1>3, <1>4, <1>5, <1>6, <1>7, <1>8, <1>9, <1>10, <1>11, <1>12 DEF Hook

\* So does a write to a proc file.
LEMMA TypeProcWrite == TypeInv /\ ProcWrite => TypeInv'
BY ChainsAssumption
DEF ProcWrite, TypeInv, OnTable, OneChain, TypeOK, HeapType, TableType, HandlerType, HookType,
    Calmness, Chains, Op, Chain, heapVars, tableVars, handlerVars, hookVars

LEMMA TypeStutter == TypeInv /\ UNCHANGED vars => TypeInv'
BY DEF vars, TypeInv, OnTable, TypeOK, HeapType, TableType, HandlerType, HookType, Op, Chain,
       heapVars, tableVars, handlerVars, hookVars

LEMMA TypeNext == TypeInv /\ [Next]_vars => TypeInv'
BY TypeHandler, TypeHook, TypeProcWrite, TypeStutter DEF Next

LEMMA TypeInvHolds == Spec => []TypeInv
<1>1. QED
  BY TypeInit, TypeNext, PTL DEF Spec

(***************************************************************************)
(* The module's variables keep their types: in particular every walk stays *)
(* on cells or NULL, and sipfw_tables[] is only indexed inside its bounds. *)
(***************************************************************************)
THEOREM TypeCorrect == Spec => []TypeOK
<1>1. TypeInv => TypeOK
  BY DEF TypeInv
<1>2. QED
  BY <1>1, TypeInvHolds, PTL

-----------------------------------------------------------------------------
(***************************************************************************)
(* What the lists look like, by a witness: S[c][i] is the rule at place i  *)
(* of chain c, NIL from the end on, and ln[c] is how many there are.  The  *)
(* chain is the one the command means to leave: while a rule has taken a   *)
(* place but does not point on yet ("carry"), the places behind it are     *)
(* those that will follow it.                                              *)
(***************************************************************************)
Cells == Nodes \cup {NIL}

\* Chains end, and no cell stands at two places.
Shape(S, ln) ==
    /\ S \in [Chains -> [Nat -> Cells]]
    /\ ln \in [Chains -> Nat]
    /\ \A c \in Chains : \A i \in Nat : S[c][i] = NIL <=> ln[c] <= i
    /\ \A c, d \in Chains : \A i, j \in Nat :
          S[c][i] = S[d][j] /\ S[c][i] # NIL => c = d /\ i = j

\* The pointers make these chains.
Hanging(n) == \E h \in Handlers : hpc[h] = "carry" /\ rule[h] = n
Linked(S, ln) ==
    /\ \A c \in Chains : head[c] = S[c][0]
    /\ \A c \in Chains : \A i \in Nat :
          i < ln[c] /\ ~Hanging(S[c][i]) => next[S[c][i]] = S[c][i + 1]

\* Only a flush leaves freed cells on the chain it works at.
InUse(S, ln) ==
    \A c \in Chains : \A i \in Nat :
        i < ln[c] => S[c][i] \in alloc \/ \E h \in Handlers : hpc[h] = "flush" /\ ci[h] = c

Off(S, n) == \A c \in Chains : \A i \in Nat : S[c][i] = n => n = NIL
On(S, n) == n # NIL => \E c \in Chains : \E i \in Nat : S[c][i] = n

\* Which command is at which place.
PlaceOfOp(h) ==
    /\ hpc[h] \in {"head", "inc", "incw"} => Op(h) = "Append"
    /\ hpc[h] \in {"push", "pushw"} => Op(h) = "Insert"
    /\ hpc[h] = "tail" => Op(h) \in {"Append", "Insert"}
    /\ hpc[h] = "seek" => Op(h) \in {"Insert", "Delete", "Replace"}
    /\ hpc[h] = "carry" => Op(h) \in {"Insert", "Replace"}
    /\ hpc[h] \in {"match", "free", "dec", "decw"} => Op(h) = "Delete"
    /\ hpc[h] = "drop" => Op(h) = "Replace"
    /\ hpc[h] \in {"flush", "zero"} => Op(h) \in {"Flush", "Destroy"}
    /\ hpc[h] = "list" => Op(h) = "List"
    /\ hpc[h] = "hooks" => Op(h) = "Destroy"
    /\ hpc[h] = "reply" => Op(h) \notin {"List", "Destroy"}

\* The cell of the command, as long as it is on no chain.
Loose == {"begin", "head", "tail", "push", "pushw", "seek", "match", "free", "dec", "decw",
          "flush", "zero", "list"}
OwnCell(S, h) ==
    /\ hpc[h] \in Loose => Off(S, rule[h])
    /\ hpc[h] \in Loose /\ Op(h) # "Destroy" => rule[h] \in alloc
    /\ hpc[h] \in {"begin", "head", "tail", "push", "seek"} /\ Op(h) # "Destroy" =>
          next[rule[h]] = NIL
    /\ hpc[h] = "pushw" => next[rule[h]] = head[Chain(h)]
    /\ hpc[h] = "begin" /\ Op(h) = "Destroy" => rule[h] = NIL

\* A walk along one chain stands at place at - 1.
Walks(S, ln, h) ==
    hpc[h] \in {"head", "tail", "seek", "match", "push", "pushw"} =>
        /\ at[h] \in 1..(ln[Chain(h)] + 1)
        /\ cur[h] = S[Chain(h)][at[h] - 1]
        /\ prev[h] = IF at[h] = 1 THEN NIL ELSE S[Chain(h)][at[h] - 2]

\* Append knows whether the chain is empty, Delete that it goes by content,
\* Insert that its place exists.
Aims(S, ln, h) ==
    /\ hpc[h] = "head" => ln[Chain(h)] = 0
    /\ hpc[h] = "tail" /\ Op(h) = "Append" => ln[Chain(h)] > 0
    /\ hpc[h] = "match" => cmd[h].number = -1
    /\ hpc[h] = "seek" /\ Op(h) = "Insert" =>
          /\ cmd[h].number # 1 /\ cmd[h].number \in Nat /\ cmd[h].number <= ln[Chain(h)]
          /\ at[h] = 1 \/ at[h] <= cmd[h].number

\* cur has left the chain; rule has its place and not yet its pointer.
Carries(S, ln, h) ==
    hpc[h] = "carry" =>
        /\ at[h] \in 1..ln[Chain(h)]
        /\ S[Chain(h)][at[h] - 1] = rule[h]
        /\ cur[h] \in alloc /\ Off(S, cur[h])
        /\ next[cur[h]] = S[Chain(h)][at[h]]

\* What is about to be freed.
Frees(S, h) ==
    /\ hpc[h] \in {"free", "drop"} => cur[h] \in alloc /\ Off(S, cur[h])
    /\ hpc[h] = "free" => cur[h] # rule[h]

\* A flush stands at place j; the cell before it is freed next.
FlushAt(S, ln, h, j) ==
    /\ j <= ln[ci[h]] /\ cur[h] = S[ci[h]][j]
    /\ IF j = 0 THEN Off(S, prev[h]) ELSE prev[h] = S[ci[h]][j - 1]
    /\ \A i \in Nat : j <= i /\ i < ln[ci[h]] => S[ci[h]][i] \in alloc
Flushes(S, ln, h) ==
    /\ hpc[h] \in {"flush", "zero"} => prev[h] = NIL \/ (prev[h] \in alloc /\ prev[h] # rule[h])
    /\ hpc[h] = "flush" => \E j \in Nat : FlushAt(S, ln, h, j)
    /\ hpc[h] = "zero" => ln[ci[h]] = 0 /\ Off(S, prev[h])

\* The counts, which INSERT does not raise, are never above the lengths.
Counted(S, ln) ==
    \A c \in Chains :
        \/ number[c] <= ln[c]
        \/ \E h \in Handlers :
              \/ hpc[h] \in {"free", "dec", "decw"} /\ c = Chain(h) /\ number[c] <= ln[c] + 1
              \/ hpc[h] = "zero" /\ c = ci[h]
Counts(S, ln, h) ==
    /\ hpc[h] = "inc" => number[Chain(h)] + 1 <= ln[Chain(h)]
    /\ hpc[h] = "incw" => tmp[h] + 1 <= ln[Chain(h)]
    /\ hpc[h] = "decw" => tmp[h] <= ln[Chain(h)] + 1

\* Where the cells in hand are, as far as a command loses none.
Keeps(S, h) ==
    /\ hpc[h] \in {"idle", "begin"} => prev[h] = NIL
    /\ hpc[h] \in {"head", "tail", "push", "pushw", "seek", "match", "inc", "incw", "carry",
                   "free", "dec", "decw", "drop", "list"} => On(S, prev[h])
    /\ hpc[h] \in {"inc", "incw", "list"} => On(S, cur[h])
    /\ hpc[h] \in {"inc", "incw", "drop"} => On(S, rule[h])
    /\ hpc[h] \in {"dec", "decw"} => cur[h] \notin alloc
    /\ hpc[h] = "carry" /\ Op(h) = "Insert" => Leaky(h)
    /\ hpc[h] = "reply" /\ ~Leaky(h) =>
          \A n \in {rule[h], prev[h], cur[h]} : n \in alloc => On(S, n)

AstrayAsKnown(h) ==
    hpc[h] = "oops" =>
        \/ rule[h] = NIL
        \/ Chain(h) = All
        \/ Op(h) = "Insert" /\ cmd[h].number = 0
        \/ Op(h) = "Insert" /\ head[Chain(h)] = NIL

InHand(S, ln, h) ==
    /\ PlaceOfOp(h) /\ OwnCell(S, h) /\ Walks(S, ln, h) /\ Aims(S, ln, h)
    /\ Carries(S, ln, h) /\ Frees(S, h) /\ Flushes(S, ln, h) /\ Counts(S, ln, h)
    /\ Keeps(S, h) /\ AstrayAsKnown(h)

\* A hook that is not disturbed stands on its chain, has passed by no rule
\* that fits, and no command that takes rules away has begun to.
Looking == {"log", "hit", "hitw", "verdict"}
Stands(S, ln, k) ==
    /\ kpc[k] = "idle" => kr[k] = NIL /\ calm[k] = "disturbed"
    /\ calm[k] # "disturbed" =>
          /\ \A h \in Handlers : hpc[h] \in {"idle", "begin", "oops"} \/ Growing(h)
          /\ kr[k] # NIL => \E j \in Nat :
                /\ j < ln[kchain[k]] /\ kr[k] = S[kchain[k]][j]
                /\ \A i \in 0..(j - 1) : ~Fits(k, S[kchain[k]][i])
          /\ kpc[k] \in Looking => kr[k] # NIL /\ Fits(k, kr[k])

\* What a hook knows that met no command at all.
NoneFits(S, ln, k) == \A i \in 0..(ln[kchain[k]] - 1) : ~Fits(k, S[kchain[k]][i])
Sure(S, ln, k) ==
    calm[k] = "calm" =>
        /\ \A h \in Handlers : hpc[h] \in {"idle", "begin", "oops"}
        /\ kpc[k] \in Looking \cup {"walk"} => ~cf.Invalid
        /\ kpc[k] = "walk" /\ kr[k] = NIL => NoneFits(S, ln, k)
        /\ kpc[k] = "done" =>
              IF cf.Invalid THEN kv[k] = "ACCEPT"
              ELSE IF kr[k] = NIL THEN NoneFits(S, ln, k) /\ kv[k] = cf.DefaultAction
              ELSE /\ Fits(k, kr[k])
                   /\ kv[k] = IF key[kr[k]] \in Dropping THEN "DROP" ELSE "ACCEPT"

ChainInv(S, ln) ==
    /\ Shape(S, ln) /\ Linked(S, ln) /\ InUse(S, ln) /\ Counted(S, ln)
    /\ \A h \in Handlers : InHand(S, ln, h)
    /\ \A k \in Hooks : Stands(S, ln, k) /\ Sure(S, ln, k)

-----------------------------------------------------------------------------
\* One command at a time, as when a single user process sends them.
OneHandler == \A g, h \in Handlers : g = h

\* A step of a command does not disturb a hook beyond what calm says of it.
LEMMA HooksMeet ==
    ASSUME TypeInv, OneHandler, NEW S, NEW ln, NEW T, NEW m, NEW h \in Handlers,
           Shape(S, ln), \A k \in Hooks : Stands(S, ln, k),
           Disturb(h), UNCHANGED <<key, dest, hookVars>>, hpc[h] # "idle",
           cmd' = cmd \/ hpc'[h] = "idle",
           Growing(h) =>
               \A c \in Chains : \A i \in Nat :
                   i < ln[c] => i < m[c] /\ T[c][i] = S[c][i]
    PROVE  \A k \in Hooks : Stands(T, m, k)' /\ Sure(T, m, k)'
<1> SUFFICES ASSUME NEW k \in Hooks PROVE Stands(T, m, k)' /\ Sure(T, m, k)'
  OBVIOUS
<1>1. /\ calm'[k] = IF Growing(h) /\ calm[k] # "disturbed" THEN "grown" ELSE "disturbed"
      /\ UNCHANGED <<kpc, kchain, kpkt, kr, kv>>
  BY DEF Disturb, hookVars
<1>2. Sure(T, m, k)'
  BY <1>1 DEF Sure
<1>3. CASE Growing(h) /\ calm[k] # "disturbed"
  <2>1. Stands(S, ln, k) /\ kchain[k] \in Chains
    BY DEF TypeInv, TypeOK, HookType
  <2>2. \A g \in Handlers : hpc'[g] \in {"idle", "begin", "oops"} \/ Growing(g)'
    BY <1>3 DEF OneHandler, Growing
  <2>3. \A n : Fits(k, n)' <=> Fits(k, n)
    BY <1>1 DEF Fits
  <2>4. ASSUME kr[k] # NIL
        PROVE  \E j \in Nat : /\ j < m[kchain[k]] /\ kr[k] = T[kchain[k]][j]
                              /\ \A i \in 0..(j - 1) : ~Fits(k, T[kchain[k]][i])
    <3>1. PICK j \in Nat : /\ j < ln[kchain[k]] /\ kr[k] = S[kchain[k]][j]
                           /\ \A i \in 0..(j - 1) : ~Fits(k, S[kchain[k]][i])
      BY <1>3, <2>1, <2>4 DEF Stands
    <3>2. j < m[kchain[k]] /\ kr[k] = T[kchain[k]][j]
      BY <1>3, <2>1, <3>1
    <3>3. ASSUME NEW i \in 0..(j - 1) PROVE ~Fits(k, T[kchain[k]][i])
      <4>1. i \in Nat /\ i < j
        BY <3>1
      <4>2. ln[kchain[k]] \in Nat
        BY <2>1 DEF Shape
      <4>3. i < ln[kchain[k]]
        BY <3>1, <4>1, <4>2
      <4>4. T[kchain[k]][i] = S[kchain[k]][i]
        BY <1>3, <2>1, <4>1, <4>3
      <4>5. QED
        BY <3>1, <4>4
    <3>4. QED
      BY <3>1, <3>2, <3>3
  <2>5. kpc[k] \in Looking => kr[k] # NIL /\ Fits(k, kr[k])
    BY <1>3, <2>1 DEF Stands
  <2>6. kpc[k] # "idle"
    BY <1>3, <2>1 DEF Stands
  <2>7. QED
    BY <1>1, <1>2, <2>2, <2>3, <2>4, <2>5, <2>6 DEF Stands
<1>4. CASE ~(Growing(h) /\ calm[k] # "disturbed")
  <2>1. calm'[k] = "disturbed" /\ Stands(S, ln, k)
    BY <1>1, <1>4
  <2>2. QED
    BY <1>1, <1>2, <2>1 DEF Stands
<1>5. QED
  BY <1>2, <1>3, <1>4

\* What is left to show of a command's step: the chains T it leaves and where
\* it stands on them.
LEMMA CommandStep ==
    ASSUME TypeInv, OneHandler, NEW S, NEW ln, ChainInv(S, ln), NEW T, NEW m,
           NEW h \in Handlers, hpc[h] # "idle", Disturb(h),
           UNCHANGED <<key, dest, hookVars>>, cmd' = cmd \/ hpc'[h] = "idle",
           Growing(h) =>
               \A c \in Chains : \A i \in Nat :
                   i < ln[c] => i < m[c] /\ T[c][i] = S[c][i],
           Shape(T, m), Linked(T, m)', InUse(T, m)', Counted(T, m)', InHand(T, m, h)'
    PROVE  ChainInv(T, m)'
<1>1. \A k \in Hooks : Stands(T, m, k)' /\ Sure(T, m, k)'
  BY HooksMeet DEF ChainInv
<1>2. \A g \in Handlers : InHand(T, m, g)'
  BY DEF OneHandler
<1>3. Shape(T, m)'
  BY DEF Shape, Chains, Cells
<1>4. QED
  BY <1>1, <1>2, <1>3 DEF ChainInv

\* The steps that move no pointer.
LEMMA PointersStay ==
    ASSUME TypeInv, OneHandler, NEW S, NEW ln, ChainInv(S, ln),
           NEW h \in Handlers, hpc[h] # "idle", Disturb(h),
           UNCHANGED <<next, key, dest, head, hookVars>>, cmd' = cmd \/ hpc'[h] = "idle",
           hpc[h] # "carry", hpc'[h] # "carry",
           InUse(S, ln)', Counted(S, ln)', InHand(S, ln, h)'
    PROVE  ChainInv(S, ln)'
<1>1. Shape(S, ln)
  BY DEF ChainInv
<1>2. \A n : ~Hanging(n) /\ ~Hanging(n)'
  BY DEF Hanging, OneHandler
<1>3. Linked(S, ln)'
  BY <1>2 DEF ChainInv, Linked
<1>4. QED
  BY <1>1, <1>3, CommandStep

\* The steps that leave the memory in use and the counts alone as well.
LEMMA TablesStay ==
    ASSUME TypeInv, OneHandler, NEW S, NEW ln, ChainInv(S, ln),
           NEW h \in Handlers, hpc[h] # "idle", Disturb(h),
           UNCHANGED <<alloc, next, key, dest, head, number, hookVars>>,
           cmd' = cmd \/ hpc'[h] = "idle",
           hpc[h] \notin {"carry", "flush", "zero", "free", "dec", "decw"},
           hpc'[h] # "carry", InHand(S, ln, h)'
    PROVE  ChainInv(S, ln)'
<1>1. InUse(S, ln)'
  BY DEF ChainInv, InUse, OneHandler
<1>2. Counted(S, ln)'
  BY DEF ChainInv, Counted, OneHandler
<1>3. QED
  BY <1>1, <1>2, PointersStay

\* A walk goes from one place of the chain to the next.
LEMMA WalkOn ==
    ASSUME TypeInv, OneHandler, NEW S, NEW ln, ChainInv(S, ln), NEW h \in Handlers,
           hpc[h] \in {"tail", "seek", "match"}, cur[h] # NIL, Advance(h)
    PROVE  /\ at'[h] = at[h] + 1 /\ at'[h] \in 2..(ln[Chain(h)] + 1)
           /\ cur'[h] = S[Chain(h)][at'[h] - 1]
           /\ prev'[h] = S[Chain(h)][at'[h] - 2]
           /\ On(S, prev'[h])
           /\ prev'[h] # NIL
<1> DEFINE c == Chain(h)
           i == at[h] - 1
<1>1. c \in Chains
  BY DEF TypeInv, OnTable, OneChain
<1>2. at[h] \in 1..(ln[c] + 1) /\ cur[h] = S[c][i]
  BY DEF ChainInv, InHand, Walks
<1>3. ln[c] \in Nat /\ (S[c][i] = NIL <=> ln[c] <= i)
  BY <1>1, <1>2 DEF ChainInv, Shape
<1>4. i \in Nat /\ i < ln[c]
  BY <1>2, <1>3
<1>5. ~Hanging(S[c][i])
  BY DEF Hanging, OneHandler
<1>6. next[cur[h]] = S[c][i + 1]
  BY <1>1, <1>2, <1>4, <1>5 DEF ChainInv, Linked
<1>7. at'[h] = at[h] + 1 /\ cur'[h] = next[cur[h]] /\ prev'[h] = cur[h]
  BY DEF Advance, TypeInv, TypeOK, HandlerType
<1>8. On(S, cur[h])
  BY <1>1, <1>2, <1>4 DEF On
<1>9. i + 1 = at'[h] - 1 /\ i = at'[h] - 2
  BY <1>2, <1>7
<1>10. QED
  BY <1>2, <1>3, <1>4, <1>6, <1>7, <1>8, <1>9

\* From a rule on a chain the pointers lead to rules on chains.
LEMMA NextIsOn ==
    ASSUME NEW S, NEW ln, Shape(S, ln), Linked(S, ln), \A n : ~Hanging(n),
           NEW m, m # NIL, On(S, m)
    PROVE  On(S, next[m])
<1>1. PICK c \in Chains, i \in Nat : S[c][i] = m
  BY DEF On
<1>2. i < ln[c] /\ i + 1 \in Nat
  BY <1>1 DEF Shape
<1>3. next[m] = S[c][i + 1]
  BY <1>1, <1>2 DEF Linked
<1>4. QED
  BY <1>2, <1>3 DEF On

LEMMA HeadIsOn ==
    ASSUME NEW S, NEW ln, Linked(S, ln), NEW c \in Chains
    PROVE  On(S, head[c])
BY DEF Linked, On

\* When nothing is being taken out, the counts are right.
LEMMA CountsRight ==
    ASSUME OneHandler, NEW S, NEW ln, Counted(S, ln), NEW h \in Handlers,
           hpc[h] \notin {"free", "dec", "decw", "zero"}, NEW c \in Chains
    PROVE  number[c] <= ln[c]
BY DEF Counted, OneHandler

LEMMA CountsNearly ==
    ASSUME OneHandler, NEW S, NEW ln, Shape(S, ln), Counted(S, ln), NEW h \in Handlers,
           hpc[h] \in {"free", "dec", "decw"}, NEW c \in Chains, number[c] \in Int
    PROVE  IF c = Chain(h) THEN number[c] <= ln[c] + 1 ELSE number[c] <= ln[c]
BY DEF Counted, OneHandler, Shape

\* What is known before a command's step.
Known(S, ln, h) ==
    /\ Shape(S, ln) /\ Linked(S, ln) /\ InUse(S, ln) /\ Counted(S, ln) /\ InHand(S, ln, h)
    /\ Op(h) \notin {"List", "Flush", "Destroy"} /\ hpc[h] = "begin" => Chain(h) \in Chains
    /\ hpc[h] \in OneChain => Chain(h) \in Chains
    /\ cmd[h].number \in Nat \cup {-1} /\ \A c \in Chains : number[c] \in Int
    /\ head \in [Chains -> Cells] /\ next \in [Nodes -> Cells]
    /\ hpc \in [Handlers -> HandlerPC] /\ cmd \in [Handlers -> Cmds \cup {Destroy}]
    /\ cur \in [Handlers -> Cells] /\ prev \in [Handlers -> Cells]
    /\ rule \in [Handlers -> Cells] /\ alloc \subseteq Nodes
    /\ at \in [Handlers -> Nat] /\ ci \in [Handlers -> Chains] /\ tmp \in [Handlers -> Int]
LEMMA BeforeStep ==
    ASSUME TypeInv, NEW S, NEW ln, ChainInv(S, ln), NEW h \in Handlers
    PROVE  Known(S, ln, h)
<1>1. /\ Op(h) \notin {"List", "Flush", "Destroy"} /\ hpc[h] = "begin" => Chain(h) \in Chains
      /\ hpc[h] \in OneChain => Chain(h) \in Chains
  BY DEF TypeInv, OnTable
<1>2. QED
  BY <1>1, CmdShape
  DEF Known, ChainInv, TypeInv, TypeOK, HeapType, TableType, HandlerType, Cells

\* A step that leaves memory, chains and counts alone and is not at a place
\* where they are about to change.
LEMMA QuietSteps ==
    ASSUME TypeInv, OneHandler, NEW S, NEW ln, ChainInv(S, ln), NEW h \in Handlers,
           \/ Reply(h) \/ AppendLook(h) \/ TailWalk(h) \/ CountRead(h) \/ InsertLook(h)
           \/ Seek(h) \/ ReplaceMiss(h) \/ MatchWalk(h) \/ MatchMiss(h)
           \/ ListLook(h) \/ ListSend(h)
    PROVE  ChainInv(S, ln)'
<1> USE DEF Known, heapVars, tableVars, walkVars, cmdVars, At, Goto, Op, Chain
<1>1. Known(S, ln, h)
  BY BeforeStep
<1>3. CASE Reply(h)
  <2>1. InHand(S, ln, h)'
    BY <1>1, <1>3 DEF Reply, Return, InHand, PlaceOfOp, OwnCell, Loose, Walks, Aims,
       Carries, Frees, Flushes, Counts, Keeps, AstrayAsKnown
  <2>2. QED
    BY <1>3, <2>1, <1>1, TablesStay DEF Reply, Return
<1>4. CASE AppendLook(h)
  <2>4. PlaceOfOp(h)' /\ OwnCell(S, h)'
    BY <1>1, <1>4 DEF AppendLook, StartWalk, InHand, PlaceOfOp, OwnCell, Loose, Shape, Linked, On
  <2>5. Walks(S, ln, h)' /\ Aims(S, ln, h)'
    BY <1>1, <1>4 DEF AppendLook, StartWalk, InHand, PlaceOfOp, Walks, Aims, Shape, Linked, On
  <2>6. Carries(S, ln, h)' /\ Frees(S, h)' /\ Flushes(S, ln, h)' /\ Counts(S, ln, h)'
    BY <1>1, <1>4 DEF AppendLook, StartWalk, InHand, PlaceOfOp, Carries, Frees, Flushes, Counts, Loose, Shape, Linked, On
  <2>7. Keeps(S, h)' /\ AstrayAsKnown(h)'
    BY <1>1, <1>4 DEF AppendLook, StartWalk, InHand, PlaceOfOp, Keeps, AstrayAsKnown, Loose, Shape, Linked, On
  <2>1. InHand(S, ln, h)'
    BY <2>4, <2>5, <2>6, <2>7 DEF InHand
  <2>2. QED
    BY <1>4, <2>1, <1>1, TablesStay DEF AppendLook, StartWalk
<1>5. CASE TailWalk(h)
  <2>3. /\ at'[h] = at[h] + 1 /\ at'[h] \in 2..(ln[Chain(h)] + 1)
        /\ cur'[h] = S[Chain(h)][at'[h] - 1] /\ prev'[h] = S[Chain(h)][at'[h] - 2]
        /\ On(S, prev'[h]) /\ prev'[h] # NIL
    BY <1>5, WalkOn DEF TailWalk
  <2>4. PlaceOfOp(h)' /\ OwnCell(S, h)'
    BY <1>1, <1>5, <2>3 DEF TailWalk, Advance, InHand, PlaceOfOp, OwnCell, Loose
  <2>5. Walks(S, ln, h)' /\ Aims(S, ln, h)'
    BY <1>1, <1>5, <2>3 DEF TailWalk, Advance, InHand, PlaceOfOp, Walks, Aims
  <2>6. Carries(S, ln, h)' /\ Frees(S, h)' /\ Flushes(S, ln, h)' /\ Counts(S, ln, h)'
    BY <1>1, <1>5, <2>3 DEF TailWalk, Advance, InHand, PlaceOfOp, Carries, Frees, Flushes, Counts, Loose
  <2>7. Keeps(S, h)' /\ AstrayAsKnown(h)'
    BY <1>1, <1>5, <2>3 DEF TailWalk, Advance, InHand, PlaceOfOp, Keeps, AstrayAsKnown, Loose
  <2>1. InHand(S, ln, h)'
    BY <2>4, <2>5, <2>6, <2>7 DEF InHand
  <2>2. QED
    BY <1>1, <1>5, <2>1, TablesStay DEF TailWalk, Advance
<1>6. CASE CountRead(h)
  <2>1. InHand(S, ln, h)'
    BY <1>1, <1>6 DEF CountRead, InHand, PlaceOfOp, OwnCell, Loose, Walks, Aims,
       Carries, Frees, Flushes, Counts, Keeps, AstrayAsKnown
  <2>2. QED
    BY <1>1, <1>6, <2>1, TablesStay DEF CountRead
<1>7. CASE InsertLook(h)
  <2>3. Chain(h) \in Chains /\ number[Chain(h)] <= ln[Chain(h)] /\ ln[Chain(h)] \in Nat
    <3>1. Chain(h) \in Chains /\ hpc[h] = "begin"
      BY <1>1, <1>7 DEF InsertLook
    <3>2. QED
      BY <1>1, <3>1, CountsRight DEF Shape
  <2>4. On(S, head[Chain(h)])
    BY <1>1, <2>3, HeadIsOn
  <2>1. InHand(S, ln, h)'
    <3>1. /\ Op(h) = "Insert" /\ hpc[h] = "begin"
          /\ hpc'[h] \in {"push", "tail", "seek", "reply"}
          /\ hpc'[h] = "seek" => cmd[h].number # 1 /\ cmd[h].number # -1
                                 /\ cmd[h].number <= number[Chain(h)]
          /\ hpc'[h] = "reply" => cmd[h].number = -1
          /\ at'[h] = 1 /\ cur'[h] = head[Chain(h)] /\ prev'[h] = NIL
          /\ UNCHANGED <<cmd, rule, alloc, next, head>>
      BY <1>1, <1>7, <2>3 DEF InsertLook, StartWalk
    <3>2. (PlaceOfOp(h) /\ OwnCell(S, h) /\ Carries(S, ln, h) /\ Frees(S, h))'
      BY <1>1, <3>1 DEF InHand, PlaceOfOp, OwnCell, Loose, Carries, Frees
    <3>3. (Walks(S, ln, h) /\ Aims(S, ln, h))'
      BY <1>1, <2>3, <3>1 DEF Walks, Aims, Linked
    <3>4. (Flushes(S, ln, h) /\ Counts(S, ln, h) /\ AstrayAsKnown(h))'
      BY <3>1 DEF Flushes, Counts, AstrayAsKnown
    <3>5. Keeps(S, h)'
      BY <2>4, <3>1 DEF Keeps, Leaky, On
    <3>6. QED
      BY <3>2, <3>3, <3>4, <3>5 DEF InHand
  <2>2. QED
    BY <1>1, <1>7, <2>1, TablesStay DEF InsertLook, StartWalk
<1>8. CASE Seek(h)
  <2>3. /\ at'[h] = at[h] + 1 /\ at'[h] \in 2..(ln[Chain(h)] + 1)
        /\ cur'[h] = S[Chain(h)][at'[h] - 1] /\ prev'[h] = S[Chain(h)][at'[h] - 2]
        /\ On(S, prev'[h]) /\ prev'[h] # NIL
    BY <1>8, WalkOn DEF Seek
  <2>1. InHand(S, ln, h)'
    BY <1>1, <1>8, <2>3 DEF Seek, InPlace, Advance, InHand, PlaceOfOp, OwnCell, Loose, Walks, Aims,
       Carries, Frees, Flushes, Counts, Keeps, AstrayAsKnown
  <2>2. QED
    BY <1>1, <1>8, <2>1, TablesStay DEF Seek, Advance
<1>9. CASE ReplaceMiss(h)
  <2>1. InHand(S, ln, h)'
    BY <1>1, <1>9 DEF ReplaceMiss, Leaky, InHand, PlaceOfOp, OwnCell, Loose, Walks, Aims,
       Carries, Frees, Flushes, Counts, Keeps, AstrayAsKnown
  <2>2. QED
    BY <1>1, <1>9, <2>1, TablesStay DEF ReplaceMiss
<1>10. CASE MatchWalk(h)
  <2>3. /\ at'[h] = at[h] + 1 /\ at'[h] \in 2..(ln[Chain(h)] + 1)
        /\ cur'[h] = S[Chain(h)][at'[h] - 1] /\ prev'[h] = S[Chain(h)][at'[h] - 2]
        /\ On(S, prev'[h]) /\ prev'[h] # NIL
    BY <1>10, WalkOn DEF MatchWalk
  <2>1. InHand(S, ln, h)'
    BY <1>1, <1>10, <2>3 DEF MatchWalk, Advance, InHand, PlaceOfOp, OwnCell, Loose, Walks, Aims,
       Carries, Frees, Flushes, Counts, Keeps, AstrayAsKnown
  <2>2. QED
    BY <1>1, <1>10, <2>1, TablesStay DEF MatchWalk, Advance
<1>11. CASE MatchMiss(h)
  <2>1. InHand(S, ln, h)'
    BY <1>1, <1>11 DEF MatchMiss, Leaky, InHand, PlaceOfOp, OwnCell, Loose, Walks, Aims,
       Carries, Frees, Flushes, Counts, Keeps, AstrayAsKnown
  <2>2. QED
    BY <1>1, <1>11, <2>1, TablesStay DEF MatchMiss
<1>12. CASE ListLook(h)
  <2>3. FirstChain(h) \in Chains
    BY <1>1, CmdShape DEF FirstChain, All, Chains
  <2>4. On(S, head[FirstChain(h)]) /\ prev[h] = NIL
    BY <1>1, <1>12, <2>3, HeadIsOn DEF ListLook, InHand, Keeps
  <2>1. InHand(S, ln, h)'
    BY <1>1, <1>12, <2>3, <2>4 DEF ListLook, On, InHand, PlaceOfOp, OwnCell, Loose, Walks, Aims,
       Carries, Frees, Flushes, Counts, Keeps, AstrayAsKnown
  <2>2. QED
    BY <1>1, <1>12, <2>1, TablesStay DEF ListLook
<1>13. CASE ListSend(h)
  <2>3. On(S, cur[h]) /\ cur[h] # NIL
    BY <1>1, <1>13 DEF ListSend, InHand, Keeps
  <2>4. On(S, next[cur[h]])
    BY <1>1, <1>13, <2>3, NextIsOn DEF ListSend, Hanging, OneHandler
  <2>1. InHand(S, ln, h)'
    BY <1>1, <1>13, <2>3, <2>4 DEF ListSend, Advance, InHand, PlaceOfOp, OwnCell, Loose, Walks,
       Aims, Carries, Frees, Flushes, Counts, Keeps, AstrayAsKnown
  <2>2. QED
    BY <1>1, <1>13, <2>1, TablesStay DEF ListSend, Advance
<1>14. QED
  BY <1>3, <1>4, <1>5, <1>6, <1>7, <1>8, <1>9, <1>10, <1>11, <1>12, <1>13

\* A cell that is on no chain can be freed.
LEMMA FreeingOff ==
    ASSUME OneHandler, NEW S, NEW ln, Shape(S, ln), InUse(S, ln), NEW h \in Handlers,
           hpc[h] # "flush", NEW x, Off(S, x), alloc' = alloc \/ alloc' = alloc \ {x}
    PROVE  InUse(S, ln)'
<1> SUFFICES ASSUME NEW c \in Chains, NEW i \in Nat, i < ln[c] PROVE S[c][i] \in alloc'
  BY DEF InUse
<1>1. S[c][i] \in alloc
  BY DEF InUse, OneHandler
<1>2. S[c][i] # NIL
  BY DEF Shape
<1>3. QED
  BY <1>1, <1>2 DEF Off

\* The steps that free a cell or change a count, and no pointer.
LEMMA FreeingSteps ==
    ASSUME TypeInv, OneHandler, NEW S, NEW ln, ChainInv(S, ln), NEW h \in Handlers,
           \/ CountWrite(h) \/ ReplaceLook(h) \/ ReplaceFree(h) \/ DeleteLook(h)
           \/ DeleteMiss(h) \/ DeleteFree(h) \/ UncountRead(h) \/ UncountWrite(h)
    PROVE  ChainInv(S, ln)'
<1> USE DEF Known, heapVars, tableVars, walkVars, cmdVars, At, Goto, Op, Chain
<1>1. Known(S, ln, h)
  BY BeforeStep
<1>2. ln \in [Chains -> Nat]
  BY <1>1 DEF Shape
<1>3. CASE CountWrite(h)
  <2>1. Off(S, NIL)
    BY DEF Off
  <2>2. InHand(S, ln, h)'
    BY <1>1, <1>2, <1>3, <2>1 DEF CountWrite, Leaky, InHand, PlaceOfOp, OwnCell, Loose, Walks,
       Aims, Carries, Frees, Flushes, Counts, Keeps, AstrayAsKnown
  <2>3. InUse(S, ln)'
    BY <1>1, <1>3, <2>1, FreeingOff DEF CountWrite
  <2>4. Counted(S, ln)'
    BY <1>1, <1>2, <1>3 DEF CountWrite, Counted, OneHandler, InHand, Counts
  <2>5. QED
    BY <1>1, <1>3, <2>2, <2>3, <2>4, PointersStay DEF CountWrite
<1>4. CASE ReplaceLook(h)
  <2>1. Off(S, rule[h])
    BY <1>1, <1>4 DEF ReplaceLook, InHand, OwnCell, Loose
  <2>6. Chain(h) \in Chains /\ number[Chain(h)] <= ln[Chain(h)]
    BY <1>1, <1>4, CountsRight DEF ReplaceLook
  <2>7. On(S, head[Chain(h)]) /\ On(S, NIL) /\ head[Chain(h)] = S[Chain(h)][0]
    BY <1>1, <2>6, HeadIsOn DEF On, Linked
  <2>2. InHand(S, ln, h)'
    <3>1. PlaceOfOp(h)' /\ OwnCell(S, h)'
      BY <1>1, <1>2, <1>4, <2>1 DEF ReplaceLook, StartWalk, InHand, PlaceOfOp, OwnCell, Loose
    <3>2. Walks(S, ln, h)' /\ Aims(S, ln, h)'
      BY <1>1, <1>2, <1>4, <2>6, <2>7 DEF ReplaceLook, StartWalk, InHand, PlaceOfOp, Walks, Aims
    <3>3. Carries(S, ln, h)' /\ Frees(S, h)' /\ Flushes(S, ln, h)' /\ Counts(S, ln, h)'
      BY <1>1, <1>2, <1>4, <2>6 DEF ReplaceLook, StartWalk, InHand, Carries, Frees, Flushes, Counts
    <3>4. Keeps(S, h)' /\ AstrayAsKnown(h)'
      BY <1>1, <1>2, <1>4, <2>7 DEF ReplaceLook, StartWalk, Leaky, InHand, PlaceOfOp, Keeps, OwnCell,
         Loose, AstrayAsKnown
    <3>5. QED
      BY <3>1, <3>2, <3>3, <3>4 DEF InHand
  <2>3. InUse(S, ln)'
    BY <1>1, <1>4, <2>1, FreeingOff DEF ReplaceLook, StartWalk
  <2>4. Counted(S, ln)'
    BY <1>1, <1>2, <1>4 DEF ReplaceLook, Counted, OneHandler, InHand, Counts, StartWalk
  <2>5. QED
    BY <1>1, <1>4, <2>2, <2>3, <2>4, PointersStay DEF ReplaceLook, StartWalk
<1>5. CASE ReplaceFree(h)
  <2>1. Off(S, cur[h])
    BY <1>1, <1>5 DEF ReplaceFree, InHand, Frees
  <2>2. InHand(S, ln, h)'
    BY <1>1, <1>2, <1>5, <2>1 DEF ReplaceFree, Leaky, InHand, PlaceOfOp, OwnCell, Loose, Walks,
       Aims, Carries, Frees, Flushes, Counts, Keeps, AstrayAsKnown
  <2>3. InUse(S, ln)'
    BY <1>1, <1>5, <2>1, FreeingOff DEF ReplaceFree
  <2>4. Counted(S, ln)'
    BY <1>1, <1>2, <1>5 DEF ReplaceFree, Counted, OneHandler, InHand, Counts
  <2>5. QED
    BY <1>1, <1>5, <2>2, <2>3, <2>4, PointersStay DEF ReplaceFree
<1>6. CASE DeleteLook(h)
  <2>1. Off(S, rule[h])
    BY <1>1, <1>6 DEF DeleteLook, InHand, OwnCell, Loose
  <2>6. Chain(h) \in Chains /\ number[Chain(h)] <= ln[Chain(h)]
    BY <1>1, <1>6, CountsRight DEF DeleteLook
  <2>7. On(S, head[Chain(h)]) /\ On(S, NIL) /\ head[Chain(h)] = S[Chain(h)][0]
    BY <1>1, <2>6, HeadIsOn DEF On, Linked
  <2>2. InHand(S, ln, h)'
    <3>1. PlaceOfOp(h)' /\ OwnCell(S, h)'
      BY <1>1, <1>2, <1>6, <2>1 DEF DeleteLook, StartWalk, InHand, PlaceOfOp, OwnCell, Loose
    <3>2. Walks(S, ln, h)' /\ Aims(S, ln, h)'
      BY <1>1, <1>2, <1>6, <2>6, <2>7 DEF DeleteLook, StartWalk, InHand, PlaceOfOp, Walks, Aims
    <3>3. Carries(S, ln, h)' /\ Frees(S, h)' /\ Flushes(S, ln, h)' /\ Counts(S, ln, h)'
      BY <1>1, <1>2, <1>6, <2>6 DEF DeleteLook, StartWalk, InHand, Carries, Frees, Flushes, Counts
    <3>4. Keeps(S, h)' /\ AstrayAsKnown(h)'
      BY <1>1, <1>2, <1>6, <2>7 DEF DeleteLook, StartWalk, Leaky, InHand, PlaceOfOp, Keeps, OwnCell,
         Loose, AstrayAsKnown
    <3>5. QED
      BY <3>1, <3>2, <3>3, <3>4 DEF InHand
  <2>3. InUse(S, ln)'
    BY <1>1, <1>6, <2>1, FreeingOff DEF DeleteLook, StartWalk
  <2>4. Counted(S, ln)'
    BY <1>1, <1>2, <1>6 DEF DeleteLook, Counted, OneHandler, InHand, Counts, StartWalk
  <2>5. QED
    BY <1>1, <1>6, <2>2, <2>3, <2>4, PointersStay DEF DeleteLook, StartWalk
<1>7. CASE DeleteMiss(h)
  <2>1. Off(S, rule[h])
    BY <1>1, <1>7 DEF DeleteMiss, InHand, OwnCell, Loose
  <2>2. InHand(S, ln, h)'
    BY <1>1, <1>2, <1>7, <2>1 DEF DeleteMiss, Leaky, On, InHand, PlaceOfOp, OwnCell, Loose, Walks,
       Aims, Carries, Frees, Flushes, Counts, Keeps, AstrayAsKnown
  <2>3. InUse(S, ln)'
    BY <1>1, <1>7, <2>1, FreeingOff DEF DeleteMiss
  <2>4. Counted(S, ln)'
    BY <1>1, <1>2, <1>7 DEF DeleteMiss, Counted, OneHandler, InHand, Counts
  <2>5. QED
    BY <1>1, <1>7, <2>2, <2>3, <2>4, PointersStay DEF DeleteMiss
<1>8. CASE DeleteFree(h)
  <2>1. Off(S, cur[h])
    BY <1>1, <1>8 DEF DeleteFree, InHand, Frees
  <2>2. InHand(S, ln, h)'
    BY <1>1, <1>2, <1>8, <2>1 DEF DeleteFree, InHand, PlaceOfOp, OwnCell, Loose, Walks, Aims,
       Carries, Frees, Flushes, Counts, Keeps, AstrayAsKnown
  <2>3. InUse(S, ln)'
    BY <1>1, <1>8, <2>1, FreeingOff DEF DeleteFree
  <2>4. Counted(S, ln)'
    BY <1>1, <1>2, <1>8 DEF DeleteFree, Counted, OneHandler, InHand, Counts
  <2>5. QED
    BY <1>1, <1>8, <2>2, <2>3, <2>4, PointersStay DEF DeleteFree
<1>9. CASE UncountRead(h)
  <2>1. Off(S, NIL)
    BY DEF Off
  <2>6. number[Chain(h)] <= ln[Chain(h)] + 1
    BY <1>1, <1>9, CountsNearly DEF UncountRead, OneChain
  <2>2. InHand(S, ln, h)'
    BY <1>1, <1>2, <1>9, <2>1, <2>6 DEF UncountRead, InHand, PlaceOfOp, OwnCell, Loose, Walks,
       Aims, Carries, Frees, Flushes, Counts, Keeps, AstrayAsKnown
  <2>3. InUse(S, ln)'
    BY <1>1, <1>9, <2>1, FreeingOff DEF UncountRead
  <2>4. Counted(S, ln)'
    BY <1>1, <1>2, <1>9 DEF UncountRead, Counted, OneHandler, InHand, Counts
  <2>5. QED
    BY <1>1, <1>9, <2>2, <2>3, <2>4, PointersStay DEF UncountRead
<1>10. CASE UncountWrite(h)
  <2>1. Off(S, rule[h])
    BY <1>1, <1>10 DEF UncountWrite, InHand, OwnCell, Loose
  <2>2. InHand(S, ln, h)'
    BY <1>1, <1>2, <1>10, <2>1 DEF UncountWrite, Leaky, InHand, PlaceOfOp, OwnCell, Loose, Walks,
       Aims, Carries, Frees, Flushes, Counts, Keeps, AstrayAsKnown
  <2>3. InUse(S, ln)'
    BY <1>1, <1>10, <2>1, FreeingOff DEF UncountWrite
  <2>4. Counted(S, ln)'
    <3>1. Chain(h) \in Chains /\ hpc[h] = "decw" /\ tmp[h] <= ln[Chain(h)] + 1
      BY <1>1, <1>10 DEF UncountWrite, OneChain, InHand, Counts
    <3>2. number' = [number EXCEPT ![Chain(h)] = tmp[h] - 1] /\ DOMAIN number = Chains
      BY <1>10 DEF UncountWrite, TypeInv, TypeOK, TableType
    <3>3. \A c \in Chains : number'[c] <= ln[c]
      BY <1>1, <1>2, <3>1, <3>2, CountsNearly
    <3>4. QED
      BY <3>3 DEF Counted
  <2>5. QED
    BY <1>1, <1>10, <2>2, <2>3, <2>4, PointersStay DEF UncountWrite
<1>11. QED
  BY <1>3, <1>4, <1>5, <1>6, <1>7, <1>8, <1>9, <1>10

\* The steps that go from chain to chain.
LEMMA ListNextStep ==
    ASSUME TypeInv, OneHandler, NEW S, NEW ln, ChainInv(S, ln), NEW h \in Handlers, ListNext(h)
    PROVE  ChainInv(S, ln)'
<1> USE DEF Known, heapVars, tableVars, walkVars, cmdVars, At, Goto, Op, Chain
<1>1. Known(S, ln, h) /\ hpc[h] = "list"
  BY BeforeStep DEF ListNext
<1>2. CASE ci[h] < LastChain(h)
  <2>1. ci[h] + 1 \in Chains
    BY <1>1, <1>2, CmdShape DEF LastChain, All, Chains
  <2>2. On(S, head[ci[h] + 1])
    BY <1>1, <2>1, HeadIsOn
  <2>3. InHand(S, ln, h)'
    BY <1>1, <1>2, <2>2 DEF ListNext, EnterChain, InHand, PlaceOfOp, OwnCell, Loose, Walks,
       Aims, Carries, Frees, Flushes, Counts, Keeps, AstrayAsKnown
  <2>4. QED
    BY <1>1, <1>2, <2>3, TablesStay DEF ListNext, EnterChain
<1>3. CASE ~(ci[h] < LastChain(h))
  <2>1. alloc' = alloc \ {rule[h]} /\ Return(h) /\ Disturb(h)
        /\ UNCHANGED <<next, key, dest, head, number, hookVars>>
    BY <1>3 DEF ListNext
  <2>2. hpc'[h] = "idle" /\ prev'[h] = NIL
    BY <1>1, <2>1 DEF Return
  <2>3. InHand(S, ln, h)'
    BY <2>2 DEF InHand, PlaceOfOp, OwnCell, Loose, Walks, Aims, Carries, Frees, Flushes,
       Counts, Keeps, AstrayAsKnown
  <2>4. InUse(S, ln)'
    BY <1>1, <2>1, FreeingOff DEF InHand, OwnCell, Loose
  <2>5. Counted(S, ln)'
    BY <1>1, <2>1 DEF Counted, OneHandler
  <2>6. QED
    BY <1>1, <2>1, <2>2, <2>3, <2>4, <2>5, PointersStay
<1>4. QED
  BY <1>2, <1>3

LEMMA ExitHooksStep ==
    ASSUME TypeInv, OneHandler, NEW S, NEW ln, ChainInv(S, ln), NEW h \in Handlers, ExitHooks(h)
    PROVE  ChainInv(S, ln)'
<1> USE DEF Known, heapVars, tableVars, cmdVars, At, Goto, Op, Chain
<1>1. Known(S, ln, h) /\ hpc[h] = "hooks"
  BY BeforeStep DEF ExitHooks
<1>2. /\ hpc'[h] = "idle" /\ prev'[h] = NIL /\ Disturb(h)
      /\ UNCHANGED <<alloc, next, key, dest, head, number, hookVars>>
  BY <1>1 DEF ExitHooks, Return
<1>3. InHand(S, ln, h)'
  BY <1>2 DEF InHand, PlaceOfOp, OwnCell, Loose, Walks, Aims, Carries, Frees, Flushes,
     Counts, Keeps, AstrayAsKnown
<1>4. QED
  BY <1>1, <1>2, <1>3, TablesStay

\* A flush begins at the first rule of its first chain ...
LEMMA FlushLookStep ==
    ASSUME TypeInv, OneHandler, NEW S, NEW ln, ChainInv(S, ln), NEW h \in Handlers, FlushLook(h)
    PROVE  ChainInv(S, ln)'
<1> USE DEF Known, heapVars, tableVars, cmdVars, At, Goto, Op, Chain
<1>1. Known(S, ln, h) /\ hpc[h] = "begin" /\ ln \in [Chains -> Nat]
  BY BeforeStep DEF FlushLook, Shape
<1>2. FirstChain(h) \in Chains
  BY <1>1, CmdShape DEF FirstChain, All, Chains
<1>3. /\ hpc'[h] = "flush" /\ prev'[h] = NIL /\ ci'[h] = FirstChain(h)
      /\ cur'[h] = head[FirstChain(h)] /\ Op(h) \in {"Flush", "Destroy"} /\ Disturb(h)
      /\ UNCHANGED <<alloc, next, key, dest, head, number, hookVars, cmd, rule>>
  BY <1>1 DEF FlushLook, EnterChain
<1>4. \A i \in Nat : i < ln[FirstChain(h)] => S[FirstChain(h)][i] \in alloc
  BY <1>1, <1>2 DEF InUse, OneHandler
<1>5. FlushAt(S, ln, h, 0)'
  BY <1>1, <1>2, <1>3, <1>4 DEF FlushAt, Linked, Off
<1>6. Flushes(S, ln, h)'
  BY <1>3, <1>5 DEF Flushes
<1>7. InHand(S, ln, h)'
  BY <1>1, <1>3, <1>6 DEF InHand, PlaceOfOp, OwnCell, Loose, Walks, Aims, Carries, Frees,
     Counts, Keeps, AstrayAsKnown
<1>8. QED
  BY <1>1, <1>3, <1>7, TablesStay

\* ... frees the rule before the one it stands at and goes on ...
LEMMA FlushWalkStep ==
    ASSUME TypeInv, OneHandler, NEW S, NEW ln, ChainInv(S, ln), NEW h \in Handlers, FlushWalk(h)
    PROVE  ChainInv(S, ln)'
<1> USE DEF Known, heapVars, tableVars, cmdVars, At, Goto, Op, Chain
<1> DEFINE c == ci[h]
<1>1. /\ Known(S, ln, h) /\ hpc[h] = "flush" /\ cur[h] # NIL /\ ln \in [Chains -> Nat]
      /\ c \in Chains
  BY BeforeStep DEF FlushWalk, Shape
<1>2. /\ hpc' = hpc /\ ci' = ci /\ prev'[h] = cur[h] /\ cur'[h] = next[cur[h]] /\ Disturb(h)
      /\ UNCHANGED <<next, key, dest, head, number, hookVars, cmd, rule>>
      /\ alloc' = alloc \ {prev[h]}
  BY <1>1 DEF FlushWalk, Advance
<1>3. PICK j \in Nat : FlushAt(S, ln, h, j)
  BY <1>1 DEF InHand, Flushes
<1>4. cur[h] = S[c][j] /\ j < ln[c]
  BY <1>1, <1>3 DEF FlushAt, Shape
<1>5. cur[h] \in alloc /\ prev[h] # cur[h]
  <2>1. cur[h] \in alloc
    BY <1>3, <1>4 DEF FlushAt
  <2>2. CASE j = 0
    BY <1>1, <1>3, <1>4, <2>1, <2>2 DEF FlushAt, Off
  <2>3. CASE j # 0
    <3>1. prev[h] = S[c][j - 1] /\ j - 1 \in Nat /\ j - 1 # j
      BY <1>3, <2>3 DEF FlushAt
    <3>2. QED
      BY <1>1, <1>4, <2>1, <3>1 DEF Shape
  <2>4. QED
    BY <2>1, <2>2, <2>3
<1>6. next[cur[h]] = S[c][j + 1]
  BY <1>1, <1>4 DEF Linked, Hanging, OneHandler
<1>7. \A i \in Nat : j <= i /\ i < ln[c] => S[c][i] # prev[h]
  <2> SUFFICES ASSUME NEW i \in Nat, j <= i, i < ln[c], S[c][i] = prev[h] PROVE FALSE
    OBVIOUS
  <2>1. S[c][i] # NIL
    BY <1>1 DEF Shape
  <2>2. CASE j = 0
    BY <1>1, <1>3, <2>1, <2>2 DEF FlushAt, Off
  <2>3. CASE j # 0
    <3>1. prev[h] = S[c][j - 1] /\ j - 1 \in Nat /\ j - 1 # i
      BY <1>3, <2>3 DEF FlushAt
    <3>2. QED
      BY <1>1, <2>1, <3>1 DEF Shape
  <2>4. QED
    BY <2>2, <2>3
<1>8. FlushAt(S, ln, h, j + 1)'
  <2>1. j + 1 <= ln[c] /\ cur'[h] = S[c][j + 1] /\ prev'[h] = S[c][(j + 1) - 1]
    BY <1>1, <1>2, <1>4, <1>6
  <2>2. \A i \in Nat : j + 1 <= i /\ i < ln[c] => S[c][i] \in alloc'
    BY <1>2, <1>3, <1>7 DEF FlushAt
  <2>3. QED
    BY <1>2, <2>1, <2>2 DEF FlushAt
<1>9. rule[h] # cur[h]
  BY <1>1, <1>4, <1>5 DEF InHand, OwnCell, Loose, Off
<1>10. Flushes(S, ln, h)'
  BY <1>1, <1>2, <1>5, <1>8, <1>9 DEF Flushes
<1>11. OwnCell(S, h)'
  <2>1. Off(S, rule[h]) /\ (Op(h) # "Destroy" => rule[h] \in alloc)
    BY <1>1 DEF InHand, OwnCell, Loose
  <2>2. prev[h] = NIL \/ prev[h] # rule[h]
    BY <1>1 DEF InHand, Flushes
  <2>3. NIL \notin alloc
    BY <1>1, ChainsAssumption
  <2>4. QED
    BY <1>1, <1>2, <2>1, <2>2, <2>3 DEF OwnCell, Loose, Off
<1>12. InHand(S, ln, h)'
  BY <1>1, <1>2, <1>10, <1>11 DEF InHand, PlaceOfOp, Walks, Aims, Carries, Frees,
     Counts, Keeps, AstrayAsKnown
<1>13. InUse(S, ln)'
  <2> SUFFICES ASSUME NEW d \in Chains, NEW i \in Nat, i < ln[d], d # c
               PROVE  S[d][i] \in alloc'
    BY <1>1, <1>2 DEF InUse
  <2>1. S[d][i] \in alloc /\ S[d][i] # NIL
    BY <1>1 DEF InUse, OneHandler, Shape
  <2>2. S[d][i] # prev[h]
    <3>1. CASE j = 0
      BY <1>3, <2>1, <3>1 DEF FlushAt, Off
    <3>2. CASE j # 0
      <4>1. prev[h] = S[c][j - 1] /\ j - 1 \in Nat
        BY <1>3, <3>2 DEF FlushAt
      <4>2. QED
        BY <1>1, <2>1, <4>1 DEF Shape
    <3>3. QED
      BY <3>1, <3>2
  <2>3. QED
    BY <1>2, <2>1, <2>2
<1>14. Counted(S, ln)'
  BY <1>1, <1>2 DEF Counted, OneHandler
<1>15. QED
  BY <1>1, <1>2, <1>12, <1>13, <1>14, PointersStay

\* ... takes the chain off the table at its end ...
LEMMA FlushHeadStep ==
    ASSUME TypeInv, OneHandler, NEW S, NEW ln, ChainInv(S, ln), NEW h \in Handlers, FlushHead(h)
    PROVE  \E T, m : ChainInv(T, m)'
<1> USE DEF Known, heapVars, tableVars, walkVars, cmdVars, At, Goto, Op, Chain
<1> DEFINE c == ci[h]
<1>1. /\ Known(S, ln, h) /\ hpc[h] = "flush" /\ cur[h] = NIL /\ c \in Chains
      /\ ln \in [Chains -> Nat] /\ S \in [Chains -> [Nat -> Cells]]
  BY BeforeStep DEF FlushHead, Shape
<1>2. /\ hpc'[h] = "zero" /\ head' = [head EXCEPT ![c] = NIL] /\ Disturb(h)
      /\ UNCHANGED <<alloc, next, key, dest, number, hookVars, cmd, rule, prev, cur, at, ci, tmp>>
  BY <1>1 DEF FlushHead
<1>3. PICK T, m :
         /\ \A d \in Chains : d # c => T[d] = S[d] /\ m[d] = ln[d]
         /\ T[c] = [i \in Nat |-> NIL] /\ m[c] = 0
         /\ T \in [Chains -> [Nat -> Cells]] /\ m \in [Chains -> Nat]
  <2> DEFINE T == [S EXCEPT ![c] = [i \in Nat |-> NIL]]
             m == [ln EXCEPT ![c] = 0]
  <2>1. /\ \A d \in Chains : d # c => T[d] = S[d] /\ m[d] = ln[d]
        /\ T[c] = [i \in Nat |-> NIL] /\ m[c] = 0
        /\ T \in [Chains -> [Nat -> Cells]] /\ m \in [Chains -> Nat]
    BY <1>1 DEF Cells
  <2>2. QED
    BY <2>1
<1>4. \A i \in Nat : T[c][i] = NIL
  BY <1>3
<1>5. Shape(T, m)
  <2>1. ASSUME NEW d \in Chains, NEW i \in Nat PROVE T[d][i] = NIL <=> m[d] <= i
    <3>1. CASE d = c
      BY <1>3, <1>4, <3>1
    <3>2. CASE d # c
      BY <1>1, <1>3, <3>2 DEF Shape
    <3>3. QED
      BY <3>1, <3>2
  <2>2. \A d, e \in Chains : \A i, j \in Nat :
            T[d][i] = T[e][j] /\ T[d][i] # NIL => d = e /\ i = j
    BY <1>1, <1>3, <1>4 DEF Shape
  <2>3. QED
    BY <1>3, <2>1, <2>2 DEF Shape
<1>6. \A n : Off(S, n) => Off(T, n)
  BY <1>3, <1>4 DEF Off
<1>7. Linked(T, m)'
  <2>1. \A n : ~Hanging(n) /\ ~Hanging(n)'
    BY <1>1, <1>2 DEF Hanging, OneHandler
  <2>2. \A d \in Chains : head'[d] = T[d][0]
    BY <1>1, <1>2, <1>3, <1>4 DEF Linked
  <2>3. ASSUME NEW d \in Chains, NEW i \in Nat, i < m[d] PROVE next'[T[d][i]] = T[d][i + 1]
    <3>1. d # c
      BY <1>3, <2>3
    <3>2. T[d] = S[d] /\ i < ln[d]
      BY <1>3, <2>3, <3>1
    <3>3. next[S[d][i]] = S[d][i + 1]
      BY <1>1, <2>1, <3>2 DEF Linked
    <3>4. QED
      BY <1>2, <3>2, <3>3
  <2>4. QED
    BY <2>2, <2>3 DEF Linked
<1>8. InUse(T, m)'
  <2> SUFFICES ASSUME NEW d \in Chains, NEW i \in Nat, i < m[d] PROVE T[d][i] \in alloc
    BY <1>2 DEF InUse
  <2>1. d # c
    BY <1>3
  <2>2. QED
    BY <1>1, <1>3, <2>1 DEF InUse, OneHandler
<1>9. Counted(T, m)'
  <2>1. \A d \in Chains : number[d] <= ln[d]
    BY <1>1, CountsRight
  <2>2. QED
    BY <1>1, <1>2, <1>3, <2>1 DEF Counted
<1>10. PICK j \in Nat : FlushAt(S, ln, h, j)
  BY <1>1 DEF InHand, Flushes
<1>11. Off(T, prev[h])
  <2>1. CASE j = 0
    BY <1>6, <1>10, <2>1 DEF FlushAt
  <2>2. CASE j # 0
    <3>1. prev[h] = S[c][j - 1] /\ j - 1 \in Nat
      BY <1>10, <2>2 DEF FlushAt
    <3>2. ASSUME NEW d \in Chains, NEW i \in Nat, T[d][i] = prev[h], prev[h] # NIL
          PROVE  FALSE
      <4>1. d # c
        BY <1>4, <3>2
      <4>2. S[d][i] = S[c][j - 1] /\ S[d][i] # NIL
        BY <1>3, <3>1, <3>2, <4>1
      <4>3. Shape(S, ln) /\ c \in Chains
        BY <1>1
      <4>4. QED
        BY <3>1, <4>1, <4>2, <4>3 DEF Shape
    <3>3. QED
      BY <3>2 DEF Off
  <2>3. QED
    BY <2>1, <2>2
<1>12. InHand(T, m, h)'
  <2>1. Flushes(T, m, h)'
    BY <1>1, <1>2, <1>3, <1>11 DEF InHand, Flushes, Off
  <2>2. OwnCell(T, h)'
    BY <1>1, <1>2, <1>6 DEF InHand, OwnCell, Loose, Off
  <2>3. QED
    BY <1>1, <1>2, <2>1, <2>2 DEF InHand, PlaceOfOp, Walks, Aims, Carries, Frees, Counts,
       Keeps, AstrayAsKnown
<1>13. ~Growing(h)
  BY <1>1 DEF InHand, PlaceOfOp, Growing
<1>14. ChainInv(T, m)'
  BY <1>1, <1>2, <1>5, <1>7, <1>8, <1>9, <1>12, <1>13, CommandStep
<1>15. QED
  BY <1>14

\* ... and resets its count, to go on with the next chain or to end.
LEMMA FlushZeroStep ==
    ASSUME TypeInv, OneHandler, NEW S, NEW ln, ChainInv(S, ln), NEW h \in Handlers, FlushZero(h)
    PROVE  ChainInv(S, ln)'
<1> USE DEF Known, heapVars, tableVars, cmdVars, At, Goto, Op, Chain
<1> DEFINE c == ci[h]
<1>1. /\ Known(S, ln, h) /\ hpc[h] = "zero" /\ c \in Chains /\ ln \in [Chains -> Nat]
      /\ number' = [number EXCEPT ![c] = 0] /\ DOMAIN number = Chains /\ Disturb(h)
      /\ UNCHANGED <<next, key, dest, head, hookVars, cmd, rule, prev>>
  BY BeforeStep DEF FlushZero, Shape, TypeInv, TypeOK, TableType, walkVars
<1>2. ln[c] = 0 /\ Off(S, prev[h]) /\ Off(S, rule[h]) /\ Op(h) \in {"Flush", "Destroy"}
  BY <1>1 DEF InHand, Flushes, OwnCell, Loose, PlaceOfOp
<1>3. Counted(S, ln)'
  <2>1. \A d \in Chains : number'[d] <= ln[d]
    BY <1>1, <1>2 DEF Counted, OneHandler
  <2>2. QED
    BY <2>1 DEF Counted
<1>4. CASE c < LastChain(h)
  <2>1. c + 1 \in Chains
    BY <1>1, <1>4, CmdShape DEF LastChain, All, Chains
  <2>2. /\ hpc'[h] = "flush" /\ ci'[h] = c + 1 /\ cur'[h] = head[c + 1] /\ alloc' = alloc
    BY <1>1, <1>4 DEF FlushZero, EnterChain
  <2>3. \A i \in Nat : i < ln[c + 1] => S[c + 1][i] \in alloc
    BY <1>1, <2>1 DEF InUse, OneHandler
  <2>4. FlushAt(S, ln, h, 0)'
    BY <1>1, <1>2, <2>1, <2>2, <2>3 DEF FlushAt, Linked, Off
  <2>5. Flushes(S, ln, h)'
    BY <1>1, <2>2, <2>4 DEF InHand, Flushes
  <2>6. InHand(S, ln, h)'
    BY <1>1, <1>2, <2>2, <2>5 DEF InHand, PlaceOfOp, OwnCell, Loose, Walks, Aims, Carries, Frees,
       Counts, Keeps, AstrayAsKnown, Off
  <2>7. InUse(S, ln)'
    BY <1>1, <1>2, <2>2, FreeingOff
  <2>8. QED
    BY <1>1, <1>3, <2>2, <2>6, <2>7, PointersStay
<1>5. CASE ~(c < LastChain(h))
  <2>1. /\ hpc'[h] = IF Op(h) = "Flush" THEN "reply" ELSE "hooks"
        /\ alloc' = alloc \ {rule[h]} /\ cur' = cur
    BY <1>1, <1>5 DEF FlushZero, walkVars
  <2>2. InHand(S, ln, h)'
    BY <1>1, <1>2, <2>1 DEF InHand, PlaceOfOp, OwnCell, Loose, Walks, Aims, Carries, Frees,
       Flushes, Counts, Keeps, Leaky, AstrayAsKnown
  <2>3. InUse(S, ln)'
    BY <1>1, <1>2, <2>1, FreeingOff
  <2>4. QED
    BY <1>1, <1>3, <2>1, <2>2, <2>3, PointersStay
<1>6. QED
  BY <1>4, <1>5

\* A hook notices nothing of a command that has only just come.
LEMMA HooksUnaware ==
    ASSUME OneHandler, NEW S, NEW ln, Shape(S, ln), TypeInv,
           \A k \in Hooks : Stands(S, ln, k) /\ Sure(S, ln, k),
           UNCHANGED <<dest, hookVars, cf, calm>>,
           \A x \in Nodes : key'[x] = key[x] \/ Off(S, x),
           \A h \in Handlers : hpc'[h] \in {"idle", "begin", "oops"}
    PROVE  \A k \in Hooks : Stands(S, ln, k)' /\ Sure(S, ln, k)'
<1> SUFFICES ASSUME NEW k \in Hooks PROVE Stands(S, ln, k)' /\ Sure(S, ln, k)'
  OBVIOUS
<1> DEFINE c == kchain[k]
<1>1. /\ UNCHANGED <<kpc, kchain, kpkt, kr, kv, calm, cf>> /\ c \in Chains /\ ln[c] \in Nat
      /\ kr[k] \in Cells
  BY DEF hookVars, TypeInv, TypeOK, HookType, Shape, Cells
<1>2. \A i \in Nat : i < ln[c] => S[c][i] \in Nodes /\ ~Off(S, S[c][i])
  BY <1>1 DEF Shape, Off, Cells
<1>3. \A x \in Nodes : ~Off(S, x) => key'[x] = key[x]
  OBVIOUS
<1>4. ASSUME calm[k] # "disturbed", kr[k] # NIL
      PROVE  /\ \E j \in Nat :
                   /\ j < ln[c] /\ kr[k] = S[c][j] /\ \A i \in 0..(j - 1) : ~Fits(k, S[c][i])'
             /\ Fits(k, kr[k])' = Fits(k, kr[k]) /\ key'[kr[k]] = key[kr[k]]
  <2>1. PICK j \in Nat : /\ j < ln[c] /\ kr[k] = S[c][j]
                         /\ \A i \in 0..(j - 1) : ~Fits(k, S[c][i])
    BY <1>4 DEF Stands
  <2>2. \A i \in 0..(j - 1) : i \in Nat /\ i < ln[c]
    BY <1>1, <2>1
  <2>3. ASSUME NEW i \in 0..(j - 1) PROVE ~Fits(k, S[c][i])'
    <3>1. i \in Nat /\ i < ln[c] /\ ~Fits(k, S[c][i])
      BY <2>1, <2>2
    <3>2. S[c][i] \in Nodes /\ ~Off(S, S[c][i])
      BY <1>2, <3>1
    <3>3. QED
      BY <1>1, <1>3, <3>1, <3>2 DEF Fits
  <2>4. ~Off(S, kr[k]) /\ kr[k] \in Nodes
    BY <1>2, <2>1
  <2>5. key'[kr[k]] = key[kr[k]] /\ Fits(k, kr[k])' = Fits(k, kr[k])
    BY <1>1, <1>3, <2>4 DEF Fits
  <2>6. QED
    BY <2>1, <2>3, <2>5
<1>5. Stands(S, ln, k)'
  <2>1. kpc[k] = "idle" => kr[k] = NIL /\ calm[k] = "disturbed"
    BY DEF Stands
  <2>2. calm[k] # "disturbed" /\ kpc[k] \in Looking => kr[k] # NIL /\ Fits(k, kr[k])'
    BY <1>4 DEF Stands
  <2>3. QED
    BY <1>1, <1>4, <2>1, <2>2 DEF Stands
<1>6. NoneFits(S, ln, k) => NoneFits(S, ln, k)'
  <2>1. \A i \in 0..(ln[c] - 1) : i \in Nat /\ i < ln[c]
    BY <1>1
  <2>2. QED
    BY <1>1, <1>2, <1>3, <2>1 DEF NoneFits, Fits
<1>7. Sure(S, ln, k)'
  <2> SUFFICES ASSUME calm[k] = "calm" PROVE Sure(S, ln, k)'
    BY <1>1 DEF Sure
  <2>1. kr[k] # NIL => Fits(k, kr[k])' = Fits(k, kr[k]) /\ key'[kr[k]] = key[kr[k]]
    BY <1>4
  <2>2. QED
    BY <1>1, <1>6, <2>1 DEF Sure
<1>8. QED
  BY <1>5, <1>7

\* The steps with which a command comes in.
LEMMA ReceiveStep ==
    ASSUME TypeInv, OneHandler, NEW S, NEW ln, ChainInv(S, ln), NEW h \in Handlers, Receive(h)
    PROVE  ChainInv(S, ln)'
<1> USE DEF Known, heapVars, tableVars, walkVars, cmdVars, Goto, Op, Chain
<1>1. /\ Known(S, ln, h) /\ hpc[h] = "idle" /\ prev[h] = NIL
      /\ UNCHANGED <<dest, hookVars, cf, calm, head, number, prev, cur, at, ci, tmp>>
  BY BeforeStep DEF Receive, InHand, Keeps
<1>2. PICK c \in Cmds, n \in Nodes \ alloc :
         /\ cmd' = [cmd EXCEPT ![h] = c]
         /\ rule' = [rule EXCEPT ![h] = n]
         /\ alloc' = alloc \cup {n}
         /\ next' = [next EXCEPT ![n] = NIL]
         /\ key' = [key EXCEPT ![n] = c.key]
         /\ hpc' = [hpc EXCEPT ![h] = IF c.chain = All /\ c.op \notin {"List", "Flush"}
                                      THEN "oops" ELSE "begin"]
  BY DEF Receive
<1>3. \A d \in Chains : \A i \in Nat : i < ln[d] => S[d][i] \in alloc
  BY <1>1 DEF InUse, OneHandler
<1>4. Off(S, n) /\ n # NIL
  BY <1>1, <1>2, <1>3, ChainsAssumption DEF Off, Shape
<1>5. /\ cmd'[h] = c /\ rule'[h] = n /\ n \in alloc' /\ next'[n] = NIL
      /\ hpc'[h] \in {"begin", "oops"} /\ (hpc'[h] = "oops" => c.chain = All)
      /\ c.op # "Destroy"
      /\ \A x \in Nodes : x # n => next'[x] = next[x] /\ key'[x] = key[x]
  BY <1>1, <1>2, ChainsAssumption DEF TypeInv, TypeOK, HeapType, Cmds, CmdNames
<1>6. Linked(S, ln)'
  <2>1. \A x : ~Hanging(x)
    BY <1>1 DEF Hanging, OneHandler
  <2>2. \A d \in Chains : \A i \in Nat : i < ln[d] => S[d][i] \in Nodes /\ S[d][i] # n
    BY <1>1, <1>3, <1>2
  <2>3. \A d \in Chains : \A i \in Nat : i < ln[d] => next'[S[d][i]] = S[d][i + 1]
    BY <1>1, <1>5, <2>1, <2>2 DEF Linked
  <2>4. QED
    BY <1>1, <2>3 DEF Linked
<1>7. InUse(S, ln)'
  BY <1>2, <1>3 DEF InUse
<1>8. Counted(S, ln)'
  BY <1>1 DEF Counted, OneHandler
<1>9. \A g \in Handlers : InHand(S, ln, g)'
  BY <1>1, <1>4, <1>5 DEF OneHandler, InHand, PlaceOfOp, OwnCell, Loose, Walks, Aims, Carries,
     Frees, Flushes, Counts, Keeps, On, AstrayAsKnown
<1>10. \A k \in Hooks : Stands(S, ln, k)' /\ Sure(S, ln, k)'
  <2>1. \A g \in Handlers : hpc'[g] \in {"idle", "begin", "oops"}
    BY <1>5 DEF OneHandler
  <2>2. \A x \in Nodes : key'[x] = key[x] \/ Off(S, x)
    BY <1>4, <1>5
  <2>3. QED
    BY <1>1, <2>1, <2>2, HooksUnaware DEF ChainInv
<1>11. Shape(S, ln)'
  BY <1>1 DEF Shape, Chains, Cells
<1>12. QED
  BY <1>6, <1>7, <1>8, <1>9, <1>10, <1>11 DEF ChainInv

LEMMA BareSteps ==
    ASSUME TypeInv, OneHandler, NEW S, NEW ln, ChainInv(S, ln), NEW h \in Handlers,
           ReceiveNoMemory(h) \/ ExitBegin(h)
    PROVE  ChainInv(S, ln)'
<1> USE DEF Known, heapVars, tableVars, walkVars, cmdVars, Goto, Op, Chain
<1>1. Known(S, ln, h) /\ hpc[h] = "idle" /\ prev[h] = NIL
  BY BeforeStep DEF ReceiveNoMemory, ExitBegin, InHand, Keeps
<1>2. /\ UNCHANGED <<alloc, next, key, dest, hookVars, cf, calm, head, number,
                     prev, cur, at, ci, tmp>>
      /\ rule'[h] = NIL
      /\ hpc'[h] = "oops" \/ (hpc'[h] = "begin" /\ cmd'[h].op = "Destroy")
  <2>1. CASE ReceiveNoMemory(h)
    <3>1. rule' = [rule EXCEPT ![h] = NIL] /\ hpc' = [hpc EXCEPT ![h] = "oops"]
      BY <2>1 DEF ReceiveNoMemory
    <3>2. rule'[h] = NIL /\ hpc'[h] = "oops"
      BY <1>1, <3>1
    <3>3. UNCHANGED <<alloc, next, key, dest, hookVars, cf, calm, head, number,
                      prev, cur, at, ci, tmp>>
      BY <2>1 DEF ReceiveNoMemory
    <3>4. QED
      BY <3>2, <3>3
  <2>2. CASE ExitBegin(h)
    BY <1>1, <2>2 DEF ExitBegin, Destroy
  <2>3. QED
    BY <2>1, <2>2
<1>3. Linked(S, ln)'
  <2>1. \A x : ~Hanging(x) /\ ~Hanging(x)'
    BY <1>1, <1>2 DEF Hanging, OneHandler
  <2>2. QED
    BY <1>1, <1>2, <2>1 DEF Linked
<1>4. InUse(S, ln)' /\ Counted(S, ln)'
  BY <1>1, <1>2 DEF InUse, Counted, OneHandler
<1>5. \A g \in Handlers : InHand(S, ln, g)'
  <2>1. PlaceOfOp(h)' /\ OwnCell(S, h)' /\ Walks(S, ln, h)' /\ Aims(S, ln, h)'
    BY <1>1, <1>2 DEF InHand, PlaceOfOp, OwnCell, Loose, Walks, Aims, Off, Destroy, Keeps
  <2>2. Carries(S, ln, h)' /\ Frees(S, h)' /\ Flushes(S, ln, h)' /\ Counts(S, ln, h)'
    BY <1>1, <1>2 DEF InHand, Carries, Frees, Flushes, Counts
  <2>3. Keeps(S, h)' /\ AstrayAsKnown(h)'
    BY <1>1, <1>2 DEF InHand, PlaceOfOp, OwnCell, Keeps, On, AstrayAsKnown, Destroy
  <2>4. QED
    BY <2>1, <2>2, <2>3 DEF OneHandler, InHand
<1>6. \A k \in Hooks : Stands(S, ln, k)' /\ Sure(S, ln, k)'
  BY <1>1, <1>2, HooksUnaware DEF ChainInv, OneHandler
<1>7. Shape(S, ln)'
  BY <1>1, <1>2 DEF Shape, Chains, Cells
<1>8. QED
  BY <1>3, <1>4, <1>5, <1>6, <1>7 DEF ChainInv

\* The new rule points at the chain ...
LEMMA InsertPushStep ==
    ASSUME TypeInv, OneHandler, NEW S, NEW ln, ChainInv(S, ln), NEW h \in Handlers, InsertPush(h)
    PROVE  ChainInv(S, ln)'
<1> USE DEF Known, heapVars, tableVars, walkVars, cmdVars, At, Goto, Op, Chain
<1>1. /\ Known(S, ln, h) /\ hpc[h] = "push" /\ hpc'[h] = "pushw" /\ Disturb(h)
      /\ next' = [next EXCEPT ![rule[h]] = head[Chain(h)]] /\ Chain(h) \in Chains
      /\ UNCHANGED <<alloc, key, dest, head, number, hookVars, cmd, rule, prev, cur, at, ci, tmp>>
  BY BeforeStep DEF InsertPush, OneChain
<1>2. Op(h) = "Insert" /\ Off(S, rule[h]) /\ rule[h] \in alloc
  BY <1>1 DEF InHand, PlaceOfOp, OwnCell, Loose
<1>3. Linked(S, ln)'
  <2>1. \A x : ~Hanging(x)
    BY <1>1 DEF Hanging, OneHandler
  <2>2. \A d \in Chains : \A i \in Nat : i < ln[d] => S[d][i] # NIL
    BY <1>1 DEF Shape
  <2>3. \A d \in Chains : \A i \in Nat : i < ln[d] => S[d][i] # rule[h]
    BY <1>1, <1>2, <2>2 DEF Off
  <2>4. \A d \in Chains : \A i \in Nat : i < ln[d] => next'[S[d][i]] = next[S[d][i]]
    <3> SUFFICES ASSUME NEW d \in Chains, NEW i \in Nat, i < ln[d]
                 PROVE  next'[S[d][i]] = next[S[d][i]]
      OBVIOUS
    <3>1. S[d][i] \in Nodes /\ S[d][i] # rule[h]
      BY <1>1, <2>2, <2>3 DEF Shape, Cells
    <3>2. QED
      BY <1>1, <3>1
  <2>5. QED
    BY <1>1, <2>1, <2>4 DEF Linked
<1>4. next'[rule[h]] = head[Chain(h)]
  BY <1>1, <1>2
<1>5. InHand(S, ln, h)'
  BY <1>1, <1>2, <1>4 DEF InHand, PlaceOfOp, OwnCell, Loose, Walks, Aims, Carries, Frees,
     Flushes, Counts, Keeps, AstrayAsKnown
<1>6. InUse(S, ln)'
  BY <1>1, <1>2, FreeingOff
<1>7. Counted(S, ln)'
  BY <1>1 DEF Counted, OneHandler
<1>8. Shape(S, ln)
  BY <1>1
<1>9. QED
  BY <1>1, <1>3, <1>5, <1>6, <1>7, <1>8, CommandStep

\* A chain with a rule more.
LEMMA Longer ==
    ASSUME NEW S, NEW ln, Shape(S, ln), NEW c \in Chains, NEW k \in Nat, k <= ln[c],
           NEW n \in Nodes, Off(S, n)
    PROVE  \E T, m :
              /\ Shape(T, m)
              /\ \A d \in Chains : d # c => T[d] = S[d] /\ m[d] = ln[d]
              /\ m[c] = ln[c] + 1 /\ T[c][k] = n
              /\ \A i \in Nat : i < k => T[c][i] = S[c][i]
              /\ \A i \in Nat : k <= i => T[c][i + 1] = S[c][i]
              /\ \A x : Off(T, x) <=> Off(S, x) /\ x # n
              /\ \A x : On(S, x) => On(T, x)
              /\ On(T, n)
<1> DEFINE row == [i \in Nat |-> IF i < k THEN S[c][i] ELSE IF i = k THEN n ELSE S[c][i - 1]]
           T == [S EXCEPT ![c] = row]
           m == [ln EXCEPT ![c] = ln[c] + 1]
<1>1. S \in [Chains -> [Nat -> Cells]] /\ ln \in [Chains -> Nat] /\ n # NIL
  BY ChainsAssumption DEF Shape
<1>2. row \in [Nat -> Cells]
  <2> SUFFICES ASSUME NEW i \in Nat
               PROVE  (IF i < k THEN S[c][i] ELSE IF i = k THEN n ELSE S[c][i - 1]) \in Cells
    OBVIOUS
  <2>1. i = k \/ i < k \/ i - 1 \in Nat
    OBVIOUS
  <2>2. QED
    BY <1>1, <2>1 DEF Cells
<1>3. /\ T \in [Chains -> [Nat -> Cells]] /\ m \in [Chains -> Nat]
      /\ \A d \in Chains : d # c => T[d] = S[d] /\ m[d] = ln[d]
      /\ m[c] = ln[c] + 1 /\ T[c] = row
  BY <1>1, <1>2
<1>4. /\ \A i \in Nat : i < k => row[i] = S[c][i]
      /\ row[k] = n
      /\ \A i \in Nat : k < i => row[i] = S[c][i - 1]
  OBVIOUS
<1> HIDE DEF T, m, row
<1>5. \A i \in Nat : k <= i => T[c][i + 1] = S[c][i]
  <2> SUFFICES ASSUME NEW i \in Nat, k <= i PROVE T[c][i + 1] = S[c][i]
    OBVIOUS
  <2>1. i + 1 \in Nat /\ k < i + 1 /\ (i + 1) - 1 = i
    OBVIOUS
  <2>2. row[i + 1] = S[c][(i + 1) - 1]
    BY <1>4, <2>1
  <2>3. QED
    BY <1>3, <2>1, <2>2
<1>6. \A i \in Nat : /\ i < k => T[c][i] = S[c][i]
                     /\ i = k => T[c][i] = n
                     /\ k < i => i - 1 \in Nat /\ T[c][i] = S[c][i - 1]
  BY <1>3, <1>4
<1>7. \A d \in Chains : \A i \in Nat : T[d][i] = NIL <=> m[d] <= i
  <2> SUFFICES ASSUME NEW d \in Chains, NEW i \in Nat PROVE T[d][i] = NIL <=> m[d] <= i
    OBVIOUS
  <2>1. CASE d # c
    BY <1>3, <2>1 DEF Shape
  <2>2. CASE d = c /\ i < k
    <3>1. S[c][i] # NIL
      BY <1>1, <2>2 DEF Shape
    <3>2. QED
      BY <1>1, <1>3, <1>6, <2>2, <3>1
  <2>3. CASE d = c /\ i = k
    BY <1>1, <1>3, <1>6, <2>3
  <2>4. CASE d = c /\ k < i
    <3>1. i - 1 \in Nat /\ T[c][i] = S[c][i - 1]
      BY <1>6, <2>4
    <3>2. S[c][i - 1] = NIL <=> ln[c] <= i - 1
      BY <3>1 DEF Shape
    <3>3. QED
      BY <1>1, <1>3, <2>4, <3>1, <3>2
  <2>5. QED
    BY <2>1, <2>2, <2>3, <2>4
\* Where a rule of T stands in S.
<1> DEFINE from(d, i) == IF d = c /\ k < i THEN i - 1 ELSE i
<1>8. ASSUME NEW d \in Chains, NEW i \in Nat, ~(d = c /\ i = k)
      PROVE  from(d, i) \in Nat /\ T[d][i] = S[d][from(d, i)]
  <2>1. CASE d # c
    BY <1>3, <2>1
  <2>2. CASE d = c
    BY <1>6, <1>8, <2>2
  <2>3. QED
    BY <2>1, <2>2
<1>9. ASSUME NEW d \in Chains, NEW i \in Nat, NEW j \in Nat, ~(d = c /\ i = k), ~(d = c /\ j = k),
             from(d, i) = from(d, j)
      PROVE  i = j
  BY <1>9
<1> HIDE DEF from
<1>10. \A d, e \in Chains : \A i, j \in Nat : T[d][i] = T[e][j] /\ T[d][i] # NIL => d = e /\ i = j
  <2> SUFFICES ASSUME NEW d \in Chains, NEW e \in Chains, NEW i \in Nat, NEW j \in Nat,
                      T[d][i] = T[e][j], T[d][i] # NIL
               PROVE  d = e /\ i = j
    OBVIOUS
  <2>1. CASE d = c /\ i = k
    <3>1. T[e][j] = n
      BY <1>6, <2>1
    <3>2. CASE ~(e = c /\ j = k)
      BY <1>1, <1>8, <3>1, <3>2 DEF Off
    <3>3. QED
      BY <2>1, <3>2
  <2>2. CASE ~(d = c /\ i = k) /\ e = c /\ j = k
    BY <1>1, <1>6, <1>8, <2>2 DEF Off
  <2>3. CASE ~(d = c /\ i = k) /\ ~(e = c /\ j = k)
    <3>1. S[d][from(d, i)] = S[e][from(e, j)] /\ S[d][from(d, i)] # NIL
      BY <1>8, <2>3
    <3>2. d = e /\ from(d, i) = from(e, j)
      BY <1>8, <2>3, <3>1 DEF Shape
    <3>3. QED
      BY <1>9, <2>3, <3>2
  <2>4. QED
    BY <2>1, <2>2, <2>3
<1>11. Shape(T, m)
  BY <1>3, <1>7, <1>10 DEF Shape
<1>12. \A d \in Chains : \A i \in Nat : \E j \in Nat : T[d][j] = S[d][i]
  <2> SUFFICES ASSUME NEW d \in Chains, NEW i \in Nat PROVE \E j \in Nat : T[d][j] = S[d][i]
    OBVIOUS
  <2>1. CASE d # c \/ i < k
    BY <1>3, <1>6, <2>1
  <2>2. CASE d = c /\ k <= i
    BY <1>5, <2>2
  <2>3. QED
    BY <2>1, <2>2
<1>13. \A x : On(S, x) => On(T, x)
  BY <1>12 DEF On
<1>14. \A x : Off(T, x) <=> Off(S, x) /\ x # n
  <2>1. T[c][k] = n /\ n # NIL
    BY <1>1, <1>6
  <2>2. ASSUME NEW x, Off(T, x) PROVE Off(S, x) /\ x # n
    BY <1>12, <2>1, <2>2 DEF Off
  <2>3. ASSUME NEW x, Off(S, x), x # n PROVE Off(T, x)
    BY <1>6, <1>8, <2>3 DEF Off
  <2>4. QED
    BY <2>2, <2>3
<1>15. On(T, n)
  BY <1>6 DEF On
<1>16. QED
  BY <1>3, <1>5, <1>6, <1>11, <1>13, <1>14, <1>15

\* ... and the chain at the new rule.
LEMMA InsertPushWriteStep ==
    ASSUME TypeInv, OneHandler, NEW S, NEW ln, ChainInv(S, ln), NEW h \in Handlers,
           InsertPushWrite(h)
    PROVE  \E T, m : ChainInv(T, m)'
<1> USE DEF Known, heapVars, tableVars, walkVars, cmdVars, At, Goto, Op, Chain
<1> DEFINE c == Chain(h)
<1>1. /\ Known(S, ln, h) /\ hpc[h] = "pushw" /\ hpc'[h] = "reply" /\ Disturb(h) /\ c \in Chains
      /\ head' = [head EXCEPT ![c] = rule[h]]
      /\ UNCHANGED <<alloc, next, key, dest, number, hookVars, cmd, rule, prev, cur, at, ci, tmp>>
  BY BeforeStep DEF InsertPushWrite, OneChain
<1>2. /\ Op(h) = "Insert" /\ Off(S, rule[h]) /\ rule[h] \in Nodes /\ rule[h] \in alloc
      /\ next[rule[h]] = S[c][0]
  BY <1>1 DEF InHand, PlaceOfOp, OwnCell, Loose, Linked
<1>3. ln \in [Chains -> Nat] /\ Shape(S, ln) /\ ln[c] \in Nat
  <2>1. ln \in [Chains -> Nat] /\ Shape(S, ln) /\ c \in Chains
    BY <1>1 DEF Shape
  <2> HIDE DEF c
  <2>2. QED
    BY <2>1
<1>4. PICK T, m :
         /\ Shape(T, m)
         /\ \A d \in Chains : d # c => T[d] = S[d] /\ m[d] = ln[d]
         /\ m[c] = ln[c] + 1 /\ T[c][0] = rule[h]
         /\ \A i \in Nat : 0 <= i => T[c][i + 1] = S[c][i]
         /\ \A x : Off(T, x) <=> Off(S, x) /\ x # rule[h]
         /\ \A x : On(S, x) => On(T, x)
         /\ On(T, rule[h])
  <2>1. c \in Chains
    BY <1>1
  <2>2. rule[h] \in Nodes /\ Off(S, rule[h])
    BY <1>2
  <2> HIDE DEF c
  <2>3. 0 \in Nat /\ 0 <= ln[c]
    BY <1>3
  <2>4. QED
    BY <1>3, <2>1, <2>2, <2>3, Longer
<1>5. ASSUME NEW d \in Chains, NEW i \in Nat, i < m[d]
      PROVE  \/ d = c /\ i = 0
             \/ d = c /\ i - 1 \in Nat /\ i - 1 < ln[c] /\ T[d][i] = S[c][i - 1]
                      /\ T[d][i + 1] = S[c][(i - 1) + 1]
             \/ d # c /\ i < ln[d] /\ T[d] = S[d]
  <2>1. CASE d # c
    BY <1>4, <1>5, <2>1
  <2>2. CASE d = c /\ i # 0
    <3>1. i - 1 \in Nat /\ (i - 1) + 1 = i /\ 0 <= i - 1
      BY <2>2
    <3>2. T[c][(i - 1) + 1] = S[c][i - 1] /\ T[c][i + 1] = S[c][i]
      BY <1>4, <3>1
    <3>3. i - 1 < ln[c]
      BY <1>3, <1>4, <1>5, <2>2
    <3>4. QED
      BY <2>2, <3>1, <3>2, <3>3
  <2>3. QED
    BY <2>1, <2>2
<1>6. Linked(T, m)'
  <2>1. \A d \in Chains : \A i \in Nat : i < ln[d] => next[S[d][i]] = S[d][i + 1]
    BY <1>1 DEF Linked, Hanging, OneHandler
  <2>2. \A d \in Chains : head'[d] = T[d][0]
    BY <1>1, <1>4 DEF Linked
  <2>3. ASSUME NEW d \in Chains, NEW i \in Nat, i < m[d] PROVE next[T[d][i]] = T[d][i + 1]
    <3>1. CASE d = c /\ i = 0
      <4>1. T[c][0 + 1] = S[c][0]
        BY <1>4
      <4>2. QED
        BY <1>2, <1>4, <3>1, <4>1
    <3>2. CASE ~(d = c /\ i = 0)
      BY <1>5, <2>1, <2>3, <3>2
    <3>3. QED
      BY <3>1, <3>2
  <2>4. QED
    BY <1>1, <2>2, <2>3 DEF Linked
<1>7. InUse(T, m)'
  <2> SUFFICES ASSUME NEW d \in Chains, NEW i \in Nat, i < m[d] PROVE T[d][i] \in alloc
    BY <1>1 DEF InUse
  <2>1. \A e \in Chains : \A j \in Nat : j < ln[e] => S[e][j] \in alloc
    BY <1>1 DEF InUse, OneHandler
  <2>2. QED
    BY <1>1, <1>2, <1>4, <1>5, <2>1
<1>8. Counted(T, m)'
  <2>1. \A d \in Chains : number[d] <= ln[d] /\ number[d] \in Int
    BY <1>1, CountsRight
  <2>2. \A d \in Chains : number[d] <= m[d]
    BY <1>3, <1>4, <2>1
  <2>3. QED
    BY <1>1, <2>2 DEF Counted
<1>9. InHand(T, m, h)'
  <2>1. On(S, prev[h]) /\ On(T, prev[h]) /\ On(T, rule[h])
    BY <1>1, <1>4 DEF InHand, Keeps
  <2>2. On(T, cur[h])
    <3>1. On(S, cur[h])
      BY <1>1 DEF InHand, Walks, On
    <3>2. QED
      BY <1>4, <3>1
  <2>3. QED
    BY <1>1, <1>2, <2>1, <2>2 DEF InHand, PlaceOfOp, OwnCell, Loose, Walks, Aims, Carries, Frees,
       Flushes, Counts, Keeps, AstrayAsKnown
<1>10. ~Growing(h)
  BY <1>1, <1>2 DEF Growing
<1>11. Shape(T, m)
  BY <1>4
<1>12. ChainInv(T, m)'
  BY <1>1, <1>6, <1>7, <1>8, <1>9, <1>10, <1>11, CommandStep
<1>13. QED
  BY <1>12

\* The steps that put the new rule at the end of the chain.
LEMMA AppendHeadStep ==
    ASSUME TypeInv, OneHandler, NEW S, NEW ln, ChainInv(S, ln), NEW h \in Handlers, AppendHead(h)
    PROVE  \E T, m : ChainInv(T, m)'
<1> USE DEF Known, heapVars, tableVars, walkVars, cmdVars, At, Goto, Op, Chain
<1> DEFINE c == Chain(h)
<1>1. /\ Known(S, ln, h) /\ hpc[h] = "head" /\ hpc'[h] = "inc" /\ Disturb(h) /\ c \in Chains
      /\ head' = [head EXCEPT ![c] = rule[h]]
      /\ UNCHANGED <<alloc, next, key, dest, number, hookVars, cmd, rule, prev, cur, at, ci, tmp>>
  BY BeforeStep DEF AppendHead, OneChain
<1>2. /\ Op(h) = "Append" /\ Off(S, rule[h]) /\ rule[h] \in Nodes /\ rule[h] \in alloc
      /\ next[rule[h]] = NIL /\ ln[c] = 0
  BY <1>1 DEF InHand, PlaceOfOp, OwnCell, Loose, Aims
<1>3. ln \in [Chains -> Nat] /\ Shape(S, ln) /\ ln[c] \in Nat
  <2>1. ln \in [Chains -> Nat] /\ Shape(S, ln) /\ c \in Chains
    BY <1>1 DEF Shape
  <2> HIDE DEF c
  <2>2. QED
    BY <2>1
<1>4. PICK T, m :
         /\ Shape(T, m)
         /\ \A d \in Chains : d # c => T[d] = S[d] /\ m[d] = ln[d]
         /\ m[c] = ln[c] + 1 /\ T[c][0] = rule[h]
         /\ \A i \in Nat : 0 <= i => T[c][i + 1] = S[c][i]
         /\ \A x : Off(T, x) <=> Off(S, x) /\ x # rule[h]
         /\ \A x : On(S, x) => On(T, x)
         /\ On(T, rule[h])
  <2>1. c \in Chains
    BY <1>1
  <2>2. rule[h] \in Nodes /\ Off(S, rule[h])
    BY <1>2
  <2> HIDE DEF c
  <2>3. 0 \in Nat /\ 0 <= ln[c]
    BY <1>3
  <2>4. QED
    BY <1>3, <2>1, <2>2, <2>3, Longer
<1>5. ASSUME NEW d \in Chains, NEW i \in Nat, i < m[d]
      PROVE  \/ d = c /\ i = 0
             \/ d # c /\ i < ln[d] /\ T[d] = S[d]
  BY <1>2, <1>4, <1>5
<1>6. Linked(T, m)'
  <2>1. \A d \in Chains : \A i \in Nat : i < ln[d] => next[S[d][i]] = S[d][i + 1]
    BY <1>1 DEF Linked, Hanging, OneHandler
  <2>2. \A d \in Chains : head'[d] = T[d][0]
    BY <1>1, <1>4 DEF Linked
  <2>3. ASSUME NEW d \in Chains, NEW i \in Nat, i < m[d] PROVE next[T[d][i]] = T[d][i + 1]
    <3>1. CASE d = c /\ i = 0
      <4>1. T[c][0 + 1] = S[c][0]
        BY <1>4
      <4>2. S[c][0] = NIL
        BY <1>1, <1>2 DEF Shape
      <4>3. QED
        BY <1>2, <1>4, <3>1, <4>1, <4>2
    <3>2. CASE ~(d = c /\ i = 0)
      BY <1>5, <2>1, <2>3, <3>2
    <3>3. QED
      BY <3>1, <3>2
  <2>4. QED
    BY <1>1, <2>2, <2>3 DEF Linked
<1>7. InUse(T, m)'
  <2> SUFFICES ASSUME NEW d \in Chains, NEW i \in Nat, i < m[d] PROVE T[d][i] \in alloc
    BY <1>1 DEF InUse
  <2>1. \A e \in Chains : \A j \in Nat : j < ln[e] => S[e][j] \in alloc
    BY <1>1 DEF InUse, OneHandler
  <2>2. QED
    BY <1>1, <1>2, <1>4, <1>5, <2>1
<1>8. \A d \in Chains : number[d] <= ln[d] /\ number[d] \in Int
  BY <1>1, CountsRight
<1>9. Counted(T, m)'
  <2>1. \A d \in Chains : number[d] <= m[d]
    BY <1>3, <1>4, <1>8
  <2>2. QED
    BY <1>1, <2>1 DEF Counted
<1>10. InHand(T, m, h)'
  <2>1. On(T, prev[h]) /\ On(T, rule[h])
    BY <1>1, <1>4 DEF InHand, Keeps
  <2>2. On(T, cur[h])
    <3>1. On(S, cur[h])
      BY <1>1 DEF InHand, Walks, On
    <3>2. QED
      BY <1>4, <3>1
  <2>3. number[c] + 1 <= m[c]
    BY <1>3, <1>4, <1>8, <1>1
  <2>4. QED
    BY <1>1, <1>2, <2>1, <2>2, <2>3 DEF InHand, PlaceOfOp, OwnCell, Loose, Walks, Aims, Carries,
       Frees, Flushes, Counts, Keeps, AstrayAsKnown
<1>11. \A d \in Chains : \A i \in Nat : i < ln[d] => i < m[d] /\ T[d][i] = S[d][i]
  BY <1>2, <1>4
<1>12. Shape(T, m)
  BY <1>4
<1>13. ChainInv(T, m)'
  <2>1. /\ hpc[h] # "idle" /\ Disturb(h) /\ UNCHANGED <<key, dest, hookVars>> /\ cmd' = cmd
    BY <1>1
  <2>2. QED
    BY <2>1, <1>6, <1>7, <1>9, <1>10, <1>11, <1>12, CommandStep
<1>14. QED
  BY <1>13

\* Where a walk stands.
LEMMA Standing ==
    ASSUME TypeInv, OneHandler, NEW S, NEW ln, ChainInv(S, ln), NEW h \in Handlers,
           hpc[h] \in {"tail", "seek", "match"}
    PROVE  /\ Chain(h) \in Chains /\ ln[Chain(h)] \in Nat
           /\ at[h] - 1 \in Nat /\ at[h] - 1 <= ln[Chain(h)] /\ at[h] \in Nat
           /\ cur[h] = S[Chain(h)][at[h] - 1]
           /\ cur[h] = NIL <=> at[h] - 1 = ln[Chain(h)]
           /\ prev[h] = NIL <=> at[h] = 1
           /\ at[h] # 1 => at[h] - 2 \in Nat /\ prev[h] = S[Chain(h)][at[h] - 2]
                           /\ prev[h] \in Nodes
           /\ On(S, prev[h])
           /\ cur[h] # NIL => cur[h] \in alloc /\ next[cur[h]] = S[Chain(h)][at[h]]
           /\ Off(S, rule[h]) /\ rule[h] \in Nodes
<1> DEFINE c == Chain(h)
<1>1. Known(S, ln, h)
  BY BeforeStep
<1>2. c \in Chains
  BY <1>1 DEF Known, OneChain
<1>3. /\ at[h] \in 1..(ln[c] + 1) /\ cur[h] = S[c][at[h] - 1]
      /\ prev[h] = IF at[h] = 1 THEN NIL ELSE S[c][at[h] - 2]
  BY <1>1 DEF Known, InHand, Walks
<1>4. ln[c] \in Nat /\ \A i \in Nat : S[c][i] = NIL <=> ln[c] <= i
  BY <1>1, <1>2 DEF Known, Shape
<1>5. at[h] - 1 \in Nat /\ at[h] - 1 <= ln[c] /\ at[h] \in Nat
  BY <1>3, <1>4
<1>6. cur[h] = NIL <=> at[h] - 1 = ln[c]
  BY <1>3, <1>4, <1>5
<1>7. at[h] # 1 => at[h] - 2 \in Nat /\ prev[h] = S[c][at[h] - 2] /\ prev[h] # NIL
  BY <1>3, <1>4, <1>5
<1>8. prev[h] \in Cells
  BY <1>1 DEF Known
<1>9. On(S, prev[h])
  BY <1>2, <1>3, <1>7 DEF On
<1>10. ASSUME cur[h] # NIL PROVE cur[h] \in alloc /\ next[cur[h]] = S[c][at[h]]
  <2>1. at[h] - 1 < ln[c] /\ (at[h] - 1) + 1 = at[h]
    BY <1>4, <1>5, <1>6, <1>10
  <2>2. cur[h] \in alloc
    BY <1>1, <1>2, <1>3, <1>5, <2>1 DEF Known, InUse, OneHandler
  <2>3. ~Hanging(cur[h])
    BY DEF Hanging, OneHandler
  <2>4. next[S[c][at[h] - 1]] = S[c][(at[h] - 1) + 1]
    BY <1>1, <1>2, <1>3, <1>5, <2>1, <2>3 DEF Known, Linked
  <2>5. QED
    BY <1>3, <2>1, <2>2, <2>4
<1>11. Off(S, rule[h]) /\ rule[h] \in alloc
  <2>1. OwnCell(S, h) /\ PlaceOfOp(h)
    BY <1>1 DEF Known, InHand
  <2>2. QED
    BY <2>1 DEF OwnCell, Loose, PlaceOfOp
<1>12. rule[h] \in Nodes
  BY <1>1, <1>11 DEF Known
<1>13. QED
  BY <1>2, <1>3, <1>4, <1>5, <1>6, <1>7, <1>8, <1>9, <1>10, <1>11, <1>12 DEF Cells

\* What points where when no rule waits for its pointer.
LEMMA Links ==
    ASSUME OneHandler, NEW S, NEW ln, Linked(S, ln), NEW h \in Handlers, hpc[h] # "carry"
    PROVE  \A d \in Chains : /\ head[d] = S[d][0]
                             /\ \A i \in Nat : i < ln[d] => next[S[d][i]] = S[d][i + 1]
BY DEF Linked, Hanging, OneHandler

LEMMA AllInUse ==
    ASSUME OneHandler, NEW S, NEW ln, InUse(S, ln), NEW h \in Handlers, hpc[h] # "flush"
    PROVE  \A d \in Chains : \A i \in Nat : i < ln[d] => S[d][i] \in alloc
BY DEF InUse, OneHandler

LEMMA TailLinkStep ==
    ASSUME TypeInv, OneHandler, NEW S, NEW ln, ChainInv(S, ln), NEW h \in Handlers, TailLink(h)
    PROVE  \E T, m : ChainInv(T, m)'
<1> USE DEF Known, heapVars, tableVars, walkVars, cmdVars, At, Goto, Op, Chain
<1> DEFINE c == Chain(h)
<1>1. /\ Known(S, ln, h) /\ hpc[h] = "tail" /\ cur[h] = NIL /\ Disturb(h)
      /\ UNCHANGED <<alloc, key, dest, head, number, hookVars, cmd, rule, prev, cur, at, ci, tmp>>
  BY BeforeStep DEF TailLink
<1>2. /\ c \in Chains /\ ln[c] \in Nat /\ at[h] - 1 = ln[c] /\ Off(S, rule[h])
      /\ prev[h] = NIL <=> at[h] = 1
      /\ at[h] # 1 => at[h] - 2 \in Nat /\ prev[h] = S[c][at[h] - 2] /\ prev[h] \in Nodes
      /\ On(S, prev[h]) /\ rule[h] \in Nodes /\ at[h] \in Nat
  BY <1>1, Standing
<1>3. Op(h) \in {"Append", "Insert"} /\ (Op(h) = "Append" => ln[c] > 0)
  BY <1>1 DEF InHand, PlaceOfOp, Aims
<1>4. CASE prev[h] = NIL
  <2>1. hpc'[h] = "oops" /\ next' = next
    BY <1>1, <1>4 DEF TailLink
  <2>2. ln[c] = 0
    BY <1>2, <1>4
  <2>3. head[c] = NIL
    <3>1. head[c] = S[c][0]
      BY <1>1, <1>2, Links
    <3>2. S[c][0] = NIL
      BY <1>1, <1>2, <2>2 DEF Shape
    <3>3. QED
      BY <3>1, <3>2
  <2>4. InHand(S, ln, h)'
    BY <1>1, <1>2, <1>3, <2>1, <2>2, <2>3 DEF InHand, PlaceOfOp, OwnCell, Loose, Walks, Aims,
       Carries, Frees, Flushes, Counts, Keeps, AstrayAsKnown
  <2>5. ChainInv(S, ln)'
    BY <1>1, <2>1, <2>4, TablesStay
  <2>6. QED
    BY <2>5
<1>5. CASE prev[h] # NIL
  <2> DEFINE k == ln[c]
  <2>1. /\ next' = [next EXCEPT ![prev[h]] = rule[h]]
        /\ hpc'[h] = IF Op(h) = "Append" THEN "inc" ELSE "reply"
    BY <1>1, <1>5 DEF TailLink
  <2>2. /\ k - 1 \in Nat /\ prev[h] = S[c][k - 1] /\ prev[h] \in Nodes /\ k \in Nat
        /\ k - 1 < k
    BY <1>2, <1>5
  <2>3. rule[h] \in alloc /\ next[rule[h]] = NIL
    BY <1>1, <1>3 DEF InHand, OwnCell, Loose
  <2>4. PICK T, m :
           /\ Shape(T, m)
           /\ \A d \in Chains : d # c => T[d] = S[d] /\ m[d] = ln[d]
           /\ m[c] = ln[c] + 1 /\ T[c][k] = rule[h]
           /\ \A i \in Nat : i < k => T[c][i] = S[c][i]
           /\ \A i \in Nat : k <= i => T[c][i + 1] = S[c][i]
           /\ \A x : Off(T, x) <=> Off(S, x) /\ x # rule[h]
           /\ \A x : On(S, x) => On(T, x)
           /\ On(T, rule[h])
    <3>1. Shape(S, ln) /\ c \in Chains /\ rule[h] \in Nodes /\ Off(S, rule[h])
      BY <1>1, <1>2
    <3>2. k \in Nat /\ k <= ln[c]
      BY <2>2
    <3> HIDE DEF c, k
    <3>3. QED
      BY <3>1, <3>2, Longer
  <2>5. /\ \A d \in Chains : head[d] = S[d][0]
        /\ \A d \in Chains : \A i \in Nat : i < ln[d] => next[S[d][i]] = S[d][i + 1]
    BY <1>1, Links
  <2>6. \A d \in Chains : \A i \in Nat : i < ln[d] => S[d][i] \in alloc
    BY <1>1, AllInUse
  <2>7. \A x \in Nodes : x # prev[h] => next'[x] = next[x]
    BY <1>1, <2>1
  <2>8. next'[prev[h]] = rule[h] /\ rule[h] # prev[h]
    <3>1. next'[prev[h]] = rule[h]
      BY <1>1, <2>1, <2>2
    <3>2. rule[h] # prev[h]
      BY <1>2, <1>5, <2>2 DEF Off
    <3>3. QED
      BY <3>1, <3>2
  <2>9. \A d \in Chains : \A i \in Nat : S[d][i] = prev[h] => d = c /\ i = k - 1
    <3>1. Shape(S, ln) /\ c \in Chains
      BY <1>1, <1>2
    <3> HIDE DEF c, k
    <3>2. QED
      BY <1>5, <2>2, <3>1 DEF Shape
  <2>10. Linked(T, m)'
    <3>1. \A d \in Chains : head[d] = T[d][0]
      <4>1. 0 < k
        BY <2>2
      <4>2. QED
        BY <2>4, <2>5, <4>1
    <3>2. ASSUME NEW d \in Chains, NEW i \in Nat, i < m[d] PROVE next'[T[d][i]] = T[d][i + 1]
      <4>1. CASE d # c
        <5>1. T[d] = S[d] /\ i < ln[d]
          BY <2>4, <3>2, <4>1
        <5>2. S[d][i] # prev[h] /\ S[d][i] \in Nodes
          BY <1>1, <2>6, <2>9, <4>1, <5>1
        <5>3. QED
          BY <2>5, <2>7, <5>1, <5>2
      <4>2. CASE d = c /\ i < k - 1
        <5>1. i < k /\ i + 1 < k /\ i + 1 \in Nat
          BY <2>2, <4>2
        <5>2. T[c][i] = S[c][i] /\ T[c][i + 1] = S[c][i + 1]
          BY <2>4, <5>1
        <5>3. S[c][i] # prev[h] /\ S[c][i] \in Nodes
          BY <1>1, <1>2, <2>6, <2>9, <4>2, <5>1
        <5>4. next'[S[c][i]] = S[c][i + 1]
          BY <1>2, <2>5, <2>7, <5>1, <5>3
        <5>5. QED
          BY <4>2, <5>2, <5>4
      <4>3. CASE d = c /\ i = k - 1
        <5>1. T[c][i] = prev[h] /\ T[c][i + 1] = rule[h]
          BY <2>2, <2>4, <4>3
        <5>2. QED
          BY <2>8, <4>3, <5>1
      <4>4. CASE d = c /\ i = k
        <5>1. S[c][k] = NIL /\ T[c][k + 1] = S[c][k]
          <6>1. Shape(S, ln) /\ k <= k
            BY <1>1, <2>2
          <6>2. T[c][k + 1] = S[c][k]
            BY <2>2, <2>4, <6>1
          <6>3. S[c][k] = NIL
            BY <1>2, <2>2, <6>1 DEF Shape
          <6>4. QED
            BY <6>2, <6>3
        <5>2. next'[rule[h]] = NIL
          BY <1>2, <2>3, <2>7, <2>8
        <5>3. QED
          BY <2>4, <4>4, <5>1, <5>2
      <4>5. d = c => i < k - 1 \/ i = k - 1 \/ i = k
        BY <2>2, <2>4, <3>2
      <4>6. QED
        BY <4>1, <4>2, <4>3, <4>4, <4>5
    <3>3. QED
      BY <1>1, <3>1, <3>2 DEF Linked
  <2>11. InUse(T, m)'
    <3> SUFFICES ASSUME NEW d \in Chains, NEW i \in Nat, i < m[d] PROVE T[d][i] \in alloc
      BY <1>1 DEF InUse
    <3>1. CASE d = c /\ i = k
      BY <2>3, <2>4, <3>1
    <3>2. CASE ~(d = c /\ i = k)
      <4>1. T[d][i] = S[d][i] /\ i < ln[d]
        BY <2>2, <2>4, <3>2
      <4>2. QED
        BY <2>6, <4>1
    <3>3. QED
      BY <3>1, <3>2
  <2>12. \A d \in Chains : number[d] <= ln[d] /\ number[d] \in Int /\ ln[d] \in Nat
    BY <1>1, CountsRight DEF Shape
  <2>13. \A d \in Chains : number[d] <= m[d] /\ number[c] + 1 <= m[c]
    BY <1>2, <2>4, <2>12
  <2>14. Counted(T, m)'
    BY <1>1, <2>13 DEF Counted
  <2>15. InHand(T, m, h)'
    <3>1. On(T, prev[h]) /\ On(T, rule[h]) /\ On(T, NIL)
      BY <1>2, <2>4 DEF On
    <3>2. QED
      BY <1>1, <1>3, <2>1, <2>13, <3>1 DEF InHand, PlaceOfOp, OwnCell, Loose, Walks, Aims, Carries,
         Frees, Flushes, Counts, Keeps, AstrayAsKnown
  <2>16. \A d \in Chains : \A i \in Nat : i < ln[d] => i < m[d] /\ T[d][i] = S[d][i]
    BY <2>2, <2>4
  <2>17. Shape(T, m)
    BY <2>4
  <2>18. ChainInv(T, m)'
    BY <1>1, <2>10, <2>11, <2>14, <2>15, <2>16, <2>17, CommandStep
  <2>19. QED
    BY <2>18
<1>6. QED
  BY <1>4, <1>5

\* A chain on which n takes the place of another rule.
LEMMA Swapped ==
    ASSUME NEW S, NEW ln, Shape(S, ln), NEW c \in Chains, NEW k \in Nat, k < ln[c],
           NEW n \in Nodes, Off(S, n)
    PROVE  \E T :
              /\ Shape(T, ln)
              /\ \A d \in Chains : \A i \in Nat : ~(d = c /\ i = k) => T[d][i] = S[d][i]
              /\ T[c][k] = n
              /\ \A x : Off(S, x) /\ x # n => Off(T, x)
              /\ Off(T, S[c][k])
              /\ \A x : On(S, x) /\ x # S[c][k] => On(T, x)
              /\ On(T, n)
<1>1. S \in [Chains -> [Nat -> Cells]] /\ n # NIL
  BY ChainsAssumption DEF Shape
<1>2. PICK T : /\ T \in [Chains -> [Nat -> Cells]] /\ T[c][k] = n
               /\ \A d \in Chains : \A i \in Nat : ~(d = c /\ i = k) => T[d][i] = S[d][i]
  <2> DEFINE T == [d \in Chains |-> [i \in Nat |-> IF d = c /\ i = k THEN n ELSE S[d][i]]]
  <2>1. /\ T \in [Chains -> [Nat -> Cells]] /\ T[c][k] = n
        /\ \A d \in Chains : \A i \in Nat : ~(d = c /\ i = k) => T[d][i] = S[d][i]
    BY <1>1 DEF Cells
  <2> HIDE DEF T
  <2>2. QED
    BY <2>1
<1>3. S[c][k] # NIL
  BY DEF Shape
<1>4. \A d \in Chains : \A i \in Nat : T[d][i] = NIL <=> ln[d] <= i
  <2> SUFFICES ASSUME NEW d \in Chains, NEW i \in Nat PROVE T[d][i] = NIL <=> ln[d] <= i
    OBVIOUS
  <2>1. CASE d = c /\ i = k
    BY <1>1, <1>2, <1>3, <2>1 DEF Shape
  <2>2. CASE ~(d = c /\ i = k)
    BY <1>2, <2>2 DEF Shape
  <2>3. QED
    BY <2>1, <2>2
<1>5. \A d, e \in Chains : \A i, j \in Nat : T[d][i] = T[e][j] /\ T[d][i] # NIL => d = e /\ i = j
  <2> SUFFICES ASSUME NEW d \in Chains, NEW e \in Chains, NEW i \in Nat, NEW j \in Nat,
                      T[d][i] = T[e][j], T[d][i] # NIL
               PROVE  d = e /\ i = j
    OBVIOUS
  <2>1. CASE ~(d = c /\ i = k) /\ ~(e = c /\ j = k)
    BY <1>2, <2>1 DEF Shape
  <2>2. CASE d = c /\ i = k /\ ~(e = c /\ j = k)
    BY <1>1, <1>2, <2>2 DEF Off
  <2>3. CASE ~(d = c /\ i = k) /\ e = c /\ j = k
    BY <1>1, <1>2, <2>3 DEF Off
  <2>4. QED
    BY <2>1, <2>2, <2>3
<1>6. Shape(T, ln)
  BY <1>2, <1>4, <1>5 DEF Shape
<1>7. \A x : Off(S, x) /\ x # n => Off(T, x)
  BY <1>2 DEF Off
<1>8. Off(T, S[c][k])
  <2> SUFFICES ASSUME NEW d \in Chains, NEW i \in Nat, T[d][i] = S[c][k] PROVE FALSE
    BY DEF Off
  <2>1. S[c][k] # n
    BY <1>1 DEF Off
  <2>2. ~(d = c /\ i = k) /\ S[d][i] = S[c][k]
    BY <1>2, <2>1
  <2>3. QED
    BY <1>3, <2>2 DEF Shape
<1>9. \A x : On(S, x) /\ x # S[c][k] => On(T, x)
  <2> SUFFICES ASSUME NEW x, On(S, x), x # S[c][k], x # NIL
               PROVE  \E d \in Chains : \E i \in Nat : T[d][i] = x
    BY DEF On
  <2>1. PICK d \in Chains, i \in Nat : S[d][i] = x
    BY DEF On
  <2>2. T[d][i] = x
    BY <1>2, <2>1
  <2>3. QED
    BY <2>2
<1>10. On(T, n)
  BY <1>2 DEF On
<1>11. QED
  BY <1>2, <1>6, <1>7, <1>8, <1>9, <1>10

\* A chain with a rule less.
LEMMA Shorter ==
    ASSUME NEW S, NEW ln, Shape(S, ln), NEW c \in Chains, NEW k \in Nat, k < ln[c]
    PROVE  \E T, m :
              /\ Shape(T, m)
              /\ \A d \in Chains : d # c => T[d] = S[d] /\ m[d] = ln[d]
              /\ m[c] = ln[c] - 1 /\ m[c] \in Nat
              /\ \A i \in Nat : i < k => T[c][i] = S[c][i]
              /\ \A i \in Nat : k <= i => T[c][i] = S[c][i + 1]
              /\ \A x : Off(S, x) => Off(T, x)
              /\ Off(T, S[c][k])
              /\ \A x : On(S, x) /\ x # S[c][k] => On(T, x)
<1>1. S \in [Chains -> [Nat -> Cells]] /\ ln \in [Chains -> Nat]
  BY DEF Shape
<1> DEFINE from(d, i) == IF d = c /\ k <= i THEN i + 1 ELSE i
<1>2. PICK T, m :
         /\ T \in [Chains -> [Nat -> Cells]] /\ m \in [Chains -> Nat]
         /\ \A d \in Chains : \A i \in Nat : T[d][i] = S[d][from(d, i)]
         /\ \A d \in Chains : d # c => T[d] = S[d] /\ m[d] = ln[d]
         /\ m[c] = ln[c] - 1
  <2> DEFINE row == [i \in Nat |-> S[c][from(c, i)]]
             T == [S EXCEPT ![c] = row]
             m == [ln EXCEPT ![c] = ln[c] - 1]
  <2>1. \A i \in Nat : from(c, i) \in Nat
    OBVIOUS
  <2>2. row \in [Nat -> Cells] /\ ln[c] - 1 \in Nat /\ \A i \in Nat : row[i] = S[c][from(c, i)]
    <3> HIDE DEF from
    <3>1. ln[c] - 1 \in Nat
      BY <1>1
    <3>2. QED
      BY <1>1, <2>1, <3>1
  <2> HIDE DEF row
  <2>3. /\ T \in [Chains -> [Nat -> Cells]] /\ m \in [Chains -> Nat]
        /\ \A d \in Chains : d # c => T[d] = S[d] /\ m[d] = ln[d]
        /\ m[c] = ln[c] - 1 /\ T[c] = row
    BY <1>1, <2>2
  <2>4. \A d \in Chains : \A i \in Nat : T[d][i] = S[d][from(d, i)]
    BY <2>2, <2>3
  <2> HIDE DEF T, m
  <2>5. QED
    BY <2>3, <2>4
<1>3. \A d \in Chains : \A i \in Nat :
          /\ from(d, i) \in Nat /\ from(c, i) # k
          /\ \A j \in Nat : from(d, i) = from(d, j) => i = j
  OBVIOUS
<1>4. \A i \in Nat : /\ i < k => T[c][i] = S[c][i]
                     /\ k <= i => T[c][i] = S[c][i + 1]
  BY <1>2
<1>5. \A d \in Chains : \A i \in Nat : T[d][i] = NIL <=> m[d] <= i
  <2> SUFFICES ASSUME NEW d \in Chains, NEW i \in Nat PROVE T[d][i] = NIL <=> m[d] <= i
    OBVIOUS
  <2>1. CASE d # c
    BY <1>2, <2>1 DEF Shape
  <2>2. CASE d = c /\ i < k
    BY <1>1, <1>2, <1>4, <2>2 DEF Shape
  <2>3. CASE d = c /\ k <= i
    <3>1. T[c][i] = S[c][i + 1] /\ i + 1 \in Nat
      BY <1>4, <2>3
    <3>2. S[c][i + 1] = NIL <=> ln[c] <= i + 1
      BY <3>1 DEF Shape
    <3>3. QED
      BY <1>1, <1>2, <2>3, <3>1, <3>2
  <2>4. QED
    BY <2>1, <2>2, <2>3
<1> HIDE DEF from
<1>6. \A d, e \in Chains : \A i, j \in Nat : T[d][i] = T[e][j] /\ T[d][i] # NIL => d = e /\ i = j
  <2> SUFFICES ASSUME NEW d \in Chains, NEW e \in Chains, NEW i \in Nat, NEW j \in Nat,
                      T[d][i] = T[e][j], T[d][i] # NIL
               PROVE  d = e /\ i = j
    OBVIOUS
  <2>1. from(d, i) \in Nat /\ from(e, j) \in Nat
    BY <1>3
  <2>2. S[d][from(d, i)] = S[e][from(e, j)] /\ S[d][from(d, i)] # NIL
    BY <1>2
  <2>3. d = e /\ from(d, i) = from(e, j)
    BY <2>1, <2>2 DEF Shape
  <2>4. QED
    BY <1>3, <2>3
<1>7. Shape(T, m)
  BY <1>2, <1>5, <1>6 DEF Shape
<1>8. \A x : Off(S, x) => Off(T, x)
  <2> SUFFICES ASSUME NEW x, Off(S, x), NEW d \in Chains, NEW i \in Nat, T[d][i] = x
               PROVE  x = NIL
    BY DEF Off
  <2>1. from(d, i) \in Nat
    BY <1>3
  <2>2. S[d][from(d, i)] = x
    BY <1>2
  <2>3. QED
    BY <2>1, <2>2 DEF Off
<1>9. Off(T, S[c][k])
  <2> SUFFICES ASSUME NEW d \in Chains, NEW i \in Nat, T[d][i] = S[c][k] PROVE FALSE
    BY DEF Off
  <2>1. S[d][from(d, i)] = S[c][k] /\ S[c][k] # NIL /\ from(d, i) \in Nat
    BY <1>2, <1>3 DEF Shape
  <2>2. d = c /\ from(d, i) = k
    BY <2>1 DEF Shape
  <2>3. QED
    BY <1>3, <2>2
<1>10. \A x : On(S, x) /\ x # S[c][k] => On(T, x)
  <2> SUFFICES ASSUME NEW x, On(S, x), x # S[c][k], x # NIL
               PROVE  \E d \in Chains : \E i \in Nat : T[d][i] = x
    BY DEF On
  <2>1. PICK d \in Chains, i \in Nat : S[d][i] = x
    BY DEF On
  <2>2. CASE d # c \/ i < k
    <3>1. T[d][i] = x
      BY <1>2, <1>4, <2>1, <2>2
    <3>2. QED
      BY <3>1
  <2>3. CASE d = c /\ k <= i
    <3>1. i # k
      BY <2>1, <2>3
    <3>2. i - 1 \in Nat /\ k <= i - 1 /\ (i - 1) + 1 = i
      BY <2>3, <3>1
    <3>3. T[c][i - 1] = S[c][(i - 1) + 1]
      BY <1>4, <3>2
    <3>4. T[d][i - 1] = x
      BY <2>1, <2>3, <3>2, <3>3
    <3>5. QED
      BY <3>2, <3>4
  <2>4. QED
    BY <2>2, <2>3
<1>11. QED
  BY <1>2, <1>4, <1>7, <1>8, <1>9, <1>10

\* The new rule takes the place of the one the walk stands at.
LEMMA TakePlaceStep ==
    ASSUME TypeInv, OneHandler, NEW S, NEW ln, ChainInv(S, ln), NEW h \in Handlers,
           hpc[h] = "seek", cur[h] # NIL, Op(h) = "Replace" \/ (Op(h) = "Insert" /\ at[h] # 1),
           Redirect(h, rule[h]), Goto(h, "carry"), Disturb(h),
           UNCHANGED <<alloc, key, dest, number, cmdVars, walkVars, tmp, hookVars>>
    PROVE  \E T : ChainInv(T, ln)'
<1> USE DEF Known, walkVars, cmdVars, Goto, Op, Chain
<1> DEFINE c == Chain(h)
           k == at[h] - 1
<1>1. Known(S, ln, h) /\ hpc'[h] = "carry"
  BY BeforeStep
<1>2. /\ c \in Chains /\ ln[c] \in Nat /\ k \in Nat /\ k <= ln[c] /\ at[h] \in Nat
      /\ cur[h] = S[c][k] /\ k # ln[c]
      /\ prev[h] = NIL <=> at[h] = 1
      /\ at[h] # 1 => at[h] - 2 \in Nat /\ prev[h] = S[c][at[h] - 2] /\ prev[h] \in Nodes
      /\ On(S, prev[h]) /\ cur[h] \in alloc /\ next[cur[h]] = S[c][at[h]]
      /\ Off(S, rule[h]) /\ rule[h] \in Nodes
  BY Standing
<1>3. rule[h] \in alloc
  BY <1>1 DEF InHand, OwnCell, Loose
<1>4. PICK T :
         /\ Shape(T, ln)
         /\ \A d \in Chains : \A i \in Nat : ~(d = c /\ i = k) => T[d][i] = S[d][i]
         /\ T[c][k] = rule[h]
         /\ \A x : Off(S, x) /\ x # rule[h] => Off(T, x)
         /\ Off(T, cur[h])
         /\ \A x : On(S, x) /\ x # cur[h] => On(T, x)
         /\ On(T, rule[h])
  <2>1. Shape(S, ln) /\ c \in Chains /\ k \in Nat /\ k < ln[c] /\ rule[h] \in Nodes
        /\ Off(S, rule[h])
    BY <1>1, <1>2
  <2>2. cur[h] = S[c][k]
    BY <1>2
  <2> HIDE DEF c, k
  <2>3. QED
    BY <2>1, <2>2, Swapped
<1>5. /\ \A d \in Chains : head[d] = S[d][0]
      /\ \A d \in Chains : \A i \in Nat : i < ln[d] => next[S[d][i]] = S[d][i + 1]
  BY <1>1, Links
<1>6. \A d \in Chains : \A i \in Nat : i < ln[d] => S[d][i] \in alloc
  BY <1>1, AllInUse
<1>7. /\ at[h] = 1 => next' = next /\ head' = [head EXCEPT ![c] = rule[h]]
      /\ at[h] # 1 => next' = [next EXCEPT ![prev[h]] = rule[h]] /\ head' = head
  BY <1>2 DEF Redirect
<1>8. prev[h] # cur[h] /\ prev[h] # rule[h]
  <2>1. CASE at[h] = 1
    BY <1>2, <2>1, ChainsAssumption
  <2>2. CASE at[h] # 1
    <3>1. at[h] - 2 \in Nat /\ at[h] - 2 # k
      BY <1>2, <2>2
    <3>2. prev[h] # NIL /\ prev[h] = S[c][at[h] - 2]
      BY <1>2, <2>2
    <3>3. QED
      BY <1>1, <1>2, <3>1, <3>2 DEF Shape, Off
  <2>3. QED
    BY <2>1, <2>2
<1>9. \A d \in Chains : \A i \in Nat : S[d][i] = prev[h] /\ at[h] # 1 => d = c /\ i = at[h] - 2
  BY <1>1, <1>2 DEF Shape
<1>10. \A d \in Chains : head'[d] = T[d][0]
  <2> SUFFICES ASSUME NEW d \in Chains PROVE head'[d] = T[d][0]
    OBVIOUS
  <2>1. CASE at[h] = 1
    <3>1. k = 0
      BY <1>2, <2>1
    <3>2. CASE d = c
      BY <1>1, <1>2, <1>4, <1>7, <2>1, <3>1, <3>2
    <3>3. CASE d # c
      BY <1>1, <1>2, <1>4, <1>5, <1>7, <2>1, <3>3
    <3>4. QED
      BY <3>2, <3>3
  <2>2. CASE at[h] # 1
    <3>1. k # 0
      BY <1>2, <2>2
    <3>2. QED
      BY <1>4, <1>5, <1>7, <2>2, <3>1
  <2>3. QED
    BY <2>1, <2>2
<1>11. ASSUME NEW d \in Chains, NEW i \in Nat, i < ln[d], ~(d = c /\ i = k)
       PROVE  next'[T[d][i]] = T[d][i + 1]
  <2>1. T[d][i] = S[d][i] /\ S[d][i] \in Nodes /\ next[S[d][i]] = S[d][i + 1]
    BY <1>1, <1>4, <1>5, <1>6, <1>11
  <2>2. CASE at[h] # 1 /\ d = c /\ i = at[h] - 2
    <3>1. S[d][i] = prev[h] /\ i + 1 = k
      BY <1>2, <2>2
    <3>2. next'[S[d][i]] = rule[h]
      BY <1>1, <1>7, <2>1, <2>2, <3>1
    <3>3. QED
      BY <1>4, <2>1, <2>2, <3>1, <3>2
  <2>3. CASE ~(at[h] # 1 /\ d = c /\ i = at[h] - 2)
    <3>1. ~(d = c /\ i + 1 = k)
      BY <1>2, <2>3
    <3>2. T[d][i + 1] = S[d][i + 1]
      BY <1>4, <3>1
    <3>3. next'[S[d][i]] = next[S[d][i]]
      BY <1>1, <1>7, <1>9, <2>1, <2>3
    <3>4. QED
      BY <2>1, <3>2, <3>3
  <2>4. QED
    BY <2>2, <2>3
<1>12. Linked(T, ln)'
  <2>1. Hanging(rule[h])'
    BY <1>1 DEF Hanging
  <2>2. QED
    BY <1>1, <1>2, <1>4, <1>10, <1>11, <2>1 DEF Linked
<1>13. InUse(T, ln)'
  <2> SUFFICES ASSUME NEW d \in Chains, NEW i \in Nat, i < ln[d] PROVE T[d][i] \in alloc
    BY DEF InUse
  <2>1. CASE d = c /\ i = k
    BY <1>3, <1>4, <2>1
  <2>2. CASE ~(d = c /\ i = k)
    BY <1>4, <1>6, <2>2
  <2>3. QED
    BY <2>1, <2>2
<1>14. Counted(T, ln)'
  BY <1>1 DEF Counted, OneHandler
<1>15. next'[cur[h]] = T[c][at[h]]
  <2>1. at[h] # k
    BY <1>2
  <2>2. T[c][at[h]] = S[c][at[h]]
    BY <1>2, <1>4, <2>1
  <2>3. next'[cur[h]] = next[cur[h]]
    BY <1>1, <1>2, <1>7, <1>8
  <2>4. QED
    BY <1>2, <2>2, <2>3
<1>16. InHand(T, ln, h)'
  <2>1. Carries(T, ln, h)'
    <3>1. at[h] \in 1..ln[c]
      BY <1>2
    <3>2. QED
      BY <1>2, <1>4, <1>15, <3>1 DEF Carries
  <2>2. On(T, prev[h])
    BY <1>2, <1>4, <1>8
  <2>3. Keeps(T, h)'
    <3>1. Op(h) = "Insert" => cmd[h].number # 1
      BY <1>1 DEF InHand, Aims
    <3>2. QED
      BY <1>1, <2>2, <3>1 DEF Keeps, Leaky
  <2>4. QED
    BY <1>1, <2>1, <2>3 DEF InHand, PlaceOfOp, OwnCell, Loose, Walks, Aims, Frees, Flushes,
       Counts, AstrayAsKnown
<1>17. ~Growing(h)
  BY DEF Growing
<1>18. Shape(T, ln)
  BY <1>4
<1>19. cmd' = cmd
  OBVIOUS
<1>20. ChainInv(T, ln)'
  BY <1>1, <1>12, <1>13, <1>14, <1>16, <1>17, <1>18, <1>19, CommandStep
<1>21. QED
  BY <1>20

LEMMA InsertLinkStep ==
    ASSUME TypeInv, OneHandler, NEW S, NEW ln, ChainInv(S, ln), NEW h \in Handlers, InsertLink(h)
    PROVE  \E T, m : ChainInv(T, m)'
<1> USE DEF Known, heapVars, tableVars, walkVars, cmdVars, At, Goto, Op, Chain
<1> DEFINE c == Chain(h)
<1>1. /\ Known(S, ln, h) /\ hpc[h] = "seek" /\ Op(h) = "Insert" /\ Disturb(h)
      /\ cur[h] = NIL \/ at[h] >= cmd[h].number
      /\ UNCHANGED <<alloc, key, dest, head, number, hookVars, cmd, rule, prev, cur, at, ci, tmp>>
  BY BeforeStep DEF InsertLink, InPlace
<1>2. /\ c \in Chains /\ ln[c] \in Nat /\ at[h] \in Nat /\ at[h] - 1 <= ln[c] /\ at[h] - 1 \in Nat
      /\ cur[h] = NIL <=> at[h] - 1 = ln[c]
      /\ prev[h] = NIL <=> at[h] = 1
  BY <1>1, Standing
<1>3. /\ cmd[h].number # 1 /\ cmd[h].number \in Nat /\ cmd[h].number <= ln[c]
      /\ at[h] = 1 \/ at[h] <= cmd[h].number
  BY <1>1 DEF InHand, Aims
<1>4. CASE prev[h] = NIL
  <2>1. hpc'[h] = "oops" /\ next' = next
    BY <1>1, <1>4 DEF InsertLink
  <2>2. cmd[h].number = 0
    BY <1>1, <1>2, <1>3, <1>4
  <2>3. InHand(S, ln, h)'
    BY <1>1, <2>1, <2>2 DEF InHand, PlaceOfOp, OwnCell, Loose, Walks, Aims,
       Carries, Frees, Flushes, Counts, Keeps, AstrayAsKnown
  <2>4. ChainInv(S, ln)'
    BY <1>1, <2>1, <2>3, TablesStay
  <2>5. QED
    BY <2>4
<1>5. CASE prev[h] # NIL
  <2>1. cur[h] # NIL /\ at[h] # 1
    BY <1>2, <1>3, <1>5
  <2>2. Redirect(h, rule[h]) /\ Goto(h, "carry")
    BY <1>1, <1>5 DEF InsertLink, Redirect
  <2>3. \E T : ChainInv(T, ln)'
    BY <1>1, <2>1, <2>2, TakePlaceStep
  <2>4. QED
    BY <2>3
<1>6. QED
  BY <1>4, <1>5

LEMMA ReplaceLinkStep ==
    ASSUME TypeInv, OneHandler, NEW S, NEW ln, ChainInv(S, ln), NEW h \in Handlers, ReplaceLink(h)
    PROVE  \E T, m : ChainInv(T, m)'
<1>1. \E T : ChainInv(T, ln)'
  BY TakePlaceStep DEF ReplaceLink, At
<1>2. QED
  BY <1>1

\* The new rule points to what followed the one whose place it has.
LEMMA CarryStep ==
    ASSUME TypeInv, OneHandler, NEW S, NEW ln, ChainInv(S, ln), NEW h \in Handlers, Carry(h)
    PROVE  ChainInv(S, ln)'
<1> USE DEF Known, heapVars, tableVars, walkVars, cmdVars, At, Goto, Op, Chain
<1> DEFINE c == Chain(h)
           k == at[h] - 1
<1>1. /\ Known(S, ln, h) /\ hpc[h] = "carry" /\ Disturb(h) /\ c \in Chains
      /\ UNCHANGED <<alloc, key, dest, head, number, hookVars, cmd, rule, prev, cur, at, ci, tmp>>
  BY BeforeStep DEF Carry, OneChain
<1>2. /\ at[h] \in 1..ln[c] /\ S[c][k] = rule[h]
      /\ cur[h] \in alloc /\ Off(S, cur[h]) /\ next[cur[h]] = S[c][at[h]]
  BY <1>1 DEF InHand, Carries
<1>3. cur[h] # NIL
  BY <1>1, <1>2, ChainsAssumption
<1>4. /\ next' = [next EXCEPT ![rule[h]] = next[cur[h]]]
      /\ hpc'[h] = IF Op(h) = "Insert" THEN "reply" ELSE "drop"
      /\ Op(h) \in {"Insert", "Replace"}
  BY <1>1, <1>3 DEF Carry, InHand, PlaceOfOp
<1>5. ln[c] \in Nat
  BY <1>1 DEF Shape
<1>6. k \in Nat /\ k < ln[c] /\ k + 1 = at[h]
  BY <1>2, <1>5
<1>7. \A d \in Chains : \A i \in Nat : i < ln[d] => S[d][i] \in alloc
  BY <1>1, AllInUse
<1>8. rule[h] \in Nodes /\ rule[h] # NIL
  BY <1>1, <1>2, <1>6, <1>7, ChainsAssumption
<1>9. next'[rule[h]] = S[c][k + 1] /\ \A x \in Nodes : x # rule[h] => next'[x] = next[x]
  BY <1>1, <1>2, <1>4, <1>6, <1>8
<1>10. \A n : ~Hanging(n)'
  BY <1>4 DEF Hanging, OneHandler
<1>11. ASSUME NEW d \in Chains, NEW i \in Nat, i < ln[d] PROVE next'[S[d][i]] = S[d][i + 1]
  <2>1. CASE d = c /\ i = k
    BY <1>2, <1>9, <2>1
  <2>2. CASE ~(d = c /\ i = k)
    <3>1. S[d][i] # rule[h]
      BY <1>1, <1>2, <1>6, <1>8, <2>2 DEF Shape
    <3>2. ~Hanging(S[d][i])
      BY <3>1 DEF Hanging, OneHandler
    <3>3. next[S[d][i]] = S[d][i + 1]
      BY <1>1, <1>11, <3>2 DEF Linked
    <3>4. QED
      BY <1>1, <1>7, <1>9, <1>11, <3>1, <3>3
  <2>3. QED
    BY <2>1, <2>2
<1>12. Linked(S, ln)'
  BY <1>1, <1>11 DEF Linked
<1>13. InUse(S, ln)'
  BY <1>1, <1>7 DEF InUse
<1>14. Counted(S, ln)'
  BY <1>1, <1>4 DEF Counted, OneHandler
<1>15. On(S, rule[h]) /\ On(S, prev[h])
  BY <1>1, <1>2, <1>6 DEF On, InHand, Keeps
<1>16. Keeps(S, h)'
  BY <1>1, <1>4, <1>15 DEF InHand, Keeps, Leaky
<1>17. InHand(S, ln, h)'
  BY <1>1, <1>2, <1>4, <1>16 DEF InHand, PlaceOfOp, OwnCell, Loose, Walks, Aims, Carries,
     Frees, Flushes, Counts, AstrayAsKnown
<1>18. ~Growing(h)
  BY <1>1, <1>4 DEF Growing
<1>19. Shape(S, ln)
  BY <1>1
<1>20. QED
  BY <1>1, <1>12, <1>13, <1>14, <1>17, <1>18, <1>19, CommandStep

\* The rule the walk stands at leaves the chain.
LEMMA UnlinkStep ==
    ASSUME TypeInv, OneHandler, NEW S, NEW ln, ChainInv(S, ln), NEW h \in Handlers,
           hpc[h] \in {"seek", "match"}, cur[h] # NIL, Op(h) = "Delete",
           Unlink(h), Disturb(h)
    PROVE  \E T, m : ChainInv(T, m)'
<1> USE DEF Known, walkVars, cmdVars, Goto, Op, Chain
<1> DEFINE c == Chain(h)
           k == at[h] - 1
<1>1. /\ Known(S, ln, h) /\ hpc'[h] = "free" /\ Redirect(h, next[cur[h]])
      /\ UNCHANGED <<alloc, key, dest, number, hookVars, cmd, rule, prev, cur, at, ci, tmp>>
  BY BeforeStep DEF Unlink
<1>2. /\ c \in Chains /\ ln[c] \in Nat /\ k \in Nat /\ k <= ln[c] /\ at[h] \in Nat
      /\ cur[h] = S[c][k] /\ k # ln[c]
      /\ prev[h] = NIL <=> at[h] = 1
      /\ at[h] # 1 => at[h] - 2 \in Nat /\ prev[h] = S[c][at[h] - 2] /\ prev[h] \in Nodes
      /\ On(S, prev[h]) /\ cur[h] \in alloc /\ next[cur[h]] = S[c][at[h]]
      /\ Off(S, rule[h]) /\ rule[h] \in Nodes
  BY Standing
<1>3. rule[h] \in alloc /\ rule[h] # cur[h]
  BY <1>1, <1>2 DEF InHand, OwnCell, Loose, Off
<1>4. PICK T, m :
         /\ Shape(T, m)
         /\ \A d \in Chains : d # c => T[d] = S[d] /\ m[d] = ln[d]
         /\ m[c] = ln[c] - 1 /\ m[c] \in Nat
         /\ \A i \in Nat : i < k => T[c][i] = S[c][i]
         /\ \A i \in Nat : k <= i => T[c][i] = S[c][i + 1]
         /\ \A x : Off(S, x) => Off(T, x)
         /\ Off(T, cur[h])
         /\ \A x : On(S, x) /\ x # cur[h] => On(T, x)
  <2>1. Shape(S, ln) /\ c \in Chains /\ k \in Nat /\ k < ln[c]
    BY <1>1, <1>2
  <2>2. cur[h] = S[c][k]
    BY <1>2
  <2> HIDE DEF c, k
  <2>3. QED
    BY <2>1, <2>2, Shorter
<1>5. /\ \A d \in Chains : head[d] = S[d][0]
      /\ \A d \in Chains : \A i \in Nat : i < ln[d] => next[S[d][i]] = S[d][i + 1]
  BY <1>1, Links
<1>6. \A d \in Chains : \A i \in Nat : i < ln[d] => S[d][i] \in alloc
  BY <1>1, AllInUse
<1>7. /\ at[h] = 1 => next' = next /\ head' = [head EXCEPT ![c] = S[c][k + 1]]
      /\ at[h] # 1 => next' = [next EXCEPT ![prev[h]] = S[c][k + 1]] /\ head' = head
  <2>1. k + 1 = at[h]
    BY <1>2
  <2>2. QED
    BY <1>1, <1>2, <2>1 DEF Redirect
<1>8. prev[h] # cur[h]
  <2>1. CASE at[h] = 1
    BY <1>2, <2>1
  <2>2. CASE at[h] # 1
    <3>1. at[h] - 2 \in Nat /\ at[h] - 2 # k
      BY <1>2, <2>2
    <3>2. QED
      BY <1>1, <1>2, <2>2, <3>1 DEF Shape
  <2>3. QED
    BY <2>1, <2>2
<1>9. \A d \in Chains : \A i \in Nat : S[d][i] = prev[h] /\ at[h] # 1 => d = c /\ i = at[h] - 2
  BY <1>1, <1>2 DEF Shape
<1>10. \A d \in Chains : \A i \in Nat : i < ln[d] /\ ~(at[h] # 1 /\ d = c /\ i = at[h] - 2) =>
          next'[S[d][i]] = S[d][i + 1]
  <2> SUFFICES ASSUME NEW d \in Chains, NEW i \in Nat, i < ln[d],
                      ~(at[h] # 1 /\ d = c /\ i = at[h] - 2)
               PROVE  next'[S[d][i]] = S[d][i + 1]
    OBVIOUS
  <2>1. S[d][i] \in Nodes /\ next[S[d][i]] = S[d][i + 1]
    BY <1>1, <1>5, <1>6
  <2>2. QED
    BY <1>1, <1>7, <1>9, <2>1
<1>11. \A d \in Chains : head'[d] = T[d][0]
  <2> SUFFICES ASSUME NEW d \in Chains PROVE head'[d] = T[d][0]
    OBVIOUS
  <2>1. CASE at[h] = 1
    <3>1. k = 0 /\ k <= 0
      BY <1>2, <2>1
    <3>2. CASE d = c
      <4>1. T[c][0] = S[c][0 + 1]
        BY <1>4, <3>1
      <4>2. head'[c] = S[c][0 + 1]
        BY <1>1, <1>2, <1>7, <2>1, <3>1
      <4>3. QED
        BY <4>1, <4>2, <3>2
    <3>3. CASE d # c
      BY <1>1, <1>2, <1>4, <1>5, <1>7, <2>1, <3>3
    <3>4. QED
      BY <3>2, <3>3
  <2>2. CASE at[h] # 1
    <3>1. 0 < k
      BY <1>2, <2>2
    <3>2. QED
      BY <1>4, <1>5, <1>7, <2>2, <3>1
  <2>3. QED
    BY <2>1, <2>2
<1>12. ASSUME NEW d \in Chains, NEW i \in Nat, i < m[d] PROVE next'[T[d][i]] = T[d][i + 1]
  <2>1. CASE d # c
    BY <1>4, <1>10, <1>12, <2>1
  <2>2. CASE d = c /\ k <= i
    <3>1. i + 1 \in Nat /\ k <= i + 1 /\ i + 1 < ln[c] /\ i + 1 # at[h] - 2
      <4>1. k = at[h] - 1 /\ at[h] \in Int /\ ln[c] \in Int
        BY <1>1, <1>2 DEF Shape
      <4>2. i < ln[c] - 1
        BY <1>4, <1>12, <2>2
      <4> HIDE DEF c, k
      <4>3. QED
        BY <2>2, <4>1, <4>2
    <3>2. T[c][i] = S[c][i + 1] /\ T[c][i + 1] = S[c][(i + 1) + 1]
      BY <1>4, <2>2, <3>1
    <3>3. QED
      BY <1>2, <1>10, <2>2, <3>1, <3>2
  <2>3. CASE d = c /\ i < k /\ i + 1 < k
    <3>1. i + 1 \in Nat /\ i < ln[c] /\ i # at[h] - 2
      BY <1>2, <2>3
    <3>2. T[c][i] = S[c][i] /\ T[c][i + 1] = S[c][i + 1]
      BY <1>4, <2>3, <3>1
    <3>3. QED
      BY <1>2, <1>10, <2>3, <3>1, <3>2
  <2>4. CASE d = c /\ i < k /\ i + 1 = k
    <3>1. at[h] # 1 /\ i = at[h] - 2 /\ k <= k
      BY <1>2, <2>4
    <3>2. T[c][i] = prev[h] /\ T[c][i + 1] = S[c][k + 1]
      BY <1>2, <1>4, <2>4, <3>1
    <3>3. next'[prev[h]] = S[c][k + 1]
      BY <1>1, <1>2, <1>7, <3>1
    <3>4. QED
      BY <2>4, <3>2, <3>3
  <2>5. k <= i \/ (i < k /\ i + 1 < k) \/ (i < k /\ i + 1 = k)
    BY <1>2
  <2>6. QED
    BY <2>1, <2>2, <2>3, <2>4, <2>5
<1>13. Linked(T, m)'
  BY <1>11, <1>12 DEF Linked
<1>14. InUse(T, m)'
  <2> SUFFICES ASSUME NEW d \in Chains, NEW i \in Nat, i < m[d] PROVE T[d][i] \in alloc
    BY <1>1 DEF InUse
  <2>1. CASE d # c
    BY <1>4, <1>6, <2>1
  <2>2. CASE d = c /\ i < k
    <3>1. i < ln[c]
      <4>1. k \in Nat /\ k <= ln[c] /\ ln[c] \in Nat
        BY <1>2
      <4> HIDE DEF c, k
      <4>2. QED
        BY <2>2, <4>1
    <3>2. T[c][i] = S[c][i]
      BY <1>4, <2>2
    <3>3. QED
      BY <1>2, <1>6, <2>2, <3>1, <3>2
  <2>3. CASE d = c /\ k <= i
    <3>1. m[c] = ln[c] - 1 /\ i < m[c] /\ ln[c] \in Nat
      BY <1>2, <1>4, <2>3
    <3>2. i + 1 \in Nat /\ i + 1 < ln[c]
      BY <3>1
    <3>3. T[c][i] = S[c][i + 1]
      BY <1>4, <2>3
    <3>4. QED
      BY <1>2, <1>6, <2>3, <3>2, <3>3
  <2>4. QED
    BY <1>2, <2>1, <2>2, <2>3
<1>15. Counted(T, m)'
  <2>1. \A d \in Chains : number[d] <= ln[d] /\ number[d] \in Int
    BY <1>1, CountsRight
  <2>2. ASSUME NEW d \in Chains
        PROVE  IF d = c THEN number[d] <= m[d] + 1 ELSE number[d] <= m[d]
    <3>1. CASE d = c
      <4>1. m[c] = ln[c] - 1 /\ ln[c] \in Nat /\ number[c] <= ln[c] /\ number[c] \in Int
        BY <1>2, <1>4, <2>1
      <4>2. QED
        BY <3>1, <4>1
    <3>2. CASE d # c
      BY <1>4, <2>1, <3>2
    <3>3. QED
      BY <3>1, <3>2
  <2>3. QED
    BY <1>1, <2>2 DEF Counted
<1>16. InHand(T, m, h)'
  <2>1. On(T, prev[h])
    BY <1>2, <1>4, <1>8
  <2>2. Off(T, rule[h]) /\ Off(T, cur[h])
    BY <1>2, <1>4
  <2>3. OwnCell(T, h)' /\ Frees(T, h)'
    BY <1>1, <1>2, <1>3, <2>2 DEF OwnCell, Loose, Frees
  <2>4. QED
    BY <1>1, <2>1, <2>3 DEF InHand, PlaceOfOp, Walks, Aims, Carries, Flushes,
       Counts, Keeps, AstrayAsKnown
<1>17. ~Growing(h)
  BY DEF Growing
<1>18. Shape(T, m)
  BY <1>4
<1>19. ChainInv(T, m)'
  BY <1>1, <1>13, <1>14, <1>15, <1>16, <1>17, <1>18, CommandStep
<1>20. QED
  BY <1>19

LEMMA DeleteSteps ==
    ASSUME TypeInv, OneHandler, NEW S, NEW ln, ChainInv(S, ln), NEW h \in Handlers,
           DeleteAt(h) \/ DeleteMatch(h)
    PROVE  \E T, m : ChainInv(T, m)'
<1>1. CASE DeleteAt(h)
  BY <1>1, UnlinkStep DEF DeleteAt, At
<1>2. CASE DeleteMatch(h)
  <2>1. Op(h) = "Delete"
    BY <1>2, BeforeStep DEF DeleteMatch, At, Known, InHand, PlaceOfOp
  <2>2. QED
    BY <1>2, <2>1, UnlinkStep DEF DeleteMatch, At
<1>3. QED
  BY <1>1, <1>2

-----------------------------------------------------------------------------
\* What hooks and proc files leave alone.
LEMMA HandlersStay ==
    ASSUME NEW S, NEW ln, ChainInv(S, ln), UNCHANGED <<heapVars, tableVars, handlerVars>>
    PROVE  /\ Shape(S, ln)' /\ Linked(S, ln)' /\ InUse(S, ln)' /\ Counted(S, ln)'
           /\ \A h \in Handlers : InHand(S, ln, h)'
<1> USE DEF heapVars, tableVars, handlerVars, ChainInv, Op, Chain
<1>1. Shape(S, ln)'
  BY DEF Shape, Chains, Cells
<1>2. Linked(S, ln)'
  BY DEF Linked, Hanging
<1>3. InUse(S, ln)' /\ Counted(S, ln)'
  BY DEF InUse, Counted
<1>4. ASSUME NEW h \in Handlers PROVE InHand(S, ln, h)'
  <2>1. PlaceOfOp(h)' /\ OwnCell(S, h)' /\ Walks(S, ln, h)' /\ Aims(S, ln, h)'
    BY DEF InHand, PlaceOfOp, OwnCell, Loose, Walks, Aims, Off
  <2>2. Carries(S, ln, h)' /\ Frees(S, h)' /\ Flushes(S, ln, h)' /\ Counts(S, ln, h)'
    BY DEF InHand, Carries, Frees, Flushes, FlushAt, Counts, Off
  <2>3. Keeps(S, h)' /\ AstrayAsKnown(h)'
    BY DEF InHand, Keeps, Leaky, On, AstrayAsKnown
  <2>4. QED
    BY <2>1, <2>2, <2>3 DEF InHand
<1>5. QED
  BY <1>1, <1>2, <1>3, <1>4

LEMMA OneHookMoves ==
    ASSUME TypeInv, NEW S, NEW ln, ChainInv(S, ln), UNCHANGED notHooks, NEW k \in Hooks,
           \A g \in Hooks \ {k} :
               /\ kpc'[g] = kpc[g] /\ kchain'[g] = kchain[g] /\ kpkt'[g] = kpkt[g]
               /\ kr'[g] = kr[g] /\ kv'[g] = kv[g] /\ calm'[g] = calm[g],
           Stands(S, ln, k)', Sure(S, ln, k)'
    PROVE  ChainInv(S, ln)'
<1> USE DEF notHooks, heapVars, tableVars, handlerVars
<1>1. ASSUME NEW g \in Hooks, g # k PROVE Stands(S, ln, g)' /\ Sure(S, ln, g)'
  <2>1. /\ kpc'[g] = kpc[g] /\ kchain'[g] = kchain[g] /\ kpkt'[g] = kpkt[g]
        /\ kr'[g] = kr[g] /\ kv'[g] = kv[g] /\ calm'[g] = calm[g]
    BY <1>1
  <2>2. Stands(S, ln, g) /\ Sure(S, ln, g)
    BY DEF ChainInv
  <2>3. Stands(S, ln, g)'
    BY <2>1, <2>2 DEF Stands, Fits, Growing
  <2>4. Sure(S, ln, g)'
    BY <2>1, <2>2 DEF Sure, NoneFits, Fits
  <2>5. QED
    BY <2>3, <2>4
<1>2. \A g \in Hooks : Stands(S, ln, g)' /\ Sure(S, ln, g)'
  BY <1>1
<1>3. QED
  BY <1>2, HandlersStay DEF ChainInv

\* A hook begins at the first rule of its chain.
LEMMA EnterStep ==
    ASSUME TypeInv, NEW S, NEW ln, ChainInv(S, ln), NEW k \in Hooks, NEW c \in Chains, Enter(k, c)
    PROVE  ChainInv(S, ln)'
<1> USE DEF KAt, KGoto
<1>1. /\ \A g \in Hooks \ {k} :
             /\ kpc'[g] = kpc[g] /\ kchain'[g] = kchain[g] /\ kpkt'[g] = kpkt[g]
             /\ kr'[g] = kr[g] /\ kv'[g] = kv[g] /\ calm'[g] = calm[g]
      /\ UNCHANGED notHooks /\ kchain'[k] = c
      /\ calm'[k] = IF AllIdle THEN "calm"
                    ELSE IF \A h \in Handlers : hpc[h] = "idle" \/ Growing(h)
                    THEN "grown" ELSE "disturbed"
  <2> USE DEF Enter, TypeInv, TypeOK, HookType
  <2>1. \A g \in Hooks \ {k} : kpc'[g] = kpc[g] /\ kr'[g] = kr[g] /\ kv'[g] = kv[g]
    OBVIOUS
  <2>2. \A g \in Hooks \ {k} : kchain'[g] = kchain[g] /\ kpkt'[g] = kpkt[g] /\ calm'[g] = calm[g]
    OBVIOUS
  <2>3. UNCHANGED notHooks /\ kchain'[k] = c
    OBVIOUS
  <2>4. calm'[k] = IF AllIdle THEN "calm"
                   ELSE IF \A h \in Handlers : hpc[h] = "idle" \/ Growing(h)
                   THEN "grown" ELSE "disturbed"
    OBVIOUS
  <2>5. QED
    BY <2>1, <2>2, <2>3, <2>4
<1>2. IF cf.Invalid THEN kv'[k] = "ACCEPT" /\ kpc'[k] = "done" /\ kr'[k] = NIL
      ELSE kr'[k] = head[c] /\ kpc'[k] = "walk"
  <2>1. kr[k] = NIL
    BY DEF ChainInv, Stands, Enter
  <2>2. QED
    BY <2>1 DEF Enter, TypeInv, TypeOK, HookType
<1>3. head[c] = S[c][0] /\ (S[c][0] = NIL <=> ln[c] <= 0) /\ ln[c] \in Nat
  BY DEF ChainInv, Linked, Shape
<1>4. calm'[k] # "disturbed" =>
          \A h \in Handlers : (hpc[h] \in {"idle", "begin", "oops"} \/ Growing(h))'
  BY <1>1 DEF AllIdle, Growing, notHooks, handlerVars
<1>5. Stands(S, ln, k)'
  <2>1. kr'[k] # NIL => \E j \in Nat :
             /\ j < ln[c] /\ kr'[k] = S[c][j] /\ \A i \in 0..(j - 1) : ~Fits(k, S[c][i])'
    <3> SUFFICES ASSUME kr'[k] # NIL
                 PROVE  0 < ln[c] /\ kr'[k] = S[c][0] /\ \A i \in 0..(0 - 1) : ~Fits(k, S[c][i])'
      OBVIOUS
    <3>1. QED
      BY <1>2, <1>3
  <2>2. kpc'[k] \in {"walk", "done"}
    BY <1>2
  <2>3. QED
    BY <1>1, <1>4, <2>1, <2>2 DEF Stands, Looking
<1>6. Sure(S, ln, k)'
  <2> SUFFICES ASSUME calm'[k] = "calm" PROVE Sure(S, ln, k)'
    BY DEF Sure
  <2>1. \A h \in Handlers : hpc'[h] = "idle"
    BY <1>1 DEF AllIdle, notHooks, handlerVars
  <2>2. cf' = cf
    BY <1>1 DEF notHooks
  <2>3. kr'[k] = NIL /\ kpc'[k] = "walk" => NoneFits(S, ln, k)'
    <3>1. kr'[k] = NIL /\ kpc'[k] = "walk" => ln[kchain'[k]] = 0
      BY <1>1, <1>2, <1>3
    <3>2. QED
      BY <3>1 DEF NoneFits
  <2>4. QED
    BY <1>2, <2>1, <2>2, <2>3 DEF Sure, Looking
<1>7. QED
  BY <1>1, <1>5, <1>6, OneHookMoves

\* It goes from rule to rule.
LEMMA HookWalkStep ==
    ASSUME TypeInv, NEW S, NEW ln, ChainInv(S, ln), NEW k \in Hooks, HookWalk(k)
    PROVE  ChainInv(S, ln)'
<1> USE DEF KAt, KGoto
<1> DEFINE c == kchain[k]
<1>1. /\ kpc[k] = "walk" /\ kr[k] # NIL /\ UNCHANGED <<notHooks, kchain, kpkt, kv, calm>>
      /\ Fits(k, kr[k]) => kpc'[k] = "log" /\ kr'[k] = kr[k]
      /\ ~Fits(k, kr[k]) => kr'[k] = next[kr[k]] /\ kpc'[k] = "walk"
      /\ \A g \in Hooks \ {k} : kpc'[g] = kpc[g] /\ kr'[g] = kr[g]
      /\ c \in Chains
  BY DEF HookWalk, TypeInv, TypeOK, HookType
<1>2. Stands(S, ln, k) /\ Sure(S, ln, k) /\ ln[c] \in Nat
  BY <1>1 DEF ChainInv, Shape
<1>3. \A n : Fits(k, n)' <=> Fits(k, n)
  BY <1>1 DEF Fits, notHooks, heapVars
<1>4. /\ calm'[k] = calm[k] /\ hpc' = hpc /\ cmd' = cmd /\ cf' = cf /\ c' = c
      /\ key' = key /\ dest' = dest /\ kpkt' = kpkt
  BY <1>1 DEF notHooks, heapVars, handlerVars
<1>5. CASE calm[k] = "disturbed"
  <2>1. Stands(S, ln, k)' /\ Sure(S, ln, k)'
    BY <1>1, <1>4, <1>5 DEF Stands, Sure
  <2>2. QED
    BY <1>1, <2>1, OneHookMoves
<1>6. CASE calm[k] # "disturbed"
  <2>1. PICK j \in Nat : /\ j < ln[c] /\ kr[k] = S[c][j]
                         /\ \A i \in 0..(j - 1) : ~Fits(k, S[c][i])
    BY <1>1, <1>2, <1>6 DEF Stands
  <2>2. \A h \in Handlers : hpc[h] \in {"idle", "begin", "oops"} \/ Growing(h)
    BY <1>2, <1>6 DEF Stands
  <2>3. CASE Fits(k, kr[k])
    <3>1. Stands(S, ln, k)'
      <4>1. \A i \in 0..(j - 1) : ~Fits(k, S[c][i])'
        BY <1>4, <2>1 DEF Fits
      <4>2. QED
        BY <1>1, <1>3, <1>4, <2>1, <2>2, <2>3, <4>1 DEF Stands, Growing
    <3>2. Sure(S, ln, k)'
      BY <1>1, <1>2, <1>4, <2>3 DEF Sure, Looking
    <3>3. QED
      BY <1>1, <3>1, <3>2, OneHookMoves
  <2>4. CASE ~Fits(k, kr[k])
    <3>1. \A h \in Handlers : hpc[h] # "carry"
      <4> SUFFICES ASSUME NEW h \in Handlers, hpc[h] = "carry" PROVE FALSE
        OBVIOUS
      <4>1. Op(h) \in {"Insert", "Replace"}
        BY DEF ChainInv, InHand, PlaceOfOp
      <4>2. QED
        BY <2>2, <4>1 DEF Growing, Op
    <3>2. kr'[k] = S[c][j + 1]
      BY <1>1, <2>1, <2>4, <3>1 DEF ChainInv, Linked, Hanging
    <3>3. \A i \in 0..j : ~Fits(k, S[c][i])
      <4>1. \A i \in 0..j : i = j \/ i \in 0..(j - 1)
        OBVIOUS
      <4>2. QED
        BY <2>1, <2>4, <4>1
    <3>4. (j + 1) - 1 = j /\ j + 1 \in Nat /\ (S[c][j + 1] = NIL <=> ln[c] <= j + 1)
      BY <1>1 DEF ChainInv, Shape
    <3>5. \A i \in 0..((j + 1) - 1) : ~Fits(k, S[c][i])'
      BY <1>4, <3>3, <3>4 DEF Fits
    <3>6. Stands(S, ln, k)'
      <4>1. kr'[k] # NIL => /\ j + 1 < ln[c] /\ kr'[k] = S[c][j + 1]
                            /\ \A i \in 0..((j + 1) - 1) : ~Fits(k, S[c][i])'
        BY <1>2, <3>2, <3>4, <3>5
      <4>2. kpc'[k] = "walk"
        BY <1>1, <2>4
      <4>3. QED
        BY <1>4, <2>2, <3>4, <4>1, <4>2 DEF Stands, Growing, Looking
    <3>7. kr'[k] = NIL => NoneFits(S, ln, k)'
      <4> SUFFICES ASSUME kr'[k] = NIL PROVE NoneFits(S, ln, k)'
        OBVIOUS
      <4>1. ln[c] = j + 1
        BY <1>2, <2>1, <3>2, <3>4
      <4>2. QED
        BY <1>4, <3>5, <4>1 DEF NoneFits
    <3>8. Sure(S, ln, k)'
      BY <1>1, <1>2, <1>4, <2>4, <3>7 DEF Sure, Looking
    <3>9. QED
      BY <1>1, <3>6, <3>8, OneHookMoves
  <2>5. QED
    BY <2>3, <2>4
<1>7. QED
  BY <1>5, <1>6

\* It ends, and decides by what it found.
LEMMA HookEndSteps ==
    ASSUME TypeInv, NEW S, NEW ln, ChainInv(S, ln), NEW k \in Hooks,
           \/ HookForward(k) \/ HookMiss(k) \/ HookLog(k) \/ HookHit(k)
           \/ HookHitWrite(k) \/ HookVerdict(k) \/ HookReturn(k)
    PROVE  ChainInv(S, ln)'
<1> USE DEF KAt, KGoto
<1>1. /\ UNCHANGED notHooks
      /\ \A g \in Hooks \ {k} :
             /\ kpc'[g] = kpc[g] /\ kchain'[g] = kchain[g] /\ kpkt'[g] = kpkt[g]
             /\ kr'[g] = kr[g] /\ kv'[g] = kv[g] /\ calm'[g] = calm[g]
  BY DEF HookForward, HookMiss, HookLog, HookHit, HookHitWrite, HookVerdict, HookReturn,
     TypeInv, TypeOK, HookType
<1>2. Stands(S, ln, k) /\ Sure(S, ln, k)
  BY DEF ChainInv
<1>3. UNCHANGED <<hpc, cmd, cf, key, dest>>
  BY <1>1 DEF notHooks, heapVars, handlerVars
<1>4. CASE HookReturn(k)
  <2>1. kpc'[k] = "idle" /\ kr'[k] = NIL /\ calm'[k] = "disturbed"
    BY <1>4 DEF HookReturn, TypeInv, TypeOK, HookType
  <2>2. Stands(S, ln, k)' /\ Sure(S, ln, k)'
    BY <2>1 DEF Stands, Sure
  <2>3. QED
    BY <1>1, <2>2, OneHookMoves
<1>5. CASE HookForward(k)
  <2>1. kpc[k] = "idle" /\ kpc'[k] = "done" /\ kr'[k] = kr[k] /\ calm'[k] = calm[k]
    BY <1>5 DEF HookForward, TypeInv, TypeOK, HookType
  <2>2. Stands(S, ln, k)' /\ Sure(S, ln, k)'
    BY <1>2, <2>1 DEF Stands, Sure
  <2>3. QED
    BY <1>1, <2>2, OneHookMoves
<1>6. CASE HookMiss(k) \/ HookLog(k) \/ HookHit(k) \/ HookHitWrite(k) \/ HookVerdict(k)
  <2>1. /\ kchain'[k] = kchain[k] /\ kpkt'[k] = kpkt[k] /\ kr'[k] = kr[k] /\ calm'[k] = calm[k]
        /\ \/ /\ kpc[k] = "walk" /\ kr[k] = NIL /\ kpc'[k] = "done"
              /\ kv'[k] = cf.DefaultAction
           \/ kpc[k] \in {"log", "hit", "hitw"} /\ kpc'[k] \in {"hit", "hitw", "verdict"}
           \/ /\ kpc[k] = "verdict" /\ kpc'[k] = "done"
              /\ kv'[k] = IF key[kr[k]] \in Dropping THEN "DROP" ELSE "ACCEPT"
    BY <1>6 DEF HookMiss, HookLog, HookHit, HookHitWrite, HookVerdict, TypeInv, TypeOK, HookType
  <2>2. \A n : Fits(k, n)' <=> Fits(k, n)
    BY <1>3, <2>1 DEF Fits
  <2>3. Stands(S, ln, k)'
    BY <1>2, <1>3, <2>1, <2>2 DEF Stands, Growing, Looking
  <2>4. NoneFits(S, ln, k) => NoneFits(S, ln, k)'
    BY <2>1, <2>2 DEF NoneFits
  <2>5. calm[k] = "calm" /\ kpc[k] = "verdict" => kr[k] # NIL /\ Fits(k, kr[k])
    BY <1>2 DEF Stands, Looking
  <2>6. Sure(S, ln, k)'
    BY <1>2, <1>3, <2>1, <2>2, <2>4, <2>5 DEF Sure, Looking
  <2>7. QED
    BY <1>1, <2>3, <2>6, OneHookMoves
<1>7. QED
  BY <1>4, <1>5, <1>6

LEMMA ProcWriteStep ==
    ASSUME TypeInv, NEW S, NEW ln, ChainInv(S, ln), ProcWrite
    PROVE  ChainInv(S, ln)'
<1>1. /\ UNCHANGED <<heapVars, tableVars, handlerVars, kpc, kr>>
      /\ \A k \in Hooks : calm'[k] = "disturbed"
  BY DEF ProcWrite, hookVars
<1>2. \A k \in Hooks : Stands(S, ln, k)' /\ Sure(S, ln, k)'
  BY <1>1 DEF Stands, Sure, ChainInv
<1>3. QED
  BY <1>1, <1>2, HandlersStay DEF ChainInv

LEMMA StutterStep ==
    ASSUME TypeInv, NEW S, NEW ln, ChainInv(S, ln), UNCHANGED vars
    PROVE  ChainInv(S, ln)'
<1>1. \A k \in Hooks : Stands(S, ln, k)' /\ Sure(S, ln, k)'
  <2>1. UNCHANGED <<hpc, cmd, cf, key, dest, kpc, kchain, kpkt, kr, kv, calm>>
    BY DEF vars, heapVars, handlerVars, hookVars
  <2>2. \A k \in Hooks : Stands(S, ln, k)'
    BY <2>1 DEF ChainInv, Stands, Fits, Growing
  <2>3. \A k \in Hooks : Sure(S, ln, k)'
    BY <2>1 DEF ChainInv, Sure, NoneFits, Fits
  <2>4. QED
    BY <2>2, <2>3
<1>2. UNCHANGED <<heapVars, tableVars, handlerVars>>
  BY DEF vars
<1>3. QED
  BY <1>1, <1>2, HandlersStay DEF ChainInv

\* All chains are empty at first.
LEMMA ChainInit ==
    ASSUME Init
    PROVE  \E S, ln : ChainInv(S, ln)
<1>1. PICK S, ln : /\ S \in [Chains -> [Nat -> Cells]] /\ ln \in [Chains -> Nat]
                   /\ \A c \in Chains : ln[c] = 0 /\ \A i \in Nat : S[c][i] = NIL
  <2> DEFINE S == [c \in Chains |-> [i \in Nat |-> NIL]]
             ln == [c \in Chains |-> 0]
  <2>1. /\ S \in [Chains -> [Nat -> Cells]] /\ ln \in [Chains -> Nat]
        /\ \A c \in Chains : ln[c] = 0 /\ \A i \in Nat : S[c][i] = NIL
    BY DEF Cells
  <2> HIDE DEF S, ln
  <2>2. QED
    BY <2>1
<1>2. Shape(S, ln)
  BY <1>1 DEF Shape
<1>3. Linked(S, ln) /\ InUse(S, ln) /\ Counted(S, ln)
  BY <1>1 DEF Init, Linked, InUse, Counted
<1>4. \A h \in Handlers : InHand(S, ln, h)
  BY <1>1 DEF Init, InHand, PlaceOfOp, OwnCell, Loose, Walks, Aims, Carries, Frees, Flushes,
     Counts, Keeps, AstrayAsKnown
<1>5. \A k \in Hooks : Stands(S, ln, k) /\ Sure(S, ln, k)
  BY DEF Init, Stands, Sure
<1>6. QED
  BY <1>2, <1>3, <1>4, <1>5 DEF ChainInv

ChainsHold == \E S, ln : ChainInv(S, ln)

LEMMA ChainHandler ==
    ASSUME TypeInv, OneHandler, ChainsHold, NEW h \in Handlers, Handler(h)
    PROVE  ChainsHold'
<1>1. PICK S, ln : ChainInv(S, ln)
  BY DEF ChainsHold
<1>2. CASE Receive(h) \/ ReceiveNoMemory(h) \/ ExitBegin(h)
  BY <1>1, <1>2, ReceiveStep, BareSteps DEF ChainsHold
<1>3. CASE \/ Reply(h) \/ AppendLook(h) \/ TailWalk(h) \/ CountRead(h) \/ InsertLook(h)
           \/ Seek(h) \/ ReplaceMiss(h) \/ MatchWalk(h) \/ MatchMiss(h)
           \/ ListLook(h) \/ ListSend(h)
  BY <1>1, <1>3, QuietSteps DEF ChainsHold
<1>4. CASE \/ CountWrite(h) \/ ReplaceLook(h) \/ ReplaceFree(h) \/ DeleteLook(h)
           \/ DeleteMiss(h) \/ DeleteFree(h) \/ UncountRead(h) \/ UncountWrite(h)
  BY <1>1, <1>4, FreeingSteps DEF ChainsHold
<1>5. CASE FlushLook(h) \/ FlushWalk(h) \/ FlushZero(h) \/ ListNext(h) \/ ExitHooks(h)
  BY <1>1, <1>5, FlushLookStep, FlushWalkStep, FlushZeroStep, ListNextStep, ExitHooksStep
  DEF ChainsHold
<1>6. CASE AppendHead(h) \/ TailLink(h) \/ InsertPush(h) \/ InsertPushWrite(h) \/ FlushHead(h)
  BY <1>1, <1>6, AppendHeadStep, TailLinkStep, InsertPushStep, InsertPushWriteStep, FlushHeadStep
  DEF ChainsHold
<1>7. CASE InsertLink(h) \/ Carry(h) \/ ReplaceLink(h) \/ DeleteAt(h) \/ DeleteMatch(h)
  BY <1>1, <1>7, InsertLinkStep, CarryStep, ReplaceLinkStep, DeleteSteps DEF ChainsHold
<1>8. QED
  BY <1>2, <1>3, <1>4, <1>5, <1>6, <1>7 DEF Handler

LEMMA ChainHook ==
    ASSUME TypeInv, ChainsHold, NEW k \in Hooks, Hook(k)
    PROVE  ChainsHold'
<1>1. PICK S, ln : ChainInv(S, ln)
  BY DEF ChainsHold
<1>2. CASE HookLocalIn(k) \/ HookLocaOut(k) \/ HookPreRouting(k) \/ HookPostRouting(k)
  <2>1. PICK c \in Chains : Enter(k, c)
    BY <1>2 DEF HookLocalIn, HookLocaOut, HookPreRouting, HookPostRouting, Chains, Input, Output
  <2>2. QED
    BY <1>1, <2>1, EnterStep DEF ChainsHold
<1>3. CASE HookWalk(k)
  BY <1>1, <1>3, HookWalkStep DEF ChainsHold
<1>4. CASE \/ HookForward(k) \/ HookMiss(k) \/ HookLog(k) \/ HookHit(k)
           \/ HookHitWrite(k) \/ HookVerdict(k) \/ HookReturn(k)
  BY <1>1, <1>4, HookEndSteps DEF ChainsHold
<1>5. QED
  BY <1>2, <1>3, <1>4 DEF Hook

LEMMA ChainNext ==
    ASSUME TypeInv, OneHandler, ChainsHold, [Next]_vars
    PROVE  ChainsHold'
<1>1. CASE \E h \in Handlers : Handler(h)
  BY <1>1, ChainHandler
<1>2. CASE \E k \in Hooks : Hook(k)
  BY <1>2, ChainHook
<1>3. CASE ProcWrite
  BY <1>3, ProcWriteStep DEF ChainsHold
<1>4. CASE UNCHANGED vars
  BY <1>4, StutterStep DEF ChainsHold
<1>5. QED
  BY <1>1, <1>2, <1>3, <1>4 DEF Next

LEMMA ChainInvHolds ==
    ASSUME OneHandler
    PROVE  Spec => [](TypeInv /\ ChainsHold)
<1>1. Init => TypeInv /\ ChainsHold
  BY TypeInit, ChainInit DEF ChainsHold
<1>2. TypeInv /\ ChainsHold /\ [Next]_vars => (TypeInv /\ ChainsHold)'
  BY TypeNext, ChainNext
<1>3. QED
  BY <1>1, <1>2, PTL DEF Spec

-----------------------------------------------------------------------------
\* A set of numbers has a least member.
LEMMA Least ==
    ASSUME NEW T, T \subseteq Nat, T # {}
    PROVE  \E x \in T : \A y \in T : x <= y
<1> DEFINE U == {0..i : i \in T}
           R == StrictSubsetOrdering(Nat)
<1>1. U \subseteq FiniteSubsetsOf(Nat)
  <2>1. \A i \in Nat : IsFiniteSet(0..i) /\ 0..i \subseteq Nat
    BY FS_Interval
  <2>2. QED
    BY <2>1 DEF FiniteSubsetsOf
<1>2. U # {}
  OBVIOUS
<1>3. IsWellFoundedOn(R, FiniteSubsetsOf(Nat))
  BY FS_StrictSubsetOrderingWellFounded
<1>4. \E s \in U : \A t \in U : ~(<<t, s>> \in R)
  <2> HIDE DEF U, R
  <2> QED
    BY <1>1, <1>2, <1>3, WFMin
<1>5. PICK x \in T : \A y \in T : ~(<<0..y, 0..x>> \in R)
  BY <1>4
<1>6. ASSUME NEW y \in T, y < x PROVE FALSE
  <2>1. 0..y \subseteq 0..x /\ x \in 0..x /\ x \notin 0..y /\ 0..x \subseteq Nat
    BY <1>6
  <2>2. <<0..y, 0..x>> \in R
    BY <2>1 DEF StrictSubsetOrdering
  <2>3. QED
    BY <1>5, <2>2
<1>7. QED
  BY <1>6

\* There are no more rules on a chain than cells.
LEMMA Bounded ==
    ASSUME NEW S, NEW ln, Shape(S, ln), NEW c \in Chains
    PROVE  Cardinality(Nodes) \in Nat /\ ln[c] <= Cardinality(Nodes)
<1>1. IsFiniteSet(Nodes) /\ Cardinality(Nodes) \in Nat
  BY ChainsAssumption, FS_CardinalityType
<1>2. ln[c] \in Nat /\ S \in [Chains -> [Nat -> Cells]]
  BY DEF Shape
<1>3. CASE ln[c] = 0
  BY <1>1, <1>3
<1>4. CASE ln[c] # 0
  <2> DEFINE I == 0..(ln[c] - 1)
             f == [i \in I |-> S[c][i]]
  <2>1. IsFiniteSet(I) /\ Cardinality(I) = ln[c]
    <3>1. ln[c] - 1 \in Int /\ ~(0 > ln[c] - 1) /\ (ln[c] - 1) - 0 + 1 = ln[c]
      BY <1>2, <1>4
    <3>2. QED
      BY <3>1, FS_Interval
  <2>2. \A i \in I : i \in Nat /\ S[c][i] \in Nodes
    <3> SUFFICES ASSUME NEW i \in I PROVE i \in Nat /\ S[c][i] \in Nodes
      OBVIOUS
    <3>1. i \in Nat /\ i < ln[c]
      BY <1>2
    <3>2. QED
      BY <1>2, <3>1 DEF Shape, Cells
  <2>3. f \in [I -> Nodes]
    BY <2>2
  <2>4. \A i, j \in I : f[i] = f[j] => i = j
    <3> SUFFICES ASSUME NEW i \in I, NEW j \in I, S[c][i] = S[c][j] PROVE i = j
      OBVIOUS
    <3>1. i \in Nat /\ j \in Nat /\ S[c][i] # NIL
      BY <2>2, ChainsAssumption
    <3>2. QED
      BY <3>1 DEF Shape
  <2>5. ~(Cardinality(Nodes) < Cardinality(I))
    <3> HIDE DEF f, I
    <3>1. QED
      BY <1>1, <2>1, <2>3, <2>4, FS_PigeonHole
  <2>6. QED
    BY <1>1, <1>2, <2>1, <2>5
<1>5. QED
  BY <1>1, <1>3, <1>4

\* What Nth computes by following the pointers is the chain of the witness.
LEMMA NthIs ==
    ASSUME NEW S, NEW ln, Shape(S, ln), Linked(S, ln), \A n : ~Hanging(n), NEW c \in Chains
    PROVE  Nth(c) = [i \in 0..Cardinality(Nodes) |-> S[c][i]]
<1> DEFINE N == Cardinality(Nodes)
           s == [i \in 0..N |-> S[c][i]]
           R(f) == f = [i \in 0..N |-> IF i = 0 THEN head[c]
                                       ELSE IF f[i - 1] = NIL THEN NIL ELSE next[f[i - 1]]]
<1>1. N \in Nat
  BY ChainsAssumption, FS_CardinalityType
<1> HIDE DEF N
<1>2. ASSUME NEW i \in 0..N, i # 0
      PROVE  /\ i - 1 \in 0..N
             /\ S[c][i] = IF S[c][i - 1] = NIL THEN NIL ELSE next[S[c][i - 1]]
  <2>1. i - 1 \in Nat /\ i \in Nat /\ (i - 1) + 1 = i /\ i - 1 \in 0..N
    BY <1>1, <1>2
  <2>2. ln[c] \in Nat /\ (S[c][i - 1] = NIL <=> ln[c] <= i - 1) /\ (S[c][i] = NIL <=> ln[c] <= i)
    BY <2>1 DEF Shape
  <2>3. CASE S[c][i - 1] = NIL
    BY <2>1, <2>2, <2>3
  <2>4. CASE S[c][i - 1] # NIL
    <3>1. i - 1 < ln[c]
      BY <2>1, <2>2, <2>4
    <3>2. next[S[c][i - 1]] = S[c][(i - 1) + 1]
      BY <2>1, <3>1 DEF Linked
    <3>3. QED
      BY <2>1, <2>4, <3>2
  <2>5. QED
    BY <2>3, <2>4
<1>3. R(s)
  <2>1. ASSUME NEW i \in 0..N
        PROVE  S[c][i] = IF i = 0 THEN head[c]
                         ELSE IF s[i - 1] = NIL THEN NIL ELSE next[s[i - 1]]
    <3>1. CASE i = 0
      BY <3>1 DEF Linked
    <3>2. CASE i # 0
      BY <1>2, <3>2
    <3>3. QED
      BY <3>1, <3>2
  <2>2. QED
    BY <2>1
<1>4. Nth(c) = CHOOSE f : R(f)
  BY DEF Nth, N
<1>5. R(Nth(c))
  <2> HIDE DEF R
  <2> QED
    BY <1>3, <1>4
<1> DEFINE f == Nth(c)
<1>6. f = [i \in 0..N |-> IF i = 0 THEN head[c]
                          ELSE IF f[i - 1] = NIL THEN NIL ELSE next[f[i - 1]]]
  BY <1>5
<1> HIDE DEF f, R, s
<1> DEFINE D == {i \in 0..N : f[i] # S[c][i]}
<1>7. D = {}
  <2> SUFFICES ASSUME D # {} PROVE FALSE
    OBVIOUS
  <2>1. D \subseteq Nat
    OBVIOUS
  <2>2. PICK x \in D : \A y \in D : x <= y
    BY <2>1, Least
  <2>3. CASE x = 0
    BY <1>6, <2>2, <2>3 DEF Linked
  <2>4. CASE x # 0
    <3>1. x \in 0..N /\ x - 1 \in 0..N /\ ~(x <= x - 1)
      BY <1>1, <2>4
    <3>2. f[x - 1] = S[c][x - 1]
      BY <2>2, <3>1
    <3>3. f[x] = IF f[x - 1] = NIL THEN NIL ELSE next[f[x - 1]]
      BY <1>6, <2>4, <3>1
    <3>4. f[x] = S[c][x]
      BY <1>2, <2>4, <3>1, <3>2, <3>3
    <3>5. QED
      BY <3>4
  <2>5. QED
    BY <2>3, <2>4
<1>8. \A i \in 0..N : f[i] = S[c][i]
  BY <1>7
<1>9. DOMAIN f = 0..N /\ f = [i \in 0..N |-> f[i]]
  BY <1>6
<1>10. f = [i \in 0..N |-> S[c][i]]
  BY <1>8, <1>9
<1>11. QED
  BY <1>10 DEF f, N

\* So Rules and Length are what their names say.
LEMMA RulesAre ==
    ASSUME NEW S, NEW ln, Shape(S, ln), Linked(S, ln), \A n : ~Hanging(n), NEW c \in Chains
    PROVE  /\ Length(c) = ln[c] /\ ln[c] \in Nat
           /\ Cardinality(Nodes) \in Nat /\ ln[c] <= Cardinality(Nodes)
           /\ \A i \in Nat : i <= ln[c] => i \in 0..Cardinality(Nodes) /\ Nth(c)[i] = S[c][i]
           /\ Nth(c)[Cardinality(Nodes)] = NIL
           /\ DOMAIN Nth(c) = 0..Cardinality(Nodes)
           /\ \A n : n \in Rules(c) <=> n # NIL /\ \E i \in Nat : i < ln[c] /\ n = S[c][i]
<1> DEFINE N == Cardinality(Nodes)
<1>1. N \in Nat /\ ln[c] <= N /\ ln[c] \in Nat
  BY Bounded DEF Shape
<1> HIDE DEF N
<1>2. Nth(c) = [i \in 0..N |-> S[c][i]]
  BY NthIs DEF N
<1>3. \A i \in Nat : S[c][i] = NIL <=> ln[c] <= i
  BY DEF Shape
<1>4. \A i \in Nat : i <= ln[c] => i \in 0..N /\ Nth(c)[i] = S[c][i]
  BY <1>1, <1>2
<1>5. Nth(c)[N] = NIL
  BY <1>1, <1>2, <1>3
<1>6. Length(c) = ln[c]
  <2> DEFINE P(i) == Nth(c)[i] = NIL /\ \A j \in 0..(i - 1) : Nth(c)[j] # NIL
  <2>1. Length(c) = CHOOSE i \in 0..N : P(i)
    BY DEF Length, N
  <2>2. ln[c] \in 0..N /\ P(ln[c])
    <3>1. \A j \in 0..(ln[c] - 1) : j \in Nat /\ j <= ln[c] /\ ~(ln[c] <= j)
      BY <1>1
    <3>2. QED
      BY <1>1, <1>3, <1>4, <3>1
  <2>3. ASSUME NEW i \in 0..N, P(i) PROVE i = ln[c]
    <3>1. i \in Nat /\ S[c][i] = NIL
      BY <1>1, <1>2, <2>3
    <3>2. ln[c] <= i
      BY <1>3, <3>1
    <3>3. CASE ln[c] < i
      <4>1. ln[c] \in 0..(i - 1)
        BY <1>1, <3>1, <3>3
      <4>2. QED
        BY <2>2, <2>3, <4>1
    <3>4. QED
      BY <1>1, <3>1, <3>2, <3>3
  <2> HIDE DEF P
  <2>4. QED
    BY <2>1, <2>2, <2>3
<1>7. ASSUME NEW n
      PROVE  n \in Rules(c) <=> n # NIL /\ \E i \in Nat : i < ln[c] /\ n = S[c][i]
  <2>1. ASSUME n \in Rules(c) PROVE n # NIL /\ \E i \in Nat : i < ln[c] /\ n = S[c][i]
    <3>1. PICK i \in 0..N : n = Nth(c)[i] /\ n # NIL
      BY <2>1 DEF Rules, N
    <3>2. i \in Nat /\ n = S[c][i]
      BY <1>1, <1>2, <3>1
    <3>3. i < ln[c]
      BY <1>1, <1>3, <3>1, <3>2
    <3>4. QED
      BY <3>1, <3>2, <3>3
  <2>2. ASSUME n # NIL, NEW i \in Nat, i < ln[c], n = S[c][i] PROVE n \in Rules(c)
    <3>1. i \in 0..N /\ n = Nth(c)[i]
      BY <1>1, <1>4, <2>2
    <3>2. QED
      BY <2>2, <3>1 DEF Rules, N
  <2>3. QED
    BY <2>1, <2>2
<1>8. DOMAIN Nth(c) = 0..N
  BY <1>2
<1>9. QED
  BY <1>1, <1>4, <1>5, <1>6, <1>7, <1>8 DEF N

\* Where nothing is carried, nothing hangs.
LEMMA NothingHangs ==
    ASSUME OneHandler, \A h \in Handlers : hpc[h] # "carry"
    PROVE  \A n : ~Hanging(n)
BY DEF Hanging

\* With one command at a time the lists are well formed whenever no command runs, and no
\* command ever frees a cell twice (sipfw_k_nl.c:131-151, 176-178, 213-218, 290-297).
THEOREM ChainsStayIntact == OneHandler => (Spec => []ChainsIntact)
<1> SUFFICES ASSUME OneHandler PROVE Spec => []ChainsIntact
  OBVIOUS
<1>1. ASSUME TypeInv, ChainsHold PROVE ChainsIntact
  <2>1. PICK S, ln : ChainInv(S, ln)
    BY <1>1 DEF ChainsHold
  <2>2. NoDoubleFree
    <3> SUFFICES ASSUME NEW h \in Handlers
                 PROVE  /\ hpc[h] \in {"free", "drop"} => cur[h] \in alloc
                        /\ hpc[h] = "flush" /\ prev[h] # NIL => prev[h] \in alloc
                        /\ rule[h] # NIL /\ hpc[h] \in {"begin", "dec", "decw"} =>
                              rule[h] \in alloc
      BY DEF NoDoubleFree
    <3>1. Frees(S, h) /\ Flushes(S, ln, h) /\ OwnCell(S, h) /\ PlaceOfOp(h)
      BY <2>1 DEF ChainInv, InHand
    <3>2. QED
      BY <3>1 DEF Frees, Flushes, OwnCell, Loose, PlaceOfOp
  <2>3. ASSUME AllIdle, NEW c \in Chains
        PROVE  /\ Nth(c)[Cardinality(Nodes)] = NIL
               /\ Rules(c) \subseteq alloc
               /\ \A d \in Chains \ {c} : Rules(c) \cap Rules(d) = {}
               /\ number[c] <= Length(c)
    <3>1. Shape(S, ln) /\ Linked(S, ln) /\ \A n : ~Hanging(n)
      BY <2>1, <2>3, NothingHangs DEF ChainInv, AllIdle
    <3>2. /\ Nth(c)[Cardinality(Nodes)] = NIL /\ Length(c) = ln[c]
          /\ \A d \in Chains : \A n :
                n \in Rules(d) <=> n # NIL /\ \E i \in Nat : i < ln[d] /\ n = S[d][i]
      BY <3>1, RulesAre
    <3>3. Rules(c) \subseteq alloc
      BY <2>1, <2>3, <3>2 DEF ChainInv, InUse, AllIdle
    <3>4. \A d \in Chains \ {c} : Rules(c) \cap Rules(d) = {}
      BY <3>1, <3>2 DEF Shape
    <3>5. number[c] <= ln[c]
      BY <2>1, <2>3 DEF ChainInv, Counted, AllIdle
    <3>6. QED
      BY <3>2, <3>3, <3>4, <3>5
  <2>4. QED
    BY <2>2, <2>3 DEF ChainsIntact
<1>2. QED
  BY <1>1, ChainInvHolds, PTL

\* With one command at a time a command goes astray only for the four known reasons.
THEOREM OopsesAreKnown == OneHandler => (Spec => []KnownOops)
<1> SUFFICES ASSUME OneHandler PROVE Spec => []KnownOops
  OBVIOUS
<1>1. ASSUME TypeInv, ChainsHold PROVE KnownOops
  BY <1>1 DEF ChainsHold, ChainInv, InHand, AstrayAsKnown, KnownOops
<1>2. QED
  BY <1>1, ChainInvHolds, PTL

\* With one command at a time a hook that only overlaps APPEND and LIST commands never
\* looks at a rule that is not in use.
THEOREM CalmHooksAreSafe == OneHandler => (Spec => []CalmHookSafe)
<1> SUFFICES ASSUME OneHandler PROVE Spec => []CalmHookSafe
  OBVIOUS
<1>1. ASSUME TypeInv, ChainsHold PROVE CalmHookSafe
  <2>1. PICK S, ln : ChainInv(S, ln)
    BY <1>1 DEF ChainsHold
  <2> SUFFICES ASSUME NEW k \in Hooks, calm[k] # "disturbed", kr[k] # NIL PROVE kr[k] \in alloc
    BY DEF CalmHookSafe
  <2>2. Stands(S, ln, k) /\ kchain[k] \in Chains
    BY <1>1, <2>1 DEF ChainInv, TypeInv, TypeOK, HookType
  <2>3. PICK j \in Nat : j < ln[kchain[k]] /\ kr[k] = S[kchain[k]][j]
    BY <2>2 DEF Stands
  <2>4. \A h \in Handlers : hpc[h] # "flush"
    <3> SUFFICES ASSUME NEW h \in Handlers, hpc[h] = "flush" PROVE FALSE
      OBVIOUS
    <3>1. Op(h) \in {"Flush", "Destroy"}
      BY <2>1 DEF ChainInv, InHand, PlaceOfOp
    <3>2. QED
      BY <2>2, <3>1 DEF Stands, Growing, Op
  <2>5. QED
    BY <2>1, <2>2, <2>3, <2>4 DEF ChainInv, InUse
<1>2. QED
  BY <1>1, ChainInvHolds, PTL

\* A hook that only overlaps APPEND and LIST commands meets a chain on which nothing hangs.
LEMMA QuietChain ==
    ASSUME TypeInv, OneHandler, NEW S, NEW ln, ChainInv(S, ln), NEW k \in Hooks,
           calm[k] # "disturbed"
    PROVE  \A n : ~Hanging(n)
<1>1. Stands(S, ln, k)
  BY DEF ChainInv
<1>2. ASSUME NEW h \in Handlers, hpc[h] = "carry" PROVE FALSE
  <2>1. Op(h) \in {"Insert", "Replace"}
    BY <1>2 DEF ChainInv, InHand, PlaceOfOp
  <2>2. QED
    BY <1>1, <1>2, <2>1 DEF Stands, Growing, Op
<1>3. QED
  BY <1>2, NothingHangs

\* With one command at a time such a hook finds the first rule of its chain that fits.
THEOREM GrownHooksFindFirst == OneHandler => (Spec => []GrownHookFindsFirst)
<1> SUFFICES ASSUME OneHandler PROVE Spec => []GrownHookFindsFirst
  OBVIOUS
<1>1. ASSUME TypeInv, ChainsHold PROVE GrownHookFindsFirst
  <2>1. PICK S, ln : ChainInv(S, ln)
    BY <1>1 DEF ChainsHold
  <2> SUFFICES ASSUME NEW k \in Hooks, calm[k] # "disturbed", kpc[k] \in Looking
               PROVE  \E i \in DOMAIN Nth(kchain[k]) :
                         /\ Nth(kchain[k])[i] = kr[k]
                         /\ \A j \in 0..(i - 1) : ~Fits(k, Nth(kchain[k])[j])
    BY DEF GrownHookFindsFirst, Looking
  <2> DEFINE c == kchain[k]
  <2>2. Stands(S, ln, k) /\ c \in Chains /\ \A n : ~Hanging(n)
    BY <1>1, <2>1, QuietChain DEF ChainInv, TypeInv, TypeOK, HookType
  <2>3. PICK j \in Nat : /\ j < ln[c] /\ kr[k] = S[c][j]
                         /\ \A i \in 0..(j - 1) : ~Fits(k, S[c][i])
    BY <2>2 DEF Stands
  <2>4. /\ \A i \in Nat : i <= ln[c] => i \in 0..Cardinality(Nodes) /\ Nth(c)[i] = S[c][i]
        /\ DOMAIN Nth(c) = 0..Cardinality(Nodes) /\ ln[c] \in Nat
    <3>1. Shape(S, ln) /\ Linked(S, ln)
      BY <2>1 DEF ChainInv
    <3>2. QED
      BY <2>2, <3>1, RulesAre
  <2>5. j \in DOMAIN Nth(c) /\ Nth(c)[j] = kr[k]
    BY <2>3, <2>4
  <2>6. \A i \in 0..(j - 1) : ~Fits(k, Nth(c)[i])
    <3>1. \A i \in 0..(j - 1) : i \in Nat /\ i <= ln[c]
      BY <2>3, <2>4
    <3>2. QED
      BY <2>3, <2>4, <3>1
  <2>7. QED
    BY <2>5, <2>6
<1>2. QED
  BY <1>1, ChainInvHolds, PTL

\* With one command at a time a hook that met no command decides by the first rule that fits.
THEOREM CalmHooksDecideRight == OneHandler => (Spec => []CalmHookRight)
<1> SUFFICES ASSUME OneHandler PROVE Spec => []CalmHookRight
  OBVIOUS
<1>1. ASSUME TypeInv, ChainsHold PROVE CalmHookRight
  <2>1. PICK S, ln : ChainInv(S, ln)
    BY <1>1 DEF ChainsHold
  <2> SUFFICES ASSUME NEW k \in Hooks, kpc[k] = "done", calm[k] = "calm"
               PROVE  kv[k] = IF cf.Invalid THEN "ACCEPT" ELSE Decision(kchain[k], kpkt[k])
    BY DEF CalmHookRight
  <2> DEFINE c == kchain[k]
             fits == {i \in 0..(ln[c] - 1) : key[S[c][i]] \in kpkt[k] /\ dest[S[c][i]] = Zero}
             first == CHOOSE i \in fits : \A j \in fits : i <= j
  <2>2. /\ Stands(S, ln, k) /\ Sure(S, ln, k) /\ c \in Chains /\ \A n : ~Hanging(n)
        /\ Shape(S, ln) /\ Linked(S, ln)
    BY <1>1, <2>1, QuietChain DEF ChainInv, TypeInv, TypeOK, HookType
  <2>3. /\ Length(c) = ln[c] /\ ln[c] \in Nat
        /\ \A i \in Nat : i <= ln[c] => Nth(c)[i] = S[c][i]
    BY <2>2, RulesAre
  <2>4. \A i \in 0..(ln[c] - 1) : i \in Nat /\ i <= ln[c] /\ Nth(c)[i] = S[c][i]
    BY <2>3
  <2>5. fits = {i \in 0..(Length(c) - 1) : key[Nth(c)[i]] \in kpkt[k] /\ dest[Nth(c)[i]] = Zero}
    BY <2>3, <2>4
  <2>6. fits = {i \in 0..(ln[c] - 1) : Fits(k, S[c][i])}
    BY DEF Fits
  <2>7. fits # {} => first \in fits
    <3>1. fits # {} => \E i \in fits : \A j \in fits : i <= j
      <4>1. fits \subseteq Nat
        BY <2>4
      <4> HIDE DEF fits
      <4>2. QED
        BY <4>1, Least
    <3> HIDE DEF fits
    <3>2. QED
      BY <3>1
  <2>8. Decision(c, kpkt[k]) = IF fits = {} THEN cf.DefaultAction
                               ELSE IF key[S[c][first]] \in Dropping THEN "DROP" ELSE "ACCEPT"
    <3>1. Decision(c, kpkt[k]) = IF fits = {} THEN cf.DefaultAction
                                 ELSE IF key[Nth(c)[first]] \in Dropping THEN "DROP" ELSE "ACCEPT"
      BY <2>5 DEF Decision
    <3>2. fits # {} => Nth(c)[first] = S[c][first]
      BY <2>4, <2>7
    <3> HIDE DEF fits, first
    <3>3. QED
      BY <3>1, <3>2
  <2>9. CASE cf.Invalid
    BY <2>2, <2>9 DEF Sure
  <2>10. CASE ~cf.Invalid /\ kr[k] = NIL
    <3>1. NoneFits(S, ln, k) /\ kv[k] = cf.DefaultAction
      BY <2>2, <2>10 DEF Sure
    <3>2. fits = {}
      BY <2>6, <3>1 DEF NoneFits
    <3> HIDE DEF fits, first
    <3>3. QED
      BY <2>8, <2>10, <3>1, <3>2
  <2>11. CASE ~cf.Invalid /\ kr[k] # NIL
    <3>1. Fits(k, kr[k]) /\ kv[k] = IF key[kr[k]] \in Dropping THEN "DROP" ELSE "ACCEPT"
      BY <2>2, <2>11 DEF Sure
    <3>2. PICK j \in Nat : /\ j < ln[c] /\ kr[k] = S[c][j]
                           /\ \A i \in 0..(j - 1) : ~Fits(k, S[c][i])
      BY <2>2, <2>11 DEF Stands
    <3>3. j \in fits
      BY <2>3, <2>6, <3>1, <3>2
    <3>4. \A i \in fits : j <= i
      <4> SUFFICES ASSUME NEW i \in fits PROVE j <= i
        OBVIOUS
      <4>1. i \in Nat /\ Fits(k, S[c][i])
        BY <2>4, <2>6
      <4>2. i < j => i \in 0..(j - 1)
        BY <4>1
      <4>3. QED
        BY <3>2, <4>1, <4>2
    <3>5. first = j
      <4>1. \A i \in fits : i \in Nat
        BY <2>4
      <4>2. \A i \in fits : (\A x \in fits : i <= x) => i = j
        BY <3>3, <3>4, <4>1
      <4> HIDE DEF fits
      <4>3. QED
        BY <3>3, <3>4, <4>2
    <3> HIDE DEF fits, first
    <3>6. QED
      BY <2>8, <2>11, <3>1, <3>2, <3>3, <3>5
  <2>12. QED
    BY <2>9, <2>10, <2>11
<1>2. QED
  BY <1>1, ChainInvHolds, PTL

\* With one command at a time a command that is not known to lose cells loses none.
THEOREM ReturnsAreClean == OneHandler => (Spec => CleanReturn)
<1> SUFFICES ASSUME OneHandler PROVE Spec => CleanReturn
  OBVIOUS
<1> DEFINE Clean == \A h \in Handlers :
                        hpc[h] # "idle" /\ hpc'[h] = "idle" /\ ~Leaky(h) => Leaked' \subseteq Leaked
<1>1. ASSUME TypeInv, ChainsHold, [Next]_vars PROVE Clean
  <2>1. PICK S, ln : ChainInv(S, ln)
    BY <1>1 DEF ChainsHold
  <2> SUFFICES ASSUME NEW h \in Handlers, hpc[h] # "idle", hpc'[h] = "idle", ~Leaky(h),
                      NEW n \in Leaked'
               PROVE  n \in Leaked
    OBVIOUS
  <2>2. Known(S, ln, h)
    BY <1>1, <2>1, BeforeStep
  <2>3. /\ hpc[h] \in {"reply", "list"} /\ UNCHANGED <<head, next>> /\ alloc' \subseteq alloc
        /\ hpc[h] = "list" => rule[h] \notin alloc'
    <3>1. PICK g \in Handlers : Handler(g)
      <4>1. CASE \E k \in Hooks : Hook(k)
        BY <4>1 DEF Hook, HookLocalIn, HookLocaOut, HookPreRouting, HookPostRouting, Enter,
           HookForward, HookWalk, HookMiss, HookLog, HookHit, HookHitWrite, HookVerdict,
           HookReturn, notHooks, handlerVars
      <4>2. CASE ProcWrite \/ UNCHANGED vars
        BY <4>2 DEF ProcWrite, vars, handlerVars
      <4>3. QED
        BY <1>1, <4>1, <4>2 DEF Next
    <3>2. Handler(h)
      BY <3>1 DEF OneHandler
    <3>3. CASE Reply(h)
      BY <3>3 DEF Reply, At, heapVars, tableVars
    <3>4. CASE ListNext(h)
      <4>1. hpc[h] = "list" /\ UNCHANGED <<head, next>>
        BY <3>4 DEF ListNext, At, tableVars
      <4>2. alloc' = alloc \ {rule[h]}
        BY <3>4, <4>1 DEF ListNext
      <4>3. QED
        BY <4>1, <4>2
    <3>5. CASE ExitHooks(h)
      <4>1. Op(h) = "Destroy"
        BY <2>2, <3>5 DEF ExitHooks, At, Known, InHand, PlaceOfOp
      <4>2. QED
        BY <4>1 DEF Leaky
    <3>6. CASE Handler(h) /\ ~Reply(h) /\ ~ListNext(h) /\ ~ExitHooks(h)
      <4>1. hpc'[h] # "idle"
        BY <2>2, <3>6 DEF Handler, Known, Goto, At, Unlink,
           Receive, ReceiveNoMemory, AppendLook, AppendHead, TailWalk, TailLink,
           CountRead, CountWrite, InsertLook, InsertPush, InsertPushWrite, Seek, InsertLink,
           Carry, ReplaceLook, ReplaceLink, ReplaceMiss, ReplaceFree, DeleteLook, DeleteAt,
           DeleteMiss, MatchWalk, DeleteMatch, MatchMiss, DeleteFree, UncountRead, UncountWrite,
           FlushLook, FlushWalk, FlushHead, FlushZero, ListLook, ListSend, ExitBegin
      <4>2. QED
        BY <4>1
    <3>7. QED
      BY <3>2, <3>3, <3>4, <3>5, <3>6
  <2>4. \A c \in Chains : Rules(c)' = Rules(c)
    BY <2>3 DEF Rules, Nth
  <2>5. n \in alloc' /\ \A c \in Chains : n \notin Rules(c)
    BY <2>4 DEF Leaked
  <2>6. n \in alloc /\ n # NIL
    BY <2>2, <2>3, <2>5, ChainsAssumption DEF Known
  <2>7. ~On(S, n)
    <3>1. Shape(S, ln) /\ Linked(S, ln) /\ \A x : ~Hanging(x)
      BY <2>1, <2>3 DEF ChainInv, Hanging, OneHandler
    <3>2. \A c \in Chains : \A i \in Nat : S[c][i] = n => i < ln[c]
      BY <2>6, <3>1 DEF Shape
    <3>3. \A c \in Chains : \A i \in Nat : i < ln[c] /\ n = S[c][i] => n \in Rules(c)
      BY <2>6, <3>1, RulesAre
    <3>4. QED
      BY <2>5, <2>6, <3>2, <3>3 DEF On
  <2>8. n \notin {rule[h], prev[h], cur[h]}
    <3>1. Keeps(S, h) /\ PlaceOfOp(h)
      BY <2>1 DEF ChainInv, InHand
    <3>2. CASE hpc[h] = "reply"
      BY <2>6, <2>7, <3>1, <3>2 DEF Keeps
    <3>3. CASE hpc[h] = "list"
      BY <2>3, <2>5, <2>7, <3>1, <3>3 DEF Keeps
    <3>4. QED
      BY <2>3, <3>2, <3>3
  <2>9. \A g \in Handlers : n \notin {rule[g], prev[g], cur[g]}
    BY <2>8 DEF OneHandler
  <2>10. QED
    BY <2>5, <2>6, <2>9 DEF Leaked
<1>2. TypeInv /\ ChainsHold /\ [Next]_vars => [Clean]_vars
  BY <1>1
<1>3. QED
  BY <1>2, ChainInvHolds, PTL DEF Spec, CleanReturn

\* With one command at a time a walk along a chain -- of APPEND to its end, of INSERT,
\* REPLACE and DELETE to a position, of DELETE by content -- has no more steps than there
\* are cells: each step of one raises `at` (`i++`), and `at` has a bound. No chain is a
\* circle in which a command goes round for ever.
Walking == {"tail", "seek", "match"}
THEOREM WalksAreShort ==
    OneHandler => (Spec => [](\A h \in Handlers : hpc[h] \in Walking =>
                                   at[h] \in 1..(Cardinality(Nodes) + 1)))
<1> DEFINE Short == \A h \in Handlers : hpc[h] \in Walking => at[h] \in 1..(Cardinality(Nodes) + 1)
<1> SUFFICES ASSUME OneHandler PROVE Spec => []Short
  OBVIOUS
<1>1. ASSUME TypeInv, ChainsHold PROVE Short
  <2>1. PICK S, ln : ChainInv(S, ln)
    BY <1>1 DEF ChainsHold
  <2> SUFFICES ASSUME NEW h \in Handlers, hpc[h] \in Walking
               PROVE  at[h] \in 1..(Cardinality(Nodes) + 1)
    OBVIOUS
  <2>2. PlaceOfOp(h) /\ at[h] \in 1..(ln[Chain(h)] + 1)
    BY <2>1 DEF ChainInv, InHand, Walks, Walking
  <2>3. Chain(h) \in Chains
    BY <1>1 DEF TypeInv, OnTable, OneChain, Walking
  <2>4. Cardinality(Nodes) \in Nat /\ ln[Chain(h)] <= Cardinality(Nodes) /\ ln[Chain(h)] \in Nat
    BY <2>1, <2>3, Bounded DEF ChainInv, Shape
  <2>5. QED
    BY <2>2, <2>4
<1>2. QED
  BY <1>1, ChainInvHolds, PTL

=============================================================================
