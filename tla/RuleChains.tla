------------------------------ MODULE RuleChains ------------------------------
(***************************************************************************)
(* The rule chains of the SIPFW kernel module (LinuxCode/20/sipfw/module): *)
(* three singly linked lists of rules that netlink commands change         *)
(* (sipfw_k_nl.c) while the packet hooks walk them (sipfw_k.c,             *)
(* sipfw_k_common.c).  The lock of struct sipfw_list is never taken, so    *)
(* every command handler and every hook is a process whose reads and       *)
(* writes of a shared cell are steps.  Two reads that the code makes one   *)
(* after the other and that open a walk are one step.                      *)
(*                                                                         *)
(* A rule is a cell of the kernel heap.  key stands for the fields that    *)
(* the command sets and the code compares, the action included; dest is    *)
(* the one field that no code sets (SIPFW_NLDoAction assigns source twice):*)
(* it keeps what the memory last held.  A freed cell keeps its content     *)
(* until kmalloc returns it again, and a process may still read it.        *)
(* A process that dereferences NULL or indexes past the table is "oops".   *)
(***************************************************************************)
EXTENDS Integers, FiniteSets

CONSTANTS Nodes,      \* the cells kmalloc can return
          NIL,        \* the null pointer
          Keys,       \* what a rule says: addresses, ports, protocol, action
          Dropping,   \* the keys whose action is SIPFW_ACTION_DROP
          Junk,       \* what the dest field of a cell may hold before its use
          Handlers,   \* the processes inside SIPFW_NLInput
          Hooks,      \* the processors that run a netfilter hook
          Ops,        \* the commands that user processes send
          Targets,    \* the chains they name
          Positions,  \* the rule numbers they give, -1 for none
          Settings,   \* what the proc files may set cf to
          HitModulus, \* where cf.HitNumber wraps, 2^32 in the code
          MaxDeficit  \* a bound on how far a rule count falls below zero

CmdNames == {"Insert", "Delete", "Append", "List", "Flush", "Replace"}
Chains   == 0..2                    \* SIPFW_CHAIN_INPUT, _OUTPUT, _FORWARD
Input    == 0
Output   == 1
All      == 3                       \* SIPFW_CHAIN_ALL, and one past the table
Actions  == {"DROP", "ACCEPT"}
Conf     == [Invalid : BOOLEAN, DefaultAction : Actions, LogPause : BOOLEAN]
Zero     == 0

ASSUME ChainsAssumption ==
    /\ IsFiniteSet(Nodes) /\ NIL \notin Nodes
    /\ Keys # {}
    /\ Dropping \subseteq Keys
    /\ Ops \subseteq CmdNames
    /\ Targets \subseteq 0..All
    /\ Positions \subseteq Nat \cup {-1}
    /\ Settings \subseteq Conf
    /\ HitModulus \in Nat \ {0}
    /\ MaxDeficit \in Nat

HandlerPC == {"idle", "begin", "head", "tail", "inc", "incw", "push", "pushw",
              "seek", "carry", "match", "free", "dec", "decw", "drop", "flush",
              "zero", "list", "reply", "hooks", "oops"}
HookPC == {"idle", "walk", "log", "hit", "hitw", "verdict", "done"}
Calmness == {"calm", "grown", "disturbed"}

VARIABLES
    alloc,   \* the cells in use
    next, key, dest,  \* what each cell holds
    head,    \* chain -> sipfw_tables[].rule
    number,  \* chain -> sipfw_tables[].number
    cf,      \* the settings of struct sipfw_conf
    hits,    \* cf.HitNumber
    module,  \* "live", "leaving" (SIPFW_Exit runs) or "gone"
    hpc,     \* handler -> where it is
    cmd,     \* handler -> the command it carries out
    rule,    \* handler -> the cell SIPFW_NLDoAction made for it
    prev, cur, at,    \* handler -> the walk: the cells and the index i
    ci,      \* handler -> the chain that Flush, List or ListDestroy is at
    tmp,     \* handler -> a count read and not yet written back
    kpc,     \* hook -> where it is
    kchain, kpkt,     \* hook -> the chain it walks, the keys its packet fits
    kr,      \* hook -> r of SIPFW_IsMatch
    kv,      \* hook -> the verdict
    ktmp,    \* hook -> a HitNumber read and not yet written back
    calm     \* history: hook -> what commands did since it started

heapVars  == <<alloc, next, key, dest>>
tableVars == <<head, number>>
walkVars  == <<prev, cur, at, ci>>
cmdVars   == <<cmd, rule>>
hookVars  == <<kpc, kchain, kpkt, kr, kv, ktmp, hits>>
handlerVars == <<hpc, cmd, rule, prev, cur, at, ci, tmp>>
vars == <<heapVars, tableVars, cf, module, handlerVars, hookVars, calm>>

Cmds == {c \in [op : Ops, chain : Targets, key : Keys, number : Positions] :
            /\ c.op \in {"Append", "List", "Flush"} => c.number = -1
            /\ c.op \in {"List", "Flush"} => c.key = CHOOSE k \in Keys : TRUE}

\* What SIPFW_Exit does is a command to all chains; also cmd when there is none.
Destroy == [op |-> "Destroy", chain |-> All, key |-> CHOOSE k \in Keys : TRUE,
            number |-> -1]

Init ==
    /\ alloc = {}
    /\ next = [n \in Nodes |-> NIL]
    /\ key = [n \in Nodes |-> CHOOSE k \in Keys : TRUE]
    /\ dest \in [Nodes -> Junk]
    /\ head = [c \in Chains |-> NIL]
    /\ number = [c \in Chains |-> 0]
    /\ cf = [Invalid |-> FALSE, DefaultAction |-> "ACCEPT", LogPause |-> FALSE]
    /\ hits = 0
    /\ module = "live"
    /\ hpc = [h \in Handlers |-> "idle"]
    /\ cmd = [h \in Handlers |-> Destroy]
    /\ rule = [h \in Handlers |-> NIL]
    /\ prev = [h \in Handlers |-> NIL]
    /\ cur = [h \in Handlers |-> NIL]
    /\ at = [h \in Handlers |-> 0]
    /\ ci = [h \in Handlers |-> 0]
    /\ tmp = [h \in Handlers |-> 0]
    /\ kpc = [k \in Hooks |-> "idle"]
    /\ kchain = [k \in Hooks |-> Input]
    /\ kpkt = [k \in Hooks |-> {}]
    /\ kr = [k \in Hooks |-> NIL]
    /\ kv = [k \in Hooks |-> "none"]
    /\ ktmp = [k \in Hooks |-> 0]
    /\ calm = [k \in Hooks |-> "disturbed"]

-----------------------------------------------------------------------------
(* Command handlers.                                                         *)

AllIdle == \A h \in Handlers : hpc[h] = "idle"

\* What a hook meets: nothing changes, rules are appended, anything may happen.
Growing(h) == hpc[h] # "idle" /\ cmd[h].op \in {"Append", "List"}
Disturb(h) ==
    calm' = [k \in Hooks |-> IF Growing(h) /\ calm[k] # "disturbed" THEN "grown"
                             ELSE "disturbed"]

At(h, place) == hpc[h] = place /\ Disturb(h)
Goto(h, place) == hpc' = [hpc EXCEPT ![h] = place]

\* The handler returns and its locals are gone.
Return(h) ==
    /\ Goto(h, "idle")
    /\ cmd' = [cmd EXCEPT ![h] = Destroy]
    /\ rule' = [rule EXCEPT ![h] = NIL]
    /\ prev' = [prev EXCEPT ![h] = NIL]
    /\ cur' = [cur EXCEPT ![h] = NIL]
    /\ at' = [at EXCEPT ![h] = 0]
    /\ ci' = [ci EXCEPT ![h] = 0]
    /\ tmp' = [tmp EXCEPT ![h] = 0]

Op(h) == cmd[h].op
Chain(h) == cmd[h].chain

\* `for(cur = l->rule, i = 1; ...)`: prev is still NULL.
StartWalk(h, c) ==
    /\ cur' = [cur EXCEPT ![h] = head[c]]
    /\ prev' = [prev EXCEPT ![h] = NIL]
    /\ at' = [at EXCEPT ![h] = 1]
    /\ UNCHANGED ci

\* (mutant: the loop forgets cur = cur->next)
Advance_Stuck(h) == prev' = [prev EXCEPT ![h] = cur[h]] /\ UNCHANGED <<cur, at, ci>>

\* `prev = cur, cur = cur->next, i++`
Advance(h) ==
    /\ prev' = [prev EXCEPT ![h] = cur[h]]
    /\ cur' = [cur EXCEPT ![h] = next[cur[h]]]
    /\ at' = [at EXCEPT ![h] = @ + 1]
    /\ UNCHANGED ci

\* (mutant: no case for the first rule of the chain)
Redirect_NoHead(h, n) ==
    /\ next' = IF prev[h] = NIL THEN next ELSE [next EXCEPT ![prev[h]] = n]
    /\ UNCHANGED head

\* What points at cur[h], the head pointer of the chain or prev[h]->next,
\* is made to point at n.
Redirect(h, n) ==
    IF prev[h] = NIL
    THEN head' = [head EXCEPT ![Chain(h)] = n] /\ UNCHANGED next
    ELSE next' = [next EXCEPT ![prev[h]] = n] /\ UNCHANGED head

\* kmalloc returns a cell no one uses, with its old dest; the fields the
\* command gives are stored.  A chain of 3 (SIPFW_CHAIN_ALL) is only tested
\* by List and Flush; the other commands take the address past the table.
Receive(h) ==
    /\ hpc[h] = "idle" /\ module = "live"
    /\ \A c \in Chains : number[c] >= -MaxDeficit
    /\ \E c \in Cmds, n \in Nodes \ alloc :
         /\ cmd' = [cmd EXCEPT ![h] = c]
         /\ rule' = [rule EXCEPT ![h] = n]
         /\ alloc' = alloc \cup {n}
         /\ next' = [next EXCEPT ![n] = NIL]
         /\ key' = [key EXCEPT ![n] = c.key]
         /\ Goto(h, IF c.chain = All /\ c.op \notin {"List", "Flush"}
                    THEN "oops" ELSE "begin")
    /\ UNCHANGED <<dest, tableVars, cf, module, walkVars, tmp, hookVars, calm>>

\* kmalloc fails; the error is printed and the null pointer used.
ReceiveNoMemory(h) ==
    /\ hpc[h] = "idle" /\ module = "live"
    /\ alloc = Nodes
    /\ \E c \in Cmds : cmd' = [cmd EXCEPT ![h] = c]
    /\ rule' = [rule EXCEPT ![h] = NIL]
    /\ Goto(h, "oops")
    /\ UNCHANGED <<heapVars, tableVars, cf, module, walkVars, tmp, hookVars, calm>>

\* SIPFW_NLSendToUser(SUCCESS): every command but List is answered so.
Reply(h) ==
    /\ At(h, "reply")
    /\ Return(h)
    /\ UNCHANGED <<heapVars, tableVars, cf, module, hookVars>>

\* (mutant: the empty chain is not told apart)
AppendLook_NoTest(h) ==
    /\ At(h, "begin") /\ Op(h) = "Append"
    /\ Goto(h, "tail")
    /\ StartWalk(h, Chain(h))
    /\ UNCHANGED <<heapVars, tableVars, cf, module, cmdVars, tmp, hookVars>>

\* (mutant: the rule always becomes the first)
AppendLook_AtHead(h) ==
    /\ At(h, "begin") /\ Op(h) = "Append"
    /\ Goto(h, "head")
    /\ StartWalk(h, Chain(h))
    /\ UNCHANGED <<heapVars, tableVars, cf, module, cmdVars, tmp, hookVars>>

\* SIPFW_NLAction_RuleAddpend
AppendLook(h) ==
    /\ At(h, "begin") /\ Op(h) = "Append"
    /\ Goto(h, IF head[Chain(h)] = NIL THEN "head" ELSE "tail")
    /\ StartWalk(h, Chain(h))
    /\ UNCHANGED <<heapVars, tableVars, cf, module, cmdVars, tmp, hookVars>>

AppendHead(h) ==
    /\ At(h, "head")
    /\ head' = [head EXCEPT ![Chain(h)] = rule[h]]
    /\ Goto(h, "inc")
    /\ UNCHANGED <<heapVars, number, cf, module, cmdVars, walkVars, tmp, hookVars>>

\* The walk to the end of the chain, also that of SIPFW_NLAction_RuleInsert.
TailWalk(h) ==
    /\ At(h, "tail") /\ cur[h] # NIL
    /\ Advance(h)
    /\ UNCHANGED <<heapVars, tableVars, cf, module, hpc, cmdVars, tmp, hookVars>>

\* `prev->next = rule`; only Append counts the rule.
TailLink(h) ==
    /\ At(h, "tail") /\ cur[h] = NIL
    /\ IF prev[h] = NIL
       THEN Goto(h, "oops") /\ UNCHANGED next
       ELSE /\ next' = [next EXCEPT ![prev[h]] = rule[h]]
            /\ Goto(h, IF Op(h) = "Append" THEN "inc" ELSE "reply")
    /\ UNCHANGED <<alloc, key, dest, tableVars, cf, module, cmdVars, walkVars, tmp,
                   hookVars>>

\* `l->number++`
CountRead(h) ==
    /\ At(h, "inc")
    /\ tmp' = [tmp EXCEPT ![h] = number[Chain(h)]]
    /\ Goto(h, "incw")
    /\ UNCHANGED <<heapVars, tableVars, cf, module, cmdVars, walkVars, hookVars>>

CountWrite(h) ==
    /\ At(h, "incw")
    /\ number' = [number EXCEPT ![Chain(h)] = tmp[h] + 1]
    /\ Goto(h, "reply")
    /\ UNCHANGED <<heapVars, head, cf, module, cmdVars, walkVars, tmp, hookVars>>

-----------------------------------------------------------------------------
\* SIPFW_NLAction_RuleInsert: where the rule goes.
InsertLook(h) ==
    LET n == cmd[h].number IN
    /\ At(h, "begin") /\ Op(h) = "Insert"
    /\ Goto(h, IF n = 1 THEN "push"
               ELSE IF n > number[Chain(h)] THEN "tail"
               ELSE IF n # -1 THEN "seek" ELSE "reply")
    /\ StartWalk(h, Chain(h))
    /\ UNCHANGED <<heapVars, tableVars, cf, module, cmdVars, tmp, hookVars>>

InsertPush(h) ==
    /\ At(h, "push")
    /\ next' = [next EXCEPT ![rule[h]] = head[Chain(h)]]
    /\ Goto(h, "pushw")
    /\ UNCHANGED <<alloc, key, dest, tableVars, cf, module, cmdVars, walkVars, tmp,
                   hookVars>>

InsertPushWrite(h) ==
    /\ At(h, "pushw")
    /\ head' = [head EXCEPT ![Chain(h)] = rule[h]]
    /\ Goto(h, "reply")
    /\ UNCHANGED <<heapVars, number, cf, module, cmdVars, walkVars, tmp, hookVars>>

\* The walk to position `number`: `i < number` for Insert, `i != number` for
\* Delete and Replace.
InPlace(h) == IF Op(h) = "Insert" THEN at[h] >= cmd[h].number
                                  ELSE at[h] = cmd[h].number

Seek(h) ==
    /\ At(h, "seek") /\ cur[h] # NIL /\ ~InPlace(h)
    /\ Advance(h)
    /\ UNCHANGED <<heapVars, tableVars, cf, module, hpc, cmdVars, tmp, hookVars>>

\* `prev->next = rule`, with no test of prev.
InsertLink(h) ==
    /\ At(h, "seek") /\ Op(h) = "Insert"
    /\ cur[h] = NIL \/ InPlace(h)
    /\ IF prev[h] = NIL
       THEN Goto(h, "oops") /\ UNCHANGED next
       ELSE next' = [next EXCEPT ![prev[h]] = rule[h]] /\ Goto(h, "carry")
    /\ UNCHANGED <<alloc, key, dest, tableVars, cf, module, cmdVars, walkVars, tmp,
                   hookVars>>

\* `rule->next = cur->next`, in Insert and in Replace.
Carry(h) ==
    /\ At(h, "carry")
    /\ IF cur[h] = NIL
       THEN Goto(h, "oops") /\ UNCHANGED next
       ELSE /\ next' = [next EXCEPT ![rule[h]] = next[cur[h]]]
            /\ Goto(h, IF Op(h) = "Insert" THEN "reply" ELSE "drop")
    /\ UNCHANGED <<alloc, key, dest, tableVars, cf, module, cmdVars, walkVars, tmp,
                   hookVars>>

\* SIPFW_NLAction_RuleReplace; nothing frees the new rule when the position
\* does not exist, and the last branch only runs for -1.
ReplaceLook(h) ==
    /\ At(h, "begin") /\ Op(h) = "Replace"
    /\ Goto(h, IF cmd[h].number # -1 THEN "seek" ELSE "reply")
    /\ alloc' = IF cmd[h].number = -1 /\ cmd[h].number > number[Chain(h)]
                THEN alloc \ {rule[h]} ELSE alloc
    /\ StartWalk(h, Chain(h))
    /\ UNCHANGED <<next, key, dest, tableVars, cf, module, cmdVars, tmp, hookVars>>

ReplaceLink(h) ==
    /\ At(h, "seek") /\ Op(h) = "Replace" /\ cur[h] # NIL /\ InPlace(h)
    /\ Redirect(h, rule[h])
    /\ Goto(h, "carry")
    /\ UNCHANGED <<alloc, key, dest, number, cf, module, cmdVars, walkVars, tmp,
                   hookVars>>

ReplaceMiss(h) ==
    /\ At(h, "seek") /\ Op(h) = "Replace" /\ cur[h] = NIL
    /\ Goto(h, "reply")
    /\ UNCHANGED <<heapVars, tableVars, cf, module, cmdVars, walkVars, tmp, hookVars>>

ReplaceFree(h) ==
    /\ At(h, "drop")
    /\ alloc' = alloc \ {cur[h]}
    /\ Goto(h, "reply")
    /\ UNCHANGED <<next, key, dest, tableVars, cf, module, cmdVars, walkVars, tmp,
                   hookVars>>

-----------------------------------------------------------------------------
\* SIPFW_NLAction_RuleDelete
DeleteLook(h) ==
    LET n == cmd[h].number
        tooFar == n > number[Chain(h)]
    IN
    /\ At(h, "begin") /\ Op(h) = "Delete"
    /\ alloc' = IF tooFar THEN alloc \ {rule[h]} ELSE alloc
    /\ Goto(h, IF tooFar THEN "reply" ELSE IF n # -1 THEN "seek" ELSE "match")
    /\ StartWalk(h, Chain(h))
    /\ UNCHANGED <<next, key, dest, tableVars, cf, module, cmdVars, tmp, hookVars>>

Unlink(h) ==
    /\ Redirect(h, next[cur[h]])
    /\ Goto(h, "free")
    /\ UNCHANGED <<alloc, key, dest, number, cf, module, cmdVars, walkVars, tmp,
                   hookVars>>

DeleteAt(h) ==
    /\ At(h, "seek") /\ Op(h) = "Delete" /\ cur[h] # NIL /\ InPlace(h)
    /\ Unlink(h)

\* (mutant: the command's own cell is forgotten)
DeleteMiss_NoFree(h) ==
    /\ At(h, "seek") /\ Op(h) = "Delete" /\ cur[h] = NIL
    /\ Goto(h, "reply")
    /\ UNCHANGED <<heapVars, tableVars, cf, module, cmdVars, walkVars, tmp, hookVars>>

DeleteMiss(h) ==
    /\ At(h, "seek") /\ Op(h) = "Delete" /\ cur[h] = NIL
    /\ alloc' = alloc \ {rule[h]}
    /\ Goto(h, "reply")
    /\ UNCHANGED <<next, key, dest, tableVars, cf, module, cmdVars, walkVars, tmp,
                   hookVars>>

\* The fields of *cur and *rule, dest among them, are equal.
SameRule(m, n) == key[m] = key[n] /\ dest[m] = dest[n]

MatchWalk(h) ==
    /\ At(h, "match") /\ cur[h] # NIL /\ ~SameRule(cur[h], rule[h])
    /\ Advance(h)
    /\ UNCHANGED <<heapVars, tableVars, cf, module, hpc, cmdVars, tmp, hookVars>>

DeleteMatch(h) ==
    /\ At(h, "match") /\ cur[h] # NIL /\ SameRule(cur[h], rule[h])
    /\ Unlink(h)

\* The end of the chain: the loop ends and nothing frees rule.
MatchMiss(h) ==
    /\ At(h, "match") /\ cur[h] = NIL
    /\ Goto(h, "reply")
    /\ UNCHANGED <<heapVars, tableVars, cf, module, cmdVars, walkVars, tmp, hookVars>>

DeleteFree(h) ==
    /\ At(h, "free")
    /\ alloc' = alloc \ {cur[h]}
    /\ Goto(h, "dec")
    /\ UNCHANGED <<next, key, dest, tableVars, cf, module, cmdVars, walkVars, tmp,
                   hookVars>>

\* `l->number--` and `kfree(rule)`
UncountRead(h) ==
    /\ At(h, "dec")
    /\ tmp' = [tmp EXCEPT ![h] = number[Chain(h)]]
    /\ Goto(h, "decw")
    /\ UNCHANGED <<heapVars, tableVars, cf, module, cmdVars, walkVars, hookVars>>

UncountWrite(h) ==
    /\ At(h, "decw")
    /\ number' = [number EXCEPT ![Chain(h)] = tmp[h] - 1]
    /\ alloc' = alloc \ {rule[h]}
    /\ Goto(h, "reply")
    /\ UNCHANGED <<next, key, dest, head, cf, module, cmdVars, walkVars, tmp, hookVars>>

-----------------------------------------------------------------------------
\* The chains that Flush, List and SIPFW_ListDestroy go through.
FirstChain(h) == IF Chain(h) = All THEN 0 ELSE Chain(h)
LastChain(h)  == IF Chain(h) = All THEN 2 ELSE Chain(h)

EnterChain(h, c) ==
    /\ ci' = [ci EXCEPT ![h] = c]
    /\ cur' = [cur EXCEPT ![h] = head[c]]
    /\ UNCHANGED at

\* SIPFW_NLAction_RuleFlush and SIPFW_ListDestroy
FlushLook(h) ==
    /\ At(h, "begin") /\ Op(h) \in {"Flush", "Destroy"}
    /\ EnterChain(h, FirstChain(h))
    /\ prev' = [prev EXCEPT ![h] = NIL]
    /\ Goto(h, "flush")
    /\ UNCHANGED <<heapVars, tableVars, cf, module, cmdVars, tmp, hookVars>>

FlushWalk(h) ==
    /\ At(h, "flush") /\ cur[h] # NIL
    /\ alloc' = alloc \ {prev[h]}
    /\ Advance(h)
    /\ UNCHANGED <<next, key, dest, tableVars, cf, module, hpc, cmdVars, tmp, hookVars>>

FlushHead(h) ==
    /\ At(h, "flush") /\ cur[h] = NIL
    /\ head' = [head EXCEPT ![ci[h]] = NIL]
    /\ Goto(h, "zero")
    /\ UNCHANGED <<heapVars, number, cf, module, cmdVars, walkVars, tmp, hookVars>>

\* prev goes on to the next chain, whose walk frees it.
FlushZero(h) ==
    /\ At(h, "zero")
    /\ number' = [number EXCEPT ![ci[h]] = 0]
    /\ IF ci[h] < LastChain(h)
       THEN EnterChain(h, ci[h] + 1) /\ Goto(h, "flush") /\ UNCHANGED <<alloc, prev>>
       ELSE /\ alloc' = alloc \ {rule[h]}
            /\ Goto(h, IF Op(h) = "Flush" THEN "reply" ELSE "hooks")
            /\ UNCHANGED walkVars
    /\ UNCHANGED <<next, key, dest, head, cf, module, cmdVars, tmp, hookVars>>

\* SIPFW_NLAction_RuleList: the count goes out first, then rule after rule.
\* tmp holds the count, at - 1 is how many rules were sent.
ListLook(h) ==
    /\ At(h, "begin") /\ Op(h) = "List"
    /\ tmp' = [tmp EXCEPT ![h] = IF Chain(h) = All
                                 THEN number[0] + number[1] + number[2]
                                 ELSE number[Chain(h)]]
    /\ ci' = [ci EXCEPT ![h] = FirstChain(h)]
    /\ cur' = [cur EXCEPT ![h] = head[FirstChain(h)]]
    /\ at' = [at EXCEPT ![h] = 1]
    /\ Goto(h, "list")
    /\ UNCHANGED <<heapVars, tableVars, cf, module, cmdVars, prev, hookVars>>

ListSend(h) ==
    /\ At(h, "list") /\ cur[h] # NIL
    /\ Advance(h)
    /\ UNCHANGED <<heapVars, tableVars, cf, module, hpc, cmdVars, tmp, hookVars>>

ListNext(h) ==
    /\ At(h, "list") /\ cur[h] = NIL
    /\ IF ci[h] < LastChain(h)
       THEN EnterChain(h, ci[h] + 1) /\ UNCHANGED <<hpc, alloc, prev, cmdVars, tmp>>
       ELSE alloc' = alloc \ {rule[h]} /\ Return(h)
    /\ UNCHANGED <<next, key, dest, tableVars, cf, module, hookVars>>

\* SIPFW_Exit: open netlink sockets keep the module in, so no command runs.
\* The netlink socket goes, then the rules, and the hooks last of all.
ExitBegin(h) ==
    /\ hpc[h] = "idle" /\ AllIdle /\ module = "live"
    /\ module' = "leaving"
    /\ cmd' = [cmd EXCEPT ![h] = Destroy]
    /\ rule' = [rule EXCEPT ![h] = NIL]
    /\ Goto(h, "begin")
    /\ UNCHANGED <<heapVars, tableVars, cf, walkVars, tmp, hookVars, calm>>

\* nf_unregister_hooks waits until no processor is inside a hook.
ExitHooks(h) ==
    /\ At(h, "hooks")
    /\ \A k \in Hooks : kpc[k] = "idle"
    /\ module' = "gone"
    /\ Return(h)
    /\ UNCHANGED <<heapVars, tableVars, cf, hookVars>>

-----------------------------------------------------------------------------
(* The packet hooks and the proc files.                                      *)

KAt(k, place) == kpc[k] = place
KGoto(k, place) == kpc' = [kpc EXCEPT ![k] = place]
notHooks == <<heapVars, tableVars, cf, module, handlerVars>>

\* A packet arrives at a hook point that consults chain c.
Enter(k, c) ==
    /\ KAt(k, "idle") /\ module # "gone"
    /\ \E p \in SUBSET Keys : kpkt' = [kpkt EXCEPT ![k] = p]
    /\ kchain' = [kchain EXCEPT ![k] = c]
    /\ IF cf.Invalid
       THEN /\ kv' = [kv EXCEPT ![k] = "ACCEPT"]
            /\ KGoto(k, "done")
            /\ UNCHANGED kr
       ELSE /\ kr' = [kr EXCEPT ![k] = head[c]]
            /\ KGoto(k, "walk")
            /\ UNCHANGED kv
    /\ calm' = [calm EXCEPT ![k] =
                   IF AllIdle THEN "calm"
                   ELSE IF \A h \in Handlers : hpc[h] = "idle" \/ Growing(h)
                   THEN "grown" ELSE "disturbed"]
    /\ UNCHANGED <<notHooks, ktmp, hits>>

HookLocalIn(k)     == Enter(k, Input)
HookLocaOut(k)     == Enter(k, Output)
HookPreRouting(k)  == Enter(k, Output)
HookPostRouting(k) == Enter(k, Output)

\* SIPFW_HookForward rewrites the Ethernet header, sends the packet itself
\* and returns NF_STOLEN before it looks at cf or at a chain.
HookForward(k) ==
    /\ KAt(k, "idle") /\ module # "gone"
    /\ kv' = [kv EXCEPT ![k] = "STOLEN"]
    /\ KGoto(k, "done")
    /\ UNCHANGED <<notHooks, kchain, kpkt, kr, ktmp, hits, calm>>

\* SIPFW_IsIPMatch and SIPFW_IsAddtionMatch: a dest of zero fits every
\* packet, any other leftover value none of these.
Fits(k, n) == key[n] \in kpkt[k] /\ dest[n] = Zero

\* (mutant: no break at the rule that fits)
HookWalk_NoBreak(k) ==
    /\ KAt(k, "walk") /\ kr[k] # NIL
    /\ IF Fits(k, kr[k]) /\ next[kr[k]] = NIL
       THEN KGoto(k, "log") /\ UNCHANGED kr
       ELSE kr' = [kr EXCEPT ![k] = next[kr[k]]] /\ UNCHANGED kpc
    /\ UNCHANGED <<notHooks, kchain, kpkt, kv, ktmp, hits, calm>>

HookWalk(k) ==
    /\ KAt(k, "walk") /\ kr[k] # NIL
    /\ IF Fits(k, kr[k])
       THEN KGoto(k, "log") /\ UNCHANGED kr
       ELSE kr' = [kr EXCEPT ![k] = next[kr[k]]] /\ UNCHANGED kpc
    /\ UNCHANGED <<notHooks, kchain, kpkt, kv, ktmp, hits, calm>>

HookMiss(k) ==
    /\ KAt(k, "walk") /\ kr[k] = NIL
    /\ kv' = [kv EXCEPT ![k] = cf.DefaultAction]
    /\ KGoto(k, "done")
    /\ UNCHANGED <<notHooks, kchain, kpkt, kr, ktmp, hits, calm>>

\* SIPFW_LogAppend opens and writes the log file, or returns if cf.LogPause;
\* either way the rule is used again afterwards.
HookLog(k) ==
    /\ KAt(k, "log")
    /\ KGoto(k, "hit")
    /\ UNCHANGED <<notHooks, kchain, kpkt, kr, kv, ktmp, hits, calm>>

\* `cf.HitNumber++`
HookHit(k) ==
    /\ KAt(k, "hit")
    /\ ktmp' = [ktmp EXCEPT ![k] = hits]
    /\ KGoto(k, "hitw")
    /\ UNCHANGED <<notHooks, kchain, kpkt, kr, kv, hits, calm>>

HookHitWrite(k) ==
    /\ KAt(k, "hitw")
    /\ hits' = (ktmp[k] + 1) % HitModulus
    /\ KGoto(k, "verdict")
    /\ UNCHANGED <<notHooks, kchain, kpkt, kr, kv, ktmp, calm>>

\* `found->action`
HookVerdict(k) ==
    /\ KAt(k, "verdict")
    /\ kv' = [kv EXCEPT ![k] = IF key[kr[k]] \in Dropping THEN "DROP" ELSE "ACCEPT"]
    /\ KGoto(k, "done")
    /\ UNCHANGED <<notHooks, kchain, kpkt, kr, ktmp, hits, calm>>

HookReturn(k) ==
    /\ KAt(k, "done")
    /\ KGoto(k, "idle")
    /\ kv' = [kv EXCEPT ![k] = "none"]
    /\ kr' = [kr EXCEPT ![k] = NIL]
    /\ kpkt' = [kpkt EXCEPT ![k] = {}]
    /\ kchain' = [kchain EXCEPT ![k] = Input]
    /\ calm' = [calm EXCEPT ![k] = "disturbed"]
    /\ ktmp' = [ktmp EXCEPT ![k] = 0]
    /\ UNCHANGED <<notHooks, hits>>

\* A write to defaultaction, invalid or logpause under /proc/net/sipfw.
ProcWrite ==
    /\ module # "gone" /\ \A h \in Handlers : hpc[h] # "hooks"
    /\ cf' \in Settings
    /\ calm' = [k \in Hooks |-> "disturbed"]
    /\ UNCHANGED <<heapVars, tableVars, module, handlerVars, hookVars>>

Handler(h) ==
    \/ Receive(h) \/ ReceiveNoMemory(h) \/ Reply(h)
    \/ AppendLook(h) \/ AppendHead(h) \/ TailWalk(h) \/ TailLink(h)
    \/ CountRead(h) \/ CountWrite(h)
    \/ InsertLook(h) \/ InsertPush(h) \/ InsertPushWrite(h)
    \/ Seek(h) \/ InsertLink(h) \/ Carry(h)
    \/ ReplaceLook(h) \/ ReplaceLink(h) \/ ReplaceMiss(h) \/ ReplaceFree(h)
    \/ DeleteLook(h) \/ DeleteAt(h) \/ DeleteMiss(h)
    \/ MatchWalk(h) \/ DeleteMatch(h) \/ MatchMiss(h) \/ DeleteFree(h)
    \/ UncountRead(h) \/ UncountWrite(h)
    \/ FlushLook(h) \/ FlushWalk(h) \/ FlushHead(h) \/ FlushZero(h)
    \/ ListLook(h) \/ ListSend(h) \/ ListNext(h)
    \/ ExitBegin(h) \/ ExitHooks(h)

Hook(k) ==
    \/ HookLocalIn(k) \/ HookLocaOut(k) \/ HookPreRouting(k) \/ HookPostRouting(k)
    \/ HookForward(k) \/ HookWalk(k) \/ HookMiss(k) \/ HookLog(k)
    \/ HookHit(k) \/ HookHitWrite(k) \/ HookVerdict(k) \/ HookReturn(k)

Next ==
    \/ \E h \in Handlers : Handler(h)
    \/ \E k \in Hooks : Hook(k)
    \/ ProcWrite

Spec == Init /\ [][Next]_vars

\* The kernel runs a command it has received to its end.
FairSpec == Spec /\ \A h \in Handlers :
                        WF_vars(Handler(h) /\ hpc[h] # "idle")

-----------------------------------------------------------------------------
(* Properties.                                                               *)

HeapType ==
    /\ alloc \subseteq Nodes
    /\ next \in [Nodes -> Nodes \cup {NIL}]
    /\ key \in [Nodes -> Keys]
    /\ dest \in [Nodes -> Junk]

TableType ==
    /\ head \in [Chains -> Nodes \cup {NIL}]
    /\ number \in [Chains -> Int]
    /\ cf \in Conf
    /\ module \in {"live", "leaving", "gone"}

HandlerType ==
    /\ hpc \in [Handlers -> HandlerPC]
    /\ cmd \in [Handlers -> Cmds \cup {Destroy}]
    /\ rule \in [Handlers -> Nodes \cup {NIL}]
    /\ prev \in [Handlers -> Nodes \cup {NIL}]
    /\ cur \in [Handlers -> Nodes \cup {NIL}]
    /\ at \in [Handlers -> Nat]
    /\ ci \in [Handlers -> Chains]
    /\ tmp \in [Handlers -> Int]

HookType ==
    /\ kpc \in [Hooks -> HookPC]
    /\ kchain \in [Hooks -> Chains]
    /\ kpkt \in [Hooks -> SUBSET Keys]
    /\ kr \in [Hooks -> Nodes \cup {NIL}]
    /\ kv \in [Hooks -> Actions \cup {"STOLEN", "none"}]
    /\ ktmp \in [Hooks -> 0..(HitModulus - 1)]
    /\ hits \in 0..(HitModulus - 1)
    /\ calm \in [Hooks -> Calmness]

TypeOK == HeapType /\ TableType /\ HandlerType /\ HookType

\* The rules of a chain in order: Nth(c)[0] is the first; NIL from the end on.
Nth(c) ==
    LET f[i \in 0..Cardinality(Nodes)] ==
            IF i = 0 THEN head[c]
            ELSE IF f[i - 1] = NIL THEN NIL ELSE next[f[i - 1]]
    IN f
Rules(c) == {Nth(c)[i] : i \in 0..Cardinality(Nodes)} \ {NIL}
Length(c) == CHOOSE i \in 0..Cardinality(Nodes) :
                 /\ Nth(c)[i] = NIL
                 /\ \A j \in 0..(i - 1) : Nth(c)[j] # NIL

\* kfree is only given a cell in use.
NoDoubleFree ==
    \A h \in Handlers :
        /\ hpc[h] \in {"free", "drop"} => cur[h] \in alloc
        /\ hpc[h] = "flush" /\ prev[h] # NIL => prev[h] \in alloc
        /\ rule[h] # NIL /\ hpc[h] \in {"begin", "dec", "decw"} => rule[h] \in alloc

\* Between two commands every chain ends, no rule stands on two chains, every
\* rule on a chain is a cell in use, and there are as many as number says, or
\* more, since INSERT does not count: so many messages LIST does send. During
\* a command no cell is freed twice (sipfw_k_nl.c:131-151, 176-178, 213-218, 290-297).
ChainsIntact ==
    /\ NoDoubleFree
    /\ AllIdle =>
           \A c \in Chains :
               /\ Nth(c)[Cardinality(Nodes)] = NIL
               /\ Rules(c) \subseteq alloc
               /\ \A d \in Chains \ {c} : Rules(c) \cap Rules(d) = {}
               /\ number[c] <= Length(c)

\* What the first rule that fits says, else the default action.
Decision(c, p) ==
    LET fits == {i \in 0..(Length(c) - 1) :
                    key[Nth(c)[i]] \in p /\ dest[Nth(c)[i]] = Zero}
        first == CHOOSE i \in fits : \A j \in fits : i <= j
    IN  IF fits = {} THEN cf.DefaultAction
        ELSE IF key[Nth(c)[first]] \in Dropping THEN "DROP" ELSE "ACCEPT"

\* A hook during which no command ran and nothing was set decides by the
\* first rule that fits the packet.
CalmHookRight ==
    \A k \in Hooks :
        kpc[k] = "done" /\ calm[k] = "calm" =>
            kv[k] = IF cf.Invalid THEN "ACCEPT" ELSE Decision(kchain[k], kpkt[k])

\* A hook that overlaps nothing but APPEND and LIST commands, however many,
\* only ever looks at rules in use.
CalmHookSafe ==
    \A k \in Hooks : calm[k] # "disturbed" => kr[k] \in alloc \cup {NIL}

\* What such a hook finds is on the chain and the first there that fits.
GrownHookFindsFirst ==
    \A k \in Hooks :
        calm[k] # "disturbed" /\ kpc[k] \in {"log", "hit", "hitw", "verdict"} =>
            \E i \in DOMAIN Nth(kchain[k]) :
                /\ Nth(kchain[k])[i] = kr[k]
                /\ \A j \in 0..(i - 1) : ~Fits(k, Nth(kchain[k])[j])

\* A command only goes astray for want of memory, on a chain that does not
\* exist, at position 0, or at a position beyond the end of an empty chain.
KnownOops ==
    \A h \in Handlers :
        hpc[h] = "oops" =>
            \/ rule[h] = NIL
            \/ Chain(h) = All
            \/ Op(h) = "Insert" /\ cmd[h].number = 0
            \/ Op(h) = "Insert" /\ head[Chain(h)] = NIL

\* The cells no one can find any more: in use, on no chain, in no hand.
Leaked == {n \in alloc : /\ \A c \in Chains : n \notin Rules(c)
                         /\ \A h \in Handlers : n \notin {rule[h], prev[h], cur[h]}}

\* Commands known to lose a cell: a flush (the last one), a delete by content
\* and a replace that find nothing, an insert without a position, and one
\* that takes the place of a rule.
Leaky(h) ==
    \/ Op(h) \in {"Flush", "Destroy"}
    \/ Op(h) = "Delete" /\ cmd[h].number = -1 /\ cur[h] = NIL
    \/ Op(h) = "Replace" /\ (cmd[h].number = -1 \/ cur[h] = NIL)
    \/ Op(h) = "Insert" /\ cmd[h].number # 1 /\ (cmd[h].number = -1 \/ cur[h] # NIL)

\* A command of any other kind leaves no cell behind when it returns.
CleanReturn ==
    [][\A h \in Handlers :
          hpc[h] # "idle" /\ hpc'[h] = "idle" /\ ~Leaky(h) => Leaked' \subseteq Leaked]_vars

\* Every command comes to its end, or goes astray.
CommandsEnd ==
    \A h \in Handlers : hpc[h] # "idle" ~> hpc[h] \in {"idle", "oops"}

=============================================================================
