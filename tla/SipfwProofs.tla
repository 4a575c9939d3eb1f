----------------------------- MODULE SipfwProofs -----------------------------
(***************************************************************************)
(* The edges of the firewalls.  Loading and unloading the SIPFW module     *)
(* leaves nothing behind, and frees the buffer of the proc files under a   *)
(* writer in one known case only, whatever the number of writers and       *)
(* whatever they write; the filter of 17.6.9 judges as it was last asked,  *)
(* for any number of processors, callers, ports and addresses; and the     *)
(* command of a SIPFW client is answered once, whichever thread takes it   *)
(* from the kernel's queue.                                                *)
(***************************************************************************)
EXTENDS SipfwModule, PacketFilter, SipfwClient, TLAPS

\* The stages before a proc file has a function, in which no writer can be at work.
Unwired == {"conf", "netlink", "pot", "entries", "wire"}

\* What exists at each stage of SIPFW_Init and SIPFW_Exit.
WhatExists ==
    /\ stage \in Stages
    /\ stage \in {"conf", "netlink", "pot"} => cookie = "none" /\ entries = {}
    /\ stage \in Unwired => wired = {}
    /\ stage = "entries" => cookie = "live" /\ entries = {}
    /\ stage \in {"wire", "hooks", "live", "leaving", "undoProc"} => cookie = "live"
    /\ stage \in {"undoNetlink", "unhook"} => cookie # "live" /\ wired = {}
    /\ stage = "undoNetlink" /\ entries # {} => halfway
    /\ stage = "unhook" => entries = {}
    /\ stage \notin {"live", "leaving", "unhook"} => ~hooks
    /\ stage \in {"conf", "netlink", "leaving", "unhook"} => ~nl
    /\ NothingLeft

\* A writer between its copy and its decision has the buffer, unless the hooks were refused.
WritersHaveBuffer ==
    /\ pc \in [Writers -> {"idle", "copied"}]
    /\ unhooked => stage \in {"undoProc", "undoNetlink", "gone"}
    /\ stage = "undoProc" => unhooked
    /\ \A w \in Writers : pc[w] = "copied" => unhooked \/ (cookie = "live" /\ stage \notin Unwired)
    /\ FreedIsKnown

ModuleInv == WhatExists /\ WritersHaveBuffer

\* The invariant holds when SIPFW_Init is called.
LEMMA ModuleStarts == ModuleInit => ModuleInv
  BY DEF ModuleInit, ModuleInv, WhatExists, WritersHaveBuffer, NothingLeft, FreedIsKnown, Stages, Unwired

\* Reading the configuration and making the netlink socket, the buffer and the proc files keep it.
LEMMA InvKeptAtStart ==
  ASSUME ModuleInv, ReadConf \/ ConfRead \/ NLCreate \/ ProcMemory \/ ProcEntries \/ ProcWire
  PROVE  ModuleInv'
<1> USE DEF Stages, Unwired, writerVars, wiringVars, potVars, Go
<1>1. CASE ReadConf
  BY <1>1 DEF ReadConf, ModuleInv, WhatExists, WritersHaveBuffer, NothingLeft, FreedIsKnown
<1>2. CASE ConfRead
  BY <1>2 DEF ConfRead, ModuleInv, WhatExists, WritersHaveBuffer, NothingLeft, FreedIsKnown
<1>3. CASE NLCreate
  BY <1>3 DEF NLCreate, ModuleInv, WhatExists, WritersHaveBuffer, NothingLeft, FreedIsKnown
<1>4. CASE ProcMemory
  BY <1>4 DEF ProcMemory, ModuleInv, WhatExists, WritersHaveBuffer, NothingLeft, FreedIsKnown
<1>5. CASE ProcEntries
  <2>1. PICK made \in SUBSET Names :
           /\ entries' = made
           /\ IF made = Names THEN Go("wire") /\ UNCHANGED <<cookie, halfway>>
              ELSE Go("undoNetlink") /\ cookie' = "freed" /\ halfway' = TRUE
    BY <1>5 DEF ProcEntries
  <2>2. stage = "entries" /\ UNCHANGED <<nl, hooks, wired, pot, unhooked>>
    BY <1>5 DEF ProcEntries
  <2>3. ~unhooked /\ wired = {} /\ cookie = "live" /\ ~hooks /\ \A w \in Writers : pc[w] # "copied"
    BY <2>2 DEF ModuleInv, WhatExists, WritersHaveBuffer
  <2>4. CASE made = Names
    BY <2>1, <2>2, <2>3, <2>4 DEF ModuleInv, WhatExists, WritersHaveBuffer, NothingLeft, FreedIsKnown
  <2>5. CASE made # Names
    BY <2>1, <2>2, <2>3, <2>5 DEF ModuleInv, WhatExists, WritersHaveBuffer, NothingLeft, FreedIsKnown
  <2> QED BY <2>4, <2>5
<1>6. CASE ProcWire
  BY <1>6 DEF ProcWire, ModuleInv, WhatExists, WritersHaveBuffer, NothingLeft, FreedIsKnown
<1> QED BY <1>1, <1>2, <1>3, <1>4, <1>5, <1>6

\* Registering the hooks, undoing what was done and leaving keep it.
LEMMA InvKeptAtEnd ==
  ASSUME ModuleInv, RegisterHooks \/ UndoProc \/ UndoNetlink \/ Exit
  PROVE  ModuleInv'
<1> USE DEF Stages, Unwired, writerVars, wiringVars, potVars, Go
<1>1. CASE RegisterHooks
  BY <1>1 DEF RegisterHooks, ModuleInv, WhatExists, WritersHaveBuffer, NothingLeft, FreedIsKnown
<1>2. CASE UndoProc
  BY <1>2 DEF UndoProc, ProcCleanUp, ModuleInv, WhatExists, WritersHaveBuffer, NothingLeft, FreedIsKnown
<1>3. CASE UndoNetlink
  BY <1>3 DEF UndoNetlink, NLDestroy, ModuleInv, WhatExists, WritersHaveBuffer, NothingLeft, FreedIsKnown
<1>4. CASE Exit
  <2>1. CASE stage = "live" /\ (\A w \in Writers : pc[w] = "idle") /\ NLDestroy("leaving")
    BY <2>1 DEF NLDestroy, ModuleInv, WhatExists, WritersHaveBuffer, NothingLeft, FreedIsKnown
  <2>2. CASE stage = "leaving" /\ (\A w \in Writers : pc[w] = "idle") /\ ProcCleanUp("unhook")
    BY <2>2 DEF ProcCleanUp, ModuleInv, WhatExists, WritersHaveBuffer, NothingLeft, FreedIsKnown
  <2>3. CASE /\ stage = "unhook" /\ hooks' = FALSE /\ Go("gone")
             /\ UNCHANGED <<nl, entries, wired, potVars, unhooked, halfway>>
    BY <2>3 DEF ModuleInv, WhatExists, WritersHaveBuffer, NothingLeft, FreedIsKnown
  <2> QED BY <1>4, <2>1, <2>2, <2>3 DEF Exit
<1> QED BY <1>1, <1>2, <1>3, <1>4

\* A write keeps it: its copy needs a function, which is there only with the buffer, and its decision finds the
\* buffer unless the hooks were refused.
LEMMA InvKeptByWrite ==
  ASSUME ModuleInv, NEW w \in Writers, ProcWrite(w), fault = "ok"
  PROVE  ModuleInv'
<1> USE DEF Stages, Unwired, wiringVars
<1>1. ASSUME NEW f \in Written, NEW t \in Texts, NEW n, Copy(w, f, t, n)
      PROVE  ModuleInv'
  <2>1. UNCHANGED <<stage, nl, hooks, entries, wired, cookie, unhooked, halfway>>
    BY <1>1 DEF Copy
  <2>2. f \in wired /\ stage \notin {"leaving", "unhook", "gone"}
    BY <1>1 DEF Copy
  <2>3. cookie = "live" /\ stage \notin Unwired
    BY <2>2 DEF ModuleInv, WhatExists
  <2>4. fault' = "ok"
    BY <1>1, <2>3 DEF Copy
  <2>5. pc' = pc \/ pc' = [pc EXCEPT ![w] = "copied"]
    BY <1>1 DEF Copy
  <2>6. WhatExists'
    BY <2>1 DEF ModuleInv, WhatExists, NothingLeft
  <2>7. WritersHaveBuffer'
    BY <2>1, <2>3, <2>4, <2>5 DEF ModuleInv, WritersHaveBuffer, FreedIsKnown
  <2> QED BY <2>6, <2>7 DEF ModuleInv
<1>2. ASSUME Decide(w)
      PROVE  ModuleInv'
  <2>1. UNCHANGED <<stage, nl, hooks, entries, wired, cookie, unhooked, halfway>>
    BY <1>2 DEF Decide, potVars
  <2>2. pc[w] = "copied" /\ pc' = [pc EXCEPT ![w] = "idle"]
    BY <1>2 DEF Decide
  <2>3. fault' = "oops" => unhooked
    BY <1>2, <2>2 DEF Decide, ModuleInv, WritersHaveBuffer
  <2>4. WhatExists'
    BY <2>1 DEF ModuleInv, WhatExists, NothingLeft
  <2>5. WritersHaveBuffer'
    BY <2>1, <2>2, <2>3 DEF ModuleInv, WritersHaveBuffer, FreedIsKnown
  <2> QED BY <2>4, <2>5 DEF ModuleInv
<1> QED BY <1>1, <1>2 DEF ProcWrite

\* What exists at each stage, and that a writer at work has the buffer, at all times.
THEOREM ModuleInvHolds == ModuleSpec => []ModuleInv
<1>1. ModuleInit => ModuleInv
  BY ModuleStarts
<1>2. ModuleInv /\ [ModuleNext]_moduleVars => ModuleInv'
  <2> SUFFICES ASSUME ModuleInv, [ModuleNext]_moduleVars
               PROVE  ModuleInv'
    OBVIOUS
  <2>1. CASE ModuleNext
    BY <2>1, InvKeptAtStart, InvKeptAtEnd, InvKeptByWrite DEF ModuleNext
  <2>2. CASE UNCHANGED moduleVars
    BY <2>2 DEF moduleVars, wiringVars, potVars, writerVars, ModuleInv, WhatExists, WritersHaveBuffer,
                NothingLeft, FreedIsKnown, Stages, Unwired
  <2> QED BY <2>1, <2>2
<1> QED BY <1>1, <1>2, PTL DEF ModuleSpec

\* A module that is gone, after SIPFW_Exit or a failure anywhere in SIPFW_Init, left nothing behind but the
\* proc files of a half-made set; and the shared buffer is used after it was freed only if the hooks were
\* refused while a file was written.
THEOREM GoneWithoutTrace == ModuleSpec => []GoneForGood
<1>1. ModuleInv => GoneForGood
  BY DEF ModuleInv, WhatExists, WritersHaveBuffer, GoneForGood
<1> QED BY <1>1, ModuleInvHolds, PTL

(*************************************************************************)
(* What a text means to a file                                            *)
(*************************************************************************)

\* The number that a text begins with, said without the set of its digits.
LEMMA NumberMeans ==
  ASSUME NEW t \in Seq(STRING), NEW old
  PROVE  Number(t, old) = IF t # <<>> /\ t[1] \in Digits
                          THEN \E i \in 1..Len(t) : t[i] # "0" /\ \A j \in 1..i : t[j] \in Digits
                          ELSE old
<1> DEFINE leading == {i \in 1..Len(t) : \A j \in 1..i : t[j] \in Digits}
<1>1. Number(t, old) = IF leading = {} THEN old ELSE \E i \in leading : t[i] # "0"
  BY Zenon DEF Number
<1>2. Len(t) \in Nat /\ (t # <<>> <=> 1 \in 1..Len(t))
  OBVIOUS
<1>3. CASE t # <<>> /\ t[1] \in Digits
  <2>1. 1 \in leading
    BY <1>2, <1>3
  <2>2. (\E i \in leading : t[i] # "0")
        <=> \E i \in 1..Len(t) : t[i] # "0" /\ \A j \in 1..i : t[j] \in Digits
    OBVIOUS
  <2>3. leading # {}
    BY <2>1
  <2> HIDE DEF leading
  <2> QED BY Zenon, <1>1, <1>3, <2>2, <2>3
<1>4. CASE ~(t # <<>> /\ t[1] \in Digits)
  <2>1. leading = {}
    BY <1>2, <1>4
  <2> HIDE DEF leading
  <2> QED BY Zenon, <1>1, <1>4, <2>1
<1> QED BY <1>3, <1>4

\* A text that is at least as long as what the buffer holds replaces all of it.
LEMMA LongTextFills ==
  ASSUME NEW t \in Seq(STRING), NEW old \in Seq(STRING), Len(t) >= Len(old)
  PROVE  Over(SubSeq(t, 1, Len(t)), old) = t
<1>1. Len(t) \in Nat /\ SubSeq(t, 1, Len(t)) = t
  OBVIOUS
<1>2. Over(t, old) = [i \in 1..Len(t) |-> t[i]]
  BY <1>1 DEF Over
<1>3. t = [i \in 1..Len(t) |-> t[i]]
  OBVIOUS
<1> QED BY <1>1, <1>2, <1>3

\* What the buffer holds after a copy is a text.
LEMMA OverIsText ==
  ASSUME NEW t \in Seq(STRING), NEW n \in 0..Len(t), NEW old \in Seq(STRING)
  PROVE  Over(SubSeq(t, 1, n), old) \in Seq(STRING)
<1> DEFINE new == SubSeq(t, 1, n)
           m == IF Len(new) >= Len(old) THEN Len(new) ELSE Len(old)
<1>1. new \in Seq(STRING) /\ Len(new) \in Nat /\ Len(old) \in Nat
  OBVIOUS
<1> HIDE DEF new
<1>2. m \in Nat /\ \A i \in 1..m : (IF i <= Len(new) THEN new[i] ELSE old[i]) \in STRING
  BY <1>1
<1>3. Over(new, old) = [i \in 1..m |-> IF i <= Len(new) THEN new[i] ELSE old[i]]
  BY Zenon DEF Over
<1> HIDE DEF m
<1>4. Over(new, old) \in Seq(STRING)
  BY <1>2, <1>3
<1> QED BY <1>4 DEF new

\* A writer whose copy was whole and undisturbed finds its own text in the buffer.
CleanPot ==
    /\ pot \in Seq(STRING) /\ text \in [Writers -> Seq(STRING)] /\ file \in [Writers -> Written]
    /\ clean \in [Writers -> BOOLEAN]
    /\ DOMAIN cf = {"defaultaction", "logpause", "invalid"}
    /\ \A w \in Writers : pc[w] = "copied" /\ clean[w] => pot = text[w]

LEMMA CleanStarts == ModuleInit => CleanPot
<1> SUFFICES ASSUME ModuleInit
             PROVE  CleanPot
  OBVIOUS
<1>1. pot = <<>> /\ text = [w \in Writers |-> <<>>] /\ file = [w \in Writers |-> "invalid"]
      /\ cf = [defaultaction |-> "ACCEPT", logpause |-> FALSE, invalid |-> FALSE]
      /\ \A w \in Writers : pc[w] = "idle"
  BY DEF ModuleInit
<1>2. clean \in [Writers -> BOOLEAN]
  BY Zenon DEF ModuleInit
<1>3. <<>> \in Seq(STRING) /\ "invalid" \in Written
  BY DEF Written, Names
<1>4. DOMAIN cf = {"defaultaction", "logpause", "invalid"}
  BY <1>1
<1> QED BY <1>1, <1>2, <1>3, <1>4 DEF CleanPot

\* Setting a part of the settings leaves the others there.
LEMMA SettingsStay ==
  ASSUME NEW g, NEW k, NEW v
  PROVE  /\ DOMAIN [g EXCEPT ![k] = v] = DOMAIN g
         /\ k \in DOMAIN g => [g EXCEPT ![k] = v][k] = v
  OBVIOUS

LEMMA CleanStep ==
  ASSUME ModuleInv, CleanPot, [ModuleNext]_moduleVars
  PROVE  CleanPot'
<1>1. CASE UNCHANGED <<pot, text, file, clean, cf, pc>>
  BY <1>1 DEF CleanPot
<1>2. CASE ReadConf
  <2>1. UNCHANGED <<pot, text, file, clean, pc>>
    BY <1>2 DEF ReadConf, potVars, writerVars
  <2>2. cf' = cf \/ \E v : cf' = [cf EXCEPT !["defaultaction"] = v]
    BY <1>2 DEF ReadConf, Configure
  <2> QED BY <2>1, <2>2, SettingsStay DEF CleanPot
<1>3. CASE ProcMemory
  <2>1. UNCHANGED <<text, file, clean, cf, pc>> /\ stage = "pot" /\ (pot' = pot \/ pot' = <<>>)
    BY <1>3 DEF ProcMemory, Go, potVars, writerVars
  <2>2. \A w \in Writers : pc[w] # "copied"
    BY <2>1 DEF ModuleInv, WritersHaveBuffer, Unwired
  <2>3. pot' \in Seq(STRING)
    <3>1. <<>> \in Seq(STRING) /\ pot \in Seq(STRING)
      BY DEF CleanPot
    <3> QED BY Zenon, <2>1, <3>1
  <2> QED BY <2>1, <2>2, <2>3 DEF CleanPot
<1>4. ASSUME NEW w \in Writers, NEW f \in Written, NEW t \in Texts, NEW n \in {i \in Faults : i < Len(t)} \cup {Len(t)},
             Copy(w, f, t, n)
      PROVE  CleanPot'
  <2>1. t \in Seq(STRING) /\ n \in 0..Len(t)
    BY ModuleAssumption
  <2>2. /\ pot' = Over(SubSeq(t, 1, n), pot) /\ cf' = cf
        /\ clean' = [v \in Writers |-> v = w /\ n = Len(t) /\ n >= Len(pot)]
    BY <1>4 DEF Copy
  <2>3. pot' \in Seq(STRING)
    BY <2>1, <2>2, OverIsText DEF CleanPot
  <2>4. \/ n = Len(t) /\ pc' = [pc EXCEPT ![w] = "copied"] /\ file' = [file EXCEPT ![w] = f] /\ text' = [text EXCEPT ![w] = t]
        \/ n # Len(t) /\ UNCHANGED <<pc, file, text>>
    BY <1>4 DEF Copy
  <2>5. text' \in [Writers -> Seq(STRING)] /\ file' \in [Writers -> Written]
    BY <2>1, <2>4 DEF CleanPot
  <2>6. clean' \in [Writers -> BOOLEAN]
    BY Zenon, <2>2
  <2>7. ASSUME NEW v \in Writers, pc'[v] = "copied", clean'[v]
        PROVE  pot' = text'[v]
    <3>1. v = w /\ n = Len(t) /\ n >= Len(pot)
      BY <2>2, <2>7
    <3>2. text'[v] = t
      BY <2>4, <3>1 DEF CleanPot
    <3>3. pot' = t
      BY <2>1, <2>2, <3>1, LongTextFills DEF CleanPot
    <3> QED BY <3>2, <3>3
  <2> QED BY <2>2, <2>3, <2>5, <2>6, <2>7 DEF CleanPot
<1>5. ASSUME NEW w \in Writers, Decide(w)
      PROVE  CleanPot'
  <2>1. /\ pot' = pot /\ pc' = [pc EXCEPT ![w] = "idle"] /\ file' = [file EXCEPT ![w] = "invalid"]
        /\ text' = [text EXCEPT ![w] = <<>>] /\ clean' = [clean EXCEPT ![w] = FALSE]
        /\ cf' = [cf EXCEPT ![file[w]] = Meaning(file[w], pot)]
    BY <1>5 DEF Decide, potVars
  <2>2. DOMAIN cf' = {"defaultaction", "logpause", "invalid"}
    BY <2>1, SettingsStay DEF CleanPot
  <2>3. "invalid" \in Written /\ <<>> \in Seq(STRING)
    BY DEF Written, Names
  <2>4. file' \in [Writers -> Written] /\ text' \in [Writers -> Seq(STRING)] /\ clean' \in [Writers -> BOOLEAN]
    BY <2>1, <2>3 DEF CleanPot
  <2>5. ASSUME NEW v \in Writers, pc'[v] = "copied", clean'[v]
        PROVE  pot' = text'[v]
    <3>1. v # w
      BY <2>1, <2>5 DEF ModuleInv, WritersHaveBuffer
    <3>2. pc[v] = "copied" /\ clean[v] /\ text'[v] = text[v]
      BY <2>1, <2>5, <3>1 DEF ModuleInv, WritersHaveBuffer, CleanPot
    <3> QED BY <2>1, <3>2 DEF CleanPot
  <2> QED BY <2>1, <2>2, <2>4, <2>5 DEF CleanPot
<1>6. CASE UNCHANGED moduleVars
  BY <1>1, <1>6 DEF moduleVars, potVars, writerVars
<1>7. CASE ConfRead \/ NLCreate \/ ProcEntries \/ ProcWire \/ RegisterHooks \/ UndoProc \/ UndoNetlink \/ Exit
  <2>1. UNCHANGED <<pot, text, file, clean, cf, pc>>
    <3> USE DEF Go, potVars, writerVars
    <3>1. CASE ConfRead
      BY <3>1 DEF ConfRead
    <3>2. CASE NLCreate
      BY <3>2 DEF NLCreate
    <3>3. CASE ProcEntries
      BY <3>3 DEF ProcEntries
    <3>4. CASE ProcWire \/ RegisterHooks
      BY <3>4 DEF ProcWire, RegisterHooks
    <3>5. CASE UndoProc \/ UndoNetlink
      BY <3>5 DEF UndoProc, UndoNetlink, ProcCleanUp, NLDestroy
    <3>6. CASE Exit
      BY <3>6 DEF Exit, ProcCleanUp, NLDestroy
    <3> QED BY <1>7, <3>1, <3>2, <3>3, <3>4, <3>5, <3>6
  <2> QED BY <1>1, <2>1
<1> QED BY <1>2, <1>3, <1>4, <1>5, <1>6, <1>7 DEF ModuleNext, ProcWrite

\* Only a decision ends a write.
LEMMA OnlyDecideEnds ==
  ASSUME ModuleInv, ModuleNext, NEW w \in Writers, pc[w] = "copied", pc'[w] = "idle"
  PROVE  Decide(w)
<1>1. ~UNCHANGED pc
  OBVIOUS
<1>2. ~(ReadConf \/ ConfRead \/ NLCreate \/ ProcMemory \/ ProcEntries \/ ProcWire \/ RegisterHooks)
  BY <1>1 DEF ReadConf, ConfRead, NLCreate, ProcMemory, ProcEntries, ProcWire, RegisterHooks, Go, writerVars
<1>3. ~(UndoProc \/ UndoNetlink \/ Exit)
  BY <1>1 DEF UndoProc, UndoNetlink, Exit, ProcCleanUp, NLDestroy, Go, writerVars
<1>4. PICK v \in Writers : ProcWrite(v)
  BY <1>2, <1>3 DEF ModuleNext
<1>5. ASSUME NEW f, NEW t, NEW n, Copy(v, f, t, n)
      PROVE  FALSE
  <2>1. pc[v] = "idle" /\ (pc' = pc \/ pc' = [pc EXCEPT ![v] = "copied"])
    BY <1>5 DEF Copy
  <2> QED BY <2>1 DEF ModuleInv, WritersHaveBuffer
<1>6. Decide(v)
  BY <1>4, <1>5 DEF ProcWrite
<1>7. pc' = [pc EXCEPT ![v] = "idle"]
  BY <1>6 DEF Decide
<1>8. v = w
  BY <1>7 DEF ModuleInv, WritersHaveBuffer
<1> QED BY <1>6, <1>8

\* A whole and undisturbed text sets what it says.
THEOREM TextIsTaken == ModuleSpec => WrittenIsSet
<1> DEFINE Said(w) == IF file[w] = "defaultaction"
                      THEN IF text[w] = Accept THEN "ACCEPT" ELSE IF text[w] = Drop THEN "DROP" ELSE cf[file[w]]
                      ELSE IF text[w] # <<>> /\ text[w][1] \in Digits
                           THEN \E i \in 1..Len(text[w]) : text[w][i] # "0" /\ \A j \in 1..i : text[w][j] \in Digits
                           ELSE cf[file[w]]
           Sets == \A w \in Writers : pc[w] = "copied" /\ pc'[w] = "idle" /\ clean[w] => cf'[file[w]] = Said(w)
<1>1. ModuleInv /\ CleanPot /\ [ModuleNext]_moduleVars => [Sets]_moduleVars
  <2> SUFFICES ASSUME ModuleInv, CleanPot, ModuleNext, NEW w \in Writers, pc[w] = "copied", pc'[w] = "idle", clean[w]
               PROVE  cf'[file[w]] = Said(w)
    OBVIOUS
  <2>1. Decide(w)
    BY OnlyDecideEnds
  <2>2. cf' = [cf EXCEPT ![file[w]] = Meaning(file[w], pot)] /\ pot = text[w] /\ text[w] \in Seq(STRING)
    BY <2>1 DEF Decide, CleanPot
  <2>3. file[w] \in DOMAIN cf
    BY DEF CleanPot, Written, Names
  <2>4. cf'[file[w]] = Meaning(file[w], text[w])
    BY <2>2, <2>3, SettingsStay DEF CleanPot
  <2>5. Meaning(file[w], text[w]) = Said(w)
    <3>1. CASE file[w] = "defaultaction"
      BY <3>1 DEF Meaning, ActionOf
    <3>2. CASE file[w] # "defaultaction"
      <4>1. Meaning(file[w], text[w]) = Number(text[w], cf[file[w]])
        BY <3>2 DEF Meaning
      <4> QED BY Zenon, <2>2, <3>2, <4>1, NumberMeans
    <3> QED BY <3>1, <3>2
  <2> QED BY <2>4, <2>5
<1>2. ModuleInv /\ CleanPot /\ [ModuleNext]_moduleVars => CleanPot'
  BY CleanStep
<1>3. ModuleSpec => []CleanPot
  BY <1>2, CleanStarts, ModuleInvHolds, PTL DEF ModuleSpec
<1> QED BY <1>1, <1>3, ModuleInvHolds, PTL DEF ModuleSpec, WrittenIsSet

-----------------------------------------------------------------------------
(***************************************************************************)
(* The filter of 17.6.9                                                    *)
(***************************************************************************)

AtRest == \A s \in Setters : spc[s] = "idle"

\* While nothing stirs a look at the settings, no call is between its two writes and none were mixed.
CalmLook == \A q \in Cpus : hpc[q] # "idle" /\ ~stirred[q] => AtRest /\ ~mixed

\* At rest the settings are those that the last call asked for; on the way its protocol is there already.
Settled == AtRest /\ ~mixed => wanted = [protocol |-> protocol, port |-> port]
Alone == ~mixed => \A s, t \in Setters : spc[s] = "port" /\ spc[t] = "port" => s = t
Halfway == ~mixed => \A s \in Setters : spc[s] = "port" => protocol = status[s].protocol

\* What a hook has found out before it looks again.
Looking(q) ==
    /\ hpc[q] # "idle" => packet[q] \in Packets
    /\ hpc[q] = "second" => packet[q].hook = "in" /\ packet[q].protocol \in Protocols
    /\ hpc[q] = "last" /\ packet[q].hook = "in" => packet[q].protocol \in Protocols
    /\ hpc[q] = "last" /\ packet[q].hook = "in" /\ ~stirred[q] => protocol = packet[q].protocol

FilterInv == FilterTypes /\ CalmLook /\ Settled /\ Alone /\ Halfway /\ (\A q \in Cpus : Looking(q)) /\ VerdictAsAsked
-----------------------------------------------------------------------------
LEMMA FilterStarts == FilterInit => FilterInv
<1> SUFFICES ASSUME FilterInit PROVE FilterInv
  OBVIOUS
<1>1. FilterTypes
  BY DEF FilterInit, FilterTypes, Bans
<1>2. CalmLook /\ (\A q \in Cpus : Looking(q)) /\ VerdictAsAsked
  BY DEF FilterInit, CalmLook, Looking, VerdictAsAsked
<1>3. Settled /\ Alone /\ Halfway
  BY DEF FilterInit, Settled, Alone, Halfway, Open
<1>4. QED
  BY <1>1, <1>2, <1>3 DEF FilterInv

LEMMA Kinds ==
    ASSUME NEW p \in Packets
    PROVE  /\ p.hook \in {"in", "out"}
           /\ p.hook = "out" => p.protocol = "other" /\ p.source \in Addrs /\ p.source # 0
           /\ p.hook = "in" => p.protocol \in {"tcp", "udp", "icmp", "other"}
           /\ p.hook = "in" /\ p.protocol \in Protocols => p.dest \in PortNos /\ p.dest # 0
BY FilterConstants DEF Packets, Protocols

LEMMA BanShape ==
    ASSUME NEW ban \in Bans
    PROVE  /\ ban.protocol \in Protocols \cup {"none"} /\ ban.port \in PortNos \cup {0}
           /\ ban = [protocol |-> ban.protocol, port |-> ban.port]
BY DEF Bans, Open

LEMMA FilterTypeStep == FilterTypes /\ [FilterNext]_filterVars => FilterTypes'
<1> SUFFICES ASSUME FilterTypes, [FilterNext]_filterVars PROVE FilterTypes'
  OBVIOUS
<1> USE DEF settings, calls, looks, filterVars
<1>1. CASE Load \/ Unload
  BY <1>1 DEF FilterTypes, Load, Unload
<1>2. CASE BandIp \/ BandPing
  BY <1>2 DEF FilterTypes, BandIp, BandPing, Stir
<1>3. ASSUME NEW s \in Setters, NEW ban \in Bans, BandProtocol(s, ban) PROVE FilterTypes'
  BY <1>3, BanShape DEF FilterTypes, BandProtocol, Stir, Pending
<1>4. ASSUME NEW s \in Setters, BandPort(s) PROVE FilterTypes'
  <2>1. status[s] \in Bans /\ status[s].port \in PortNos \cup {0} /\ Open \in Bans
    BY <1>4, BanShape DEF FilterTypes, Bans
  <2>2. QED
    BY <1>4, <2>1 DEF FilterTypes, BandPort, Stir
<1>5. ASSUME NEW q \in Cpus, NEW p \in Packets, Arrive(q, p) PROVE FilterTypes'
  BY <1>5 DEF FilterTypes, Arrive
<1>6. ASSUME NEW q \in Cpus, HookOut(q) \/ HookIn(q) PROVE FilterTypes'
  BY <1>6 DEF FilterTypes, HookOut, HookIn, Say, GoOn, OnlyLooks
<1>7. ASSUME NEW q \in Cpus, Leave(q) PROVE FilterTypes'
  BY <1>7 DEF FilterTypes, Leave
<1>8. CASE UNCHANGED filterVars
  BY <1>8 DEF FilterTypes
<1>9. QED
  BY <1>1, <1>2, <1>3, <1>4, <1>5, <1>6, <1>7, <1>8 DEF FilterNext

\* Whoever writes the settings stirs every processor that looks at them.
LEMMA Stirred ==
    ASSUME FilterTypes, \A q \in Cpus : Looking(q), Stir, UNCHANGED <<hpc, packet, verdict>>
    PROVE  CalmLook' /\ (\A q \in Cpus : Looking(q))' /\ VerdictAsAsked'
<1>1. \A q \in Cpus : hpc'[q] # "idle" => stirred'[q]
  BY DEF Stir, FilterTypes
<1>2. CalmLook' /\ VerdictAsAsked'
  BY <1>1 DEF CalmLook, VerdictAsAsked
<1>3. ASSUME NEW q \in Cpus PROVE Looking(q)'
  <2>1. Looking(q) /\ hpc'[q] = hpc[q] /\ packet'[q] = packet[q]
    OBVIOUS
  <2>2. QED
    BY <1>1, <2>1 DEF Looking
<1>4. QED
  BY <1>2, <1>3

\* Whoever only looks leaves the settings and the calls as they are.
LEMMA Looked ==
    ASSUME FilterInv, NEW q \in Cpus, UNCHANGED <<settings, calls, wanted, mixed>>,
           \A r \in Cpus \ {q} : /\ hpc'[r] = hpc[r] /\ packet'[r] = packet[r]
                                 /\ verdict'[r] = verdict[r] /\ stirred'[r] = stirred[r],
           hpc'[q] # "idle" /\ ~stirred'[q] => AtRest /\ ~mixed,
           Looking(q)',
           FilterTypes',
           hpc'[q] = "said" /\ ~stirred'[q] => verdict'[q] = (IF Banned(packet'[q]) THEN "DROP" ELSE "ACCEPT")
    PROVE  FilterInv'
<1>1. Settled' /\ Alone' /\ Halfway'
  BY DEF FilterInv, Settled, Alone, Halfway, AtRest, settings, calls
<1>2. CalmLook'
  BY DEF FilterInv, CalmLook, AtRest, calls
<1>3. ASSUME NEW r \in Cpus PROVE Looking(r)'
  <2>1. CASE r = q
    BY <2>1
  <2>2. CASE r # q
    BY <2>2 DEF FilterInv, Looking, settings
  <2>3. QED
    BY <2>1, <2>2
<1>4. \A p : Banned(p)' <=> Banned(p)
  BY DEF Banned, settings
<1>5. ASSUME NEW r \in Cpus, hpc'[r] = "said", ~stirred'[r]
      PROVE  verdict'[r] = (IF Banned(packet'[r]) THEN "DROP" ELSE "ACCEPT")
  BY <1>5 DEF FilterInv, VerdictAsAsked
<1>6. VerdictAsAsked'
  BY <1>5 DEF VerdictAsAsked, Banned, settings
<1>7. QED
  BY <1>1, <1>2, <1>3, <1>6 DEF FilterInv

\* The calls of setsockopt.
LEMMA SetterStep ==
    ASSUME FilterInv, FilterTypes',
           \/ BandIp \/ BandPing
           \/ \E s \in Setters : BandPort(s) \/ \E ban \in Bans : BandProtocol(s, ban)
    PROVE  FilterInv'
<1>1. FilterTypes /\ \A q \in Cpus : Looking(q)
  BY DEF FilterInv
<1>2. Stir /\ UNCHANGED <<hpc, packet, verdict>>
  BY DEF BandIp, BandPing, BandPort, BandProtocol
<1>3. CalmLook' /\ (\A q \in Cpus : Looking(q))' /\ VerdictAsAsked'
  BY <1>1, <1>2, Stirred
<1>4. Settled' /\ Alone' /\ Halfway'
  <2>1. CASE BandIp \/ BandPing
    BY <2>1 DEF BandIp, BandPing, FilterInv, Settled, Alone, Halfway, AtRest, calls
  <2>2. ASSUME NEW s \in Setters, NEW ban \in Bans, BandProtocol(s, ban) PROVE Settled' /\ Alone' /\ Halfway'
    <3>1. /\ spc' = [spc EXCEPT ![s] = "port"] /\ status' = [status EXCEPT ![s] = ban]
          /\ protocol' = ban.protocol /\ mixed' = Pending(s)
      BY <2>2 DEF BandProtocol
    <3>2. spc'[s] = "port" /\ status'[s] = ban
      BY <1>1, <3>1 DEF FilterTypes
    <3>3. Settled'
      BY <3>2 DEF Settled, AtRest
    <3>4. ~mixed' => \A t \in Setters : spc'[t] = "port" => t = s
      BY <1>1, <3>1 DEF FilterTypes, Pending
    <3>5. QED
      BY <3>1, <3>2, <3>3, <3>4 DEF Alone, Halfway
  <2>3. ASSUME NEW s \in Setters, BandPort(s) PROVE Settled' /\ Alone' /\ Halfway'
    <3>1. /\ spc[s] = "port" /\ spc' = [spc EXCEPT ![s] = "idle"]
          /\ port' = status[s].port /\ wanted' = status[s] /\ protocol' = protocol /\ mixed' = mixed
      BY <2>3 DEF BandPort
    <3>2. ~mixed => \A t \in Setters : spc'[t] # "port"
      BY <1>1, <3>1 DEF FilterInv, FilterTypes, Alone
    <3>3. ~mixed => protocol = status[s].protocol
      BY <3>1 DEF FilterInv, Halfway
    <3>4. status[s] = [protocol |-> status[s].protocol, port |-> status[s].port]
      BY <1>1, BanShape DEF FilterTypes
    <3>5. Settled'
      BY <3>1, <3>3, <3>4 DEF Settled
    <3>6. Alone' /\ Halfway'
      BY <3>1, <3>2 DEF Alone, Halfway
    <3>7. QED
      BY <3>5, <3>6
  <2>4. QED
    BY <2>1, <2>2, <2>3
<1>5. QED
  BY <1>3, <1>4 DEF FilterInv

\* The hooks, and the kernel that calls them.
LEMMA ArriveStep ==
    ASSUME FilterInv, FilterTypes', NEW q \in Cpus, NEW p \in Packets, Arrive(q, p)
    PROVE  FilterInv'
<1>1. /\ hpc' = [hpc EXCEPT ![q] = "first"] /\ packet' = [packet EXCEPT ![q] = p] /\ verdict' = verdict
      /\ stirred' = [stirred EXCEPT ![q] = mixed \/ \E s \in Setters : spc[s] = "port"]
      /\ UNCHANGED <<settings, calls, wanted, mixed>>
  BY DEF Arrive
<1>2. hpc'[q] = "first" /\ packet'[q] = p /\ (~stirred'[q] => ~mixed /\ \A s \in Setters : spc[s] # "port")
  <2>1. q \in DOMAIN hpc /\ q \in DOMAIN packet /\ q \in DOMAIN stirred
    BY DEF FilterInv, FilterTypes
  <2>2. hpc'[q] = "first" /\ packet'[q] = p
    BY <1>1, <2>1
  <2>3. stirred'[q] = (mixed \/ \E s \in Setters : spc[s] = "port")
    BY <1>1, <2>1
  <2>4. QED
    BY <2>2, <2>3
<1>3. ~stirred'[q] => AtRest /\ ~mixed
  <2>1. \A s \in Setters : spc[s] \in {"idle", "port"}
    BY DEF FilterInv, FilterTypes
  <2>2. QED
    BY <1>2, <2>1 DEF AtRest
<1>4. Looking(q)'
  BY <1>2 DEF Looking
<1>5. \A r \in Cpus \ {q} : /\ hpc'[r] = hpc[r] /\ packet'[r] = packet[r]
                            /\ verdict'[r] = verdict[r] /\ stirred'[r] = stirred[r]
  BY <1>1 DEF FilterInv, FilterTypes
<1>6. QED
  BY <1>1, <1>2, <1>3, <1>4, <1>5, Looked

LEMMA LeaveStep ==
    ASSUME FilterInv, FilterTypes', NEW q \in Cpus, Leave(q)
    PROVE  FilterInv'
<1>1. /\ hpc' = [hpc EXCEPT ![q] = "idle"] /\ packet' = [packet EXCEPT ![q] = Nothing]
      /\ verdict' = [verdict EXCEPT ![q] = "ACCEPT"] /\ stirred' = [stirred EXCEPT ![q] = FALSE]
      /\ UNCHANGED <<settings, calls, wanted, mixed>>
  BY DEF Leave
<1>2. hpc'[q] = "idle"
  BY <1>1 DEF FilterInv, FilterTypes
<1>3. Looking(q)'
  BY <1>2 DEF Looking
<1>4. \A r \in Cpus \ {q} : /\ hpc'[r] = hpc[r] /\ packet'[r] = packet[r]
                            /\ verdict'[r] = verdict[r] /\ stirred'[r] = stirred[r]
  BY <1>1 DEF FilterInv, FilterTypes
<1>5. QED
  BY <1>1, <1>2, <1>3, <1>4, Looked

LEMMA HookStep ==
    ASSUME FilterInv, FilterTypes', NEW q \in Cpus, HookOut(q) \/ HookIn(q)
    PROVE  FilterInv'
<1>1. OnlyLooks
  BY DEF HookOut, HookIn
<1>2. hpc[q] \in {"first", "second", "last"} /\ packet[q] \in Packets
  BY DEF HookOut, HookIn, FilterInv, Looking
<1>3. \A r \in Cpus \ {q} : /\ hpc'[r] = hpc[r] /\ packet'[r] = packet[r]
                            /\ verdict'[r] = verdict[r] /\ stirred'[r] = stirred[r]
  BY <1>1 DEF HookOut, HookIn, Say, GoOn, OnlyLooks, FilterInv, FilterTypes
<1>4. packet'[q] = packet[q] /\ stirred'[q] = stirred[q]
  BY <1>1 DEF OnlyLooks
<1>5. ~stirred[q] => AtRest /\ ~mixed
  BY <1>2 DEF FilterInv, CalmLook
<1>6. ~stirred[q] => wanted = [protocol |-> protocol, port |-> port]
  BY <1>5 DEF FilterInv, Settled
<1> DEFINE p == packet[q]
<1>7. /\ p.hook \in {"in", "out"}
      /\ p.hook = "out" => p.protocol = "other" /\ p.source \in Addrs /\ p.source # 0
      /\ p.hook = "in" => p.protocol \in {"tcp", "udp", "icmp", "other"}
      /\ p.hook = "in" /\ p.protocol \in Protocols => p.dest \in PortNos /\ p.dest # 0
  BY <1>2, Kinds
<1>8. /\ p.hook = "out" => (Banned(p) <=> p.source = band_ip)
      /\ p.hook = "in" /\ p.protocol = "icmp" => (Banned(p) <=> ~band_ping)
      /\ p.hook = "in" /\ p.protocol # "icmp" /\ ~stirred[q] =>
             (Banned(p) <=> protocol = p.protocol /\ port = p.dest)
  BY <1>6 DEF Banned
<1>10. Looking(q)'
  <2>1. Looking(q) /\ hpc \in [Cpus -> {"idle", "first", "second", "last", "said"}]
    BY DEF FilterInv, FilterTypes
  <2>2. CASE HookOut(q)
    <3>1. p.hook = "out" /\ hpc'[q] \in {"said", "last"}
      BY <2>1, <2>2 DEF HookOut, Say, GoOn
    <3>2. QED
      BY <1>2, <1>4, <3>1 DEF Looking
  <2>3. CASE HookIn(q)
    <3>1. \/ hpc'[q] = "said"
          \/ hpc'[q] = "second" /\ p.protocol \in Protocols
          \/ hpc'[q] = "last" /\ hpc[q] = "second" /\ protocol = p.protocol
      BY <2>1, <2>3 DEF HookIn, Say, GoOn
    <3>2. p.hook = "in" /\ UNCHANGED protocol
      BY <1>1, <2>3 DEF HookIn, OnlyLooks, settings
    <3>3. QED
      BY <1>2, <1>4, <2>1, <3>1, <3>2 DEF Looking
  <2>4. QED
    BY <2>2, <2>3
<1>11. ASSUME hpc'[q] = "said", ~stirred[q]
       PROVE  verdict'[q] = (IF Banned(p) THEN "DROP" ELSE "ACCEPT")
  <2>1. hpc \in [Cpus -> {"idle", "first", "second", "last", "said"}] /\ verdict \in [Cpus -> {"ACCEPT", "DROP"}]
    BY DEF FilterInv, FilterTypes
  <2>2. Looking(q) /\ port \in PortNos \cup {0} /\ protocol \in Protocols \cup {"none"}
    BY DEF FilterInv, FilterTypes
  <2>3. CASE HookOut(q)
    <3>1. p.hook = "out"
      BY <2>3 DEF HookOut
    <3>2. \/ band_ip = 0 /\ verdict'[q] = "ACCEPT"
          \/ verdict'[q] = (IF band_ip = p.source THEN "DROP" ELSE "ACCEPT")
      BY <1>11, <2>1, <2>3 DEF HookOut, Say, GoOn
    <3>3. QED
      BY <1>7, <1>8, <3>1, <3>2
  <2>4. CASE HookIn(q)
    <3>1. p.hook = "in"
      BY <2>4 DEF HookIn
    <3>2. \/ p.protocol \in Protocols /\ port = 0 /\ verdict'[q] = "ACCEPT"
          \/ hpc[q] = "second" /\ protocol # p.protocol /\ verdict'[q] = "ACCEPT"
          \/ hpc[q] = "last" /\ verdict'[q] = (IF port = p.dest THEN "DROP" ELSE "ACCEPT")
          \/ p.protocol = "icmp" /\ verdict'[q] = (IF ~band_ping THEN "DROP" ELSE "ACCEPT")
          \/ p.protocol = "other" /\ verdict'[q] = "ACCEPT"
      BY <1>11, <2>1, <2>4 DEF HookIn, Say, GoOn
    <3>3. CASE p.protocol \in Protocols /\ port = 0 /\ verdict'[q] = "ACCEPT"
      <4>1. p.protocol # "icmp" /\ p.dest # port
        BY <1>7, <3>1, <3>3 DEF Protocols
      <4>2. QED
        BY <1>8, <1>11, <3>1, <3>3, <4>1
    <3>4. CASE hpc[q] = "second" /\ protocol # p.protocol /\ verdict'[q] = "ACCEPT"
      <4>1. p.protocol # "icmp"
        BY <2>2, <3>4 DEF Looking, Protocols
      <4>2. QED
        BY <1>8, <1>11, <3>1, <3>4, <4>1
    <3>5. CASE hpc[q] = "last" /\ verdict'[q] = (IF port = p.dest THEN "DROP" ELSE "ACCEPT")
      <4>1. p.protocol # "icmp" /\ protocol = p.protocol
        BY <1>11, <2>2, <3>1, <3>5 DEF Looking, Protocols
      <4>2. QED
        BY <1>8, <1>11, <3>1, <3>5, <4>1
    <3>6. CASE p.protocol = "icmp" /\ verdict'[q] = (IF ~band_ping THEN "DROP" ELSE "ACCEPT")
      BY <1>8, <3>1, <3>6
    <3>7. CASE p.protocol = "other" /\ verdict'[q] = "ACCEPT"
      <4>1. protocol # p.protocol
        BY <2>2, <3>7 DEF Protocols
      <4>2. QED
        BY <1>8, <1>11, <3>1, <3>7, <4>1
    <3>8. QED
      BY <3>2, <3>3, <3>4, <3>5, <3>6, <3>7
  <2>5. QED
    BY <2>3, <2>4
<1>12. UNCHANGED <<settings, calls, wanted, mixed>>
  BY <1>1 DEF OnlyLooks
<1>13. hpc'[q] # "idle" /\ ~stirred'[q] => AtRest /\ ~mixed
  BY <1>4, <1>5
<1>14. hpc'[q] = "said" /\ ~stirred'[q] => verdict'[q] = (IF Banned(packet'[q]) THEN "DROP" ELSE "ACCEPT")
  BY <1>4, <1>11
<1>15. QED
  BY <1>3, <1>10, <1>12, <1>13, <1>14, Looked

LEMMA FilterStep == FilterInv /\ [FilterNext]_filterVars => FilterInv'
<1> SUFFICES ASSUME FilterInv, [FilterNext]_filterVars PROVE FilterInv'
  OBVIOUS
<1>1. FilterTypes'
  BY FilterTypeStep DEF FilterInv
<1>2. CASE Load \/ Unload \/ UNCHANGED filterVars
  <2>1. UNCHANGED <<settings, calls, looks, wanted, mixed>>
    BY <1>2 DEF Load, Unload, filterVars
  <2>2. CalmLook' /\ Settled' /\ Alone' /\ Halfway'
    BY <2>1 DEF FilterInv, CalmLook, Settled, Alone, Halfway, AtRest, settings, calls, looks
  <2>3. (\A q \in Cpus : Looking(q))' /\ VerdictAsAsked'
    BY <2>1 DEF FilterInv, Looking, VerdictAsAsked, Banned, settings, calls, looks
  <2>4. QED
    BY <1>1, <2>2, <2>3 DEF FilterInv
<1>3. CASE BandIp \/ BandPing \/ \E s \in Setters : BandPort(s) \/ \E ban \in Bans : BandProtocol(s, ban)
  BY <1>1, <1>3, SetterStep
<1>4. ASSUME NEW q \in Cpus, HookOut(q) \/ HookIn(q) \/ Leave(q) \/ \E p \in Packets : Arrive(q, p)
      PROVE  FilterInv'
  BY <1>1, <1>4, HookStep, LeaveStep, ArriveStep
<1>5. QED
  BY <1>2, <1>3, <1>4 DEF FilterNext

(* The settings, the calls and the looks have their types.                                                         *)
THEOREM FilterTyped == FilterSpec => []FilterTypes
<1>1. FilterInit => FilterTypes
  BY FilterStarts DEF FilterInv
<1>2. QED
  BY <1>1, FilterTypeStep, PTL DEF FilterSpec

(* A verdict is that of the last ban asked for, unless the settings were written meanwhile, or two calls mixed      *)
(* them (test.c:61-79, 147-149, 174-198).                                                                          *)
THEOREM JudgedAsAsked == FilterSpec => []VerdictAsAsked
<1>1. FilterInv => VerdictAsAsked
  BY DEF FilterInv
<1>2. QED
  BY FilterStarts, FilterStep, <1>1, PTL DEF FilterSpec

(***************************************************************************)
(* The client and the netlink socket                                       *)
(***************************************************************************)

\* What the argument needs of the types.
ClientWords ==
    /\ phase \in [Clients -> {"start", "kernel", "asked", "listing", "closing", "done", "failed"}]
    /\ DOMAIN opts = Clients /\ inbox \in [Clients -> Seq(Int)] /\ queue \in Seq(Clients)
    /\ job \in [Clients -> Clients \cup {Idle}] /\ step \in [Clients -> {"begin", "rules"}]
    /\ number \in Int

\* How often a client is in a queue.
Once(q, c) == \E i \in 1..Len(q) : q[i] = c /\ \A j \in 1..Len(q) : q[j] = c => j = i
Never(q, c) == \A i \in 1..Len(q) : q[i] # c

\* A command that has been sent and not been read is in the queue, in the hands of one thread, or answered.
Placed(c) ==
    \/ Once(queue, c) /\ Servers(c) = {} /\ inbox[c] = <<>>
    \/ (\E d \in Clients : Servers(c) = {d}) /\ Never(queue, c) /\ inbox[c] = <<>>
    \/ Servers(c) = {} /\ Never(queue, c) /\ Len(inbox[c]) = 1

\* Before it is sent it is nowhere.
Unsent(c) == phase[c] = "start" => Never(queue, c) /\ Servers(c) = {} /\ inbox[c] = <<>>
Owed(c) == phase[c] \in {"kernel", "asked"} /\ opts[c].cmd # "List" => Placed(c)

\* A thread serves a command that was sent, and sends rules for a list only.
Serving(c) ==
    /\ job[c] = Idle => step[c] = "begin"
    /\ job[c] # Idle => phase[job[c]] # "start"
    /\ step[c] = "rules" => opts[job[c]].cmd = "List"

ClientInv == ClientWords /\ \A c \in Clients : Unsent(c) /\ Owed(c) /\ Serving(c)

LEMMA ClientStarts == ClientInit => ClientInv
BY ClientAssumption
DEF ClientInit, ClientInv, ClientWords, Unsent, Owed, Serving, Never, Servers, Idle

LEMMA ClientWordsStep == ClientInv /\ [ClientNext]_sipfwVars => ClientWords'
<1> SUFFICES ASSUME ClientInv, [ClientNext]_sipfwVars PROVE ClientWords'
  OBVIOUS
<1> USE DEF clientVars, socketVars, kernelVars, rulesVars
<1>1. ClientWords
  BY DEF ClientInv
<1>2. ASSUME NEW d \in Clients, NEW m \in Int, Deliver(d, m) PROVE inbox' \in [Clients -> Seq(Int)]
  <2>1. inbox \in [Clients -> Seq(Int)] /\ Append(inbox[d], m) \in Seq(Int)
    BY <1>1 DEF ClientWords
  <2>2. inbox' = inbox \/ inbox' = [inbox EXCEPT ![d] = Append(inbox[d], m)]
    BY <1>2 DEF Deliver
  <2>3. QED
    BY <2>1, <2>2
<1>3. ASSUME NEW k \in Commands, Changes(k) PROVE number' \in Int
  BY <1>1, <1>3 DEF Changes, ClientWords
<1>4. ASSUME NEW c \in Clients, NEW args \in CommandLines, Start(c, args) PROVE ClientWords'
  <2>1. Append(queue, c) \in Seq(Clients)
    BY <1>1 DEF ClientWords
  <2>2. QED
    BY <1>1, <1>4, <2>1 DEF Start, ClientWords
<1>5. ASSUME NEW c \in Clients, Dequeue(c) PROVE ClientWords'
  <2>1. CASE queue # <<>>
    <3>1. Head(queue) \in Clients /\ Tail(queue) \in Seq(Clients)
      BY <1>1, <2>1 DEF ClientWords
    <3>2. QED
      BY <1>1, <1>5, <2>1, <3>1 DEF Dequeue, ClientWords
  <2>2. CASE queue = <<>>
    BY <1>1, <1>5, <2>2 DEF Dequeue, ClientWords
  <2>3. QED
    BY <2>1, <2>2
<1>6. ASSUME NEW c \in Clients, DoAction(c) PROVE ClientWords'
  <2>1. job[c] \in Clients /\ UNCHANGED <<phase, opts, queue>>
    BY <1>1, <1>6 DEF DoAction, At, ClientWords
  <2>2. CASE OutOfTable(opts[job[c]])
    BY <1>1, <1>6, <2>1, <2>2 DEF DoAction, ClientWords
  <2>3. CASE ~OutOfTable(opts[job[c]])
    <3>1. Changes(opts[job[c]].cmd) /\ Deliver(job[c], 0) /\ Finish(c)
      BY <1>6, <2>3 DEF DoAction
    <3>2. number' \in Int
      BY <1>1, <3>1 DEF Changes, ClientWords
    <3>3. inbox' \in [Clients -> Seq(Int)]
      BY <1>2, <2>1, <3>1
    <3>4. QED
      BY <1>1, <2>1, <3>1, <3>2, <3>3 DEF Finish, ClientWords
  <2>4. QED
    BY <2>2, <2>3
<1>7. ASSUME NEW c \in Clients, DoGarbage(c) PROVE ClientWords'
  <2>1. phase' = phase /\ opts' = opts /\ inbox' = inbox /\ queue' = queue
    BY <1>7 DEF DoGarbage
  <2>2. CASE mode' = "wild" /\ UNCHANGED <<kernelVars, rulesVars, disturbed>>
    BY <1>1, <2>1, <2>2 DEF ClientWords
  <2>3. CASE Finish(c) /\ \E cmd \in Commands : Changes(cmd)
    <3>1. number' \in Int
      BY <1>3, <2>3
    <3>2. job' \in [Clients -> Clients \cup {Idle}] /\ step' \in [Clients -> {"begin", "rules"}]
      BY <1>1, <2>3 DEF Finish, ClientWords
    <3>3. QED
      BY <1>1, <2>1, <3>1, <3>2 DEF ClientWords
  <2>4. QED
    BY <1>7, <2>2, <2>3 DEF DoGarbage
<1>8. ASSUME NEW c \in Clients, ListCount(c) PROVE ClientWords'
  <2>1. number % Width \in Int /\ job[c] \in Clients
    BY <1>1, <1>8, ClientAssumption DEF ListCount, At, ClientWords
  <2>2. inbox' \in [Clients -> Seq(Int)]
    BY <1>2, <1>8, <2>1 DEF ListCount
  <2>3. QED
    BY <1>1, <1>8, <2>2 DEF ListCount, ClientWords
<1>9. ASSUME NEW c \in Clients, ListRule(c) PROVE ClientWords'
  <2>1. job[c] \in Clients
    BY <1>1, <1>9 DEF ListRule, At, ClientWords
  <2>2. inbox' \in [Clients -> Seq(Int)]
    BY <1>1, <1>2, <1>9, <2>1 DEF ListRule, ClientWords
  <2>3. QED
    BY <1>1, <1>9, <2>2 DEF ListRule, Finish, ClientWords
<1>10. ASSUME NEW c \in Clients, Reads(c) PROVE ClientWords'
  <2>1. inbox' = inbox \/ (inbox[c] # <<>> /\ inbox' = [inbox EXCEPT ![c] = Tail(@)])
    BY <1>10 DEF Reads, Answer, RecvRule, Takes, TakesError, Ready
  <2>2. inbox' \in [Clients -> Seq(Int)]
    <3>1. CASE inbox' = inbox
      BY <1>1, <3>1 DEF ClientWords
    <3>2. CASE inbox[c] # <<>> /\ inbox' = [inbox EXCEPT ![c] = Tail(@)]
      <4>1. inbox \in [Clients -> Seq(Int)] /\ inbox[c] \in Seq(Int)
        BY <1>1 DEF ClientWords
      <4>2. Tail(inbox[c]) \in Seq(Int)
        BY <3>2, <4>1
      <4>3. QED
        BY <3>2, <4>1, <4>2
    <3>3. QED
      BY <2>1, <3>1, <3>2
  <2>3. phase' \in [Clients -> {"start", "kernel", "asked", "listing", "closing", "done", "failed"}]
    BY <1>1, <1>10 DEF Reads, Answer, RecvRule, Asks, ClientWords
  <2>4. QED
    BY <1>1, <1>10, <2>2, <2>3 DEF Reads, Answer, RecvRule, ClientWords
<1>11. ASSUME NEW c \in Clients, SigInt(c) \/ NoMemory(c) PROVE ClientWords'
  <2>1. Append(queue, c) \in Seq(Clients)
    BY <1>1 DEF ClientWords
  <2>2. QED
    BY <1>1, <1>11, <2>1 DEF SigInt, NoMemory, ClientWords
<1>12. CASE UNCHANGED sipfwVars
  BY <1>1, <1>12 DEF sipfwVars, ClientWords
<1>13. QED
  BY <1>4, <1>5, <1>6, <1>7, <1>8, <1>9, <1>10, <1>11, <1>12 DEF ClientNext, Kernel

(* A client in a queue, when another comes or the first goes. *)

LEMMA AppendOther ==
    ASSUME NEW q \in Seq(Clients), NEW c \in Clients, NEW e \in Clients, c # e
    PROVE  /\ Never(q, c) => Never(Append(q, e), c)
           /\ Once(q, c) => Once(Append(q, e), c)
<1>1. Len(Append(q, e)) = Len(q) + 1 /\ Append(q, e)[Len(q) + 1] = e /\ Len(q) \in Nat
  OBVIOUS
<1>2. \A i \in 1..Len(q) : Append(q, e)[i] = q[i]
  OBVIOUS
<1>3. Never(q, c) => Never(Append(q, e), c)
  BY <1>1, <1>2 DEF Never
<1>4. ASSUME Once(q, c) PROVE Once(Append(q, e), c)
  <2>1. PICK i \in 1..Len(q) : q[i] = c /\ \A j \in 1..Len(q) : q[j] = c => j = i
    BY <1>4 DEF Once
  <2>2. i \in 1..Len(Append(q, e)) /\ Append(q, e)[i] = c
    BY <1>1, <1>2, <2>1
  <2>3. ASSUME NEW j \in 1..Len(Append(q, e)), Append(q, e)[j] = c PROVE j = i
    BY <1>1, <1>2, <2>1, <2>3
  <2>4. QED
    BY <2>2, <2>3 DEF Once
<1>5. QED
  BY <1>3, <1>4

LEMMA AppendOwn ==
    ASSUME NEW q \in Seq(Clients), NEW c \in Clients, Never(q, c)
    PROVE  Once(Append(q, c), c)
<1>1. Len(Append(q, c)) = Len(q) + 1 /\ Append(q, c)[Len(q) + 1] = c /\ Len(q) \in Nat
  OBVIOUS
<1>2. \A i \in 1..Len(q) : Append(q, c)[i] = q[i]
  OBVIOUS
<1>3. ASSUME NEW j \in 1..Len(Append(q, c)), Append(q, c)[j] = c PROVE j = Len(q) + 1
  BY <1>1, <1>2, <1>3 DEF Never
<1>4. QED
  BY <1>1, <1>3 DEF Once

LEMMA TailOfQueue ==
    ASSUME NEW q \in Seq(Clients), NEW c \in Clients, q # <<>>
    PROVE  /\ Never(q, c) => Never(Tail(q), c) /\ Head(q) # c
           /\ Head(q) # c /\ Once(q, c) => Once(Tail(q), c)
           /\ Head(q) = c /\ Once(q, c) => Never(Tail(q), c)
<1>1. Len(q) \in Nat \ {0} /\ Len(Tail(q)) = Len(q) - 1 /\ Head(q) = q[1]
  OBVIOUS
<1>2. \A i \in 1..Len(Tail(q)) : Tail(q)[i] = q[i + 1]
  OBVIOUS
<1>3. Never(q, c) => Never(Tail(q), c) /\ Head(q) # c
  BY <1>1, <1>2 DEF Never
<1>4. ASSUME Head(q) # c, Once(q, c) PROVE Once(Tail(q), c)
  <2>1. PICK i \in 1..Len(q) : q[i] = c /\ \A j \in 1..Len(q) : q[j] = c => j = i
    BY <1>4 DEF Once
  <2>2. i - 1 \in 1..Len(Tail(q)) /\ Tail(q)[i - 1] = c
    BY <1>1, <1>2, <1>4, <2>1
  <2>3. ASSUME NEW j \in 1..Len(Tail(q)), Tail(q)[j] = c PROVE j = i - 1
    BY <1>1, <1>2, <2>1, <2>3
  <2>4. QED
    BY <2>2, <2>3 DEF Once
<1>5. ASSUME Head(q) = c, Once(q, c) PROVE Never(Tail(q), c)
  BY <1>1, <1>2, <1>5 DEF Once, Never
<1>6. QED
  BY <1>3, <1>4, <1>5

\* A client that a step does not touch.
LEMMA Untouched ==
    ASSUME NEW c \in Clients, Unsent(c), Owed(c),
           phase'[c] = phase[c] \/ (phase[c] = "kernel" /\ phase'[c] = "asked"), opts'[c] = opts[c],
           Never(queue, c) => Never(queue', c), Once(queue, c) => Once(queue', c),
           Servers(c)' = Servers(c), inbox'[c] = inbox[c]
    PROVE  Unsent(c)' /\ Owed(c)'
  BY DEF Unsent, Owed, Placed

\* A thread that a step does not touch.
LEMMA StillServing ==
    ASSUME ClientWords, NEW c \in Clients, Serving(c), job'[c] = job[c], step'[c] = step[c],
           \A d \in Clients : phase[d] # "start" => phase'[d] # "start",
           job[c] # Idle => opts'[job[c]] = opts[job[c]]
    PROVE  Serving(c)'
<1>1. step[c] = "rules" => job[c] # Idle
  BY DEF Serving
<1>2. job[c] # Idle => job[c] \in Clients
  BY DEF ClientWords
<1>3. QED
  BY <1>1, <1>2 DEF Serving

Kept(c) == Unsent(c) /\ Owed(c) /\ Serving(c)

\* A message appended by a client: its command, or the one of sig_int.
LEMMA KeptBySending ==
    ASSUME ClientInv, NEW c \in Clients, NEW e \in Clients,
           (\E args \in CommandLines : Start(c, args)) \/ SigInt(c)
    PROVE  Kept(e)'
<1> USE DEF clientVars, socketVars, kernelVars, rulesVars
<1>1. ClientWords /\ Unsent(c) /\ Owed(c) /\ Unsent(e) /\ Owed(e) /\ Serving(e)
  BY DEF ClientInv
<1>2. /\ job' = job /\ step' = step /\ inbox' = inbox
      /\ \A d \in Clients \ {c} : phase'[d] = phase[d] /\ opts'[d] = opts[d]
      /\ queue' = Append(queue, c) \/ (queue' = queue /\ phase'[c] = "failed")
      /\ phase'[c] \in {"kernel", "failed", "closing"} /\ (phase'[c] = "kernel" => phase[c] = "start")
      /\ phase[c] = "start" \/ opts' = opts
  BY <1>1 DEF Start, SigInt, ClientWords
<1>3. Servers(e)' = Servers(e) /\ Servers(c)' = Servers(c)
  BY <1>2 DEF Servers
<1>4. Serving(e)'
  <2>1. \A d \in Clients : phase[d] # "start" => phase'[d] # "start"
    BY <1>2
  <2>2. job[e] # Idle => job[e] \in Clients /\ phase[job[e]] # "start"
    BY <1>1 DEF Serving, ClientWords
  <2>3. job[e] # Idle => opts'[job[e]] = opts[job[e]]
    BY <1>2, <2>2
  <2>4. QED
    BY <1>1, <1>2, <2>1, <2>3, StillServing
<1>5. CASE e = c
  <2>1. ASSUME phase[c] = "start", queue' = Append(queue, c) PROVE Placed(c)'
    <3>1. Never(queue, c) /\ Servers(c) = {} /\ inbox[c] = <<>>
      BY <1>1, <2>1 DEF Unsent
    <3>2. Once(queue', c)
      BY <1>1, <2>1, <3>1, AppendOwn DEF ClientWords
    <3>3. QED
      BY <1>2, <1>3, <3>1, <3>2 DEF Placed
  <2>2. QED
    BY <1>2, <1>4, <1>5, <2>1 DEF Kept, Unsent, Owed
<1>6. CASE e # c
  <2>1. (Never(queue, e) => Never(queue', e)) /\ (Once(queue, e) => Once(queue', e))
    BY <1>1, <1>2, <1>6, AppendOther DEF ClientWords
  <2>2. Unsent(e)' /\ Owed(e)'
    BY <1>1, <1>2, <1>3, <1>6, <2>1, Untouched
  <2>3. QED
    BY <1>4, <2>2 DEF Kept
<1>7. QED
  BY <1>5, <1>6

\* An answer that is read: the client is no longer owed one.
LEMMA KeptByReading ==
    ASSUME ClientInv, NEW c \in Clients, NEW e \in Clients, Reads(c)
    PROVE  Kept(e)'
<1> USE DEF clientVars, socketVars, kernelVars, rulesVars
<1>1. ClientWords /\ Unsent(e) /\ Owed(e) /\ Serving(e)
  BY DEF ClientInv
<1>2. /\ job' = job /\ step' = step /\ queue' = queue /\ opts' = opts
      /\ \A d \in Clients \ {c} : phase'[d] = phase[d] /\ inbox'[d] = inbox[d]
      /\ phase'[c] \in {"listing", "done", "failed"}
  BY <1>1 DEF Reads, Answer, RecvRule, Takes, TakesError, Asks, ClientWords
<1>3. Servers(e)' = Servers(e)
  BY <1>2 DEF Servers
<1>4. Serving(e)'
  <2>1. \A d \in Clients : phase[d] # "start" => phase'[d] # "start"
    BY <1>2
  <2>2. QED
    BY <1>1, <1>2, <2>1, StillServing
<1>5. CASE e = c
  BY <1>2, <1>4, <1>5 DEF Kept, Unsent, Owed
<1>6. CASE e # c
  <2>1. Unsent(e)' /\ Owed(e)'
    BY <1>1, <1>2, <1>3, <1>6, Untouched
  <2>2. QED
    BY <1>4, <2>1 DEF Kept
<1>7. QED
  BY <1>5, <1>6

\* A thread takes the first message, whosever it is, or leaves the kernel.
LEMMA KeptByDequeue ==
    ASSUME ClientInv, NEW c \in Clients, NEW e \in Clients, Dequeue(c)
    PROVE  Kept(e)'
<1> USE DEF clientVars, socketVars, kernelVars, rulesVars
<1>1. ClientWords /\ Unsent(e) /\ Owed(e) /\ Serving(e) /\ Serving(c)
  BY DEF ClientInv
<1>2. job[c] = Idle /\ opts' = opts /\ inbox' = inbox /\ step' = step
  BY DEF Dequeue
<1>3. CASE queue = <<>>
  <2>1. /\ job' = job /\ queue' = queue
        /\ \A d \in Clients : \/ phase'[d] = phase[d]
                              \/ phase[d] = "kernel" /\ phase'[d] = "asked"
                              \/ phase[d] = "closing" /\ phase'[d] = "done"
    BY <1>1, <1>3 DEF Dequeue, ClientWords
  <2>2. Serving(e)'
    <3>1. \A d \in Clients : phase[d] # "start" => phase'[d] # "start"
      BY <2>1
    <3>2. QED
      BY <1>1, <1>2, <2>1, <3>1, StillServing
  <2>3. Servers(e)' = Servers(e)
    BY <2>1 DEF Servers
  <2>4. CASE phase'[e] = "done"
    BY <2>2, <2>4 DEF Kept, Unsent, Owed
  <2>5. CASE phase'[e] # "done"
    <3>1. phase'[e] = phase[e] \/ (phase[e] = "kernel" /\ phase'[e] = "asked")
      BY <2>1, <2>5
    <3>2. Unsent(e)' /\ Owed(e)'
      BY <1>1, <1>2, <2>1, <2>3, <3>1, Untouched
    <3>3. QED
      BY <2>2, <3>2 DEF Kept
  <2>6. QED
    BY <2>4, <2>5
<1>4. CASE queue # <<>>
  <2> DEFINE h == Head(queue)
  <2>1. h \in Clients /\ queue' = Tail(queue) /\ phase' = phase /\ job' = [job EXCEPT ![c] = h]
    BY <1>1, <1>4 DEF Dequeue, ClientWords
  <2>2. \A d \in Clients : /\ Never(queue, d) => Never(queue', d) /\ h # d
                           /\ h # d /\ Once(queue, d) => Once(queue', d)
                           /\ h = d /\ Once(queue, d) => Never(queue', d)
    BY <1>1, <1>4, <2>1, TailOfQueue DEF ClientWords
  <2>3. job'[c] = h /\ \A d \in Clients \ {c} : job'[d] = job[d]
    BY <1>1, <2>1 DEF ClientWords
  <2>4. h # Idle
    BY <2>1, ClientAssumption DEF Idle
  <2> HIDE DEF h
  <2>5. Serving(e)'
    <3>1. CASE e = c
      <4>1. step[c] = "begin"
        BY <1>1, <1>2 DEF Serving
      <4>2. phase[h] # "start"
        BY <2>1, <2>2 DEF ClientInv, Unsent
      <4>3. QED
        BY <1>2, <2>1, <2>3, <2>4, <3>1, <4>1, <4>2 DEF Serving
    <3>2. CASE e # c
      <4>1. job'[e] = job[e]
        BY <2>3, <3>2
      <4>2. QED
        BY <1>1, <1>2, <2>1, <4>1, StillServing
    <3>3. QED
      BY <3>1, <3>2
  <2>6. CASE e # h
    <3>1. Servers(e)' = Servers(e)
      BY <1>2, <2>3, <2>6, ClientAssumption DEF Servers, Idle
    <3>2. Unsent(e)' /\ Owed(e)'
      BY <1>1, <1>2, <2>1, <2>2, <2>6, <3>1, Untouched
    <3>3. QED
      BY <2>5, <3>2 DEF Kept
  <2>7. CASE e = h
    <3>1. phase[e] # "start" /\ phase'[e] = phase[e]
      BY <1>1, <2>1, <2>2, <2>7 DEF Unsent
    <3>2. ASSUME Placed(e) PROVE Placed(e)'
      <4>1. Once(queue, e) /\ Servers(e) = {} /\ inbox[e] = <<>>
        BY <2>2, <2>7, <3>2 DEF Placed
      <4>2. Never(queue', e)
        BY <2>2, <2>7, <4>1
      <4>3. Servers(e)' = {c}
        BY <2>3, <2>7, <4>1 DEF Servers
      <4>4. QED
        BY <1>2, <4>1, <4>2, <4>3 DEF Placed
    <3>3. Unsent(e)' /\ Owed(e)'
      BY <1>1, <1>2, <2>1, <3>1, <3>2 DEF Unsent, Owed
    <3>4. QED
      BY <2>5, <3>3 DEF Kept
  <2>8. QED
    BY <2>6, <2>7
<1>5. QED
  BY <1>3, <1>4

\* A thread that has done what a client asked for and answers it.
LEMMA KeptByAction ==
    ASSUME ClientInv, NEW c \in Clients, NEW e \in Clients, DoAction(c) \/ DoGarbage(c)
    PROVE  Kept(e)'
<1> USE DEF clientVars, socketVars, kernelVars, rulesVars
<1>1. ClientWords /\ Unsent(e) /\ Owed(e) /\ Serving(e)
  BY DEF ClientInv
<1>2. PICK d \in Clients : d = job[c] /\ d # Idle
  BY <1>1 DEF DoAction, DoGarbage, At, ClientWords
<1>3. phase' = phase /\ opts' = opts /\ queue' = queue
  BY DEF DoAction, DoGarbage
<1>4. Unsent(d) /\ Owed(d) /\ phase[d] # "start" /\ c \in Servers(d)
  BY <1>2 DEF ClientInv, Serving, Servers
<1>5. CASE UNCHANGED <<inbox, job, step>>
  <2>1. Servers(e)' = Servers(e)
    BY <1>5 DEF Servers
  <2>2. Unsent(e)' /\ Owed(e)'
    BY <1>1, <1>3, <1>5, <2>1, Untouched
  <2>3. Serving(e)'
    BY <1>1, <1>3, <1>5, StillServing
  <2>4. QED
    BY <2>2, <2>3 DEF Kept
<1>6. CASE /\ Finish(c)
           /\ \/ Deliver(d, 0)
              \/ inbox' = inbox /\ phase[d] = "closing"
  <2>1. /\ job'[c] = Idle /\ step'[c] = "begin"
        /\ \A x \in Clients \ {c} : job'[x] = job[x] /\ step'[x] = step[x]
    BY <1>1, <1>6 DEF Finish, ClientWords
  <2>2. Serving(e)'
    <3>1. CASE e = c
      BY <2>1, <3>1 DEF Serving
    <3>2. CASE e # c
      BY <1>1, <1>3, <2>1, <3>2, StillServing
    <3>3. QED
      BY <3>1, <3>2
  <2>3. \A x \in Clients \ {d} : inbox'[x] = inbox[x]
    BY <1>1, <1>6 DEF Deliver, ClientWords
  <2>4. CASE e # d
    <3>1. Servers(e)' = Servers(e)
      <4>1. job[c] # e
        BY <1>2, <2>4
      <4>2. QED
        BY <2>1, <4>1, ClientAssumption DEF Servers, Idle
    <3>2. Unsent(e)' /\ Owed(e)'
      BY <1>1, <1>3, <2>3, <2>4, <3>1, Untouched
    <3>3. QED
      BY <2>2, <3>2 DEF Kept
  <2>5. CASE e = d
    <3>1. ASSUME Placed(d), phase[d] \in {"kernel", "asked"} PROVE Placed(d)'
      <4>1. Servers(d) = {c} /\ Never(queue, d) /\ inbox[d] = <<>>
        BY <1>4, <3>1 DEF Placed
      <4>2. Servers(d)' = {}
        BY <1>2, <2>1, <4>1 DEF Servers
      <4>3. inbox' = [inbox EXCEPT ![d] = Append(inbox[d], 0)]
        <5>1. Len(inbox[d]) = 0 /\ 0 < Capacity
          BY <4>1, ClientAssumption
        <5>2. QED
          BY <1>6, <3>1, <5>1 DEF Deliver
      <4>4. Len(inbox'[d]) = 1
        <5>1. inbox'[d] = Append(<<>>, 0)
          BY <1>1, <1>3, <4>1, <4>3 DEF ClientWords
        <5>2. QED
          BY <5>1
      <4>5. QED
        BY <1>3, <4>1, <4>2, <4>4 DEF Placed
    <3>2. Unsent(d)' /\ Owed(d)'
      BY <1>3, <1>4, <3>1 DEF Unsent, Owed
    <3>3. QED
      BY <2>2, <2>5, <3>2 DEF Kept
  <2>6. QED
    BY <2>4, <2>5
<1>7. QED
  <2>1. CASE DoAction(c)
    BY <1>2, <1>5, <1>6, <2>1 DEF DoAction
  <2>2. CASE DoGarbage(c)
    BY <1>2, <1>5, <1>6, <2>2 DEF DoGarbage
  <2>3. QED
    BY <2>1, <2>2

\* A thread that sends a list: its client is owed no single answer.
LEMMA KeptByListing ==
    ASSUME ClientInv, NEW c \in Clients, NEW e \in Clients, ListCount(c) \/ ListRule(c)
    PROVE  Kept(e)'
<1> USE DEF clientVars, socketVars, kernelVars, rulesVars
<1> DEFINE d == job[c]
<1>1. ClientWords /\ Unsent(e) /\ Owed(e) /\ Serving(e) /\ Serving(c)
  BY DEF ClientInv
<1>2. /\ d \in Clients /\ d # Idle /\ phase' = phase /\ opts' = opts /\ queue' = queue
      /\ opts[d].cmd = "List"
  BY <1>1 DEF ListCount, ListRule, At, ClientWords, Serving
<1>3. phase[d] # "start"
  BY <1>1, <1>2 DEF Serving
<1>4. \A x \in Clients \ {d} : inbox'[x] = inbox[x]
  BY <1>1 DEF ListCount, ListRule, Deliver, ClientWords
<1>5. /\ \A x \in Clients \ {c} : job'[x] = job[x] /\ step'[x] = step[x]
      /\ \/ job'[c] = job[c] /\ step'[c] \in {"rules", step[c]}
         \/ job'[c] = Idle /\ step'[c] = "begin"
  BY <1>1 DEF ListCount, ListRule, Finish, ClientWords
<1> HIDE DEF d
<1>6. Serving(e)'
  <2>1. CASE e = c
    BY <1>1, <1>2, <1>3, <1>5, <2>1 DEF Serving, d
  <2>2. CASE e # c
    BY <1>1, <1>2, <1>5, <2>2, StillServing
  <2>3. QED
    BY <2>1, <2>2
<1>7. CASE e # d
  <2>1. Servers(e)' = Servers(e)
    <3>1. job[c] # e
      BY <1>7 DEF d
    <3>2. QED
      BY <1>5, <3>1, ClientAssumption DEF Servers, Idle
  <2>2. Unsent(e)' /\ Owed(e)'
    BY <1>1, <1>2, <1>4, <1>7, <2>1, Untouched
  <2>3. QED
    BY <1>6, <2>2 DEF Kept
<1>8. CASE e = d
  BY <1>2, <1>3, <1>6, <1>8 DEF Kept, Unsent, Owed
<1>9. QED
  BY <1>7, <1>8

LEMMA ClientStep == ClientInv /\ [ClientNext]_sipfwVars => ClientInv'
<1> SUFFICES ASSUME ClientInv, [ClientNext]_sipfwVars PROVE ClientInv'
  OBVIOUS
<1>1. ASSUME NEW e \in Clients PROVE Kept(e)'
  <2>1. CASE \E c \in Clients : \/ \E args \in CommandLines : Start(c, args)
                               \/ SigInt(c)
    BY <2>1, KeptBySending
  <2>2. CASE \E c \in Clients : Kernel(c) \/ Reads(c)
    BY <2>2, KeptByDequeue, KeptByAction, KeptByListing, KeptByReading DEF Kernel
  <2>3. CASE (\E c \in Clients : NoMemory(c)) \/ UNCHANGED sipfwVars
    <3>1. UNCHANGED <<phase, opts, inbox, queue, job, step>>
      BY <2>3 DEF NoMemory, sipfwVars, clientVars, socketVars, kernelVars
    <3>2. ClientWords /\ Unsent(e) /\ Owed(e) /\ Serving(e) /\ Servers(e)' = Servers(e)
      BY <3>1 DEF ClientInv, Servers
    <3>3. QED
      BY <3>1, <3>2, Untouched, StillServing DEF Kept
  <2>4. QED
    BY <2>1, <2>2, <2>3 DEF ClientNext
<1>2. QED
  BY <1>1, ClientWordsStep DEF ClientInv, Kept

\* AnswerOwed: for any number of clients whose commands pass through one queue of the kernel, a client that
\* waits finds its command queued once, handled by one thread, or answered once, in buffers of any size and
\* however many lists, interruptions and losses there are beside it.
THEOREM EachIsAnswered == ClientSpec => []AnswerOwed
<1>1. ClientInv => AnswerOwed
  BY DEF ClientInv, Owed, Placed, Once, Never, AnswerOwed
<1>2. QED
  BY ClientStarts, ClientStep, <1>1, PTL DEF ClientSpec
=============================================================================
