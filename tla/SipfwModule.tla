----------------------------- MODULE SipfwModule -----------------------------
(***************************************************************************)
(* The life of the SIPFW kernel module: SIPFW_Init and SIPFW_Exit          *)
(* (sipfw_k.c), the configuration file (sipfw_k_file.c) and the files      *)
(* under /proc/net/sipfw (sipfw_k_proc.c), which processes write while the *)
(* module is loaded, and while it is being loaded.                         *)
(*                                                                         *)
(* A text is a sequence of characters; the buffer cookie_pot that all      *)
(* files share keeps the end of a longer text behind a shorter one.        *)
(***************************************************************************)
EXTENDS Integers, Sequences, FiniteSets

CONSTANTS Writers,   \* processes that write to the files
          Texts,     \* what they write
          Faults,    \* the characters that may be copied before a fault
          ConfFiles  \* the lines of /etc/sipfw.conf, the empty sequence also if it cannot be opened

Lines == {"accept", "drop", "rules", "log", "other", "empty"}
Digits == {"0", "1"}
Names == {"information", "defaultaction", "logpause", "invalid"}
Written == Names \ {"information"}
Accept == <<"A", "C", "C", "E", "P", "T">>
Drop == <<"D", "R", "O", "P">>

ASSUME ModuleAssumption == Faults \subseteq Nat /\ ConfFiles \subseteq Seq(Lines) /\ Texts \subseteq Seq(STRING)

VARIABLES
    stage,   \* where SIPFW_Init or SIPFW_Exit is, "live" or "gone"
    rest,    \* the lines of the configuration that are not read yet
    cut,     \* its last line has no line feed
    log,     \* cf.LogFilePath: "default", "set", or "spoilt" by a character behind it
    cf,      \* the settings: what the file of the name shows
    nl, hooks, \* the netlink socket and the hooks exist
    entries, \* the proc files that exist
    wired,   \* those that have their functions
    cookie,  \* cookie_pot: "none", "live" or "freed"
    pot,     \* the text in it
    pc, file, text, \* of each writer: "idle" or "copied"; what it writes where
    clean,   \* history, by writer: pot holds its text and nothing else
    unhooked, halfway, \* history: the hooks were refused; the proc files were made in part
    fault     \* "ok" or "oops"

confVars == <<rest, cut, log>>
wiringVars == <<nl, hooks, entries, wired>>
potVars == <<cookie, pot>>
writerVars == <<pc, file, text, clean>>
moduleVars == <<stage, confVars, cf, wiringVars, potVars, writerVars, unhooked, halfway, fault>>

ModuleInit ==
    /\ stage = "conf"
    /\ rest \in ConfFiles /\ cut \in BOOLEAN /\ log = "default"
    /\ cf = [defaultaction |-> "ACCEPT", logpause |-> FALSE, invalid |-> FALSE]
    /\ nl = FALSE /\ hooks = FALSE /\ entries = {} /\ wired = {}
    /\ cookie = "none" /\ pot = <<>>
    /\ pc = [w \in Writers |-> "idle"] /\ file = [w \in Writers |-> "invalid"]
    /\ text = [w \in Writers |-> <<>>] /\ clean = [w \in Writers |-> FALSE]
    /\ unhooked = FALSE /\ halfway = FALSE /\ fault = "ok"

(*************************************************************************)
(* SIPFW_HandleConf and SIPFW_ReadLine                                    *)
(*************************************************************************)

\* A path that the file ends in without a line feed may have a character too many, which the buffer held.
Paths == IF Len(rest) = 1 /\ cut THEN {"set", "spoilt"} ELSE {"set"}

\* What a line sets.
Configure(l) ==
    /\ cf' = CASE l = "accept" -> [cf EXCEPT !.defaultaction = "ACCEPT"]
               [] l = "drop" -> [cf EXCEPT !.defaultaction = "DROP"]
               [] OTHER -> cf
    /\ IF l = "log" THEN log' \in Paths ELSE UNCHANGED log

\* A line that is empty, or what a CR leaves of the LF behind it, counts no character: the file ends there.
ConfEnds == IF rest = <<>> THEN TRUE ELSE Head(rest) = "empty"

ReadConf ==
    /\ stage = "conf" /\ ~ConfEnds
    /\ Configure(Head(rest)) /\ rest' = Tail(rest)
    /\ UNCHANGED <<stage, cut, wiringVars, potVars, writerVars, unhooked, halfway, fault>>

\* Whatever SIPFW_HandleConf returns is overwritten.
ConfRead ==
    /\ stage = "conf" /\ ConfEnds
    /\ stage' = "netlink" /\ rest' = <<>> /\ cut' = FALSE
    /\ UNCHANGED <<log, cf, wiringVars, potVars, writerVars, unhooked, halfway, fault>>

(*************************************************************************)
(* SIPFW_Init and SIPFW_Exit                                              *)
(*************************************************************************)

Go(s) == stage' = s /\ UNCHANGED <<confVars, cf, writerVars, fault>>

NLCreate ==
    /\ stage = "netlink"
    /\ \/ nl' = TRUE /\ Go("pot")
       \/ Go("gone") /\ UNCHANGED nl
    /\ UNCHANGED <<hooks, entries, wired, potVars, unhooked, halfway>>

\* SIPFW_Proc_Init, until there are entries that a process can open.
ProcMemory ==
    /\ stage = "pot"
    /\ \/ cookie' = "live" /\ pot' = <<>> /\ Go("entries")
       \/ Go("undoNetlink") /\ UNCHANGED potVars
    /\ UNCHANGED <<wiringVars, unhooked, halfway>>

\* One that is missing ends it; the others stay.
ProcEntries ==
    /\ stage = "entries"
    /\ \E made \in SUBSET Names :
        /\ entries' = made
        /\ IF made = Names THEN Go("wire") /\ UNCHANGED <<cookie, halfway>>
           ELSE Go("undoNetlink") /\ cookie' = "freed" /\ halfway' = TRUE
    /\ UNCHANGED <<nl, hooks, wired, pot, unhooked>>

ProcWire ==
    /\ stage = "wire"
    /\ wired' = Names /\ Go("hooks")
    /\ UNCHANGED <<nl, hooks, entries, potVars, unhooked, halfway>>

RegisterHooks ==
    /\ stage = "hooks"
    /\ \/ hooks' = TRUE /\ Go("live") /\ UNCHANGED unhooked
       \/ unhooked' = TRUE /\ Go("undoProc") /\ UNCHANGED hooks
    /\ UNCHANGED <<nl, entries, wired, potVars, halfway>>

\* The entries stay (mutant: remove_proc_entry is left out).
ProcCleanUp_Keeps(next) ==
    /\ wired' = {} /\ UNCHANGED entries
    /\ cookie' = "freed" /\ Go(next)
    /\ UNCHANGED <<nl, hooks, pot, unhooked, halfway>>

\* SIPFW_Proc_CleanUp, after an error or in SIPFW_Exit.
ProcCleanUp(next) ==
    /\ entries' = {} /\ wired' = {}
    /\ cookie' = "freed" /\ Go(next)
    /\ UNCHANGED <<nl, hooks, pot, unhooked, halfway>>

UndoProc == stage = "undoProc" /\ ProcCleanUp("undoNetlink")

NLDestroy(next) == nl' = FALSE /\ Go(next) /\ UNCHANGED <<hooks, entries, wired, potVars, unhooked, halfway>>

UndoNetlink == stage = "undoNetlink" /\ NLDestroy("gone")

\* A module is not removed while one of its proc files is in use.
Exit ==
    \/ stage = "live" /\ (\A w \in Writers : pc[w] = "idle") /\ NLDestroy("leaving")
    \/ stage = "leaving" /\ (\A w \in Writers : pc[w] = "idle") /\ ProcCleanUp("unhook")
    \/ /\ stage = "unhook" /\ hooks' = FALSE /\ Go("gone")
       /\ UNCHANGED <<nl, entries, wired, potVars, unhooked, halfway>>

(*************************************************************************)
(* Writing to a file                                                      *)
(*************************************************************************)

\* What a buffer with the text old holds when new has been copied to its start.
Over(new, old) == [i \in 1..(IF Len(new) >= Len(old) THEN Len(new) ELSE Len(old)) |->
                      IF i <= Len(new) THEN new[i] ELSE old[i]]

\* copy_from_user of all of t, or of a part of it before a fault.
Copy(w, f, t, n) ==
    /\ pc[w] = "idle" /\ f \in wired /\ stage \notin {"leaving", "unhook", "gone"}
    /\ pot' = Over(SubSeq(t, 1, n), pot)
    /\ fault' = IF cookie = "live" THEN "ok" ELSE "oops"
    /\ clean' = [v \in Writers |-> v = w /\ n = Len(t) /\ n >= Len(pot)]
    /\ IF n = Len(t) THEN /\ pc' = [pc EXCEPT ![w] = "copied"] /\ file' = [file EXCEPT ![w] = f]
                          /\ text' = [text EXCEPT ![w] = t]
       ELSE UNCHANGED <<pc, file, text>>
    /\ UNCHANGED <<stage, confVars, cf, wiringVars, cookie, unhooked, halfway>>

\* The number at the start of a text, as C takes it for a truth value; old where there is none.
Number_First(t, old) == IF t # <<>> /\ t[1] \in Digits THEN t[1] # "0" ELSE old

Number(t, old) ==
    LET leading == {i \in 1..Len(t) : \A j \in 1..i : t[j] \in Digits}
    IN IF leading = {} THEN old ELSE \E i \in leading : t[i] # "0"

ActionOf(t, old) == IF t = Accept THEN "ACCEPT" ELSE IF t = Drop THEN "DROP" ELSE old

\* What a text means to a file.
Meaning(f, t) == IF f = "defaultaction" THEN ActionOf(t, cf[f]) ELSE Number(t, cf[f])

\* The setting is made from what pot holds now.
Decide(w) ==
    /\ pc[w] = "copied"
    /\ cf' = [cf EXCEPT ![file[w]] = Meaning(file[w], pot)]
    /\ fault' = IF cookie = "live" THEN "ok" ELSE "oops"
    /\ pc' = [pc EXCEPT ![w] = "idle"] /\ file' = [file EXCEPT ![w] = "invalid"]
    /\ text' = [text EXCEPT ![w] = <<>>] /\ clean' = [clean EXCEPT ![w] = FALSE]
    /\ UNCHANGED <<stage, confVars, wiringVars, potVars, unhooked, halfway>>

ProcWrite(w) ==
    \/ \E f \in Written, t \in Texts : \E n \in {i \in Faults : i < Len(t)} \cup {Len(t)} : Copy(w, f, t, n)
    \/ Decide(w)

ModuleNext ==
    /\ fault = "ok"
    /\ \/ ReadConf \/ ConfRead \/ NLCreate \/ ProcMemory \/ ProcEntries \/ ProcWire \/ RegisterHooks
       \/ UndoProc \/ UndoNetlink \/ Exit
       \/ \E w \in Writers : ProcWrite(w)

ModuleSpec == ModuleInit /\ [][ModuleNext]_moduleVars

(*************************************************************************)
(* Properties                                                             *)
(*************************************************************************)

Stages == {"conf", "netlink", "pot", "entries", "wire", "hooks", "live", "undoProc", "undoNetlink", "leaving",
           "unhook", "gone"}
ModuleTypes ==
    /\ stage \in Stages /\ rest \in Seq(Lines) /\ cut \in BOOLEAN /\ log \in {"default", "set", "spoilt"}
    /\ cf \in [defaultaction : {"ACCEPT", "DROP"}, logpause : BOOLEAN, invalid : BOOLEAN]
    /\ nl \in BOOLEAN /\ hooks \in BOOLEAN /\ entries \subseteq Names /\ wired \subseteq Names
    /\ cookie \in {"none", "live", "freed"} /\ pot \in Seq(STRING)
    /\ pc \in [Writers -> {"idle", "copied"}] /\ file \in [Writers -> Written]
    /\ text \in [Writers -> Seq(STRING)] /\ clean \in [Writers -> BOOLEAN]
    /\ unhooked \in BOOLEAN /\ halfway \in BOOLEAN /\ fault \in {"ok", "oops"}

\* When the module is gone, no hook, socket, buffer or function of it is left, and no proc file unless making
\* the proc files failed half way (sipfw_k.c:275-298, 300-311, sipfw_k_proc.c:171-178).
NothingLeft ==
    stage = "gone" => /\ ~hooks /\ ~nl /\ cookie # "live" /\ wired = {}
                      /\ entries # {} => halfway

\* The shared buffer is used after it was freed only when the hooks were refused while a file was open, for
\* which SIPFW_Proc_CleanUp does not wait (sipfw_k.c:285-293, sipfw_k_proc.c:72, 105, 209).
FreedIsKnown == fault = "oops" => unhooked

\* A module that is gone is gone: nothing of it is left, and nothing of it that is left is used.
GoneForGood == NothingLeft /\ FreedIsKnown

\* A text means to a file what was written, whatever was written before, unless another writer, a fault or the
\* end of a longer text came in between: the setting is then what that text says (sipfw_k_proc.c:72-77,105-118).
WrittenIsSet ==
    [][\A w \in Writers : pc[w] = "copied" /\ pc'[w] = "idle" /\ clean[w] =>
           cf'[file[w]] = (IF file[w] = "defaultaction"
                           THEN IF text[w] = Accept THEN "ACCEPT" ELSE IF text[w] = Drop THEN "DROP" ELSE cf[file[w]]
                           ELSE IF text[w] # <<>> /\ text[w][1] \in Digits
                                THEN \E i \in 1..Len(text[w]) :
                                        text[w][i] # "0" /\ \A j \in 1..i : text[w][j] \in Digits
                                ELSE cf[file[w]])]_moduleVars
=============================================================================
