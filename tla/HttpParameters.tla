--------------------------- MODULE HttpParameters ---------------------------
(* The start of the chapter 18 server: the command line, then the configuration file, then the listening socket,   *)
(* then the workers of module WorkerPool. A line of the file counts by its first word and by whether a space comes *)
(* after the =; words are names, not characters.                                                                   *)
EXTENDS Integers, Sequences

Seqs == INSTANCE SequencesExt

CONSTANTS Default, Empty,  \* no value is a number: nothing typed, a string that the file has emptied
          Options,   \* bound: what may be typed, [name, colon, value]
          MaxTyped,  \* bound: options on one command line
          MaxLines   \* bound: lines of the file

VARIABLES argv, optind,  \* the options, and how many of them have been parsed
          config, lines,  \* the file: its lines, also those still to come, or a reason why there are none
          conf_para,
          phase,        \* what main is doing
          ss            \* what do_listen returned
paramVars == <<argv, optind, config, lines, conf_para, phase, ss>>

Strings == {"CGIRoot", "DefaultFile", "DocumentRoot", "ConfigFile"}
Numbered == {"ListenPort", "MaxClient", "TimeOut"}

ASSUME ParamConstants == /\ Options \subseteq [name : Strings \cup Numbered \cup {"Help"}, colon : BOOLEAN, value : Int]
                         /\ Default \notin Int /\ Empty \notin Int /\ MaxTyped \in Nat /\ MaxLines \in Nat

InitClient == 2
MaxClientOf(conf) == IF conf["MaxClient"] = Default THEN 4 ELSE conf["MaxClient"]

\* A comment, a line of spaces, a line for a setting or for anything else.
Lines == [name : {"#", "spaces"}, space : {TRUE}]
         \cup [name : {"CGIRoot", "DefaultFile", "MaxClient", "anything"}, space : BOOLEAN]

ParamInit == /\ argv \in Seqs!BoundedSeq(Options, MaxTyped) /\ optind = 0
             /\ config \in {"absent", "directory", "text"} /\ lines \in Seqs!BoundedSeq(Lines, MaxLines)
             /\ config # "text" => lines = <<>>
             /\ conf_para = [n \in Strings \cup Numbered |-> Default]
             /\ phase = "command line" /\ ss = 0

\* -h, and what is no option, print the usage, and the server starts all the same.
Para_CmdParse ==
    /\ phase = "command line"
    /\ IF optind = Len(argv) THEN phase' = "file" /\ UNCHANGED <<optind, conf_para>>
       ELSE LET o == argv[optind + 1] IN
            /\ optind' = optind + 1 /\ UNCHANGED phase
            /\ conf_para' = IF o.name = "Help" \/ o.colon THEN conf_para ELSE [conf_para EXCEPT ![o.name] = o.value]
    /\ UNCHANGED <<argv, config, lines, ss>>

\* The name is found by strncmp # 0: every name that is not CGIRoot sets CGIRoot, and CGIRoot sets DefaultFile.
\* With a test for 0 (mutant) a line would set what it names.
Setting_Equal(name) == IF name \in Strings \cup Numbered THEN {name} ELSE {}

Setting(name) == IF name = "#" THEN {} ELSE IF name = "CGIRoot" THEN {"DefaultFile"} ELSE {"CGIRoot"}

\* The value begins at the 0 that was just put behind the name, so that it is empty. Its end is looked for behind
\* that 0, and without a space there, or without a name, behind the line: a byte of other memory becomes 0.
Para_FileParse ==
    /\ phase = "file" /\ config = "text" /\ lines # <<>>
    /\ lines' = Tail(lines)
    /\ conf_para' = [n \in DOMAIN conf_para |-> IF n \in Setting(Head(lines).name) THEN Empty ELSE conf_para[n]]
    /\ phase' = IF Head(lines).name = "spaces" \/ ~Head(lines).space THEN "astray" ELSE phase
    /\ UNCHANGED <<argv, optind, config, ss>>

\* A file that cannot be read gives lines of zeros without end, and no name in them.
ReadsNothing == /\ phase = "file" /\ config = "directory" /\ phase' = "astray"
                /\ UNCHANGED <<argv, optind, config, lines, conf_para, ss>>

FileEnds == /\ phase = "file" /\ config # "directory" /\ lines = <<>> /\ phase' = "listen"
            /\ UNCHANGED <<argv, optind, config, lines, conf_para, ss>>

\* 1 stands for a socket; the caller does not look at the result.
do_listen == /\ phase = "listen" /\ ss' \in {1, -1, -2, -3} /\ phase' = "workers"
             /\ UNCHANGED <<argv, optind, config, lines, conf_para>>

ParamNext == Para_CmdParse \/ Para_FileParse \/ ReadsNothing \/ FileEnds \/ do_listen
ParamSpec == ParamInit /\ [][ParamNext]_paramVars
-----------------------------------------------------------------------------
\* The last value typed for a setting.
Typed(n) == LET given == {i \in 1 .. Len(argv) : argv[i].name = n /\ ~argv[i].colon} IN
            IF given = {} THEN Default ELSE argv[CHOOSE i \in given : \A j \in given : j <= i].value

(* When the workers start, the numbers are those of the command line, whatever the file says: so InitClient slots  *)
(* exist, as module WorkerPool assumes, unless the last -m asked for fewer. The file only empties settings, and no *)
(* more than CGIRoot and DefaultFile (shttpd_parameters.c:221-236).                                                *)
StartsAsTyped ==
    phase = "workers" =>
        /\ \A n \in DOMAIN conf_para : conf_para[n] # Typed(n) =>
               conf_para[n] = Empty /\ n \in {"CGIRoot", "DefaultFile"} /\ config = "text"
        /\ MaxClientOf(conf_para) < InitClient <=> Typed("MaxClient") # Default /\ Typed("MaxClient") < InitClient
=============================================================================
