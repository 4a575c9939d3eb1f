------------------------------ MODULE HttpRequest ------------------------------
(***************************************************************************)
(* The requests that one slot of the SHTTPD worker pool answers, one after *)
(* the other (LinuxCodeBak/Code/18: shttpd_request.c, shttpd_method.c,     *)
(* shttpd_mine.c, called by do_work): what WorkerPool has as the single    *)
(* step WorkHandle.  The slot's struct worker_conn is never reset, so what *)
(* one request leaves in it is there for the next, also the next client's. *)
(*                                                                         *)
(* Lengths and offsets are counted in units of which the buffer dres holds *)
(* Buf.  There is one regular file, which other programs may grow or cut,  *)
(* one directory, and names that do not exist.  Of the headers only Range  *)
(* is used.  The text of an answer is left out: an error answer sends      *)
(* again what dres holds, since Error_400 and the like are empty.  What a  *)
(* refused request stores of its method and name is never read, and is     *)
(* left out too.                                                           *)
(***************************************************************************)
EXTENDS Integers

CONSTANTS MaxSize,   \* a bound on the length of the file
          Buf,       \* the length of dres
          MaxFiles,  \* how many descriptors the process may still open
          Bounds,    \* the numbers that occur in a Range header
          Garbage    \* what r1 may hold when nothing was stored in it

ASSUME HttpAssumption ==
    /\ MaxSize \in Nat
    /\ Buf \in Nat \ {0}
    /\ MaxFiles \in Nat
    /\ Bounds \subseteq Nat
    /\ Garbage \subseteq Int /\ Garbage # {}

Methods  == {"GET", "POST", "PUT", "DELETE", "HEAD"}
Fds      == 1..MaxFiles
NoFd     == -1
Troubles == {"short", "failed", "cut"}
PC       == {"wait", "handle", "send", "read", "write", "spin", "crash"}

\* What sscanf(..., "bytes=%lu-%lu", &r1, &r2) makes of a text: how many of
\* its numbers it read, -1 for no text at all, and these numbers.
Scans == [read : {-1, 0}, first : {0}, last : {0}]
             \cup [read : {1}, first : Bounds, last : {0}]
             \cup [read : {2}, first : Bounds, last : Bounds]
Nothing == [read |-> -1, first |-> 0, last |-> 0]

VARIABLES
    size,     \* the length of the file
    opened,   \* the descriptors that are open to files
    pc,       \* where the worker is
    gone,     \* the client has closed its end
    method,   \* con_req.method
    version,  \* con_req.major and .minor are a version that is served
    seen,     \* con_req.ch.range has a length
    scan,     \* what sscanf makes of the text at con_req.ch.range
    err,      \* con_req.err
    fd, fsize,          \* con_res.fd, con_res.fsate.st_size
    status, cl,         \* con_res.status, con_res.cl
    left, off, n,       \* cl, the file offset and n of Request_Handle
    sent,     \* history: how much of the body went to the client
    lost,     \* history: descriptors of requests that were refused
    trouble   \* history: what went wrong since the request was accepted

fileVars == <<size, opened>>
reqVars  == <<method, version, seen, scan, err>>
resVars  == <<fd, fsize, status, cl>>
bodyVars == <<left, off, n, sent, trouble>>
vars == <<fileVars, pc, gone, reqVars, resVars, bodyVars, lost>>

TypeOK ==
    /\ size \in 0..MaxSize /\ opened \subseteq Fds
    /\ pc \in PC /\ gone \in BOOLEAN
    /\ method \in Methods
    /\ version \in BOOLEAN /\ seen \in BOOLEAN /\ scan \in Scans
    /\ err \in {0, 200, 400, 403, 404, 505}
    /\ fd \in Fds \cup {NoFd} /\ fsize \in 0..MaxSize
    /\ status \in {0, 200, 206} /\ cl \in Int
    /\ left \in Int /\ off \in Nat /\ n \in Int
    /\ sent \in Nat /\ lost \subseteq Fds /\ trouble \subseteq Troubles

\* Worker_Init clears the slot.
Init ==
    /\ size \in 0..MaxSize
    /\ opened = {}
    /\ pc = "wait"
    /\ gone = FALSE
    /\ method = "GET"
    /\ version = FALSE
    /\ seen = FALSE /\ scan = Nothing
    /\ err = 0
    /\ fd = NoFd /\ fsize = 0
    /\ status = 0 /\ cl = 0
    /\ left = 0 /\ off = 0 /\ n = 0
    /\ sent = 0 /\ lost = {} /\ trouble = {}

-----------------------------------------------------------------------------
(* Request_Parse.                                                            *)

Reads == pc = "wait" /\ ~gone

\* A null pointer is used: the process ends, and its descriptors with it.
Crash ==
    /\ pc' = "crash"
    /\ opened' = {} /\ lost' = {}
    /\ UNCHANGED <<size, gone, reqVars, resVars, bodyVars>>

\* There is no end of a line in what was read, and memchr returns NULL.
ParseCrash == Reads /\ Crash

\* 400: no known method, so nothing but err is stored.
RefuseMethod ==
    /\ Reads
    /\ err' = 400
    /\ UNCHANGED <<fileVars, pc, gone, method, version, seen, scan, resVars, bodyVars, lost>>

\* 404: open() fails, for a name that does not exist and for every name
\* when no descriptor is left.
RefuseMissing ==
    /\ Reads
    /\ err' = 404
    /\ fd' = NoFd
    /\ UNCHANGED <<fileVars, pc, gone, method, version, seen, scan, fsize, status, cl,
                   bodyVars, lost>>

\* open() returns the lowest free descriptor.
Open ==
    /\ fd' \in Fds \ opened
    /\ \A f \in Fds \ opened : fd' <= f
    /\ opened' = opened \cup {fd'}

\* 403: the directory stays open.  (What fstat stores of it is never read.)
RefuseDirectory ==
    /\ Reads
    /\ Open
    /\ err' = 403
    /\ lost' = lost \cup {fd'}
    /\ UNCHANGED <<size, pc, gone, method, version, seen, scan, fsize, status, cl, bodyVars>>

\* A text that is no version leaves the numbers of the last request.
ReadVersion == version' \in {TRUE, FALSE, version}

\* 505: the file stays open.
RefuseVersion ==
    /\ Reads
    /\ Open
    /\ fsize' = size
    /\ ReadVersion /\ ~version'
    /\ err' = 505
    /\ lost' = lost \cup {fd'}
    /\ UNCHANGED <<size, pc, gone, method, seen, scan, status, cl, bodyVars>>

\* Request_HeaderParse: a header that is not there leaves its value alone, so
\* a Range that came once points into the text of every later request.
ReadRange ==
    \/ seen' \in BOOLEAN /\ scan' \in Scans \* the header is there, perhaps with nothing in it
    \/ UNCHANGED seen /\ scan' \in IF seen THEN Scans ELSE {Nothing}

\* 200
Accept ==
    /\ Reads
    /\ Open
    /\ fsize' = size
    /\ ReadVersion /\ version'
    /\ ReadRange
    /\ method' \in Methods
    /\ err' = 200
    /\ pc' = "handle"
    /\ UNCHANGED <<size, gone, status, cl, bodyVars, lost>>

-----------------------------------------------------------------------------
(* Method_Do.                                                                *)

Handles(ms) == pc = "handle" /\ method \in ms

\* Mine_Type: without a dot in the URI a null pointer is moved on and read.
\* (Which of the three the URI has -- no dot, "html" after its first dot, or
\* something else -- matters only here, and is chosen here.)
MineCrash ==
    /\ Handles({"GET", "HEAD"})
    /\ Crash

\* Mine_Type: the loop looks at the first entry of its table for ever.
MineSpin ==
    /\ Handles({"GET", "HEAD"})
    /\ pc' = "spin"
    /\ UNCHANGED <<fileVars, gone, reqVars, resVars, bodyVars, lost>>

\* The status and length of an answer.  The number of values that were read
\* is kept unsigned, so that -1 is taken for a range too; r1 is then whatever
\* its memory held.
Range(s) ==
    \/ s.read = 0 /\ status' = 200 /\ cl' = fsize
    \/ s.read = 2 /\ status' = 206 /\ cl' = s.last - s.first + 1
    \/ s.read = 1 /\ status' = 206 /\ cl' = fsize - s.first
    \/ s.read = -1 /\ status' = 206 /\ \E r1 \in Garbage : cl' = fsize - r1

Get ==
    /\ Range(IF seen THEN scan ELSE Nothing)
    /\ pc' = "send"
    /\ UNCHANGED <<size, gone, reqVars, fsize, bodyVars, lost>>

DoGet == Handles({"GET"}) /\ Get /\ UNCHANGED <<opened, fd>>

DoHead ==
    /\ Handles({"HEAD"})
    /\ Get
    /\ opened' = opened \ {fd}
    /\ fd' = NoFd

\* The other methods do nothing: the answer is the last one once more, and
\* the file follows, as much of it as the last answer announced.
DoOther ==
    /\ Handles({"POST", "PUT", "DELETE"})
    /\ pc' = "send"
    /\ UNCHANGED <<fileVars, gone, reqVars, resVars, bodyVars, lost>>

-----------------------------------------------------------------------------
(* Request_Handle, after Method_Do.                                          *)

SendHeader ==
    /\ pc = "send" /\ fd # NoFd
    /\ left' = cl
    /\ off' = 0
    /\ pc' = "read"
    /\ UNCHANGED <<fileVars, gone, reqVars, resVars, n, sent, trouble, lost>>

\* Request_Handle returns: its variables and the file offset are gone.
Return ==
    /\ pc' = "wait"
    /\ left' = 0 /\ off' = 0 /\ n' = 0
    /\ sent' = 0 /\ trouble' = {}

\* There is no body.
SendOnly ==
    /\ pc = "send" /\ fd = NoFd
    /\ Return
    /\ UNCHANGED <<fileVars, gone, reqVars, resVars, lost>>

\* A bug: the two cases change places.
Want_Swapped == IF Buf > left THEN Buf ELSE left

\* How much read() is asked for.
Want == IF Buf > left THEN left ELSE Buf

\* At the end of the file n is 0, and the loop reads again.
BodyRead ==
    /\ pc = "read"
    /\ left > 0
    /\ n' = IF size <= off THEN 0 ELSE IF size - off < Want THEN size - off ELSE Want
    /\ off' = off + n'
    /\ pc' = IF n' > 0 THEN "write" ELSE "read"
    /\ UNCHANGED <<fileVars, gone, reqVars, resVars, left, sent, trouble, lost>>

\* A bug: the length of what was written is not taken from cl.
BodyWrite_NoDecrement ==
    /\ pc = "write"
    /\ n' \in 1..n
    /\ sent' = sent + n'
    /\ trouble' = IF n' < n THEN trouble \cup {"short"} ELSE trouble
    /\ pc' = "read"
    /\ UNCHANGED <<fileVars, gone, reqVars, resVars, left, off, lost>>

\* write() may take a part, and fails with -1 only when the client is gone
\* (the handler of SIGPIPE returns).
BodyWrite ==
    /\ pc = "write"
    /\ \/ /\ n' \in 1..n
          /\ sent' = sent + n'
          /\ trouble' = IF n' < n THEN trouble \cup {"short"} ELSE trouble
       \/ /\ gone
          /\ n' = -1
          /\ trouble' = trouble \cup {"failed"}
          /\ UNCHANGED sent
    /\ left' = left - n'
    /\ pc' = "read"
    /\ UNCHANGED <<fileVars, gone, reqVars, resVars, off, lost>>

\* A bug: the file is not closed.
BodyEnd_NoClose ==
    /\ pc = "read"
    /\ left <= 0
    /\ fd' = NoFd
    /\ Return
    /\ UNCHANGED <<size, opened, gone, reqVars, fsize, status, cl, lost>>

BodyEnd ==
    /\ pc = "read"
    /\ left <= 0
    /\ opened' = opened \ {fd}
    /\ fd' = NoFd
    /\ Return
    /\ UNCHANGED <<size, gone, reqVars, fsize, status, cl, lost>>

-----------------------------------------------------------------------------
(* The client and other programs.                                            *)

Hangup ==
    /\ ~gone
    /\ gone' = TRUE
    /\ UNCHANGED <<fileVars, pc, reqVars, resVars, bodyVars, lost>>

\* do_work reads the end of the connection and closes it; the slot is given
\* the next client.
NextClient ==
    /\ pc = "wait" /\ gone
    /\ gone' = FALSE
    /\ UNCHANGED <<fileVars, pc, reqVars, resVars, bodyVars, lost>>

FileChange ==
    /\ size' \in (0..MaxSize) \ {size}
    /\ trouble' = IF size' < size /\ pc # "wait" THEN trouble \cup {"cut"} ELSE trouble
    /\ UNCHANGED <<opened, pc, gone, reqVars, resVars, left, off, n, sent, lost>>

Parse  == ParseCrash \/ RefuseMethod \/ RefuseMissing \/ RefuseDirectory \/ RefuseVersion \/ Accept
Answer == MineCrash \/ MineSpin \/ DoGet \/ DoHead \/ DoOther
              \/ SendHeader \/ SendOnly \/ BodyRead \/ BodyWrite \/ BodyEnd
Next == Parse \/ Answer \/ Hangup \/ NextClient \/ FileChange

Spec == Init /\ [][Next]_vars
\* A worker that has a request goes on with it.
FairSpec == Spec /\ WF_vars(Answer)

-----------------------------------------------------------------------------
(* What the answers have to do with the requests.                            *)

\* Between two requests nothing is open but what refused requests left open,
\* and while one is answered con_res.fd is its own descriptor, open and none
\* of an earlier request's.  (Request_Parse stores the descriptor in a place
\* that outlives the request; Method_DoHead and Request_Handle both close it.)
DescriptorsBalance ==
    opened = lost \cup IF pc \in {"wait", "crash"} \/ fd = NoFd THEN {} ELSE {fd}

OwnDescriptor == pc # "wait" => fd \notin lost

\* When no write failed, what the client got is as long as con_res.cl says,
\* however the file changed meanwhile and in whatever parts it was written.
BodyAsPromised ==
    pc = "read" /\ left <= 0 /\ "failed" \notin trouble =>
        sent = IF cl > 0 THEN cl ELSE 0

\* An answer comes to its end, unless it promises more than the file holds,
\* the file was cut, or a write was short or failed: then the loop of
\* Request_Handle reads the end of the file for ever.
Answers == pc = "send" ~> pc = "wait" \/ cl > fsize \/ trouble # {}
=============================================================================
