------------------------------ MODULE LogReader ------------------------------
(***************************************************************************)
(* The log reader of the monitored application (actuator-service): each    *)
(* /actuator/info/logReader request reads what was appended to the log     *)
(* file since the last time into a static bounded queue, and then takes    *)
(* one line from the queue.  Offset and queue are shared by all request    *)
(* threads without any lock.                                               *)
(*                                                                         *)
(* Source: com.github.qinxuewu.utils.LogReaderUtils and                    *)
(* CoreController.logred.  Lines are numbered in the order in which they   *)
(* are written, file sizes are counted in lines; the log is rotated by     *)
(* renaming the file, so that an open one keeps its lines.                 *)
(***************************************************************************)
EXTENDS Naturals, Sequences

CONSTANTS
    Poller,         \* request threads of the application's web server
    Capacity,       \* of the queue, 10000 in the code
    MaxLines,       \* bound: lines the application writes
    MaxFiles        \* bound: files the log is written to

ASSUME BoundsAssumption == Capacity \in Nat \ {0} /\ MaxLines \in Nat /\ MaxFiles \in Nat \ {0}

VARIABLES
    files,              \* the log files, the last one is written to
    written,            \* number of lines written to all of them
    lastTimeFileSize,
    query,              \* the queue
    pc,                 \* where each request thread is
    size,               \* its local len
    handle,             \* its open file: which one and the next line to read
    newest,             \* history: the line answered last
    taken,              \* history: the lines answered
    late,               \* history: lines written to a file between the end a
                        \* thread has read up to and its call of length()
    failed,             \* history: a poll has failed on the full queue
    broken,             \* history: an I/O error has left lines of the file queued
                        \* that do not count as read
    shared              \* history: two threads were in run at the same time

static == <<lastTimeFileSize, query>>
local == <<pc, size, handle>>
history == <<newest, taken, late, failed, broken, shared>>
log == <<files, written>>
vars == <<log, static, local, history>>

Line == 1..MaxLines
Current == Len(files)
Length(g) == Len(files[g])
Queued(i) == \E k \in 1..Len(query) : query[k] = i

Pcs == {"idle", "length", "shrunk", "grown", "seek", "read", "mark", "caught", "take"}
Handles == [file : 1..MaxFiles, next : 1..(MaxLines + 1)]

TypeOK ==
    /\ files \in Seq(Seq(Line)) /\ Current \in 1..MaxFiles
    /\ written \in 0..MaxLines
    /\ lastTimeFileSize \in 0..MaxLines
    /\ query \in Seq(Line) /\ Len(query) <= Capacity
    /\ pc \in [Poller -> Pcs]
    /\ size \in [Poller -> 0..MaxLines]
    /\ handle \in [Poller -> Handles]
    /\ newest \in 0..MaxLines /\ taken \subseteq Line /\ late \subseteq Line
    /\ failed \in BOOLEAN /\ broken \in BOOLEAN /\ shared \in BOOLEAN

\* The application starts, with a log file that may already have lines.
Init ==
    /\ written \in 0..MaxLines
    /\ files = << [i \in 1..written |-> i] >>
    /\ lastTimeFileSize = 0
    /\ query = << >>
    /\ pc = [p \in Poller |-> "idle"]
    /\ size = [p \in Poller |-> 0]
    /\ handle = [p \in Poller |-> [file |-> 1, next |-> 1]]
    /\ newest = 0 /\ taken = {} /\ late = {}
    /\ failed = FALSE /\ broken = FALSE /\ shared = FALSE

-----------------------------------------------------------------------------
(* The application and its logging library.                                *)

Write ==
    /\ written < MaxLines
    /\ written' = written + 1
    /\ files' = [files EXCEPT ![Current] = Append(@, written + 1)]
    /\ late' = IF \E p \in Poller : pc[p] = "mark" /\ handle[p].file = Current
                 THEN late \cup {written + 1} ELSE late
    /\ UNCHANGED <<static, local, newest, taken, failed, broken, shared>>

Rotate ==
    /\ Current < MaxFiles
    /\ files' = Append(files, << >>)
    /\ UNCHANGED <<written, static, local, history>>

-----------------------------------------------------------------------------
(* poll: run, then take.                                                   *)

NoHandle == [file |-> 1, next |-> 1]

\* The request is answered; the locals of the thread are gone.
Answered(p) ==
    /\ pc' = [pc EXCEPT ![p] = "idle"]
    /\ size' = [size EXCEPT ![p] = 0]
    /\ handle' = [handle EXCEPT ![p] = NoHandle]

Running(p) == pc[p] \notin {"idle", "take"}

Request(p) ==
    /\ pc[p] = "idle"
    /\ pc' = [pc EXCEPT ![p] = "length"]
    /\ shared' = (shared \/ \E q \in Poller : Running(q))
    /\ UNCHANGED <<log, static, size, handle, newest, taken, late, failed, broken>>

\* long len = logFile.length()
ReadLength(p) ==
    /\ pc[p] = "length"
    /\ size' = [size EXCEPT ![p] = Length(Current)]
    /\ pc' = [pc EXCEPT ![p] = "shrunk"]
    /\ UNCHANGED <<log, static, handle, history>>

\* Each test, and the seek, reads the offset anew: another thread may have
\* changed it in between.
CompareShrunk(p) ==
    /\ pc[p] = "shrunk"
    /\ \/ /\ size[p] < lastTimeFileSize
          /\ lastTimeFileSize' = size[p]
          /\ pc' = [pc EXCEPT ![p] = "take"]
       \/ /\ size[p] >= lastTimeFileSize
          /\ pc' = [pc EXCEPT ![p] = "grown"]
          /\ UNCHANGED lastTimeFileSize
    /\ UNCHANGED <<log, query, size, handle, history>>

\* Mutant: a file that has grown is taken for one that is as before.
GrownIgnored(p) ==
    /\ pc[p] = "grown"
    /\ pc' = [pc EXCEPT ![p] = "take"]
    /\ UNCHANGED <<log, static, size, handle, history>>

CompareGrown(p) ==
    /\ pc[p] = "grown"
    /\ pc' = [pc EXCEPT ![p] = IF size[p] > lastTimeFileSize THEN "seek" ELSE "take"]
    /\ UNCHANGED <<log, static, size, handle, history>>

\* The file is opened by its name.
Seek(p) ==
    /\ pc[p] = "seek"
    /\ handle' = [handle EXCEPT ![p] = [file |-> Current, next |-> lastTimeFileSize + 1]]
    /\ pc' = [pc EXCEPT ![p] = "read"]
    /\ UNCHANGED <<log, static, size, history>>

\* Mutant: offer in place of add, which leaves the line out.
OfferLine(p) ==
    /\ pc[p] = "read"
    /\ LET f == files[handle[p].file]
           i == handle[p].next
       IN  IF i > Len(f)
             THEN pc' = [pc EXCEPT ![p] = "mark"] /\ UNCHANGED <<query, handle>>
             ELSE /\ query' = IF Len(query) < Capacity THEN Append(query, f[i]) ELSE query
                  /\ handle' = [handle EXCEPT ![p].next = i + 1]
                  /\ UNCHANGED pc
    /\ UNCHANGED <<log, lastTimeFileSize, size, history>>

\* One turn of the loop.  add throws on a full queue; nothing but the caller,
\* which answers an error, catches that.
ReadLine(p) ==
    /\ pc[p] = "read"
    /\ LET f == files[handle[p].file]
           i == handle[p].next
       IN  \/ /\ i > Len(f)
              /\ pc' = [pc EXCEPT ![p] = "mark"]
              /\ UNCHANGED <<query, size, handle, failed>>
           \/ /\ i <= Len(f) /\ Len(query) < Capacity
              /\ query' = Append(query, f[i])
              /\ handle' = [handle EXCEPT ![p].next = i + 1]
              /\ UNCHANGED <<pc, size, failed>>
           \/ /\ i <= Len(f) /\ Len(query) = Capacity
              /\ Answered(p)
              /\ failed' = TRUE
              /\ UNCHANGED query
    /\ UNCHANGED <<log, lastTimeFileSize, newest, taken, late, broken, shared>>

\* Mutants: the offset becomes the next line to read, or stays.
MarkNext(p) ==
    /\ pc[p] = "mark"
    /\ lastTimeFileSize' = handle[p].next
    /\ pc' = [pc EXCEPT ![p] = "take"]
    /\ UNCHANGED <<log, query, size, handle, history>>
MarkForgotten(p) ==
    /\ pc[p] = "mark"
    /\ pc' = [pc EXCEPT ![p] = "take"]
    /\ UNCHANGED <<log, static, size, handle, history>>

\* lastTimeFileSize = randomFile.length()
Mark(p) ==
    /\ pc[p] = "mark"
    /\ lastTimeFileSize' = Length(handle[p].file)
    /\ pc' = [pc EXCEPT ![p] = "take"]
    /\ UNCHANGED <<log, query, size, handle, history>>

\* run catches an IOException and returns as if it had read.  The file cannot be
\* opened, or not be sought: the lines that a poll has queued before it failed on
\* the full queue, if one has, lie above the offset.
OpenFails(p) ==
    /\ pc[p] = "seek"
    /\ pc' = [pc EXCEPT ![p] = "caught"]
    /\ broken' = (broken \/ failed)
    /\ UNCHANGED <<log, static, size, handle, newest, taken, late, failed, shared>>

\* readLine or the second length() fails: what was queued stays queued, the
\* offset stays where it was.
ReadFails(p) ==
    /\ pc[p] \in {"read", "mark"}
    /\ pc' = [pc EXCEPT ![p] = "caught"]
    /\ broken' = TRUE
    /\ UNCHANGED <<log, static, size, handle, newest, taken, late, failed, shared>>

PrintStackTrace(p) ==
    /\ pc[p] = "caught"
    /\ pc' = [pc EXCEPT ![p] = "take"]
    /\ UNCHANGED <<log, static, size, handle, history>>

\* query.take(), which waits for a line, and the answer.
Take(p) ==
    /\ pc[p] = "take" /\ query # << >>
    /\ query' = Tail(query)
    /\ newest' = Head(query)
    /\ taken' = taken \cup {Head(query)}
    /\ Answered(p)
    /\ UNCHANGED <<log, lastTimeFileSize, late, failed, broken, shared>>

Handle(p) ==
    \/ ReadLength(p) \/ CompareShrunk(p) \/ CompareGrown(p) \/ Seek(p)
    \/ ReadLine(p) \/ Mark(p) \/ PrintStackTrace(p) \/ Take(p)

Fails(p) == OpenFails(p) \/ ReadFails(p)

Next == Write \/ Rotate \/ \E p \in Poller : Request(p) \/ Handle(p) \/ Fails(p)

Spec == Init /\ [][Next]_vars

\* A request thread runs on unless take blocks it.
FairSpec == Spec /\ \A p \in Poller : WF_vars(Handle(p))

\* The browser asks again and again.
AskingSpec == FairSpec /\ \A p \in Poller : WF_vars(Request(p))

-----------------------------------------------------------------------------
(* Properties.                                                             *)

\* The lines are answered in the order in which they were written, none twice,
\* across rotations, as long as no two threads were in run at the same time, the
\* queue was never full and no I/O error came in the middle of the lines; any
\* number of threads may wait in take, and the log may fail to open.
InOrder ==
    LET s == <<newest>> \o query
    IN  ~failed /\ ~broken /\ ~shared => \A i, j \in 1..Len(s) : i < j => s[i] < s[j]

\* Of the part of the file that counts as read no line is lost, except those
\* written between the end a thread has read up to and its call of length();
\* this holds for overlapping requests, after failed ones and after I/O errors
\* too, as long as the log is not rotated.
OnlyLateLinesLost ==
    Current = 1 => \A i \in 1..lastTimeFileSize : i \in taken \cup late \/ Queued(i)

\* A request that finds lines it has not read gets somebody answered, however
\* many others wait in take (set W): itself, if none of them takes its lines.
\* Only a rotation, an I/O error or a request that comes to overlap it excuses it.
Unread == Length(Current) > lastTimeFileSize
Beside(p, W) ==
    Current = 1 /\ \A q \in Poller \ {p} : pc[q] = IF q \in W THEN "take" ELSE "idle"
UnreadAnswered ==
    \A p \in Poller : \A W \in SUBSET (Poller \ {p}) :
        (pc[p] = "length" /\ Unread /\ Beside(p, W))
            ~> (pc[p] \in {"idle", "caught"} \/ ~Beside(p, W))
=============================================================================
