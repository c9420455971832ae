------------------------------- MODULE Commands -------------------------------
(***************************************************************************)
(* The endpoints of the agent that run a tool: each request thread starts  *)
(* a process, reads its standard output to the end and, for a snapshot,    *)
(* serves a file whose name depends on the process id of the application   *)
(* only, so that all requests share it.  jstack prints the thread dump and *)
(* the request writes it to the file; jmap writes the heap dump itself.    *)
(* Nobody looks at the exit code of a tool: one that fails, or is killed,  *)
(* half-way prints and writes less.                                        *)
(*                                                                         *)
(* Source: ExecuteCmd, Jstack, Jmap, Jstat, CoreController and             *)
(* FileController of actuator-service.  What the endpoints make of the     *)
(* columns of jstat and jstack is in module Charts.                        *)
(***************************************************************************)
EXTENDS Integers, Sequences

CONSTANTS
    Requester,  \* request threads
    Asked,      \* bound: the endpoints that are asked
    Pipe,       \* what a pipe between two processes holds
    Size,       \* pieces of a dump
    MaxErr,     \* bound: what a tool writes to its error output
    MaxRuns     \* bound: requests

ASSUME CommandsAssumption ==
    /\ Pipe \in Nat \ {0} /\ Size \in Nat \ {0} /\ MaxErr \in Nat /\ MaxRuns \in Nat

VARIABLES
    pc,         \* where each request thread is
    run,        \* number of its request, or of the last one
    got,        \* result: what execute has read
    offset,     \* how much of the thread dump it has written
    child,      \* its process: what that has still to write, what is in the pipes
    file,       \* the two files
    answer,     \* history: the answer to its last request, until the next
    runs,       \* number of requests
    printed,    \* history: what its process prints in all
    left,       \* history: requests whose process was left running
    shared,     \* history: requests during which another one had the same file
    heap        \* history: the request whose process opened the heap dump, and how
                \* much that writes

history == <<runs, printed, left, shared, heap>>
vars == <<pc, run, got, offset, child, file, answer, history>>

Snapshot == {"threadDump", "heapDump"}
Endpoint == Snapshot \cup {"thread", "stat", "runexec"}     \* stat: /classload and /gc
Null == -1

ASSUME AskedAssumption == Asked \subseteq Endpoint

Gone == [out |-> 0, err |-> 0, opens |-> FALSE, dump |-> 0, stdout |-> 0, stderr |-> 0,
         alive |-> FALSE]
NoFile == [exists |-> FALSE, content |-> << >>]
Hole == 0
Pieces(n, r) == [i \in 1..n |-> r]     \* n pieces written for request r
NoAnswer == [op |-> "none"]
Idle == [op |-> "none", at |-> "idle"]

Init ==
    /\ pc = [p \in Requester |-> Idle]
    /\ run = [p \in Requester |-> 0] /\ got = [p \in Requester |-> 0]
    /\ offset = [p \in Requester |-> 0]
    /\ child = [p \in Requester |-> Gone]
    /\ file = [op \in Snapshot |-> NoFile]
    /\ answer = [p \in Requester |-> NoAnswer]
    /\ printed = [p \in Requester |-> 0]
    /\ runs = 0 /\ left = {} /\ shared = {} /\ heap = [run |-> 0, size |-> 0]

-----------------------------------------------------------------------------
(* ExecuteCmd.execute.                                                     *)

Goto(p, at) == pc' = [pc EXCEPT ![p].at = at]

\* After the tool: the answer, or the file.
After(op) == CASE op = "threadDump" -> "open" [] op = "heapDump" -> "send" [] OTHER -> "reply"

\* exec fails: execute returns null.
ExecFails(p) ==
    /\ Goto(p, After(pc[p].op))
    /\ got' = [got EXCEPT ![p] = Null]
    /\ printed' = [printed EXCEPT ![p] = 0]
    /\ UNCHANGED child

\* What the tool is going to do until it ends, fails or is killed: it prints, it
\* complains, and jmap, if there is no file of that name yet, writes one.  What
\* jmap prints is read and thrown away: it is left out.
Exec(p) ==
    /\ Goto(p, "exec")
    /\ \E out, dump \in 0..Size : \E err \in 0..MaxErr : \E opens \in BOOLEAN :
          /\ IF pc[p].op = "heapDump" THEN out = 0 ELSE ~opens
          /\ opens \/ dump = 0
          /\ child' = [child EXCEPT ![p] =
                [out |-> out, err |-> err, opens |-> opens, dump |-> dump,
                 stdout |-> 0, stderr |-> 0, alive |-> TRUE]]
          /\ printed' = [printed EXCEPT ![p] = out]
    /\ UNCHANGED got

Start(p) ==
    /\ pc[p].at = "start"
    /\ Exec(p) \/ ExecFails(p)
    /\ UNCHANGED <<run, offset, file, answer, runs, left, shared, heap>>

\* Mutant: waitFor before the output is read.
ReadLineAfterExit(p) ==
    /\ pc[p].at = "exec" /\ child[p].stdout > 0 /\ ~child[p].alive
    /\ child' = [child EXCEPT ![p].stdout = @ - 1]
    /\ got' = [got EXCEPT ![p] = @ + 1]
    /\ UNCHANGED <<pc, run, offset, file, answer, history>>

ReadLine(p) ==
    /\ pc[p].at = "exec" /\ child[p].stdout > 0
    /\ child' = [child EXCEPT ![p].stdout = @ - 1]
    /\ got' = [got EXCEPT ![p] = @ + 1]
    /\ UNCHANGED <<pc, run, offset, file, answer, history>>

\* readLine throws: execute returns null, and leaves the process running.
ReadFails(p) ==
    /\ pc[p].at = "exec"
    /\ Goto(p, After(pc[p].op))
    /\ got' = [got EXCEPT ![p] = Null]
    /\ left' = left \cup {run[p]}
    /\ UNCHANGED <<run, offset, child, file, answer, runs, printed, shared, heap>>

\* Mutant: the process is destroyed before its output is read to the end.
DestroyAtOnce(p) ==
    /\ pc[p].at = "exec"
    /\ child' = [child EXCEPT ![p] = Gone]
    /\ Goto(p, After(pc[p].op))
    /\ UNCHANGED <<run, got, offset, file, answer, history>>

\* readLine returns null at the end of the output: the process has ended.
Destroy(p) ==
    /\ pc[p].at = "exec" /\ child[p].stdout = 0 /\ ~child[p].alive
    /\ child' = [child EXCEPT ![p] = Gone]
    /\ Goto(p, After(pc[p].op))
    /\ UNCHANGED <<run, got, offset, file, answer, history>>

-----------------------------------------------------------------------------
(* The process.                                                            *)

\* It blocks on a pipe that is full; nobody reads the error output.
WriteOut(p) ==
    /\ child[p].out > 0 /\ child[p].stdout < Pipe
    /\ child' = [child EXCEPT ![p].out = @ - 1, ![p].stdout = @ + 1]
    /\ UNCHANGED <<pc, run, got, offset, file, answer, history>>

Complain(p) ==
    /\ child[p].err > 0 /\ child[p].stderr < Pipe
    /\ child' = [child EXCEPT ![p].err = @ - 1, ![p].stderr = @ + 1]
    /\ UNCHANGED <<pc, run, got, offset, file, answer, history>>

\* jmap: it refuses a file that exists.
HeapCreate(p) ==
    /\ child[p].opens
    /\ IF file["heapDump"].exists
         THEN /\ child' = [child EXCEPT ![p].opens = FALSE, ![p].dump = 0]
              /\ UNCHANGED <<file, heap>>
         ELSE /\ file' = [file EXCEPT !["heapDump"] = [exists |-> TRUE, content |-> << >>]]
              /\ child' = [child EXCEPT ![p].opens = FALSE]
              /\ heap' = [run |-> run[p], size |-> child[p].dump]
    /\ UNCHANGED <<pc, run, got, offset, answer, runs, printed, left, shared>>

HeapWrite(p) ==
    /\ ~child[p].opens /\ child[p].dump > 0
    /\ file' = [file EXCEPT !["heapDump"].content = Append(@, run[p])]
    /\ child' = [child EXCEPT ![p].dump = @ - 1]
    /\ UNCHANGED <<pc, run, got, offset, answer, history>>

\* Nothing stays of a process that nobody reads.
Exit(p) ==
    /\ child[p].alive /\ child[p].out = 0 /\ child[p].err = 0
    /\ ~child[p].opens /\ child[p].dump = 0
    /\ child' = [child EXCEPT ![p] = IF pc[p].at = "exec" THEN [@ EXCEPT !.alive = FALSE] ELSE Gone]
    /\ UNCHANGED <<pc, run, got, offset, file, answer, history>>

-----------------------------------------------------------------------------
(* The endpoints.                                                          *)

\* Another request for the same file is under way.
Together(p, op) == {q \in Requester \ {p} : pc[q].op = op /\ op \in Snapshot}

\* A thread whose process was left running gets no further request: others do.
Request(p, op) ==
    /\ pc[p] = Idle /\ child[p] = Gone /\ runs < MaxRuns
    /\ runs' = runs + 1
    /\ pc' = [pc EXCEPT ![p] = [op |-> op, at |-> "start"]]
    /\ run' = [run EXCEPT ![p] = runs + 1]
    /\ answer' = [answer EXCEPT ![p] = NoAnswer]
    /\ shared' = IF Together(p, op) = {} THEN shared
                 ELSE shared \cup {runs + 1} \cup {run[q] : q \in Together(p, op)}
    /\ UNCHANGED <<got, offset, child, file, printed, left, heap>>

\* Mutant: the file is not truncated.
OpenAppends(p) ==
    /\ pc[p].at = "open"
    /\ file' = [file EXCEPT !["threadDump"].exists = TRUE]
    /\ Goto(p, "write")
    /\ UNCHANGED <<run, got, offset, child, answer, history>>

\* Jstack.dump: FileUtils.write truncates the file and writes what was read, if
\* anything, from the start.
OpenFile(p) ==
    /\ pc[p].at = "open"
    /\ file' = [file EXCEPT !["threadDump"] = [exists |-> TRUE, content |-> << >>]]
    /\ Goto(p, "write")
    /\ UNCHANGED <<run, got, offset, child, answer, history>>

Max2(m, n) == IF m > n THEN m ELSE n

\* Each writer has an offset of its own.
Put(content, i, r) ==
    [k \in 1..Max2(i, Len(content)) |->
        IF k = i THEN r ELSE IF k <= Len(content) THEN content[k] ELSE Hole]

\* Mutant: the file is written in append mode.
WriteAppends(p) ==
    /\ pc[p].at = "write" /\ offset[p] < got[p]
    /\ offset' = [offset EXCEPT ![p] = @ + 1]
    /\ file' = [file EXCEPT !["threadDump"].content = Append(@, run[p])]
    /\ UNCHANGED <<pc, run, got, child, answer, history>>

WriteFile(p) ==
    /\ pc[p].at = "write" /\ offset[p] < got[p]
    /\ offset' = [offset EXCEPT ![p] = @ + 1]
    /\ file' = [file EXCEPT !["threadDump"].content = Put(@, offset[p] + 1, run[p])]
    /\ UNCHANGED <<pc, run, got, child, answer, history>>

CloseFile(p) ==
    /\ pc[p].at = "write" /\ offset[p] >= got[p]
    /\ Goto(p, "send")
    /\ UNCHANGED <<run, got, offset, child, file, answer, history>>

Answers(p, content, ok) ==
    /\ answer' = [answer EXCEPT ![p] =
          [op |-> pc[p].op, run |-> run[p], content |-> content, ok |-> ok]]
    /\ pc' = [pc EXCEPT ![p] = Idle]
    /\ got' = [got EXCEPT ![p] = 0]
    /\ offset' = [offset EXCEPT ![p] = 0]
    /\ UNCHANGED <<run, child, file, history>>

\* heapDump, threadDump: the bytes of the file; without it an exception.
Send(p) ==
    /\ pc[p].at = "send"
    /\ Answers(p, file[pc[p].op].content, file[pc[p].op].exists)

\* FileUtils throws an IOException, which is answered as an error: the file cannot
\* be opened, or not be written to the end, or not be read.
FileError(p) ==
    /\ pc[p].at \in {"open", "write", "send"}
    /\ Answers(p, << >>, FALSE)

\* runexec answers with whatever it has; thread counts words in the output, and
\* in an empty one finds none; the columns of an empty output make stat an error.
Reply(p) ==
    /\ pc[p].at = "reply"
    /\ Answers(p, Pieces(got[p], run[p]),
               CASE pc[p].op = "runexec" -> TRUE
                 [] pc[p].op = "thread" -> got[p] # Null
                 [] pc[p].op = "stat" -> got[p] \notin {Null, 0})

-----------------------------------------------------------------------------
Serve(p) ==
    Start(p) \/ ReadLine(p) \/ Destroy(p) \/ OpenFile(p) \/ WriteFile(p) \/ CloseFile(p)
      \/ Send(p) \/ Reply(p)
Tool(p) == WriteOut(p) \/ Complain(p) \/ HeapCreate(p) \/ HeapWrite(p) \/ Exit(p)

Fails(p) == ReadFails(p) \/ FileError(p)

Next == \E p \in Requester : Serve(p) \/ Fails(p) \/ Tool(p) \/ \E op \in Asked : Request(p, op)

Spec == Init /\ [][Next]_vars

\* Threads and tools run on, unless they are blocked; the command of runexec may be
\* one that never ends.
FairSpec ==
    Spec /\ \A p \in Requester : WF_vars(Serve(p)) /\ WF_vars(pc[p].op # "runexec" /\ Tool(p))

-----------------------------------------------------------------------------
(* Properties.                                                             *)

TypeOK ==
    /\ pc \in [Requester -> {Idle} \cup [op : Endpoint, at : {"start", "exec", "open", "write",
                                                              "send", "reply"}]]
    /\ run \in [Requester -> 0..MaxRuns] /\ got \in [Requester -> Null..Size]
    /\ offset \in [Requester -> 0..Size]
    /\ child \in [Requester -> [out : 0..Size, err : 0..MaxErr, opens : BOOLEAN, dump : 0..Size,
                                stdout : 0..Pipe, stderr : 0..Pipe, alive : BOOLEAN]]
    /\ file \in [Snapshot -> [exists : BOOLEAN, content : Seq(0..MaxRuns)]]
    /\ \A op \in Snapshot : Len(file[op].content) <= Size
    /\ answer \in [Requester -> {NoAnswer} \cup [op : Endpoint, run : 1..MaxRuns, ok : BOOLEAN,
                                                 content : Seq(0..MaxRuns)]]
    /\ runs \in 0..MaxRuns /\ printed \in [Requester -> 0..Size]
    /\ left \subseteq 1..MaxRuns /\ shared \subseteq 1..MaxRuns
    /\ heap \in [run : 0..MaxRuns, size : 0..Size]

\* A thread dump that is downloaded is what jstack printed for the request, be that
\* the whole dump or not, and nothing if it could not be read to the end; never an
\* older one, whatever was left of that, and whatever fails, as long as no other
\* request wants a thread dump at the same time.
ThreadDumpOwn ==
    \A p \in Requester :
        answer[p].op = "threadDump" /\ answer[p].ok /\ answer[p].run \notin shared =>
            answer[p].content =
                Pieces(IF answer[p].run \in left THEN 0 ELSE printed[p], answer[p].run)

\* Every heap dump that is downloaded is, or begins, the one that was taken first,
\* however old that is and however little of it was written.  A request that no
\* other one disturbs gets all of that, unless its jmap was left running.
HeapDumpFirst ==
    \A p \in Requester : answer[p].op = "heapDump" /\ answer[p].ok =>
        /\ \E n \in 0..heap.size : answer[p].content = Pieces(n, heap.run)
        /\ answer[p].run \notin shared /\ heap.run \notin left =>
              answer[p].content = Pieces(heap.size, heap.run)

\* A tool whose complaints fit into the pipe ends, and so does its request, however
\* much it prints.
CommandEnds ==
    \A p \in Requester :
        (/\ pc[p].at = "exec" /\ pc[p].op # "runexec"
         /\ child[p].err + child[p].stderr <= Pipe) ~> pc[p].at # "exec"
=============================================================================
