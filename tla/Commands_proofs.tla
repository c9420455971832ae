---------------------------- MODULE Commands_proofs ----------------------------
(***************************************************************************)
(* Theorems of Commands, for any number of request threads, any size of    *)
(* dumps and pipes, and any number of requests.                            *)
(***************************************************************************)
EXTENDS Commands, TLAPS

-----------------------------------------------------------------------------
(* Contents.                                                               *)

USE DEF history

LEMMA PiecesType ==
    ASSUME NEW n \in Nat, NEW S, NEW r \in S
    PROVE  Pieces(n, r) \in Seq(S) /\ Len(Pieces(n, r)) = n
  BY DEF Pieces

LEMMA NoPieces == ASSUME NEW r PROVE Pieces(0, r) = << >>
  BY DEF Pieces

LEMMA AppendPiece ==
    ASSUME NEW n \in Nat, NEW r PROVE Append(Pieces(n, r), r) = Pieces(n + 1, r)
  BY DEF Pieces

\* A writer whose content is its own adds a piece.
LEMMA PutPiece ==
    ASSUME NEW n \in Nat, NEW r PROVE Put(Pieces(n, r), n + 1, r) = Pieces(n + 1, r)
  BY DEF Pieces, Put, Max2

LEMMA PutType ==
    ASSUME NEW c \in Seq(0..MaxRuns), Len(c) <= Size, NEW i \in 1..Size, NEW r \in 0..MaxRuns
    PROVE  Put(c, i, r) \in Seq(0..MaxRuns) /\ Len(Put(c, i, r)) <= Size
  BY CommandsAssumption DEF Put, Max2, Hole

-----------------------------------------------------------------------------
(* The invariant.                                                          *)

Step(p) == Serve(p) \/ Fails(p) \/ Tool(p) \/ \E op \in Asked : Request(p, op)

\* What request p has read, written and left running: nothing before the tool is
\* started, part of the output while it runs, all of it afterwards, or nothing if it
\* could not be started or read.
ReadingOf(p) ==
    /\ pc[p].at = "start" => child[p] = Gone
    /\ pc[p].at # "exec" => child[p] = Gone \/ run[p] \in left
    /\ pc[p].at \in {"start", "exec"} => run[p] \notin left
    /\ pc[p].at \in {"idle", "start"} => got[p] = 0
    /\ pc[p].at = "exec" => got[p] # Null /\ got[p] + child[p].stdout + child[p].out = printed[p]
    /\ pc[p].at \in {"open", "write", "send", "reply"} =>
          IF got[p] = Null THEN printed[p] = 0 \/ run[p] \in left
                           ELSE printed[p] = got[p] /\ run[p] \notin left
    /\ pc[p].at \notin {"write", "send"} => offset[p] = 0
    /\ offset[p] = 0 \/ offset[p] <= got[p]
    /\ ~child[p].alive => child[p].out = 0 /\ child[p].dump = 0 /\ ~child[p].opens
    /\ pc[p].at = "exec" /\ (child[p].dump > 0 \/ child[p].opens) => pc[p].op = "heapDump"
    /\ pc[p].at \in {"open", "write"} => pc[p].op = "threadDump"
    /\ pc[p].at = "send" => pc[p].op \in Snapshot
    /\ pc[p].at = "reply" => pc[p].op \notin Snapshot
    /\ pc[p].at # "idle" => run[p] \in 1..runs
Reading == \A p \in Requester : ReadingOf(p)

\* Every request has its number, and its answer bears it.
Numbered ==
    /\ left \subseteq 1..runs
    /\ \A p \in Requester : run[p] \in 0..runs
    /\ \A p, q \in Requester : p # q => run[p] # run[q] \/ run[p] = 0
    /\ \A p \in Requester : pc[p].at # "idle" => answer[p].op = "none"
    /\ \A p \in Requester : answer[p].op # "none" => answer[p].run = run[p]

\* One process at most is in the middle of a heap dump; otherwise the file has all
\* that its process was to write, if there is a file.
Writing(p) == ~child[p].opens /\ child[p].dump > 0
Heap ==
    LET f == file["heapDump"]
    IN  /\ ~f.exists => f.content = << >> /\ \A p \in Requester : ~Writing(p)
        /\ f.exists /\ (\A p \in Requester : ~Writing(p)) => f.content = Pieces(heap.size, heap.run)
        /\ \A p \in Requester : Writing(p) =>
              /\ run[p] = heap.run /\ child[p].dump <= heap.size
              /\ f.content = Pieces(heap.size - child[p].dump, heap.run)
        /\ \A p, q \in Requester : Writing(p) /\ Writing(q) => p = q

\* Requests that have the same file know it.
Exclusive ==
    \A p, q \in Requester : p # q /\ pc[p].op = pc[q].op /\ pc[p].op \in Snapshot => run[p] \in shared

\* The thread dump of a request that has the file for itself is what it wrote.
Dump ==
    \A p \in Requester : pc[p].op = "threadDump" /\ run[p] \notin shared =>
        LET f == file["threadDump"]
        IN  /\ pc[p].at = "write" => f.exists /\ f.content = Pieces(offset[p], run[p])
            /\ pc[p].at = "send" => /\ f.exists
                                    /\ f.content = Pieces(IF got[p] = Null THEN 0 ELSE got[p], run[p])

\* A heap dump that was answered is still there.
Kept == \A p \in Requester : answer[p].op = "heapDump" /\ answer[p].ok => file["heapDump"].exists

-----------------------------------------------------------------------------
(* Steps.                                                                  *)

LEMMA Types ==
    ASSUME TypeOK, NEW p \in Requester
    PROVE  /\ child[p].out \in 0..Size /\ child[p].err \in 0..MaxErr /\ child[p].dump \in 0..Size
           /\ child[p].stdout \in 0..Pipe /\ child[p].stderr \in 0..Pipe /\ child[p].alive \in BOOLEAN
           /\ child[p].opens \in BOOLEAN /\ printed[p] \in 0..Size
           /\ heap.run \in 0..MaxRuns /\ heap.size \in 0..Size
           /\ got[p] \in Null..Size /\ offset[p] \in 0..Size /\ run[p] \in 0..MaxRuns
           /\ pc[p].op \in {"none"} \cup Endpoint
           /\ pc[p].at \in {"idle", "start", "exec", "open", "write", "send", "reply"}
           /\ Size \in Nat \ {0} /\ Pipe \in Nat \ {0} /\ MaxErr \in Nat /\ MaxRuns \in Nat
           /\ runs \in Nat /\ runs <= MaxRuns
<1>1. pc[p] \in {Idle} \cup [op : Endpoint, at : {"start", "exec", "open", "write", "send", "reply"}]
  BY DEF TypeOK
<1> QED
  BY <1>1, CommandsAssumption DEF TypeOK, Idle

\* A step of one request leaves the others alone.
LEMMA OthersStay ==
    ASSUME TypeOK, NEW p \in Requester, Step(p), NEW q \in Requester, q # p
    PROVE  /\ pc'[q] = pc[q] /\ run'[q] = run[q] /\ got'[q] = got[q]
           /\ offset'[q] = offset[q] /\ child'[q] = child[q] /\ answer'[q] = answer[q]
           /\ printed'[q] = printed[q]
<1>1. CASE Serve(p)
  <2>1. CASE Start(p)
    BY <2>1 DEF Start, Exec, ExecFails, Goto, TypeOK
  <2>2. CASE ReadLine(p) \/ Destroy(p)
    BY <2>2 DEF ReadLine, Destroy, Goto, TypeOK
  <2>3. CASE OpenFile(p) \/ WriteFile(p) \/ CloseFile(p)
    BY <2>3 DEF OpenFile, WriteFile, CloseFile, Goto, TypeOK
  <2>4. CASE Send(p) \/ Reply(p)
    BY <2>4 DEF Send, Reply, Answers, TypeOK
  <2> QED
    BY <1>1, <2>1, <2>2, <2>3, <2>4 DEF Serve
<1>2. CASE Tool(p)
  BY <1>2 DEF Tool, WriteOut, Complain, HeapCreate, HeapWrite, Exit, TypeOK
<1>3. CASE \E op \in Asked : Request(p, op)
  BY <1>3 DEF Request, TypeOK
<1>4. CASE Fails(p)
  BY <1>4 DEF Fails, ReadFails, FileError, Answers, Goto, TypeOK
<1> QED
  BY <1>1, <1>2, <1>3, <1>4 DEF Step

\* Requests are counted, and what was shared stays so.
LEMMA Counting ==
    ASSUME TypeOK, NEW p \in Requester, Step(p)
    PROVE  runs' \in Nat /\ runs <= runs' /\ shared \subseteq shared'
<1>0. MaxRuns \in Nat
  BY CommandsAssumption
<1>1. runs \in Nat
  <2>1. runs \in 0..MaxRuns
    BY DEF TypeOK
  <2> QED
    BY <1>0, <2>1
<1>2. CASE Serve(p)
  <2>1. UNCHANGED <<runs, shared>>
    <3>1. CASE Start(p) \/ ReadLine(p) \/ Destroy(p)
      BY <3>1 DEF Start, ReadLine, Destroy
    <3>2. CASE OpenFile(p) \/ WriteFile(p) \/ CloseFile(p)
      BY <3>2 DEF OpenFile, WriteFile, CloseFile
    <3>3. CASE Send(p) \/ Reply(p)
      BY <3>3 DEF Send, Reply, Answers
    <3> QED
      BY <1>2, <3>1, <3>2, <3>3 DEF Serve
  <2> QED
    BY <1>1, <2>1
<1>3. CASE Tool(p)
  BY <1>1, <1>3 DEF Tool, WriteOut, Complain, HeapCreate, HeapWrite, Exit
<1>4. CASE \E op \in Asked : Request(p, op)
  BY <1>1, <1>4 DEF Request
<1>5. CASE Fails(p)
  BY <1>1, <1>5 DEF Fails, ReadFails, FileError, Answers
<1> QED
  BY <1>2, <1>3, <1>4, <1>5 DEF Step

\* Only a process that is left running makes one more of these.
LEMMA Leaving ==
    ASSUME TypeOK, NEW p \in Requester, Step(p)
    PROVE  left' = left \/ (left' = left \cup {run[p]} /\ ReadFails(p))
<1>1. CASE Serve(p)
  <2>1. CASE Start(p) \/ ReadLine(p) \/ Destroy(p)
    BY <2>1 DEF Start, ReadLine, Destroy
  <2>2. CASE OpenFile(p) \/ WriteFile(p) \/ CloseFile(p)
    BY <2>2 DEF OpenFile, WriteFile, CloseFile
  <2>3. CASE Send(p) \/ Reply(p)
    BY <2>3 DEF Send, Reply, Answers
  <2> QED
    BY <1>1, <2>1, <2>2, <2>3 DEF Serve
<1>2. CASE Tool(p)
  BY <1>2 DEF Tool, WriteOut, Complain, HeapCreate, HeapWrite, Exit
<1>3. CASE \E op \in Asked : Request(p, op)
  BY <1>3 DEF Request
<1>4. CASE Fails(p)
  BY <1>4 DEF Fails, ReadFails, FileError, Answers
<1> QED
  BY <1>1, <1>2, <1>3, <1>4 DEF Step

LEMMA Going ==
    ASSUME TypeOK, NEW p \in Requester, NEW at, Goto(p, at)
    PROVE  pc'[p].at = at /\ pc'[p].op = pc[p].op
<1>1. pc[p] \in {Idle} \cup [op : Endpoint, at : {"start", "exec", "open", "write", "send", "reply"}]
  BY DEF TypeOK
<1>2. pc'[p] = [pc[p] EXCEPT !.at = at]
  BY DEF Goto, TypeOK
<1> QED
  BY <1>1, <1>2 DEF Idle

\* A request that is under way has an endpoint.
LEMMA StartOfOne ==
    ASSUME TypeOK, NEW p \in Requester
    PROVE  /\ pc[p].at # "idle" => pc[p].op \in Endpoint
           /\ pc[p].at = "idle" => pc[p] = Idle
<1>1. pc[p] \in {Idle} \cup [op : Endpoint, at : {"start", "exec", "open", "write", "send", "reply"}]
  BY DEF TypeOK
<1> QED
  BY <1>1 DEF Idle

LEMMA ChildFields ==
    ASSUME TypeOK, NEW p \in Requester, NEW v
    PROVE  LET c == child[p]
           IN  /\ [c EXCEPT !.stdout = v].stdout = v /\ [c EXCEPT !.stdout = v].out = c.out
               /\ [c EXCEPT !.stdout = v].dump = c.dump /\ [c EXCEPT !.stdout = v].alive = c.alive
               /\ [c EXCEPT !.stdout = v].opens = c.opens
<1>1. child[p] \in [out : 0..Size, err : 0..MaxErr, opens : BOOLEAN, dump : 0..Size,
                     stdout : 0..Pipe, stderr : 0..Pipe, alive : BOOLEAN]
  BY DEF TypeOK
<1> QED
  BY <1>1

\* What a step of the tool makes of its process.
LEMMA ToolFields ==
    ASSUME TypeOK, NEW p \in Requester, Tool(p),
           ~child[p].alive => child[p].out = 0 /\ child[p].dump = 0 /\ ~child[p].opens
    PROVE  /\ pc[p].at = "exec" =>
                child'[p].out + child'[p].stdout = child[p].out + child[p].stdout
           /\ child'[p].stdout \in Nat /\ child'[p].out \in Nat
           /\ child'[p].dump > 0 => child[p].dump > 0
           /\ child'[p].opens => child[p].opens
           /\ ~child'[p].alive => child'[p].out = 0 /\ child'[p].dump = 0 /\ ~child'[p].opens
           /\ child[p] # Gone
<1>1. /\ child[p] \in [out : 0..Size, err : 0..MaxErr, opens : BOOLEAN, dump : 0..Size,
                       stdout : 0..Pipe, stderr : 0..Pipe, alive : BOOLEAN]
      /\ Size \in Nat /\ Pipe \in Nat /\ MaxErr \in Nat
  BY CommandsAssumption DEF TypeOK
<1>2. CASE WriteOut(p)
  <2>1. /\ child'[p] = [child[p] EXCEPT !.out = child[p].out - 1, !.stdout = child[p].stdout + 1]
        /\ child[p].out > 0
    BY <1>2 DEF WriteOut, TypeOK
  <2> QED
    BY <1>1, <2>1 DEF Gone
<1>3. CASE Complain(p)
  <2>1. /\ child'[p] = [child[p] EXCEPT !.err = child[p].err - 1, !.stderr = child[p].stderr + 1]
        /\ child[p].err > 0
    BY <1>3 DEF Complain, TypeOK
  <2> QED
    BY <1>1, <2>1 DEF Gone
<1>4. CASE Exit(p)
  <2>1. /\ child'[p] = IF pc[p].at = "exec" THEN [child[p] EXCEPT !.alive = FALSE] ELSE Gone
        /\ child[p].alive /\ child[p].out = 0 /\ child[p].dump = 0 /\ ~child[p].opens
    BY <1>4 DEF Exit, TypeOK
  <2> QED
    BY <1>1, <2>1 DEF Gone
<1>5. CASE HeapCreate(p)
  <2>1. /\ \/ child'[p] = [child[p] EXCEPT !.opens = FALSE]
           \/ child'[p] = [child[p] EXCEPT !.opens = FALSE, !.dump = 0]
        /\ child[p].opens
    BY <1>5 DEF HeapCreate, TypeOK
  <2>2. /\ child'[p].out = child[p].out /\ child'[p].stdout = child[p].stdout
        /\ child'[p].dump \in {child[p].dump, 0} /\ child'[p].opens = FALSE
        /\ child'[p].alive = child[p].alive
    BY <1>1, <2>1
  <2>3. child[p] # Gone
    BY <2>1 DEF Gone
  <2>4. child[p].alive
    BY <2>1
  <2> QED
    BY <1>1, <2>2, <2>3, <2>4
<1>6. CASE HeapWrite(p)
  <2>1. child'[p] = [child[p] EXCEPT !.dump = child[p].dump - 1] /\ child[p].dump > 0
    BY <1>6 DEF HeapWrite, TypeOK
  <2> QED
    BY <1>1, <2>1 DEF Gone
<1> QED
  BY <1>2, <1>3, <1>4, <1>5, <1>6 DEF Tool

LEMMA ReadingStep ==
    ASSUME TypeOK, Reading, Numbered, NEW p \in Requester, Step(p) PROVE Reading'
<1>1. ASSUME NEW q \in Requester, q # p PROVE ReadingOf(q)'
  <2>1. ReadingOf(q) /\ runs \in Nat /\ runs' \in Nat /\ runs <= runs' /\ run[q] \in 0..MaxRuns
    BY <1>1, Counting, Types DEF Reading
  <2>2. left \subseteq left' /\ (pc[q].at # "idle" => (run[q] \in left' <=> run[q] \in left))
    <3>1. CASE left' = left
      BY <3>1
    <3>2. CASE left' = left \cup {run[p]} /\ ReadFails(p)
      <4>1. pc[q].at # "idle" => run[q] # run[p]
        BY <1>1, <2>1 DEF ReadingOf, Numbered
      <4> QED
        BY <3>2, <4>1
    <3> QED
      BY <3>1, <3>2, Leaving
  <2>3. /\ pc'[q] = pc[q] /\ run'[q] = run[q] /\ got'[q] = got[q] /\ printed'[q] = printed[q]
        /\ offset'[q] = offset[q] /\ child'[q] = child[q]
    BY <1>1, OthersStay
  <2> QED
    BY <2>1, <2>2, <2>3 DEF ReadingOf
<1>2. ReadingOf(p)'
  <2>0. ReadingOf(p)
    BY DEF Reading
  <2>t. /\ child[p].out \in 0..Size /\ child[p].err \in 0..MaxErr /\ child[p].dump \in 0..Size
        /\ child[p].stdout \in 0..Pipe /\ child[p].stderr \in 0..Pipe /\ child[p].alive \in BOOLEAN
        /\ got[p] \in Null..Size /\ offset[p] \in 0..Size /\ run[p] \in 0..MaxRuns
        /\ Size \in Nat \ {0} /\ Pipe \in Nat \ {0} /\ MaxErr \in Nat /\ MaxRuns \in Nat
        /\ runs \in Nat /\ child[p].opens \in BOOLEAN /\ printed[p] \in 0..Size
    BY Types
  <2>1. CASE Start(p)
    <3>1. /\ pc[p].at = "start" /\ pc[p].op \in Endpoint /\ offset'[p] = offset[p] /\ run'[p] = run[p]
          /\ runs' = runs /\ left' = left
      BY <2>1, StartOfOne DEF Start
    <3>2. CASE Exec(p)
      <4>1. pc'[p].op = pc[p].op /\ pc'[p].at = "exec" /\ got'[p] = got[p]
        BY <3>2, Going DEF Exec
      <4>2. PICK out \in 0..Size, dump \in 0..Size, err \in 0..MaxErr, opens \in BOOLEAN :
              /\ IF pc[p].op = "heapDump" THEN out = 0 ELSE ~opens
              /\ opens \/ dump = 0
              /\ child' = [child EXCEPT ![p] =
                    [out |-> out, err |-> err, opens |-> opens, dump |-> dump,
                     stdout |-> 0, stderr |-> 0, alive |-> TRUE]]
              /\ printed' = [printed EXCEPT ![p] = out]
        BY <3>2 DEF Exec
      <4>3. /\ child'[p].out = out /\ child'[p].dump = dump /\ child'[p].alive /\ child'[p].stdout = 0
            /\ child'[p].opens = opens /\ printed'[p] = out
        BY <4>2 DEF Gone, TypeOK
      <4> QED
        BY <2>0, <2>t, <3>1, <4>1, <4>2, <4>3 DEF ReadingOf, Null
    <3>3. CASE ExecFails(p)
      <4>1. /\ pc'[p].op = pc[p].op /\ pc'[p].at = After(pc[p].op) /\ got'[p] = Null
            /\ child'[p] = child[p] /\ printed'[p] = 0
        BY <3>3, Going DEF ExecFails, TypeOK
      <4> QED
        BY <2>0, <2>t, <3>1, <4>1 DEF ReadingOf, Null, After, Snapshot, Endpoint
    <3> QED
      BY <2>1, <3>2, <3>3 DEF Start
  <2>2. CASE ReadLine(p)
    <3>1. /\ child'[p] = [child[p] EXCEPT !.stdout = @ - 1] /\ child[p].stdout > 0
          /\ got'[p] = got[p] + 1 /\ pc[p].at = "exec"
      BY <2>2 DEF ReadLine, TypeOK
    <3>2. /\ child'[p].stdout = child[p].stdout - 1 /\ child'[p].out = child[p].out
          /\ child'[p].dump = child[p].dump /\ child'[p].alive = child[p].alive
          /\ child'[p].opens = child[p].opens
      BY <3>1, ChildFields
    <3> QED
      BY <2>0, <2>2, <2>t, <3>1, <3>2 DEF ReadingOf, ReadLine, Null
  <2>3. CASE Destroy(p)
    <3>1. /\ pc'[p].op = pc[p].op /\ pc'[p].at = After(pc[p].op) /\ child'[p] = Gone
          /\ pc[p].op \in Endpoint
      BY <2>3, Going, StartOfOne DEF Destroy, TypeOK
    <3> QED
      BY <2>0, <2>3, <2>t, <3>1 DEF ReadingOf, Destroy, After, Gone, Snapshot, Endpoint
  <2>4. CASE OpenFile(p) \/ CloseFile(p)
    <3>1. pc'[p].op = pc[p].op /\ pc'[p].at \in {"write", "send"}
      BY <2>4, Going DEF OpenFile, CloseFile
    <3> QED
      BY <2>0, <2>4, <2>t, <3>1 DEF ReadingOf, OpenFile, CloseFile, Snapshot
  <2>5. CASE WriteFile(p)
    <3>1. offset'[p] = offset[p] + 1
      BY <2>5 DEF WriteFile, TypeOK
    <3> QED
      BY <2>0, <2>5, <2>t, <3>1 DEF ReadingOf, WriteFile
  <2>6. CASE Send(p) \/ Reply(p) \/ FileError(p)
    <3>1. /\ pc'[p].at = "idle" /\ pc'[p].op = "none" /\ got'[p] = 0 /\ offset'[p] = 0
          /\ UNCHANGED <<child, run, left>> /\ pc[p].at # "exec"
      <4>1. /\ pc' = [pc EXCEPT ![p] = Idle] /\ got' = [got EXCEPT ![p] = 0]
            /\ offset' = [offset EXCEPT ![p] = 0] /\ UNCHANGED <<child, run, left>> /\ pc[p].at # "exec"
        BY <2>6 DEF Send, Reply, FileError, Answers
      <4>2. pc'[p] = Idle /\ got'[p] = 0 /\ offset'[p] = 0
        BY <4>1 DEF TypeOK
      <4> QED
        BY <4>1, <4>2 DEF Idle
    <3> QED
      BY <2>0, <2>t, <3>1 DEF ReadingOf, Gone
  <2>7. CASE WriteOut(p) \/ Complain(p) \/ Exit(p) \/ HeapCreate(p) \/ HeapWrite(p)
    <3>1. UNCHANGED <<pc, got, offset, run, runs, printed, left>>
      BY <2>7 DEF WriteOut, Complain, Exit, HeapCreate, HeapWrite
    <3>2. /\ pc[p].at = "exec" => child'[p].out + child'[p].stdout = child[p].out + child[p].stdout
          /\ child'[p].stdout \in Nat /\ child'[p].out \in Nat
          /\ child'[p].dump > 0 => child[p].dump > 0
          /\ child'[p].opens => child[p].opens
          /\ ~child'[p].alive => child'[p].out = 0 /\ child'[p].dump = 0 /\ ~child'[p].opens
          /\ child[p] # Gone
      BY <2>0, <2>7, ToolFields DEF ReadingOf, Tool
    <3> QED
      BY <2>0, <2>t, <3>1, <3>2 DEF ReadingOf
  <2>8. CASE \E op \in Asked : Request(p, op)
    <3>1. /\ pc'[p].at = "start" /\ run'[p] = runs + 1 /\ runs' = runs + 1 /\ pc[p].at = "idle"
          /\ UNCHANGED <<got, offset, child, left>> /\ child[p] = Gone
      BY <2>8 DEF Request, TypeOK, Idle
    <3>2. run'[p] \notin left
      BY <2>t, <3>1 DEF Numbered
    <3> QED
      BY <2>0, <2>t, <3>1, <3>2 DEF ReadingOf, Gone
  <2>9. CASE ReadFails(p)
    <3>1. /\ pc'[p].op = pc[p].op /\ pc'[p].at = After(pc[p].op) /\ got'[p] = Null
          /\ UNCHANGED <<run, offset, child, runs>> /\ run[p] \in left' /\ pc[p].op \in Endpoint
          /\ pc[p].at = "exec"
      BY <2>9, Going, StartOfOne DEF ReadFails, TypeOK
    <3> QED
      BY <2>0, <2>t, <3>1 DEF ReadingOf, After, Snapshot, Endpoint, Null
  <2> QED
    BY <2>1, <2>2, <2>3, <2>4, <2>5, <2>6, <2>7, <2>8, <2>9 DEF Step, Serve, Tool, Fails
<1> QED
  BY <1>1, <1>2 DEF Reading

LEMMA NumberedStep ==
    ASSUME TypeOK, Reading, Numbered, NEW p \in Requester, Step(p) PROVE Numbered'
<1>r. runs \in Nat /\ runs' \in Nat /\ runs <= runs'
  BY Counting, Types
<1>o. \A q \in Requester : q # p => pc'[q] = pc[q] /\ run'[q] = run[q] /\ answer'[q] = answer[q]
  BY OthersStay
<1>0. /\ runs \in Nat /\ runs' \in Nat /\ runs <= runs' /\ ReadingOf(p)
      /\ run[p] \in 0..runs /\ left \subseteq 1..runs
      /\ \A q \in Requester : q # p => pc'[q] = pc[q] /\ run'[q] = run[q] /\ answer'[q] = answer[q]
  BY <1>r, <1>o DEF Reading, Numbered
<1>1. left' \subseteq 1..runs'
  <2>1. ReadFails(p) => run[p] \in 1..runs
    BY <1>0 DEF ReadFails, ReadingOf
  <2>2. left' \subseteq 1..runs
    BY <1>0, <2>1, Leaving
  <2> QED
    BY <1>r, <2>2
<1>2. CASE run'[p] = run[p] /\ pc'[p].at # "idle" /\ pc[p].at # "idle" /\ answer'[p] = answer[p]
  BY <1>0, <1>1, <1>2 DEF Numbered
<1>3. CASE Send(p) \/ Reply(p) \/ FileError(p)
  <2>1. \E content, ok :
           /\ answer' = [answer EXCEPT ![p] = [op |-> pc[p].op, run |-> run[p], content |-> content, ok |-> ok]]
           /\ pc' = [pc EXCEPT ![p] = Idle] /\ run' = run
    BY <1>3 DEF Send, Reply, FileError, Answers
  <2>2. answer'[p].run = run[p] /\ pc'[p].at = "idle" /\ run'[p] = run[p]
    BY <2>1 DEF TypeOK, Idle
  <2> QED
    BY <1>0, <1>1, <2>2 DEF Numbered
<1>4. CASE \E op \in Asked : Request(p, op)
  <2>1. run'[p] = runs + 1 /\ runs' = runs + 1 /\ answer'[p].op = "none"
    BY <1>4 DEF Request, TypeOK, NoAnswer
  <2> QED
    BY <1>0, <1>1, <2>1 DEF Numbered
<1>5. CASE Start(p) \/ Destroy(p) \/ ReadFails(p) \/ OpenFile(p) \/ CloseFile(p)
  <2>1. run' = run /\ answer' = answer /\ pc[p].at # "idle"
    BY <1>5 DEF Start, Destroy, ReadFails, OpenFile, CloseFile
  <2>2. PICK at \in {"exec", "open", "write", "send", "reply"} : Goto(p, at)
    BY <1>5 DEF Start, Exec, ExecFails, Destroy, ReadFails, OpenFile, CloseFile, After
  <2> QED
    BY <1>2, <2>1, <2>2, Going
<1>6. CASE ReadLine(p) \/ WriteFile(p) \/ Tool(p)
  <2>1. UNCHANGED <<pc, run, answer>>
    BY <1>6 DEF ReadLine, WriteFile, Tool, WriteOut, Complain, HeapCreate, HeapWrite, Exit
  <2> QED
    BY <1>0, <1>1, <2>1 DEF Numbered
<1> QED
  BY <1>3, <1>4, <1>5, <1>6 DEF Step, Serve, Fails

-----------------------------------------------------------------------------
(* The files.                                                              *)

LEMMA ExclusiveStep ==
    ASSUME TypeOK, Exclusive, NEW p \in Requester, Step(p) PROVE Exclusive'
<1>1. CASE Serve(p) \/ Tool(p) \/ Fails(p)
  <2>1. /\ pc'[p].op = "none" \/ (pc'[p].op = pc[p].op /\ run'[p] = run[p])
        /\ shared \subseteq shared'
    <3>1. CASE Start(p) \/ Destroy(p) \/ OpenFile(p) \/ CloseFile(p) \/ ReadFails(p)
      <4>1. run' = run /\ \E at : Goto(p, at)
        BY <3>1 DEF Start, Exec, ExecFails, Destroy, OpenFile, CloseFile, ReadFails
      <4> QED
        BY <4>1, Going, Counting, <1>1 DEF Step
    <3>2. CASE ReadLine(p) \/ WriteFile(p) \/ Tool(p)
      BY <3>2 DEF ReadLine, WriteFile, Tool, WriteOut, Complain, HeapCreate, HeapWrite, Exit
    <3>3. CASE Send(p) \/ Reply(p) \/ FileError(p)
      <4>1. pc' = [pc EXCEPT ![p] = Idle] /\ shared' = shared
        BY <3>3 DEF Send, Reply, FileError, Answers
      <4>2. pc'[p] = Idle
        BY <4>1 DEF TypeOK
      <4> QED
        BY <4>1, <4>2 DEF Idle
    <3> QED
      BY <1>1, <3>1, <3>2, <3>3 DEF Serve, Fails
  <2>2. \A q \in Requester : q # p => pc'[q].op = pc[q].op /\ run'[q] = run[q]
    BY <1>1, OthersStay DEF Step
  <2>3. "none" \notin Snapshot
    BY DEF Snapshot
  <2> QED
    BY <2>1, <2>2, <2>3 DEF Exclusive
<1>2. CASE \E op \in Asked : Request(p, op)
  <2>1. PICK op \in Asked : Request(p, op)
    BY <1>2
  <2>2. /\ pc' = [pc EXCEPT ![p] = [op |-> op, at |-> "start"]]
        /\ run' = [run EXCEPT ![p] = runs + 1]
        /\ shared' = IF Together(p, op) = {} THEN shared
                     ELSE shared \cup {runs + 1} \cup {run[q] : q \in Together(p, op)}
    BY <2>1 DEF Request
  <2>3. pc'[p].op = op /\ run'[p] = runs + 1
    BY <2>2 DEF TypeOK
  <2>4. \A q \in Requester : q # p => pc'[q].op = pc[q].op /\ run'[q] = run[q]
    BY <1>2, OthersStay DEF Step
  <2>5. \A q \in Requester : q # p /\ pc[q].op = op /\ op \in Snapshot =>
           run[q] \in shared' /\ runs + 1 \in shared'
    BY <2>2 DEF Together
  <2>6. shared \subseteq shared'
    BY <2>2
  <2> QED
    BY <2>3, <2>4, <2>5, <2>6 DEF Exclusive
<1> QED
  BY <1>1, <1>2 DEF Step

\* All steps but those of jmap leave the heap dump alone.
LEMMA HeapAlone ==
    ASSUME TypeOK, Reading, NEW p \in Requester, Step(p), ~HeapCreate(p), ~HeapWrite(p)
    PROVE  /\ heap' = heap /\ file'["heapDump"] = file["heapDump"]
           /\ \/ child'[p].dump = child[p].dump /\ child'[p].opens = child[p].opens /\ run'[p] = run[p]
              \/ ~Writing(p) /\ ~Writing(p)'
<1>1. ReadingOf(p)
  BY DEF Reading
<1>2. child[p] \in [out : 0..Size, err : 0..MaxErr, opens : BOOLEAN, dump : 0..Size,
                     stdout : 0..Pipe, stderr : 0..Pipe, alive : BOOLEAN]
  BY DEF TypeOK
<1>3. Gone.dump = 0
  BY DEF Gone
<1>4. pc[p].at = "start" => ~Writing(p)
  BY <1>1, <1>3 DEF ReadingOf, Writing
<1>5. CASE Start(p)
  <2>1. UNCHANGED <<heap, file, run>> /\ pc[p].at = "start"
    BY <1>5 DEF Start
  <2>2. CASE ExecFails(p)
    BY <2>1, <2>2 DEF ExecFails
  <2>3. CASE Exec(p)
    <3>1. PICK out \in 0..Size, dump \in 0..Size, err \in 0..MaxErr, opens \in BOOLEAN :
            /\ IF pc[p].op = "heapDump" THEN out = 0 ELSE ~opens
            /\ opens \/ dump = 0
            /\ child' = [child EXCEPT ![p] =
                  [out |-> out, err |-> err, opens |-> opens, dump |-> dump,
                   stdout |-> 0, stderr |-> 0, alive |-> TRUE]]
            /\ printed' = [printed EXCEPT ![p] = out]
      BY <2>3 DEF Exec
    <3>2. child'[p].dump = dump /\ child'[p].opens = opens
      BY <3>1 DEF Gone, TypeOK
    <3>3. CASE opens
      BY <1>4, <2>1, <3>2, <3>3 DEF Writing
    <3>4. CASE dump = 0
      BY <1>4, <2>1, <3>2, <3>4 DEF Writing
    <3> QED
      BY <3>1, <3>3, <3>4
  <2> QED
    BY <1>5, <2>2, <2>3 DEF Start
<1>6. CASE Destroy(p)
  <2>1. child'[p] = Gone /\ ~child[p].alive /\ UNCHANGED <<heap, file>>
    BY <1>6 DEF Destroy, TypeOK
  <2> QED
    BY <1>1, <1>3, <2>1 DEF ReadingOf, Writing
<1>7. CASE ReadLine(p) \/ WriteOut(p) \/ Complain(p)
  <2>1. UNCHANGED <<heap, file, run>>
    BY <1>7 DEF ReadLine, WriteOut, Complain
  <2>2. child'[p].dump = child[p].dump /\ child'[p].opens = child[p].opens
    BY <1>2, <1>7 DEF ReadLine, WriteOut, Complain, TypeOK
  <2> QED
    BY <2>1, <2>2
<1>8. CASE OpenFile(p) \/ WriteFile(p)
  <2>1. UNCHANGED <<heap, child, run>>
    BY <1>8 DEF OpenFile, WriteFile
  <2>2. file'["heapDump"] = file["heapDump"]
    BY <1>8 DEF OpenFile, WriteFile, TypeOK, Snapshot
  <2> QED
    BY <2>1, <2>2
<1>9. CASE CloseFile(p)
  BY <1>9 DEF CloseFile
<1>10. CASE Send(p) \/ Reply(p) \/ Fails(p)
  BY <1>10 DEF Send, Reply, Fails, ReadFails, FileError, Answers
<1>11. CASE \E op \in Asked : Request(p, op)
  <2>1. UNCHANGED <<heap, child, file>> /\ child[p] = Gone
    BY <1>11 DEF Request
  <2> QED
    BY <1>3, <2>1 DEF Writing
<1>12. CASE Exit(p)
  <2>1. /\ UNCHANGED <<heap, file>> /\ child[p].dump = 0
        /\ child'[p] = IF pc[p].at = "exec" THEN [child[p] EXCEPT !.alive = FALSE] ELSE Gone
    BY <1>12 DEF Exit, TypeOK
  <2>2. child'[p].dump = 0
    BY <1>2, <1>3, <2>1
  <2> QED
    BY <2>1, <2>2 DEF Writing
<1> QED
  BY <1>5, <1>6, <1>7, <1>8, <1>9, <1>10, <1>11, <1>12 DEF Step, Serve, Tool

\* A heap dump is only made by its own process.
LEMMA HeapStep ==
    ASSUME TypeOK, Reading, Heap, NEW p \in Requester, Step(p) PROVE Heap'
<1> DEFINE f == file["heapDump"]
<1>0. /\ \A q \in Requester : q # p => child'[q] = child[q] /\ run'[q] = run[q]
      /\ Size \in Nat \ {0} /\ child[p].dump \in 0..Size /\ run[p] \in 0..MaxRuns
      /\ heap.size \in 0..Size
  BY OthersStay, Types
<1>t. child[p] \in [out : 0..Size, err : 0..MaxErr, opens : BOOLEAN, dump : 0..Size,
                     stdout : 0..Pipe, stderr : 0..Pipe, alive : BOOLEAN]
  BY DEF TypeOK
<1>1. CASE /\ heap' = heap /\ f' = f
           /\ \/ child'[p].dump = child[p].dump /\ child'[p].opens = child[p].opens /\ run'[p] = run[p]
              \/ ~Writing(p) /\ ~Writing(p)'
  <2>1. \A q \in Requester : /\ Writing(q)' <=> Writing(q)
                             /\ Writing(q) => child'[q].dump = child[q].dump /\ run'[q] = run[q]
    BY <1>0, <1>1 DEF Writing
  <2> QED
    BY <1>1, <2>1 DEF Heap
<1>2. CASE HeapCreate(p)
  <2>1. CASE f.exists
    <3>1. child' = [child EXCEPT ![p].opens = FALSE, ![p].dump = 0] /\ UNCHANGED <<heap, file>> /\ child[p].opens
      BY <1>2, <2>1 DEF HeapCreate
    <3>2. child'[p].dump = 0
      BY <1>t, <3>1 DEF TypeOK
    <3>3. ~Writing(p)
      BY <3>1 DEF Writing
    <3>4. ~Writing(p)'
      BY <3>2 DEF Writing
    <3> QED
      BY <1>1, <3>1, <3>3, <3>4
  <2>2. CASE ~f.exists
    <3>1. /\ child'[p].dump = child[p].dump /\ run' = run
          /\ heap'.run = run[p] /\ heap'.size = child[p].dump
          /\ f'.exists /\ f'.content = << >>
      <4>1. /\ child' = [child EXCEPT ![p].opens = FALSE] /\ run' = run
            /\ heap' = [run |-> run[p], size |-> child[p].dump]
            /\ file' = [file EXCEPT !["heapDump"] = [exists |-> TRUE, content |-> << >>]]
        BY <1>2, <2>2 DEF HeapCreate
      <4>2. child'[p].dump = child[p].dump
        BY <1>t, <4>1 DEF TypeOK
      <4>3. f' = [exists |-> TRUE, content |-> << >>]
        BY <4>1 DEF TypeOK, Snapshot
      <4> QED
        BY <4>1, <4>2, <4>3
    <3>2. \A q \in Requester : q # p => ~Writing(q)'
      BY <1>0, <2>2 DEF Heap, Writing
    <3>3. f'.content = Pieces(0, heap'.run)
      BY <3>1, NoPieces
    <3>4. heap'.size - child'[p].dump = 0 /\ child'[p].dump <= heap'.size
      BY <1>0, <3>1
    <3>5. CASE Writing(p)'
      BY <3>1, <3>2, <3>3, <3>4, <3>5 DEF Heap
    <3>6. CASE ~Writing(p)'
      <4>1. heap'.size = 0
        <5>1. ~child'[p].opens
          BY <1>2, <1>t, <2>2 DEF HeapCreate, TypeOK
        <5> QED
          BY <1>0, <3>1, <3>6, <5>1 DEF Writing
      <4> QED
        BY <3>1, <3>2, <3>3, <3>6, <4>1 DEF Heap
    <3> QED
      BY <3>5, <3>6
  <2> QED
    BY <2>1, <2>2
<1>3. CASE HeapWrite(p)
  <2>1. /\ child'[p].dump = child[p].dump - 1 /\ child'[p].opens = child[p].opens
        /\ UNCHANGED <<heap, run>>
        /\ child[p].dump > 0 /\ ~child[p].opens
        /\ f'.content = Append(f.content, run[p]) /\ f'.exists = f.exists
    <3>1. /\ child' = [child EXCEPT ![p].dump = @ - 1] /\ UNCHANGED <<heap, run>>
          /\ file' = [file EXCEPT !["heapDump"].content = Append(@, run[p])]
          /\ child[p].dump > 0 /\ ~child[p].opens
      BY <1>3 DEF HeapWrite
    <3>2. child'[p].dump = child[p].dump - 1 /\ child'[p].opens = child[p].opens
      BY <1>t, <3>1 DEF TypeOK
    <3>3. f' = [f EXCEPT !.content = Append(@, run[p])]
      BY <3>1 DEF TypeOK, Snapshot
    <3>4. f'.content = Append(f.content, run[p]) /\ f'.exists = f.exists
      <4>1. f \in [exists : BOOLEAN, content : Seq(0..MaxRuns)]
        BY DEF TypeOK, Snapshot
      <4> QED
        BY <3>3, <4>1
    <3> QED
      BY <3>1, <3>2, <3>4
  <2>2. Writing(p)
    BY <2>1 DEF Writing
  <2>3. /\ run[p] = heap.run /\ child[p].dump <= heap.size /\ f.exists
        /\ f.content = Pieces(heap.size - child[p].dump, heap.run)
    BY <2>2 DEF Heap
  <2>4. f'.content = Pieces(heap.size - child[p].dump + 1, heap.run)
    <3>1. heap.size - child[p].dump \in Nat
      BY <1>0, <2>3
    <3>2. Append(Pieces(heap.size - child[p].dump, heap.run), heap.run)
            = Pieces(heap.size - child[p].dump + 1, heap.run)
      BY <3>1, AppendPiece
    <3> QED
      BY <2>1, <2>3, <3>2
  <2>5. \A q \in Requester : q # p => ~Writing(q)'
    <3>1. \A q \in Requester : q # p => ~Writing(q)
      BY <2>2 DEF Heap
    <3> QED
      BY <1>0, <3>1 DEF Writing
  <2>6. /\ heap.size - child[p].dump + 1 = heap.size - child'[p].dump
        /\ child'[p].dump <= heap.size
    BY <1>0, <2>1, <2>3
  <2>7. ~Writing(p)' => heap.size - child'[p].dump = heap.size
    BY <1>0, <2>1 DEF Writing
  <2> QED
    BY <2>1, <2>3, <2>4, <2>5, <2>6, <2>7 DEF Heap
<1> QED
  BY <1>1, <1>2, <1>3, HeapAlone

\* The thread dump is only touched by requests that have it open.
LEMMA DumpAlone ==
    ASSUME TypeOK, NEW p \in Requester, Step(p), ~OpenFile(p), ~WriteFile(p)
    PROVE  file'["threadDump"] = file["threadDump"]
<1>1. CASE Start(p) \/ ReadLine(p) \/ Destroy(p) \/ CloseFile(p)
  BY <1>1 DEF Start, ReadLine, Destroy, CloseFile
<1>2. CASE Send(p) \/ Reply(p)
  BY <1>2 DEF Send, Reply, Answers
<1>3. CASE WriteOut(p) \/ Complain(p) \/ Exit(p)
  BY <1>3 DEF WriteOut, Complain, Exit
<1>4. CASE HeapCreate(p) \/ HeapWrite(p)
  BY <1>4 DEF HeapCreate, HeapWrite, TypeOK, Snapshot
<1>5. CASE \E op \in Asked : Request(p, op)
  BY <1>5 DEF Request
<1>6. CASE Fails(p)
  BY <1>6 DEF Fails, ReadFails, FileError, Answers
<1> QED
  BY <1>1, <1>2, <1>3, <1>4, <1>5, <1>6 DEF Step, Serve, Tool

DumpOf(p) ==
    pc[p].op = "threadDump" /\ run[p] \notin shared =>
        LET f == file["threadDump"]
        IN  /\ pc[p].at = "write" => f.exists /\ f.content = Pieces(offset[p], run[p])
            /\ pc[p].at = "send" => /\ f.exists
                                    /\ f.content = Pieces(IF got[p] = Null THEN 0 ELSE got[p], run[p])

LEMMA DumpStep ==
    ASSUME TypeOK, Reading, Exclusive, Dump, NEW p \in Requester, Step(p) PROVE Dump'
<1> DEFINE f == file["threadDump"]
<1>0. ReadingOf(p) /\ DumpOf(p)
  BY DEF Reading, Dump, DumpOf
<1>t. /\ got[p] \in Null..Size /\ offset[p] \in 0..Size /\ Size \in Nat \ {0}
      /\ shared \subseteq shared'
  BY Types, Counting
<1>1. ASSUME NEW q \in Requester, q # p PROVE DumpOf(q)'
  <2>1. DumpOf(q) /\ UNCHANGED <<pc[q], run[q], got[q], offset[q]>>
    BY <1>1, OthersStay DEF Dump, DumpOf
  <2>2. CASE f' = f
    BY <1>t, <2>1, <2>2 DEF DumpOf
  <2>3. CASE OpenFile(p) \/ WriteFile(p)
    <3>1. pc[p].op = "threadDump"
      BY <1>0, <2>3 DEF ReadingOf, OpenFile, WriteFile
    <3>2. pc[q].op = "threadDump" => run[q] \in shared
      BY <1>1, <3>1 DEF Exclusive, Snapshot
    <3> QED
      BY <1>t, <2>1, <3>2 DEF DumpOf
  <2> QED
    BY <2>2, <2>3, DumpAlone
<1>2. DumpOf(p)'
  <2>1. CASE Start(p)
    <3>1. pc'[p].at \in {"exec", "open"} \/ pc'[p].op # "threadDump"
      BY <2>1, Going DEF Start, Exec, ExecFails, After
    <3> QED
      BY <3>1 DEF DumpOf
  <2>2. CASE Destroy(p) \/ ReadFails(p)
    <3>1. pc'[p].at = After(pc[p].op) /\ pc'[p].op = pc[p].op
      BY <2>2, Going DEF Destroy, ReadFails
    <3> QED
      BY <3>1 DEF DumpOf, After
  <2>3. CASE OpenFile(p)
    <3>1. pc'[p].at = "write" /\ f' = [exists |-> TRUE, content |-> << >>] /\ offset' = offset
      BY <2>3, Going DEF OpenFile, TypeOK, Snapshot
    <3>2. offset[p] = 0
      BY <1>0, <2>3 DEF ReadingOf, OpenFile
    <3> QED
      BY <3>1, <3>2, NoPieces DEF DumpOf
  <2>4. CASE WriteFile(p)
    <3>1. /\ pc[p].at = "write" /\ UNCHANGED <<pc, run, got, shared>>
          /\ offset' = [offset EXCEPT ![p] = @ + 1]
          /\ file' = [file EXCEPT !["threadDump"].content = Put(@, offset[p] + 1, run[p])]
      BY <2>4 DEF WriteFile
    <3>2. f \in [exists : BOOLEAN, content : Seq(0..MaxRuns)] /\ f' = [f EXCEPT !.content = Put(@, offset[p] + 1, run[p])]
      BY <3>1 DEF TypeOK, Snapshot
    <3>3. f'.exists = f.exists /\ f'.content = Put(f.content, offset[p] + 1, run[p])
      BY <3>2
    <3>4. offset'[p] = offset[p] + 1 /\ offset[p] \in Nat
      BY <1>t, <3>1 DEF TypeOK
    <3>5. Put(Pieces(offset[p], run[p]), offset[p] + 1, run[p]) = Pieces(offset[p] + 1, run[p])
      BY <3>4, PutPiece
    <3> QED
      BY <1>0, <3>1, <3>3, <3>4, <3>5 DEF DumpOf
  <2>5. CASE CloseFile(p)
    <3>1. /\ pc[p].at = "write" /\ offset[p] >= got[p] /\ UNCHANGED <<run, got, offset, file, shared>>
          /\ pc'[p].at = "send" /\ pc'[p].op = pc[p].op
      BY <2>5, Going DEF CloseFile
    <3>2. offset[p] = 0 \/ offset[p] <= got[p]
      BY <1>0 DEF ReadingOf
    <3>3. offset[p] = IF got[p] = Null THEN 0 ELSE got[p]
      BY <1>t, <3>1, <3>2 DEF Null
    <3> QED
      BY <1>0, <3>1, <3>3 DEF DumpOf
  <2>6. CASE Send(p) \/ Reply(p) \/ FileError(p)
    <3>1. pc' = [pc EXCEPT ![p] = Idle]
      BY <2>6 DEF Send, Reply, FileError, Answers
    <3>2. pc'[p] = Idle
      BY <3>1 DEF TypeOK
    <3> QED
      BY <3>2 DEF DumpOf, Idle
  <2>7. CASE \E op \in Asked : Request(p, op)
    <3>1. PICK op \in Asked : pc' = [pc EXCEPT ![p] = [op |-> op, at |-> "start"]]
      BY <2>7 DEF Request
    <3>2. pc'[p].at = "start"
      BY <3>1 DEF TypeOK
    <3> QED
      BY <3>2 DEF DumpOf
  <2>8. CASE ReadLine(p) \/ Tool(p)
    <3>1. CASE ReadLine(p)
      BY <3>1, <1>0 DEF ReadLine, DumpOf
    <3>2. CASE Tool(p)
      <4>1. UNCHANGED <<pc, run, got, offset, shared>>
        BY <3>2 DEF Tool, WriteOut, Complain, HeapCreate, HeapWrite, Exit
      <4>2. CASE HeapCreate(p) \/ HeapWrite(p)
        <5>1. f' = f
          BY <4>2 DEF HeapCreate, HeapWrite, TypeOK, Snapshot
        <5> QED
          BY <1>0, <4>1, <5>1 DEF DumpOf
      <4>3. CASE WriteOut(p) \/ Complain(p) \/ Exit(p)
        <5>1. f' = f
          BY <4>3 DEF WriteOut, Complain, Exit
        <5> QED
          BY <1>0, <4>1, <5>1 DEF DumpOf
      <4> QED
        BY <3>2, <4>2, <4>3 DEF Tool
    <3> QED
      BY <2>8, <3>1, <3>2
  <2> QED
    BY <2>1, <2>2, <2>3, <2>4, <2>5, <2>6, <2>7, <2>8 DEF Step, Serve, Fails
<1> QED
  BY <1>1, <1>2 DEF Dump, DumpOf

-----------------------------------------------------------------------------
(* The answers.                                                            *)

\* What a request is answered: the file, for a snapshot.
LEMMA AnswerOf ==
    ASSUME TypeOK, Reading, NEW p \in Requester, Step(p)
    PROVE  \/ answer'[p] = answer[p]
           \/ answer'[p].op \notin Snapshot
           \/ ~answer'[p].ok
           \/ /\ pc[p].at = "send" /\ pc[p].op \in Snapshot
              /\ answer'[p].op = pc[p].op /\ answer'[p].run = run[p]
              /\ answer'[p].content = file[pc[p].op].content
              /\ answer'[p].ok = file[pc[p].op].exists
              /\ UNCHANGED <<file, history>>
<1>0. ReadingOf(p)
  BY DEF Reading
<1>1. CASE Start(p) \/ ReadLine(p) \/ Destroy(p) \/ OpenFile(p) \/ WriteFile(p) \/ CloseFile(p)
  BY <1>1 DEF Start, ReadLine, Destroy, OpenFile, WriteFile, CloseFile
<1>2. CASE Tool(p)
  BY <1>2 DEF Tool, WriteOut, Complain, HeapCreate, HeapWrite, Exit
<1>3. CASE Send(p)
  <2>1. /\ answer' = [answer EXCEPT ![p] =
              [op |-> pc[p].op, run |-> run[p],
               content |-> file[pc[p].op].content, ok |-> file[pc[p].op].exists]]
        /\ UNCHANGED <<file, history>> /\ pc[p].at = "send"
    BY <1>3 DEF Send, Answers
  <2>2. answer'[p] = [op |-> pc[p].op, run |-> run[p],
                      content |-> file[pc[p].op].content, ok |-> file[pc[p].op].exists]
    BY <2>1 DEF TypeOK
  <2>3. pc[p].op \in Snapshot
    BY <1>0, <2>1 DEF ReadingOf
  <2> QED
    BY <2>1, <2>2, <2>3
<1>4. CASE Reply(p)
  <2>1. \E content, ok : answer' = [answer EXCEPT ![p] =
            [op |-> pc[p].op, run |-> run[p], content |-> content, ok |-> ok]]
    BY <1>4 DEF Reply, Answers
  <2>2. pc[p].at = "reply"
    BY <1>4 DEF Reply
  <2>3. answer'[p].op = pc[p].op
    BY <2>1 DEF TypeOK
  <2> QED
    BY <1>0, <2>2, <2>3 DEF ReadingOf
<1>5. CASE \E op \in Asked : Request(p, op)
  <2>1. answer' = [answer EXCEPT ![p] = NoAnswer]
    BY <1>5 DEF Request
  <2>2. answer'[p].op = "none"
    BY <2>1 DEF TypeOK, NoAnswer
  <2> QED
    BY <2>2 DEF Snapshot
<1>6. CASE FileError(p)
  <2>1. answer' = [answer EXCEPT ![p] = [op |-> pc[p].op, run |-> run[p], content |-> << >>, ok |-> FALSE]]
    BY <1>6 DEF FileError, Answers
  <2>2. answer'[p].ok = FALSE
    BY <2>1 DEF TypeOK
  <2> QED
    BY <2>2
<1>7. CASE ReadFails(p)
  BY <1>7 DEF ReadFails
<1> QED
  BY <1>1, <1>2, <1>3, <1>4, <1>5, <1>6, <1>7 DEF Step, Serve, Fails

\* A heap dump is never removed or replaced.
LEMMA HeapStays ==
    ASSUME TypeOK, Reading, NEW p \in Requester, Step(p), file["heapDump"].exists
    PROVE  file'["heapDump"].exists /\ heap' = heap
<1>1. CASE HeapCreate(p)
  BY <1>1 DEF HeapCreate
<1>2. CASE HeapWrite(p)
  <2>1. /\ file' = [file EXCEPT !["heapDump"].content = Append(@, run[p])]
        /\ heap' = heap
    BY <1>2 DEF HeapWrite
  <2>2. file["heapDump"] \in [exists : BOOLEAN, content : Seq(0..MaxRuns)]
    BY DEF TypeOK, Snapshot
  <2>3. file'["heapDump"] = [file["heapDump"] EXCEPT !.content = Append(@, run[p])]
    BY <2>1 DEF TypeOK, Snapshot
  <2> QED
    BY <2>1, <2>2, <2>3
<1> QED
  BY <1>1, <1>2, HeapAlone

LEMMA KeptStep ==
    ASSUME TypeOK, Reading, Kept, NEW p \in Requester, Step(p) PROVE Kept'
<1> SUFFICES ASSUME NEW q \in Requester, answer'[q].op = "heapDump", answer'[q].ok
             PROVE  file'["heapDump"].exists
  BY DEF Kept
<1>1. CASE answer'[q] = answer[q]
  BY <1>1, HeapStays DEF Kept
<1>2. CASE q = p /\ answer'[q] # answer[q]
  BY <1>2, AnswerOf DEF Snapshot
<1> QED
  BY <1>1, <1>2, OthersStay

LEMMA HeapAnswered ==
    ASSUME TypeOK, Reading, Heap, Exclusive, Kept, HeapDumpFirst, NEW p \in Requester, Step(p)
    PROVE  HeapDumpFirst'
<1> DEFINE f == file["heapDump"]
<1> SUFFICES ASSUME NEW q \in Requester, answer'[q].op = "heapDump", answer'[q].ok
             PROVE  /\ \E n \in 0..heap'.size : answer'[q].content = Pieces(n, heap'.run)
                    /\ answer'[q].run \notin shared' /\ heap'.run \notin left' =>
                          answer'[q].content = Pieces(heap'.size, heap'.run)
  BY DEF HeapDumpFirst
<1>1. CASE answer'[q] = answer[q]
  <2>1. heap' = heap
    BY <1>1, HeapStays DEF Kept
  <2>2. shared \subseteq shared' /\ left \subseteq left'
    BY Counting, Leaving
  <2> QED
    BY <1>1, <2>1, <2>2 DEF HeapDumpFirst
<1>2. CASE q = p /\ answer'[q] # answer[q]
  <2>1. /\ pc[p].at = "send" /\ pc[p].op = "heapDump" /\ answer'[p].run = run[p]
        /\ f.exists /\ answer'[p].content = f.content
        /\ UNCHANGED <<heap, shared, left>>
    BY <1>2, AnswerOf DEF Snapshot
  <2>2. CASE \A r \in Requester : ~Writing(r)
    <3>1. f.content = Pieces(heap.size, heap.run)
      BY <2>1, <2>2 DEF Heap
    <3>2. heap.size \in 0..heap.size
      BY Types
    <3> QED
      BY <1>2, <2>1, <3>1, <3>2
  <2>3. ASSUME NEW r \in Requester, Writing(r)
        PROVE  /\ \E n \in 0..heap.size : f.content = Pieces(n, heap.run)
               /\ run[p] \in shared \/ heap.run \in left
    <3>1. /\ ReadingOf(r) /\ child[r].dump \in 0..Size /\ Size \in Nat /\ heap.size \in 0..Size
      BY Types DEF Reading
    <3>2. /\ run[r] = heap.run /\ child[r].dump <= heap.size
          /\ f.content = Pieces(heap.size - child[r].dump, heap.run)
      BY <2>3 DEF Heap
    <3>3. child[r] # Gone /\ child[r].dump > 0
      BY <2>3, <3>1 DEF Writing, Gone
    <3>4. heap.size - child[r].dump \in 0..heap.size
      BY <3>1, <3>2, <3>3
    <3>5. pc[r].at = "exec" => run[p] \in shared
      <4> HAVE pc[r].at = "exec"
      <4>1. pc[r].op = "heapDump" /\ r # p
        BY <2>1, <3>1, <3>3 DEF ReadingOf
      <4> QED
        BY <2>1, <4>1 DEF Exclusive, Snapshot
    <3>6. pc[r].at # "exec" => heap.run \in left
      BY <3>1, <3>2, <3>3 DEF ReadingOf
    <3> QED
      BY <3>2, <3>4, <3>5, <3>6
  <2> QED
    BY <1>2, <2>1, <2>2, <2>3
<1> QED
  BY <1>1, <1>2, OthersStay

LEMMA DumpAnswered ==
    ASSUME TypeOK, Reading, Numbered, Dump, ThreadDumpOwn, NEW p \in Requester, Step(p)
    PROVE  ThreadDumpOwn'
<1> SUFFICES ASSUME NEW q \in Requester, answer'[q].op = "threadDump", answer'[q].ok,
                    answer'[q].run \notin shared'
             PROVE  answer'[q].content =
                        Pieces(IF answer'[q].run \in left' THEN 0 ELSE printed'[q], answer'[q].run)
  BY DEF ThreadDumpOwn
<1>1. CASE answer'[q] = answer[q]
  <2>1. pc[q].at = "idle" /\ answer[q].run = run[q]
    BY <1>1 DEF Numbered
  <2>2. printed'[q] = printed[q]
    <3>1. CASE q = p
      <4>1. ~Start(p)
        BY <2>1, <3>1 DEF Start
      <4>2. CASE Serve(p)
        BY <3>1, <4>1, <4>2 DEF Serve, ReadLine, Destroy, OpenFile, WriteFile, CloseFile, Send, Reply, Answers
      <4>3. CASE Tool(p)
        BY <3>1, <4>3 DEF Tool, WriteOut, Complain, HeapCreate, HeapWrite, Exit
      <4>4. CASE Fails(p) \/ \E op \in Asked : Request(p, op)
        BY <3>1, <4>4 DEF Fails, ReadFails, FileError, Answers, Request
      <4> QED
        BY <4>2, <4>3, <4>4 DEF Step
    <3> QED
      BY <3>1, OthersStay
  <2>3. run[q] \in left' <=> run[q] \in left
    <3>1. CASE left' = left
      BY <3>1
    <3>2. CASE left' = left \cup {run[p]} /\ ReadFails(p)
      <4>1. pc[p].at = "exec" /\ q # p
        BY <2>1, <3>2 DEF ReadFails
      <4>2. run[p] \in 1..runs /\ runs \in Nat
        BY <4>1, Types DEF Reading, ReadingOf
      <4> QED
        BY <3>2, <4>1, <4>2 DEF Numbered
    <3> QED
      BY <3>1, <3>2, Leaving
  <2> QED
    BY <1>1, <2>1, <2>2, <2>3, Counting DEF ThreadDumpOwn
<1>2. CASE q = p /\ answer'[q] # answer[q]
  <2>1. /\ pc[p].at = "send" /\ pc[p].op = "threadDump" /\ run[p] \notin shared
        /\ answer'[p].run = run[p] /\ answer'[p].content = file["threadDump"].content
        /\ UNCHANGED <<left, printed>>
    BY <1>2, AnswerOf DEF Snapshot
  <2>2. file["threadDump"].content = Pieces(IF got[p] = Null THEN 0 ELSE got[p], run[p])
    BY <2>1 DEF Dump
  <2>3. (IF got[p] = Null THEN 0 ELSE got[p]) = IF run[p] \in left THEN 0 ELSE printed[p]
    BY <2>1 DEF Reading, ReadingOf
  <2> QED
    BY <1>2, <2>1, <2>2, <2>3
<1> QED
  BY <1>1, <1>2, OthersStay

-----------------------------------------------------------------------------
(* Types.                                                                  *)

LEMMA TypeControl ==
    ASSUME TypeOK, Reading, Numbered, NEW p \in Requester, Step(p)
    PROVE  /\ pc' \in [Requester -> {Idle} \cup
                      [op : Endpoint, at : {"start", "exec", "open", "write", "send", "reply"}]]
           /\ run' \in [Requester -> 0..MaxRuns] /\ got' \in [Requester -> Null..Size]
           /\ offset' \in [Requester -> 0..Size]
           /\ runs' \in 0..MaxRuns /\ shared' \subseteq 1..MaxRuns
<1> DEFINE Places == {"start", "exec", "open", "write", "send", "reply"}
<1>0. /\ ReadingOf(p) /\ pc \in [Requester -> {Idle} \cup [op : Endpoint, at : Places]]
      /\ run \in [Requester -> 0..MaxRuns] /\ got \in [Requester -> Null..Size]
      /\ offset \in [Requester -> 0..Size]
      /\ runs \in 0..MaxRuns /\ shared \subseteq 1..MaxRuns
  BY DEF Reading, TypeOK
<1>n. /\ Size \in Nat \ {0} /\ MaxRuns \in Nat /\ Null \in Null..Size /\ 0 \in Null..Size
      /\ child[p].stdout \in Nat /\ child[p].out \in Nat /\ got[p] \in Null..Size
      /\ printed[p] \in 0..Size
      /\ offset[p] \in 0..Size
  BY Types DEF Null
<1>g. ASSUME NEW at \in Places, Goto(p, at), pc[p].at # "idle"
      PROVE  pc' \in [Requester -> {Idle} \cup [op : Endpoint, at : Places]]
  <2>1. pc[p] \in [op : Endpoint, at : Places]
    BY <1>0, <1>g DEF Idle
  <2>2. [pc[p] EXCEPT !.at = at] \in [op : Endpoint, at : Places]
    BY <2>1
  <2> QED
    BY <1>0, <1>g, <2>2 DEF Goto
<1>1. CASE Start(p)
  <2>1. UNCHANGED <<run, offset, runs, shared>> /\ pc[p].at = "start"
        /\ (Goto(p, "exec") \/ Goto(p, After(pc[p].op)))
        /\ (got' = got \/ got' = [got EXCEPT ![p] = Null])
    BY <1>1 DEF Start, Exec, ExecFails
  <2>2. After(pc[p].op) \in Places
    BY DEF After
  <2> QED
    BY <1>0, <1>g, <1>n, <2>1, <2>2
<1>2. CASE ReadLine(p)
  <2>1. UNCHANGED <<pc, run, offset, runs, shared>> /\ got' = [got EXCEPT ![p] = @ + 1]
        /\ child[p].stdout > 0 /\ pc[p].at = "exec"
    BY <1>2 DEF ReadLine
  <2>2. got[p] + 1 \in Null..Size
    BY <1>0, <1>n, <2>1 DEF ReadingOf, Null
  <2> QED
    BY <1>0, <2>1, <2>2
<1>3. CASE Destroy(p) \/ OpenFile(p) \/ CloseFile(p) \/ ReadFails(p)
  <2>1. UNCHANGED <<run, offset, runs, shared>> /\ (got' = got \/ got' = [got EXCEPT ![p] = Null])
    BY <1>3 DEF Destroy, OpenFile, CloseFile, ReadFails
  <2>2. PICK at \in Places : Goto(p, at)
    BY <1>3 DEF Destroy, OpenFile, CloseFile, ReadFails, After
  <2>3. pc[p].at # "idle"
    BY <1>3 DEF Destroy, OpenFile, CloseFile, ReadFails
  <2> QED
    BY <1>0, <1>g, <1>n, <2>1, <2>2, <2>3
<1>4. CASE WriteFile(p)
  <2>1. UNCHANGED <<pc, run, got, runs, shared>> /\ offset' = [offset EXCEPT ![p] = @ + 1]
        /\ offset[p] < got[p]
    BY <1>4 DEF WriteFile
  <2>2. offset[p] + 1 \in 0..Size
    BY <1>n, <2>1 DEF Null
  <2> QED
    BY <1>0, <2>1, <2>2
<1>5. CASE Send(p) \/ Reply(p) \/ FileError(p)
  <2>1. /\ pc' = [pc EXCEPT ![p] = Idle] /\ UNCHANGED <<run, runs, shared>>
        /\ got' = [got EXCEPT ![p] = 0] /\ offset' = [offset EXCEPT ![p] = 0]
    BY <1>5 DEF Send, Reply, FileError, Answers
  <2> QED
    BY <1>0, <1>n, <2>1
<1>6. CASE Tool(p)
  <2>1. UNCHANGED <<pc, run, got, offset, runs, shared>>
    BY <1>6 DEF Tool, WriteOut, Complain, HeapCreate, HeapWrite, Exit
  <2> QED
    BY <1>0, <2>1
<1>7. CASE \E op \in Asked : Request(p, op)
  <2>1. PICK op \in Asked : Request(p, op)
    BY <1>7
  <2>2. /\ runs < MaxRuns /\ runs' = runs + 1 /\ UNCHANGED <<got, offset>>
        /\ pc' = [pc EXCEPT ![p] = [op |-> op, at |-> "start"]]
        /\ run' = [run EXCEPT ![p] = runs + 1]
        /\ shared' = IF Together(p, op) = {} THEN shared
                     ELSE shared \cup {runs + 1} \cup {run[q] : q \in Together(p, op)}
    BY <2>1 DEF Request
  <2>3. op \in Endpoint
    BY AskedAssumption
  <2>4. \A q \in Together(p, op) : run[q] \in 1..MaxRuns
    <3> SUFFICES ASSUME NEW q \in Requester, pc[q].op = op PROVE run[q] \in 1..MaxRuns
      BY DEF Together
    <3>1. ReadingOf(q)
      BY DEF Reading
    <3>2. pc[q].at # "idle"
      BY <2>3, StartOfOne DEF Endpoint, Snapshot, Idle
    <3> QED
      BY <1>0, <1>n, <3>1, <3>2 DEF ReadingOf
  <2>5. runs + 1 \in 1..MaxRuns
    BY <1>0, <1>n, <2>2
  <2>6. shared' \subseteq 1..MaxRuns
    BY <1>0, <2>2, <2>4, <2>5
  <2> QED
    BY <1>0, <2>2, <2>3, <2>5, <2>6
<1> QED
  BY <1>1, <1>2, <1>3, <1>4, <1>5, <1>6, <1>7 DEF Step, Serve, Fails

LEMMA TypeHistory ==
    ASSUME TypeOK, Numbered', NEW p \in Requester, Step(p), runs' \in 0..MaxRuns
    PROVE  /\ printed' \in [Requester -> 0..Size] /\ left' \subseteq 1..MaxRuns
           /\ heap' \in [run : 0..MaxRuns, size : 0..Size]
<1>0. /\ printed \in [Requester -> 0..Size] /\ heap \in [run : 0..MaxRuns, size : 0..Size]
      /\ run[p] \in 0..MaxRuns /\ child[p].dump \in 0..Size /\ Size \in Nat /\ MaxRuns \in Nat
  BY Types DEF TypeOK
<1>1. left' \subseteq 1..MaxRuns
  BY <1>0 DEF Numbered
<1>2. CASE Start(p)
  <2>1. heap' = heap
    BY <1>2 DEF Start
  <2>2. PICK n \in 0..Size : printed' = [printed EXCEPT ![p] = n]
    BY <1>0, <1>2 DEF Start, Exec, ExecFails
  <2> QED
    BY <1>0, <1>1, <2>1, <2>2
<1>3. CASE HeapCreate(p)
  <2>1. printed' = printed /\ heap' \in {heap, [run |-> run[p], size |-> child[p].dump]}
    BY <1>3 DEF HeapCreate
  <2> QED
    BY <1>0, <1>1, <2>1
<1>4. CASE ReadLine(p) \/ Destroy(p) \/ OpenFile(p) \/ WriteFile(p) \/ CloseFile(p) \/ Send(p) \/ Reply(p)
  BY <1>0, <1>1, <1>4 DEF ReadLine, Destroy, OpenFile, WriteFile, CloseFile, Send, Reply, Answers
<1>5. CASE WriteOut(p) \/ Complain(p) \/ HeapWrite(p) \/ Exit(p)
  BY <1>0, <1>1, <1>5 DEF WriteOut, Complain, HeapWrite, Exit
<1>6. CASE Fails(p) \/ \E op \in Asked : Request(p, op)
  BY <1>0, <1>1, <1>6 DEF Fails, ReadFails, FileError, Answers, Request
<1> QED
  BY <1>2, <1>3, <1>4, <1>5, <1>6 DEF Step, Serve, Tool

LEMMA TypeChild ==
    ASSUME TypeOK, NEW p \in Requester, Step(p)
    PROVE  child' \in [Requester -> [out : 0..Size, err : 0..MaxErr, opens : BOOLEAN, dump : 0..Size,
                                     stdout : 0..Pipe, stderr : 0..Pipe, alive : BOOLEAN]]
<1> DEFINE Children == [out : 0..Size, err : 0..MaxErr, opens : BOOLEAN, dump : 0..Size,
                        stdout : 0..Pipe, stderr : 0..Pipe, alive : BOOLEAN]
<1>0. child \in [Requester -> Children] /\ child[p] \in Children
  BY DEF TypeOK
<1>n. Size \in Nat \ {0} /\ Pipe \in Nat \ {0} /\ MaxErr \in Nat
  BY CommandsAssumption
<1>p. ASSUME NEW c \in Children, child' = [child EXCEPT ![p] = c] PROVE child' \in [Requester -> Children]
  BY <1>0, <1>p
<1>1. CASE Start(p)
  <2>1. CASE Exec(p)
    <3>1. PICK out \in 0..Size, dump \in 0..Size, err \in 0..MaxErr, opens \in BOOLEAN :
            /\ IF pc[p].op = "heapDump" THEN out = 0 ELSE ~opens
            /\ opens \/ dump = 0
            /\ child' = [child EXCEPT ![p] =
                  [out |-> out, err |-> err, opens |-> opens, dump |-> dump,
                   stdout |-> 0, stderr |-> 0, alive |-> TRUE]]
            /\ printed' = [printed EXCEPT ![p] = out]
      BY <2>1 DEF Exec
    <3>2. 0 \in 0..Pipe
      BY <1>n
    <3>3. [out |-> out, err |-> err, opens |-> opens, dump |-> dump,
           stdout |-> 0, stderr |-> 0, alive |-> TRUE] \in Children
      BY <1>n, <3>2
    <3> QED
      BY <1>p, <3>1, <3>3
  <2>2. CASE ExecFails(p)
    BY <1>0, <2>2 DEF ExecFails
  <2> QED
    BY <1>1, <2>1, <2>2 DEF Start
<1>2. CASE Destroy(p)
  <2>1. child' = [child EXCEPT ![p] = Gone] /\ Gone \in Children
    BY <1>2, <1>n DEF Destroy, Gone
  <2> QED
    BY <1>p, <2>1
<1>3. CASE ReadLine(p)
  <2>1. child' = [child EXCEPT ![p].stdout = @ - 1] /\ child[p].stdout > 0
    BY <1>3 DEF ReadLine
  <2>2. [child[p] EXCEPT !.stdout = @ - 1] \in Children
    BY <1>0, <1>n, <2>1
  <2> QED
    BY <1>p, <2>1, <2>2
<1>4. CASE WriteOut(p)
  <2>1. child' = [child EXCEPT ![p].out = @ - 1, ![p].stdout = @ + 1]
        /\ child[p].out > 0 /\ child[p].stdout < Pipe
    BY <1>4 DEF WriteOut
  <2>2. [child[p] EXCEPT !.out = @ - 1, !.stdout = @ + 1] \in Children
    BY <1>0, <1>n, <2>1
  <2> QED
    BY <1>0, <1>p, <2>1, <2>2
<1>5. CASE Complain(p)
  <2>1. child' = [child EXCEPT ![p].err = @ - 1, ![p].stderr = @ + 1]
        /\ child[p].err > 0 /\ child[p].stderr < Pipe
    BY <1>5 DEF Complain
  <2>2. [child[p] EXCEPT !.err = @ - 1, !.stderr = @ + 1] \in Children
    BY <1>0, <1>n, <2>1
  <2> QED
    BY <1>0, <1>p, <2>1, <2>2
<1>6. CASE HeapCreate(p)
  <2>1. \/ child' = [child EXCEPT ![p].opens = FALSE, ![p].dump = 0]
        \/ child' = [child EXCEPT ![p].opens = FALSE]
    BY <1>6 DEF HeapCreate
  <2>2. [child[p] EXCEPT !.opens = FALSE] \in Children
    BY <1>0
  <2>3. [child[p] EXCEPT !.opens = FALSE, !.dump = 0] \in Children
    <3>1. 0 \in 0..Size
      BY <1>n
    <3> QED
      BY <1>0, <2>2, <3>1
  <2> QED
    BY <1>p, <1>0, <2>1, <2>2, <2>3
<1>10. CASE HeapWrite(p)
  <2>1. child' = [child EXCEPT ![p].dump = @ - 1] /\ child[p].dump > 0
    BY <1>10 DEF HeapWrite
  <2>2. [child[p] EXCEPT !.dump = @ - 1] \in Children
    BY <1>0, <1>n, <2>1
  <2> QED
    BY <1>p, <2>1, <2>2
<1>7. CASE Exit(p)
  <2>1. child' = [child EXCEPT ![p] = IF pc[p].at = "exec" THEN [@ EXCEPT !.alive = FALSE] ELSE Gone]
    BY <1>7 DEF Exit
  <2>2. [child[p] EXCEPT !.alive = FALSE] \in Children
    BY <1>0
  <2>3. Gone \in Children
    BY <1>n DEF Gone
  <2> QED
    BY <1>0, <2>1, <2>2, <2>3
<1>8. CASE UNCHANGED child
  BY <1>0, <1>8
<1>9. CASE OpenFile(p) \/ WriteFile(p) \/ CloseFile(p) \/ Send(p) \/ Reply(p)
             \/ Fails(p) \/ \E op \in Asked : Request(p, op)
  BY <1>8, <1>9 DEF OpenFile, WriteFile, CloseFile, Send, Reply, Fails, ReadFails, FileError, Answers, Request
<1> QED
  BY <1>1, <1>2, <1>3, <1>4, <1>5, <1>6, <1>10, <1>7, <1>9 DEF Step, Serve, Tool

LEMMA TypeFile ==
    ASSUME TypeOK, Reading, Heap', NEW p \in Requester, Step(p),
           heap' \in [run : 0..MaxRuns, size : 0..Size], child'[p].dump \in 0..Size
    PROVE  /\ file' \in [Snapshot -> [exists : BOOLEAN, content : Seq(0..MaxRuns)]]
           /\ \A op \in Snapshot : Len(file'[op].content) <= Size
<1> DEFINE Files == [exists : BOOLEAN, content : Seq(0..MaxRuns)]
           h == file["heapDump"]
           t == file["threadDump"]
<1>0. /\ file \in [Snapshot -> Files] /\ h \in Files /\ t \in Files
      /\ Len(h.content) <= Size /\ Len(t.content) <= Size
  BY DEF TypeOK, Snapshot
<1>n. /\ Size \in Nat \ {0} /\ MaxRuns \in Nat /\ run[p] \in 0..MaxRuns
      /\ offset[p] \in 0..Size /\ got[p] \in Null..Size
  BY Types
<1>1. CASE OpenFile(p)
  <2>1. file' = [file EXCEPT !["threadDump"] = [exists |-> TRUE, content |-> << >>]]
    BY <1>1 DEF OpenFile
  <2>2. [exists |-> TRUE, content |-> << >>] \in Files /\ Len(<< >>) = 0
    OBVIOUS
  <2>3. file' \in [Snapshot -> Files] /\ t'.content = << >> /\ h' = h
    BY <1>0, <2>1, <2>2 DEF Snapshot
  <2> QED
    BY <1>0, <1>n, <2>2, <2>3 DEF Snapshot
<1>2. CASE WriteFile(p)
  <2> DEFINE c == Put(t.content, offset[p] + 1, run[p])
  <2>1. file' = [file EXCEPT !["threadDump"].content = c] /\ offset[p] < got[p]
    BY <1>2 DEF WriteFile
  <2>2. offset[p] + 1 \in 1..Size
    BY <1>n, <2>1 DEF Null
  <2>3. c \in Seq(0..MaxRuns) /\ Len(c) <= Size
    BY <1>0, <1>n, <2>2, PutType
  <2>4. [t EXCEPT !.content = c] \in Files /\ [t EXCEPT !.content = c].content = c
    BY <1>0, <2>3
  <2>5. file' \in [Snapshot -> Files] /\ t' = [t EXCEPT !.content = c] /\ h' = h
    BY <1>0, <2>1, <2>4 DEF Snapshot
  <2> QED
    BY <1>0, <2>3, <2>4, <2>5 DEF Snapshot
<1>3. CASE HeapCreate(p) \/ HeapWrite(p)
  <2>1. h'.content \in Seq(0..MaxRuns) /\ Len(h'.content) <= Size
    <3>0. heap'.size \in 0..Size /\ heap'.run \in 0..MaxRuns
      OBVIOUS
    <3>1. CASE ~h'.exists
      <4>1. h'.content = << >>
        BY <3>1 DEF Heap
      <4> QED
        BY <1>n, <4>1
    <3>2. CASE h'.exists
      <4>1. PICK n \in 0..Size : h'.content = Pieces(n, heap'.run)
        <5>1. CASE \A q \in Requester : ~Writing(q)'
          BY <3>0, <3>2, <5>1 DEF Heap
        <5>2. ASSUME NEW q \in Requester, Writing(q)'
              PROVE  \E n \in 0..Size : h'.content = Pieces(n, heap'.run)
          <6>1. child'[q].dump <= heap'.size /\ h'.content = Pieces(heap'.size - child'[q].dump, heap'.run)
            BY <5>2 DEF Heap
          <6>2. child'[q].dump \in 0..Size
            BY Types, OthersStay
          <6>3. heap'.size - child'[q].dump \in 0..Size
            BY <1>n, <3>0, <6>1, <6>2
          <6> QED
            BY <6>1, <6>3
        <5> QED
          BY <5>1, <5>2
      <4>2. Pieces(n, heap'.run) \in Seq(0..MaxRuns) /\ Len(Pieces(n, heap'.run)) = n
        BY <1>n, <3>0, <4>1, PiecesType
      <4> QED
        BY <1>n, <4>1, <4>2
    <3> QED
      BY <3>1, <3>2
  <2>2. \/ file' = file
        \/ file' = [file EXCEPT !["heapDump"] = [exists |-> TRUE, content |-> << >>]]
        \/ file' = [file EXCEPT !["heapDump"].content = Append(@, run[p])]
    BY <1>3 DEF HeapCreate, HeapWrite
  <2>3. [exists |-> TRUE, content |-> << >>] \in Files
        /\ [h EXCEPT !.content = Append(@, run[p])] \in Files
    <3>1. << >> \in Seq(0..MaxRuns) /\ Append(h.content, run[p]) \in Seq(0..MaxRuns)
      BY <1>0, <1>n
    <3> QED
      BY <1>0, <3>1
  <2>4. file' \in [Snapshot -> Files] /\ t' = t
    BY <1>0, <2>2, <2>3 DEF Snapshot
  <2> QED
    BY <1>0, <2>1, <2>4 DEF Snapshot
<1>4. CASE file' = file
  BY <1>0, <1>4 DEF Snapshot
<1>5. CASE Start(p) \/ ReadLine(p) \/ Destroy(p) \/ CloseFile(p) \/ Send(p) \/ Reply(p)
             \/ WriteOut(p) \/ Complain(p) \/ Exit(p) \/ Fails(p) \/ \E op \in Asked : Request(p, op)
  BY <1>4, <1>5 DEF Fails, ReadFails, FileError, Start, ReadLine, Destroy, CloseFile, Send, Reply, Answers, WriteOut, Complain,
                    Exit, Request
<1> QED
  BY <1>1, <1>2, <1>3, <1>5 DEF Step, Serve, Tool

LEMMA TypeAnswer ==
    ASSUME TypeOK, Reading, NEW p \in Requester, Step(p)
    PROVE  answer' \in [Requester -> {NoAnswer} \cup
              [op : Endpoint, run : 1..MaxRuns, ok : BOOLEAN, content : Seq(0..MaxRuns)]]
<1> DEFINE Answered == [op : Endpoint, run : 1..MaxRuns, ok : BOOLEAN, content : Seq(0..MaxRuns)]
<1>0. answer \in [Requester -> {NoAnswer} \cup Answered] /\ ReadingOf(p)
  BY DEF TypeOK, Reading
<1>1. ASSUME NEW content \in Seq(0..MaxRuns), NEW ok \in BOOLEAN, Answers(p, content, ok),
             pc[p].at \in {"open", "write", "send", "reply"}
      PROVE  answer' \in [Requester -> {NoAnswer} \cup Answered]
  <2>1. pc[p].op \in Endpoint
    BY <1>1, StartOfOne
  <2>2. run[p] \in 1..MaxRuns
    BY <1>0, <1>1, Types DEF ReadingOf
  <2>3. [op |-> pc[p].op, run |-> run[p], content |-> content, ok |-> ok] \in Answered
    BY <2>1, <2>2
  <2> QED
    BY <1>0, <1>1, <2>3 DEF Answers
<1>2. CASE Send(p)
  <2>1. pc[p].op \in Snapshot /\ pc[p].at = "send"
    BY <1>0, <1>2 DEF ReadingOf, Send
  <2>2. file[pc[p].op] \in [exists : BOOLEAN, content : Seq(0..MaxRuns)]
    BY <2>1 DEF TypeOK
  <2>3. file[pc[p].op].content \in Seq(0..MaxRuns) /\ file[pc[p].op].exists \in BOOLEAN
    BY <2>2
  <2> QED
    BY <1>1, <1>2, <2>1, <2>3 DEF Send
<1>3. CASE Reply(p)
  <2> DEFINE content == Pieces(got[p], run[p])
             ok == CASE pc[p].op = "runexec" -> TRUE
                     [] pc[p].op = "thread" -> got[p] # Null
                     [] pc[p].op = "stat" -> got[p] \notin {Null, 0}
  <2>1. pc[p].op \in {"thread", "stat", "runexec"} /\ pc[p].at = "reply"
    <3>1. pc[p].at = "reply"
      BY <1>3 DEF Reply
    <3>2. pc[p].op \in Endpoint /\ pc[p].op \notin Snapshot
      BY <1>0, <3>1, StartOfOne DEF ReadingOf
    <3> QED
      BY <3>1, <3>2 DEF Endpoint
  <2>2. ok \in BOOLEAN
    <3>1. CASE pc[p].op = "runexec"
      <4>1. ok = TRUE
        BY <3>1
      <4> QED
        BY <4>1
    <3>2. CASE pc[p].op = "thread"
      <4>1. ok = (got[p] # Null)
        BY <3>2
      <4> QED
        BY <4>1
    <3>3. CASE pc[p].op = "stat"
      <4>1. ok = (got[p] \notin {Null, 0})
        BY <3>3
      <4> QED
        BY <4>1
    <3> QED
      BY <2>1, <3>1, <3>2, <3>3
  <2>3. content \in Seq(0..MaxRuns)
    <3>1. got[p] \in Null..Size /\ run[p] \in 0..MaxRuns /\ Size \in Nat
      BY Types
    <3>2. CASE got[p] = Null
      BY <3>1, <3>2 DEF Null, Pieces
    <3>3. CASE got[p] \in Nat
      BY <3>1, <3>3, PiecesType
    <3> QED
      BY <3>1, <3>2, <3>3 DEF Null
  <2>4. Answers(p, content, ok)
    BY <1>3 DEF Reply
  <2> QED
    BY <1>1, <2>1, <2>2, <2>3, <2>4
<1>4. CASE \E op \in Asked : Request(p, op)
  <2>1. answer' = [answer EXCEPT ![p] = NoAnswer]
    BY <1>4 DEF Request
  <2> QED
    BY <1>0, <2>1
<1>5. CASE Start(p) \/ ReadLine(p) \/ Destroy(p) \/ OpenFile(p) \/ WriteFile(p) \/ CloseFile(p) \/ Tool(p)
  BY <1>0, <1>5 DEF Start, ReadLine, Destroy, OpenFile, WriteFile, CloseFile, Tool, WriteOut,
                    Complain, HeapCreate, HeapWrite, Exit
<1>6. CASE FileError(p)
  <2>1. Answers(p, << >>, FALSE) /\ pc[p].at \in {"open", "write", "send", "reply"}
    BY <1>6 DEF FileError
  <2>2. << >> \in Seq(0..MaxRuns) /\ FALSE \in BOOLEAN
    OBVIOUS
  <2> QED
    BY <1>1, <2>1, <2>2
<1>7. CASE ReadFails(p)
  BY <1>0, <1>7 DEF ReadFails
<1> QED
  BY <1>2, <1>3, <1>4, <1>5, <1>6, <1>7 DEF Step, Serve, Fails

-----------------------------------------------------------------------------
(* The theorems.                                                           *)

IInv == TypeOK /\ Reading /\ Numbered /\ Heap /\ Exclusive /\ Dump /\ Kept /\ HeapDumpFirst /\ ThreadDumpOwn

LEMMA IInvInit == Init => IInv
<1> SUFFICES ASSUME Init PROVE IInv
  OBVIOUS
<1>n. Size \in Nat \ {0} /\ Pipe \in Nat \ {0} /\ MaxErr \in Nat /\ MaxRuns \in Nat
  BY CommandsAssumption
<1>1. TypeOK
  <2>1. Gone \in [out : 0..Size, err : 0..MaxErr, opens : BOOLEAN, dump : 0..Size,
                  stdout : 0..Pipe, stderr : 0..Pipe, alive : BOOLEAN]
    BY <1>n DEF Gone
  <2>2. NoFile \in [exists : BOOLEAN, content : Seq(0..MaxRuns)] /\ Len(NoFile.content) = 0
    BY DEF NoFile
  <2>3. [run |-> 0, size |-> 0] \in [run : 0..MaxRuns, size : 0..Size]
    BY <1>n
  <2> QED
    BY <1>n, <2>1, <2>2, <2>3 DEF Init, TypeOK, Null
<1>2. \A p \in Requester : pc[p] = Idle /\ child[p] = Gone /\ got[p] = 0 /\ offset[p] = 0
                            /\ answer[p] = NoAnswer
  BY DEF Init
<1>0. Gone.dump = 0 /\ Gone.out = 0 /\ ~Gone.opens /\ Idle.at = "idle" /\ Idle.op = "none"
  BY DEF Gone, Idle
<1>3. Reading
  <2> SUFFICES ASSUME NEW p \in Requester PROVE ReadingOf(p)
    BY DEF Reading
  <2>1. /\ child[p] = Gone /\ child[p].dump = 0 /\ child[p].out = 0 /\ ~child[p].opens /\ pc[p].at = "idle"
        /\ got[p] = 0 /\ offset[p] = 0
    BY <1>0, <1>2
  <2> QED
    BY <2>1 DEF ReadingOf
<1>4. \A p \in Requester : ~Writing(p)
  <2> SUFFICES ASSUME NEW p \in Requester PROVE ~(child[p].dump > 0)
    BY DEF Writing
  <2>1. child[p] = Gone /\ Gone.dump = 0
    BY <1>0, <1>2
  <2>2. child[p].dump = 0
    BY <2>1
  <2> QED
    BY <2>2
<1>5. Heap
  BY <1>4 DEF Heap, Init, Snapshot, NoFile
<1>7. Numbered
  BY <1>2 DEF Init, Numbered, NoAnswer, Idle
<1>6. Exclusive /\ Dump /\ Kept /\ HeapDumpFirst /\ ThreadDumpOwn
  BY <1>2 DEF Exclusive, Dump, Kept, HeapDumpFirst, ThreadDumpOwn, Idle, NoAnswer, Snapshot
<1> QED
  BY <1>1, <1>3, <1>5, <1>6, <1>7 DEF IInv

LEMMA IInvStep == IInv /\ [Next]_vars => IInv'
<1> SUFFICES ASSUME IInv, [Next]_vars PROVE IInv'
  OBVIOUS
<1>1. CASE UNCHANGED vars
  BY <1>1 DEF IInv, vars, TypeOK, Reading, ReadingOf, Numbered, Heap, Writing, Exclusive, Dump, Kept,
              HeapDumpFirst, ThreadDumpOwn
<1>2. CASE Next
  <2>1. PICK p \in Requester : Step(p)
    BY <1>2 DEF Next, Step
  <2>2. /\ Reading' /\ Numbered' /\ Heap' /\ Exclusive' /\ Dump' /\ Kept'
        /\ HeapDumpFirst' /\ ThreadDumpOwn'
    BY <2>1, ReadingStep, NumberedStep, HeapStep, ExclusiveStep, DumpStep, KeptStep, HeapAnswered,
       DumpAnswered DEF IInv
  <2>3. TypeOK'
    <3>1. child' \in [Requester -> [out : 0..Size, err : 0..MaxErr, opens : BOOLEAN, dump : 0..Size,
                                    stdout : 0..Pipe, stderr : 0..Pipe, alive : BOOLEAN]]
      BY <2>1, TypeChild DEF IInv
    <3>2. child'[p].dump \in 0..Size
      BY <3>1
    <3>3. /\ pc' \in [Requester -> {Idle} \cup
                      [op : Endpoint, at : {"start", "exec", "open", "write", "send", "reply"}]]
          /\ run' \in [Requester -> 0..MaxRuns] /\ got' \in [Requester -> Null..Size]
          /\ offset' \in [Requester -> 0..Size]
          /\ runs' \in 0..MaxRuns /\ shared' \subseteq 1..MaxRuns
      BY <2>1, TypeControl DEF IInv
    <3>4. /\ printed' \in [Requester -> 0..Size] /\ left' \subseteq 1..MaxRuns
          /\ heap' \in [run : 0..MaxRuns, size : 0..Size]
      BY <2>1, <2>2, <3>3, TypeHistory DEF IInv
    <3>5. /\ file' \in [Snapshot -> [exists : BOOLEAN, content : Seq(0..MaxRuns)]]
          /\ \A op \in Snapshot : Len(file'[op].content) <= Size
      BY <2>1, <2>2, <3>2, <3>4, TypeFile DEF IInv
    <3> QED
      BY <2>1, <3>1, <3>3, <3>4, <3>5, TypeAnswer DEF IInv, TypeOK
  <2> QED
    BY <2>2, <2>3 DEF IInv
<1> QED
  BY <1>1, <1>2

LEMMA Invariance == Spec => []IInv
  BY IInvInit, IInvStep, PTL DEF Spec

\* Every variable keeps its type: in particular a file never grows beyond one
\* dump, whoever writes into it.
THEOREM Typing == Spec => []TypeOK
<1>1. IInv => TypeOK
  BY DEF IInv
<1> QED
  BY <1>1, Invariance, PTL

\* FileController.heapDump: every heap dump that is served is, or begins, the one
\* taken first, and a request that no other one disturbs gets all of that, however
\* much of it jmap wrote, unless that jmap was left running.
THEOREM HeapDumpFirstHolds == Spec => []HeapDumpFirst
<1>1. IInv => HeapDumpFirst
  BY DEF IInv
<1> QED
  BY <1>1, Invariance, PTL

\* FileController.threadDump, for a request that no other one shares the file
\* with: what jstack printed for it and nothing else, be it the whole dump or not,
\* or nothing if it could not be read to the end.
THEOREM ThreadDumpOwnHolds == Spec => []ThreadDumpOwn
<1>1. IInv => ThreadDumpOwn
  BY DEF IInv
<1> QED
  BY <1>1, Invariance, PTL
=============================================================================
