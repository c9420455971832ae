\* Two requests, at the same time or one after the other; error output that does
\* not fit the pipe.
CONSTANTS
    Requester = {p1, p2}
    Asked = {"threadDump", "heapDump", "runexec"}
    Pipe = 1
    Size = 2
    MaxErr = 2
    MaxRuns = 2
SPECIFICATION FairSpec
CONSTRAINT FirstComesFirst
INVARIANTS TypeOK ThreadDumpOwn HeapDumpFirst
PROPERTIES CommandEnds
CHECK_DEADLOCK FALSE
