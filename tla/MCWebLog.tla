------------------------------ MODULE MCWebLog ------------------------------
(* TLC instances of WebLog.                                                 *)
EXTENDS WebLog, TLC

\* Request threads are interchangeable, and so are pages.
Symmetry == Permutations(Poller) \cup Permutations(Page)

\* Bound: two lines, or one and a rotation.
SmallLog == written + Len(files) <= 3

\* A quiet application, which logs nothing as long as the monitor waits for it.  No
\* page is late with its subscription, the log can be read, and a request takes too
\* long only if it waits in take for a line to answer it with.
NoLine(p) == pc[p] = "take" /\ query = << >>
QuietNext ==
    \/ (Waiting = {} /\ Log)
    \/ \E v \in Page : \/ OpenPage(v) \/ Connect(v) \/ Subscribe(v) \/ TimeoutFires(v)
                      \/ ClosePage(v)
    \/ \E p \in Poller : \/ Ask(p) \/ Serve(p)
                        \/ (Joining = {} /\ Broadcast(p))
                        \/ (NoLine(p) /\ Timeout(p))
QuietFairness ==
    /\ \A v \in Page : WF_vars(Connect(v)) /\ WF_vars(Subscribe(v)) /\ WF_vars(TimeoutFires(v))
    /\ \A p \in Poller : /\ WF_vars(Serve(p)) /\ WF_vars(Joining = {} /\ Broadcast(p))
                        /\ WF_vars(NoLine(p) /\ Timeout(p))
    /\ WF_vars(\E p \in Poller : Ask(p))
QuietSpec == Init /\ [][QuietNext]_vars /\ QuietFairness

\* The page shows the log in real time (weblog.html line 39, "实时日志"): while
\* it is open, lines that are written are read sooner or later.
OpenPageShowsLog == (Open # {} /\ Agent!Unread) ~> (Open = {} \/ ~Agent!Unread)
=============================================================================
