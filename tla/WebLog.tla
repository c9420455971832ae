-------------------------------- MODULE WebLog --------------------------------
(***************************************************************************)
(* The log page of the monitor: browser, monitor and monitored application *)
(* together.  A page sends a message; the monitor asks the log reader of   *)
(* the application (module LogReader) over HTTP and broadcasts the answer  *)
(* to every page that is open; each page that gets it sends the next       *)
(* message half a second later.  Nothing but an answer makes a page send.  *)
(*                                                                         *)
(* Source: templates/weblog.html, WebSocketController.weblog,              *)
(* HttpUtil.URLGet, and what LogReader models.  All pages watch the same   *)
(* application.                                                            *)
(***************************************************************************)
EXTENDS Naturals, Sequences, FiniteSets, Functions

CONSTANTS
    Poller, Capacity, MaxLines, MaxFiles,   \* of LogReader
    Page,           \* log pages; a reloaded page is a new one
    Handlers,       \* HTTP requests the monitor can wait for at the same time
    MaxChains       \* bound: messages, requests and timeouts under way

ASSUME PageAssumption ==
    /\ IsFiniteSet(Page) /\ IsFiniteSet(Poller)
    /\ Handlers \in Nat /\ MaxChains \in Nat /\ MaxLines \in Nat
    /\ Capacity \in Nat \ {0} /\ MaxFiles \in Nat \ {0}

VARIABLES
    files, written, lastTimeFileSize, query, pc, size, handle,
    newest, taken, late, failed, broken, shared,    \* of LogReader
    page,           \* life of each page
    timer,          \* pages that will send a message, once for each timeout set
    sent,           \* number of messages the monitor has not handled yet
    asked,          \* what has become of the request each thread works for
    reply,          \* the answer, once there is one
    lost,           \* history: an answer was lost, as a request has ended without
                    \* one or a page had not subscribed in time
    crowded,        \* history: two pages were there at the same time
    solo            \* history: the lines shown while one page has been opened; what an
                    \* I/O error makes it show again is left out

agent == <<files, written, lastTimeFileSize, query, pc, size, handle,
           newest, taken, late, failed, broken, shared>>
monitor == <<sent, asked, reply, lost>>
browser == <<page, timer, crowded, solo>>
vars == <<agent, monitor, browser>>

Agent == INSTANCE LogReader

\* A page connects, subscribes (and sends), and receives.
Connecting == {v \in Page : page[v] = "connecting"}
Joining == {v \in Page : page[v] = "joining"}
Open == {v \in Page : page[v] = "open"}
Live == Connecting \cup Joining \cup Open
Opened == {v \in Page : page[v] # "new"}
Waiting == {p \in Poller : asked[p] \in {"waiting", "answered"}}
NoNews == 0     \* the text that says there is no new line

\* The timeouts that are set, as a set; connections that are being made, messages,
\* requests and timeouts.
Timeouts == UNION {{v} \X (1..timer[v]) : v \in Page}
Chains == Cardinality(Connecting) + sent + Cardinality(Waiting) + Cardinality(Timeouts)

Lives == {"new", "connecting", "joining", "open", "closed"}

TypeOK ==
    /\ page \in [Page -> Lives]
    /\ timer \in [Page -> 0..MaxChains]
    /\ sent \in 0..(MaxChains + Cardinality(Page))
    /\ asked \in [Poller -> {"none", "waiting", "answered", "gone"}]
    /\ reply \in [Poller -> 0..MaxLines]
    /\ lost \in BOOLEAN /\ crowded \in BOOLEAN
    /\ solo \in Seq(1..MaxLines)
    /\ \A p \in Poller : (asked[p] \in {"waiting", "gone"}) <=> (pc[p] # "idle")
    /\ \A v \in Page \ Open : timer[v] = 0
    /\ Cardinality(Waiting) <= Handlers

Init ==
    /\ Agent!Init
    /\ page = [v \in Page |-> "new"]
    /\ timer = [v \in Page |-> 0]
    /\ sent = 0
    /\ asked = [p \in Poller |-> "none"]
    /\ reply = [p \in Poller |-> NoNews]
    /\ lost = FALSE /\ crowded = FALSE /\ solo = << >>

-----------------------------------------------------------------------------
(* The browser.                                                            *)

OpenPage(v) ==
    /\ page[v] = "new"
    /\ page' = [page EXCEPT ![v] = "connecting"]
    /\ crowded' = (crowded \/ Live # {})
    /\ UNCHANGED <<agent, monitor, timer, solo>>

\* The callback of connect: subscribe, send.  The monitor handles the two messages
\* in threads of their own, in any order.
Connect(v) ==
    /\ page[v] = "connecting"
    /\ page' = [page EXCEPT ![v] = "joining"]
    /\ sent' = sent + 1
    /\ UNCHANGED <<agent, timer, asked, reply, lost, crowded, solo>>

\* The broker registers the subscription.
Subscribe(v) ==
    /\ page[v] = "joining"
    /\ page' = [page EXCEPT ![v] = "open"]
    /\ UNCHANGED <<agent, monitor, timer, crowded, solo>>

\* Mutant: the timeouts of a closed page are left to fire.
CloseKeepsTimeouts(v) ==
    /\ v \in Live
    /\ page' = [page EXCEPT ![v] = "closed"]
    /\ UNCHANGED <<agent, monitor, timer, crowded, solo>>

\* The page is left or reloaded, or its connection is lost: the page has no handler
\* for that, does not connect again, and what its timeouts send comes to nothing.
ClosePage(v) ==
    /\ v \in Live
    /\ page' = [page EXCEPT ![v] = "closed"]
    /\ timer' = [timer EXCEPT ![v] = 0]
    /\ UNCHANGED <<agent, monitor, crowded, solo>>

\* Mutant: a timer that repeats, as setInterval sets it.
TimeoutRepeats(v) ==
    /\ timer[v] > 0 /\ sent < MaxChains
    /\ sent' = sent + 1
    /\ UNCHANGED <<agent, page, timer, asked, reply, lost, crowded, solo>>

TimeoutFires(v) ==
    /\ timer[v] > 0
    /\ timer' = [timer EXCEPT ![v] = @ - 1]
    /\ sent' = sent + 1
    /\ UNCHANGED <<agent, page, asked, reply, lost, crowded, solo>>

-----------------------------------------------------------------------------
(* The monitor: weblog(url), one handler thread per message.               *)

\* URLGet sends the request.
Ask(p) ==
    /\ sent > 0 /\ Cardinality(Waiting) < Handlers
    /\ asked[p] = "none"
    /\ sent' = sent - 1
    /\ asked' = [asked EXCEPT ![p] = "waiting"]
    /\ Agent!Request(p)
    /\ UNCHANGED <<reply, lost, browser>>

Abandoned(p) == [asked EXCEPT ![p] = IF @ = "waiting" THEN "gone" ELSE "none"]

\* Mutant: a request that has timed out is sent again.
TimeoutRetried(p) ==
    /\ asked[p] \in {"waiting", "answered"}
    /\ asked' = Abandoned(p)
    /\ reply' = [reply EXCEPT ![p] = NoNews]
    /\ sent' = sent + 1
    /\ UNCHANGED <<agent, lost, browser>>

\* The socket timeout of 25 s, or a connection error: URLGet returns "",
\* parseObject null, and containsKey throws.  Nothing is broadcast.  The
\* request thread of the application goes on.
Timeout(p) ==
    /\ asked[p] \in {"waiting", "answered"}
    /\ asked' = Abandoned(p)
    /\ reply' = [reply EXCEPT ![p] = NoNews]
    /\ lost' = TRUE
    /\ UNCHANGED <<agent, sent, browser>>

Again(line) == broken /\ line \in Range(solo)
Shown(line) ==
    solo' = IF Cardinality(Opened) = 1 /\ Open # {} /\ line # NoNews /\ ~Again(line)
              THEN Append(solo, line) ELSE solo

\* Mutant: the pages get a message only if there is a line.
BroadcastNews(p) ==
    /\ asked[p] = "answered" /\ Chains + Cardinality(Open) <= MaxChains + 1
    /\ timer' = [v \in Page |-> IF v \in Open /\ reply[p] # NoNews THEN timer[v] + 1 ELSE timer[v]]
    /\ Shown(reply[p])
    /\ asked' = [asked EXCEPT ![p] = "none"]
    /\ reply' = [reply EXCEPT ![p] = NoNews]
    /\ lost' = (lost \/ Joining # {})
    /\ UNCHANGED <<agent, page, sent, crowded>>

\* The line, or the text for no news, goes to /topic/weblog: every page that has
\* subscribed appends it and sets its next timeout.
Broadcast(p) ==
    /\ asked[p] = "answered" /\ Chains + Cardinality(Open) <= MaxChains + 1
    /\ timer' = [v \in Page |-> IF v \in Open THEN timer[v] + 1 ELSE timer[v]]
    /\ Shown(reply[p])
    /\ asked' = [asked EXCEPT ![p] = "none"]
    /\ reply' = [reply EXCEPT ![p] = NoNews]
    /\ lost' = (lost \/ Joining # {})
    /\ UNCHANGED <<agent, page, sent, crowded>>

-----------------------------------------------------------------------------
(* The application.                                                        *)

\* Request thread p is done: its answer reaches the monitor, or nobody.
Finish(p, line) ==
    /\ asked' = [asked EXCEPT ![p] = IF @ = "waiting" THEN "answered" ELSE "none"]
    /\ reply' = [reply EXCEPT ![p] = IF asked[p] = "waiting" THEN line ELSE NoNews]
    /\ UNCHANGED <<sent, lost, browser>>

Answer(p) == Agent!Take(p) /\ Finish(p, Head(query))

\* A poll that fails is answered too, by Res.error, which holds no line.
Read(p) ==
    /\ Agent!ReadLine(p)
    /\ IF pc'[p] = "idle" THEN Finish(p, NoNews) ELSE UNCHANGED <<monitor, browser>>

Run(p) ==
    /\ \/ Agent!ReadLength(p) \/ Agent!CompareShrunk(p) \/ Agent!CompareGrown(p)
       \/ Agent!Seek(p) \/ Agent!Mark(p) \/ Agent!PrintStackTrace(p)
    /\ UNCHANGED <<monitor, browser>>

\* An I/O error, after which the request goes on to take.
ReadError(p) == Agent!Fails(p) /\ UNCHANGED <<monitor, browser>>

Log == (Agent!Write \/ Agent!Rotate) /\ UNCHANGED <<monitor, browser>>

-----------------------------------------------------------------------------
Serve(p) == Read(p) \/ Run(p) \/ Answer(p)

Next ==
    \/ Log
    \/ \E v \in Page : \/ OpenPage(v) \/ Connect(v) \/ Subscribe(v) \/ TimeoutFires(v)
                      \/ ClosePage(v)
    \/ \E p \in Poller : Ask(p) \/ Timeout(p) \/ Broadcast(p) \/ Serve(p) \/ ReadError(p)

Spec == Init /\ [][Next]_vars

\* Connections are made, timeouts fire, handlers and request threads run on, and no
\* request is waited for longer than the socket timeout.
Fairness ==
    /\ \A v \in Page : WF_vars(Connect(v)) /\ WF_vars(Subscribe(v)) /\ WF_vars(TimeoutFires(v))
    /\ \A p \in Poller : WF_vars(Serve(p)) /\ WF_vars(Timeout(p)) /\ WF_vars(Broadcast(p))
    /\ WF_vars(\E p \in Poller : Ask(p))

FairSpec == Spec /\ Fairness

-----------------------------------------------------------------------------
(* Properties.                                                             *)

\* No page dies as long as its connection holds and no answer is lost: there is a
\* message, a request or a timeout for each page that is there, or its connection
\* is still being made.
PagesGoOn == ~lost => Chains >= Cardinality(Live)

\* As long as no two pages are there at the same time, each page that was opened
\* adds at most one chain of messages, requests and timeouts; a reload adds one,
\* as the new page gets the answer the old one asked for.
ChainsBound == ~crowded => Chains <= Cardinality(Opened)

\* The only page keeps the one request: the application never has two of them
\* in run at the same time, so that what LogReader promises to serial requests
\* holds for it.
OnePageIsSerial == Cardinality(Opened) <= 1 => ~shared

\* A page that has been the only one, whose connection holds and to which no answer
\* was lost, shows all that counts as read, but what is in the queue or on its
\* way, and what LogReader loses: nothing is lost between the application and the
\* page.
OnTheWay == {reply[p] : p \in Waiting}
PageShowsWhatIsRead ==
    Open # {} /\ Cardinality(Opened) = 1 /\ ~lost /\ Agent!Current = 1 =>
        \A i \in 1..lastTimeFileSize :
            i \in Range(solo) \cup OnTheWay \cup late \/ Agent!Queued(i)

\* What a page that has been the only one shows implements Feed, even if the
\* log is rotated, the queue is full, requests time out or the connection is lost;
\* an I/O error in the middle of the lines disturbs it.
F == INSTANCE Feed WITH shown <- solo, undisturbed <- ~broken
FeedImplemented == F!Spec
=============================================================================
