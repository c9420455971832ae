------------------------------ MODULE ChartFeed -------------------------------
(***************************************************************************)
(* The page monitor.html: browser, monitor and tables together.  For each  *)
(* topic the page opens a connection, subscribes and sends a query; the    *)
(* monitor reads the rows of the page's application and broadcasts them to *)
(* every subscriber of the topic; who gets them draws its charts (module   *)
(* Charts) and sends the next query when the refresh interval is over.     *)
(* Nothing but an answer that was drawn to the end makes a page send.      *)
(*                                                                         *)
(* Source: static/js, templates/monitor.html, WebSocketController and the  *)
(* services it reads from.  The interval itself is left out: a timeout may *)
(* fire at any time.                                                       *)
(***************************************************************************)
EXTENDS Charts, FiniteSets

CONSTANTS
    Page,           \* pages; a reloaded page is a new one
    App,            \* monitored applications
    Topic,          \* of the topics of Row
    Handler,        \* threads of the monitor that handle messages
    MaxSamples,     \* bound: rows written for an application and topic
    MaxChains,      \* bound: messages, queries and timeouts under way; connections
    LoadSteps       \* numbers of chart scripts after which an answer may arrive

Wire == Page \X Topic       \* what page f[1] does for topic f[2]
NoWire == << >>
Last == Len(Scripts)
Answer == [app : App, old : 0..MaxSamples, new : 0..MaxSamples]
Blank == << >>              \* a chart that has not been drawn

ASSUME ChartAssumption ==
    /\ IsFiniteSet(Page) /\ IsFiniteSet(App) /\ IsFiniteSet(Handler)
    /\ Topic \subseteq DOMAIN Row
    /\ MaxSamples \in Nat /\ MaxChains \in Nat
    /\ LoadSteps \subseteq 0..Last /\ {0, Last} \subseteq LoadSteps

VARIABLES
    table,      \* the rows of an application are the samples old+1 .. new
    page,       \* life of each page
    pid,        \* the application each page is for
    loaded,     \* number of chart scripts each page has loaded
    connecting, joining, joined,    \* connections of each wire: not yet open,
                                    \* with the subscription on its way, subscribed
    timer,      \* timeouts set
    sent,       \* messages the monitor has not handled yet
    work,       \* the wire whose message each thread handles
    answer,     \* the rows it has read
    shown,      \* what each chart of each page shows
    fault,      \* history: what happened to a wire that it cannot recover from
    early,      \* history: pages on which socket.js took its own function for a chart
    crowded     \* history: two pages were open at the same time

browser == <<page, pid, loaded, connecting, joining, joined, timer, shown, early, crowded>>
vars == <<table, browser, sent, work, answer, fault>>

Open == {v \in Page : page[v] = "open"}
Opened == {v \in Page : page[v] # "new"}
Busy == {h \in Handler : work[h] # NoWire}
Empty(a) == a.old = a.new
Names(t) == Range(Callback[t])

\* Units of counter n on some wires, and those of all wires together.
Count(n, wires) == Cardinality(UNION {{g} \X (1..n[g]) : g \in wires})
Connections == Count(connecting, Wire) + Count(joining, Wire) + Count(joined, Wire)
Chains == Count(connecting, Wire) + Count(timer, Wire) + Count(sent, Wire) + Cardinality(Busy)

Init ==
    /\ table = [t \in Topic |-> [a \in App |-> [old |-> 0, new |-> 0]]]
    /\ page = [v \in Page |-> "new"]
    /\ pid \in [Page -> App]
    /\ loaded = [v \in Page |-> 0]
    /\ connecting = [f \in Wire |-> 0] /\ joining = [f \in Wire |-> 0]
    /\ joined = [f \in Wire |-> 0] /\ timer = [f \in Wire |-> 0] /\ sent = [f \in Wire |-> 0]
    /\ work = [h \in Handler |-> NoWire]
    /\ answer = [h \in Handler |-> Blank]
    /\ shown = [v \in Page |-> [c \in DOMAIN Charts |-> Blank]]
    /\ fault = [f \in Wire |-> "none"]
    /\ early = {} /\ crowded = FALSE

-----------------------------------------------------------------------------
(* The tables.                                                             *)

\* A row is saved for each application every minute.
Collect(t, a) ==
    /\ table[t][a].new < MaxSamples
    /\ table' = [table EXCEPT ![t][a].new = @ + 1]
    /\ UNCHANGED <<browser, sent, work, answer, fault>>

\* At midnight the tables are emptied, each by a thread of its own.
ClearAll(t) ==
    /\ \E a \in App : ~Empty(table[t][a])
    /\ table' = [table EXCEPT ![t] = [a \in App |-> [old |-> @[a].new, new |-> @[a].new]]]
    /\ UNCHANGED <<browser, sent, work, answer, fault>>

-----------------------------------------------------------------------------
(* The page.                                                               *)

\* socket.js is run: gc(), cl() and thread().
OpenPage(v) ==
    /\ page[v] = "new"
    /\ page' = [page EXCEPT ![v] = "open"]
    /\ connecting' = [f \in Wire |-> IF f[1] = v THEN 1 ELSE connecting[f]]
    /\ crowded' = (crowded \/ Open # {})
    /\ UNCHANGED <<table, pid, loaded, joining, joined, timer, sent, work, answer,
                   shown, fault, early>>

LoadScripts(v) ==
    /\ v \in Open
    /\ \E n \in LoadSteps : n > loaded[v] /\ loaded' = [loaded EXCEPT ![v] = n]
    /\ UNCHANGED <<table, page, pid, connecting, joining, joined, timer, sent, work, answer,
                   shown, fault, early, crowded>>

\* The callback of connect: subscribe, send.  The monitor handles the two
\* messages in threads of their own, in any order.
Connect(f) ==
    /\ connecting[f] > 0
    /\ connecting' = [connecting EXCEPT ![f] = @ - 1]
    /\ joining' = [joining EXCEPT ![f] = @ + 1]
    /\ sent' = [sent EXCEPT ![f] = @ + 1]
    /\ UNCHANGED <<table, page, pid, loaded, joined, timer, work, answer, shown, fault,
                   early, crowded>>

\* The broker registers the subscription.
Subscribe(f) ==
    /\ joining[f] > 0
    /\ joining' = [joining EXCEPT ![f] = @ - 1]
    /\ joined' = [joined EXCEPT ![f] = @ + 1]
    /\ UNCHANGED <<table, page, pid, loaded, connecting, timer, sent, work, answer, shown,
                   fault, early, crowded>>

\* Mutant: the button for the interval sends at once, with or without a timeout.
TimeoutFiresUnset(f) ==
    /\ joined[f] > 0 /\ Chains < MaxChains
    /\ timer' = [timer EXCEPT ![f] = @ - 1]
    /\ sent' = [sent EXCEPT ![f] = @ + 1]
    /\ UNCHANGED <<table, page, pid, loaded, connecting, joining, joined, work, answer, shown,
                   fault, early, crowded>>

\* Mutant: setInterval in the place of setTimeout.
TimeoutRepeats(f) ==
    /\ timer[f] > 0 /\ Chains < MaxChains
    /\ sent' = [sent EXCEPT ![f] = @ + 1]
    /\ UNCHANGED <<table, page, pid, loaded, connecting, joining, joined, timer, work, answer,
                   shown, fault, early, crowded>>

TimeoutFires(f) ==
    /\ timer[f] > 0
    /\ timer' = [timer EXCEPT ![f] = @ - 1]
    /\ sent' = [sent EXCEPT ![f] = @ + 1]
    /\ UNCHANGED <<table, page, pid, loaded, connecting, joining, joined, work, answer, shown,
                   fault, early, crowded>>

\* The connections, subscriptions and timeouts of some wires end.
Ends(gone) ==
    /\ connecting' = [f \in Wire |-> IF f \in gone THEN 0 ELSE connecting[f]]
    /\ joining' = [f \in Wire |-> IF f \in gone THEN 0 ELSE joining[f]]
    /\ joined' = [f \in Wire |-> IF f \in gone THEN 0 ELSE joined[f]]
    /\ timer' = [f \in Wire |-> IF f \in gone THEN 0 ELSE timer[f]]

ClosePage(v) ==
    /\ v \in Open
    /\ page' = [page EXCEPT ![v] = "closed"]
    /\ Ends({v} \X Topic)
    /\ UNCHANGED <<table, pid, loaded, sent, work, answer, shown, fault, early, crowded>>

Fails(f, kind) == [fault EXCEPT ![f] = IF @ = "none" THEN kind ELSE @]

\* The connection is lost, before or after it is open; the page has no handler
\* for that and sends nothing any more.
Disconnect(f) ==
    /\ f[1] \in Open
    /\ Ends({f})
    /\ fault' = Fails(f, "lost")
    /\ UNCHANGED <<table, page, pid, loaded, sent, work, answer, shown, early, crowded>>

-----------------------------------------------------------------------------
(* The monitor.                                                            *)

Rows(a, samples) == [app |-> a, old |-> samples.old, new |-> samples.new]

\* Mutant: the rows of the application whose name comes first.
QueryAnyApp(h, f) ==
    /\ work[h] = NoWire /\ sent[f] > 0
    /\ sent' = [sent EXCEPT ![f] = @ - 1]
    /\ work' = [work EXCEPT ![h] = f]
    /\ \E a \in App : answer' = [answer EXCEPT ![h] = Rows(a, table[f[2]][a])]
    /\ UNCHANGED <<table, browser, fault>>

\* A message is handled: findAllByName of the page's application.
Query(h, f) ==
    /\ work[h] = NoWire /\ sent[f] > 0
    /\ sent' = [sent EXCEPT ![f] = @ - 1]
    /\ work' = [work EXCEPT ![h] = f]
    /\ answer' = [answer EXCEPT ![h] = Rows(pid[f[1]], table[f[2]][pid[f[1]]])]
    /\ UNCHANGED <<table, browser, fault>>

Done(h) ==
    /\ work' = [work EXCEPT ![h] = NoWire]
    /\ answer' = [answer EXCEPT ![h] = Blank]

\* The database throws: nothing is broadcast.
QueryFails(h) ==
    /\ work[h] # NoWire
    /\ Done(h)
    /\ fault' = Fails(work[h], "failed")
    /\ UNCHANGED <<table, browser, sent>>

-----------------------------------------------------------------------------
(* An answer reaches a page.                                               *)

Loaded(v, c) == \E i \in 1..loaded[v] : Scripts[i] = c

\* The callback of the topic thread calls thread(data): the function of
\* socket.js, which connects once more, until thread.js has redefined it.
Again(v, t) == t = "thread" /\ ~Loaded(v, "thread")

\* Mutant: a chart that does not look at data[0].
DrawnIfEmpty(v, t, a) == {c \in Names(t) : Loaded(v, c) /\ (Empty(a) => c = "s0")}

\* The charts that are drawn: scripts are loaded in the order of the callback,
\* and each chart reads data[0].date.
Drawn(v, t, a) == {c \in Names(t) : Loaded(v, c) /\ ~Empty(a)}

Complete(v, t, a) == Again(v, t) \/ Drawn(v, t, a) = Names(t)

Receives(v, t) == v \in Open /\ joined[<<v, t>>] > 0

\* Mutant: the next query is made only if there was something new to draw.
NextTimeoutsIfNew(t, a) ==
    [f \in Wire |-> timer[f] + IF /\ f[2] = t /\ Complete(f[1], t, a)
                                 /\ \A c \in Names(t) : shown[f[1]][c] # a
                              THEN joined[f] ELSE 0]

NextTimeouts(t, a) ==
    [f \in Wire |-> timer[f] + IF f[2] = t /\ Complete(f[1], t, a) THEN joined[f] ELSE 0]

\* What becomes of the wires of topic t as answer a to f is broadcast: the page
\* may have no subscription yet, or fail to draw.
NextFault(f, t, a) ==
    [g \in Wire |->
        IF g[2] = t /\ Receives(g[1], t) /\ ~Complete(g[1], t, a) /\ ~Empty(a) THEN "script"
        ELSE IF fault[g] # "none" THEN fault[g]
        ELSE IF g[2] = t /\ Receives(g[1], t) /\ ~Complete(g[1], t, a) THEN "empty"
        ELSE IF g = f /\ joined[g] = 0 THEN "missed"
        ELSE "none"]

Broadcast(h) ==
    LET f == work[h]
        t == f[2]
        a == answer[h]
        again == {v \in Page : Receives(v, t) /\ Again(v, t)}
    IN  /\ f # NoWire
        /\ timer' = NextTimeouts(t, a)
        /\ connecting' = [g \in Wire |->
                            connecting[g] + IF g[2] = t /\ g[1] \in again THEN joined[g] ELSE 0]
        /\ shown' = [v \in Page |-> [c \in DOMAIN Charts |->
                        IF Receives(v, t) /\ c \in Drawn(v, t, a) THEN a ELSE shown[v][c]]]
        /\ fault' = NextFault(f, t, a)
        /\ early' = early \cup again
        /\ Done(h)
        /\ UNCHANGED <<table, page, pid, loaded, joining, joined, sent, crowded>>
        /\ crowded \/ early' # {} => Chains' <= MaxChains
        /\ again # {} => Connections' <= MaxChains

-----------------------------------------------------------------------------
Next ==
    \/ \E t \in Topic : ClearAll(t) \/ \E a \in App : Collect(t, a)
    \/ \E v \in Page : OpenPage(v) \/ LoadScripts(v) \/ ClosePage(v)
    \/ \E f \in Wire : Connect(f) \/ Subscribe(f) \/ TimeoutFires(f) \/ Disconnect(f)
    \/ \E h \in Handler : QueryFails(h) \/ Broadcast(h) \/ \E f \in Wire : Query(h, f)

Spec == Init /\ [][Next]_vars

\* Connections are made, scripts loaded, timeouts fire and messages are handled.
Fairness ==
    /\ \A v \in Page : WF_vars(LoadScripts(v))
    /\ \A f \in Wire : WF_vars(Connect(f)) /\ WF_vars(Subscribe(f)) /\ WF_vars(TimeoutFires(f))
    /\ \A f \in Wire : SF_vars(\E h \in Handler : Query(h, f))
    /\ \A h \in Handler : WF_vars(Broadcast(h))

FairSpec == Spec /\ Fairness

-----------------------------------------------------------------------------
(* Properties.                                                             *)

TypeOK ==
    /\ table \in [Topic -> [App -> [old : 0..MaxSamples, new : 0..MaxSamples]]]
    /\ page \in [Page -> {"new", "open", "closed"}]
    /\ pid \in [Page -> App]
    /\ loaded \in [Page -> LoadSteps]
    /\ connecting \in [Wire -> Nat] /\ joining \in [Wire -> Nat] /\ joined \in [Wire -> Nat]
    /\ timer \in [Wire -> Nat] /\ sent \in [Wire -> Nat]
    /\ work \in [Handler -> Wire \cup {NoWire}]
    /\ answer \in [Handler -> Answer \cup {Blank}]
    /\ \A h \in Handler : work[h] = NoWire <=> answer[h] = Blank
    /\ shown \in [Page -> [DOMAIN Charts -> Answer \cup {Blank}]]
    /\ fault \in [Wire -> {"none", "script", "empty", "missed", "lost", "failed"}]
    /\ early \subseteq Page /\ crowded \in BOOLEAN

\* No topic of a page falls silent without one of the faults: as long as there
\* was none, the page connects, waits for the next time or for an answer.
PagesGoOn ==
    \A f \in Wire : f[1] \in Open /\ fault[f] = "none" =>
        connecting[f] > 0 \/ timer[f] > 0 \/ sent[f] > 0 \/ \E h \in Handler : work[h] = f

\* As long as no two pages are open at the same time and each name means what it
\* should, a topic has one query under way, or one waiting for its time, for each
\* page that was opened: the refresh interval is kept.
ChainsBound ==
    ~crowded /\ early = {} => \A t \in Topic :
        LET wires == Page \X {t}
        IN  Count(connecting, wires) + Count(timer, wires) + Count(sent, wires)
              + Cardinality({h \in Handler : work[h] \in wires}) <= Cardinality(Opened)

\* The charts of one topic show the same rows, whatever answers were empty or
\* lost, unless one came before all scripts were there.
InStep ==
    \A f \in Wire : fault[f] # "script" =>
        \A c, d \in Names(f[2]) : shown[f[1]][c] = shown[f[1]][d]

\* If all pages are for one application, that is what the charts show; with
\* several, the broadcasts of one reach the pages of the others.
OwnApp ==
    \A v \in Opened : (\A w \in Opened : pid[w] = pid[v]) =>
        \A c \in DOMAIN Charts : shown[v][c] # Blank => shown[v][c].app = pid[v]

\* On a page that is open, each line of each chart is the measurement its legend
\* names, in the unit of the chart, all the way from the columns of the tool over
\* three programs; the unit is the glossary's in README.md, but for the sizes it
\* gives in KB, which the charts show in MB.
ChartsTruthful == Open # {} => \A t \in DOMAIN Row : \A c \in Names(t) : Truthful(c, t)

\* On a page that is the only one, no chart goes back to older rows, although
\* queries are answered by any thread.
StepsForward ==
    Cardinality(Opened') <= 1 /\ early' = {} =>
        \A v \in Page : \A c \in DOMAIN Charts : shown[v][c] # Blank =>
            shown'[v][c].old >= shown[v][c].old /\ shown'[v][c].new >= shown[v][c].new
NeverStepsBack == [][StepsForward]_vars

\* The only page, if no answer came before its scripts, implements Display: with
\* its connections, timeouts and the threads that answer, each topic is one thread
\* that reads, draws all its charts, and reads again.
Undisturbed ==
    Cardinality(Opened) <= 1 /\ early = {} /\ \A f \in Wire : fault[f] # "script"
UnderRead ==
    [f \in Wire |-> IF \E h \in Handler : work[h] = f
                   THEN answer[CHOOSE h \in Handler : work[h] = f] ELSE Blank]
D == INSTANCE Display WITH
        Diagram <- DOMAIN Charts, DiagramsOf <- [t \in Topic |-> Names(t)], None <- Blank,
        read <- UnderRead, undisturbed <- Undisturbed
DisplayImplemented == D!Spec

\* A row that is there is drawn sooner or later by all charts of its topic, on
\* the only page, until one of the faults.
Excused(f) == f[1] \notin Open \/ fault[f] # "none" \/ early # {} \/ Cardinality(Opened) > 1
CatchesUp(f, n) ==
    (f[1] \in Open /\ table[f[2]][pid[f[1]]].new >= n) ~>
        (Excused(f) \/ \A c \in Names(f[2]) : shown[f[1]][c] # Blank /\ shown[f[1]][c].new >= n)
CatchUp == \A f \in Wire : \A n \in 1..MaxSamples : CatchesUp(f, n)
=============================================================================
