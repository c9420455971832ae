--------------------------- MODULE ChartFeed_proofs ----------------------------
(***************************************************************************)
(* Theorems of ChartFeed, for every set of pages, applications, topics and *)
(* threads: the state is typed, no topic of a page falls silent without a  *)
(* fault, pages of one application show that application, the charts of a  *)
(* topic show the same rows, and those of the only page never older ones;  *)
(* pages that are open one after the other make no more queries than there *)
(* were pages; each line of a chart is what its legend says; and the only  *)
(* page implements Display.                                                *)
(***************************************************************************)
EXTENDS ChartFeed, FiniteSetTheorems, FunctionTheorems, TLAPS

Counters == [Wire -> Nat]

\* A wire on which something is under way.
Alive(f) == connecting[f] > 0 \/ timer[f] > 0 \/ sent[f] > 0 \/ \E h \in Handler : work[h] = f

\* What is under way comes from a page that was opened, and is for its
\* application; so is what the charts show.
Wires ==
    \A f \in Wire : connecting[f] > 0 \/ joining[f] > 0 \/ joined[f] > 0 \/ timer[f] > 0 \/ sent[f] > 0
        => f[1] \in Opened
Works ==
    \A h \in Handler : work[h] # NoWire =>
        work[h][1] \in Opened /\ answer[h].app = pid[work[h][1]]
Shows ==
    \A v \in Page : \A c \in DOMAIN Charts : shown[v][c] # Blank =>
        \E w \in Opened : shown[v][c].app = pid[w]

-----------------------------------------------------------------------------
(* Data.                                                                   *)

\* A wire is a pair, and not the sign for none.
LEMMA WirePair ==
    /\ \A v \in Page : \A t \in Topic : <<v, t>> \in Wire /\ <<v, t>> # NoWire
                                        /\ <<v, t>>[1] = v /\ <<v, t>>[2] = t
    /\ \A f \in Wire : f[1] \in Page /\ f[2] \in Topic /\ f = <<f[1], f[2]>> /\ f # NoWire
  BY DEF Wire, NoWire

\* Rows that were read are an answer, even if there are none of them.
LEMMA RowsType ==
    ASSUME NEW a \in App, NEW s \in [old : 0..MaxSamples, new : 0..MaxSamples]
    PROVE  /\ Rows(a, s) \in Answer /\ Rows(a, s).app = a
  BY DEF Rows, Answer

LEMMA AnswerNotBlank == \A a \in Answer : a # Blank
<1> SUFFICES ASSUME NEW a \in Answer, a = Blank PROVE FALSE
  OBVIOUS
<1>1. DOMAIN a = {"app", "old", "new"}
  BY DEF Answer
<1>2. DOMAIN Blank = {}
  BY DEF Blank
<1> QED
  BY <1>1, <1>2

\* The charts of a topic are charts, and topics share none.
LEMMA NamesDisjoint ==
    ASSUME NEW t \in Topic
    PROVE  /\ Names(t) \subseteq DOMAIN Charts
           /\ \A u \in Topic : u # t => Names(u) \cap Names(t) = {}
           /\ t = "thread" => Names(t) = {"thread"}
<1>1. Topic \subseteq {"gc", "cl", "thread"}
  BY ChartAssumption DEF Row
<1>2. Names("gc") = {"s0", "s1", "eden", "old", "mc", "ccsc", "gcn", "gct"}
  BY DEF Names, Callback, Range
<1>3. Names("cl") = {"classn", "classt", "comn", "comt", "combyte"}
  BY DEF Names, Callback, Range
<1>4. Names("thread") = {"thread"}
  BY DEF Names, Callback, Range
<1>5. DOMAIN Charts = {"s0", "s1", "eden", "old", "mc", "ccsc", "gcn", "gct",
                       "classn", "classt", "comn", "comt", "combyte", "thread"}
  BY DEF Charts
<1>6. /\ "gc" # "cl" /\ "gc" # "thread" /\ "cl" # "thread"
      /\ Names("gc") \cap Names("cl") = {} /\ Names("gc") \cap Names("thread") = {}
      /\ Names("cl") \cap Names("thread") = {}
      /\ \A x \in {"gc", "cl", "thread"} : Names(x) \subseteq DOMAIN Charts
  BY <1>2, <1>3, <1>4, <1>5
<1> QED
  BY <1>1, <1>4, <1>6

LEMMA DrawnNames ==
    ASSUME NEW v \in Page, NEW t \in Topic, NEW a
    PROVE  /\ Drawn(v, t, a) \subseteq Names(t)
           /\ Empty(a) => Drawn(v, t, a) = {}
           /\ Again(v, t) => t = "thread" /\ Drawn(v, t, a) = {}
<1>1. Drawn(v, t, a) \subseteq Names(t) /\ (Empty(a) => Drawn(v, t, a) = {})
  BY DEF Drawn
<1>2. ASSUME Again(v, t) PROVE t = "thread" /\ Drawn(v, t, a) = {}
  BY <1>2, NamesDisjoint DEF Again, Drawn
<1> QED
  BY <1>1, <1>2

-----------------------------------------------------------------------------
(* Types.                                                                  *)

\* Every state of tables, pages, wires, threads and charts is typed.
THEOREM Typing == Spec => []TypeOK
<1>1. Init => TypeOK
  <2>1. 0 \in LoadSteps /\ 0 \in 0..MaxSamples
    BY ChartAssumption
  <2>2. ASSUME Init
        PROVE  /\ table \in [Topic -> [App -> [old : 0..MaxSamples, new : 0..MaxSamples]]]
               /\ shown \in [Page -> [DOMAIN Charts -> Answer \cup {Blank}]]
    BY <2>1, <2>2 DEF Init
  <2> QED
    <3> SUFFICES ASSUME Init PROVE TypeOK
      OBVIOUS
    <3>1. /\ loaded \in [Page -> LoadSteps] /\ page \in [Page -> {"new", "open", "closed"}]
          /\ pid \in [Page -> App]
          /\ early \subseteq Page /\ crowded \in BOOLEAN
      BY <2>1 DEF Init
    <3>2. /\ connecting \in Counters /\ joining \in Counters /\ joined \in Counters
          /\ timer \in Counters /\ sent \in Counters
          /\ fault \in [Wire -> {"none", "script", "empty", "missed", "lost", "failed"}]
      BY DEF Init, Counters
    <3>3. /\ work \in [Handler -> Wire \cup {NoWire}]
          /\ answer \in [Handler -> Answer \cup {Blank}]
          /\ \A h \in Handler : work[h] = NoWire <=> answer[h] = Blank
      BY DEF Init
    <3> QED
      BY <2>2, <3>1, <3>2, <3>3 DEF TypeOK, Counters
<1>2. ASSUME TypeOK, [Next]_vars PROVE TypeOK'
  <2> USE <1>2 DEF TypeOK
  <2>1. ASSUME NEW t \in Topic, ClearAll(t) PROVE TypeOK'
    BY <2>1 DEF ClearAll, browser
  <2>2. ASSUME NEW t \in Topic, NEW a \in App, Collect(t, a) PROVE TypeOK'
    <3> DEFINE s == table[t][a]
    <3>1. s \in [old : 0..MaxSamples, new : 0..MaxSamples]
      OBVIOUS
    <3>2. s.new + 1 \in 0..MaxSamples
      BY <2>2, <3>1, ChartAssumption DEF Collect
    <3>3. [s EXCEPT !.new = @ + 1] \in [old : 0..MaxSamples, new : 0..MaxSamples]
      BY <3>1, <3>2
    <3>4. table' = [table EXCEPT ![t] = [@ EXCEPT ![a] = [s EXCEPT !.new = @ + 1]]]
      BY <2>2 DEF Collect
    <3>5. table' \in [Topic -> [App -> [old : 0..MaxSamples, new : 0..MaxSamples]]]
      BY <3>3, <3>4
    <3> QED
      BY <2>2, <3>5 DEF Collect, browser
  <2>3. ASSUME NEW v \in Page, OpenPage(v) PROVE TypeOK'
    BY <2>3 DEF OpenPage, Open
  <2>4. ASSUME NEW v \in Page, LoadScripts(v) PROVE TypeOK'
    BY <2>4 DEF LoadScripts
  <2>5. ASSUME NEW v \in Page, ClosePage(v) PROVE TypeOK'
    BY <2>5 DEF ClosePage, Ends
  <2>6. ASSUME NEW f \in Wire, Connect(f) PROVE TypeOK'
    BY <2>6 DEF Connect
  <2>7. ASSUME NEW f \in Wire, Subscribe(f) PROVE TypeOK'
    BY <2>7 DEF Subscribe
  <2>8. ASSUME NEW f \in Wire, TimeoutFires(f) PROVE TypeOK'
    BY <2>8 DEF TimeoutFires
  <2>9. ASSUME NEW f \in Wire, Disconnect(f) PROVE TypeOK'
    BY <2>9 DEF Disconnect, Ends, Fails
  <2>10. ASSUME NEW h \in Handler, QueryFails(h) PROVE TypeOK'
    BY <2>10 DEF QueryFails, Fails, Done, browser
  <2>11. ASSUME NEW h \in Handler, NEW f \in Wire, Query(h, f) PROVE TypeOK'
    <3>1. f \in Wire /\ f # NoWire /\ f[1] \in Page /\ f[2] \in Topic
      BY WirePair
    <3>2. LET r == Rows(pid[f[1]], table[f[2]][pid[f[1]]]) IN r \in Answer /\ r # Blank
      BY <3>1, RowsType, AnswerNotBlank
    <3> QED
      BY <2>11, <3>1, <3>2 DEF Query, browser
  <2>12. ASSUME NEW h \in Handler, Broadcast(h) PROVE TypeOK'
    <3> DEFINE f == work[h]  t == f[2]  a == answer[h]
    <3>1. f \in Wire /\ t \in Topic /\ a \in Answer
      BY <2>12, WirePair DEF Broadcast
    <3>2. timer' \in Counters /\ connecting' \in Counters
      BY <2>12, <3>1 DEF Broadcast, NextTimeouts, Counters
    <3>3. shown' \in [Page -> [DOMAIN Charts -> Answer \cup {Blank}]]
      BY <2>12, <3>1 DEF Broadcast
    <3>4. fault' \in [Wire -> {"none", "script", "empty", "missed", "lost", "failed"}]
      BY <2>12, <3>1 DEF Broadcast, NextFault
    <3>5. early' \subseteq Page
      BY <2>12 DEF Broadcast
    <3>6. /\ work' \in [Handler -> Wire \cup {NoWire}]
          /\ answer' \in [Handler -> Answer \cup {Blank}]
          /\ \A k \in Handler : work'[k] = NoWire <=> answer'[k] = Blank
      BY <2>12 DEF Broadcast, Done
    <3> QED
      BY <2>12, <3>2, <3>3, <3>4, <3>5, <3>6 DEF Broadcast, Counters
  <2>13. CASE UNCHANGED vars
    BY <2>13 DEF vars, browser
  <2> QED
    BY <2>1, <2>2, <2>3, <2>4, <2>5, <2>6, <2>7, <2>8, <2>9, <2>10, <2>11, <2>12, <2>13, <1>2
    DEF Next
<1> QED
  BY <1>1, <1>2, PTL DEF Spec

-----------------------------------------------------------------------------
(* Chains of messages.                                                     *)

\* After the broadcast of an answer, a wire of its topic that heard it and is to
\* go on has a timeout or a connection.
LEMMA BroadcastGoesOn ==
    ASSUME TypeOK, NEW h \in Handler, Broadcast(h), NEW g \in Wire,
           g[1] \in Open, fault'[g] = "none", g[2] = work[h][2], joined[g] > 0
    PROVE  timer'[g] > 0
<1> DEFINE f == work[h]  t == f[2]  a == answer[h]
<1>1. f \in Wire /\ g = <<g[1], t>> /\ Receives(g[1], t)
  <2>1. f \in Wire \cup {NoWire} /\ f # NoWire
    BY DEF Broadcast, TypeOK
  <2> QED
    BY <2>1, WirePair DEF Receives
<1>2. fault' = NextFault(f, t, a) /\ timer' = NextTimeouts(t, a)
  BY DEF Broadcast
<1>3. Complete(g[1], t, a)
  <2> SUFFICES ASSUME ~Complete(g[1], t, a) PROVE FALSE
    OBVIOUS
  <2>1. fault'[g] = IF ~Empty(a) THEN "script"
                    ELSE IF fault[g] # "none" THEN fault[g] ELSE "empty"
    BY <1>1, <1>2 DEF NextFault
  <2> QED
    BY <2>1
<1>4. timer'[g] = timer[g] + joined[g]
  BY <1>2, <1>3 DEF NextTimeouts
<1> QED
  BY <1>4 DEF TypeOK

\* As long as nothing has happened to a topic of an open page, something is under
\* way on it, for any number of pages and threads.
THEOREM PagesGoOnHolds == Spec => []PagesGoOn
<1>1. Init => PagesGoOn
  <2> SUFFICES ASSUME Init, NEW f \in Wire PROVE f[1] \notin Open
    BY DEF PagesGoOn
  <2> QED
    BY WirePair DEF Init, Open
<1>2. ASSUME TypeOK, PagesGoOn, [Next]_vars PROVE PagesGoOn'
  <2> SUFFICES ASSUME NEW g \in Wire, (g[1] \in Open)', fault'[g] = "none" PROVE Alive(g)'
    BY DEF PagesGoOn, Alive
  <2> g[1] \in Page /\ g = <<g[1], g[2]>>
    BY WirePair
  <2>0. g[1] \in Open /\ fault[g] = "none" => Alive(g)
    BY <1>2 DEF PagesGoOn, Alive
  <2>1. ASSUME NEW t \in Topic, ClearAll(t) \/ \E a \in App : Collect(t, a) PROVE Alive(g)'
    BY <2>0, <2>1 DEF ClearAll, Collect, browser, Open, Alive
  <2>2. ASSUME NEW v \in Page, OpenPage(v) PROVE Alive(g)'
    <3>1. CASE g[1] = v
      BY <2>2, <3>1 DEF OpenPage, Alive
    <3>2. CASE g[1] # v
      BY <1>2, <2>0, <2>2, <3>2 DEF OpenPage, Open, Alive, TypeOK
    <3> QED
      BY <3>1, <3>2
  <2>3. ASSUME NEW v \in Page, LoadScripts(v) PROVE Alive(g)'
    BY <2>0, <2>3 DEF LoadScripts, Open, Alive
  <2>4. ASSUME NEW v \in Page, ClosePage(v) PROVE Alive(g)'
    <3>1. g[1] # v /\ g[1] \in Open
      BY <1>2, <2>4 DEF ClosePage, Open, TypeOK
    <3>2. g \notin {v} \X Topic
      BY <3>1
    <3> QED
      BY <2>0, <2>4, <3>1, <3>2 DEF ClosePage, Ends, Alive
  <2>5. ASSUME NEW f \in Wire, Connect(f) PROVE Alive(g)'
    BY <1>2, <2>0, <2>5 DEF Connect, Open, Alive, TypeOK
  <2>6. ASSUME NEW f \in Wire, Subscribe(f) PROVE Alive(g)'
    BY <2>0, <2>6 DEF Subscribe, Open, Alive
  <2>7. ASSUME NEW f \in Wire, TimeoutFires(f) PROVE Alive(g)'
    BY <1>2, <2>0, <2>7 DEF TimeoutFires, Open, Alive, TypeOK
  <2>8. ASSUME NEW f \in Wire, Disconnect(f) PROVE Alive(g)'
    <3>1. g # f /\ fault[g] = "none"
      BY <1>2, <2>8 DEF Disconnect, Fails, TypeOK
    <3> QED
      BY <2>0, <2>8, <3>1 DEF Disconnect, Ends, Open, Alive
  <2>9. ASSUME NEW h \in Handler, NEW f \in Wire, Query(h, f) PROVE Alive(g)'
    <3>1. g[1] \in Open /\ fault[g] = "none" /\ work[h] # g
      BY <2>9, WirePair DEF Query, browser, Open
    <3>2. CASE g = f
      BY <1>2, <2>9, <3>2 DEF Query, Alive, TypeOK
    <3>3. CASE g # f
      <4>1. \A k \in Handler : work[k] = g => work'[k] = g
        BY <1>2, <2>9, <3>1 DEF Query, TypeOK
      <4> QED
        BY <1>2, <2>0, <2>9, <3>1, <3>3, <4>1 DEF Query, browser, Alive, TypeOK
    <3> QED
      BY <3>2, <3>3
  <2>10. ASSUME NEW h \in Handler, QueryFails(h) PROVE Alive(g)'
    <3>1. g # work[h] /\ fault[g] = "none" /\ g[1] \in Open
      BY <1>2, <2>10 DEF QueryFails, Fails, browser, Open, TypeOK
    <3>2. \A k \in Handler : work[k] = g => work'[k] = g
      BY <1>2, <2>10, <3>1 DEF QueryFails, Done, TypeOK
    <3> QED
      BY <2>0, <2>10, <3>1, <3>2 DEF QueryFails, browser, Alive
  <2>11. ASSUME NEW h \in Handler, Broadcast(h) PROVE Alive(g)'
    <3> DEFINE f == work[h]
    <3>1. f \in Wire /\ g[1] \in Open
      BY <1>2, <2>11 DEF Broadcast, Open, TypeOK
    <3>2. CASE g[2] = f[2] /\ joined[g] > 0
      BY <1>2, <2>11, <3>1, <3>2, BroadcastGoesOn DEF Alive
    <3>3. CASE ~(g[2] = f[2] /\ joined[g] > 0)
      <4>1. g # f /\ fault[g] = "none"
        <5>1. ~(g[2] = f[2] /\ Receives(g[1], f[2]))
          BY <3>3 DEF Receives
        <5>2. fault'[g] = IF fault[g] # "none" THEN fault[g]
                          ELSE IF g = f /\ joined[g] = 0 THEN "missed" ELSE "none"
          BY <2>11, <5>1 DEF Broadcast, NextFault
        <5>3. g = f => joined[g] = 0
          BY <1>2, <3>3 DEF TypeOK
        <5> QED
          BY <5>2, <5>3
      <4>2. \A k \in Handler : work[k] = g => work'[k] = g
        BY <1>2, <2>11, <4>1 DEF Broadcast, Done, TypeOK
      <4>3. (timer[g] > 0 => timer'[g] > 0) /\ (connecting[g] > 0 => connecting'[g] > 0)
            /\ sent' = sent
        <5>1. timer[g] \in Nat /\ connecting[g] \in Nat /\ joined[g] \in Nat
          BY <1>2 DEF TypeOK
        <5>2. timer'[g] \in {timer[g] + joined[g], timer[g] + 0}
          BY <2>11 DEF Broadcast, NextTimeouts
        <5>3. connecting'[g] \in {connecting[g] + joined[g], connecting[g] + 0} /\ sent' = sent
          BY <2>11 DEF Broadcast
        <5> QED
          BY <5>1, <5>2, <5>3
      <4> QED
        BY <2>0, <3>1, <4>1, <4>2, <4>3 DEF Alive
    <3> QED
      BY <3>2, <3>3
  <2>12. CASE UNCHANGED vars
    BY <2>0, <2>12 DEF vars, browser, Open, Alive
  <2> QED
    BY <2>1, <2>2, <2>3, <2>4, <2>5, <2>6, <2>7, <2>8, <2>9, <2>10, <2>11, <2>12, <1>2 DEF Next
<1> QED
  BY <1>1, <1>2, Typing, PTL DEF Spec

-----------------------------------------------------------------------------
(* What the charts show.                                                   *)

\* Pages are never forgotten, and each stays with its application.
LEMMA PagesStay ==
    ASSUME TypeOK, [Next]_vars
    PROVE  pid' = pid /\ Opened \subseteq Opened'
<1>1. ASSUME NEW v \in Page, OpenPage(v) PROVE pid' = pid /\ Opened \subseteq Opened'
  BY <1>1 DEF OpenPage, Opened, TypeOK
<1>2. ASSUME NEW v \in Page, ClosePage(v) PROVE pid' = pid /\ Opened \subseteq Opened'
  BY <1>2 DEF ClosePage, Opened, TypeOK
<1>3. CASE pid' = pid /\ page' = page
  BY <1>3 DEF Opened
<1> QED
  BY <1>1, <1>2, <1>3
  DEF Next, vars, browser, ClearAll, Collect, LoadScripts, Connect, Subscribe, TimeoutFires,
      Disconnect, QueryFails, Broadcast, Query

\* Nothing is under way on a wire of a page that was not opened.
LEMMA WiresStep ==
    ASSUME TypeOK, Wires, Works, [Next]_vars
    PROVE  Wires'
<1> SUFFICES ASSUME NEW g \in Wire, g[1] \notin Opened'
             PROVE  /\ connecting'[g] = 0 /\ joining'[g] = 0 /\ joined'[g] = 0
                    /\ timer'[g] = 0 /\ sent'[g] = 0
  BY DEF Wires
<1>0. /\ g[1] \in Page /\ g[1] \notin Opened
      /\ connecting[g] = 0 /\ joining[g] = 0 /\ joined[g] = 0 /\ timer[g] = 0 /\ sent[g] = 0
  BY PagesStay, WirePair DEF Wires, TypeOK
<1>1. ASSUME NEW v \in Page, OpenPage(v) PROVE g[1] # v
  BY <1>0, <1>1 DEF OpenPage, Opened, TypeOK
<1>2. ASSUME NEW h \in Handler, Broadcast(h)
      PROVE  /\ connecting'[g] = 0 /\ joining' = joining /\ joined' = joined
             /\ timer'[g] = 0 /\ sent' = sent
  BY <1>0, <1>2 DEF Broadcast, NextTimeouts
<1>3. ASSUME NEW h \in Handler, NEW f \in Wire, Query(h, f) PROVE sent'[g] = 0
  BY <1>0, <1>3 DEF Query, TypeOK
<1>4. ASSUME NEW f \in Wire, Connect(f) \/ Subscribe(f) \/ TimeoutFires(f)
      PROVE  /\ connecting'[g] = 0 /\ joining'[g] = 0 /\ joined'[g] = 0
             /\ timer'[g] = 0 /\ sent'[g] = 0
  <2>1. f # g
    BY <1>0, <1>4 DEF Connect, Subscribe, TimeoutFires
  <2> QED
    BY <1>0, <1>4, <2>1 DEF Connect, Subscribe, TimeoutFires, TypeOK
<1>5. ASSUME NEW v \in Page, ClosePage(v) \/ LoadScripts(v) \/ OpenPage(v)
      PROVE  /\ connecting'[g] = 0 /\ joining'[g] = 0 /\ joined'[g] = 0
             /\ timer'[g] = 0 /\ sent'[g] = 0
  BY <1>0, <1>1, <1>5 DEF ClosePage, LoadScripts, OpenPage, Ends
<1>6. ASSUME NEW f \in Wire, Disconnect(f)
      PROVE  /\ connecting'[g] = 0 /\ joining'[g] = 0 /\ joined'[g] = 0
             /\ timer'[g] = 0 /\ sent'[g] = 0
  BY <1>0, <1>6 DEF Disconnect, Ends
<1> QED
  BY <1>0, <1>2, <1>3, <1>4, <1>5, <1>6
  DEF Next, vars, browser, ClearAll, Collect, QueryFails, Query

\* A handler works for a page that was opened and has read its application.
LEMMA WorksStep ==
    ASSUME TypeOK, Wires, Works, [Next]_vars
    PROVE  Works'
<1> SUFFICES ASSUME NEW k \in Handler, work'[k] # NoWire
             PROVE  work'[k][1] \in Opened' /\ answer'[k].app = pid'[work'[k][1]]
  BY DEF Works
<1>1. CASE work'[k] = work[k] /\ answer'[k] = answer[k]
  BY <1>1, PagesStay DEF Works
<1>2. ASSUME NEW h \in Handler, QueryFails(h) \/ Broadcast(h)
      PROVE  work'[k] = work[k] /\ answer'[k] = answer[k]
  BY <1>2 DEF QueryFails, Broadcast, Done, TypeOK
<1>3. ASSUME NEW h \in Handler, NEW f \in Wire, Query(h, f), k # h
      PROVE  work'[k] = work[k] /\ answer'[k] = answer[k]
  BY <1>3 DEF Query, TypeOK
<1>4. ASSUME NEW f \in Wire, Query(k, f)
      PROVE  work'[k][1] \in Opened' /\ answer'[k].app = pid'[work'[k][1]]
  <2>1. f[1] \in Opened /\ f[1] \in Page /\ f[2] \in Topic
    BY <1>4, WirePair DEF Query, Wires
  <2>2. work'[k] = f /\ answer'[k] = Rows(pid[f[1]], table[f[2]][pid[f[1]]])
    BY <1>4 DEF Query, TypeOK
  <2>3. answer'[k].app = pid[f[1]]
    BY <2>1, <2>2, RowsType DEF TypeOK
  <2> QED
    BY <2>1, <2>2, <2>3, PagesStay
<1> QED
  BY <1>1, <1>2, <1>3, <1>4
  DEF Next, vars, browser, ClearAll, Collect, LoadScripts, Connect, Subscribe, TimeoutFires,
      Disconnect, OpenPage, ClosePage

\* What a broadcast makes the charts show.
LEMMA BroadcastShows ==
    ASSUME TypeOK, NEW h \in Handler, Broadcast(h), NEW v \in Page, NEW c \in DOMAIN Charts
    PROVE  shown'[v][c] = IF Receives(v, work[h][2]) /\ c \in Drawn(v, work[h][2], answer[h])
                          THEN answer[h] ELSE shown[v][c]
  BY DEF Broadcast

LEMMA ShowsStep ==
    ASSUME TypeOK, Works, Shows, [Next]_vars
    PROVE  Shows'
<1> SUFFICES ASSUME NEW v \in Page, NEW c \in DOMAIN Charts, shown'[v][c] # Blank
             PROVE  \E w \in Opened' : shown'[v][c].app = pid'[w]
  BY DEF Shows
<1>1. CASE shown'[v][c] = shown[v][c]
  BY <1>1, PagesStay DEF Shows
<1>2. ASSUME NEW h \in Handler, Broadcast(h), shown'[v][c] # shown[v][c]
      PROVE  \E w \in Opened' : shown'[v][c].app = pid'[w]
  <2>1. shown'[v][c] = answer[h]
    BY <1>2, BroadcastShows
  <2>2. work[h][1] \in Opened /\ answer[h].app = pid[work[h][1]]
    BY <1>2 DEF Broadcast, Works
  <2> QED
    BY <2>1, <2>2, PagesStay
<1> QED
  BY <1>1, <1>2
  DEF Next, vars, browser, ClearAll, Collect, LoadScripts, Connect, Subscribe, TimeoutFires,
      Disconnect, OpenPage, ClosePage, QueryFails, Query

\* Whatever is broadcast to whom, and however late: if all pages ever opened are for
\* one application, their charts show that application.
THEOREM OwnAppHolds == Spec => []OwnApp
<1>1. Init => Wires /\ Works /\ Shows
  BY DEF Init, Wires, Works, Shows
<1>2. TypeOK /\ Wires /\ Works /\ Shows /\ [Next]_vars => (Wires /\ Works /\ Shows)'
  BY WiresStep, WorksStep, ShowsStep
<1>3. Shows => OwnApp
  BY DEF Shows, OwnApp, Opened
<1> QED
  BY <1>1, <1>2, <1>3, Typing, PTL DEF Spec

\* The charts of one topic of a page show the same rows, for every number of
\* pages, unless an answer came before all its scripts had been loaded.
THEOREM InStepHolds == Spec => []InStep
<1>1. Init => InStep
  <2> SUFFICES ASSUME Init, NEW f \in Wire, NEW c \in Names(f[2])
               PROVE  shown[f[1]][c] = Blank
    BY DEF InStep
  <2> QED
    BY WirePair, NamesDisjoint DEF Init
<1>2. ASSUME TypeOK, InStep, [Next]_vars PROVE InStep'
  <2> SUFFICES ASSUME NEW g \in Wire, fault'[g] # "script",
                      NEW c \in Names(g[2]), NEW d \in Names(g[2])
               PROVE  shown'[g[1]][c] = shown'[g[1]][d]
    BY DEF InStep
  <2>0. g[1] \in Page /\ g[2] \in Topic /\ c \in DOMAIN Charts /\ d \in DOMAIN Charts
    BY WirePair, NamesDisjoint
  <2>1. CASE shown' = shown /\ (fault[g] = "script" => fault'[g] = "script")
    BY <1>2, <2>1 DEF InStep
  <2>2. ASSUME NEW h \in Handler, Broadcast(h)
        PROVE  shown'[g[1]][c] = shown'[g[1]][d]
    <3> DEFINE f == work[h]  t == f[2]  a == answer[h]  v == g[1]
    <3>1. t \in Topic /\ fault' = NextFault(f, t, a)
      BY <1>2, <2>2, WirePair DEF Broadcast, TypeOK
    <3>2. fault[g] # "script"
      BY <3>1 DEF NextFault
    <3>3. shown[v][c] = shown[v][d]
      BY <1>2, <3>2 DEF InStep
    <3>4. /\ shown'[v][c] = IF Receives(v, t) /\ c \in Drawn(v, t, a) THEN a ELSE shown[v][c]
          /\ shown'[v][d] = IF Receives(v, t) /\ d \in Drawn(v, t, a) THEN a ELSE shown[v][d]
      BY <1>2, <2>0, <2>2, BroadcastShows
    <3>5. ASSUME Receives(v, t) PROVE c \in Drawn(v, t, a) <=> d \in Drawn(v, t, a)
      <4>1. CASE g[2] # t
        BY <2>0, <3>1, <4>1, NamesDisjoint, DrawnNames
      <4>2. CASE g[2] = t /\ Complete(v, t, a)
        BY <2>0, <4>2, DrawnNames DEF Complete
      <4>3. CASE g[2] = t /\ ~Complete(v, t, a)
        <5>1. Empty(a)
          BY <3>1, <3>5, <4>3 DEF NextFault
        <5> QED
          BY <2>0, <3>1, <5>1, DrawnNames
      <4> QED
        BY <4>1, <4>2, <4>3
    <3> QED
      BY <3>3, <3>4, <3>5
  <2> QED
    BY <1>2, <2>1, <2>2
    DEF Next, vars, browser, ClearAll, Collect, LoadScripts, Connect, Subscribe, TimeoutFires,
        Disconnect, OpenPage, ClosePage, QueryFails, Query, Fails, TypeOK
<1> QED
  BY <1>1, <1>2, Typing, PTL DEF Spec
-----------------------------------------------------------------------------
(* The only page.                                                          *)

\* No two pages were opened, and each name meant what it should.
Sole == early = {} /\ \A v, w \in Opened : v = w

\* Then a wire has one connection, and one query under way or waiting for its time.
OneChain ==
    Sole => \A g \in Wire :
        /\ connecting[g] + joining[g] + joined[g] <= 1
        /\ connecting[g] + timer[g] + sent[g] <= 1
        /\ \A h \in Handler : work[h] = g =>
              /\ connecting[g] + timer[g] + sent[g] = 0
              /\ \A k \in Handler : work[k] = g => k = h

\* Rows a are as old as rows b, or older.
NotNewer(a, b) == a.old <= b.old /\ a.new <= b.new

\* No table has rows before the first, no answer rows the table does not have yet.
Tables == \A t \in Topic : \A a \in App : table[t][a].old <= table[t][a].new
Read ==
    \A h \in Handler : work[h] # NoWire =>
        NotNewer(answer[h], table[work[h][2]][pid[work[h][1]]])

\* The charts of the only page show no rows newer than the table, or an answer that
\* is under way.
Behind ==
    Sole => \A g \in Wire : \A c \in Names(g[2]) : shown[g[1]][c] # Blank =>
        /\ NotNewer(shown[g[1]][c], table[g[2]][pid[g[1]]])
        /\ \A h \in Handler : work[h] = g => NotNewer(shown[g[1]][c], answer[h])

LEMMA SoleBefore == ASSUME TypeOK, [Next]_vars, Sole' PROVE Sole
<1>1. early' = {} => early = {}
  BY DEF Next, vars, browser, ClearAll, Collect, LoadScripts, Connect, Subscribe, TimeoutFires,
         Disconnect, OpenPage, ClosePage, QueryFails, Query, Broadcast
<1> QED
  BY <1>1, PagesStay DEF Sole

\* Rows only become newer.
LEMMA TableGrows ==
    ASSUME TypeOK, Tables, [Next]_vars
    PROVE  /\ Tables'
           /\ \A t \in Topic : \A a \in App : NotNewer(table[t][a], table'[t][a])
<1>0. \A t \in Topic : \A a \in App : table[t][a] \in [old : 0..MaxSamples, new : 0..MaxSamples]
  BY DEF TypeOK
<1>1. CASE table' = table
  <2>1. \A t \in Topic : \A a \in App : table[t][a].old \in Nat /\ table[t][a].new \in Nat
    BY <1>0
  <2> QED
    BY <1>1, <2>1 DEF Tables, NotNewer
<1>2. ASSUME NEW u \in Topic, NEW b \in App, Collect(u, b),
             NEW t \in Topic, NEW a \in App
      PROVE  table'[t][a].old <= table'[t][a].new /\ NotNewer(table[t][a], table'[t][a])
  <2> DEFINE x == table[t][a]
  <2>1. x.old \in Nat /\ x.new \in Nat /\ x.old <= x.new
    BY <1>0 DEF Tables
  <2>2. CASE t = u /\ a = b
    <3>1. table'[t][a] = [x EXCEPT !.new = @ + 1]
      BY <1>2, <2>2 DEF Collect, TypeOK
    <3>2. table'[t][a].old = x.old /\ table'[t][a].new = x.new + 1
      BY <1>0, <3>1
    <3> QED
      BY <2>1, <3>2 DEF NotNewer
  <2>3. CASE ~(t = u /\ a = b)
    <3>1. table'[t][a] = x
      BY <1>2, <2>3 DEF Collect, TypeOK
    <3> QED
      BY <2>1, <3>1 DEF NotNewer
  <2> QED
    BY <2>2, <2>3
<1>3. ASSUME NEW u \in Topic, ClearAll(u), NEW t \in Topic, NEW a \in App
      PROVE  table'[t][a].old <= table'[t][a].new /\ NotNewer(table[t][a], table'[t][a])
  <2> DEFINE x == table[t][a]
  <2>1. x.old \in Nat /\ x.new \in Nat /\ x.old <= x.new
    BY <1>0 DEF Tables
  <2>2. CASE t = u
    <3>1. table'[t][a] = [old |-> x.new, new |-> x.new]
      BY <1>3, <2>2 DEF ClearAll, TypeOK
    <3>2. table'[t][a].old = x.new /\ table'[t][a].new = x.new
      BY <3>1
    <3> QED
      BY <2>1, <3>2 DEF NotNewer
  <2>3. CASE t # u
    <3>1. table'[t][a] = x
      BY <1>3, <2>3 DEF ClearAll, TypeOK
    <3> QED
      BY <2>1, <3>1 DEF NotNewer
  <2> QED
    BY <2>2, <2>3
<1>4. \/ table' = table
      \/ \E u \in Topic : ClearAll(u) \/ \E b \in App : Collect(u, b)
  BY DEF Next, vars, browser, LoadScripts, Connect, Subscribe, TimeoutFires,
         Disconnect, OpenPage, ClosePage, QueryFails, Query, Broadcast
<1> QED
  BY <1>1, <1>2, <1>3, <1>4 DEF Tables

LEMMA NotNewerTrans ==
    ASSUME NEW a, NEW b, NEW c, NotNewer(a, b), NotNewer(b, c),
           a.old \in Nat, a.new \in Nat, b.old \in Nat, b.new \in Nat, c.old \in Nat, c.new \in Nat
    PROVE  NotNewer(a, c)
  BY DEF NotNewer

LEMMA OneChainStep ==
    ASSUME TypeOK, Wires, Works, OneChain, [Next]_vars
    PROVE  OneChain'
<1> SUFFICES ASSUME Sole', NEW g \in Wire
             PROVE  /\ connecting'[g] + joining'[g] + joined'[g] <= 1
                    /\ connecting'[g] + timer'[g] + sent'[g] <= 1
                    /\ \A h \in Handler : work'[h] = g =>
                          /\ connecting'[g] + timer'[g] + sent'[g] = 0
                          /\ \A k \in Handler : work'[k] = g => k = h
  BY DEF OneChain
<1> DEFINE Goal == /\ connecting'[g] + joining'[g] + joined'[g] <= 1
                   /\ connecting'[g] + timer'[g] + sent'[g] <= 1
                   /\ \A h \in Handler : work'[h] = g =>
                         /\ connecting'[g] + timer'[g] + sent'[g] = 0
                         /\ \A k \in Handler : work'[k] = g => k = h
<1>0. /\ Sole /\ g[1] \in Page /\ g[2] \in Topic /\ g # NoWire
      /\ connecting[g] \in Nat /\ joining[g] \in Nat /\ joined[g] \in Nat
      /\ timer[g] \in Nat /\ sent[g] \in Nat
  BY SoleBefore, WirePair DEF TypeOK
<1>a. /\ connecting[g] + joining[g] + joined[g] <= 1
      /\ connecting[g] + timer[g] + sent[g] <= 1
      /\ \A h \in Handler : work[h] = g =>
            /\ connecting[g] + timer[g] + sent[g] = 0
            /\ \A k \in Handler : work[k] = g => k = h
  BY <1>0 DEF OneChain
<1>1. CASE /\ connecting'[g] = connecting[g] /\ joining'[g] = joining[g] /\ joined'[g] = joined[g]
           /\ timer'[g] = timer[g] /\ sent'[g] = sent[g] /\ work' = work
  BY <1>1, <1>a
<1>2. ASSUME NEW v \in Page, OpenPage(v) PROVE Goal
  <2>1. Opened = {}
    <3>1. v \in Opened' /\ v \notin Opened
      BY <1>2 DEF OpenPage, Opened, TypeOK
    <3> QED
      BY <3>1, PagesStay DEF Sole
  <2>2. /\ connecting[g] = 0 /\ joining[g] = 0 /\ joined[g] = 0 /\ timer[g] = 0 /\ sent[g] = 0
        /\ \A h \in Handler : work[h] = NoWire
    BY <1>0, <2>1 DEF Wires, Works
  <2>3. connecting'[g] \in {0, 1} /\ UNCHANGED <<joining, joined, timer, sent, work>>
    BY <1>2, <2>2 DEF OpenPage
  <2> QED
    BY <1>0, <2>2, <2>3
<1>3. ASSUME NEW f \in Wire, Connect(f) \/ Subscribe(f) \/ TimeoutFires(f) PROVE Goal
  <2>1. CASE f # g
    BY <1>1, <1>3, <2>1 DEF Connect, Subscribe, TimeoutFires, TypeOK
  <2>2. CASE f = g /\ Connect(f)
    <3>1. /\ connecting'[g] = connecting[g] - 1 /\ joining'[g] = joining[g] + 1
          /\ sent'[g] = sent[g] + 1 /\ connecting[g] > 0
          /\ UNCHANGED <<joined, timer, work>>
      BY <2>2 DEF Connect, TypeOK
    <3>2. \A h \in Handler : work[h] # g
      BY <1>0, <1>a, <3>1
    <3> QED
      BY <1>0, <1>a, <3>1, <3>2
  <2>3. CASE f = g /\ Subscribe(f)
    <3>1. /\ joining'[g] = joining[g] - 1 /\ joined'[g] = joined[g] + 1
          /\ UNCHANGED <<connecting, timer, sent, work>>
      BY <2>3 DEF Subscribe, TypeOK
    <3> QED
      BY <1>0, <1>a, <3>1
  <2>4. CASE f = g /\ TimeoutFires(f)
    <3>1. /\ timer'[g] = timer[g] - 1 /\ sent'[g] = sent[g] + 1 /\ timer[g] > 0
          /\ UNCHANGED <<connecting, joining, joined, work>>
      BY <2>4 DEF TimeoutFires, TypeOK
    <3>2. \A h \in Handler : work[h] # g
      BY <1>0, <1>a, <3>1
    <3> QED
      BY <1>0, <1>a, <3>1, <3>2
  <2> QED
    BY <1>3, <2>1, <2>2, <2>3, <2>4
<1>4. ASSUME (\E v \in Page : ClosePage(v)) \/ (\E f \in Wire : Disconnect(f)) PROVE Goal
  <2>1. PICK gone : Ends(gone) /\ sent' = sent /\ work' = work
    BY <1>4 DEF ClosePage, Disconnect
  <2>2. CASE g \in gone
    <3>1. /\ connecting'[g] = 0 /\ joining'[g] = 0 /\ joined'[g] = 0 /\ timer'[g] = 0
          /\ sent'[g] = sent[g]
      BY <2>1, <2>2 DEF Ends
    <3> QED
      BY <1>0, <1>a, <2>1, <3>1
  <2>3. CASE g \notin gone
    BY <1>1, <2>1, <2>3 DEF Ends
  <2> QED
    BY <2>2, <2>3
<1>5. ASSUME NEW h \in Handler, QueryFails(h) PROVE Goal
  <2>1. /\ \A k \in Handler : work'[k] = g => work[k] = g
        /\ UNCHANGED <<connecting, joining, joined, timer, sent>>
    BY <1>0, <1>5 DEF QueryFails, Done, browser, TypeOK
  <2> QED
    BY <1>a, <2>1
<1>6. ASSUME NEW h \in Handler, NEW f \in Wire, Query(h, f) PROVE Goal
  <2>1. CASE f # g
    <3>1. /\ \A k \in Handler : work'[k] = g => work[k] = g
          /\ sent'[g] = sent[g] /\ UNCHANGED <<connecting, joining, joined, timer>>
      BY <1>6, <2>1 DEF Query, browser, TypeOK
    <3> QED
      BY <1>a, <3>1
  <2>2. CASE f = g
    <3>1. /\ sent[g] > 0 /\ sent'[g] = sent[g] - 1
          /\ UNCHANGED <<connecting, joining, joined, timer>>
      BY <1>6, <2>2 DEF Query, browser, TypeOK
    <3>2. \A k \in Handler : work[k] # g
      BY <1>0, <1>a, <3>1
    <3>3. \A k \in Handler : work'[k] = g => k = h
      BY <1>6, <3>2 DEF Query, TypeOK
    <3>4. connecting'[g] = 0 /\ timer'[g] = 0 /\ sent'[g] = 0
      BY <1>0, <1>a, <3>1
    <3>5. connecting'[g] + joining'[g] + joined'[g] <= 1
      BY <1>a, <3>1
    <3>6. \A k \in Handler : work'[k] = g => \A l \in Handler : work'[l] = g => l = k
      BY <3>3
    <3>7. connecting'[g] + timer'[g] + sent'[g] = 0
      BY <3>4
    <3> QED
      BY <3>5, <3>6, <3>7
  <2> QED
    BY <2>1, <2>2
<1>7. ASSUME NEW h \in Handler, Broadcast(h) PROVE Goal
  <2> DEFINE f == work[h]
  <2>1. f \in Wire /\ f[1] \in Opened
    BY <1>7 DEF Broadcast, TypeOK, Works
  <2>2. /\ \A k \in Handler : work'[k] = g => work[k] = g /\ k # h
        /\ UNCHANGED <<joining, joined, sent>>
    BY <1>0, <1>7 DEF Broadcast, Done, TypeOK
  <2>3. connecting'[g] = connecting[g]
    <3>1. ~(Receives(g[1], f[2]) /\ Again(g[1], f[2]))
      BY <1>0, <1>7 DEF Broadcast, Sole
    <3>2. connecting'[g] = connecting[g] + 0
      BY <1>7, <3>1 DEF Broadcast
    <3> QED
      BY <1>0, <3>2
  <2>4. CASE g = f
    <3>1. connecting[g] = 0 /\ timer[g] = 0 /\ sent[g] = 0 /\ \A k \in Handler : work[k] = g => k = h
      BY <1>0, <1>a, <2>4
    <3>2. timer'[g] \in {timer[g] + joined[g], timer[g] + 0}
      BY <1>7 DEF Broadcast, NextTimeouts
    <3>3. timer'[g] <= 1 /\ timer'[g] \in Nat
      BY <1>0, <1>a, <3>1, <3>2
    <3>4. sent'[g] = 0 /\ connecting'[g] = 0 /\ \A k \in Handler : work'[k] # g
      BY <2>2, <2>3, <3>1
    <3> QED
      BY <1>0, <1>a, <2>2, <2>3, <3>3, <3>4
  <2>5. CASE g # f
    <3>1. timer'[g] = timer[g]
      <4>1. g[2] = f[2] => joined[g] = 0
        <5> SUFFICES ASSUME g[2] = f[2], joined[g] > 0 PROVE FALSE
          BY <1>0
        <5>1. g[1] \in Opened
          BY DEF Wires
        <5>2. g[1] = f[1]
          BY <1>0, <2>1, <5>1 DEF Sole
        <5> QED
          BY <2>1, <2>5, <5>2, WirePair
      <4>2. CASE g[2] = f[2]
        <5>1. timer'[g] \in {timer[g] + joined[g], timer[g] + 0}
          BY <1>7 DEF Broadcast, NextTimeouts
        <5> QED
          BY <1>0, <4>1, <4>2, <5>1
      <4>3. CASE g[2] # f[2]
        <5>1. timer'[g] = timer[g] + 0
          BY <1>7, <4>3 DEF Broadcast, NextTimeouts
        <5> QED
          BY <1>0, <5>1
      <4> QED
        BY <4>2, <4>3
    <3> QED
      BY <1>a, <2>2, <2>3, <3>1
  <2> QED
    BY <2>4, <2>5
<1>8. CASE UNCHANGED <<connecting, joining, joined, timer, sent, work>>
  BY <1>1, <1>8
<1> QED
  BY <1>2, <1>3, <1>4, <1>5, <1>6, <1>7, <1>8
  DEF Next, vars, browser, ClearAll, Collect, LoadScripts

\* An answer under way: rows the table has, or had.
LEMMA ReadStep ==
    ASSUME TypeOK, TypeOK', Tables, Read, [Next]_vars PROVE Read'
<1> SUFFICES ASSUME NEW k \in Handler, work'[k] # NoWire
             PROVE  NotNewer(answer'[k], table'[work'[k][2]][pid'[work'[k][1]]])
  BY DEF Read
<1>1. CASE work'[k] = work[k] /\ answer'[k] = answer[k]
  <2> DEFINE f == work[k]  a == pid[f[1]]  x == table[f[2]][a]  y == table'[f[2]][a]
  <2>1. f \in Wire /\ f[1] \in Page /\ f[2] \in Topic /\ a \in App
    BY <1>1, WirePair DEF TypeOK
  <2>2. NotNewer(answer[k], x) /\ NotNewer(x, y)
    BY <1>1, <2>1, TableGrows DEF Read
  <2>3. answer[k] \in Answer /\ x \in [old : 0..MaxSamples, new : 0..MaxSamples]
        /\ y \in [old : 0..MaxSamples, new : 0..MaxSamples]
    BY <1>1, <2>1 DEF TypeOK
  <2>4. /\ answer[k].old \in Nat /\ answer[k].new \in Nat /\ x.old \in Nat /\ x.new \in Nat
        /\ y.old \in Nat /\ y.new \in Nat
    BY <2>3 DEF Answer
  <2> HIDE DEF x, y
  <2>5. NotNewer(answer[k], y)
    BY <2>2, <2>4, NotNewerTrans
  <2> USE DEF y
  <2> QED
    BY <1>1, <2>5, PagesStay
<1>2. ASSUME NEW h \in Handler, QueryFails(h) \/ Broadcast(h)
      PROVE  work'[k] = work[k] /\ answer'[k] = answer[k]
  BY <1>2 DEF QueryFails, Broadcast, Done, TypeOK
<1>3. ASSUME NEW h \in Handler, NEW f \in Wire, Query(h, f), k # h
      PROVE  work'[k] = work[k] /\ answer'[k] = answer[k]
  BY <1>3 DEF Query, TypeOK
<1>4. ASSUME NEW f \in Wire, Query(k, f)
      PROVE  NotNewer(answer'[k], table'[work'[k][2]][pid'[work'[k][1]]])
  <2> DEFINE x == table[f[2]][pid[f[1]]]
  <2>1. work'[k] = f /\ answer'[k] = Rows(pid[f[1]], x) /\ table' = table /\ pid' = pid
    BY <1>4 DEF Query, TypeOK, browser
  <2>2. x \in [old : 0..MaxSamples, new : 0..MaxSamples]
    BY WirePair DEF TypeOK
  <2>3. answer'[k].old = x.old /\ answer'[k].new = x.new /\ x.old \in Nat /\ x.new \in Nat
    BY <2>1, <2>2 DEF Rows
  <2> HIDE DEF x
  <2>4. NotNewer(answer'[k], x)
    BY <2>3 DEF NotNewer
  <2> QED
    BY <2>1, <2>4 DEF x
<1> QED
  BY <1>1, <1>2, <1>3, <1>4
  DEF Next, vars, browser, ClearAll, Collect, LoadScripts, Connect, Subscribe, TimeoutFires,
      Disconnect, OpenPage, ClosePage

\* On the only page a chart changes with the answer of its own wire only.
LEMMA SoleBroadcast ==
    ASSUME TypeOK, Wires, Works, Sole, NEW h \in Handler, Broadcast(h),
           NEW v \in Page, NEW c \in DOMAIN Charts, shown'[v][c] # shown[v][c]
    PROVE  /\ shown'[v][c] = answer[h] /\ answer[h] \in Answer
           /\ work[h] \in Wire /\ work[h][1] = v /\ c \in Names(work[h][2])
<1> DEFINE f == work[h]
<1>1. f \in Wire /\ f[1] \in Opened /\ f[1] \in Page /\ f[2] \in Topic /\ answer[h] \in Answer
  BY WirePair DEF Broadcast, TypeOK, Works
<1>2. shown'[v][c] = answer[h] /\ Receives(v, f[2]) /\ c \in Drawn(v, f[2], answer[h])
  BY BroadcastShows
<1>3. v \in Opened
  BY <1>2 DEF Receives, Open, Opened
<1>4. v = f[1]
  BY <1>1, <1>3 DEF Sole
<1>5. c \in Names(f[2])
  BY <1>1, <1>2, DrawnNames
<1> QED
  BY <1>1, <1>2, <1>4, <1>5

\* What else can happen to a chart: nothing.
LEMMA ShownSteps ==
    ASSUME [Next]_vars PROVE shown' = shown \/ \E h \in Handler : Broadcast(h)
  BY DEF Next, vars, browser, ClearAll, Collect, LoadScripts, Connect, Subscribe, TimeoutFires,
         Disconnect, OpenPage, ClosePage, QueryFails, Query

LEMMA BehindStep ==
    ASSUME TypeOK, TypeOK', Wires, Works, OneChain, OneChain', Tables, Read, Behind, [Next]_vars
    PROVE  Behind'
<1> SUFFICES ASSUME Sole', NEW g \in Wire, NEW c \in Names(g[2]), shown'[g[1]][c] # Blank
             PROVE  /\ NotNewer(shown'[g[1]][c], table'[g[2]][pid'[g[1]]])
                    /\ \A h \in Handler : work'[h] = g => NotNewer(shown'[g[1]][c], answer'[h])
  BY DEF Behind
<1> DEFINE v == g[1]  t == g[2]  x == table[t][pid[v]]  y == table'[t][pid[v]]
           was == shown[v][c]  new == shown'[v][c]
<1>0. /\ Sole /\ v \in Page /\ t \in Topic /\ g = <<v, t>> /\ g # NoWire
      /\ c \in DOMAIN Charts /\ pid[v] \in App /\ pid' = pid
  BY SoleBefore, PagesStay, WirePair, NamesDisjoint DEF TypeOK
<1>1. NotNewer(x, y)
  BY <1>0, TableGrows
<1>2. /\ x.old \in Nat /\ x.new \in Nat /\ y.old \in Nat /\ y.new \in Nat
      /\ new \in Answer /\ new.old \in Nat /\ new.new \in Nat
  <2>1. x \in [old : 0..MaxSamples, new : 0..MaxSamples]
        /\ y \in [old : 0..MaxSamples, new : 0..MaxSamples]
    BY <1>0 DEF TypeOK
  <2>2. new \in Answer
    BY <1>0 DEF TypeOK
  <2> QED
    BY <2>1, <2>2 DEF Answer
<1>3. CASE new = was
  <2>1. NotNewer(new, x) /\ \A h \in Handler : work[h] = g => NotNewer(new, answer[h])
    BY <1>0, <1>3 DEF Behind
  <2> HIDE DEF x, y, new, was
  <2>2. NotNewer(new, y)
    BY <1>1, <1>2, <2>1, NotNewerTrans
  <2>3. ASSUME NEW h \in Handler, work'[h] = g PROVE NotNewer(new, answer'[h])
    <3>1. CASE work'[h] = work[h] /\ answer'[h] = answer[h]
      BY <2>1, <2>3, <3>1
    <3>2. CASE Query(h, g)
      <4>1. answer'[h] = Rows(pid[v], x)
        BY <3>2 DEF Query, TypeOK, x
      <4>2. answer'[h].old = x.old /\ answer'[h].new = x.new
        BY <4>1 DEF Rows
      <4> QED
        BY <2>1, <4>2 DEF NotNewer
    <3>3. ASSUME NEW k \in Handler, QueryFails(k) \/ Broadcast(k)
          PROVE  work'[h] = work[h] /\ answer'[h] = answer[h]
      BY <1>0, <2>3, <3>3 DEF QueryFails, Broadcast, Done, TypeOK
    <3>4. ASSUME NEW k \in Handler, NEW f \in Wire, Query(k, f), ~Query(h, g)
          PROVE  work'[h] = work[h] /\ answer'[h] = answer[h]
      BY <2>3, <3>4 DEF Query, TypeOK
    <3> QED
      BY <3>1, <3>2, <3>3, <3>4
      DEF Next, vars, browser, ClearAll, Collect, LoadScripts, Connect, Subscribe, TimeoutFires,
          Disconnect, OpenPage, ClosePage
  <2> QED
    BY <1>0, <2>2, <2>3 DEF new, y
<1>4. CASE new # was
  <2>1. PICK h \in Handler : Broadcast(h)
    BY <1>4, ShownSteps
  <2>2. /\ new = answer[h] /\ work[h] \in Wire /\ work[h][1] = v /\ c \in Names(work[h][2])
    BY <1>0, <1>4, <2>1, SoleBroadcast
  <2>3. work[h] = g
    <3>1. work[h][2] = t
      BY <1>0, <2>2, WirePair, NamesDisjoint
    <3> QED
      BY <1>0, <2>2, <3>1, WirePair
  <2>4. table' = table /\ NotNewer(new, x)
    BY <1>0, <2>1, <2>2, <2>3 DEF Read, Broadcast
  <2>5. \A k \in Handler : work'[k] # g
    <3>1. \A k \in Handler : work[k] = g => k = h
      BY <1>0, <2>3 DEF OneChain
    <3>2. \A k \in Handler : work'[k] = (IF k = h THEN NoWire ELSE work[k])
      BY <2>1 DEF Broadcast, Done, TypeOK
    <3> QED
      BY <1>0, <3>1, <3>2
  <2> QED
    BY <1>0, <2>4, <2>5
<1> QED
  BY <1>3, <1>4

\* A set of pages with one element at most.
LEMMA FewPages ==
    ASSUME NEW S \in SUBSET Page, Cardinality(S) <= 1 PROVE \A v, w \in S : v = w
<1>1. IsFiniteSet(S)
  BY ChartAssumption, FS_Subset
<1>2. Cardinality(S) \in Nat
  BY <1>1, FS_CardinalityType
<1>3. CASE Cardinality(S) = 0
  BY <1>1, <1>3, FS_EmptySet
<1>4. CASE Cardinality(S) = 1
  <2>1. PICK v : S = {v}
    BY <1>1, <1>4, FS_Singleton
  <2> QED
    BY <2>1
<1> QED
  BY <1>2, <1>3, <1>4

\* No chart of the only page goes back to older rows, for every number of threads
\* that answer queries and every number of samples.
THEOREM NeverStepsBackHolds == Spec => NeverStepsBack
<1> DEFINE Inv == Wires /\ Works /\ OneChain /\ Tables /\ Read /\ Behind
<1>1. Init => Inv
  <2> SUFFICES ASSUME Init PROVE Inv
    OBVIOUS
  <2>1. Wires /\ Works
    BY DEF Init, Wires, Works
  <2>2. OneChain
    <3> SUFFICES ASSUME NEW g \in Wire
                 PROVE  /\ connecting[g] = 0 /\ joining[g] = 0 /\ joined[g] = 0
                        /\ timer[g] = 0 /\ sent[g] = 0 /\ \A h \in Handler : work[h] # g
      BY DEF OneChain
    <3> QED
      BY WirePair DEF Init
  <2>3. Tables /\ Read
    BY DEF Init, Tables, Read
  <2>4. Behind
    <3> SUFFICES ASSUME NEW g \in Wire, NEW c \in Names(g[2]) PROVE shown[g[1]][c] = Blank
      BY DEF Behind
    <3> QED
      BY WirePair, NamesDisjoint DEF Init
  <2> QED
    BY <2>1, <2>2, <2>3, <2>4
<1>2. TypeOK /\ TypeOK' /\ Inv /\ [Next]_vars => Inv'
  BY WiresStep, WorksStep, OneChainStep, TableGrows, ReadStep, BehindStep
<1>3. TypeOK /\ TypeOK' /\ Inv /\ [Next]_vars => [StepsForward]_vars
  <2> SUFFICES ASSUME TypeOK, TypeOK', Inv, [Next]_vars, Cardinality(Opened') <= 1, early' = {},
                      NEW v \in Page, NEW c \in DOMAIN Charts, shown[v][c] # Blank
               PROVE  shown'[v][c].old >= shown[v][c].old /\ shown'[v][c].new >= shown[v][c].new
    BY DEF StepsForward
  <2>1. Sole
    <3>1. Sole'
      <4>1. Opened' \in SUBSET Page
        BY DEF Opened
      <4>2. \A w, u \in Opened' : w = u
        BY <4>1, FewPages
      <4> QED
        BY <4>2 DEF Sole
    <3> QED
      BY <3>1, SoleBefore
  <2> DEFINE was == shown[v][c]
  <2>2. was \in Answer /\ was.old \in Nat /\ was.new \in Nat
    <3>1. was \in Answer
      BY DEF TypeOK
    <3> QED
      BY <3>1 DEF Answer
  <2>3. CASE shown'[v][c] = shown[v][c]
    BY <2>2, <2>3
  <2>4. CASE shown'[v][c] # shown[v][c]
    <3>1. PICK h \in Handler : Broadcast(h)
      BY <2>4, ShownSteps
    <3>2. /\ shown'[v][c] = answer[h] /\ answer[h] \in Answer /\ work[h] \in Wire
          /\ work[h][1] = v /\ c \in Names(work[h][2])
      BY <2>1, <2>4, <3>1, SoleBroadcast
    <3>3. NotNewer(was, answer[h])
      BY <2>1, <3>2 DEF Behind
    <3>4. answer[h].old \in Nat /\ answer[h].new \in Nat
      BY <3>2 DEF Answer
    <3> HIDE DEF was
    <3>5. answer[h].old >= was.old /\ answer[h].new >= was.new
      BY <2>2, <3>3, <3>4 DEF NotNewer
    <3> QED
      BY <3>2, <3>5 DEF was
  <2> QED
    BY <2>3, <2>4
<1> QED
  BY <1>1, <1>2, <1>3, Typing, PTL DEF Spec, NeverStepsBack
-----------------------------------------------------------------------------
(* Totals of counters.                                                     *)

\* The units of counter n on wires W.
Units(n, W) == UNION {{g} \X (1..n[g]) : g \in W}

LEMMA UnitsIn ==
    ASSUME NEW n, NEW W
    PROVE  \A x : x \in Units(n, W) <=> \E g \in W : \E k \in 1..n[g] : x = <<g, k>>
<1> SUFFICES ASSUME NEW x
             PROVE  x \in Units(n, W) <=> \E g \in W : \E k \in 1..n[g] : x = <<g, k>>
  OBVIOUS
<1>1. x \in Units(n, W) <=> \E g \in W : x \in {g} \X (1..n[g])
  BY DEF Units
<1>2. \A g : x \in {g} \X (1..n[g]) <=> \E k \in 1..n[g] : x = <<g, k>>
  OBVIOUS
<1> QED
  BY <1>1, <1>2

\* The units of one wire.
LEMMA UnitsOfOne ==
    ASSUME NEW g, NEW k \in Nat
    PROVE  IsFiniteSet({g} \X (1..k)) /\ Cardinality({g} \X (1..k)) = k
<1> DEFINE S == {g}  T == 1..k
<1>1. IsFiniteSet(S) /\ Cardinality(S) = 1
  BY FS_Singleton
<1>2. IsFiniteSet(T) /\ Cardinality(T) = k
  BY FS_Interval
<1> HIDE DEF S, T
<1>3. IsFiniteSet(S \X T) /\ Cardinality(S \X T) = Cardinality(S) * Cardinality(T)
  BY <1>1, <1>2, FS_Product
<1>4. Cardinality(S \X T) = k
  BY <1>1, <1>2, <1>3
<1> QED
  BY <1>3, <1>4 DEF S, T

LEMMA UnitsFinite ==
    ASSUME NEW W, IsFiniteSet(W), NEW n, \A g \in W : n[g] \in Nat
    PROVE  IsFiniteSet(Units(n, W)) /\ Count(n, W) \in Nat /\ Count(n, W) = Cardinality(Units(n, W))
<1> DEFINE F == {{g} \X (1..n[g]) : g \in W}
<1>1. \A x \in F : IsFiniteSet(x)
  <2> SUFFICES ASSUME NEW g \in W PROVE IsFiniteSet({g} \X (1..n[g]))
    OBVIOUS
  <2> QED
    BY UnitsOfOne
<1>2. IsFiniteSet(F)
  <2> DEFINE m == [g \in W |-> {g} \X (1..n[g])]
  <2>1. F = {m[g] : g \in W} /\ m \in Surjection(W, F)
    BY DEF Surjection
  <2> QED
    BY <2>1, FS_Surjection
<1>3. IsFiniteSet(Units(n, W))
  BY <1>1, <1>2, FS_UNION DEF Units
<1> QED
  BY <1>3, FS_CardinalityType DEF Count, Units

\* The total is what one wire adds to the total of the others.
LEMMA CountSplit ==
    ASSUME NEW W, IsFiniteSet(W), NEW n, \A g \in W : n[g] \in Nat, NEW f \in W
    PROVE  /\ Count(n, W) = Count(n, W \ {f}) + n[f]
           /\ Count(n, W \ {f}) \in Nat
<1> DEFINE A == Units(n, W \ {f})  B == {f} \X (1..n[f])
<1>1. IsFiniteSet(W \ {f})
  BY FS_RemoveElement
<1>2. IsFiniteSet(A) /\ Count(n, W \ {f}) \in Nat /\ Count(n, W \ {f}) = Cardinality(A)
  BY <1>1, UnitsFinite
<1>3. IsFiniteSet(B) /\ Cardinality(B) = n[f]
  BY UnitsOfOne
<1>4. Units(n, W) = A \cup B
  BY DEF Units
<1>5. A \cap B = {}
  <2> SUFFICES ASSUME NEW x \in A, x \in B PROVE FALSE
    OBVIOUS
  <2>1. PICK g \in W \ {f} : \E k \in 1..n[g] : x = <<g, k>>
    BY UnitsIn
  <2>2. PICK k : x = <<f, k>>
    OBVIOUS
  <2> QED
    BY <2>1, <2>2
<1> HIDE DEF A, B
<1>6. Cardinality(A \cup B) = Cardinality(A) + Cardinality(B) - Cardinality({})
  BY <1>2, <1>3, <1>5, FS_Union
<1>7. Cardinality({}) = 0
  BY FS_EmptySet
<1>8. Count(n, W) = Cardinality(A \cup B)
  BY <1>4, UnitsFinite
<1> QED
  BY <1>2, <1>3, <1>6, <1>7, <1>8

\* Counters that are the same on some wires have the same total there.
LEMMA CountSame ==
    ASSUME NEW W, NEW n, NEW m, \A g \in W : n[g] = m[g]
    PROVE  Count(n, W) = Count(m, W)
<1>1. {{g} \X (1..n[g]) : g \in W} = {{g} \X (1..m[g]) : g \in W}
  OBVIOUS
<1> QED
  BY <1>1 DEF Count

\* A counter that changes on one wire changes its total by as much.
LEMMA CountChange ==
    ASSUME NEW W, IsFiniteSet(W), NEW f \in W,
           NEW n, \A g \in W : n[g] \in Nat, NEW m, \A g \in W : m[g] \in Nat,
           \A g \in W \ {f} : m[g] = n[g]
    PROVE  /\ Count(m, W) = Count(n, W) - n[f] + m[f]
           /\ Count(m, W) \in Nat /\ Count(n, W) \in Nat
<1>1. Count(n, W) = Count(n, W \ {f}) + n[f] /\ Count(n, W \ {f}) \in Nat
  BY CountSplit
<1>2. Count(m, W) = Count(m, W \ {f}) + m[f]
  BY CountSplit
<1>3. Count(m, W \ {f}) = Count(n, W \ {f})
  BY CountSame
<1> QED
  BY <1>1, <1>2, <1>3

\* Counters that are less on each wire have a lesser total.
LEMMA CountLess ==
    ASSUME NEW W, IsFiniteSet(W), NEW n, \A g \in W : n[g] \in Nat,
           NEW m, \A g \in W : m[g] \in Nat, \A g \in W : m[g] <= n[g]
    PROVE  Count(m, W) <= Count(n, W)
<1>1. Units(m, W) \subseteq Units(n, W)
  <2> SUFFICES ASSUME NEW x \in Units(m, W) PROVE x \in Units(n, W)
    OBVIOUS
  <2>1. PICK g \in W : \E k \in 1..m[g] : x = <<g, k>>
    BY UnitsIn
  <2>2. PICK k \in 1..m[g] : x = <<g, k>>
    BY <2>1
  <2>3. k \in 1..n[g]
    BY <2>2
  <2> QED
    BY <2>2, <2>3, UnitsIn
<1> QED
  BY <1>1, UnitsFinite, FS_Subset

-----------------------------------------------------------------------------
(* Chains of messages when pages are open one after the other.             *)

Of(t) == Page \X {t}
Served(t) == {h \in Handler : work[h] \in Of(t)}
UnderWay(t) ==
    Count(connecting, Of(t)) + Count(timer, Of(t)) + Count(sent, Of(t)) + Cardinality(Served(t))

\* No two pages were open together, and each name meant what it should.
Alone == ~crowded /\ early = {}

\* Connections are those of pages that are open.
Live == \A g \in Wire : connecting[g] > 0 \/ joining[g] > 0 \/ joined[g] > 0 => g[1] \in Open

\* Then a wire has one connection, so that an answer makes one page send once, and
\* the queries of a topic are no more than the pages that were opened.
OneConnection ==
    Alone => /\ \A v, w \in Open : v = w
             /\ \A g \in Wire : connecting[g] + joining[g] + joined[g] <= 1
Chained == Alone => \A t \in Topic : UnderWay(t) <= Cardinality(Opened)

LEMMA AloneBefore == ASSUME [Next]_vars, Alone' PROVE Alone
<1>1. crowded => crowded'
  BY DEF Next, vars, browser, ClearAll, Collect, LoadScripts, Connect, Subscribe, TimeoutFires,
         Disconnect, OpenPage, ClosePage, QueryFails, Query, Broadcast
<1>2. early \subseteq early'
  BY DEF Next, vars, browser, ClearAll, Collect, LoadScripts, Connect, Subscribe, TimeoutFires,
         Disconnect, OpenPage, ClosePage, QueryFails, Query, Broadcast
<1> QED
  BY <1>1, <1>2 DEF Alone

\* A broadcast opens no connection while each name means what it should.
LEMMA BroadcastConnects ==
    ASSUME TypeOK, NEW h \in Handler, Broadcast(h), early' = {}
    PROVE  \A g \in Wire : connecting'[g] = connecting[g]
<1> SUFFICES ASSUME NEW g \in Wire PROVE connecting'[g] = connecting[g]
  OBVIOUS
<1>1. ~(Receives(g[1], work[h][2]) /\ Again(g[1], work[h][2]))
  BY WirePair DEF Broadcast
<1>2. connecting'[g] = connecting[g] + 0
  BY <1>1, WirePair DEF Broadcast
<1>3. connecting[g] \in Nat
  BY DEF TypeOK
<1> QED
  BY <1>2, <1>3

LEMMA LiveStep ==
    ASSUME TypeOK, Live, [Next]_vars
    PROVE  Live'
<1> SUFFICES ASSUME NEW g \in Wire, connecting'[g] > 0 \/ joining'[g] > 0 \/ joined'[g] > 0
             PROVE  g[1] \in Open'
  BY DEF Live
<1>0. /\ g[1] \in Page /\ g[2] \in Topic /\ g = <<g[1], g[2]>>
      /\ connecting[g] \in Nat /\ joining[g] \in Nat /\ joined[g] \in Nat
  BY WirePair DEF TypeOK
<1>1. CASE /\ connecting'[g] = connecting[g] /\ joining'[g] = joining[g] /\ joined'[g] = joined[g]
           /\ page' = page
  BY <1>1 DEF Live, Open
<1>2. ASSUME NEW v \in Page, OpenPage(v) PROVE g[1] \in Open'
  BY <1>0, <1>2 DEF OpenPage, Live, Open, TypeOK
<1>3. ASSUME NEW v \in Page, ClosePage(v) PROVE g[1] \in Open'
  <2>1. g \notin {v} \X Topic
    BY <1>3 DEF ClosePage, Ends
  <2>2. g[1] # v
    BY <1>0, <2>1
  <2> QED
    BY <1>0, <1>3, <2>1, <2>2 DEF ClosePage, Ends, Live, Open, TypeOK
<1>4. ASSUME NEW f \in Wire, Disconnect(f) PROVE g[1] \in Open'
  BY <1>4 DEF Disconnect, Ends, Live, Open
<1>5. ASSUME NEW f \in Wire, Connect(f) \/ Subscribe(f) PROVE g[1] \in Open'
  <2>1. CASE f = g
    BY <1>5, <2>1 DEF Connect, Subscribe, Live, Open
  <2>2. CASE f # g
    BY <1>1, <1>5, <2>2 DEF Connect, Subscribe, TypeOK
  <2> QED
    BY <2>1, <2>2
<1>6. ASSUME NEW h \in Handler, Broadcast(h) PROVE g[1] \in Open'
  <2>1. connecting'[g] \in {connecting[g] + joined[g], connecting[g] + 0}
        /\ UNCHANGED <<joining, joined, page>>
    BY <1>6 DEF Broadcast
  <2>2. connecting[g] > 0 \/ joining[g] > 0 \/ joined[g] > 0
    BY <1>0, <2>1
  <2> QED
    BY <2>1, <2>2 DEF Live, Open
<1> QED
  BY <1>1, <1>2, <1>3, <1>4, <1>5, <1>6
  DEF Next, vars, browser, ClearAll, Collect, LoadScripts, TimeoutFires, QueryFails, Query

LEMMA OneConnectionStep ==
    ASSUME TypeOK, Wires, Live, OneConnection, [Next]_vars
    PROVE  OneConnection'
<1> SUFFICES ASSUME Alone'
             PROVE  /\ \A v, w \in Open' : v = w
                    /\ \A g \in Wire : connecting'[g] + joining'[g] + joined'[g] <= 1
  BY DEF OneConnection
<1>0. Alone /\ (\A v, w \in Open : v = w) /\ early' = {}
  BY AloneBefore DEF OneConnection, Alone
<1>1. \A v, w \in Open' : v = w
  <2>1. ASSUME NEW v \in Page, OpenPage(v) PROVE \A u, w \in Open' : u = w
    <3>1. Open = {}
      BY <2>1 DEF OpenPage, Alone
    <3>2. Open' \subseteq {v}
      BY <2>1, <3>1 DEF OpenPage, Open, TypeOK
    <3> QED
      BY <3>2
  <2>2. ASSUME NEW v \in Page, ClosePage(v) PROVE Open' \subseteq Open
    BY <2>2 DEF ClosePage, Open, TypeOK
  <2>3. CASE page' = page
    BY <1>0, <2>3 DEF Open
  <2> QED
    BY <1>0, <2>1, <2>2, <2>3
    DEF Next, vars, browser, ClearAll, Collect, LoadScripts, Connect, Subscribe, TimeoutFires,
        Disconnect, QueryFails, Query, Broadcast
<1>2. ASSUME NEW g \in Wire PROVE connecting'[g] + joining'[g] + joined'[g] <= 1
  <2>0. /\ g[1] \in Page /\ connecting[g] \in Nat /\ joining[g] \in Nat /\ joined[g] \in Nat
        /\ connecting[g] + joining[g] + joined[g] <= 1
    BY <1>0, WirePair DEF TypeOK, OneConnection
  <2>1. CASE connecting'[g] = connecting[g] /\ joining'[g] = joining[g] /\ joined'[g] = joined[g]
    BY <2>0, <2>1
  <2>2. ASSUME NEW v \in Page, OpenPage(v)
        PROVE  connecting'[g] + joining'[g] + joined'[g] <= 1
    <3>1. UNCHANGED <<joining, joined>>
          /\ connecting'[g] = IF g[1] = v THEN 1 ELSE connecting[g]
      BY <2>2 DEF OpenPage
    <3>2. g[1] = v => joining[g] = 0 /\ joined[g] = 0
      <4> SUFFICES ASSUME g[1] = v PROVE g[1] \notin Opened
        BY <2>0 DEF Wires
      <4> QED
        BY <2>2 DEF OpenPage, Opened
    <3> QED
      BY <2>0, <3>1, <3>2
  <2>3. ASSUME NEW f \in Wire, Connect(f) \/ Subscribe(f)
        PROVE  connecting'[g] + joining'[g] + joined'[g] <= 1
    <3>1. CASE f # g
      BY <2>1, <2>3, <3>1 DEF Connect, Subscribe, TypeOK
    <3>2. CASE f = g /\ Connect(f)
      <4>1. /\ connecting'[g] = connecting[g] - 1 /\ joining'[g] = joining[g] + 1
            /\ joined' = joined
        BY <3>2 DEF Connect, TypeOK
      <4> QED
        BY <2>0, <4>1
    <3>3. CASE f = g /\ Subscribe(f)
      <4>1. /\ joining'[g] = joining[g] - 1 /\ joined'[g] = joined[g] + 1
            /\ connecting' = connecting
        BY <3>3 DEF Subscribe, TypeOK
      <4> QED
        BY <2>0, <4>1
    <3> QED
      BY <2>3, <3>1, <3>2, <3>3
  <2>4. ASSUME NEW gone, Ends(gone) PROVE connecting'[g] + joining'[g] + joined'[g] <= 1
    <3>1. CASE g \in gone
      <4>1. connecting'[g] = 0 /\ joining'[g] = 0 /\ joined'[g] = 0
        BY <2>4, <3>1 DEF Ends
      <4> QED
        BY <4>1
    <3>2. CASE g \notin gone
      BY <2>1, <2>4, <3>2 DEF Ends
    <3> QED
      BY <3>1, <3>2
  <2>5. ASSUME NEW h \in Handler, Broadcast(h)
        PROVE  connecting'[g] + joining'[g] + joined'[g] <= 1
    <3>1. connecting'[g] = connecting[g]
      BY <1>0, <2>5, BroadcastConnects
    <3>2. UNCHANGED <<joining, joined>>
      BY <2>5 DEF Broadcast
    <3> QED
      BY <2>1, <3>1, <3>2
  <2>6. CASE UNCHANGED <<connecting, joining, joined>>
    BY <2>1, <2>6
  <2> QED
    BY <2>2, <2>3, <2>4, <2>5, <2>6
    DEF Next, vars, browser, ClearAll, Collect, LoadScripts, TimeoutFires, QueryFails, Query,
        ClosePage, Disconnect
<1> QED
  BY <1>1, <1>2

\* The wires of a topic, of which each page has one.
LEMMA OfTopic ==
    ASSUME NEW t \in Topic
    PROVE  /\ IsFiniteSet(Of(t)) /\ Of(t) \subseteq Wire
           /\ \A g \in Of(t) : g[1] \in Page /\ g[2] = t /\ g = <<g[1], t>>
           /\ \A g \in Wire : g \in Of(t) <=> g[2] = t
<1>1. IsFiniteSet(Of(t))
  <2> DEFINE P == Page  T == {t}
  <2>1. IsFiniteSet(P) /\ IsFiniteSet(T)
    BY ChartAssumption, FS_Singleton
  <2> HIDE DEF P, T
  <2>2. IsFiniteSet(P \X T)
    BY <2>1, FS_Product
  <2> QED
    BY <2>2 DEF P, T, Of
<1>2. \A g : g \in Of(t) => g \in Wire /\ g[1] \in Page /\ g[2] = t /\ g = <<g[1], t>>
  BY DEF Of, Wire
<1>3. \A g \in Wire : g[2] = t => g \in Of(t)
  BY DEF Of, Wire
<1> QED
  BY <1>1, <1>2, <1>3

LEMMA ServedFinite ==
    ASSUME NEW t
    PROVE  /\ IsFiniteSet(Served(t)) /\ Cardinality(Served(t)) \in Nat
           /\ Cardinality(Served(t)') \in Nat
<1>1. IsFiniteSet(Handler) /\ Served(t) \subseteq Handler /\ Served(t)' \subseteq Handler
  BY ChartAssumption DEF Served
<1> QED
  BY <1>1, FS_Subset, FS_CardinalityType

\* Done(h) ends the work for one topic.
LEMMA ServedDone ==
    ASSUME TypeOK, NEW t \in Topic, NEW h \in Handler, Done(h), work[h] # NoWire
    PROVE  /\ Cardinality(Served(t)') <= Cardinality(Served(t))
           /\ work[h] \in Of(t) => Cardinality(Served(t)') = Cardinality(Served(t)) - 1
<1>1. NoWire \notin Of(t)
  BY OfTopic, WirePair
<1>2. Served(t)' = Served(t) \ {h}
  BY <1>1 DEF Served, Done, TypeOK
<1>3. work[h] \in Of(t) => h \in Served(t)
  BY DEF Served
<1> QED
  BY <1>2, <1>3, ServedFinite, FS_RemoveElement, FS_Subset

\* Query(h, f) begins the work for one topic.
LEMMA ServedQuery ==
    ASSUME TypeOK, NEW t \in Topic, NEW h \in Handler, NEW f \in Wire, Query(h, f)
    PROVE  Cardinality(Served(t)') = IF f \in Of(t) THEN Cardinality(Served(t)) + 1
                                     ELSE Cardinality(Served(t))
<1>1. NoWire \notin Of(t)
  BY OfTopic, WirePair
<1>2. h \notin Served(t)
  BY <1>1 DEF Served, Query
<1>3. Served(t)' = IF f \in Of(t) THEN Served(t) \cup {h} ELSE Served(t)
  BY <1>1 DEF Served, Query, TypeOK
<1> QED
  BY <1>2, <1>3, ServedFinite, FS_AddElement

LEMMA OpenedGrows ==
    ASSUME TypeOK, [Next]_vars
    PROVE  /\ Cardinality(Opened) \in Nat /\ Cardinality(Opened') \in Nat
           /\ Cardinality(Opened) <= Cardinality(Opened')
           /\ \A v \in Page : OpenPage(v) => Cardinality(Opened') = Cardinality(Opened) + 1
<1>1. IsFiniteSet(Page) /\ Opened \subseteq Page /\ Opened' \subseteq Page
  BY ChartAssumption DEF Opened
<1>2. IsFiniteSet(Opened) /\ IsFiniteSet(Opened')
  BY <1>1, FS_Subset
<1>3. ASSUME NEW v \in Page, OpenPage(v) PROVE Cardinality(Opened') = Cardinality(Opened) + 1
  <2>1. v \notin Opened /\ Opened' = Opened \cup {v}
    BY <1>3 DEF OpenPage, Opened, TypeOK
  <2> QED
    BY <1>2, <2>1, FS_AddElement
<1> QED
  BY <1>2, <1>3, PagesStay, FS_CardinalityType, FS_Subset

\* What is under way on the wires of a topic, in numbers.
LEMMA UnderWayType ==
    ASSUME TypeOK, NEW t \in Topic
    PROVE  /\ Count(connecting, Of(t)) \in Nat /\ Count(timer, Of(t)) \in Nat
           /\ Count(sent, Of(t)) \in Nat /\ Cardinality(Served(t)) \in Nat
           /\ \A g \in Of(t) : connecting[g] \in Nat /\ timer[g] \in Nat /\ sent[g] \in Nat
<1>1. \A g \in Of(t) : connecting[g] \in Nat /\ timer[g] \in Nat /\ sent[g] \in Nat
  BY OfTopic DEF TypeOK
<1> QED
  BY <1>1, OfTopic, UnitsFinite, ServedFinite

\* A broadcast sets at most one timeout, that of the only page that is open.
LEMMA BroadcastCount ==
    ASSUME TypeOK, TypeOK', Live, OneConnection, Alone, NEW h \in Handler, Broadcast(h),
           early' = {}, NEW t \in Topic
    PROVE  UnderWay(t)' <= UnderWay(t)
<1> DEFINE f == work[h]
<1>0. /\ f \in Wire /\ f # NoWire /\ Done(h) /\ sent' = sent
      /\ timer' = NextTimeouts(f[2], answer[h])
  BY DEF Broadcast, TypeOK
<1>1. /\ Count(connecting, Of(t)) \in Nat /\ Count(timer, Of(t)) \in Nat
      /\ Count(sent, Of(t)) \in Nat /\ Cardinality(Served(t)) \in Nat
      /\ Cardinality(Served(t)') \in Nat
      /\ \A g \in Of(t) : timer[g] \in Nat /\ timer'[g] \in Nat
  BY UnderWayType, ServedFinite, OfTopic DEF TypeOK
<1>2. Count(connecting', Of(t)) = Count(connecting, Of(t))
  BY BroadcastConnects, OfTopic, CountSame
<1>3. CASE \A g \in Of(t) : timer'[g] = timer[g]
  <2>1. Count(timer', Of(t)) = Count(timer, Of(t))
    BY <1>3, CountSame
  <2>2. Cardinality(Served(t)') <= Cardinality(Served(t))
    BY <1>0, ServedDone
  <2> QED
    BY <1>0, <1>1, <1>2, <2>1, <2>2 DEF UnderWay
<1>4. ASSUME NEW g \in Of(t), timer'[g] # timer[g] PROVE UnderWay(t)' <= UnderWay(t)
  <2>0. /\ \A e \in Of(t) : /\ e \in Wire /\ e[2] = t /\ e = <<e[1], t>> /\ timer[e] \in Nat
                            /\ connecting[e] \in Nat /\ joining[e] \in Nat /\ joined[e] \in Nat
        /\ \A e \in Of(t) : timer'[e] \in {timer[e] + 0, timer[e] + joined[e]}
    BY <1>0, OfTopic DEF TypeOK, NextTimeouts
  <2>1. f[2] = t /\ f \in Of(t)
    <3>1. ASSUME f[2] # t PROVE FALSE
      <4>1. timer'[g] = timer[g] + 0
        BY <1>0, <2>0, <3>1 DEF NextTimeouts
      <4> QED
        BY <1>4, <2>0, <4>1
    <3> QED
      BY <1>0, <3>1, OfTopic
  <2>2. \A e \in Of(t) : timer'[e] # timer[e] => e[1] \in Open
    BY <2>0 DEF Live
  <2>3. \A e \in Of(t) \ {g} : timer'[e] = timer[e]
    BY <1>4, <2>0, <2>2 DEF OneConnection
  <2>4. joined[g] <= 1
    BY <2>0 DEF OneConnection
  <2>5. Count(timer', Of(t)) = Count(timer, Of(t)) - timer[g] + timer'[g]
        /\ Count(timer', Of(t)) \in Nat
    BY <1>1, <2>3, OfTopic, CountChange
  <2>6. timer'[g] <= timer[g] + 1 /\ timer[g] \in Nat /\ timer'[g] \in Nat
    BY <1>1, <2>0, <2>4
  <2>7. Cardinality(Served(t)') = Cardinality(Served(t)) - 1
    BY <1>0, <2>1, ServedDone
  <2>8. Count(timer', Of(t)) <= Count(timer, Of(t)) + 1
    BY <1>1, <2>5, <2>6
  <2> QED
    BY <1>0, <1>1, <1>2, <2>5, <2>7, <2>8 DEF UnderWay
<1> QED
  BY <1>3, <1>4

LEMMA ChainedStep ==
    ASSUME TypeOK, TypeOK', Live, OneConnection, Chained, [Next]_vars
    PROVE  Chained'
<1> SUFFICES ASSUME Alone', NEW t \in Topic PROVE UnderWay(t)' <= Cardinality(Opened')
  BY DEF Chained
<1> DEFINE C == Count(connecting, Of(t))  T == Count(timer, Of(t))  S == Count(sent, Of(t))
           H == Cardinality(Served(t))
<1>0. /\ Alone /\ early' = {} /\ C + T + S + H <= Cardinality(Opened)
      /\ C \in Nat /\ T \in Nat /\ S \in Nat /\ H \in Nat
      /\ Cardinality(Opened) \in Nat /\ Cardinality(Opened') \in Nat
      /\ Cardinality(Opened) <= Cardinality(Opened')
  BY AloneBefore, UnderWayType, OpenedGrows DEF Alone, Chained, UnderWay
<1>a. /\ IsFiniteSet(Of(t)) /\ Of(t) \subseteq Wire
      /\ \A g \in Of(t) : connecting[g] \in Nat /\ timer[g] \in Nat /\ sent[g] \in Nat
      /\ \A g \in Of(t) : connecting'[g] \in Nat /\ timer'[g] \in Nat /\ sent'[g] \in Nat
      /\ C' \in Nat /\ T' \in Nat /\ S' \in Nat /\ H' \in Nat
  <2>1. \A g \in Of(t) : connecting'[g] \in Nat /\ timer'[g] \in Nat /\ sent'[g] \in Nat
    BY OfTopic DEF TypeOK
  <2>2. C' \in Nat /\ T' \in Nat /\ S' \in Nat
    BY <2>1, OfTopic, UnitsFinite
  <2> QED
    BY <2>1, <2>2, OfTopic, UnderWayType, ServedFinite
<1>b. UnderWay(t)' = C' + T' + S' + H'
  BY DEF UnderWay
<1>1. CASE UNCHANGED <<connecting, timer, sent, work>>
  BY <1>0, <1>1 DEF UnderWay, Served
<1>2. ASSUME NEW v \in Page, OpenPage(v) PROVE UnderWay(t)' <= Cardinality(Opened')
  <2> DEFINE g == <<v, t>>
  <2>1. g \in Of(t) /\ connecting'[g] = 1 /\ UNCHANGED <<timer, sent, work>>
    BY <1>2 DEF OpenPage, Of, Wire
  <2>2. \A e \in Of(t) \ {g} : connecting'[e] = connecting[e]
    BY <1>2, OfTopic DEF OpenPage
  <2>3. C' = C - connecting[g] + connecting'[g]
    BY <1>a, <2>1, <2>2, CountChange
  <2>4. T' = T /\ S' = S /\ H' = H
    BY <2>1 DEF Served
  <2>5. Cardinality(Opened') = Cardinality(Opened) + 1 /\ connecting[g] \in Nat
    BY <1>2, <1>a, <2>1, OpenedGrows
  <2> HIDE DEF C, T, S, H, g
  <2> QED
    BY <1>0, <1>b, <2>1, <2>3, <2>4, <2>5
<1>3. ASSUME NEW f \in Wire, Connect(f) PROVE UnderWay(t)' <= Cardinality(Opened')
  <2>1. /\ connecting'[f] = connecting[f] - 1 /\ sent'[f] = sent[f] + 1
        /\ \A e \in Wire \ {f} : connecting'[e] = connecting[e] /\ sent'[e] = sent[e]
        /\ UNCHANGED <<timer, work>>
    BY <1>3 DEF Connect, TypeOK
  <2>2. T' = T /\ H' = H
    BY <2>1 DEF Served
  <2>3. CASE f \in Of(t)
    <3>1. C' = C - connecting[f] + connecting'[f]
      BY <1>a, <2>1, <2>3, CountChange
    <3>2. S' = S - sent[f] + sent'[f]
      BY <1>a, <2>1, <2>3, CountChange
    <3>3. connecting[f] \in Nat /\ sent[f] \in Nat
      BY <1>a, <2>3
    <3> HIDE DEF C, T, S, H
    <3> QED
      BY <1>0, <1>b, <2>1, <2>2, <3>1, <3>2, <3>3
  <2>4. CASE f \notin Of(t)
    <3>1. C' = C /\ S' = S
      BY <1>a, <2>1, <2>4, CountSame
    <3> QED
      BY <1>0, <1>b, <2>2, <3>1
  <2> QED
    BY <2>3, <2>4
<1>4. ASSUME NEW f \in Wire, TimeoutFires(f) PROVE UnderWay(t)' <= Cardinality(Opened')
  <2>1. /\ timer'[f] = timer[f] - 1 /\ sent'[f] = sent[f] + 1
        /\ \A e \in Wire \ {f} : timer'[e] = timer[e] /\ sent'[e] = sent[e]
        /\ UNCHANGED <<connecting, work>>
    BY <1>4 DEF TimeoutFires, TypeOK
  <2>2. C' = C /\ H' = H
    BY <2>1 DEF Served
  <2>3. CASE f \in Of(t)
    <3>1. T' = T - timer[f] + timer'[f]
      BY <1>a, <2>1, <2>3, CountChange
    <3>2. S' = S - sent[f] + sent'[f]
      BY <1>a, <2>1, <2>3, CountChange
    <3>3. timer[f] \in Nat /\ sent[f] \in Nat
      BY <1>a, <2>3
    <3> HIDE DEF C, T, S, H
    <3> QED
      BY <1>0, <1>b, <2>1, <2>2, <3>1, <3>2, <3>3
  <2>4. CASE f \notin Of(t)
    <3>1. T' = T /\ S' = S
      BY <1>a, <2>1, <2>4, CountSame
    <3> QED
      BY <1>0, <1>b, <2>2, <3>1
  <2> QED
    BY <2>3, <2>4
<1>5. ASSUME NEW gone, Ends(gone), UNCHANGED <<sent, work>>
      PROVE  UnderWay(t)' <= Cardinality(Opened')
  <2>1. \A e \in Of(t) : connecting'[e] <= connecting[e] /\ timer'[e] <= timer[e]
    BY <1>5, <1>a DEF Ends
  <2>2. C' <= C /\ T' <= T
    BY <1>a, <2>1, CountLess
  <2>3. S' = S /\ H' = H
    BY <1>5 DEF Served
  <2> HIDE DEF C, T, S, H
  <2> QED
    BY <1>0, <1>a, <1>b, <2>2, <2>3
<1>6. ASSUME NEW h \in Handler, QueryFails(h) PROVE UnderWay(t)' <= Cardinality(Opened')
  <2>1. Done(h) /\ work[h] # NoWire /\ UNCHANGED <<connecting, timer, sent>>
    BY <1>6 DEF QueryFails, browser
  <2>2. C' = C /\ T' = T /\ S' = S /\ H' <= H
    BY <2>1, ServedDone
  <2> HIDE DEF C, T, S, H
  <2> QED
    BY <1>0, <1>a, <1>b, <2>2
<1>7. ASSUME NEW h \in Handler, NEW f \in Wire, Query(h, f)
      PROVE  UnderWay(t)' <= Cardinality(Opened')
  <2>1. /\ sent'[f] = sent[f] - 1 /\ \A e \in Wire \ {f} : sent'[e] = sent[e]
        /\ UNCHANGED <<connecting, timer>>
    BY <1>7 DEF Query, TypeOK, browser
  <2>2. C' = C /\ T' = T /\ H' = IF f \in Of(t) THEN H + 1 ELSE H
    BY <1>7, <2>1, ServedQuery
  <2>3. CASE f \in Of(t)
    <3>1. S' = S - sent[f] + sent'[f] /\ sent[f] \in Nat
      BY <1>a, <2>1, <2>3, CountChange
    <3> HIDE DEF C, T, S, H
    <3> QED
      BY <1>0, <1>b, <2>1, <2>2, <2>3, <3>1
  <2>4. CASE f \notin Of(t)
    <3>1. S' = S
      BY <1>a, <2>1, <2>4, CountSame
    <3> QED
      BY <1>0, <1>b, <2>2, <2>4, <3>1
  <2> QED
    BY <2>3, <2>4
<1>8. ASSUME NEW h \in Handler, Broadcast(h) PROVE UnderWay(t)' <= Cardinality(Opened')
  <2>1. UnderWay(t)' <= UnderWay(t)
    BY <1>0, <1>8, BroadcastCount
  <2> HIDE DEF C, T, S, H
  <2>2. UnderWay(t) \in Nat /\ UnderWay(t)' \in Nat /\ UnderWay(t) <= Cardinality(Opened)
    BY <1>0, <1>a, <1>b DEF UnderWay, C, T, S, H
  <2> QED
    BY <1>0, <2>1, <2>2
<1> QED
  BY <1>1, <1>2, <1>3, <1>4, <1>5, <1>6, <1>7, <1>8
  DEF Next, vars, browser, ClearAll, Collect, LoadScripts, Subscribe, ClosePage, Disconnect

\* Pages that are open one after the other make no more queries of a topic than
\* there were pages, for every number of pages, topics and threads: answers to a page
\* that was closed make the next page send, but each only once.
THEOREM ChainsBoundHolds == Spec => []ChainsBound
<1> DEFINE Inv == Wires /\ Works /\ Live /\ OneConnection /\ Chained
<1>1. Init => Inv
  <2> SUFFICES ASSUME Init PROVE Inv
    OBVIOUS
  <2>1. Wires /\ Works /\ Live
    BY DEF Init, Wires, Works, Live
  <2>2. OneConnection
    BY DEF Init, OneConnection, Open
  <2>3. ASSUME NEW t \in Topic PROVE UnderWay(t) <= Cardinality(Opened)
    <3>1. \A n \in {connecting, timer, sent} : Count(n, Of(t)) = 0
      <4> SUFFICES ASSUME NEW n \in {connecting, timer, sent} PROVE Count(n, Of(t)) = 0
        OBVIOUS
      <4>1. \A g \in Of(t) : n[g] = 0
        BY OfTopic DEF Init
      <4>2. Units(n, Of(t)) = {}
        <5> SUFFICES ASSUME NEW x \in Units(n, Of(t)) PROVE FALSE
          OBVIOUS
        <5>1. \E g \in Of(t) : \E k \in 1..n[g] : x = <<g, k>>
          BY UnitsIn
        <5> QED
          BY <4>1, <5>1
      <4> QED
        BY <4>2, FS_EmptySet DEF Count, Units
    <3>2. Served(t) = {} /\ Opened = {}
      BY WirePair, OfTopic DEF Init, Served, Opened
    <3> QED
      BY <3>1, <3>2, FS_EmptySet DEF UnderWay
  <2> QED
    BY <2>1, <2>2, <2>3 DEF Chained
<1>2. TypeOK /\ TypeOK' /\ Inv /\ [Next]_vars => Inv'
  BY WiresStep, WorksStep, LiveStep, OneConnectionStep, ChainedStep
<1>3. Inv => ChainsBound
  BY DEF Chained, ChainsBound, Alone, UnderWay, Served, Of
<1> QED
  BY <1>1, <1>2, <1>3, Typing, PTL DEF Spec
-----------------------------------------------------------------------------
(* The only page implements Display.                                       *)

\* On the only page a wire has one query under way, in every state.
LEMMA OneChainHolds == Spec => [](Wires /\ Works /\ OneChain)
<1>1. Init => Wires /\ Works /\ OneChain
  <2> SUFFICES ASSUME Init PROVE Wires /\ Works /\ OneChain
    OBVIOUS
  <2>1. Wires /\ Works
    BY DEF Init, Wires, Works
  <2>2. OneChain
    <3> SUFFICES ASSUME NEW g \in Wire
                 PROVE  /\ connecting[g] = 0 /\ joining[g] = 0 /\ joined[g] = 0
                        /\ timer[g] = 0 /\ sent[g] = 0 /\ \A h \in Handler : work[h] # g
      BY DEF OneChain
    <3> QED
      BY WirePair DEF Init
  <2> QED
    BY <2>1, <2>2
<1>2. TypeOK /\ (Wires /\ Works /\ OneChain) /\ [Next]_vars => (Wires /\ Works /\ OneChain)'
  BY WiresStep, WorksStep, OneChainStep
<1> QED
  BY <1>1, <1>2, Typing, PTL DEF Spec

LEMMA UndisturbedIsSole == ASSUME Undisturbed PROVE Sole
<1>1. Opened \in SUBSET Page
  BY DEF Opened
<1> QED
  BY <1>1, FewPages DEF Undisturbed, Sole

\* What disturbs the page is never undone.
LEMMA UndisturbedBefore ==
    ASSUME TypeOK, [Next]_vars, Undisturbed'
    PROVE  Undisturbed /\ Sole /\ Sole'
<1>1. Cardinality(Opened) <= 1
  BY OpenedGrows DEF Undisturbed
<1>2. early = {}
  BY DEF Next, vars, browser, ClearAll, Collect, LoadScripts, Connect, Subscribe, TimeoutFires,
         Disconnect, OpenPage, ClosePage, QueryFails, Query, Broadcast, Undisturbed
<1>3. ASSUME NEW f \in Wire PROVE fault[f] # "script"
  <2>1. fault[f] = "script" => fault'[f] = "script"
    <3>1. ASSUME NEW h \in Handler, Broadcast(h), fault[f] = "script"
          PROVE  fault'[f] = "script"
      BY <3>1 DEF Broadcast, NextFault
    <3> QED
      BY <3>1 DEF Next, vars, browser, ClearAll, Collect, LoadScripts, Connect, Subscribe,
         TimeoutFires, Disconnect, OpenPage, ClosePage, QueryFails, Query, Fails, TypeOK
  <2> QED
    BY <2>1 DEF Undisturbed
<1>4. Undisturbed
  BY <1>1, <1>2, <1>3 DEF Undisturbed
<1>5. Sole
  BY <1>4, UndisturbedIsSole
<1>6. Sole'
  <2>1. Opened' \in SUBSET Page
    BY DEF Opened
  <2> QED
    BY <2>1, FewPages DEF Undisturbed, Sole
<1> QED
  BY <1>4, <1>5, <1>6

\* The one thread that works for a wire.
LEMMA TheOne ==
    ASSUME NEW w, NEW f, NEW h \in Handler, w[h] = f, \A k \in Handler : w[k] = f => k = h
    PROVE  (CHOOSE k \in Handler : w[k] = f) = h
  OBVIOUS

LEMMA UnderReadNow ==
    ASSUME Sole, OneChain, NEW f \in Wire
    PROVE  /\ \A h \in Handler : work[h] = f => UnderRead[f] = answer[h]
           /\ (\A h \in Handler : work[h] # f) => UnderRead[f] = Blank
<1>1. ASSUME NEW h \in Handler, work[h] = f PROVE UnderRead[f] = answer[h]
  <2>1. \A k \in Handler : work[k] = f => k = h
    BY <1>1 DEF OneChain
  <2>2. (CHOOSE k \in Handler : work[k] = f) = h
    BY <1>1, <2>1, TheOne
  <2> QED
    BY <1>1, <2>2 DEF UnderRead
<1>2. (\A h \in Handler : work[h] # f) => UnderRead[f] = Blank
  BY DEF UnderRead
<1> QED
  BY <1>1, <1>2

LEMMA UnderReadNext ==
    ASSUME Sole', OneChain', NEW f \in Wire
    PROVE  /\ \A h \in Handler : work'[h] = f => UnderRead'[f] = answer'[h]
           /\ (\A h \in Handler : work'[h] # f) => UnderRead'[f] = Blank
<1>1. ASSUME NEW h \in Handler, work'[h] = f PROVE UnderRead'[f] = answer'[h]
  <2>1. \A k \in Handler : work'[k] = f => k = h
    BY <1>1 DEF OneChain
  <2>2. (CHOOSE k \in Handler : work'[k] = f) = h
    BY <1>1, <2>1, TheOne
  <2> QED
    BY <1>1, <2>2 DEF UnderRead
<1>2. (\A h \in Handler : work'[h] # f) => UnderRead'[f] = Blank
  BY DEF UnderRead
<1> QED
  BY <1>1, <1>2

\* A wire for which the same threads have the same answers.
LEMMA UnderReadSame ==
    ASSUME Sole, OneChain, Sole', OneChain', NEW f \in Wire,
           \A k \in Handler : work[k] = f \/ work'[k] = f =>
             work'[k] = work[k] /\ answer'[k] = answer[k]
    PROVE  UnderRead'[f] = UnderRead[f]
<1>1. CASE \E h \in Handler : work[h] = f
  BY <1>1, UnderReadNow, UnderReadNext
<1>2. CASE \A h \in Handler : work[h] # f
  BY <1>2, UnderReadNow, UnderReadNext
<1> QED
  BY <1>1, <1>2

LEMMA UnderReadDomain ==
    /\ UnderRead = [f \in Wire |-> UnderRead[f]]
    /\ UnderRead' = [f \in Wire |-> UnderRead'[f]]
  BY DEF UnderRead

\* A query that begins is a read of the wire, which has none.
LEMMA QueryReads ==
    ASSUME TypeOK, OneChain, OneChain', Sole, Sole', NEW h \in Handler, NEW f \in Wire, Query(h, f)
    PROVE  D!Read(f)
<1> DEFINE r == Rows(pid[f[1]], table[f[2]][pid[f[1]]])
<1>1. \A k \in Handler : work[k] # f
  BY DEF Query, OneChain, TypeOK
<1>2. UnderRead[f] = Blank
  BY <1>1, UnderReadNow
<1>3. work'[h] = f /\ answer'[h] = r
  BY DEF Query, TypeOK
<1>4. UnderRead'[f] = r
  BY <1>3, UnderReadNext
<1>5. ASSUME NEW g \in Wire, g # f PROVE UnderRead'[g] = UnderRead[g]
  <2>1. \A k \in Handler : work[k] = g \/ work'[k] = g => work'[k] = work[k] /\ answer'[k] = answer[k]
    BY <1>5, WirePair DEF Query, TypeOK
  <2> QED
    BY <2>1, UnderReadSame
<1>6. r = D!Rows(f)
  BY DEF Rows, D!Rows
<1>7. UnderRead' = [UnderRead EXCEPT ![f] = D!Rows(f)]
  BY <1>4, <1>5, <1>6, UnderReadDomain
<1>8. UNCHANGED <<table, pid, shown>>
  BY DEF Query, browser
<1> QED
  BY <1>2, <1>7, <1>8 DEF D!Read

\* The work of a thread ends, and nothing is read on its wire any more.
LEMMA DoneReads ==
    ASSUME TypeOK, OneChain, OneChain', Sole, Sole', NEW h \in Handler, work[h] # NoWire, Done(h)
    PROVE  /\ work[h] \in Wire /\ UnderRead[work[h]] = answer[h] /\ answer[h] \in Answer
           /\ UnderRead' = [UnderRead EXCEPT ![work[h]] = Blank]
<1> DEFINE f == work[h]
<1>1. f \in Wire /\ answer[h] \in Answer
  BY DEF TypeOK
<1>2. \A k \in Handler : work[k] = f => k = h
  BY <1>1 DEF OneChain
<1>3. \A k \in Handler : work'[k] = IF k = h THEN NoWire ELSE work[k]
  BY DEF Done, TypeOK
<1>4. UnderRead'[f] = Blank
  BY <1>1, <1>2, <1>3, WirePair, UnderReadNext
<1>5. ASSUME NEW g \in Wire, g # f PROVE UnderRead'[g] = UnderRead[g]
  <2>1. \A k \in Handler : work[k] = g \/ work'[k] = g => work'[k] = work[k] /\ answer'[k] = answer[k]
    BY <1>5, WirePair DEF Done, TypeOK
  <2> QED
    BY <2>1, UnderReadSame
<1>6. UnderRead' = [UnderRead EXCEPT ![f] = Blank]
  BY <1>4, <1>5, UnderReadDomain
<1> QED
  BY <1>1, <1>6, UnderReadNow

\* A broadcast draws what was read, on all charts of the topic, or on none.
LEMMA BroadcastDraws ==
    ASSUME TypeOK, Wires, Works, OneChain, OneChain', Sole, Sole', Undisturbed',
           NEW h \in Handler, Broadcast(h)
    PROVE  D!Draw(work[h]) \/ D!Drop(work[h])
<1> DEFINE f == work[h]  v == f[1]  t == f[2]  a == answer[h]
<1>1. f \in Wire /\ f # NoWire /\ Done(h) /\ UNCHANGED <<table, pid>>
  BY DEF Broadcast, TypeOK
<1>2. v \in Page /\ t \in Topic /\ v \in Opened /\ f = <<v, t>>
  BY <1>1, WirePair DEF Works
<1>3. /\ UnderRead[f] = a /\ a # Blank /\ a \in Answer
      /\ UnderRead' = [UnderRead EXCEPT ![f] = Blank]
  BY <1>1, DoneReads, AnswerNotBlank
<1>4. \A u \in Page, c \in DOMAIN Charts :
        shown'[u][c] = IF Receives(u, t) /\ c \in Drawn(u, t, a) THEN a ELSE shown[u][c]
  BY BroadcastShows
<1>5. \A u \in Page : Receives(u, t) => u = v
  BY <1>2 DEF Receives, Open, Opened, Sole
<1>6. shown = [u \in Page |-> [c \in DOMAIN Charts |-> shown[u][c]]]
      /\ shown' = [u \in Page |-> [c \in DOMAIN Charts |-> shown'[u][c]]]
  BY DEF TypeOK, Broadcast
<1>7. CASE ~Receives(v, t) \/ Drawn(v, t, a) = {}
  <2>1. \A u \in Page, c \in DOMAIN Charts : shown'[u][c] = shown[u][c]
    BY <1>4, <1>5, <1>7
  <2>2. shown' = shown
    BY <1>6, <2>1
  <2> QED
    BY <1>1, <1>3, <2>2 DEF D!Drop
<1>8. CASE Receives(v, t) /\ Drawn(v, t, a) # {}
  <2>1. ~Empty(a) /\ ~Again(v, t)
    BY <1>8, <1>2, DrawnNames
  <2>2. Drawn(v, t, a) = Names(t)
    <3>1. Complete(v, t, a)
      <4> SUFFICES ASSUME ~Complete(v, t, a) PROVE FALSE
        OBVIOUS
      <4>1. fault'[f] = "script"
        BY <1>1, <1>8, <2>1 DEF Broadcast, NextFault
      <4> QED
        BY <1>1, <4>1 DEF Undisturbed
    <3> QED
      BY <2>1, <3>1 DEF Complete
  <2>3. \A u \in Page, c \in DOMAIN Charts :
          shown'[u][c] = IF u = v /\ c \in Names(t) THEN a ELSE shown[u][c]
    BY <1>4, <1>5, <1>8, <2>2
  <2> DEFINE row == [c \in DOMAIN Charts |-> IF c \in Names(t) THEN a ELSE shown[v][c]]
  <2>4. shown'[v] = row
    BY <1>2, <1>6, <2>3
  <2>5. ASSUME NEW u \in Page, u # v PROVE shown'[u] = shown[u]
    BY <1>6, <2>3, <2>5
  <2>6. shown' = [shown EXCEPT ![v] = row]
    <3> HIDE DEF row
    <3> QED
      BY <1>2, <1>6, <2>4, <2>5
  <2>7. [u \in Topic |-> Names(u)][t] = Names(t)
    BY <1>2
  <2>8. shown' = [shown EXCEPT ![v] = [c \in DOMAIN Charts |->
                     IF c \in [u \in Topic |-> Names(u)][t] THEN a ELSE @[c]]]
    BY <2>6, <2>7
  <2>9. UnderRead[f].old # UnderRead[f].new
    BY <1>3, <2>1 DEF Empty
  <2> HIDE DEF v, t, a
  <2> QED
    BY <1>1, <1>3, <2>8, <2>9 DEF D!Draw, v, t
<1> QED
  BY <1>7, <1>8

\* For every number of topics, threads and applications: on the only page each topic
\* is refreshed as if one thread read, drew all its charts, and read again, whatever
\* connections and answers are lost, as long as no answer came before the scripts.
THEOREM DisplayHolds == Spec => DisplayImplemented
<1> DEFINE Inv == Wires /\ Works /\ OneChain
<1>1. Init => D!Init
  <2> SUFFICES ASSUME Init PROVE D!Init
    OBVIOUS
  <2>1. UnderRead = [f \in Wire |-> Blank]
    BY WirePair DEF Init, UnderRead
  <2>2. Opened = {} /\ Cardinality({}) = 0
    BY FS_EmptySet DEF Init, Opened
  <2>3. Undisturbed
    BY <2>2 DEF Init, Undisturbed
  <2> QED
    BY <2>1, <2>3 DEF Init, D!Init, D!Wire, Wire
<1>2. TypeOK /\ Inv /\ Inv' /\ [Next]_vars => [D!Next]_(D!vars)
  <2> SUFFICES ASSUME TypeOK, Inv, Inv', [Next]_vars PROVE D!Next \/ UNCHANGED D!vars
    OBVIOUS
  <2>1. CASE ~Undisturbed'
    BY <2>1 DEF D!Next, D!Disturb, Undisturbed
  <2>2. CASE Undisturbed'
    <3>1. Undisturbed /\ Sole /\ Sole'
      BY <2>2, UndisturbedBefore
    <3>2. CASE UNCHANGED <<table, pid, work, answer, shown>>
      <4>1. UnderRead' = UnderRead
        BY <3>2 DEF UnderRead
      <4> QED
        BY <2>2, <3>1, <3>2, <4>1 DEF D!vars
    <3>3. ASSUME NEW t \in Topic, NEW b \in App, Collect(t, b) PROVE D!Refresh
      <4>1. UnderRead' = UnderRead
        BY <3>3 DEF Collect, UnderRead
      <4> QED
        BY <3>3, <4>1 DEF Collect, browser, D!Refresh, D!Collect
    <3>4. ASSUME NEW t \in Topic, ClearAll(t) PROVE D!Refresh
      <4>1. UnderRead' = UnderRead
        BY <3>4 DEF ClearAll, UnderRead
      <4> QED
        BY <3>4, <4>1 DEF ClearAll, browser, D!Refresh, D!Clear
    <3>5. ASSUME NEW h \in Handler, NEW f \in Wire, Query(h, f) PROVE D!Refresh
      BY <3>1, <3>5, QueryReads DEF D!Refresh, D!Wire, Wire
    <3>6. ASSUME NEW h \in Handler, QueryFails(h) PROVE D!Refresh
      <4>1. /\ work[h] \in Wire /\ UnderRead[work[h]] # Blank
            /\ UnderRead' = [UnderRead EXCEPT ![work[h]] = Blank]
        BY <3>1, <3>6, DoneReads, AnswerNotBlank DEF QueryFails
      <4> QED
        BY <3>6, <4>1 DEF QueryFails, browser, D!Refresh, D!Drop, D!Wire, Wire
    <3>7. ASSUME NEW h \in Handler, Broadcast(h) PROVE D!Refresh
      <4>1. work[h] \in Wire
        BY <3>7 DEF Broadcast, TypeOK
      <4> QED
        BY <2>2, <3>1, <3>7, <4>1, BroadcastDraws DEF D!Refresh, D!Wire, Wire
    <3>8. D!Refresh => D!Next
      BY <2>2, <3>1 DEF D!Next
    <3> QED
      BY <3>2, <3>3, <3>4, <3>5, <3>6, <3>7, <3>8
      DEF Next, vars, browser, LoadScripts, Connect, Subscribe, TimeoutFires, Disconnect,
          OpenPage, ClosePage
  <2> QED
    BY <2>1, <2>2
<1> QED
  BY <1>1, <1>2, Typing, OneChainHolds, PTL DEF Spec, DisplayImplemented, D!Spec
-----------------------------------------------------------------------------
(* The way of a measurement.                                               *)

\* A property of an entity has the column at the place of its setter.
LEMMA EntityAt ==
    ASSUME NEW s, NEW columns, NEW i \in DOMAIN s, \A j \in DOMAIN s : s[j] = s[i] => j = i
    PROVE  /\ s[i] \in DOMAIN Entity(s, columns)
           /\ Entity(s, columns)[s[i]] = columns[i]
<1>1. (CHOOSE j \in DOMAIN s : s[j] = s[i]) = i
  OBVIOUS
<1>2. s[i] \in Range(s)
  BY DEF Range
<1> QED
  BY <1>1, <1>2 DEF Entity

\* getMB changes the unit only; a property that is not converted stays.
LEMMA ConvertedAt ==
    ASSUME NEW e, NEW P, NEW p \in DOMAIN e
    PROVE  /\ p \notin P => Converted(e, P)[p] = e[p]
           /\ \A column, unit : p \in P /\ e[p] = Measure(column, unit)
                => Converted(e, P)[p] = Measure(column, "MB")
<1>1. ASSUME NEW column, NEW unit PROVE getMB(Measure(column, unit)) = Measure(column, "MB")
  BY DEF getMB, Measure
<1> QED
  BY <1>1 DEF Converted

\* The columns of jstat -gc, in the order they are printed.
LEMMA GcColumns ==
    LET col == jstat("-gc") IN
    /\ col[1] = Measure("S0C", "KB") /\ col[2] = Measure("S1C", "KB")
    /\ col[3] = Measure("S0U", "KB") /\ col[4] = Measure("S1U", "KB")
    /\ col[5] = Measure("EC", "KB") /\ col[6] = Measure("EU", "KB")
    /\ col[7] = Measure("OC", "KB") /\ col[8] = Measure("OU", "KB")
    /\ col[9] = Measure("MC", "KB") /\ col[10] = Measure("MU", "KB")
    /\ col[11] = Measure("CCSC", "KB") /\ col[12] = Measure("CCSU", "KB")
    /\ col[13] = Measure("YGC", "times") /\ col[14] = Measure("YGCT", "s")
    /\ col[15] = Measure("FGC", "times") /\ col[16] = Measure("FGCT", "s")
    /\ col[17] = Measure("GCT", "s")
  BY DEF jstat, JstatGc, Columns

\* Its properties in a row of the table gc.
LEMMA GcRow ==
    /\ Row["gc"]["s0C"] = Measure("S0C", "MB") /\ Row["gc"]["s0U"] = Measure("S0U", "MB")
    /\ Row["gc"]["s1C"] = Measure("S1C", "MB") /\ Row["gc"]["s1U"] = Measure("S1U", "MB")
    /\ Row["gc"]["ec"] = Measure("EC", "MB") /\ Row["gc"]["eu"] = Measure("EU", "MB")
    /\ Row["gc"]["oc"] = Measure("OC", "MB") /\ Row["gc"]["ou"] = Measure("OU", "MB")
    /\ Row["gc"]["mc"] = Measure("MC", "MB") /\ Row["gc"]["mu"] = Measure("MU", "MB")
    /\ Row["gc"]["ccsc"] = Measure("CCSC", "MB") /\ Row["gc"]["ccsu"] = Measure("CCSU", "MB")
    /\ Row["gc"]["ygc"] = Measure("YGC", "times") /\ Row["gc"]["ygct"] = Measure("YGCT", "s")
    /\ Row["gc"]["fgc"] = Measure("FGC", "times") /\ Row["gc"]["fgct"] = Measure("FGCT", "s")
    /\ Row["gc"]["gct"] = Measure("GCT", "s")
<1> DEFINE s == <<"s0C", "s1C", "s0U", "s1U", "ec", "eu", "oc", "ou", "mc", "mu",
                  "ccsc", "ccsu", "ygc", "ygct", "fgc", "fgct", "gct">>
           kb == {"s0C", "s1C", "s0U", "s1U", "ec", "eu", "oc", "ou", "mc", "mu", "ccsc", "ccsu"}
<1>1. /\ DOMAIN s = 1..17
      /\ s[1] = "s0C" /\ s[2] = "s1C" /\ s[3] = "s0U" /\ s[4] = "s1U" /\ s[5] = "ec"
      /\ s[6] = "eu" /\ s[7] = "oc" /\ s[8] = "ou" /\ s[9] = "mc" /\ s[10] = "mu"
      /\ s[11] = "ccsc" /\ s[12] = "ccsu" /\ s[13] = "ygc" /\ s[14] = "ygct"
      /\ s[15] = "fgc" /\ s[16] = "fgct" /\ s[17] = "gct"
  OBVIOUS
<1>2. \A i, j \in 1..17 : s[i] = s[j] => i = j
  OBVIOUS
<1>3. gc = Entity(s, jstat("-gc")) /\ Row["gc"] = Converted(gc, kb)
  BY DEF gc, Row, pullGc
<1>4. \A i \in 1..12 : s[i] \in kb
  BY <1>1
<1>5. \A i \in 13..17 : s[i] \notin kb
  BY <1>1
<1> HIDE DEF s, kb
<1>6. \A i \in 1..17 : s[i] \in DOMAIN gc /\ gc[s[i]] = jstat("-gc")[i]
  BY <1>1, <1>2, <1>3, EntityAt
<1>7. ASSUME NEW i \in 1..12, NEW column, jstat("-gc")[i] = Measure(column, "KB")
      PROVE  Row["gc"][s[i]] = Measure(column, "MB")
  BY <1>3, <1>4, <1>6, <1>7, ConvertedAt
<1>8. ASSUME NEW i \in 13..17 PROVE Row["gc"][s[i]] = jstat("-gc")[i]
  BY <1>3, <1>5, <1>6, ConvertedAt
<1> QED
  BY <1>1, <1>7, <1>8, GcColumns

\* The columns of jstat -class, and the first four of jstat -compiler after them.
LEMMA ClassColumns ==
    LET col == jstatClass IN
    /\ col[1] = Measure("Loaded", "count") /\ col[2] = Measure("BytesLoaded", "KB")
    /\ col[3] = Measure("Unloaded", "count") /\ col[4] = Measure("BytesUnloaded", "KB")
    /\ col[5] = Measure("ClassTime", "s") /\ col[6] = Measure("Compiled", "count")
    /\ col[7] = Measure("Failed", "count") /\ col[8] = Measure("Invalid", "count")
    /\ col[9] = Measure("CompileTime", "s")
  BY DEF jstatClass, jstat, JstatClass, JstatCompiler, Columns

LEMMA ClassRow ==
    /\ Row["cl"]["loaded"] = Measure("Loaded", "count")
    /\ Row["cl"]["bytes1"] = Measure("BytesLoaded", "MB")
    /\ Row["cl"]["unloaded"] = Measure("Unloaded", "count")
    /\ Row["cl"]["bytes2"] = Measure("BytesUnloaded", "MB")
    /\ Row["cl"]["time1"] = Measure("ClassTime", "s")
    /\ Row["cl"]["compiled"] = Measure("Compiled", "count")
    /\ Row["cl"]["failed"] = Measure("Failed", "count")
    /\ Row["cl"]["invalid"] = Measure("Invalid", "count")
    /\ Row["cl"]["time2"] = Measure("CompileTime", "s")
<1> DEFINE s == <<"loaded", "bytes1", "unloaded", "bytes2", "time1",
                  "compiled", "failed", "invalid", "time2">>
           kb == {"bytes1", "bytes2"}
<1>1. /\ DOMAIN s = 1..9
      /\ s[1] = "loaded" /\ s[2] = "bytes1" /\ s[3] = "unloaded" /\ s[4] = "bytes2"
      /\ s[5] = "time1" /\ s[6] = "compiled" /\ s[7] = "failed" /\ s[8] = "invalid"
      /\ s[9] = "time2"
  OBVIOUS
<1>2. \A i, j \in 1..9 : s[i] = s[j] => i = j
  OBVIOUS
<1>3. classload = Entity(s, jstatClass) /\ Row["cl"] = Converted(classload, kb)
  BY DEF classload, Row, pullClassload
<1>4. \A i \in 1..9 : s[i] \in kb <=> i \in {2, 4}
  BY <1>1
<1> HIDE DEF s, kb
<1>5. \A i \in 1..9 : s[i] \in DOMAIN classload /\ classload[s[i]] = jstatClass[i]
  BY <1>1, <1>2, <1>3, EntityAt
<1>6. ASSUME NEW i \in {2, 4}, NEW column, jstatClass[i] = Measure(column, "KB")
      PROVE  Row["cl"][s[i]] = Measure(column, "MB")
  BY <1>3, <1>4, <1>5, <1>6, ConvertedAt
<1>7. ASSUME NEW i \in (1..9) \ {2, 4} PROVE Row["cl"][s[i]] = jstatClass[i]
  BY <1>3, <1>4, <1>5, ConvertedAt
<1> QED
  BY <1>1, <1>6, <1>7, ClassColumns

LEMMA ThreadRow ==
    /\ Row["thread"]["total"] = Measure("nid", "count")
    /\ Row["thread"]["runnable"] = Measure("RUNNABLE", "count")
    /\ Row["thread"]["timed_WAITING"] = Measure("TIMED_WAITING", "count")
    /\ Row["thread"]["waiting"] = Measure("WAITING", "count")
<1> DEFINE s == <<"total", "runnable", "timed_WAITING", "waiting">>
<1>1. /\ DOMAIN s = 1..4 /\ s[1] = "total" /\ s[2] = "runnable" /\ s[3] = "timed_WAITING"
      /\ s[4] = "waiting"
  OBVIOUS
<1>2. \A i, j \in 1..4 : s[i] = s[j] => i = j
  OBVIOUS
<1>3. Row["thread"] = Entity(s, JstackCounts)
  BY DEF threads, Row, pullThread
<1>4. /\ JstackCounts[1] = Measure("nid", "count") /\ JstackCounts[2] = Measure("RUNNABLE", "count")
      /\ JstackCounts[3] = Measure("TIMED_WAITING", "count")
      /\ JstackCounts[4] = Measure("WAITING", "count")
  BY DEF JstackCounts, Columns
<1> HIDE DEF s
<1>5. \A i \in 1..4 : Row["thread"][s[i]] = JstackCounts[i]
  BY <1>1, <1>2, <1>3, EntityAt
<1> QED
  BY <1>1, <1>4, <1>5

\* The charts of each topic draw, under each name, what the name says.
LEMMA GcTruthful ==
    \A c \in {"s0", "s1", "eden", "old", "mc", "ccsc", "gcn", "gct"} : Truthful(c, "gc")
<1>1. Truthful("s0", "gc")
  BY GcRow DEF Truthful, Charts, Chart, s0, Meaning, Measure, Glossary, ShownIn
<1>2. Truthful("s1", "gc")
  BY GcRow DEF Truthful, Charts, Chart, s1, Meaning, Measure, Glossary, ShownIn
<1>3. Truthful("eden", "gc")
  BY GcRow DEF Truthful, Charts, Chart, eden, Meaning, Measure, Glossary, ShownIn
<1>4. Truthful("old", "gc")
  BY GcRow DEF Truthful, Charts, Chart, old, Meaning, Measure, Glossary, ShownIn
<1>5. Truthful("mc", "gc")
  BY GcRow DEF Truthful, Charts, Chart, mc, Meaning, Measure, Glossary, ShownIn
<1>6. Truthful("ccsc", "gc")
  BY GcRow DEF Truthful, Charts, Chart, ccsc, Meaning, Measure, Glossary, ShownIn
<1>7. Truthful("gcn", "gc")
  BY GcRow DEF Truthful, Charts, Chart, gcn, Meaning, Measure, Glossary, ShownIn
<1>8. Truthful("gct", "gc")
  BY GcRow DEF Truthful, Charts, Chart, gct, Meaning, Measure, Glossary, ShownIn
<1> QED
  BY <1>1, <1>2, <1>3, <1>4, <1>5, <1>6, <1>7, <1>8

LEMMA ClassTruthful == \A c \in {"classn", "classt", "comn", "comt", "combyte"} : Truthful(c, "cl")
<1>1. Truthful("classn", "cl")
  BY ClassRow DEF Truthful, Charts, Chart, classn, Meaning, Measure, Glossary, ShownIn
<1>2. Truthful("classt", "cl")
  BY ClassRow DEF Truthful, Charts, Chart, classt, Meaning, Measure, Glossary, ShownIn
<1>3. Truthful("comn", "cl")
  BY ClassRow DEF Truthful, Charts, Chart, comn, Meaning, Measure, Glossary, ShownIn
<1>4. Truthful("comt", "cl")
  BY ClassRow DEF Truthful, Charts, Chart, comt, Meaning, Measure, Glossary, ShownIn
<1>5. Truthful("combyte", "cl")
  BY ClassRow DEF Truthful, Charts, Chart, combyte, Meaning, Measure, Glossary, ShownIn
<1> QED
  BY <1>1, <1>2, <1>3, <1>4, <1>5

LEMMA ThreadTruthful == Truthful("thread", "thread")
  BY ThreadRow DEF Truthful, Charts, Chart, thread, Meaning, Measure, Glossary, ShownIn

\* Each line of each chart of an open page is the measurement its legend names, in
\* the unit of the chart, through the three programs it passes.
THEOREM ChartsTruthfulHolds == Spec => []ChartsTruthful
<1>1. Names("gc") = {"s0", "s1", "eden", "old", "mc", "ccsc", "gcn", "gct"}
  BY DEF Names, Callback, Range
<1>2. Names("cl") = {"classn", "classt", "comn", "comt", "combyte"}
  BY DEF Names, Callback, Range
<1>3. Names("thread") = {"thread"}
  BY DEF Names, Callback, Range
<1>4. DOMAIN Row = {"gc", "cl", "thread"}
  BY DEF Row
<1>5. ChartsTruthful
  BY <1>1, <1>2, <1>3, <1>4, GcTruthful, ClassTruthful, ThreadTruthful DEF ChartsTruthful
<1> QED
  BY <1>5, PTL
=============================================================================
