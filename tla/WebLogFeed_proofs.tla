-------------------------- MODULE WebLogFeed_proofs --------------------------
(***************************************************************************)
(* What the only page shows: WebLog implements Feed, and the page shows    *)
(* all that counts as read.  The invariants of the log reader are those    *)
(* of LogReader_proofs, which hold of the log reader inside WebLog.        *)
(***************************************************************************)
EXTENDS WebLog_proofs

L == INSTANCE LogReader_proofs

-----------------------------------------------------------------------------
(* The steps of the application are those of the log reader.               *)

LEMMA LogBounds == L!BoundsAssumption
  BY PageAssumption DEF L!BoundsAssumption

LEMMA SameLog ==
    ASSUME Agent!Write \/ Agent!Rotate PROVE L!Write \/ L!Rotate
  BY DEF Agent!Write, Agent!Rotate, Agent!static, Agent!local, Agent!history, Agent!Current,
         L!Write, L!Rotate, L!static, L!local, L!history, L!Current

LEMMA SameRequest == ASSUME NEW p \in Poller, Agent!Request(p) PROVE L!Request(p)
  BY DEF Agent!Request, Agent!log, Agent!static, Agent!Running, L!Request, L!log, L!static, L!Running

LEMMA SameRun ==
    ASSUME NEW p \in Poller,
           \/ Agent!ReadLength(p) \/ Agent!CompareShrunk(p) \/ Agent!CompareGrown(p)
           \/ Agent!Seek(p) \/ Agent!Mark(p) \/ Agent!PrintStackTrace(p)
    PROVE  L!Handle(p)
<1>1. Agent!ReadLength(p) => L!ReadLength(p)
  BY DEF Agent!ReadLength, Agent!log, Agent!static, Agent!history, Agent!Length, Agent!Current,
         L!ReadLength, L!log, L!static, L!history, L!Length, L!Current
<1>2. Agent!CompareShrunk(p) => L!CompareShrunk(p)
  BY DEF Agent!CompareShrunk, Agent!log, Agent!history, L!CompareShrunk, L!log, L!history
<1>3. Agent!CompareGrown(p) => L!CompareGrown(p)
  BY DEF Agent!CompareGrown, Agent!log, Agent!static, Agent!history,
         L!CompareGrown, L!log, L!static, L!history
<1>4. Agent!Seek(p) => L!Seek(p)
  BY DEF Agent!Seek, Agent!log, Agent!static, Agent!history, Agent!Current,
         L!Seek, L!log, L!static, L!history, L!Current
<1>5. Agent!Mark(p) => L!Mark(p)
  BY DEF Agent!Mark, Agent!log, Agent!history, Agent!Length, L!Mark, L!log, L!history, L!Length
<1>6. Agent!PrintStackTrace(p) => L!PrintStackTrace(p)
  BY DEF Agent!PrintStackTrace, Agent!log, Agent!static, Agent!history,
         L!PrintStackTrace, L!log, L!static, L!history
<1> QED
  BY <1>1, <1>2, <1>3, <1>4, <1>5, <1>6 DEF L!Handle

LEMMA SameFails == ASSUME NEW p \in Poller, Agent!Fails(p) PROVE L!Fails(p)
  BY DEF Agent!Fails, Agent!OpenFails, Agent!ReadFails, Agent!log, Agent!static,
         L!Fails, L!OpenFails, L!ReadFails, L!log, L!static

LEMMA SameReadLine == ASSUME NEW p \in Poller, Agent!ReadLine(p) PROVE L!ReadLine(p)
  BY DEF Agent!ReadLine, Agent!Answered, Agent!NoHandle, Agent!log,
         L!ReadLine, L!Answered, L!NoHandle, L!log

LEMMA SameTake == ASSUME NEW p \in Poller, Agent!Take(p) PROVE L!Take(p)
  BY DEF Agent!Take, Agent!Answered, Agent!NoHandle, Agent!log,
         L!Take, L!Answered, L!NoHandle, L!log

\* What the browser does leaves the application alone.
PageActs(v) == OpenPage(v) \/ Connect(v) \/ Subscribe(v) \/ ClosePage(v) \/ TimeoutFires(v)

LEMMA SameStep == ASSUME [Next]_vars PROVE [L!Next]_L!vars
<1>1. CASE UNCHANGED agent
  BY <1>1 DEF agent, L!vars, L!log, L!static, L!local, L!history
<1>2. CASE Log
  BY <1>2, SameLog DEF Log, L!Next
<1>3. ASSUME NEW p \in Poller, Ask(p) PROVE [L!Next]_L!vars
  BY <1>3, SameRequest DEF Ask, L!Next
<1>4. ASSUME NEW p \in Poller, Serve(p) PROVE [L!Next]_L!vars
  BY <1>4, SameRun, SameReadLine, SameTake DEF Serve, Read, Run, Answer, L!Next, L!Handle
<1>5. ASSUME NEW v \in Page, PageActs(v) PROVE UNCHANGED agent
  BY <1>5 DEF PageActs, OpenPage, Connect, Subscribe, ClosePage, TimeoutFires
<1>6. ASSUME NEW p \in Poller, Timeout(p) \/ Broadcast(p) PROVE UNCHANGED agent
  BY <1>6 DEF Timeout, Broadcast
<1>7. ASSUME NEW p \in Poller, ReadError(p) PROVE [L!Next]_L!vars
  BY <1>7, SameFails DEF ReadError, L!Next
<1>8. CASE UNCHANGED vars
  BY <1>1, <1>8 DEF vars
<1> QED
  BY <1>1, <1>2, <1>3, <1>4, <1>5, <1>6, <1>7, <1>8 DEF Next, PageActs

LEMMA SameInit == ASSUME Init PROVE L!Init
  BY DEF Init, Agent!Init, L!Init

LogInv == L!TypeInv /\ L!Upwards /\ L!ReadInv

LEMMA LogInitially == ASSUME Init PROVE LogInv /\ L!Lone /\ L!Tale
  BY SameInit, LogBounds, L!InitType, L!OrderInit, L!ReadInit, L!LoneInit DEF LogInv

LEMMA LogStep == ASSUME LogInv, [Next]_vars PROVE LogInv'
<1>1. [L!Next]_L!vars
  BY SameStep
<1>2. L!TypeInv'
  BY <1>1, LogBounds, L!TypeStep DEF LogInv
<1>3. L!Upwards'
  BY <1>1, LogBounds, L!UpwardsStep DEF LogInv
<1>4. L!ReadInv'
  BY <1>1, LogBounds, L!ReadStep DEF LogInv
<1> QED
  BY <1>2, <1>3, <1>4 DEF LogInv

-----------------------------------------------------------------------------
(* The only page.                                                          *)

OnePage == Cardinality(Opened) <= 1
Lines(s) == {s[k] : k \in 1..Len(s)}

\* There is one thread at work, so that the order of the lines is kept on the
\* full queue, too; and none before a page is opened and connected.
OneThread ==
    OnePage => /\ \A p, q \in Poller : asked[p] # "none" /\ asked[q] # "none" => p = q
               /\ L!Lone
               /\ Opened = {} \/ Connecting # {} => \A p \in Poller : asked[p] = "none"

LEMMA OnlyThread == ASSUME Control, Serial PROVE OneThread
<1> SUFFICES ASSUME OnePage
             PROVE  /\ \A p, q \in Poller : asked[p] # "none" /\ asked[q] # "none" => p = q
                    /\ L!Lone
                    /\ Opened = {} \/ Connecting # {} => \A p \in Poller : asked[p] = "none"
  BY DEF OneThread
<1>1. Cardinality(Busy) <= Cardinality(Opened) /\ Cardinality(Busy) <= 1
  BY BusyFinite, Numbers, Sets DEF Serial, OnePage, Control
<1>2. ASSUME NEW p \in Busy, NEW q \in Busy PROVE p = q
  <2>1. Cardinality(Busy \ {p}) = Cardinality(Busy) - 1 /\ IsFiniteSet(Busy \ {p})
    BY BusyFinite, FS_RemoveElement
  <2>2. Cardinality(Busy \ {p}) \in Nat
    BY <2>1, FS_CardinalityType
  <2>3. Cardinality(Busy \ {p}) = 0
    BY <1>1, <2>1, <2>2, BusyFinite
  <2> QED
    BY <2>1, <2>3, FS_EmptySet
<1>3. \A p, q \in Poller : asked[p] # "none" /\ asked[q] # "none" => p = q
  BY <1>2 DEF Busy
<1>4. \A p \in Poller : pc[p] # "idle" => asked[p] # "none"
  BY DEF Control
<1>5. Opened = {} => Busy = {}
  BY <1>1, BusyFinite, FS_EmptySet
<1>6. Connecting # {} => Busy = {}
  <2>1. Cardinality(Connecting) + Cardinality(Busy) <= 1
    BY BusyFinite, Numbers, Sets DEF Serial, OnePage, Control
  <2>2. Connecting \in SUBSET Page
    BY DEF Connecting
  <2>3. Connecting # {} => Cardinality(Connecting) # 0
    BY <2>2, Sets, FS_EmptySet
  <2>4. Cardinality(Connecting) # 0 => Cardinality(Busy) = 0
    BY <2>1, BusyFinite, Numbers
  <2> QED
    BY <2>3, <2>4, BusyFinite, FS_EmptySet
<1> QED
  BY <1>3, <1>4, <1>5, <1>6 DEF L!Lone, Busy

\* No page is opened a second time.
LEMMA OnePageBefore == ASSUME [Next]_vars, Control, OnePage' PROVE OnePage
<1>1. Opened \subseteq Opened'
  BY DEF Next, vars, Log, OpenPage, Connect, Subscribe, ClosePage, TimeoutFires, Ask, Timeout, Broadcast,
         Serve, Read, Run, ReadError, Answer, Finish, browser, monitor, Opened, Control
<1>2. Opened' \in SUBSET Page
  BY DEF Opened
<1>3. Cardinality(Opened) <= Cardinality(Opened') /\ Cardinality(Opened) \in Nat /\ Cardinality(Opened') \in Nat
  <2>1. IsFiniteSet(Opened')
    BY <1>2, Sets
  <2> QED
    BY <1>1, <2>1, FS_Subset, FS_CardinalityType
<1> QED
  BY <1>3 DEF OnePage

\* The answer on its way is the newest line, and the page shows older ones, until
\* an I/O error comes in the middle of the lines.
Newer(s, i) == \A k \in 1..Len(s) : s[k] < i
InOrderSoFar ==
    /\ L!Tale
    /\ \A k \in 1..Len(solo) : solo[k] <= newest
    /\ \A p \in Poller : asked[p] = "answered" /\ reply[p] # NoNews =>
                             reply[p] = newest /\ Newer(solo, newest)
NoReply == \A p \in Poller : asked[p] # "answered" => reply[p] = NoNews
Delivery == OnePage => (~broken => InOrderSoFar) /\ NoReply

FeedInv == Inv /\ OneThread /\ LogInv /\ Delivery

LEMMA Newest ==
    ASSUME FeedInv
    PROVE  newest \in Nat /\ written \in Nat /\ query \in Seq(Nat) /\ reply \in [Poller -> 0..MaxLines]
           /\ solo \in Seq(Line) /\ asked \in [Poller -> Asking]
           /\ (OnePage /\ ~broken => newest <= written)
<1>1. newest \in Nat /\ written \in Nat
  BY DEF FeedInv, LogInv, L!TypeInv, L!TypeOK
<1>2. query \in Seq(Nat)
  <2>1. query \in Seq(Line) /\ Line \subseteq Nat
    BY DEF FeedInv, Inv, Reader, Line
  <2>2. Len(query) \in Nat /\ query \in [1..Len(query) -> Nat]
    BY <2>1, LenProperties
  <2> QED
    BY <2>2, SeqDef
<1>3. OnePage /\ ~broken => newest < written + 1
  BY DEF FeedInv, Delivery, InOrderSoFar, L!Tale, L!InTurn, L!Stuck, L!Sorted, L!Above
<1> QED
  BY <1>1, <1>2, <1>3 DEF FeedInv, Inv, PageInv, Control, Answers

\* Only answers on their way have lines.
LEMMA NoReplyStep == ASSUME Inv, NoReply, [Next]_vars PROVE NoReply'
<1>1. /\ reply \in [Poller -> 0..MaxLines] /\ asked \in [Poller -> Asking]
      /\ \A p \in Poller : pc[p] # "idle" => asked[p] # "answered"
  BY DEF Inv, PageInv, Control, Answers
<1>2. CASE UNCHANGED <<asked, reply>>
  BY <1>2 DEF NoReply
<1>3. ASSUME NEW p \in Poller, Ask(p) PROVE NoReply'
  BY <1>1, <1>3 DEF Ask, browser, NoReply
<1>4. ASSUME NEW p \in Poller, Timeout(p) \/ Broadcast(p) PROVE NoReply'
  <2>1. reply' = [reply EXCEPT ![p] = NoNews] /\ \A q \in Poller : q # p => asked'[q] = asked[q]
    BY <1>1, <1>4 DEF Timeout, Broadcast, Abandoned
  <2> QED
    BY <1>1, <2>1 DEF NoReply
<1>5. ASSUME NEW p \in Poller, NEW line, Finish(p, line) PROVE NoReply'
  BY <1>1, <1>5 DEF Finish, NoReply
<1>6. ASSUME NEW v \in Page, PageActs(v) PROVE UNCHANGED <<asked, reply>>
  BY <1>6 DEF PageActs, OpenPage, Connect, Subscribe, ClosePage, TimeoutFires, monitor
<1>7. ASSUME NEW p \in Poller, Serve(p) \/ ReadError(p) PROVE NoReply'
  BY <1>2, <1>5, <1>7 DEF Serve, Read, Run, Answer, ReadError, monitor
<1>8. CASE Log \/ UNCHANGED vars
  BY <1>2, <1>8 DEF Log, vars, monitor
<1> QED
  BY <1>3, <1>4, <1>2, <1>6, <1>7, <1>8 DEF Next, PageActs

LEMMA SoFarStep ==
    ASSUME FeedInv, OneThread', [Next]_vars, Control, OnePage, OnePage', ~broken'
    PROVE  InOrderSoFar'
<1>0. ~broken
  BY SameStep, L!BrokenForEver, LogBounds
<1>1. L!Tale'
  <2>1. L!Lone /\ L!Lone'
    BY DEF FeedInv, OneThread
  <2> QED
    BY <1>0, <2>1, SameStep, LogBounds, L!LoneStep DEF FeedInv, LogInv, Delivery, InOrderSoFar
<1>2. \A p, q \in Poller : asked[p] # "none" /\ asked[q] # "none" => p = q
  BY DEF FeedInv, OneThread
<1>3. /\ InOrderSoFar
      /\ \A k \in 1..Len(solo) : solo[k] <= newest
      /\ \A p \in Poller : asked[p] = "answered" /\ reply[p] # NoNews =>
                               reply[p] = newest /\ Newer(solo, newest)
      /\ \A p \in Poller : asked[p] # "answered" => reply[p] = NoNews
  BY <1>0 DEF FeedInv, Delivery, InOrderSoFar, NoReply
<1>4. /\ newest \in Nat /\ query \in Seq(Nat) /\ reply \in [Poller -> 0..MaxLines]
      /\ solo \in Seq(Line) /\ asked \in [Poller -> Asking]
  BY Newest
<1>5. ASSUME UNCHANGED <<newest, solo>>,
             \A p \in Poller : \/ reply'[p] = reply[p] /\ (asked'[p] = "answered" <=> asked[p] = "answered")
                               \/ reply'[p] = NoNews
      PROVE  InOrderSoFar'
  BY <1>1, <1>3, <1>5 DEF InOrderSoFar, Newer
<1>6. ASSUME NEW p \in Poller, Ask(p) PROVE InOrderSoFar'
  <2>1. UNCHANGED <<newest, solo, reply>> /\ asked[p] = "none" /\ asked' = [asked EXCEPT ![p] = "waiting"]
    BY <1>6 DEF Ask, Agent!Request, browser
  <2> QED
    BY <1>4, <1>5, <2>1
<1>7. ASSUME NEW p \in Poller, Timeout(p) PROVE InOrderSoFar'
  <2>1. /\ UNCHANGED <<newest, solo>> /\ reply' = [reply EXCEPT ![p] = NoNews]
        /\ \A q \in Poller : q # p => asked'[q] = asked[q]
    BY <1>4, <1>7 DEF Timeout, Abandoned, agent, browser
  <2> QED
    BY <1>4, <1>5, <2>1
<1>8. ASSUME NEW p \in Poller, Broadcast(p) PROVE InOrderSoFar'
  <2>1. /\ asked[p] = "answered" /\ UNCHANGED newest /\ reply' = [reply EXCEPT ![p] = NoNews]
        /\ asked' = [asked EXCEPT ![p] = "none"]
        /\ solo' = solo \/ (solo' = Append(solo, reply[p]) /\ reply[p] # NoNews)
    BY <1>8 DEF Broadcast, Shown, agent
  <2>2. \A q \in Poller : reply'[q] = NoNews
    <3>1. \A q \in Poller : q # p => asked[q] = "none"
      BY <1>2, <2>1
    <3> QED
      BY <1>3, <1>4, <2>1, <3>1
  <2>3. \A k \in 1..Len(solo') : solo'[k] <= newest
    <3>1. CASE solo' = solo
      BY <1>3, <3>1
    <3>2. CASE solo' = Append(solo, reply[p]) /\ reply[p] # NoNews
      <4>1. reply[p] = newest
        BY <1>3, <2>1, <3>2
      <4> QED
        BY <1>3, <1>4, <3>2, <4>1
    <3> QED
      BY <2>1, <3>1, <3>2
  <2> QED
    BY <1>1, <2>1, <2>2, <2>3 DEF InOrderSoFar
<1>9. ASSUME NEW p \in Poller, Read(p) PROVE InOrderSoFar'
  <2>1. UNCHANGED <<newest, solo>>
    BY <1>9 DEF Read, Agent!ReadLine, Finish, browser
  <2>2. UNCHANGED <<asked, reply>> \/ Finish(p, NoNews)
    BY <1>9 DEF Read, monitor
  <2>3. pc[p] = "read"
    BY <1>9 DEF Read, Agent!ReadLine
  <2>4. asked[p] # "answered" /\ reply[p] = NoNews
    BY <1>3, <2>3 DEF Control
  <2>5. \A q \in Poller : \/ reply'[q] = reply[q] /\ (asked'[q] = "answered" <=> asked[q] = "answered")
                          \/ reply'[q] = NoNews
    BY <1>4, <2>2, <2>4 DEF Finish
  <2> QED
    BY <1>5, <2>1, <2>5
<1>10. ASSUME NEW p \in Poller, Answer(p) PROVE InOrderSoFar'
  <2>1. /\ pc[p] = "take" /\ query # << >> /\ newest' = Head(query) /\ solo' = solo
        /\ asked' = [asked EXCEPT ![p] = IF @ = "waiting" THEN "answered" ELSE "none"]
        /\ reply' = [reply EXCEPT ![p] = IF asked[p] = "waiting" THEN Head(query) ELSE NoNews]
    BY <1>10 DEF Answer, Agent!Take, Finish, browser
  <2>2. newest < newest' /\ newest' \in Nat
    <3>1. \A j \in 1..Len(query) : newest < query[j]
      BY <1>3 DEF InOrderSoFar, L!Tale, L!InTurn, L!Stuck, L!Sorted
    <3> QED
      BY <1>4, <2>1, <3>1
  <2>3. \A k \in 1..Len(solo) : solo[k] < newest'
    <3>1. \A k \in 1..Len(solo) : solo[k] \in Nat
      BY <1>4, Sets, PageAssumption DEF Line
    <3> QED
      BY <1>3, <1>4, <2>2, <3>1
  <2>4. \A k \in 1..Len(solo) : solo[k] \in Nat /\ solo[k] <= newest'
    BY <1>4, <2>2, <2>3, PageAssumption DEF Line
  <2>5. \A q \in Poller : q # p => asked[q] = "none" /\ asked'[q] = "none" /\ reply'[q] = NoNews
    <3>1. asked[p] # "none"
      BY <2>1 DEF Control
    <3> QED
      BY <1>2, <1>3, <1>4, <2>1, <3>1
  <2>6. /\ asked'[p] = "answered" /\ reply'[p] # NoNews => reply'[p] = newest'
        /\ asked'[p] # "answered" => reply'[p] = NoNews
    BY <1>4, <2>1
  <2> QED
    BY <1>1, <2>1, <2>3, <2>4, <2>5, <2>6 DEF InOrderSoFar, Newer
<1>11. CASE Log
  <2>1. UNCHANGED <<newest, solo, reply, asked>>
    BY <1>11 DEF Log, Agent!Write, Agent!Rotate, Agent!history, monitor, browser
  <2> QED
    BY <1>5, <2>1
<1>12. ASSUME NEW v \in Page, PageActs(v) PROVE InOrderSoFar'
  <2>1. UNCHANGED <<newest, solo, reply, asked>>
    BY <1>12 DEF PageActs, OpenPage, Connect, Subscribe, ClosePage, TimeoutFires, agent, monitor
  <2> QED
    BY <1>5, <2>1
<1>13. ASSUME NEW p \in Poller, Run(p) \/ ReadError(p) PROVE InOrderSoFar'
  <2>1. UNCHANGED <<newest, solo, reply, asked>>
    BY <1>13 DEF Run, ReadError, Agent!ReadLength, Agent!CompareShrunk, Agent!CompareGrown, Agent!Seek,
                 Agent!Mark, Agent!PrintStackTrace, Agent!Fails, Agent!OpenFails, Agent!ReadFails,
                 Agent!history, monitor, browser
  <2> QED
    BY <1>5, <2>1
<1>14. CASE UNCHANGED vars
  BY <1>5, <1>14 DEF vars, agent, monitor, browser
<1> QED
  BY <1>6, <1>7, <1>8, <1>9, <1>10, <1>11, <1>12, <1>13, <1>14 DEF Next, Serve, PageActs

LEMMA DeliveryStep == ASSUME FeedInv, OneThread', [Next]_vars PROVE Delivery'
<1>0. OnePage' => Control /\ OnePage
  BY OnePageBefore DEF FeedInv, Inv, PageInv
<1>1. OnePage' => NoReply'
  BY <1>0, NoReplyStep DEF FeedInv, Delivery
<1>2. ASSUME OnePage', ~broken' PROVE InOrderSoFar'
  BY <1>0, <1>2, SoFarStep
<1> QED
  BY <1>1, <1>2 DEF Delivery

LEMMA FeedInitially == ASSUME Init PROVE Delivery
<1>1. L!Tale /\ newest = 0 /\ solo = << >> /\ \A p \in Poller : asked[p] = "none" /\ reply[p] = NoNews
  BY LogInitially DEF Init, Agent!Init
<1>2. Len(solo) = 0
  BY <1>1
<1> QED
  BY <1>1, <1>2 DEF Delivery, InOrderSoFar, NoReply

LEMMA FeedAlways == Spec => []FeedInv
<1>1. Spec => [](Inv /\ Serial)
  <2>1. Init => Serial
    BY SerialInit
  <2>2. Inv /\ Serial /\ [Next]_vars => Serial'
    BY SerialNext
  <2> QED
    BY <2>1, <2>2, Always, PTL DEF Spec
<1>2. Inv /\ Serial => OneThread
  BY OnlyThread DEF Inv, PageInv
<1>3. Init => LogInv /\ Delivery
  BY LogInitially, FeedInitially
<1>4. LogInv /\ [Next]_vars => LogInv'
  BY LogStep
<1>5. Inv /\ OneThread /\ OneThread' /\ LogInv /\ Delivery /\ [Next]_vars => Delivery'
  BY DeliveryStep DEF FeedInv
<1>6. Inv /\ OneThread /\ LogInv /\ Delivery => FeedInv
  BY DEF FeedInv
<1> QED
  BY <1>1, <1>2, <1>3, <1>4, <1>5, <1>6, PTL DEF Spec

-----------------------------------------------------------------------------
(* Nothing is lost on the way to the page.                                 *)

\* What was taken from the queue is on the page or on its way to it, unless an
\* answer was lost or the page is gone.
Arrives ==
    /\ ~lost => \A p \in Poller : asked[p] # "gone"
    /\ OnePage /\ ~lost /\ (Live # {} \/ Opened = {}) => taken \subseteq Lines(solo) \cup OnTheWay

LEMMA ArrivesInit == ASSUME Init PROVE Arrives
  BY DEF Init, Agent!Init, Arrives

LEMMA LostForEver == ASSUME [Next]_vars, ~lost' PROVE ~lost
<1>1. UNCHANGED lost \/ (\E p \in Poller : Timeout(p)) \/ (\E p \in Poller : Broadcast(p))
  BY DEF Next, vars, monitor, browser, Log, OpenPage, Connect, Subscribe, ClosePage, TimeoutFires, Ask,
         Serve, Read, Run, ReadError, Answer, Finish
<1>2. ASSUME NEW p \in Poller, Timeout(p) PROVE ~lost
  BY <1>2 DEF Timeout
<1>3. ASSUME NEW p \in Poller, Broadcast(p) PROVE ~lost
  <2>1. lost' = (lost \/ Joining # {})
    BY <1>3 DEF Broadcast
  <2> QED
    BY <2>1, Zenon
<1> QED
  BY <1>1, <1>2, <1>3

LEMMA NoneGone ==
    ASSUME Inv, [Next]_vars, Arrives, ~lost', NEW p \in Poller
    PROVE  ~lost /\ asked'[p] # "gone"
<1>1. asked \in [Poller -> Asking]
  BY DEF Inv, PageInv, Control
<1>2. ~lost
  BY LostForEver
<1>3. ~\E q \in Poller : Timeout(q)
  BY DEF Timeout
<1>4. asked[p] # "gone"
  BY <1>2 DEF Arrives
<1> QED
  BY <1>1, <1>2, <1>3, <1>4 DEF Next, vars, monitor, browser, Log, OpenPage, Connect, Subscribe, ClosePage,
         TimeoutFires, Ask, Broadcast, Serve, Read, Run, ReadError, Answer, Finish

\* A page that is there was there before, or is the first one.
LEMMA StillOpen ==
    ASSUME Inv, [Next]_vars, OnePage', Live' # {} \/ Opened' = {}
    PROVE  Live # {} \/ Opened = {}
<1>1. page \in [Page -> Lives]
  BY DEF Inv, PageInv, Control
<1>2. CASE UNCHANGED page
  BY <1>2 DEF Live, Connecting, Joining, Open, Opened
<1>3. ASSUME NEW v \in Page, OpenPage(v) PROVE Opened = {}
  <2>1. Opened' = Opened \cup {v} /\ v \notin Opened /\ Opened \in SUBSET Page
    BY <1>1, <1>3 DEF OpenPage, Opened
  <2>2. Cardinality(Opened') = Cardinality(Opened) + 1 /\ Cardinality(Opened) \in Nat /\ IsFiniteSet(Opened)
    BY <2>1, Sets, FS_AddElement
  <2>3. Cardinality(Opened) = 0
    BY <2>2 DEF OnePage
  <2> QED
    BY <2>2, <2>3, FS_EmptySet
<1>4. ASSUME NEW v \in Page, Connect(v) \/ Subscribe(v) \/ ClosePage(v) PROVE Live # {}
  BY <1>4 DEF Connect, Subscribe, ClosePage, Live, Connecting, Joining
<1> QED
  BY <1>2, <1>3, <1>4 DEF Next, vars, monitor, browser, Log, TimeoutFires, Ask, Timeout, Broadcast, Serve,
         Read, Run, ReadError, Answer, Finish

LEMMA ArrivesStep == ASSUME FeedInv, Arrives, [Next]_vars PROVE Arrives'
<1> SUFFICES ASSUME OnePage', ~lost', Live' # {} \/ Opened' = {}
             PROVE  taken' \subseteq Lines(solo') \cup OnTheWay'
  <2>1. ~lost' => \A p \in Poller : asked'[p] # "gone"
    BY NoneGone DEF FeedInv
  <2> QED
    BY <2>1 DEF Arrives, OnTheWay, Waiting, Lines
<1>0. /\ Control /\ OnePage /\ ~lost /\ (Live # {} \/ Opened = {})
      /\ \A p \in Poller : asked[p] # "gone"
  <2>1. Inv /\ Control
    BY DEF FeedInv, Inv, PageInv
  <2>2. ~lost
    BY LostForEver
  <2> QED
    BY <2>1, <2>2, OnePageBefore, StillOpen DEF Arrives
<1>1. /\ taken \subseteq Lines(solo) \cup OnTheWay /\ 0 \notin taken
      /\ reply \in [Poller -> 0..MaxLines] /\ asked \in [Poller -> Asking] /\ solo \in Seq(Line)
      /\ \A p \in Poller : asked[p] # "answered" => reply[p] = NoNews
  <2>1. taken \subseteq Lines(solo) \cup OnTheWay
    BY <1>0 DEF Arrives
  <2>2. 0 \notin taken
    BY DEF FeedInv, LogInv, L!TypeInv, L!TypeOK, L!Line
  <2> QED
    BY <1>0, <2>1, <2>2, Newest DEF FeedInv, Delivery, NoReply
<1>2. ASSUME UNCHANGED <<taken, solo>>,
             \A p \in Poller : \/ reply[p] = NoNews
                               \/ reply'[p] = reply[p] /\ (p \in Waiting => p \in Waiting')
      PROVE  taken' \subseteq Lines(solo') \cup OnTheWay'
  BY <1>1, <1>2 DEF OnTheWay, Waiting, NoNews
<1>3. ASSUME NEW p \in Poller, Ask(p) PROVE taken' \subseteq Lines(solo') \cup OnTheWay'
  <2>1. UNCHANGED <<taken, solo, reply>> /\ asked' = [asked EXCEPT ![p] = "waiting"]
    BY <1>3 DEF Ask, Agent!Request, browser
  <2> QED
    BY <1>1, <1>2, <2>1 DEF Waiting
<1>4. ASSUME NEW p \in Poller, Timeout(p) PROVE FALSE
  BY <1>4 DEF Timeout
<1>5. ASSUME NEW p \in Poller, Read(p) PROVE taken' \subseteq Lines(solo') \cup OnTheWay'
  <2>1. UNCHANGED <<taken, solo>> /\ pc[p] = "read" /\ (UNCHANGED <<asked, reply>> \/ Finish(p, NoNews))
    BY <1>5 DEF Read, Agent!ReadLine, Finish, browser, monitor
  <2>2. reply[p] = NoNews
    BY <1>0, <1>1, <2>1 DEF Control
  <2> QED
    BY <1>1, <1>2, <2>1, <2>2 DEF Finish, Waiting
<1>6. ASSUME NEW p \in Poller, Answer(p) PROVE taken' \subseteq Lines(solo') \cup OnTheWay'
  <2>1. /\ pc[p] = "take" /\ taken' = taken \cup {Head(query)} /\ solo' = solo
        /\ asked' = [asked EXCEPT ![p] = IF @ = "waiting" THEN "answered" ELSE "none"]
        /\ reply' = [reply EXCEPT ![p] = IF asked[p] = "waiting" THEN Head(query) ELSE NoNews]
    BY <1>6 DEF Answer, Agent!Take, Finish, browser
  <2>2. asked[p] = "waiting" /\ reply[p] = NoNews
    BY <1>0, <1>1, <2>1 DEF Control
  <2>3. Head(query) \in OnTheWay'
    BY <1>1, <2>1, <2>2 DEF OnTheWay, Waiting
  <2>4. \A q \in Waiting : q # p => q \in Waiting' /\ reply'[q] = reply[q]
    BY <1>1, <2>1 DEF Waiting
  <2>5. taken \subseteq Lines(solo) \cup OnTheWay'
    <3> SUFFICES ASSUME NEW e \in taken, e \in OnTheWay PROVE e \in OnTheWay'
      BY <1>1
    <3>1. PICK q \in Waiting : e = reply[q]
      BY DEF OnTheWay
    <3>2. q # p
      BY <1>1, <2>2, <3>1 DEF NoNews
    <3> QED
      BY <2>4, <3>1, <3>2 DEF OnTheWay
  <2> QED
    BY <2>1, <2>3, <2>5 DEF Lines
<1>7. ASSUME NEW p \in Poller, Broadcast(p) PROVE taken' \subseteq Lines(solo') \cup OnTheWay'
  <2>1. /\ asked[p] = "answered" /\ UNCHANGED taken /\ reply' = [reply EXCEPT ![p] = NoNews]
        /\ asked' = [asked EXCEPT ![p] = "none"] /\ Shown(reply[p]) /\ lost' = (lost \/ Joining # {})
    BY <1>7 DEF Broadcast, agent
  <2>2. Open # {} /\ Cardinality(Opened) = 1
    <3>1. Open # {}
      <4>1. Opened # {} /\ Connecting = {}
        BY <1>0, <2>1 DEF FeedInv, OneThread
      <4>2. Joining = {}
        BY <2>1, Zenon
      <4> QED
        BY <1>0, <4>1, <4>2 DEF Live
    <3>2. Opened \in SUBSET Page /\ Opened # {}
      BY <3>1 DEF Open, Opened
    <3>3. Cardinality(Opened) \in Nat /\ IsFiniteSet(Opened)
      BY <3>2, Sets
    <3>4. Cardinality(Opened) # 0
      BY <3>2, <3>3, FS_EmptySet
    <3> QED
      BY <1>0, <3>1, <3>3, <3>4 DEF OnePage
  <2>3. Lines(solo) \subseteq Lines(solo') /\ (reply[p] # NoNews => reply[p] \in Lines(solo'))
    <3>1. CASE reply[p] = NoNews
      BY <2>1, <3>1 DEF Shown
    <3>2. CASE reply[p] # NoNews /\ Again(reply[p])
      <4>1. solo' = solo /\ reply[p] \in Range(solo)
        BY <2>1, <3>2 DEF Shown, Again
      <4>2. Range(solo) = Lines(solo)
        <5>1. DOMAIN solo = 1..Len(solo)
          BY <1>1
        <5> QED
          BY <5>1 DEF Lines, Range
      <4> QED
        BY <4>1, <4>2
    <3>3. CASE reply[p] # NoNews /\ ~Again(reply[p])
      <4>1. solo' = Append(solo, reply[p])
        BY <2>1, <2>2, <3>3 DEF Shown
      <4>2. Len(solo') = Len(solo) + 1 /\ Len(solo) \in Nat /\ solo'[Len(solo) + 1] = reply[p]
            /\ \A k \in 1..Len(solo) : solo'[k] = solo[k]
        BY <1>1, <4>1
      <4> QED
        BY <4>2 DEF Lines
    <3> QED
      BY <3>1, <3>2, <3>3
  <2>4. \A q \in Waiting : q # p => q \in Waiting' /\ reply'[q] = reply[q]
    BY <1>1, <2>1 DEF Waiting
  <2> SUFFICES ASSUME NEW e \in taken, e \notin Lines(solo') PROVE e \in OnTheWay'
    BY <2>1
  <2>5. e \in OnTheWay
    BY <1>1, <2>3
  <2>6. PICK q \in Waiting : e = reply[q]
    BY <2>5 DEF OnTheWay
  <2>7. q # p
    BY <1>1, <2>3, <2>6 DEF NoNews
  <2> QED
    BY <2>4, <2>6, <2>7 DEF OnTheWay
<1>8. ASSUME NEW v \in Page, PageActs(v)
      PROVE  taken' \subseteq Lines(solo') \cup OnTheWay'
  <2>1. UNCHANGED <<taken, solo, reply, asked>>
    BY <1>8 DEF PageActs, OpenPage, Connect, Subscribe, ClosePage, TimeoutFires, agent, monitor
  <2> QED
    BY <1>2, <2>1 DEF Waiting
<1>9. CASE Log
  <2>1. UNCHANGED <<taken, solo, reply, asked>>
    BY <1>9 DEF Log, Agent!Write, Agent!Rotate, Agent!history, monitor, browser
  <2> QED
    BY <1>2, <2>1 DEF Waiting
<1>10. ASSUME NEW p \in Poller, Run(p) \/ ReadError(p) PROVE taken' \subseteq Lines(solo') \cup OnTheWay'
  <2>1. UNCHANGED <<taken, solo, reply, asked>>
    BY <1>10 DEF Run, ReadError, Agent!ReadLength, Agent!CompareShrunk, Agent!CompareGrown, Agent!Seek,
                 Agent!Mark, Agent!PrintStackTrace, Agent!Fails, Agent!OpenFails, Agent!ReadFails,
                 Agent!history, monitor, browser
  <2> QED
    BY <1>2, <2>1 DEF Waiting
<1>11. CASE UNCHANGED vars
  BY <1>2, <1>11 DEF vars, agent, monitor, browser, Waiting
<1> QED
  BY <1>3, <1>4, <1>5, <1>6, <1>7, <1>8, <1>9, <1>10, <1>11 DEF Next, Serve, PageActs

-----------------------------------------------------------------------------
(* Theorems.                                                               *)

\* The lines the application writes appear on the only page in their order, none
\* twice and none before it is written, even if the log is rotated, the queue is
\* full, requests time out or the connection is lost, until an I/O error comes in
\* the middle of the lines: the log page, the monitor and the log reader together
\* implement Feed.
THEOREM FeedHolds == Spec => FeedImplemented
<1>1. Init => F!Init
  BY DEF Init, Agent!Init, F!Init
<1>2. FeedInv /\ [Next]_vars => [F!Next]_<<written, solo, ~broken>>
  <2> SUFFICES ASSUME FeedInv, [Next]_vars PROVE F!Next \/ UNCHANGED <<written, solo, ~broken>>
    OBVIOUS
  <2>1. CASE broken'
    BY <2>1 DEF F!Next, F!Disturb
  <2>2. CASE ~broken'
    <3>0. ~broken /\ UNCHANGED (~broken)
      BY <2>2, SameStep, LogBounds, L!BrokenForEver
    <3>1. ASSUME NEW p \in Poller, Broadcast(p) PROVE F!Next \/ UNCHANGED <<written, solo>>
      <4>1. asked[p] = "answered" /\ UNCHANGED written /\ Shown(reply[p])
        BY <3>1 DEF Broadcast, agent
      <4>2. CASE Cardinality(Opened) = 1 /\ reply[p] # NoNews /\ solo' # solo
        <5>1. OnePage
          BY <4>2 DEF OnePage
        <5>2. reply[p] = newest /\ Newer(solo, newest) /\ newest <= written
          BY <3>0, <4>1, <4>2, <5>1, Newest DEF FeedInv, Delivery, InOrderSoFar
        <5>3. reply[p] \in 1..MaxLines
          BY <4>2, Newest, PageAssumption DEF NoNews
        <5>4. solo' = Append(solo, reply[p])
          BY <4>1, <4>2 DEF Shown
        <5>5. F!Show(reply[p])
          BY <4>1, <5>2, <5>4 DEF F!Show, Newer
        <5> QED
          BY <2>2, <3>0, <5>3, <5>5 DEF F!Next
      <4> QED
        BY <4>1, <4>2 DEF Shown
    <3>2. CASE Log
      BY <2>2, <3>0, <3>2 DEF Log, Agent!Write, Agent!Rotate, monitor, browser, F!Next, F!Write
    <3>3. ASSUME NEW v \in Page, PageActs(v) PROVE UNCHANGED <<written, solo>>
      BY <3>3 DEF PageActs, OpenPage, Connect, Subscribe, ClosePage, TimeoutFires, agent
    <3>4. ASSUME NEW p \in Poller, Ask(p) \/ Timeout(p) \/ Serve(p) \/ ReadError(p)
          PROVE  UNCHANGED <<written, solo>>
      BY <3>4 DEF Ask, Timeout, Serve, Read, Run, ReadError, Answer, Finish, Agent!Request, Agent!ReadLength,
                  Agent!CompareShrunk, Agent!CompareGrown, Agent!Seek, Agent!Mark, Agent!ReadLine, Agent!Take,
                  Agent!PrintStackTrace, Agent!Fails, Agent!OpenFails, Agent!ReadFails,
                  Agent!log, agent, browser
    <3>5. CASE UNCHANGED vars
      BY <3>5 DEF vars, agent, browser
    <3>6. F!Next \/ UNCHANGED <<written, solo>>
      BY <3>1, <3>2, <3>3, <3>4, <3>5 DEF Next, PageActs
    <3> QED
      BY <3>0, <3>6
  <2> QED
    BY <2>1, <2>2
<1> QED
  BY <1>1, <1>2, FeedAlways, PTL DEF Spec, FeedImplemented, F!Spec, F!vars

\* All that counts as read is on the only page, on its way to it or in the queue,
\* but the lines the log reader comes too late for, as long as no answer is lost, the
\* connection holds and the log is not rotated.
THEOREM PageShowsWhatIsReadHolds == Spec => []PageShowsWhatIsRead
<1>1. Init => Arrives
  BY ArrivesInit
<1>2. FeedInv /\ Arrives /\ [Next]_vars => Arrives'
  BY ArrivesStep
<1>3. FeedInv /\ Arrives => PageShowsWhatIsRead
  <2> SUFFICES ASSUME FeedInv, Arrives, Open # {}, Cardinality(Opened) = 1, ~lost, Agent!Current = 1,
                      NEW i \in 1..lastTimeFileSize
               PROVE  i \in Range(solo) \cup OnTheWay \cup late \/ Agent!Queued(i)
    BY DEF PageShowsWhatIsRead
  <2>1. taken \subseteq Lines(solo) \cup OnTheWay
    BY DEF Arrives, OnePage, Live
  <2>2. Lines(solo) = Range(solo)
    <3>1. DOMAIN solo = 1..Len(solo)
      BY Newest
    <3> QED
      BY <3>1 DEF Lines, Range
  <2>3. i \in taken \cup late \/ Agent!Queued(i)
    BY DEF FeedInv, LogInv, L!ReadInv, L!SettledUpTo, L!Settled, L!Queued, Agent!Queued, L!Current,
           Agent!Current
  <2> QED
    BY <2>1, <2>2, <2>3
<1> QED
  BY <1>1, <1>2, <1>3, FeedAlways, PTL DEF Spec
=============================================================================
