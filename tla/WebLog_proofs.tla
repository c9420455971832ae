----------------------------- MODULE WebLog_proofs -----------------------------
(***************************************************************************)
(* Theorems of WebLog, for any number of pages, request threads, lines,    *)
(* files and handlers, and any bound on messages.                          *)
(***************************************************************************)
EXTENDS WebLog, FiniteSetTheorems, SequenceTheorems, TLAPS

-----------------------------------------------------------------------------
(* Counting timeouts.                                                      *)

\* The timeouts that t says each page has set.
TimeoutsOf(t) == UNION {{v} \X (1..t[v]) : v \in Page}

LEMMA TimeoutsIn ==
    ASSUME NEW t PROVE \A x : x \in TimeoutsOf(t) <=> \E v \in Page : \E k \in 1..t[v] : x = <<v, k>>
<1> SUFFICES ASSUME NEW x
             PROVE  x \in TimeoutsOf(t) <=> \E v \in Page : \E k \in 1..t[v] : x = <<v, k>>
  OBVIOUS
<1>1. x \in TimeoutsOf(t) <=> \E v \in Page : x \in {v} \X (1..t[v])
  BY DEF TimeoutsOf
<1>2. \A v : x \in {v} \X (1..t[v]) <=> \E k \in 1..t[v] : x = <<v, k>>
  OBVIOUS
<1> QED
  BY <1>1, <1>2

LEMMA TimeoutPair ==
    ASSUME NEW t, NEW v, NEW k
    PROVE  <<v, k>> \in TimeoutsOf(t) <=> v \in Page /\ k \in 1..t[v]
  BY TimeoutsIn

LEMMA SamePairs ==
    ASSUME NEW A, NEW B, \A y \in A \cup B : \E w \in Page : \E k : y = <<w, k>>,
           \A w \in Page : \A k : <<w, k>> \in A => <<w, k>> \in B
    PROVE  A \subseteq B
<1> SUFFICES ASSUME NEW y \in A PROVE y \in B
  OBVIOUS
<1>1. PICK w \in Page : \E k : y = <<w, k>>
  OBVIOUS
<1>2. PICK k : y = <<w, k>>
  BY <1>1
<1> QED
  BY <1>2

LEMMA TimeoutsFinite ==
    ASSUME NEW n \in Nat, NEW t \in [Page -> 0..n]
    PROVE  IsFiniteSet(TimeoutsOf(t)) /\ Cardinality(TimeoutsOf(t)) \in Nat
<1>1. IsFiniteSet(1..n)
  BY FS_Interval
<1>2. IsFiniteSet(Page \X (1..n))
  BY <1>1, PageAssumption, FS_Product
<1>3. TimeoutsOf(t) \subseteq Page \X (1..n)
  <2> SUFFICES ASSUME NEW x \in TimeoutsOf(t) PROVE x \in Page \X (1..n)
    OBVIOUS
  <2>1. PICK v \in Page : \E k \in 1..t[v] : x = <<v, k>>
    BY TimeoutsIn
  <2>2. PICK k \in 1..t[v] : x = <<v, k>>
    BY <2>1
  <2>3. t[v] \in 0..n
    OBVIOUS
  <2>4. k \in 1..n
    BY <2>2, <2>3
  <2> QED
    BY <2>2, <2>4
<1> QED
  BY <1>2, <1>3, FS_Subset, FS_CardinalityType

\* One timeout less.
LEMMA TimeoutLess ==
    ASSUME NEW n \in Nat, NEW t \in [Page -> 0..n], NEW v \in Page, t[v] > 0
    PROVE  Cardinality(TimeoutsOf([t EXCEPT ![v] = @ - 1])) = Cardinality(TimeoutsOf(t)) - 1
<1> DEFINE u == [t EXCEPT ![v] = @ - 1]
           x == <<v, t[v]>>
<1>1. \A w \in Page : t[w] \in 0..n
  OBVIOUS
<1>2. x \in TimeoutsOf(t)
  BY <1>1, TimeoutPair
<1>3. TimeoutsOf(u) = TimeoutsOf(t) \ {x}
  <2>1. ASSUME NEW w \in Page, NEW k
        PROVE  k \in 1..u[w] <=> k \in 1..t[w] /\ ~(w = v /\ k = t[v])
    <3>1. u[w] = IF w = v THEN t[v] - 1 ELSE t[w]
      OBVIOUS
    <3>2. t[w] \in 0..n /\ t[v] \in 0..n
      OBVIOUS
    <3> QED
      BY <3>1, <3>2
  <2>2. ASSUME NEW w \in Page, NEW k
        PROVE  <<w, k>> \in TimeoutsOf(u) <=> <<w, k>> \in TimeoutsOf(t) \ {x}
    <3>1. <<w, k>> \in TimeoutsOf(u) <=> k \in 1..u[w]
      BY TimeoutPair
    <3>2. <<w, k>> \in TimeoutsOf(t) <=> k \in 1..t[w]
      BY TimeoutPair
    <3> QED
      BY <2>1, <3>1, <3>2
  <2>3. \A y \in TimeoutsOf(u) \cup TimeoutsOf(t) : \E w \in Page : \E k : y = <<w, k>>
    BY TimeoutsIn
  <2> DEFINE A == TimeoutsOf(u)
             B == TimeoutsOf(t) \ {x}
  <2>4. A \subseteq B /\ B \subseteq A
    <3>1. \A y \in A \cup B : \E w \in Page : \E k : y = <<w, k>>
      BY <2>3
    <3>2. \A w \in Page : \A k : <<w, k>> \in A <=> <<w, k>> \in B
      BY <2>2
    <3> HIDE DEF A, B
    <3> QED
      BY <3>1, <3>2, SamePairs
  <2> QED
    BY <2>4
<1> QED
  BY <1>2, <1>3, TimeoutsFinite, FS_RemoveElement

\* One timeout more for each page of some.
LEMMA TimeoutsMore ==
    ASSUME NEW n \in Nat, NEW t \in [Page -> 0..n], NEW S \in SUBSET Page
    PROVE  Cardinality(TimeoutsOf([v \in Page |-> IF v \in S THEN t[v] + 1 ELSE t[v]])) =
             Cardinality(TimeoutsOf(t)) + Cardinality(S)
<1> DEFINE u == [v \in Page |-> IF v \in S THEN t[v] + 1 ELSE t[v]]
           N == {<<v, t[v] + 1>> : v \in S}
           f == [v \in S |-> <<v, t[v] + 1>>]
<1>1. \A w \in Page : t[w] \in 0..n
  OBVIOUS
<1>2. IsFiniteSet(S)
  BY PageAssumption, FS_Subset
<1>3. IsFiniteSet(N) /\ Cardinality(N) = Cardinality(S)
  <2>1. f \in Surjection(S, N) /\ f \in Injection(S, N)
    BY DEF Surjection, Injection, IsInjective
  <2> QED
    BY <1>2, <2>1, FS_Surjection
<1>4. TimeoutsOf(u) = TimeoutsOf(t) \cup N
  <2>1. ASSUME NEW w \in Page, NEW k
        PROVE  k \in 1..u[w] <=> k \in 1..t[w] \/ (w \in S /\ k = t[w] + 1)
    <3>1. u[w] = IF w \in S THEN t[w] + 1 ELSE t[w]
      OBVIOUS
    <3> QED
      BY <1>1, <3>1
  <2>2. ASSUME NEW w \in Page, NEW k
        PROVE  <<w, k>> \in TimeoutsOf(u) <=> <<w, k>> \in TimeoutsOf(t) \cup N
    <3>1. <<w, k>> \in TimeoutsOf(u) <=> k \in 1..u[w]
      BY TimeoutPair
    <3>2. <<w, k>> \in TimeoutsOf(t) <=> k \in 1..t[w]
      BY TimeoutPair
    <3>3. <<w, k>> \in N <=> w \in S /\ k = t[w] + 1
      OBVIOUS
    <3> QED
      BY <2>1, <3>1, <3>2, <3>3
  <2>3. \A y \in TimeoutsOf(u) \cup TimeoutsOf(t) \cup N : \E w \in Page : \E k : y = <<w, k>>
    BY TimeoutsIn
  <2> DEFINE A == TimeoutsOf(u)
             B == TimeoutsOf(t) \cup N
  <2>4. A \subseteq B /\ B \subseteq A
    <3>1. \A y \in A \cup B : \E w \in Page : \E k : y = <<w, k>>
      BY <2>3
    <3>2. \A w \in Page : \A k : <<w, k>> \in A <=> <<w, k>> \in B
      BY <2>2
    <3> HIDE DEF A, B
    <3> QED
      BY <3>1, <3>2, SamePairs
  <2> QED
    BY <2>4
<1>5. TimeoutsOf(t) \cap N = {}
  <2> SUFFICES ASSUME NEW v \in S, <<v, t[v] + 1>> \in TimeoutsOf(t) PROVE FALSE
    OBVIOUS
  <2>1. t[v] + 1 \in 1..t[v]
    BY TimeoutPair
  <2> QED
    BY <1>1, <2>1
<1>6. /\ IsFiniteSet(TimeoutsOf(t)) /\ Cardinality(TimeoutsOf(t)) \in Nat
      /\ Cardinality(S) \in Nat /\ Cardinality({}) = 0
  BY <1>2, TimeoutsFinite, FS_EmptySet, FS_CardinalityType
<1>7. Cardinality(TimeoutsOf(t) \cup N) = Cardinality(TimeoutsOf(t)) + Cardinality(N) - Cardinality({})
  BY <1>3, <1>5, <1>6, FS_Union
<1>8. Cardinality(TimeoutsOf(u)) = Cardinality(TimeoutsOf(t)) + Cardinality(S)
  <2> HIDE DEF u, N
  <2> QED
    BY <1>3, <1>4, <1>6, <1>7
<1> QED
  BY <1>8

\* The timeouts of a page that is closed are gone.
LEMMA TimeoutsGone ==
    ASSUME NEW n \in Nat, NEW t \in [Page -> 0..n], NEW v \in Page
    PROVE  Cardinality(TimeoutsOf([t EXCEPT ![v] = 0])) <= Cardinality(TimeoutsOf(t))
<1> DEFINE u == [t EXCEPT ![v] = 0]
<1>1. TimeoutsOf(u) \subseteq TimeoutsOf(t)
  <2>1. \A w \in Page : t[w] \in 0..n /\ 1..u[w] \subseteq 1..t[w]
    OBVIOUS
  <2>2. ASSUME NEW w \in Page, NEW k, <<w, k>> \in TimeoutsOf(u) PROVE <<w, k>> \in TimeoutsOf(t)
    BY <2>1, <2>2, TimeoutPair
  <2>3. \A y \in TimeoutsOf(u) \cup TimeoutsOf(t) : \E w \in Page : \E k : y = <<w, k>>
    BY TimeoutsIn
  <2> HIDE DEF u
  <2> QED
    BY <2>2, <2>3, SamePairs
<1> QED
  BY <1>1, TimeoutsFinite, FS_Subset

\* There are as many timeouts as pages that have one, at least, and as many as
\* any page has.
LEMMA TimeoutsCount ==
    ASSUME NEW n \in Nat, NEW t \in [Page -> 0..n]
    PROVE  /\ Cardinality({v \in Page : t[v] > 0}) <= Cardinality(TimeoutsOf(t))
           /\ \A v \in Page : t[v] <= Cardinality(TimeoutsOf(t))
<1> DEFINE S == {v \in Page : t[v] > 0}
           f == [v \in S |-> <<v, 1>>]
<1>0. \A v \in Page : t[v] \in 0..n
  OBVIOUS
<1>1. Cardinality(S) <= Cardinality(TimeoutsOf(t))
  <2>1. \A v \in S : <<v, 1>> \in TimeoutsOf(t)
    BY <1>0, TimeoutPair
  <2>2. f \in Injection(S, TimeoutsOf(t))
    BY <2>1 DEF Injection, IsInjective
  <2> QED
    BY <2>2, TimeoutsFinite, FS_Injection
<1>2. ASSUME NEW v \in Page PROVE t[v] <= Cardinality(TimeoutsOf(t))
  <2> DEFINE g == [k \in 1..t[v] |-> <<v, k>>]
  <2>1. \A k \in 1..t[v] : <<v, k>> \in TimeoutsOf(t)
    BY TimeoutPair
  <2>2. g \in Injection(1..t[v], TimeoutsOf(t))
    BY <2>1 DEF Injection, IsInjective
  <2>3. Cardinality(1..t[v]) <= Cardinality(TimeoutsOf(t))
    BY <2>2, TimeoutsFinite, FS_Injection
  <2>4. Cardinality(1..t[v]) = t[v]
    <3>1. t[v] \in Nat
      BY <1>0
    <3> QED
      BY <3>1, FS_Interval
  <2> QED
    BY <2>3, <2>4
<1> QED
  BY <1>1, <1>2

-----------------------------------------------------------------------------
(* The invariant of pages and monitor.                                     *)

Asking == {"none", "waiting", "answered", "gone"}
Stages == {"idle", "length", "shrunk", "grown", "seek", "read", "mark", "caught", "take"}

Control ==
    /\ page \in [Page -> Lives] /\ timer \in [Page -> 0..MaxChains]
    /\ sent \in Nat /\ asked \in [Poller -> Asking] /\ lost \in BOOLEAN /\ crowded \in BOOLEAN
    /\ \A p \in Poller : (asked[p] \in {"waiting", "gone"}) <=> (pc[p] # "idle")
    /\ \A v \in Page \ Open : timer[v] = 0
    /\ Cardinality(Waiting) <= Handlers

\* A page that is connected and has no timeout waits for an answer, be it the one
\* another page has asked for: there is one message or request for each of them.
Silent == {v \in Joining \cup Open : timer[v] = 0}
Counts ==
    /\ Chains <= MaxChains + Cardinality(Opened)
    /\ ~crowded => Cardinality(Live) <= 1 /\ Chains <= Cardinality(Opened)
    /\ ~lost => Cardinality(Silent) <= sent + Cardinality(Waiting)

PageInv == Control /\ Counts

LEMMA Sets ==
    /\ \A S \in SUBSET Page : /\ IsFiniteSet(S) /\ Cardinality(S) \in Nat
                              /\ Cardinality(S) <= Cardinality(Page)
    /\ \A S \in SUBSET Poller : IsFiniteSet(S) /\ Cardinality(S) \in Nat
    /\ Cardinality(Page) \in Nat /\ MaxChains \in Nat /\ Handlers \in Nat
  BY PageAssumption, FS_Subset, FS_CardinalityType

LEMMA Numbers ==
    ASSUME Control
    PROVE  /\ Cardinality(Waiting) \in Nat /\ Cardinality(Timeouts) \in Nat
           /\ Cardinality(Open) \in Nat /\ Cardinality(Opened) \in Nat
           /\ Cardinality(Connecting) \in Nat /\ Cardinality(Live) \in Nat
           /\ Cardinality(Silent) \in Nat /\ IsFiniteSet(Waiting)
           /\ Timeouts = TimeoutsOf(timer)
           /\ Cardinality(Open) <= Cardinality(Live)
<1>1. Waiting \in SUBSET Poller /\ Open \in SUBSET Page /\ Opened \in SUBSET Page
      /\ Connecting \in SUBSET Page /\ Live \in SUBSET Page /\ Silent \in SUBSET Page
      /\ Open \in SUBSET Live
  BY DEF Waiting, Open, Opened, Silent, Connecting, Joining, Live
<1>2. timer \in [Page -> 0..MaxChains] /\ Timeouts = TimeoutsOf(timer)
  BY DEF Control, Timeouts, TimeoutsOf
<1>3. Cardinality(Open) <= Cardinality(Live)
  BY <1>1, Sets, FS_Subset
<1> QED
  BY <1>1, <1>2, <1>3, Sets, TimeoutsFinite

LEMMA OpenStep == ASSUME PageInv, NEW v \in Page, OpenPage(v) PROVE PageInv'
<1>1. /\ page[v] = "new" /\ page' = [page EXCEPT ![v] = "connecting"]
      /\ crowded' = (crowded \/ Live # {}) /\ UNCHANGED <<pc, timer, sent, asked, lost>>
  BY DEF OpenPage, agent, monitor
<1>2. Control /\ Counts /\ page \in [Page -> Lives]
  BY DEF PageInv, Control
<1>3. /\ Live' = Live \cup {v} /\ Opened' = Opened \cup {v} /\ v \notin Opened /\ v \notin Live
      /\ Connecting' = Connecting \cup {v} /\ v \notin Connecting /\ Open' = Open
  BY <1>1, <1>2 DEF Open, Opened, Live, Connecting, Joining
<1>4. Silent' = Silent
  BY <1>1, <1>2 DEF Silent, Joining, Open
<1>5. Waiting' = Waiting /\ Timeouts' = Timeouts
  BY <1>1 DEF Waiting, Timeouts
<1>6. /\ Cardinality(Live') = Cardinality(Live) + 1 /\ Cardinality(Opened') = Cardinality(Opened) + 1
      /\ Cardinality(Connecting') = Cardinality(Connecting) + 1
  <2>1. Live \in SUBSET Page /\ Opened \in SUBSET Page /\ Connecting \in SUBSET Page
    BY DEF Open, Opened, Live, Connecting, Joining
  <2> QED
    BY <1>3, <2>1, Sets, FS_AddElement
<1>7. Control'
  <2>1. page' \in [Page -> Lives] /\ crowded' \in BOOLEAN
    BY <1>1, <1>2 DEF Control, Lives
  <2>2. \A w \in Page \ Open' : timer'[w] = 0
    BY <1>1, <1>2, <1>3 DEF Control
  <2> QED
    BY <1>1, <1>2, <1>5, <2>1, <2>2 DEF Control
<1>8. Counts'
  <2>1. Chains' = Chains + 1
    BY <1>1, <1>2, <1>5, <1>6, Numbers DEF Chains, Control
  <2>2. Chains \in Nat
    BY <1>2, Numbers DEF Chains, Control
  <2>3. ~crowded' => ~crowded /\ Cardinality(Live') = 1
    <3>1. ~crowded' => ~crowded /\ Live = {}
      BY <1>1, Zenon
    <3>2. Live = {} => Cardinality(Live) = 0
      BY FS_EmptySet
    <3>3. Live = {} => Cardinality(Live') = 1
      BY <1>6, <3>2
    <3> QED
      BY <3>1, <3>3, Zenon
  <2> QED
    BY <1>1, <1>2, <1>4, <1>5, <1>6, <2>1, <2>2, <2>3, Numbers, Sets DEF Counts
<1> QED
  BY <1>7, <1>8 DEF PageInv

\* The connection is made: the page waits for the answer to its message.
LEMMA ConnectStep == ASSUME PageInv, NEW v \in Page, Connect(v) PROVE PageInv'
<1>1. /\ page[v] = "connecting" /\ page' = [page EXCEPT ![v] = "joining"] /\ sent' = sent + 1
      /\ UNCHANGED <<pc, timer, asked, lost, crowded>>
  BY DEF Connect, agent
<1>2. Control /\ Counts /\ page \in [Page -> Lives] /\ sent \in Nat
  BY DEF PageInv, Control
<1>3. /\ Live' = Live /\ Opened' = Opened /\ Open' = Open
      /\ Connecting' = Connecting \ {v} /\ v \in Connecting
  BY <1>1, <1>2 DEF Open, Opened, Live, Connecting, Joining
<1>4. timer[v] = 0
  BY <1>1, <1>2 DEF Control, Open
<1>5. Silent' = Silent \cup {v} /\ v \notin Silent
  BY <1>1, <1>2, <1>4 DEF Silent, Joining, Open
<1>6. Waiting' = Waiting /\ Timeouts' = Timeouts
  BY <1>1 DEF Waiting, Timeouts
<1>7. /\ Cardinality(Silent') = Cardinality(Silent) + 1
      /\ Cardinality(Connecting') = Cardinality(Connecting) - 1
  <2>1. Silent \in SUBSET Page /\ Connecting \in SUBSET Page
    BY DEF Silent, Open, Connecting, Joining
  <2> QED
    BY <1>3, <1>5, <2>1, Sets, FS_AddElement, FS_RemoveElement
<1>8. Control'
  <2>1. page' \in [Page -> Lives] /\ sent' \in Nat
    BY <1>1, <1>2 DEF Lives
  <2>2. \A w \in Page \ Open' : timer'[w] = 0
    BY <1>1, <1>2, <1>3 DEF Control
  <2> QED
    BY <1>1, <1>2, <1>6, <2>1, <2>2 DEF Control
<1>9. Counts'
  <2>1. Chains' = Chains
    BY <1>1, <1>2, <1>6, <1>7, Numbers DEF Chains
  <2> QED
    BY <1>1, <1>2, <1>3, <1>6, <1>7, <2>1, Numbers DEF Counts
<1> QED
  BY <1>8, <1>9 DEF PageInv

LEMMA SubscribeStep == ASSUME PageInv, NEW v \in Page, Subscribe(v) PROVE PageInv'
<1>1. /\ page[v] = "joining" /\ page' = [page EXCEPT ![v] = "open"]
      /\ UNCHANGED <<pc, timer, sent, asked, lost, crowded>>
  BY DEF Subscribe, agent, monitor
<1>2. Control /\ Counts /\ page \in [Page -> Lives]
  BY DEF PageInv, Control
<1>3. /\ Live' = Live /\ Opened' = Opened /\ Open' = Open \cup {v}
      /\ Connecting' = Connecting /\ Silent' = Silent
  BY <1>1, <1>2 DEF Open, Opened, Live, Connecting, Joining, Silent
<1>4. Waiting' = Waiting /\ Timeouts' = Timeouts
  BY <1>1 DEF Waiting, Timeouts
<1>5. Control'
  <2>1. page' \in [Page -> Lives]
    BY <1>1, <1>2 DEF Lives
  <2> QED
    BY <1>1, <1>2, <1>3, <1>4, <2>1 DEF Control
<1>6. Counts'
  BY <1>1, <1>2, <1>3, <1>4 DEF Counts, Chains
<1> QED
  BY <1>5, <1>6 DEF PageInv

LEMMA CloseStep == ASSUME PageInv, NEW v \in Page, ClosePage(v) PROVE PageInv'
<1>1. /\ v \in Live /\ page' = [page EXCEPT ![v] = "closed"] /\ timer' = [timer EXCEPT ![v] = 0]
      /\ UNCHANGED <<pc, sent, asked, lost, crowded>>
  BY DEF ClosePage, agent, monitor
<1>2. Control /\ Counts /\ page \in [Page -> Lives]
      /\ timer \in [Page -> 0..MaxChains]
  BY DEF PageInv, Control
<1>3. /\ Open' = Open \ {v} /\ Opened' = Opened /\ Live' = Live \ {v}
      /\ Connecting' \subseteq Connecting
  BY <1>1, <1>2 DEF Open, Opened, Live, Connecting, Joining
<1>4. Silent' \subseteq Silent /\ Waiting' = Waiting
  BY <1>1, <1>2 DEF Silent, Waiting, Joining, Open
<1>5. Cardinality(Timeouts') <= Cardinality(Timeouts)
  <2>1. Timeouts' = TimeoutsOf(timer')
    BY DEF Timeouts, TimeoutsOf
  <2> QED
    BY <1>1, <1>2, <2>1, Sets, Numbers, TimeoutsGone
<1>6. timer' \in [Page -> 0..MaxChains] /\ Cardinality(Timeouts') \in Nat
  <2>1. timer' \in [Page -> 0..MaxChains]
    BY <1>1, <1>2, Sets
  <2>2. Timeouts' = TimeoutsOf(timer')
    BY DEF Timeouts, TimeoutsOf
  <2> QED
    BY <2>1, <2>2, Sets, TimeoutsFinite
<1>7. /\ Cardinality(Silent') <= Cardinality(Silent) /\ Cardinality(Live') <= Cardinality(Live)
      /\ Cardinality(Connecting') <= Cardinality(Connecting)
      /\ Cardinality(Silent') \in Nat /\ Cardinality(Live') \in Nat /\ Cardinality(Connecting') \in Nat
  <2>1. /\ Live \in SUBSET Page /\ Silent \in SUBSET Page /\ Connecting \in SUBSET Page
        /\ Live' \in SUBSET Live /\ Silent' \in SUBSET Silent /\ Connecting' \in SUBSET Connecting
    BY <1>3, <1>4 DEF Open, Silent, Live, Joining, Connecting
  <2>2. IsFiniteSet(Live) /\ IsFiniteSet(Silent) /\ IsFiniteSet(Connecting)
    BY <2>1, Sets
  <2> QED
    BY <2>1, <2>2, FS_Subset, FS_CardinalityType
<1>8. Control'
  <2>1. page' \in [Page -> Lives]
    BY <1>1, <1>2 DEF Lives
  <2>2. \A w \in Page \ Open' : timer'[w] = 0
    BY <1>1, <1>2, <1>3 DEF Control
  <2> QED
    BY <1>1, <1>2, <1>4, <1>6, <2>1, <2>2 DEF Control
<1>9. Counts'
  <2>1. Chains' <= Chains /\ Chains' \in Nat /\ Chains \in Nat
    BY <1>1, <1>2, <1>4, <1>5, <1>6, <1>7, Numbers DEF Chains, Control
  <2>2. sent \in Nat
    BY <1>2 DEF Control
  <2> QED
    BY <1>1, <1>2, <1>3, <1>4, <1>7, <2>1, <2>2, Numbers, Sets DEF Counts
<1> QED
  BY <1>8, <1>9 DEF PageInv

LEMMA FireStep == ASSUME PageInv, NEW v \in Page, TimeoutFires(v) PROVE PageInv'
<1>1. /\ timer[v] > 0 /\ timer' = [timer EXCEPT ![v] = @ - 1] /\ sent' = sent + 1
      /\ UNCHANGED <<pc, page, asked, lost, crowded>>
  BY DEF TimeoutFires, agent
<1>2. Control /\ Counts /\ timer \in [Page -> 0..MaxChains] /\ sent \in Nat
  BY DEF PageInv, Control
<1>3. /\ Open' = Open /\ Opened' = Opened /\ Waiting' = Waiting /\ Joining' = Joining
      /\ Connecting' = Connecting /\ Live' = Live
  BY <1>1 DEF Open, Opened, Waiting, Joining, Connecting, Live
<1>4. Cardinality(Timeouts') = Cardinality(Timeouts) - 1
  <2>1. Timeouts' = TimeoutsOf(timer')
    BY DEF Timeouts, TimeoutsOf
  <2> QED
    BY <1>1, <1>2, <2>1, Sets, Numbers, TimeoutLess
<1>5. Chains' = Chains /\ Chains \in Nat
  BY <1>1, <1>2, <1>3, <1>4, Numbers DEF Chains
<1>6. v \in Open
  BY <1>1, <1>2 DEF Control
<1>7. Cardinality(Silent') <= Cardinality(Silent) + 1 /\ Cardinality(Silent') \in Nat
  <2>1. Silent' \in SUBSET (Silent \cup {v})
    BY <1>1, <1>2, <1>3 DEF Silent
  <2>2. Silent \in SUBSET Page
    BY DEF Silent, Open, Joining
  <2>3. IsFiniteSet(Silent \cup {v}) /\ Cardinality(Silent \cup {v}) <= Cardinality(Silent) + 1
        /\ Cardinality(Silent \cup {v}) \in Nat
    BY <2>2, Sets, FS_AddElement, FS_CardinalityType
  <2>4. Cardinality(Silent') <= Cardinality(Silent \cup {v}) /\ Cardinality(Silent') \in Nat
    BY <2>1, <2>3, FS_Subset, FS_CardinalityType
  <2> QED
    BY <1>2, <2>3, <2>4, Numbers
<1>8. Control'
  <2>1. timer' \in [Page -> 0..MaxChains]
    BY <1>1, <1>2, Sets
  <2>2. \A w \in Page \ Open : timer'[w] = 0
    BY <1>1, <1>2, <1>6 DEF Control
  <2> QED
    BY <1>1, <1>2, <1>3, <2>1, <2>2 DEF Control
<1>9. Counts'
  BY <1>1, <1>2, <1>3, <1>5, <1>7, Numbers DEF Counts
<1> QED
  BY <1>8, <1>9 DEF PageInv

\* A message becomes a request.
LEMMA AskStep ==
    ASSUME PageInv, pc \in [Poller -> Stages], NEW p \in Poller, Ask(p) PROVE PageInv'
<1>1. /\ sent > 0 /\ Cardinality(Waiting) < Handlers /\ asked[p] = "none" /\ sent' = sent - 1
      /\ asked' = [asked EXCEPT ![p] = "waiting"] /\ pc' = [pc EXCEPT ![p] = "length"]
      /\ UNCHANGED <<page, timer, lost, crowded>>
  BY DEF Ask, browser, Agent!Request
<1>2. Control /\ Counts /\ asked \in [Poller -> Asking] /\ sent \in Nat
  BY DEF PageInv, Control
<1>3. Waiting' = Waiting \cup {p} /\ p \notin Waiting
  BY <1>1, <1>2 DEF Waiting
<1>4. Cardinality(Waiting') = Cardinality(Waiting) + 1
  BY <1>2, <1>3, Numbers, FS_AddElement
<1>5. /\ Open' = Open /\ Opened' = Opened /\ Silent' = Silent /\ Timeouts' = Timeouts
      /\ Connecting' = Connecting /\ Live' = Live
  BY <1>1 DEF Open, Opened, Silent, Timeouts, Connecting, Joining, Live
<1>6. Chains' = Chains
  BY <1>1, <1>2, <1>4, <1>5, Numbers DEF Chains
<1>7. Control'
  <2>1. sent' \in Nat /\ asked' \in [Poller -> Asking]
    BY <1>1, <1>2 DEF Asking
  <2>2. \A q \in Poller : (asked'[q] \in {"waiting", "gone"}) <=> (pc'[q] # "idle")
    BY <1>1, <1>2 DEF Control
  <2>3. Cardinality(Waiting') <= Handlers
    BY <1>1, <1>2, <1>4, Numbers, Sets
  <2> QED
    BY <1>1, <1>2, <1>5, <2>1, <2>2, <2>3 DEF Control
<1>8. Counts'
  BY <1>1, <1>2, <1>4, <1>5, <1>6, Numbers DEF Counts
<1> QED
  BY <1>7, <1>8 DEF PageInv

\* A request ends without an answer for the pages.
LEMMA TimeoutStep == ASSUME PageInv, NEW p \in Poller, Timeout(p) PROVE PageInv'
<1>1. /\ asked[p] \in {"waiting", "answered"} /\ lost' = TRUE
      /\ asked' = [asked EXCEPT ![p] = IF @ = "waiting" THEN "gone" ELSE "none"]
      /\ UNCHANGED <<pc, sent, page, timer, crowded>>
  BY DEF Timeout, Abandoned, agent, browser
<1>2. Control /\ Counts /\ asked \in [Poller -> Asking] /\ sent \in Nat
  BY DEF PageInv, Control
<1>3. Waiting' = Waiting \ {p} /\ p \in Waiting
  BY <1>1, <1>2 DEF Waiting
<1>4. Cardinality(Waiting') = Cardinality(Waiting) - 1
  BY <1>2, <1>3, Numbers, FS_RemoveElement
<1>5. /\ Open' = Open /\ Opened' = Opened /\ Timeouts' = Timeouts
      /\ Connecting' = Connecting /\ Live' = Live
  BY <1>1 DEF Open, Opened, Timeouts, Connecting, Joining, Live
<1>6. Chains' = Chains - 1 /\ Chains \in Nat
  BY <1>1, <1>2, <1>4, <1>5, Numbers DEF Chains
<1>7. Control'
  <2>1. asked' \in [Poller -> Asking]
    BY <1>1, <1>2 DEF Asking
  <2>2. \A q \in Poller : (asked'[q] \in {"waiting", "gone"}) <=> (pc'[q] # "idle")
    BY <1>1, <1>2 DEF Control
  <2>3. Cardinality(Waiting') <= Handlers
    BY <1>2, <1>4, Numbers, Sets DEF Control
  <2> QED
    BY <1>1, <1>2, <1>5, <2>1, <2>2, <2>3 DEF Control
<1>8. Counts'
  BY <1>1, <1>2, <1>5, <1>6, Numbers, Sets DEF Counts
<1> QED
  BY <1>7, <1>8 DEF PageInv

\* An answer reaches the open pages: none of them is silent any more.
LEMMA BroadcastStep == ASSUME PageInv, NEW p \in Poller, Broadcast(p) PROVE PageInv'
<1> DEFINE t == [v \in Page |-> IF v \in Open THEN timer[v] + 1 ELSE timer[v]]
<1>1. /\ asked[p] = "answered" /\ Chains + Cardinality(Open) <= MaxChains + 1 /\ timer' = t
      /\ asked' = [asked EXCEPT ![p] = "none"] /\ lost' = (lost \/ Joining # {})
      /\ UNCHANGED <<pc, sent, page, crowded>>
  BY DEF Broadcast, agent
<1>2. Control /\ Counts /\ asked \in [Poller -> Asking] /\ sent \in Nat
      /\ timer \in [Page -> 0..MaxChains]
  BY DEF PageInv, Control
<1>3. Waiting' = Waiting \ {p} /\ p \in Waiting
  BY <1>1, <1>2 DEF Waiting
<1>4. Cardinality(Waiting') = Cardinality(Waiting) - 1
  BY <1>2, <1>3, Numbers, FS_RemoveElement
<1>5. /\ Open' = Open /\ Opened' = Opened /\ Open \in SUBSET Page
      /\ Connecting' = Connecting /\ Live' = Live /\ Joining' = Joining
  BY <1>1 DEF Open, Opened, Connecting, Joining, Live
<1>6. Timeouts' = TimeoutsOf(t)
  BY <1>1 DEF Timeouts, TimeoutsOf
<1>7. Cardinality(Timeouts') = Cardinality(Timeouts) + Cardinality(Open)
  BY <1>2, <1>5, <1>6, Sets, Numbers, TimeoutsMore
<1>8. /\ Chains' = Chains - 1 + Cardinality(Open) /\ Chains' <= MaxChains /\ Chains' \in Nat
      /\ Cardinality(Timeouts') <= Chains'
  <2>1. Chains' = ((Cardinality(Connecting) + sent) + (Cardinality(Waiting) - 1))
                    + (Cardinality(Timeouts) + Cardinality(Open))
    BY <1>1, <1>4, <1>5, <1>7 DEF Chains
  <2>2. Cardinality(Waiting) - 1 \in Nat
    <3>1. IsFiniteSet(Waiting')
      BY <1>2, <1>3, Numbers, FS_Subset
    <3> QED
      BY <1>4, <3>1, FS_CardinalityType
  <2> QED
    BY <1>1, <1>2, <1>7, <2>1, <2>2, Numbers, Sets DEF Chains
<1>9. ~lost' => Silent' = {}
  <2>1. \A v \in Open : timer'[v] # 0
    BY <1>1, <1>2, <1>5
  <2>2. Silent' \subseteq Joining
    BY <1>5, <2>1 DEF Silent
  <2>3. ~lost' => Joining = {}
    BY <1>1, Zenon
  <2> QED
    BY <2>2, <2>3
<1>10. Control'
  <2>1. asked' \in [Poller -> Asking]
    BY <1>1, <1>2 DEF Asking
  <2>2. \A q \in Poller : (asked'[q] \in {"waiting", "gone"}) <=> (pc'[q] # "idle")
    BY <1>1, <1>2 DEF Control
  <2>3. Cardinality(Waiting') <= Handlers
    BY <1>2, <1>4, Numbers, Sets DEF Control
  <2>4. timer' \in [Page -> 0..MaxChains]
    <3>1. \A v \in Page : timer[v] \in 0..MaxChains
      BY <1>2
    <3>2. MaxChains + 1 \in Nat /\ t \in [Page -> 0..(MaxChains + 1)]
      BY <3>1, Sets
    <3>3. \A v \in Page : t[v] <= Cardinality(Timeouts')
      <4> DEFINE n == MaxChains + 1
      <4> HIDE DEF t, n
      <4>1. n \in Nat /\ t \in [Page -> 0..n]
        BY <3>2 DEF n
      <4>2. \A v \in Page : t[v] <= Cardinality(TimeoutsOf(t))
        BY <4>1, TimeoutsCount
      <4> QED
        BY <1>6, <4>2
    <3>4. Cardinality(Timeouts') \in Nat
      BY <1>2, <1>7, Numbers
    <3>5. \A v \in Page : t[v] \in 0..(MaxChains + 1)
      BY <3>1, Sets
    <3>6. \A v \in Page : t[v] \in 0..MaxChains
      <4> HIDE DEF t
      <4> QED
        BY <1>8, <3>3, <3>4, <3>5, Sets
    <3> QED
      BY <1>1, <3>6
  <2>5. \A v \in Page \ Open' : timer'[v] = 0
    BY <1>1, <1>2, <1>5 DEF Control
  <2> QED
    BY <1>1, <1>2, <2>1, <2>2, <2>3, <2>4, <2>5 DEF Control
<1>11. Counts'
  <2>1. Chains' <= MaxChains + Cardinality(Opened')
    BY <1>2, <1>5, <1>8, Numbers, Sets
  <2>2. ~crowded' => Cardinality(Live') <= 1 /\ Chains' <= Cardinality(Opened')
    <3>1. UNCHANGED crowded
      BY <1>1
    <3>2. Cardinality(Live) <= 1 /\ Chains <= Cardinality(Opened) => Chains' <= Cardinality(Opened)
      BY <1>2, <1>8, Numbers DEF Chains
    <3> QED
      BY <1>2, <1>5, <3>1, <3>2 DEF Counts
  <2>3. ~lost' => Cardinality(Silent') <= sent' + Cardinality(Waiting')
    <3>1. Cardinality({}) = 0
      BY FS_EmptySet
    <3>2. Cardinality(Waiting') \in Nat
      <4>1. IsFiniteSet(Waiting')
        BY <1>2, <1>3, Numbers, FS_Subset
      <4> QED
        BY <4>1, FS_CardinalityType
    <3> QED
      BY <1>1, <1>2, <1>9, <3>1, <3>2
  <2> QED
    BY <2>1, <2>2, <2>3 DEF Counts
<1> QED
  BY <1>10, <1>11 DEF PageInv

\* The application has done with a request: for the monitor it is still a request,
\* unless nobody waits for it.
LEMMA FinishStep ==
    ASSUME PageInv, pc \in [Poller -> Stages], NEW p \in Poller, NEW line, Finish(p, line),
           pc[p] # "idle", pc' = [pc EXCEPT ![p] = "idle"]
    PROVE  PageInv'
<1>1. /\ asked' = [asked EXCEPT ![p] = IF @ = "waiting" THEN "answered" ELSE "none"]
      /\ UNCHANGED <<sent, lost, page, timer, crowded>>
  BY DEF Finish, browser
<1>2. Control /\ Counts /\ asked \in [Poller -> Asking]
  BY DEF PageInv, Control
<1>3. Waiting' = Waiting
  BY <1>1, <1>2 DEF Waiting, Control
<1>4. /\ Open' = Open /\ Opened' = Opened /\ Silent' = Silent /\ Timeouts' = Timeouts
      /\ Chains' = Chains /\ Live' = Live
  BY <1>1, <1>3 DEF Open, Opened, Silent, Timeouts, Chains, Live, Connecting, Joining
<1>5. Control'
  <2>1. asked' \in [Poller -> Asking]
    BY <1>1, <1>2 DEF Asking
  <2>2. \A q \in Poller : (asked'[q] \in {"waiting", "gone"}) <=> (pc'[q] # "idle")
    BY <1>1, <1>2 DEF Control
  <2> QED
    BY <1>1, <1>2, <1>3, <1>4, <2>1, <2>2 DEF Control
<1>6. Counts'
  BY <1>1, <1>2, <1>3, <1>4 DEF Counts
<1> QED
  BY <1>5, <1>6 DEF PageInv

\* What leaves the monitor and the pages alone, and no thread idle that was not.
LEMMA ElsewhereStep ==
    ASSUME PageInv, UNCHANGED <<monitor, browser>>,
           \A q \in Poller : (pc'[q] = "idle") <=> (pc[q] = "idle")
    PROVE  PageInv'
<1>1. UNCHANGED <<sent, asked, lost, page, timer, crowded>>
  BY DEF monitor, browser
<1>2. /\ Open' = Open /\ Opened' = Opened /\ Silent' = Silent /\ Timeouts' = Timeouts
      /\ Waiting' = Waiting /\ Chains' = Chains /\ Live' = Live
  BY <1>1 DEF Open, Opened, Silent, Timeouts, Waiting, Chains, Live, Connecting, Joining
<1>3. Control'
  BY <1>1, <1>2 DEF PageInv, Control
<1>4. Counts'
  BY <1>1, <1>2 DEF PageInv, Counts
<1> QED
  BY <1>3, <1>4 DEF PageInv

-----------------------------------------------------------------------------
(* The invariant of the application, and of the lines on their way.        *)

Line == 1..MaxLines
Reader ==
    /\ files \in Seq(Seq(Line)) /\ files # << >> /\ written \in 0..MaxLines
    /\ lastTimeFileSize \in Nat /\ query \in Seq(Line)
    /\ pc \in [Poller -> Stages] /\ size \in [Poller -> Nat]
    /\ handle \in [Poller -> [file : Nat \ {0}, next : Nat \ {0}]]
    /\ \A p \in Poller : handle[p].file <= Len(files)
Answers == reply \in [Poller -> 0..MaxLines] /\ solo \in Seq(Line)

LEMMA LogLines == ASSUME Reader, Agent!Write \/ Agent!Rotate PROVE Reader'
<1> USE DEF Reader
<1>1. UNCHANGED <<lastTimeFileSize, query, pc, size, handle>>
  BY DEF Agent!Write, Agent!Rotate, Agent!static, Agent!local, Agent!history
<1>2. CASE Agent!Write
  <2>1. /\ written < MaxLines /\ written' = written + 1
        /\ files' = [files EXCEPT ![Len(files)] = Append(@, written + 1)]
    BY <1>2 DEF Agent!Write, Agent!Current
  <2>2. Len(files) \in 1..Len(files) /\ files[Len(files)] \in Seq(Line)
    BY EmptySeq, ElementOfSeq
  <2>3. written + 1 \in Line
    BY <2>1, PageAssumption DEF Line
  <2>4. Append(files[Len(files)], written + 1) \in Seq(Line)
    BY <2>2, <2>3
  <2>5. files' \in Seq(Seq(Line)) /\ Len(files') = Len(files)
    BY <2>1, <2>4, ExceptSeq
  <2> QED
    BY <1>1, <2>1, <2>2, <2>3, <2>5 DEF Line
<1>3. CASE Agent!Rotate
  <2>1. files' = Append(files, << >>) /\ UNCHANGED written
    BY <1>3 DEF Agent!Rotate
  <2>2. files' \in Seq(Seq(Line)) /\ Len(files') = Len(files) + 1
    BY <2>1
  <2>3. files' # << >> /\ \A p \in Poller : handle'[p].file <= Len(files')
    BY <1>1, <2>2, EmptySeq
  <2> QED
    BY <1>1, <2>1, <2>2, <2>3
<1> QED
  BY <1>2, <1>3

LEMMA RequestLines == ASSUME Reader, NEW p \in Poller, Agent!Request(p) PROVE Reader'
<1>1. pc' = [pc EXCEPT ![p] = "length"]
      /\ UNCHANGED <<files, written, lastTimeFileSize, query, size, handle>>
  BY DEF Agent!Request, Agent!log, Agent!static
<1> QED
  BY <1>1 DEF Reader, Stages

LEMMA RunLines ==
    ASSUME Reader, NEW p \in Poller,
           \/ Agent!ReadLength(p) \/ Agent!CompareShrunk(p) \/ Agent!CompareGrown(p)
           \/ Agent!Seek(p) \/ Agent!Mark(p) \/ Agent!PrintStackTrace(p) \/ Agent!Fails(p)
    PROVE  /\ Reader' /\ pc[p] # "idle"
           /\ \E s \in Stages \ {"idle"} : pc' = [pc EXCEPT ![p] = s]
<1> USE DEF Reader, Stages, Agent!log, Agent!static, Agent!history
<1>0. \A g \in 1..Len(files) : files[g] \in Seq(Line) /\ Len(files[g]) \in Nat
  BY ElementOfSeq
<1>1. Len(files) \in 1..Len(files)
  BY EmptySeq
<1>2. CASE Agent!ReadLength(p)
  <2>1. /\ pc[p] = "length" /\ size' = [size EXCEPT ![p] = Len(files[Len(files)])]
        /\ pc' = [pc EXCEPT ![p] = "shrunk"]
        /\ UNCHANGED <<files, written, lastTimeFileSize, query, handle>>
    BY <1>2 DEF Agent!ReadLength, Agent!Length, Agent!Current
  <2>2. size' \in [Poller -> Nat]
    BY <1>0, <1>1, <2>1
  <2> QED
    BY <2>1, <2>2
<1>3. CASE Agent!CompareShrunk(p)
  <2>1. /\ pc[p] = "shrunk" /\ UNCHANGED <<files, written, query, size, handle>>
        /\ (lastTimeFileSize' = size[p] \/ UNCHANGED lastTimeFileSize)
        /\ \E s \in {"take", "grown"} : pc' = [pc EXCEPT ![p] = s]
    BY <1>3 DEF Agent!CompareShrunk
  <2>2. size[p] \in Nat
    OBVIOUS
  <2>3. lastTimeFileSize' \in Nat
    BY <2>1, <2>2
  <2> QED
    BY <2>1, <2>3
<1>4. CASE Agent!CompareGrown(p)
  BY <1>4 DEF Agent!CompareGrown
<1>5. CASE Agent!Seek(p)
  <2> DEFINE h == [file |-> Len(files), next |-> lastTimeFileSize + 1]
  <2>1. handle' = [handle EXCEPT ![p] = h]
    BY <1>5 DEF Agent!Seek, Agent!Current
  <2>2. h \in [file : Nat \ {0}, next : Nat \ {0}] /\ h.file <= Len(files)
    BY <1>1
  <2>3. handle' \in [Poller -> [file : Nat \ {0}, next : Nat \ {0}]]
        /\ \A q \in Poller : handle'[q].file <= Len(files)
    BY <2>1, <2>2
  <2> QED
    BY <1>5, <2>3 DEF Agent!Seek
<1>6. CASE Agent!Mark(p)
  <2>1. handle[p].file \in 1..Len(files)
    OBVIOUS
  <2>2. lastTimeFileSize' \in Nat
    BY <1>0, <1>6, <2>1 DEF Agent!Mark, Agent!Length
  <2> QED
    BY <1>6, <2>2 DEF Agent!Mark
<1>7. CASE Agent!PrintStackTrace(p) \/ Agent!Fails(p)
  BY <1>7 DEF Agent!PrintStackTrace, Agent!Fails, Agent!OpenFails, Agent!ReadFails
<1> QED
  BY <1>2, <1>3, <1>4, <1>5, <1>6, <1>7

\* The locals of a thread that has answered are those of one that has not begun.
LEMMA AnsweredLines ==
    ASSUME Reader, NEW p \in Poller, Agent!Answered(p), UNCHANGED <<files, written, lastTimeFileSize>>,
           query' \in Seq(Line)
    PROVE  Reader' /\ pc' = [pc EXCEPT ![p] = "idle"]
<1> DEFINE h == [file |-> 1, next |-> 1]
<1>1. /\ pc' = [pc EXCEPT ![p] = "idle"] /\ size' = [size EXCEPT ![p] = 0]
      /\ handle' = [handle EXCEPT ![p] = h]
  BY DEF Agent!Answered, Agent!NoHandle
<1>2. h \in [file : Nat \ {0}, next : Nat \ {0}] /\ h.file <= Len(files)
  BY EmptySeq DEF Reader
<1>3. handle' \in [Poller -> [file : Nat \ {0}, next : Nat \ {0}]]
      /\ \A q \in Poller : handle'[q].file <= Len(files)
  BY <1>1, <1>2 DEF Reader
<1> QED
  BY <1>1, <1>3 DEF Reader, Stages

LEMMA ReadLines ==
    ASSUME Reader, NEW p \in Poller, Agent!ReadLine(p)
    PROVE  /\ Reader' /\ pc[p] # "idle"
           /\ \E s \in Stages : pc' = [pc EXCEPT ![p] = s]
<1> DEFINE f == files[handle[p].file]
           i == handle[p].next
<1>1. /\ pc[p] = "read" /\ UNCHANGED <<files, written, lastTimeFileSize>>
      /\ \/ pc' = [pc EXCEPT ![p] = "mark"] /\ UNCHANGED <<query, size, handle>>
         \/ /\ i <= Len(f) /\ query' = Append(query, f[i])
            /\ handle' = [handle EXCEPT ![p].next = i + 1] /\ UNCHANGED <<pc, size>>
         \/ Agent!Answered(p) /\ UNCHANGED query
  BY DEF Agent!ReadLine, Agent!log
<1>2. f \in Seq(Line) /\ i \in Nat \ {0}
  <2>1. handle[p].file \in 1..Len(files) /\ i \in Nat \ {0}
    BY DEF Reader
  <2> QED
    BY <2>1, ElementOfSeq DEF Reader
<1>3. CASE pc' = [pc EXCEPT ![p] = "mark"] /\ UNCHANGED <<query, size, handle>>
  BY <1>1, <1>3 DEF Reader, Stages
<1>4. CASE i <= Len(f) /\ query' = Append(query, f[i])
           /\ handle' = [handle EXCEPT ![p].next = i + 1] /\ UNCHANGED <<pc, size>>
  <2>1. f[i] \in Line
    BY <1>2, <1>4, ElementOfSeq
  <2>2. query' \in Seq(Line)
    BY <1>4, <2>1 DEF Reader
  <2>3. handle' \in [Poller -> [file : Nat \ {0}, next : Nat \ {0}]]
        /\ \A q \in Poller : handle'[q].file <= Len(files)
    <3> DEFINE h == [handle[p] EXCEPT !.next = i + 1]
    <3>1. handle' = [handle EXCEPT ![p] = h]
      BY <1>4 DEF Reader
    <3>2. h \in [file : Nat \ {0}, next : Nat \ {0}] /\ h.file <= Len(files)
      BY <1>2 DEF Reader
    <3> QED
      BY <3>1, <3>2 DEF Reader
  <2>4. pc' = [pc EXCEPT ![p] = "read"] /\ "read" \in Stages
    BY <1>1, <1>4 DEF Reader, Stages
  <2> QED
    BY <1>1, <1>4, <2>2, <2>3, <2>4 DEF Reader
<1>5. CASE Agent!Answered(p) /\ UNCHANGED query
  <2>1. Reader' /\ pc' = [pc EXCEPT ![p] = "idle"]
    BY <1>1, <1>5, AnsweredLines DEF Reader
  <2> QED
    BY <1>1, <2>1 DEF Stages
<1> QED
  BY <1>1, <1>3, <1>4, <1>5

LEMMA TakeLines ==
    ASSUME Reader, NEW p \in Poller, Agent!Take(p)
    PROVE  Reader' /\ pc[p] # "idle" /\ pc' = [pc EXCEPT ![p] = "idle"] /\ Head(query) \in Line
<1>1. /\ pc[p] = "take" /\ query # << >> /\ query' = Tail(query) /\ Agent!Answered(p)
      /\ UNCHANGED <<files, written, lastTimeFileSize>>
  BY DEF Agent!Take, Agent!log
<1>2. query \in Seq(Line)
  BY DEF Reader
<1>3. Tail(query) \in Seq(Line) /\ Head(query) \in Line
  BY <1>1, <1>2, HeadTailProperties
<1> QED
  BY <1>1, <1>3, AnsweredLines

-----------------------------------------------------------------------------
(* The invariant is inductive.                                             *)

Inv == PageInv /\ Reader /\ Answers

LEMMA InitInv == ASSUME Init PROVE Inv
<1> USE DEF Init
<1>1. Open = {} /\ Opened = {} /\ Silent = {} /\ Waiting = {} /\ Connecting = {} /\ Live = {}
  BY DEF Open, Opened, Silent, Waiting, Connecting, Joining, Live
<1>2. Timeouts = {}
  BY TimeoutsIn DEF Timeouts, TimeoutsOf
<1>3. Cardinality({}) = 0
  BY FS_EmptySet
<1>4. Chains = 0
  BY <1>1, <1>2, <1>3 DEF Chains
<1>5. Counts
  BY <1>1, <1>3, <1>4, Sets DEF Counts
<1>6. Control
  <2>1. \A p \in Poller : pc[p] = "idle" /\ asked[p] = "none"
    BY DEF Agent!Init
  <2>2. \A p \in Poller : (asked[p] \in {"waiting", "gone"}) <=> (pc[p] # "idle")
    BY <2>1
  <2>3. asked \in [Poller -> Asking] /\ timer \in [Page -> 0..MaxChains]
        /\ page \in [Page -> Lives]
    BY Sets DEF Asking, Lives
  <2>4. lost \in BOOLEAN /\ crowded \in BOOLEAN
    OBVIOUS
  <2>5. sent \in Nat /\ Cardinality(Waiting) <= Handlers /\ \A v \in Page : timer[v] = 0
    BY <1>1, <1>3, Sets
  <2> QED
    BY <2>2, <2>3, <2>4, <2>5 DEF Control
<1>7. Reader
  <2> DEFINE f == [i \in 1..written |-> i]
             h == [file |-> 1, next |-> 1]
  <2>1. /\ written \in 0..MaxLines /\ files = << f >> /\ lastTimeFileSize = 0 /\ query = << >>
        /\ pc = [p \in Poller |-> "idle"] /\ size = [p \in Poller |-> 0]
        /\ handle = [p \in Poller |-> h]
    BY DEF Agent!Init
  <2>2. f \in Seq(Line)
    BY <2>1, PageAssumption DEF Line
  <2>3. files \in Seq(Seq(Line)) /\ Len(files) = 1
    BY <2>1, <2>2
  <2>4. files # << >>
    <3>1. Len(<< >>) = 0
      BY EmptySeq
    <3>2. files = << >> => Len(files) = Len(<< >>)
      BY Zenon
    <3>3. Len(files) # Len(<< >>)
      BY <2>3, <3>1
    <3> QED
      BY <3>2, <3>3, Zenon
  <2>5. h \in [file : Nat \ {0}, next : Nat \ {0}]
    OBVIOUS
  <2>6. handle \in [Poller -> [file : Nat \ {0}, next : Nat \ {0}]]
        /\ \A p \in Poller : handle[p].file <= Len(files)
    BY <2>1, <2>3, <2>5
  <2>7. query \in Seq(Line)
    BY <2>1
  <2> QED
    BY <2>1, <2>3, <2>4, <2>6, <2>7 DEF Reader, Stages
<1>8. Answers
  <2>1. solo \in Seq(Line)
    BY EmptySeq
  <2>2. NoNews \in 0..MaxLines
    BY PageAssumption DEF NoNews
  <2> QED
    BY <2>1, <2>2 DEF Answers
<1> QED
  BY <1>5, <1>6, <1>7, <1>8 DEF Inv, PageInv

LEMMA SameReader == ASSUME Reader, UNCHANGED agent PROVE Reader'
  BY DEF Reader, agent

LEMMA SameAnswers == ASSUME Answers, UNCHANGED <<reply, solo>> PROVE Answers'
  BY DEF Answers

LEMMA FinishAnswers ==
    ASSUME Answers, NEW p \in Poller, NEW line \in 0..MaxLines, Finish(p, line)
    PROVE  Answers'
<1>1. NoNews \in 0..MaxLines
  BY PageAssumption DEF NoNews
<1> QED
  BY <1>1 DEF Answers, Finish, browser

LEMMA NextInv == ASSUME Inv, [Next]_vars PROVE Inv'
<1> USE DEF Inv
<1>0. NoNews \in 0..MaxLines /\ pc \in [Poller -> Stages]
  BY PageAssumption DEF NoNews, Reader
<1>1. CASE Log
  <2>1. UNCHANGED <<monitor, browser>> /\ UNCHANGED pc /\ Reader'
    BY <1>1, LogLines DEF Log, Agent!Write, Agent!Rotate, Agent!local
  <2> QED
    BY <2>1, ElsewhereStep, SameAnswers DEF monitor, browser
<1>2. ASSUME NEW v \in Page, OpenPage(v) \/ Connect(v) \/ Subscribe(v) PROVE Inv'
  BY <1>2, OpenStep, ConnectStep, SubscribeStep, SameReader, SameAnswers
     DEF OpenPage, Connect, Subscribe, monitor
<1>3. ASSUME NEW v \in Page, ClosePage(v) PROVE Inv'
  BY <1>3, CloseStep, SameReader, SameAnswers DEF ClosePage, monitor
<1>4. ASSUME NEW v \in Page, TimeoutFires(v) PROVE Inv'
  BY <1>4, FireStep, SameReader, SameAnswers DEF TimeoutFires
<1>5. ASSUME NEW p \in Poller, Ask(p) PROVE Inv'
  <2>1. Agent!Request(p) /\ UNCHANGED <<reply, solo>>
    BY <1>5 DEF Ask, browser
  <2> QED
    BY <1>0, <1>5, <2>1, AskStep, RequestLines, SameAnswers
<1>6. ASSUME NEW p \in Poller, Timeout(p) PROVE Inv'
  <2>1. UNCHANGED <<agent, solo>> /\ reply' = [reply EXCEPT ![p] = NoNews]
    BY <1>6 DEF Timeout, browser
  <2>2. Answers'
    BY <1>0, <2>1 DEF Answers
  <2> QED
    BY <1>6, <2>1, <2>2, TimeoutStep, SameReader
<1>7. ASSUME NEW p \in Poller, Broadcast(p) PROVE Inv'
  <2>1. UNCHANGED agent /\ reply' = [reply EXCEPT ![p] = NoNews]
        /\ (UNCHANGED solo \/ (reply[p] # NoNews /\ solo' = Append(solo, reply[p])))
    BY <1>7 DEF Broadcast, Shown
  <2>2. reply[p] # NoNews => reply[p] \in Line
    BY DEF Answers, Line, NoNews
  <2>3. reply' \in [Poller -> 0..MaxLines]
    BY <1>0, <2>1 DEF Answers
  <2>4. solo' \in Seq(Line)
    <3>1. solo \in Seq(Line)
      BY DEF Answers
    <3>2. reply[p] \in Line => Append(solo, reply[p]) \in Seq(Line)
      BY <3>1
    <3> QED
      BY <2>1, <2>2, <3>1, <3>2
  <2> QED
    BY <1>7, <2>1, <2>3, <2>4, BroadcastStep, SameReader DEF Answers
<1>8. ASSUME NEW p \in Poller, Read(p) PROVE Inv'
  <2>1. Agent!ReadLine(p) /\ Reader' /\ pc[p] # "idle"
    BY <1>8, ReadLines DEF Read
  <2>2. PICK s \in Stages : pc' = [pc EXCEPT ![p] = s]
    BY <2>1, ReadLines
  <2>3. pc'[p] = s /\ \A q \in Poller \ {p} : pc'[q] = pc[q]
    BY <1>0, <2>2
  <2>4. CASE s = "idle"
    <3>1. Finish(p, NoNews)
      BY <1>8, <2>3, <2>4 DEF Read
    <3> QED
      BY <1>0, <2>1, <2>2, <2>4, <3>1, FinishStep, FinishAnswers
  <2>5. CASE s # "idle"
    <3>1. UNCHANGED <<monitor, browser>>
      BY <1>8, <2>3, <2>5 DEF Read
    <3>2. \A q \in Poller : (pc'[q] = "idle") <=> (pc[q] = "idle")
      BY <2>1, <2>3, <2>5
    <3> QED
      BY <2>1, <3>1, <3>2, ElsewhereStep, SameAnswers DEF monitor, browser
  <2> QED
    BY <2>4, <2>5
<1>9. ASSUME NEW p \in Poller, Run(p) \/ ReadError(p) PROVE Inv'
  <2>1. /\ \/ Agent!ReadLength(p) \/ Agent!CompareShrunk(p) \/ Agent!CompareGrown(p)
           \/ Agent!Seek(p) \/ Agent!Mark(p) \/ Agent!PrintStackTrace(p) \/ Agent!Fails(p)
        /\ UNCHANGED <<monitor, browser>>
    BY <1>9 DEF Run, ReadError
  <2>2. Reader' /\ pc[p] # "idle" /\ \E s \in Stages \ {"idle"} : pc' = [pc EXCEPT ![p] = s]
    BY <2>1, RunLines
  <2>3. \A q \in Poller : (pc'[q] = "idle") <=> (pc[q] = "idle")
    BY <1>0, <2>2
  <2> QED
    BY <2>1, <2>2, <2>3, ElsewhereStep, SameAnswers DEF monitor, browser
<1>10. ASSUME NEW p \in Poller, Answer(p) PROVE Inv'
  <2>1. Agent!Take(p) /\ Finish(p, Head(query))
    BY <1>10 DEF Answer
  <2>2. Reader' /\ pc[p] # "idle" /\ pc' = [pc EXCEPT ![p] = "idle"] /\ Head(query) \in Line
    BY <2>1, TakeLines
  <2>3. Head(query) \in 0..MaxLines
    BY <2>2 DEF Line
  <2> QED
    BY <1>0, <2>1, <2>2, <2>3, FinishStep, FinishAnswers
<1>11. CASE UNCHANGED vars
  <2>1. UNCHANGED <<agent, monitor, browser>> /\ UNCHANGED pc
    BY <1>11 DEF vars, agent
  <2> QED
    BY <2>1, ElsewhereStep, SameReader, SameAnswers DEF monitor, browser
<1> QED
  BY <1>1, <1>2, <1>3, <1>4, <1>5, <1>6, <1>7, <1>8, <1>9, <1>10, <1>11 DEF Next, Serve

LEMMA Always == Spec => []Inv
<1>1. Init => Inv
  BY InitInv
<1>2. Inv /\ [Next]_vars => Inv'
  BY NextInv
<1> QED
  BY <1>1, <1>2, PTL DEF Spec

-----------------------------------------------------------------------------
(* One page, one request.                                                  *)

\* While no more than one page has been opened, there is one connection being made,
\* one thread at work, one message or one timeout at most: a request that was given up ends the chain, it
\* does not run beside the next one.
Busy == {p \in Poller : asked[p] # "none"}
Serial ==
    Cardinality(Opened) <= 1 =>
        /\ ~shared
        /\ Cardinality(Connecting) + sent + Cardinality(Busy) + Cardinality(Timeouts) <= Cardinality(Opened)

LEMMA BusyFinite == IsFiniteSet(Busy) /\ Cardinality(Busy) \in Nat
<1>1. Busy \in SUBSET Poller
  BY DEF Busy
<1> QED
  BY <1>1, Sets

LEMMA NoMoreBusy ==
    ASSUME Control, Serial, UNCHANGED <<sent, shared>>, Opened' = Opened, Busy' \subseteq Busy,
           Cardinality(Timeouts') \in Nat, Cardinality(Timeouts') <= Cardinality(Timeouts),
           Connecting' \subseteq Connecting
    PROVE  Serial'
<1>1. Cardinality(Busy') <= Cardinality(Busy) /\ Cardinality(Busy') \in Nat
  BY BusyFinite, FS_Subset, FS_CardinalityType
<1>2. sent \in Nat
  BY DEF Control
<1>3. Cardinality(Connecting') <= Cardinality(Connecting) /\ Cardinality(Connecting') \in Nat
  <2>1. Connecting \in SUBSET Page
    BY DEF Connecting
  <2> QED
    BY <2>1, Sets, FS_Subset, FS_CardinalityType
<1> QED
  BY <1>1, <1>2, <1>3, BusyFinite, Numbers DEF Serial

LEMMA SerialNext == ASSUME Inv, Serial, [Next]_vars PROVE Serial'
<1>0. /\ Control /\ pc \in [Poller -> Stages] /\ asked \in [Poller -> Asking] /\ sent \in Nat
      /\ timer \in [Page -> 0..MaxChains] /\ page \in [Page -> Lives]
  BY DEF Inv, PageInv, Control, Reader
<1>1. ASSUME UNCHANGED <<monitor, browser, shared>> PROVE Serial'
  <2>1. Busy' = Busy /\ Timeouts' = Timeouts /\ Opened' = Opened /\ Connecting' = Connecting
    BY <1>1 DEF monitor, browser, Busy, Timeouts, Opened, Connecting
  <2> QED
    BY <1>0, <1>1, <2>1, NoMoreBusy, Numbers DEF monitor
<1>2. ASSUME NEW p \in Poller, UNCHANGED <<sent, page, timer, shared>>, asked[p] # "none",
             NEW a, asked' = [asked EXCEPT ![p] = a]
      PROVE  Serial'
  <2>1. Busy' \subseteq Busy /\ Timeouts' = Timeouts /\ Opened' = Opened /\ Connecting' = Connecting
    BY <1>0, <1>2 DEF Busy, Timeouts, Opened, Connecting
  <2> QED
    BY <1>0, <1>2, <2>1, NoMoreBusy, Numbers
<1>3. CASE Log
  BY <1>1, <1>3 DEF Log, Agent!Write, Agent!Rotate, Agent!history
<1>4. ASSUME NEW v \in Page, OpenPage(v) PROVE Serial'
  <2>1. UNCHANGED <<sent, timer, asked, shared>> /\ page[v] = "new"
        /\ page' = [page EXCEPT ![v] = "connecting"]
    BY <1>4 DEF OpenPage, agent, monitor
  <2>2. /\ Opened' = Opened \cup {v} /\ v \notin Opened /\ Opened \in SUBSET Page
        /\ Connecting' = Connecting \cup {v} /\ v \notin Connecting /\ Connecting \in SUBSET Page
    BY <1>0, <2>1 DEF Opened, Connecting
  <2>3. /\ Cardinality(Opened') = Cardinality(Opened) + 1
        /\ Cardinality(Connecting') = Cardinality(Connecting) + 1
    BY <2>2, Sets, FS_AddElement
  <2>4. Busy' = Busy /\ Timeouts' = Timeouts
    BY <2>1 DEF Busy, Timeouts
  <2> QED
    BY <1>0, <2>1, <2>3, <2>4, BusyFinite, Numbers DEF Serial
<1>5. ASSUME NEW v \in Page, ClosePage(v) PROVE Serial'
  <2>1. v \in Live /\ page' = [page EXCEPT ![v] = "closed"] /\ timer' = [timer EXCEPT ![v] = 0]
        /\ UNCHANGED <<sent, asked, shared>>
    BY <1>5 DEF ClosePage, agent, monitor
  <2>2. Opened' = Opened /\ Busy' = Busy /\ Connecting' \subseteq Connecting
    BY <1>0, <2>1 DEF Opened, Busy, Live, Connecting, Joining, Open
  <2>3. Timeouts' = TimeoutsOf(timer')
    BY DEF Timeouts, TimeoutsOf
  <2>4. timer' \in [Page -> 0..MaxChains]
    BY <1>0, <2>1, Sets
  <2> QED
    BY <1>0, <2>1, <2>2, <2>3, <2>4, NoMoreBusy, Sets, Numbers, TimeoutsGone, TimeoutsFinite
<1>15. ASSUME NEW v \in Page, Connect(v) PROVE Serial'
  <2>1. UNCHANGED <<timer, asked, shared>> /\ page[v] = "connecting" /\ sent' = sent + 1
        /\ page' = [page EXCEPT ![v] = "joining"]
    BY <1>15 DEF Connect, agent
  <2>2. /\ Opened' = Opened /\ Connecting' = Connecting \ {v} /\ v \in Connecting
        /\ Connecting \in SUBSET Page
    BY <1>0, <2>1 DEF Opened, Connecting
  <2>3. Cardinality(Connecting') = Cardinality(Connecting) - 1
    BY <2>2, Sets, FS_RemoveElement
  <2>4. Busy' = Busy /\ Timeouts' = Timeouts
    BY <2>1 DEF Busy, Timeouts
  <2> QED
    BY <1>0, <2>1, <2>2, <2>3, <2>4, BusyFinite, Numbers DEF Serial
<1>16. ASSUME NEW v \in Page, Subscribe(v) PROVE Serial'
  <2>1. UNCHANGED <<sent, timer, asked, shared>> /\ page[v] = "joining" /\ page' = [page EXCEPT ![v] = "open"]
    BY <1>16 DEF Subscribe, agent, monitor
  <2>2. Opened' = Opened /\ Connecting' = Connecting /\ Busy' = Busy /\ Timeouts' = Timeouts
    BY <1>0, <2>1 DEF Opened, Connecting, Busy, Timeouts
  <2> QED
    BY <1>0, <2>1, <2>2, NoMoreBusy, Numbers
<1>6. ASSUME NEW v \in Page, TimeoutFires(v) PROVE Serial'
  <2>1. timer[v] > 0 /\ timer' = [timer EXCEPT ![v] = @ - 1] /\ sent' = sent + 1
        /\ UNCHANGED <<page, asked, shared>>
    BY <1>6 DEF TimeoutFires, agent
  <2>2. Opened' = Opened /\ Busy' = Busy /\ Timeouts' = TimeoutsOf(timer') /\ Connecting' = Connecting
    BY <2>1 DEF Opened, Busy, Timeouts, TimeoutsOf, Connecting
  <2>3. Cardinality(Timeouts') = Cardinality(Timeouts) - 1
    BY <1>0, <2>1, <2>2, Sets, Numbers, TimeoutLess
  <2> QED
    BY <1>0, <2>1, <2>2, <2>3, BusyFinite, Numbers DEF Serial
<1>7. ASSUME NEW p \in Poller, Ask(p) PROVE Serial'
  <2>1. /\ sent > 0 /\ asked[p] = "none" /\ sent' = sent - 1
        /\ asked' = [asked EXCEPT ![p] = "waiting"] /\ UNCHANGED <<page, timer>>
        /\ shared' = (shared \/ \E q \in Poller : Agent!Running(q))
    BY <1>7 DEF Ask, browser, Agent!Request
  <2>2. Busy' = Busy \cup {p} /\ p \notin Busy
    BY <1>0, <2>1 DEF Busy
  <2>3. Cardinality(Busy') = Cardinality(Busy) + 1
    BY <2>2, BusyFinite, FS_AddElement
  <2>4. Opened' = Opened /\ Timeouts' = Timeouts /\ Connecting' = Connecting
    BY <2>1 DEF Opened, Timeouts, Connecting
  <2>5. ASSUME Cardinality(Opened) <= 1 PROVE ~shared'
    <3>1. Cardinality(Busy) = 0 /\ ~shared
      BY <1>0, <2>1, <2>5, BusyFinite, Numbers DEF Serial
    <3>2. Busy = {}
      BY <3>1, BusyFinite, FS_EmptySet
    <3>3. \A q \in Poller : pc[q] = "idle"
      BY <1>0, <3>2 DEF Busy, Control, Asking
    <3>4. ~\E q \in Poller : Agent!Running(q)
      BY <3>3 DEF Agent!Running
    <3> QED
      BY <2>1, <3>1, <3>4, Zenon
  <2> QED
    BY <1>0, <2>1, <2>3, <2>4, <2>5, BusyFinite, Numbers DEF Serial
<1>8. ASSUME NEW p \in Poller, Timeout(p) PROVE Serial'
  BY <1>2, <1>8 DEF Timeout, Abandoned, agent, browser
<1>9. ASSUME NEW p \in Poller, Broadcast(p) PROVE Serial'
  <2>1. /\ asked[p] = "answered" /\ asked' = [asked EXCEPT ![p] = "none"]
        /\ timer' = [v \in Page |-> IF v \in Open THEN timer[v] + 1 ELSE timer[v]]
        /\ UNCHANGED <<page, sent, shared>>
    BY <1>9 DEF Broadcast, agent
  <2>2. Busy' = Busy \ {p} /\ p \in Busy
    BY <1>0, <2>1 DEF Busy
  <2>3. Cardinality(Busy') = Cardinality(Busy) - 1
    BY <2>2, BusyFinite, FS_RemoveElement
  <2>4. Opened' = Opened /\ Timeouts' = TimeoutsOf(timer') /\ Open \in SUBSET Opened
        /\ Open \in SUBSET Page /\ Opened \in SUBSET Page /\ Connecting' = Connecting
    BY <2>1 DEF Opened, Open, Timeouts, TimeoutsOf, Connecting
  <2>5. Cardinality(Timeouts') = Cardinality(Timeouts) + Cardinality(Open)
    BY <1>0, <2>1, <2>4, Sets, Numbers, TimeoutsMore
  <2>6. Cardinality(Open) <= Cardinality(Opened)
    BY <2>4, Sets, FS_Subset
  <2>7. Cardinality(Busy) - 1 \in Nat
    <3>1. IsFiniteSet(Busy')
      BY <2>2, BusyFinite, FS_Subset
    <3> QED
      BY <2>3, <3>1, FS_CardinalityType
  <2> QED
    BY <1>0, <2>1, <2>3, <2>4, <2>5, <2>6, <2>7, BusyFinite, Numbers DEF Serial
<1>10. ASSUME NEW p \in Poller, NEW line, Finish(p, line), UNCHANGED shared, pc[p] # "idle"
       PROVE  Serial'
  <2>1. asked[p] # "none"
    BY <1>0, <1>10 DEF Control
  <2> QED
    BY <1>2, <1>10, <2>1 DEF Finish, browser
<1>11. ASSUME NEW p \in Poller, Read(p) PROVE Serial'
  <2>1. UNCHANGED shared /\ pc[p] # "idle"
    BY <1>11 DEF Read, Agent!ReadLine
  <2> QED
    BY <1>1, <1>10, <1>11, <2>1 DEF Read
<1>12. ASSUME NEW p \in Poller, Run(p) \/ ReadError(p) PROVE Serial'
  <2>1. UNCHANGED shared
    BY <1>12 DEF Run, ReadError, Agent!ReadLength, Agent!CompareShrunk, Agent!CompareGrown, Agent!Seek,
                 Agent!Mark, Agent!PrintStackTrace, Agent!Fails, Agent!OpenFails, Agent!ReadFails,
                 Agent!history
  <2> QED
    BY <1>1, <1>12, <2>1 DEF Run, ReadError
<1>13. ASSUME NEW p \in Poller, Answer(p) PROVE Serial'
  <2>1. UNCHANGED shared /\ pc[p] # "idle"
    BY <1>13 DEF Answer, Agent!Take
  <2> QED
    BY <1>10, <1>13, <2>1 DEF Answer
<1>14. CASE UNCHANGED vars
  BY <1>1, <1>14 DEF vars, agent
<1> QED
  BY <1>3, <1>4, <1>5, <1>6, <1>7, <1>8, <1>9, <1>11, <1>12, <1>13, <1>14,
     <1>15, <1>16 DEF Next, Serve

LEMMA SerialInit == ASSUME Init PROVE Serial
<1>1. Busy = {} /\ Opened = {} /\ Connecting = {} /\ sent = 0 /\ shared = FALSE
  BY DEF Init, Agent!Init, Busy, Opened, Connecting
<1>2. Timeouts = {}
  BY TimeoutsIn DEF Init, Timeouts, TimeoutsOf
<1> QED
  BY <1>1, <1>2, FS_EmptySet DEF Serial

-----------------------------------------------------------------------------
(* Theorems.                                                               *)

\* The state of pages, messages and requests keeps its types; a thread of the
\* application works for a request unless it is idle, a page that is not open
\* has no timeout, and the monitor waits for no more than Handlers requests.
THEOREM Typing == Spec => []TypeOK
<1>1. Inv => TypeOK
  <2> SUFFICES ASSUME Inv PROVE TypeOK
    OBVIOUS
  <2>1. Control /\ Counts /\ Answers
    BY DEF Inv, PageInv
  <2>2. Opened \in SUBSET Page
    BY DEF Opened
  <2>3. sent <= MaxChains + Cardinality(Page)
    BY <2>1, <2>2, Numbers, Sets DEF Control, Counts, Chains
  <2>4. sent \in 0..(MaxChains + Cardinality(Page))
    BY <2>1, <2>3, Sets DEF Control
  <2> QED
    BY <2>1, <2>4 DEF TypeOK, Control, Answers, Asking, Line
<1> QED
  BY <1>1, Always, PTL

\* As long as no answer is lost, each page that is there makes its connection, has a
\* timeout, or there is a message or a request for it: no page dies whose connection
\* holds, however pages come and go.
THEOREM PagesGoOnHolds == Spec => []PagesGoOn
<1>1. Inv => PagesGoOn
  <2> SUFFICES ASSUME Inv, ~lost PROVE Chains >= Cardinality(Live)
    BY DEF PagesGoOn
  <2>1. Control /\ Cardinality(Silent) <= sent + Cardinality(Waiting) /\ sent \in Nat
    BY DEF Inv, PageInv, Control, Counts
  <2> DEFINE Timed == {v \in Page : timer[v] > 0}
             Alive == Silent \cup Timed
  <2>2. Cardinality(Timed) <= Cardinality(Timeouts)
    BY <2>1, Numbers, Sets, TimeoutsCount DEF Control
  <2>3. /\ Live \in SUBSET (Connecting \cup Alive) /\ Silent \in SUBSET Page /\ Timed \in SUBSET Page
        /\ Connecting \in SUBSET Page
    <3>1. \A v \in Page : timer[v] \in 0..MaxChains
      BY <2>1 DEF Control
    <3> QED
      BY <3>1 DEF Silent, Live, Connecting, Joining, Open
  <2>4. ASSUME NEW S \in SUBSET Page, NEW T \in SUBSET Page
        PROVE  Cardinality(S \cup T) <= Cardinality(S) + Cardinality(T)
    <3>1. /\ IsFiniteSet(S) /\ IsFiniteSet(T) /\ Cardinality(S) \in Nat /\ Cardinality(T) \in Nat
          /\ Cardinality(S \cap T) \in Nat
      BY Sets
    <3>2. Cardinality(S \cup T) = Cardinality(S) + Cardinality(T) - Cardinality(S \cap T)
      BY <3>1, FS_Union
    <3> QED
      BY <3>1, <3>2
  <2>5. Cardinality(Alive) <= Cardinality(Silent) + Cardinality(Timed) /\ Alive \in SUBSET Page
    <3> HIDE DEF Timed
    <3> QED
      BY <2>3, <2>4
  <2>6. Cardinality(Connecting \cup Alive) <= Cardinality(Connecting) + Cardinality(Alive)
    <3> HIDE DEF Alive
    <3> QED
      BY <2>3, <2>4, <2>5
  <2>7. Cardinality(Live) <= Cardinality(Connecting \cup Alive) /\ Cardinality(Connecting \cup Alive) \in Nat
    <3> HIDE DEF Alive
    <3>1. Connecting \cup Alive \in SUBSET Page
      BY <2>3, <2>5
    <3>2. IsFiniteSet(Connecting \cup Alive) /\ Cardinality(Connecting \cup Alive) \in Nat
      BY <3>1, Sets
    <3> QED
      BY <2>3, <3>2, FS_Subset
  <2>8. Cardinality(Timed) \in Nat /\ Cardinality(Alive) \in Nat
    BY <2>3, <2>5, Sets
  <2> HIDE DEF Timed, Alive
  <2> QED
    BY <2>1, <2>2, <2>5, <2>6, <2>7, <2>8, Numbers DEF Chains
<1> QED
  BY <1>1, Always, PTL

\* Without two pages at the same time there is no more than one chain of
\* messages, requests and timeouts for each page that was opened.
THEOREM ChainsBoundHolds == Spec => []ChainsBound
<1>1. Inv => ChainsBound
  BY DEF Inv, PageInv, Counts, ChainsBound
<1> QED
  BY <1>1, Always, PTL

\* While no more than one page has been opened, no request of the log reader runs
\* beside another one, be it one the monitor has given up.
THEOREM OnePageIsSerialHolds == Spec => []OnePageIsSerial
<1>1. Init => Serial
  BY SerialInit
<1>2. Inv /\ Serial /\ [Next]_vars => Serial'
  BY SerialNext
<1>3. Serial => OnePageIsSerial
  BY DEF Serial, OnePageIsSerial
<1> QED
  BY <1>1, <1>2, <1>3, Always, PTL DEF Spec
=============================================================================
