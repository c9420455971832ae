--------------------------- MODULE Collector_proofs ---------------------------
(***************************************************************************)
(* Theorems of Collector, for every set of applications, worker threads    *)
(* and operators: the state is typed, a worker thread leaves one sample of *)
(* an earlier day in the table at most, an execution is logged as a        *)
(* success only if every application of its list has answered, and an      *)
(* application that was deleted is forgotten.                              *)
(***************************************************************************)
EXTENDS Collector, FiniteSetTheorems, TLAPS

Phases == {"idle", "ask", "date", "insert", "log"}
Execs == [phase : Phases, rest : Seq(App), status : {0, 1}, dated : 0..MaxDays]
Pages == [phase : {"shown", "broken"}, names : SUBSET Name]

\* What holds of the execution of thread t, given the threads in U have met an
\* application that did not answer: it is not dated in the future, a failure is
\* only left to be logged, a success has met nobody who did not answer.
Sound(t, e, U, today) ==
    /\ Len(e.rest) <= MaxRows
    /\ e.phase \in {"date", "insert"} => e.rest # << >>
    /\ e.dated <= today
    /\ e.status = 1 => e.phase = "log"
    /\ (e.phase # "idle" /\ e.status = 0) => t \notin U

\* A thread that has stored n rows of earlier days since midnight: one at most,
\* and while it still holds a row of an earlier day it has stored none, because the
\* next one is dated anew.
Few(e, n, today) ==
    /\ n <= 1
    /\ (e.phase = "insert" /\ e.dated < today) => n = 0

\* The inductive invariant: types, samples of no later day, sound executions with
\* few rows of earlier days.
IInv ==
    /\ TypeOK
    /\ LeftOversAreFew
    /\ \A t \in Thread : Sound(t, exec[t], unanswered, day)
    /\ \A t \in Thread : Few(exec[t], late[t], day)
    /\ \A s \in samples : s <= day

-----------------------------------------------------------------------------
(* Data.                                                                   *)

\* The list without its first element.
LEMMA TailType ==
    ASSUME NEW S, NEW q \in Seq(S), q # << >>
    PROVE  Tail(q) \in Seq(S) /\ Len(Tail(q)) = Len(q) - 1 /\ Len(q) \in Nat
  OBVIOUS

LEMMA Fields ==
    ASSUME NEW p \in Phases, NEW q \in Seq(App), NEW s \in {0, 1}, NEW d \in 0..MaxDays
    PROVE  /\ Execution(p, q, s, d) \in Execs
           /\ Execution(p, q, s, d).phase = p /\ Execution(p, q, s, d).rest = q
           /\ Execution(p, q, s, d).status = s /\ Execution(p, q, s, d).dated = d
  BY DEF Execution, Execs

\* What the executions with nothing to ask are made of.
LEMMA Nothing ==
    /\ << >> \in Seq(App) /\ Len(<< >>) = 0 /\ 0 \in 0..MaxDays /\ 0 <= MaxRows
    /\ Phases = {"idle", "ask", "date", "insert", "log"}
  BY AppAssumption DEF Phases

\* A thread without an execution.
LEMMA IdleType ==
    /\ Idle \in Execs /\ Idle.phase = "idle"
    /\ \A t, U, d : d \in Nat => Sound(t, Idle, U, d)
<1>1. /\ Idle \in Execs /\ Idle.phase = "idle" /\ Len(Idle.rest) = 0
      /\ Idle.status = 0 /\ Idle.dated = 0
  BY Nothing DEF Idle, Execution, Execs
<1> QED
  BY <1>1, Nothing DEF Sound

\* The page of an operator, after it has been loaded, is well formed.
LEMMA PageType == ASSUME NEW list \in Seq(App) PROVE Page(list) \in Pages
<1>1. \A i \in 1..Len(list) : list[i].name \in Name
  BY AppAssumption DEF Name
<1> QED
  BY <1>1 DEF Page, Broken, Pages

LEMMA Typed ==
    ASSUME IInv
    PROVE  /\ exec \in [Thread -> Execs] /\ unanswered \subseteq Thread
           /\ registry \in Seq(App) /\ Len(registry) <= MaxRows
           /\ samples \subseteq 0..MaxDays /\ day \in 0..MaxDays /\ 0 <= day
           /\ late \in [Thread -> Nat]
  BY DEF IInv, TypeOK, Execs, Phases

-----------------------------------------------------------------------------
(* The kinds of steps.                                                     *)

\* A step of thread t that puts no row into the table; a row it is about to insert
\* is dated today.
LEMMA ExecStep ==
    ASSUME IInv, NEW t \in Thread, NEW f \in Execs, f.phase = "insert" => f.dated = day,
           exec' = [exec EXCEPT ![t] = f], Sound(t, f, unanswered', day),
           unanswered' \subseteq unanswered \cup {t},
           UNCHANGED <<registry, main, state, up, data, missed, late>>
    PROVE  IInv'
<1>2. exec' \in [Thread -> Execs] /\ \A r \in Thread : exec'[r] = IF r = t THEN f ELSE exec[r]
  BY Typed
<1>3. unanswered' \subseteq Thread /\ day' = day /\ samples' = samples
  BY Typed DEF data
<1>4. ASSUME NEW r \in Thread PROVE Sound(r, exec'[r], unanswered', day')
  <2>1. CASE r = t
    BY <1>2, <1>3, <2>1
  <2>2. CASE r # t
    <3>1. exec'[r] = exec[r] /\ Sound(r, exec[r], unanswered, day)
          /\ (r \in unanswered' => r \in unanswered)
      BY <1>2, <2>2 DEF IInv
    <3> QED
      BY <1>3, <3>1 DEF Sound
  <2> QED
    BY <2>1, <2>2
<1>5. TypeOK'
  <2>1. \A r \in Thread : /\ Len(exec'[r].rest) <= MaxRows
                          /\ exec'[r].phase \in {"date", "insert"} => exec'[r].rest # << >>
    BY <1>4 DEF Sound
  <2> QED
    BY <1>2, <1>3, <2>1 DEF IInv, TypeOK, Execs, Phases, data
<1>6. LeftOversAreFew' /\ \A x \in samples' : x <= day'
  BY <1>3 DEF IInv, LeftOversAreFew, data
<1>7. ASSUME NEW r \in Thread PROVE Few(exec'[r], late'[r], day')
  <2>1. Few(exec[r], late[r], day) /\ late' = late
    BY DEF IInv
  <2>2. CASE r = t
    <3>1. exec'[r] = f /\ ~(f.phase = "insert" /\ f.dated < day)
      BY <1>2, <2>2, Typed
    <3> QED
      BY <1>3, <2>1, <3>1 DEF Few
  <2>3. CASE r # t
    BY <1>2, <1>3, <2>1, <2>3
  <2> QED
    BY <2>2, <2>3
<1> QED
  BY <1>4, <1>5, <1>6, <1>7 DEF IInv

\* A step that ends the execution of thread t with a failure.
LEMMA FailureStep ==
    ASSUME IInv, NEW t \in Thread,
           exec' = [exec EXCEPT ![t] = Failed],
           unanswered' \subseteq unanswered \cup {t},
           UNCHANGED <<registry, main, state, up, data, missed, late>>
    PROVE  IInv'
<1>1. /\ Failed \in Execs /\ Failed.phase = "log" /\ Len(Failed.rest) = 0
      /\ Failed.status = 1 /\ Failed.dated = 0
  BY Nothing DEF Failed, Execution, Execs
<1>2. Sound(t, Failed, unanswered', day)
  BY <1>1, Nothing, Typed DEF Sound
<1> QED
  BY <1>1, <1>2, ExecStep

\* A step of the pages, the applications or the process.
LEMMA PageStep ==
    ASSUME IInv, registry' \in Seq(App), Len(registry') <= MaxRows,
           main' \in [Operator -> Pages],
           state' \in [Url -> {"up", "error", "down"}], up' \in BOOLEAN,
           UNCHANGED <<exec, data, history>>
    PROVE  IInv'
<1>1. TypeOK'
  BY DEF IInv, TypeOK, Pages, data, history
<1>2. LeftOversAreFew'
  BY DEF IInv, LeftOversAreFew, data, history
<1> QED
  BY <1>1, <1>2 DEF IInv, data, history

\* A step of the calendar or of clearAll: rows only go, and the history of the
\* late rows is kept within a day and begun again with a new one.
LEMMA DayStep ==
    ASSUME IInv, samples' \subseteq samples, day' \in 0..MaxDays, day <= day',
           due' \subseteq {"timer", "job"}, missed' \in BOOLEAN,
           \/ UNCHANGED <<day, late>>
           \/ late' = [t \in Thread |-> 0],
           (~missed' /\ "timer" \notin due') => samples' = {},
           UNCHANGED <<registry, main, state, up, exec, unanswered>>
    PROVE  IInv'
<1>0. late' \in [Thread -> Nat] /\ \A t \in Thread : late'[t] = 0 \/ (day' = day /\ late'[t] = late[t])
  BY Typed
<1>1. TypeOK'
  BY <1>0 DEF IInv, TypeOK
<1>2. ASSUME NEW t \in Thread PROVE Sound(t, exec'[t], unanswered', day')
  <2>1. Sound(t, exec[t], unanswered, day) /\ exec[t].dated \in 0..MaxDays
    BY Typed DEF IInv, Execs
  <2>2. exec[t].dated <= day'
    BY <2>1, Typed DEF Sound
  <2> QED
    BY <2>1, <2>2 DEF Sound
<1>3. \A x \in samples' : x <= day'
  BY Typed DEF IInv
<1>4. ASSUME NEW t \in Thread PROVE Few(exec'[t], late'[t], day')
  BY <1>0 DEF Few, IInv
<1>5. LeftOversAreFew'
  <2>1. \A t \in Thread : late'[t] <= 1
    BY <1>4 DEF Few
  <2>2. CASE samples' = {}
    BY <2>1, <2>2 DEF LeftOversAreFew
  <2>3. CASE ~(~missed' /\ "timer" \notin due')
    BY <2>1, <2>3 DEF LeftOversAreFew
  <2> QED
    BY <2>2, <2>3
<1> QED
  BY <1>1, <1>2, <1>3, <1>4, <1>5 DEF IInv

-----------------------------------------------------------------------------
(* Each action.                                                            *)

LEMMA InitIInv == ASSUME Init PROVE IInv
<1>1. Idle \in Execs /\ \A t \in Thread : Sound(t, Idle, {}, 1)
  BY IdleType
<1>2. exec \in [Thread -> Execs] /\ \A t \in Thread : exec[t] = Idle
  BY <1>1 DEF Init
<1>3. main \in [Operator -> Pages]
  BY DEF Init, Broken, Pages
<1>4. \A t \in Thread : /\ Len(exec[t].rest) <= MaxRows
                        /\ exec[t].phase \in {"date", "insert"} => exec[t].rest # << >>
  BY <1>1, <1>2 DEF Sound
<1>5. registry \in Seq(App) /\ Len(registry) <= MaxRows /\ day \in 0..MaxDays
  BY AppAssumption DEF Init
<1>6. TypeOK
  BY <1>2, <1>3, <1>4, <1>5, Nothing DEF TypeOK, Execs, Phases, Pages, Init
<1>7. /\ samples = {} \/ samples = {0}
      /\ day = 1 /\ missed = TRUE
      /\ \A t \in Thread : late[t] = 0
  BY DEF Init
<1>8. \A s \in samples : s <= day
  <2>1. CASE samples = {}
    BY <2>1
  <2>2. CASE samples = {0}
    BY <1>7, <2>2
  <2> QED
    BY <1>7, <2>1, <2>2
<1>9. LeftOversAreFew /\ \A t \in Thread : Few(exec[t], late[t], day)
  BY <1>7 DEF LeftOversAreFew, Few
<1> QED
  BY <1>1, <1>2, <1>6, <1>7, <1>8, <1>9 DEF IInv, Init

LEMMA FireInv == ASSUME IInv, NEW t \in Thread, Fire(t) PROVE IInv'
<1> DEFINE f == Execution("ask", registry, 0, 0)
<1>1. /\ exec' = [exec EXCEPT ![t] = f] /\ unanswered' = unanswered \ {t}
      /\ UNCHANGED <<registry, main, state, up, data, missed, late>>
  BY DEF Fire
<1>2. f \in Execs /\ f.phase = "ask" /\ f.rest = registry /\ f.status = 0 /\ f.dated = 0
  BY Typed, Nothing, Fields
<1> HIDE DEF f
<1>3. Sound(t, f, unanswered', day)
  BY <1>1, <1>2, Typed DEF Sound
<1> QED
  BY <1>1, <1>2, <1>3, ExecStep

LEMMA AskInv == ASSUME IInv, NEW t \in Thread, Ask(t) PROVE IInv'
<1> DEFINE q == exec[t].rest
           r == Tail(q)
           f == Execution("date", q, 0, 0)
           g == Execution("ask", r, 0, 0)
<1>1. /\ exec[t] \in Execs /\ exec[t].phase = "ask" /\ Sound(t, exec[t], unanswered, day)
      /\ q # << >>
      /\ UNCHANGED <<registry, main, state, up, data, missed, late>>
  BY Typed DEF Ask, IInv
<1>2. q \in Seq(App) /\ exec[t].status \in {0, 1}
  BY <1>1 DEF Execs
<1>3. Len(q) <= MaxRows /\ t \notin unanswered /\ 0 <= day
  BY <1>1, <1>2, Typed DEF Sound
<1>4. r \in Seq(App) /\ Len(r) <= MaxRows
  BY <1>1, <1>2, <1>3, TailType, AppAssumption
<1>5. f \in Execs /\ f.phase = "date" /\ f.rest = q /\ f.status = 0 /\ f.dated = 0
  BY <1>2, Nothing, Fields
<1>7. \/ exec' = [exec EXCEPT ![t] = f] /\ UNCHANGED unanswered
      \/ exec' = [exec EXCEPT ![t] = g] /\ UNCHANGED unanswered
      \/ exec' = [exec EXCEPT ![t] = Failed] /\ unanswered' = unanswered \cup {t}
  BY DEF Ask
<1> HIDE DEF r
<1>6. g \in Execs /\ g.phase = "ask" /\ g.rest = r /\ g.status = 0 /\ g.dated = 0
  BY <1>4, Nothing, Fields
<1> HIDE DEF f, g
<1>8. Sound(t, f, unanswered, day) /\ Sound(t, g, unanswered, day)
  BY <1>1, <1>3, <1>4, <1>5, <1>6 DEF Sound
<1>9. CASE exec' = [exec EXCEPT ![t] = f] /\ UNCHANGED unanswered
  BY <1>1, <1>5, <1>8, <1>9, ExecStep
<1>10. CASE exec' = [exec EXCEPT ![t] = g] /\ UNCHANGED unanswered
  BY <1>1, <1>6, <1>8, <1>10, ExecStep
<1>11. CASE exec' = [exec EXCEPT ![t] = Failed] /\ unanswered' = unanswered \cup {t}
  BY <1>1, <1>11, FailureStep
<1> QED
  BY <1>7, <1>9, <1>10, <1>11

LEMMA DateInv == ASSUME IInv, NEW t \in Thread, Date(t) PROVE IInv'
<1> DEFINE q == exec[t].rest
           f == Execution("insert", q, 0, day)
<1>1. /\ exec[t] \in Execs /\ exec[t].phase = "date" /\ Sound(t, exec[t], unanswered, day)
      /\ UNCHANGED <<registry, main, state, up, data, history>>
  BY Typed DEF Date, IInv
<1>2. q \in Seq(App) /\ exec[t].status \in {0, 1}
  BY <1>1 DEF Execs
<1>3. Len(q) <= MaxRows /\ t \notin unanswered /\ q # << >> /\ day \in 0..MaxDays
  BY <1>1, <1>2, Typed DEF Sound
<1>4. f \in Execs /\ f.phase = "insert" /\ f.rest = q /\ f.status = 0 /\ f.dated = day
  BY <1>2, <1>3, Nothing, Fields
<1>5. exec' = [exec EXCEPT ![t] = f] /\ unanswered' = unanswered
  BY <1>1 DEF Date, history
<1> HIDE DEF f
<1>6. Sound(t, f, unanswered', day)
  BY <1>3, <1>4, <1>5 DEF Sound
<1> QED
  BY <1>1, <1>4, <1>5, <1>6, ExecStep DEF history

\* The row is not dated in the future; if it is dated in the past it is the first
\* that the thread stores since midnight.
LEMMA InsertInv == ASSUME IInv, NEW t \in Thread, Insert(t) PROVE IInv'
<1> DEFINE q == exec[t].rest
           r == Tail(q)
           g == Execution("ask", r, 0, 0)
           d == exec[t].dated
<1>1. /\ exec[t] \in Execs /\ exec[t].phase = "insert" /\ Sound(t, exec[t], unanswered, day)
      /\ samples' = samples \cup {d}
      /\ late' = [late EXCEPT ![t] = IF d < day THEN @ + 1 ELSE @]
      /\ exec' = [exec EXCEPT ![t] = g]
      /\ UNCHANGED <<registry, main, state, up, day, due, missed, unanswered>>
  BY Typed DEF Insert, IInv
<1>2. q \in Seq(App) /\ exec[t].status \in {0, 1} /\ d \in 0..MaxDays
  BY <1>1 DEF Execs
<1>3. Len(q) <= MaxRows /\ t \notin unanswered /\ q # << >> /\ d <= day /\ day \in Nat
  BY <1>1, <1>2, Typed DEF Sound
<1>4. r \in Seq(App) /\ Len(r) <= MaxRows
  BY <1>2, <1>3, TailType, AppAssumption
<1> HIDE DEF r
<1>5. g \in Execs /\ g.phase = "ask" /\ g.rest = r /\ g.status = 0 /\ g.dated = 0
  BY <1>4, Nothing, Fields
<1> HIDE DEF g, d
<1>6. exec' \in [Thread -> Execs] /\ \A x \in Thread : exec'[x] = IF x = t THEN g ELSE exec[x]
  BY <1>1, <1>5, Typed
<1>7. ASSUME NEW x \in Thread PROVE Sound(x, exec'[x], unanswered', day')
  <2>1. CASE x = t
    <3>1. exec'[x] = g /\ unanswered' = unanswered /\ day' = day
      BY <1>1, <1>6, <2>1
    <3> QED
      BY <1>3, <1>4, <1>5, <2>1, <3>1 DEF Sound
  <2>2. CASE x # t
    BY <1>1, <1>6, <2>2 DEF IInv
  <2> QED
    BY <2>1, <2>2
<1>8. \A x \in samples' : x <= day'
  BY <1>1, <1>3 DEF IInv
<1>11. /\ late \in [Thread -> Nat] /\ late' \in [Thread -> Nat]
       /\ \A x \in Thread : x # t => late'[x] = late[x]
       /\ late'[t] = IF d < day THEN late[t] + 1 ELSE late[t]
       /\ d < day => late[t] = 0
  <2>1. late \in [Thread -> Nat] /\ late[t] + 1 \in Nat
    BY Typed
  <2>2. late' \in [Thread -> Nat]
    BY <1>1, <2>1
  <2>3. d < day => late[t] = 0
    BY <1>1 DEF IInv, Few, d
  <2> QED
    BY <1>1, <2>1, <2>2, <2>3
<1>12. ASSUME NEW x \in Thread PROVE Few(exec'[x], late'[x], day')
  <2>1. Few(exec[x], late[x], day) /\ day' = day
    BY <1>1 DEF IInv
  <2>2. CASE x = t
    <3>1. exec'[x] = g /\ late'[x] <= 1
      BY <1>6, <1>11, <2>1, <2>2 DEF Few
    <3> QED
      BY <1>5, <3>1 DEF Few
  <2>3. CASE x # t
    BY <1>6, <1>11, <2>1, <2>3
  <2> QED
    BY <2>2, <2>3
<1>9. LeftOversAreFew'
  <2>1. \A x \in Thread : late'[x] <= 1
    BY <1>12 DEF Few
  <2>2. CASE d < day
    <3>1. late'[t] = 1
      BY <1>11, <2>2
    <3> QED
      BY <2>1, <3>1 DEF LeftOversAreFew
  <2>3. CASE ~(d < day)
    <3>1. d = day /\ \A x \in Thread : late'[x] = late[x]
      BY <1>2, <1>3, <1>11, <2>3
    <3>2. (~missed /\ "timer" \notin due) => (samples \subseteq {day} \/ \E x \in Thread : late[x] = 1)
      BY DEF IInv, LeftOversAreFew
    <3> QED
      BY <1>1, <2>1, <3>1, <3>2 DEF LeftOversAreFew
  <2> QED
    BY <2>2, <2>3
<1>10. TypeOK'
  <2>1. \A x \in Thread : /\ Len(exec'[x].rest) <= MaxRows
                          /\ exec'[x].phase \in {"date", "insert"} => exec'[x].rest # << >>
    BY <1>7 DEF Sound
  <2>2. samples' \subseteq 0..MaxDays 
    BY <1>1, <1>2, Typed
  <2> QED
    BY <1>1, <1>6, <1>11, <2>1, <2>2 DEF IInv, TypeOK, Execs, Phases
<1> QED
  BY <1>7, <1>8, <1>9, <1>10, <1>12 DEF IInv

LEMMA InsertFailsInv == ASSUME IInv, NEW t \in Thread, InsertFails(t) PROVE IInv'
  BY FailureStep DEF InsertFails, history

\* The list is done: whoever was asked has answered.
LEMMA FinishInv == ASSUME IInv, NEW t \in Thread, Finish(t) PROVE IInv'
<1> DEFINE f == Execution("log", << >>, 0, 0)
<1>1. /\ exec[t] \in Execs /\ exec[t].phase = "ask" /\ Sound(t, exec[t], unanswered, day)
      /\ exec' = [exec EXCEPT ![t] = f]
      /\ UNCHANGED <<registry, main, state, up, data, history>>
  BY Typed DEF Finish, IInv
<1>2. exec[t].status \in {0, 1}
  BY <1>1 DEF Execs
<1>3. t \notin unanswered /\ 0 <= day /\ unanswered' = unanswered
  BY <1>1, <1>2, Typed DEF Sound, history
<1>4. /\ f \in Execs /\ f.phase = "log" /\ Len(f.rest) = 0 /\ f.status = 0 /\ f.dated = 0
  BY Nothing DEF Execution, Execs
<1> HIDE DEF f
<1>5. Sound(t, f, unanswered', day)
  BY <1>3, <1>4, Nothing DEF Sound
<1> QED
  BY <1>1, <1>3, <1>4, <1>5, ExecStep DEF history

LEMMA SaveLogInv == ASSUME IInv, NEW t \in Thread, SaveLog(t) PROVE IInv'
<1>1. /\ exec' = [exec EXCEPT ![t] = Idle]
      /\ UNCHANGED <<registry, main, state, up, data, history>>
  BY DEF SaveLog
<1>2. unanswered' = unanswered /\ day \in Nat
  BY <1>1, Typed DEF history
<1>3. Idle \in Execs /\ Sound(t, Idle, unanswered', day) /\ Idle.phase # "insert"
  BY <1>2, IdleType
<1> QED
  BY <1>1, <1>2, <1>3, ExecStep DEF history

LEMMA CrashInv == ASSUME IInv, Crash PROVE IInv'
<1>1. exec' \in [Thread -> Execs] /\ day' \in Nat
      /\ \A t \in Thread : Sound(t, exec'[t], unanswered', day')
  BY Typed, IdleType DEF Crash
<1>2. \A t \in Thread : /\ Len(exec'[t].rest) <= MaxRows
                        /\ exec'[t].phase \in {"date", "insert"} => exec'[t].rest # << >>
  BY <1>1 DEF Sound
<1>3. TypeOK'
  BY <1>1, <1>2 DEF IInv, TypeOK, Crash, Execs, Phases
<1>4. LeftOversAreFew' /\ \A x \in samples' : x <= day'
  BY DEF IInv, LeftOversAreFew, Crash
<1>5. \A t \in Thread : exec'[t].phase = "idle" /\ late'[t] <= 1
  BY IdleType DEF Crash, IInv, Few
<1>6. \A t \in Thread : Few(exec'[t], late'[t], day')
  BY <1>5 DEF Few
<1> QED
  BY <1>1, <1>3, <1>4, <1>6 DEF IInv

\* A page is loaded of a list of applications that fits into the table.
LEMMA LoadInv ==
    ASSUME IInv, NEW o \in Operator, registry' \in Seq(App), Len(registry') <= MaxRows,
           main' = [main EXCEPT ![o] = Page(registry')],
           UNCHANGED <<state, up, exec, data, history>>
    PROVE  IInv'
<1>1. main \in [Operator -> Pages] /\ Page(registry') \in Pages
  BY PageType DEF IInv, TypeOK, Pages
<1>2. main' \in [Operator -> Pages]
  BY <1>1
<1>3. state' \in [Url -> {"up", "error", "down"}] /\ up' \in BOOLEAN
  BY DEF IInv, TypeOK
<1> QED
  BY <1>2, <1>3, PageStep

\* The list without the rows of one name is a list, and no longer: the rank of a
\* row that is kept tells its place, and every place is the rank of one.
LEMMA WithoutType ==
    ASSUME NEW q \in Seq(App), NEW n
    PROVE  Without(q, n) \in Seq(App) /\ Len(Without(q, n)) <= Len(q)
<1> DEFINE K == {i \in 1..Len(q) : q[i].name # n}
           Upto(i) == {j \in K : j <= i}
           c == Cardinality(K)
           At(k) == CHOOSE i \in K : Cardinality(Upto(i)) = k
<1>1. IsFiniteSet(K) /\ c \in Nat /\ c <= Len(q)
  <2>1. 1 \in Int /\ Len(q) \in Nat
    OBVIOUS
  <2> DEFINE L == Len(q)
  <2>2. K \in SUBSET (1..L)
    OBVIOUS
  <2> HIDE DEF K, L
  <2>3. IsFiniteSet(1..L) /\ Cardinality(1..L) = L
    BY <2>1, FS_Interval DEF L
  <2> QED
    BY <2>2, <2>3, FS_Subset, FS_CardinalityType DEF L
<1>2. ASSUME NEW i \in K
      PROVE  IsFiniteSet(Upto(i)) /\ Cardinality(Upto(i)) \in 1..c
  <2>1. Upto(i) \in SUBSET K /\ i \in Upto(i)
    BY DEF K
  <2>2. IsFiniteSet(Upto(i)) /\ Cardinality(Upto(i)) <= c /\ Cardinality(Upto(i)) \in Nat
    BY <1>1, <2>1, FS_Subset, FS_CardinalityType
  <2>3. Cardinality(Upto(i)) # 0
    BY <2>1, <2>2, FS_EmptySet
  <2> QED
    BY <1>1, <2>2, <2>3
<1>3. ASSUME NEW i \in K, NEW j \in K, i < j
      PROVE  Cardinality(Upto(i)) # Cardinality(Upto(j))
  <2>1. Upto(i) \in SUBSET Upto(j) /\ j \in Upto(j) /\ j \notin Upto(i)
    BY <1>3
  <2>2. IsFiniteSet(Upto(j))
    BY <1>2
  <2> HIDE DEF Upto
  <2>3. Upto(i) # Upto(j)
    BY <2>1
  <2> QED
    BY <2>1, <2>2, <2>3, FS_Subset
<1>4. ASSUME NEW k \in 1..c PROVE At(k) \in K
  <2> DEFINE f == [i \in K |-> Cardinality(Upto(i))]
  <2>1. f \in [K -> 1..c]
    BY <1>2
  <2>2. \A i, j \in K : f[i] = f[j] => i = j
    <3> SUFFICES ASSUME NEW i \in K, NEW j \in K, i # j PROVE f[i] # f[j]
      OBVIOUS
    <3>1. i \in Nat /\ j \in Nat
      OBVIOUS
    <3>2. i < j \/ j < i
      BY <3>1
    <3> QED
      BY <1>3, <3>2
  <2>3. IsFiniteSet(1..c) /\ Cardinality(1..c) = c
    BY <1>1, FS_Interval
  <2>4. f \in Injection(K, 1..c)
    BY <2>1, <2>2 DEF Injection, IsInjective
  <2>5. f \in Surjection(K, 1..c)
    BY <2>3, <2>4, FS_Injection
  <2>6. PICK i \in K : f[i] = k
    BY <2>5 DEF Surjection
  <2> QED
    BY <2>6
<1> HIDE DEF c, Upto, At
<1>5. Without(q, n) = [k \in 1..c |-> q[At(k)]]
  BY DEF Without, c, Upto, At
<1>6. \A k \in 1..c : q[At(k)] \in App
  BY <1>4
<1> QED
  BY <1>1, <1>5, <1>6

LEMMA OpenInv == ASSUME IInv, NEW o \in Operator, Open(o) PROVE IInv'
  BY Typed, LoadInv DEF Open

LEMMA SaveInv == ASSUME IInv, NEW o \in Operator, NEW a \in App, Save(o, a) PROVE IInv'
<1>1. registry' = Append(registry, a) /\ Len(registry) < MaxRows
  BY DEF Save
<1>2. registry' \in Seq(App) /\ Len(registry') <= MaxRows
  BY <1>1, Typed, AppAssumption
<1> QED
  BY <1>2, LoadInv DEF Save

LEMMA DeleteInv == ASSUME IInv, NEW o \in Operator, NEW n \in Name, Delete(o, n) PROVE IInv'
<1>1. registry' = Without(registry, n)
  BY DEF Delete
<1>2. registry' \in Seq(App) /\ Len(registry') <= MaxRows
  BY <1>1, Typed, WithoutType, AppAssumption
<1> QED
  BY <1>2, LoadInv DEF Delete

LEMMA TurnInv == ASSUME IInv, NEW u \in Url, Turn(u) PROVE IInv'
<1>1. state' \in [Url -> {"up", "error", "down"}] /\ up' \in BOOLEAN
  BY DEF Turn, IInv, TypeOK
<1>2. main' \in [Operator -> Pages] /\ registry' \in Seq(App) /\ Len(registry') <= MaxRows
  BY Typed DEF Turn, IInv, TypeOK, Pages
<1> QED
  BY <1>1, <1>2, PageStep DEF Turn

LEMMA RestartInv == ASSUME IInv, Restart PROVE IInv'
<1>1. state' \in [Url -> {"up", "error", "down"}] /\ up' \in BOOLEAN
  BY DEF Restart, IInv, TypeOK
<1>2. main' \in [Operator -> Pages] /\ registry' \in Seq(App) /\ Len(registry') <= MaxRows
  BY Typed DEF Restart, IInv, TypeOK, Pages
<1> QED
  BY <1>1, <1>2, PageStep DEF Restart

LEMMA MidnightInv == ASSUME IInv, Midnight PROVE IInv'
<1>1. day' \in 0..MaxDays /\ day <= day'
  BY Typed, AppAssumption DEF Midnight
<1>2. due' \subseteq {"timer", "job"} /\ missed' \in BOOLEAN
  BY DEF Midnight, IInv, TypeOK
<1>3. ~missed' => "timer" \in due'
  BY DEF Midnight
<1>4. /\ late' = [t \in Thread |-> 0] /\ samples' \subseteq samples
      /\ UNCHANGED <<registry, main, state, up, exec, unanswered>>
  BY DEF Midnight
<1> QED
  BY <1>1, <1>2, <1>3, <1>4, DayStep

LEMMA ClearAllInv == ASSUME IInv, NEW c \in {"timer", "job"}, ClearAll(c) PROVE IInv'
<1>1. day' \in 0..MaxDays /\ day <= day'
  BY Typed DEF ClearAll
<1>2. due' \subseteq {"timer", "job"} /\ missed' \in BOOLEAN
  BY DEF ClearAll, IInv, TypeOK, history
<1>3. /\ samples' = {} /\ UNCHANGED <<day, late>>
      /\ UNCHANGED <<registry, main, state, up, exec, unanswered>>
  BY DEF ClearAll, history
<1> QED
  BY <1>1, <1>2, <1>3, DayStep

LEMMA NextIInv == ASSUME IInv, [Next]_vars PROVE IInv'
<1>1. CASE \E t \in Thread : \/ Fire(t) \/ Ask(t) \/ Date(t) \/ Finish(t) \/ SaveLog(t)
                             \/ Insert(t) \/ InsertFails(t)
  BY <1>1, FireInv, AskInv, DateInv, FinishInv, SaveLogInv, InsertInv, InsertFailsInv
<1>2. CASE Crash \/ Restart \/ Midnight \/ \E u \in Url : Turn(u)
  BY <1>2, CrashInv, RestartInv, MidnightInv, TurnInv
<1>3. CASE \E c \in {"timer", "job"} : ClearAll(c)
  BY <1>3, ClearAllInv
<1>4. CASE \E o \in Operator : \/ Open(o) \/ (\E a \in App : Save(o, a))
                               \/ (\E n \in Name : Delete(o, n))
  BY <1>4, OpenInv, SaveInv, DeleteInv
<1>5. CASE UNCHANGED vars
  BY <1>5 DEF IInv, TypeOK, LeftOversAreFew, Sound, Few, vars, data, history
<1> QED
  BY <1>1, <1>2, <1>3, <1>4, <1>5 DEF Next, Execute

-----------------------------------------------------------------------------
(* Theorems.                                                               *)

\* In every state the program reaches the invariant holds.
THEOREM Invariance == Spec => []IInv
  BY InitIInv, NextIInv, PTL DEF Spec

\* Every state is typed: in particular no thread inserts a sample when no
\* application is left to take it from.
THEOREM Typing == Spec => []TypeOK
<1>1. IInv => TypeOK
  BY DEF IInv
<1> QED
  BY <1>1, Invariance, PTL

\* However many applications a thread asks and whatever passes between the dating of
\* a row and its insertion, it stores one row of an earlier day at most; and if no
\* thread has, a midnight with the process up leaves samples of the new day only.
THEOREM LeftOversAreFewHolds == Spec => []LeftOversAreFew
<1>1. IInv => LeftOversAreFew
  BY DEF IInv
<1> QED
  BY <1>1, Invariance, PTL

\* The log says success of those executions only that had an answer from every
\* application of their list, whatever was deleted, added, or failed meanwhile.
THEOREM SuccessMeansAnsweredHolds == Spec => []SuccessMeansAnswered
<1>1. IInv => SuccessMeansAnswered
  BY DEF IInv, Sound, SuccessMeansAnswered
<1> QED
  BY <1>1, Invariance, PTL
-----------------------------------------------------------------------------
(* What is deleted is forgotten.                                           *)

LEMMA ToAskFinite ==
    ASSUME NEW u
    PROVE  IsFiniteSet(ToAsk(u)) /\ Cardinality(ToAsk(u)) \in Nat
<1>1. 1 \in Int /\ MaxRows \in Nat
  BY AppAssumption
<1>2. IsFiniteSet(Thread \X (1..MaxRows))
  <2>1. IsFiniteSet(1..MaxRows)
    BY <1>1, FS_Interval
  <2>2. IsFiniteSet(Thread)
    BY AppAssumption
  <2> QED
    BY <2>1, <2>2, FS_Product
<1>3. ToAsk(u) \in SUBSET (Thread \X (1..MaxRows))
  BY DEF ToAsk
<1> QED
  BY <1>2, <1>3, FS_Subset, FS_CardinalityType

\* If each request that is still to be made to u was to be made before, d[t] places
\* further down the list of thread t, they have not become more.
LEMMA NotMore ==
    ASSUME NEW u, NEW d \in [Thread -> Nat],
           \A t \in Thread : \A k \in 1..MaxRows :
              k <= Len(exec'[t].rest) /\ exec'[t].rest[k].url = u => <<t, k + d[t]>> \in ToAsk(u)
    PROVE  Cardinality(ToAsk(u)') <= Cardinality(ToAsk(u))
<1> DEFINE A == ToAsk(u)'
           B == ToAsk(u)
           f == [x \in A |-> <<x[1], x[2] + d[x[1]]>>]
<1>1. ASSUME NEW x \in A
      PROVE  x[1] \in Thread /\ x[2] \in Nat /\ x = <<x[1], x[2]>> /\ d[x[1]] \in Nat /\ f[x] \in B
  <2>1. /\ x \in Thread \X (1..MaxRows)
        /\ x[2] <= Len(exec'[x[1]].rest) /\ exec'[x[1]].rest[x[2]].url = u
    BY DEF ToAsk
  <2>2. x[1] \in Thread /\ x[2] \in 1..MaxRows /\ x = <<x[1], x[2]>>
    BY <2>1
  <2> QED
    BY <2>1, <2>2, AppAssumption
<1>2. ASSUME NEW x \in A, NEW y \in A, f[x] = f[y] PROVE x = y
  <2>1. x[1] = y[1] /\ x[2] + d[x[1]] = y[2] + d[y[1]]
    BY <1>2
  <2>2. x[2] \in Nat /\ y[2] \in Nat /\ d[x[1]] \in Nat /\ d[y[1]] = d[x[1]]
    BY <1>1, <2>1
  <2>3. x[2] = y[2]
    BY <2>1, <2>2
  <2> QED
    BY <1>1, <2>1, <2>3
<1> HIDE DEF A, B
<1>3. f \in Injection(A, B)
  BY <1>1, <1>2 DEF Injection, IsInjective
<1>4. IsFiniteSet(B)
  BY ToAskFinite DEF B
<1>5. Cardinality(A) <= Cardinality(B)
  BY <1>3, <1>4, FS_Injection
<1> QED
  BY <1>5 DEF A, B

\* The list of each thread stays as it is, or is emptied.
LEMMA SameLists ==
    ASSUME IInv, NEW u,
           \A t \in Thread : exec'[t].rest = exec[t].rest \/ Len(exec'[t].rest) = 0
    PROVE  Cardinality(ToAsk(u)') <= Cardinality(ToAsk(u))
<1> DEFINE d == [t \in Thread |-> 0]
<1>1. d \in [Thread -> Nat]
  OBVIOUS
<1>2. ASSUME NEW t \in Thread, NEW k \in 1..MaxRows,
             k <= Len(exec'[t].rest), exec'[t].rest[k].url = u
      PROVE  <<t, k + d[t]>> \in ToAsk(u)
  <2>1. k + d[t] = k /\ k \in Nat /\ k >= 1
    BY AppAssumption
  <2>2. exec'[t].rest = exec[t].rest
    BY <1>2, <2>1
  <2> QED
    BY <1>2, <2>1, <2>2 DEF ToAsk
<1> HIDE DEF d
<1> QED
  BY <1>1, <1>2, NotMore

\* One thread goes on to the next application.
LEMMA NextInList ==
    ASSUME IInv, NEW u, NEW t \in Thread, NEW p \in Phases, NEW s \in {0, 1}, NEW c \in 0..MaxDays,
           exec[t].rest # << >>,
           exec' = [exec EXCEPT ![t] = Execution(p, Tail(exec[t].rest), s, c)]
    PROVE  Cardinality(ToAsk(u)') <= Cardinality(ToAsk(u))
<1> DEFINE d == [r \in Thread |-> IF r = t THEN 1 ELSE 0]
           q == exec[t].rest
<1>1. d \in [Thread -> Nat]
  OBVIOUS
<1>2. q \in Seq(App) /\ exec \in [Thread -> Execs] /\ Len(q) <= MaxRows
  BY Typed DEF Execs, IInv, Sound
<1>3. Len(Tail(q)) = Len(q) - 1 /\ Len(q) \in Nat /\ \A k \in 1..Len(Tail(q)) : Tail(q)[k] = q[k + 1]
  BY <1>2
<1>4. exec'[t].rest = Tail(q) /\ \A r \in Thread : r # t => exec'[r] = exec[r]
  BY <1>2 DEF Execution
<1>5. ASSUME NEW r \in Thread, NEW k \in 1..MaxRows,
             k <= Len(exec'[r].rest), exec'[r].rest[k].url = u
      PROVE  <<r, k + d[r]>> \in ToAsk(u)
  <2>0. k \in Nat /\ k >= 1 /\ MaxRows \in Nat
    BY AppAssumption
  <2>1. CASE r = t
    <3> DEFINE z == exec'[r].rest
    <3>3. z = Tail(q) /\ Len(z) \in Int
      BY <1>3, <1>4, <2>1
    <3>4. k \in 1..Len(z) /\ z[k].url = u
      <4>1. k <= Len(z) /\ z[k].url = u
        BY <1>5
      <4> HIDE DEF z
      <4> QED
        BY <2>0, <3>3, <4>1
    <3>1. k \in 1..Len(Tail(q)) /\ Tail(q)[k].url = u
      BY <3>3, <3>4, Zenon
    <3>2. k + 1 \in 1..MaxRows /\ k + 1 <= Len(q) /\ q[k + 1].url = u /\ d[r] = 1
      BY <1>2, <1>3, <2>0, <2>1, <3>1
    <3> QED
      BY <2>1, <3>2 DEF ToAsk
  <2>2. CASE r # t
    <3>1. d[r] = 0 /\ k + 0 = k /\ exec'[r] = exec[r]
      BY <1>4, <2>0, <2>2
    <3> QED
      BY <1>5, <3>1 DEF ToAsk
  <2> QED
    BY <2>1, <2>2
<1> HIDE DEF d
<1> QED
  BY <1>1, <1>5, NotMore

\* A new execution has the list of the registry, which does not have u.
LEMMA FireForgets ==
    ASSUME IInv, NEW u, ~Listed(u), NEW t \in Thread, Fire(t)
    PROVE  Cardinality(ToAsk(u)') <= Cardinality(ToAsk(u))
<1> DEFINE d == [r \in Thread |-> 0]
<1>1. d \in [Thread -> Nat]
  OBVIOUS
<1>2. exec \in [Thread -> Execs] /\ registry \in Seq(App)
  BY Typed
<1>3. exec'[t].rest = registry /\ \A r \in Thread : r # t => exec'[r] = exec[r]
  BY <1>2 DEF Fire, Execution
<1>4. ASSUME NEW r \in Thread, NEW k \in 1..MaxRows,
             k <= Len(exec'[r].rest), exec'[r].rest[k].url = u
      PROVE  <<r, k + d[r]>> \in ToAsk(u)
  <2>1. k \in Nat /\ k >= 1 /\ k + d[r] = k /\ Len(registry) \in Nat
    BY <1>2, AppAssumption
  <2>2. r # t
    BY <1>2, <1>3, <1>4, <2>1 DEF Listed
  <2> QED
    BY <1>3, <1>4, <2>1, <2>2 DEF ToAsk
<1> HIDE DEF d
<1> QED
  BY <1>1, <1>4, NotMore

LEMMA Forgets ==
    ASSUME IInv, [Next]_vars, NEW u, ~Listed(u)
    PROVE  Cardinality(ToAsk(u)') <= Cardinality(ToAsk(u))
<1>0. exec \in [Thread -> Execs]
  BY Typed
<1>1. ASSUME NEW t \in Thread, Fire(t) PROVE Cardinality(ToAsk(u)') <= Cardinality(ToAsk(u))
  BY <1>1, FireForgets
<1>2. ASSUME NEW t \in Thread, Ask(t) PROVE Cardinality(ToAsk(u)') <= Cardinality(ToAsk(u))
  <2>1. CASE exec' = [exec EXCEPT ![t] = Execution("date", exec[t].rest, 0, 0)]
    <3>1. \A r \in Thread : exec'[r].rest = exec[r].rest
      BY <1>0, <2>1 DEF Execution
    <3> QED
      BY <3>1, SameLists
  <2>2. CASE exec' = [exec EXCEPT ![t] = Execution("ask", Tail(exec[t].rest), 0, 0)]
    <3>1. exec[t].rest # << >>
      BY <1>2 DEF Ask
    <3> QED
      BY <2>2, <3>1, Nothing, NextInList
  <2>3. CASE exec' = [exec EXCEPT ![t] = Failed]
    <3>1. \A r \in Thread : exec'[r].rest = exec[r].rest \/ Len(exec'[r].rest) = 0
      BY <1>0, <2>3, Nothing DEF Failed, Execution
    <3> QED
      BY <3>1, SameLists
  <2> QED
    BY <1>2, <2>1, <2>2, <2>3 DEF Ask
<1>3. ASSUME NEW t \in Thread, Insert(t) PROVE Cardinality(ToAsk(u)') <= Cardinality(ToAsk(u))
  <2>1. exec[t].rest # << >> /\ exec' = [exec EXCEPT ![t] = Execution("ask", Tail(exec[t].rest), 0, 0)]
    BY <1>3 DEF Insert, IInv, TypeOK
  <2> QED
    BY <2>1, Nothing, NextInList
<1>4. ASSUME NEW t \in Thread, Date(t) \/ Finish(t) \/ SaveLog(t) \/ InsertFails(t)
      PROVE  Cardinality(ToAsk(u)') <= Cardinality(ToAsk(u))
  <2>1. \A r \in Thread : exec'[r].rest = exec[r].rest \/ Len(exec'[r].rest) = 0
    BY <1>0, <1>4, Nothing DEF Date, Finish, SaveLog, InsertFails, Idle, Failed, Execution
  <2> QED
    BY <2>1, SameLists
<1>5. ASSUME Crash PROVE Cardinality(ToAsk(u)') <= Cardinality(ToAsk(u))
  <2>1. \A r \in Thread : Len(exec'[r].rest) = 0
    BY <1>5, Nothing DEF Crash, Idle, Execution
  <2> QED
    BY <2>1, SameLists
<1>6. ASSUME UNCHANGED exec PROVE Cardinality(ToAsk(u)') <= Cardinality(ToAsk(u))
  BY <1>6, SameLists
<1>7. \/ \E t \in Thread : \/ Fire(t) \/ Ask(t) \/ Insert(t) \/ Date(t) \/ Finish(t)
                           \/ SaveLog(t) \/ InsertFails(t)
      \/ Crash
      \/ UNCHANGED exec
  BY DEF Next, Execute, Restart, Midnight, Turn, ClearAll, Open, Save, Delete, vars
<1> QED
  BY <1>1, <1>2, <1>3, <1>4, <1>5, <1>6, <1>7

\* The requests still to be made to an application that is not registered do not
\* become more, for any number of overlapping executions.
THEOREM DeletedIsForgottenHolds == Spec => DeletedIsForgotten
<1>1. IInv /\ [Next]_vars
        => [\A u \in Url : (~Listed(u) /\ ~Listed(u)')
               => Cardinality(ToAsk(u)') <= Cardinality(ToAsk(u))]_vars
  BY Forgets
<1> QED
  BY <1>1, Invariance, PTL DEF Spec, DeletedIsForgotten
=============================================================================
