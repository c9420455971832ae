------------------------------ MODULE Collector ------------------------------
(***************************************************************************)
(* The collection of samples: the table of monitored applications, the     *)
(* job that asks each of them and stores what they answer, the clearing of *)
(* the samples at midnight, and the page on which applications are added   *)
(* and deleted, which asks all of them too.                                *)
(*                                                                         *)
(* Source: MonitiorTask, ScheduleJob, ScheduleRunnable, HttpUtil.URLGet,   *)
(* ActuatorController (main, saveActuator, delete) and main.html.  The     *)
(* jobs pullGc, pullThread and pullClassload differ in the endpoint and    *)
(* the table only: the module has one of them.                             *)
(***************************************************************************)
EXTENDS Naturals, Sequences, FiniteSets

CONSTANTS
    App,            \* what operators enter: records of a name and a url
    Thread,         \* worker threads of the scheduler
    Operator,       \* browser windows with the main page
    Registered,     \* the applications in the table at the start
    MaxRows,        \* bound: rows of the table of applications
    MaxDays         \* bound: days; the monitor is installed on day 1

Name == {a.name : a \in App}
Url == {a.url : a \in App}

ASSUME AppAssumption ==
    /\ App \subseteq [name : Name, url : Url]
    /\ IsFiniteSet(Thread)
    /\ MaxRows \in Nat /\ MaxDays \in Nat \ {0}
    /\ Registered \in Seq(App) /\ Len(Registered) <= MaxRows

VARIABLES
    registry,       \* sys_actuator, in the order of the ids
    main,           \* the main page of each operator
    state,          \* of the application at each address
    up,             \* the monitor runs
    exec,           \* what each worker thread executes
    samples,        \* the days the rows of the table of samples are dated
    day,            \* today
    due,            \* calls of clearAll handed to the executor
    missed,         \* history: the process was down at the last midnight or has
                    \* been since, so that the clearing may have been lost
    late,           \* history: how many rows dated on an earlier day each thread
                    \* has stored since the last midnight
    unanswered      \* history: executions that have met an application that is down

data == <<samples, day, due>>
history == <<missed, late, unanswered>>
vars == <<registry, main, state, up, exec, data, history>>

\* An execution: its phase, the applications still to ask, the status to log, and
\* the date of the sample that is about to be inserted.
Execution(p, q, s, d) == [phase |-> p, rest |-> q, status |-> s, dated |-> d]
Idle == Execution("idle", << >>, 0, 0)
Failed == Execution("log", << >>, 1, 0)
Broken == [phase |-> "broken", names |-> {}]
Row(e) == Head(e.rest)
Listed(u) == \E i \in 1..Len(registry) : registry[i].url = u

TypeOK ==
    /\ registry \in Seq(App) /\ Len(registry) <= MaxRows
    /\ main \in [Operator -> [phase : {"shown", "broken"}, names : SUBSET Name]]
    /\ state \in [Url -> {"up", "error", "down"}]
    /\ up \in BOOLEAN
    /\ exec \in [Thread -> [phase : {"idle", "ask", "date", "insert", "log"}, rest : Seq(App),
                            status : {0, 1}, dated : 0..MaxDays]]
    /\ \A t \in Thread : /\ Len(exec[t].rest) <= MaxRows
                         /\ exec[t].phase \in {"date", "insert"} => exec[t].rest # << >>
    /\ samples \subseteq 0..MaxDays
    /\ day \in 0..MaxDays /\ due \subseteq {"timer", "job"}
    /\ missed \in BOOLEAN /\ late \in [Thread -> Nat] /\ unanswered \subseteq Thread

\* actuator.sql loaded, with or without its samples, which are of an earlier day.
Init ==
    /\ registry = Registered
    /\ main = [o \in Operator |-> Broken]
    /\ state \in [Url -> {"up", "error", "down"}]
    /\ up = TRUE
    /\ exec = [t \in Thread |-> Idle]
    /\ samples \in {{}, {0}} /\ day = 1 /\ due = {}
    /\ missed = TRUE /\ late = [t \in Thread |-> 0] /\ unanswered = {}

-----------------------------------------------------------------------------
(* The applications, and the process of the monitor.                       *)

\* An application starts, stops, or begins to answer an error.  An address that
\* answers after the timeout of HttpUtil is one that is down.
Turn(u) ==
    /\ \E s \in {"up", "error", "down"} \ {state[u]} : state' = [state EXCEPT ![u] = s]
    /\ UNCHANGED <<registry, main, up, exec, data, history>>

\* What runs is gone: no execution is logged, no clearing is made up for.
Crash ==
    /\ up
    /\ up' = FALSE
    /\ exec' = [t \in Thread |-> Idle]
    /\ unanswered' = {}
    /\ due' = {}
    /\ missed' = TRUE
    /\ UNCHANGED <<registry, main, state, samples, day, late>>

Restart ==
    /\ ~up
    /\ up' = TRUE
    /\ UNCHANGED <<registry, main, state, exec, data, history>>

-----------------------------------------------------------------------------
(* The job: executeInternal and the pull method.                           *)

\* Mutant: the list is kept from one execution to the next.
FireCached(t) ==
    /\ up /\ exec[t].phase = "idle"
    /\ exec' = [exec EXCEPT ![t] = Execution("ask", Registered, 0, 0)]
    /\ unanswered' = unanswered \ {t}
    /\ UNCHANGED <<registry, main, state, up, data, missed, late>>

\* The trigger fires and the list of applications is read.  Executions of one
\* job may overlap.
Fire(t) ==
    /\ up /\ exec[t].phase = "idle"
    /\ exec' = [exec EXCEPT ![t] = Execution("ask", registry, 0, 0)]
    /\ unanswered' = unanswered \ {t}
    /\ UNCHANGED <<registry, main, state, up, data, missed, late>>

\* Mutant: an application that is down is passed over.
AskSkips(t) ==
    LET e == exec[t] IN
    /\ e.phase = "ask" /\ e.rest # << >>
    /\ exec' = [exec EXCEPT ![t] =
           IF state[Row(e).url] = "up" THEN Execution("date", e.rest, 0, 0)
           ELSE Execution("ask", Tail(e.rest), 0, 0)]
    /\ unanswered' = IF state[Row(e).url] = "down" THEN unanswered \cup {t} ELSE unanswered
    /\ UNCHANGED <<registry, main, state, up, data, missed, late>>

\* Mutant: an answer that is an error leaves the loop too.
AskStrict(t) ==
    LET e == exec[t] IN
    /\ e.phase = "ask" /\ e.rest # << >>
    /\ exec' = [exec EXCEPT ![t] =
           IF state[Row(e).url] = "up" THEN Execution("date", e.rest, 0, 0)
           ELSE Failed]
    /\ unanswered' = IF state[Row(e).url] = "down" THEN unanswered \cup {t} ELSE unanswered
    /\ UNCHANGED <<registry, main, state, up, data, missed, late>>

\* URLGet and the test of the code.  Of an application that is down parseObject
\* makes null, and the NullPointerException leaves the loop over the others.
Ask(t) ==
    LET e == exec[t]
        s == state[Row(e).url]
    IN  /\ e.phase = "ask" /\ e.rest # << >>
        /\ \/ /\ s = "up"
              /\ exec' = [exec EXCEPT ![t] = Execution("date", e.rest, 0, 0)]
              /\ UNCHANGED unanswered
           \/ /\ s = "error"
              /\ exec' = [exec EXCEPT ![t] = Execution("ask", Tail(e.rest), 0, 0)]
              /\ UNCHANGED unanswered
           \/ /\ s = "down"
              /\ exec' = [exec EXCEPT ![t] = Failed]
              /\ unanswered' = unanswered \cup {t}
        /\ UNCHANGED <<registry, main, state, up, data, missed, late>>

\* save: the sample is dated, then inserted.
Date(t) ==
    /\ exec[t].phase = "date"
    /\ exec' = [exec EXCEPT ![t] = Execution("insert", exec[t].rest, 0, day)]
    /\ UNCHANGED <<registry, main, state, up, data, history>>

\* Mutant: the row of the next application gets the date of this one.
InsertKeepsDate(t) ==
    LET e == exec[t] IN
    /\ e.phase = "insert"
    /\ samples' = samples \cup {e.dated}
    /\ late' = [late EXCEPT ![t] = IF e.dated < day THEN @ + 1 ELSE @]
    /\ exec' = [exec EXCEPT ![t] =
           IF Len(e.rest) > 1 THEN Execution("insert", Tail(e.rest), 0, e.dated)
           ELSE Execution("ask", Tail(e.rest), 0, 0)]
    /\ UNCHANGED <<registry, main, state, up, day, due, missed, unanswered>>

Insert(t) ==
    LET e == exec[t] IN
    /\ e.phase = "insert"
    /\ samples' = samples \cup {e.dated}
    /\ late' = [late EXCEPT ![t] = IF e.dated < day THEN @ + 1 ELSE @]
    /\ exec' = [exec EXCEPT ![t] = Execution("ask", Tail(e.rest), 0, 0)]
    /\ UNCHANGED <<registry, main, state, up, day, due, missed, unanswered>>

\* Mutant: the next application is taken without a look at the end of the list.
InsertSkips(t) ==
    /\ exec[t].phase = "insert"
    /\ exec' = [exec EXCEPT ![t] = Execution("date", Tail(exec[t].rest), 0, 0)]
    /\ UNCHANGED <<registry, main, state, up, data, history>>

\* The database refuses the row: this exception leaves the loop too.
InsertFails(t) ==
    /\ exec[t].phase = "insert"
    /\ exec' = [exec EXCEPT ![t] = Failed]
    /\ UNCHANGED <<registry, main, state, up, data, history>>

Finish(t) ==
    /\ exec[t].phase = "ask" /\ exec[t].rest = << >>
    /\ exec' = [exec EXCEPT ![t] = Execution("log", << >>, 0, 0)]
    /\ UNCHANGED <<registry, main, state, up, data, history>>

\* scheduleJobLogService.save(log): status 0 is success, 1 is failure.
SaveLog(t) ==
    /\ exec[t].phase = "log"
    /\ exec' = [exec EXCEPT ![t] = Idle]
    /\ UNCHANGED <<registry, main, state, up, data, history>>

-----------------------------------------------------------------------------
(* Midnight: clearAll is called by a timer of Spring's and by the shipped  *)
(* job 7, which may be paused or misfire; each call hands the deletion to  *)
(* a thread of its own.                                                    *)

Midnight ==
    /\ day < MaxDays
    /\ day' = day + 1
    /\ \/ up /\ due' \in {{"timer"}, {"timer", "job"}}
       \/ ~up /\ UNCHANGED due
    /\ missed' = ~up /\ late' = [t \in Thread |-> 0]
    /\ UNCHANGED <<registry, main, state, up, exec, samples, unanswered>>

ClearAll(c) ==
    /\ c \in due
    /\ due' = due \ {c}
    /\ samples' = {}
    /\ UNCHANGED <<registry, main, state, up, exec, day, history>>

-----------------------------------------------------------------------------
(* The main page.                                                          *)

\* systemInfo of each application, all of them at one moment here.  One that is
\* down ends the request with a NullPointerException, one that answers an error
\* has no "server" for the template: either way the whole page is an error.
Page(list) ==
    IF \A i \in 1..Len(list) : state[list[i].url] = "up"
      THEN [phase |-> "shown", names |-> {list[i].name : i \in 1..Len(list)}]
      ELSE Broken

Open(o) ==
    /\ up
    /\ main' = [main EXCEPT ![o] = Page(registry)]
    /\ UNCHANGED <<registry, state, up, exec, data, history>>

\* saveActuator: the query for the url is overwritten with the name before it
\* is asked, so it looks for a row whose url is the new name.  Count and insert
\* are one step here.
Save(o, a) ==
    /\ up /\ main[o].phase = "shown"
    /\ ~Listed(a.name) /\ Len(registry) < MaxRows
    /\ registry' = Append(registry, a)
    /\ main' = [main EXCEPT ![o] = Page(registry')]
    /\ UNCHANGED <<state, up, exec, data, history>>

\* A list without the applications of one name.
Without(list, n) ==
    LET kept == {i \in 1..Len(list) : list[i].name # n}
        At(k) == CHOOSE i \in kept : Cardinality({j \in kept : j <= i}) = k
    IN  [k \in 1..Cardinality(kept) |-> list[At(k)]]

\* delete removes every row of the name, and the page is loaded again.
Delete(o, n) ==
    /\ up /\ main[o].phase = "shown" /\ n \in main[o].names
    /\ registry' = Without(registry, n)
    /\ main' = [main EXCEPT ![o] = Page(registry')]
    /\ UNCHANGED <<state, up, exec, data, history>>

-----------------------------------------------------------------------------
Execute(t) == Ask(t) \/ Date(t) \/ Finish(t) \/ SaveLog(t)

Next ==
    \/ Crash \/ Restart \/ Midnight \/ \E u \in Url : Turn(u)
    \/ \E t \in Thread : Fire(t) \/ Execute(t) \/ Insert(t) \/ InsertFails(t)
    \/ \E c \in {"timer", "job"} : ClearAll(c)
    \/ \E o \in Operator : \/ Open(o) \/ (\E a \in App : Save(o, a))
                           \/ (\E n \in Name : Delete(o, n))

Spec == Init /\ [][Next]_vars

\* The trigger fires every minute, threads run on, and the database does not
\* refuse the rows of an application for ever.
Samples(t, u) == Insert(t) /\ Row(exec[t]).url = u
FairSpec ==
    /\ Spec
    /\ \A t \in Thread :
          /\ WF_vars(Fire(t)) /\ WF_vars(Execute(t)) /\ WF_vars(Insert(t) \/ InsertFails(t))
          /\ \A u \in Url : SF_vars(Samples(t, u))

-----------------------------------------------------------------------------
(* Properties.                                                             *)

\* An execution that is logged as a success has had an answer from every
\* application of its list.
SuccessMeansAnswered ==
    \A t \in Thread : (exec[t].phase = "log" /\ exec[t].status = 0) => t \notin unanswered

\* A row is dated, then inserted, and midnight and the clearings may pass between
\* the two.  So rows of an earlier day may stay for the whole of the new one, but
\* they are few: each worker thread leaves one at most, however many applications
\* it asks, and no others are left once the timer of a midnight at which the
\* process was up has had its clearing done and the process has not been down since.
LeftOversAreFew ==
    /\ \A t \in Thread : late[t] <= 1
    /\ (~missed /\ "timer" \notin due)
           => (samples \subseteq {day} \/ \E t \in Thread : late[t] = 1)

\* An application that has been deleted is asked by no execution that starts
\* afterwards: the requests still to be made to it never become more.
ToAsk(u) == {x \in Thread \X (1..MaxRows) :
                x[2] <= Len(exec[x[1]].rest) /\ exec[x[1]].rest[x[2]].url = u}
DeletedIsForgotten ==
    [][\A u \in Url : (~Listed(u) /\ ~Listed(u)')
                         => Cardinality(ToAsk(u)') <= Cardinality(ToAsk(u))]_vars

\* An application that stays up and registered is sampled again and again, if
\* no application before it in the table goes down.
Reached(u) ==
    /\ up /\ state[u] = "up"
    /\ \E k \in 1..Len(registry) :
          registry[k].url = u /\ \A i \in 1..k : state[registry[i].url] # "down"
ReachedIsSampled ==
    \A u \in Url : <>[]Reached(u) => []<><<\E t \in Thread : Samples(t, u)>>_vars
=============================================================================
