----------------------------- MODULE JobSchedule -----------------------------
(***************************************************************************)
(* The job scheduling of boot-monitor: the table schedule_job, the         *)
(* clustered Quartz store beside it, the servers that synchronise the      *)
(* store with the table once, at start-up, and the requests of the         *)
(* schedule page, each of which touches one store after the other or only  *)
(* one of the two.                                                         *)
(*                                                                         *)
(* Source: com.pflm.modules.job (ScheduleJobController,                    *)
(* ScheduleJobServiceImpl, ScheduleUtils, ScheduleConfig) and              *)
(* templates/schedule/index.html.  A database call or a scheduler call is  *)
(* one transaction, hence one step.                                        *)
(***************************************************************************)
EXTENDS Naturals, FiniteSets

CONSTANTS
    Job,            \* values of schedule_job.job_id
    Shipped,        \* the jobs actuator.sql inserts
    Config,         \* bean, method, parameters and cron expression of a job
    ShippedConfig,  \* the configuration of the shipped jobs
    BadCron,        \* configurations whose cron expression does not parse
    Node,           \* monitor processes that share the database
    Thread,         \* Quartz worker threads of one process
    Client,         \* browser tabs on the schedule page
    NoJob           \* a worker thread that executes nothing

ASSUME JobAssumption == Job \subseteq Nat /\ Shipped \subseteq Job /\ NoJob \notin Job
ASSUME ConfigAssumption == BadCron \subseteq Config /\ ShippedConfig \in Config \ BadCron

VARIABLES
    status,     \* column status, or "free" (id never used) and "gone" (row deleted)
    config,     \* the other columns of the row
    trigger,    \* state of the Quartz trigger TASK_<id>
    snapshot,   \* the entity stored with the job under JOB_PARAM_KEY
    phase,      \* life cycle of each process
    todo,       \* rows selectList returned that init has still to handle
    at,         \* the next call of init for the first of them
    worker,     \* the job each worker thread executes
    req,        \* the request or open form of each browser tab
    torn        \* history: jobs on which requests overlapped, failed half-way
                \* or wrote a stale status since the last start-up

table == <<status, config>>
quartz == <<trigger, snapshot>>
server == <<phase, todo, at>>
vars == <<table, quartz, server, worker, req, torn>>

Present(j) == status[j] \in {"NULL", "NORMAL", "PAUSE"}
Row == [job : Job, status : {"NULL", "NORMAL", "PAUSE"}, config : Config]
RowOf(j) == [job |-> j, status |-> status[j], config |-> config[j]]

Idle == [op |-> "idle"]
Switch == [op : {"pause", "resume"}, job : Job, node : Node]
\* The form holds the whole row; whoever edits it may change all but the status.
Form == [op : {"form"}, job : Job, status : {"NULL", "NORMAL", "PAUSE"}]
RunNow == [op : {"run"}, job : Job, node : Node]

Serving(n) == phase[n] \in {"ready", "up"}
\* Request c is between its scheduler call and its database call, for job j.
HalfDone(c, j) == req[c] \in Switch /\ req[c].job = j

TypeOK ==
    /\ status \in [Job -> {"free", "gone", "NULL", "NORMAL", "PAUSE"}]
    /\ config \in [Job -> Config]
    /\ trigger \in [Job -> {"NONE", "WAITING", "PAUSED"}]
    /\ snapshot \in [Job -> Config]
    /\ phase \in [Node -> {"down", "init", "failed", "threw", "ready", "up"}]
    /\ todo \in [Node -> SUBSET Row]
    /\ at \in [Node -> {"lookup", "create", "update", "pause"}]
    /\ worker \in [Node -> [Thread -> Job \cup {NoJob}]]
    /\ req \in [Client -> {Idle} \cup Switch \cup Form \cup RunNow]
    /\ torn \subseteq Job

(***************************************************************************)
(* actuator.sql loaded, with or without its qrtz_triggers rows; no process *)
(* runs yet.                                                               *)
(***************************************************************************)
Init ==
    /\ status = [j \in Job |-> IF j \in Shipped THEN "NORMAL" ELSE "free"]
    /\ config = [j \in Job |-> ShippedConfig]
    /\ trigger \in [Job -> {"NONE", "WAITING"}]
    /\ \A j \in Job \ Shipped : trigger[j] = "NONE"
    /\ snapshot = [j \in Job |-> ShippedConfig]
    /\ phase = [n \in Node |-> "down"]
    /\ todo = [n \in Node |-> {}]
    /\ at = [n \in Node |-> "lookup"]
    /\ worker = [n \in Node |-> [t \in Thread |-> NoJob]]
    /\ req = [c \in Client |-> Idle]
    /\ torn = {}

-----------------------------------------------------------------------------
(* Quartz: pauseJob and resumeJob of a job that has no trigger do nothing. *)

SchedulerPause(j) ==
    trigger' = [trigger EXCEPT ![j] = IF @ = "WAITING" THEN "PAUSED" ELSE @]

\* Mutant: resume does nothing.
ResumeForgotten(j) == j \in Job /\ UNCHANGED trigger

SchedulerResume(j) ==
    trigger' = [trigger EXCEPT ![j] = IF @ = "PAUSED" THEN "WAITING" ELSE @]

\* scheduleJob and rescheduleJob store the trigger in state WAITING, whatever
\* the state of a trigger it replaces.
SchedulerStore(e) ==
    /\ trigger' = [trigger EXCEPT ![e.job] = "WAITING"]
    /\ snapshot' = [snapshot EXCEPT ![e.job] = e.config]

-----------------------------------------------------------------------------
(* Start-up: init, the @PostConstruct of ScheduleJobServiceImpl.           *)

\* Mutant: deleted rows are selected too.
StartWithAll(n) ==
    /\ phase[n] \in {"down", "failed", "threw"}
    /\ phase' = [phase EXCEPT ![n] = "init"]
    /\ todo' = [todo EXCEPT ![n] = {RowOf(j) : j \in {i \in Job : status[i] # "free"}}]
    /\ at' = [at EXCEPT ![n] = "lookup"]
    /\ UNCHANGED <<table, quartz, worker, req, torn>>

\* selectList: the rows as they are now.
Start(n) ==
    /\ phase[n] \in {"down", "failed", "threw"}
    /\ phase' = [phase EXCEPT ![n] = "init"]
    /\ todo' = [todo EXCEPT ![n] = {RowOf(j) : j \in {i \in Job : Present(i)}}]
    /\ at' = [at EXCEPT ![n] = "lookup"]
    /\ UNCHANGED <<table, quartz, worker, req, torn>>

\* e is the row init is handling: the rows come in the order of their ids.
First(n, e) ==
    /\ phase[n] = "init"
    /\ e \in todo[n]
    /\ \A f \in todo[n] : e.job <= f.job

\* An exception leaves init and the application context is closed: "failed" if
\* init could not handle the row, "threw" if the stores could not answer.
StartupEnds(n, how) ==
    /\ phase' = [phase EXCEPT ![n] = how]
    /\ todo' = [todo EXCEPT ![n] = {}]
    /\ at' = [at EXCEPT ![n] = "lookup"]

\* Any call of init may fail: selectList, and every call of the scheduler, whose
\* SchedulerException (dirty qrtz rows, no database) becomes a MyException.
InitThrows(n) ==
    /\ phase[n] = "init"
    /\ StartupEnds(n, "threw")
    /\ UNCHANGED <<table, quartz, worker, req, torn>>

GetCronTrigger(n, e) ==
    /\ First(n, e) /\ at[n] = "lookup"
    /\ at' = [at EXCEPT ![n] = IF trigger[e.job] = "NONE" THEN "create" ELSE "update"]
    /\ UNCHANGED <<table, quartz, phase, todo, worker, req, torn>>

\* cronSchedule throws for a bad expression, scheduleJob when another process
\* has stored the job in the meantime (a SchedulerException too).
CreateScheduleJob(n, e) ==
    /\ First(n, e) /\ at[n] = "create"
    /\ \/ /\ e.config \in BadCron
          /\ StartupEnds(n, "failed")
          /\ UNCHANGED quartz
       \/ /\ e.config \notin BadCron /\ trigger[e.job] # "NONE"
          /\ StartupEnds(n, "threw")
          /\ UNCHANGED quartz
       \/ /\ e.config \notin BadCron /\ trigger[e.job] = "NONE"
          /\ SchedulerStore(e)
          /\ at' = [at EXCEPT ![n] = "pause"]
          /\ UNCHANGED <<phase, todo>>
    /\ UNCHANGED <<table, worker, req, torn>>

UpdateScheduleJob(n, e) ==
    /\ First(n, e) /\ at[n] = "update"
    /\ \/ /\ e.config \in BadCron
          /\ StartupEnds(n, "failed")
          /\ UNCHANGED quartz
       \/ /\ e.config \notin BadCron
          /\ SchedulerStore(e)
          /\ at' = [at EXCEPT ![n] = "pause"]
          /\ UNCHANGED <<phase, todo>>
    /\ UNCHANGED <<table, worker, req, torn>>

\* Mutants: the trigger of a paused job is not paused again; a null status is
\* compared without unboxing it.
PauseForgotten(n, e) ==
    /\ First(n, e) /\ at[n] = "pause"
    /\ IF e.status = "NULL"
         THEN StartupEnds(n, "failed") /\ UNCHANGED torn
         ELSE /\ todo' = [todo EXCEPT ![n] = @ \ {e}]
              /\ at' = [at EXCEPT ![n] = "lookup"]
              /\ torn' = torn \ {e.job}
              /\ UNCHANGED phase
    /\ UNCHANGED <<table, quartz, worker, req>>
PauseNullSafe(n, e) ==
    /\ First(n, e) /\ at[n] = "pause"
    /\ IF e.status = "PAUSE" THEN SchedulerPause(e.job) ELSE UNCHANGED trigger
    /\ todo' = [todo EXCEPT ![n] = @ \ {e}]
    /\ at' = [at EXCEPT ![n] = "lookup"]
    /\ torn' = torn \ {e.job}
    /\ UNCHANGED <<table, snapshot, phase, worker, req>>

\* getStatus() == PAUSE.getValue() unboxes the status of the row: a null one
\* throws, after the trigger has been stored.
PauseIfPaused(n, e) ==
    /\ First(n, e) /\ at[n] = "pause"
    /\ \/ /\ e.status = "NULL"
          /\ StartupEnds(n, "failed")
          /\ UNCHANGED <<trigger, torn>>
       \/ /\ e.status # "NULL"
          /\ IF e.status = "PAUSE" THEN SchedulerPause(e.job) ELSE UNCHANGED trigger
          /\ todo' = [todo EXCEPT ![n] = @ \ {e}]
          /\ at' = [at EXCEPT ![n] = "lookup"]
          /\ torn' = torn \ {e.job}
          /\ UNCHANGED phase
    /\ UNCHANGED <<table, snapshot, worker, req>>

\* Mutant: requests are served while init still runs.
ReadyEarly(n) ==
    /\ phase[n] = "init"
    /\ phase' = [phase EXCEPT ![n] = "ready"]
    /\ UNCHANGED <<table, quartz, todo, at, worker, req, torn>>

\* The context is up and serves requests.
Ready(n) ==
    /\ phase[n] = "init" /\ todo[n] = {}
    /\ phase' = [phase EXCEPT ![n] = "ready"]
    /\ UNCHANGED <<table, quartz, todo, at, worker, req, torn>>

\* setStartupDelay(30): the scheduler of the process starts to fire later.
StartScheduler(n) ==
    /\ phase[n] = "ready"
    /\ phase' = [phase EXCEPT ![n] = "up"]
    /\ UNCHANGED <<table, quartz, todo, at, worker, req, torn>>

\* The process stops, in any phase; its requests and executions are lost.
Crash(n) ==
    /\ phase[n] \in {"init", "ready", "up"}
    /\ phase' = [phase EXCEPT ![n] = "down"]
    /\ todo' = [todo EXCEPT ![n] = {}]
    /\ at' = [at EXCEPT ![n] = "lookup"]
    /\ worker' = [worker EXCEPT ![n] = [t \in Thread |-> NoJob]]
    /\ req' = [c \in Client |->
                 IF req[c] \in Switch \cup RunNow /\ req[c].node = n THEN Idle ELSE req[c]]
    /\ UNCHANGED <<table, quartz, torn>>

-----------------------------------------------------------------------------
(* The worker threads.                                                     *)

\* Mutant: the scheduler fires from the start, no startupDelay.
FireAtOnce(n, t, j) ==
    /\ phase[n] \in {"init", "ready", "up"}
    /\ worker[n][t] = NoJob
    /\ trigger[j] = "WAITING"
    /\ worker' = [worker EXCEPT ![n][t] = j]
    /\ UNCHANGED <<table, quartz, server, req, torn>>

\* A waiting trigger fires at its next time if a worker thread is free then.  A
\* time that passes by more than misfireThreshold is skipped (misfire handling
\* DO_NOTHING): the trigger goes on waiting for its next time, so that skipping
\* is no step here.  How late a time is, is not modelled.
Fire(n, t, j) ==
    /\ phase[n] = "up"
    /\ worker[n][t] = NoJob
    /\ trigger[j] = "WAITING"
    /\ worker' = [worker EXCEPT ![n][t] = j]
    /\ UNCHANGED <<table, quartz, server, req, torn>>

ExecutionEnds(n, t) ==
    /\ worker[n][t] # NoJob
    /\ worker' = [worker EXCEPT ![n][t] = NoJob]
    /\ UNCHANGED <<table, quartz, server, req, torn>>

-----------------------------------------------------------------------------
(* The requests of the schedule page.  The list in the browser may be old: *)
(* a request may name any id that was ever used.                           *)

Listed(j) == status[j] # "free"

\* pause and resume, first call: the scheduler.
SwitchScheduler(c, n, j, op) ==
    /\ req[c] = Idle /\ Serving(n) /\ Listed(j)
    /\ IF op = "pause" THEN SchedulerPause(j) ELSE SchedulerResume(j)
    /\ req' = [req EXCEPT ![c] = [op |-> op, job |-> j, node |-> n]]
    /\ torn' = IF \E d \in Client : HalfDone(d, j) THEN torn \cup {j} ELSE torn
    /\ UNCHANGED <<table, snapshot, server, worker>>

\* pause and resume, second call: updateStatus.
UpdateStatus(c) ==
    /\ req[c] \in Switch
    /\ LET j == req[c].job
           s == IF req[c].op = "pause" THEN "PAUSE" ELSE "NORMAL"
       IN  status' = [status EXCEPT ![j] = IF Present(j) THEN s ELSE @]
    /\ req' = [req EXCEPT ![c] = Idle]
    /\ UNCHANGED <<config, quartz, server, worker, torn>>

\* The second call throws: the first one is not undone.
UpdateStatusFails(c) ==
    /\ req[c] \in Switch
    /\ torn' = torn \cup {req[c].job}
    /\ req' = [req EXCEPT ![c] = Idle]
    /\ UNCHANGED <<table, quartz, server, worker>>

\* /schedule/info fills the form of the page with the row, its status included.
Info(c, j) ==
    /\ req[c] = Idle /\ Present(j)
    /\ \E n \in Node : Serving(n)
    /\ req' = [req EXCEPT ![c] = [op |-> "form", job |-> j, status |-> status[j]]]
    /\ UNCHANGED <<table, quartz, server, worker, torn>>

\* /schedule/update: updateById writes every column that is not null.
Update(c, g) ==
    /\ req[c] \in Form
    /\ \E n \in Node : Serving(n)
    /\ LET j == req[c].job
           s == req[c].status
       IN  IF Present(j)
             THEN /\ status' = [status EXCEPT ![j] = IF s = "NULL" THEN @ ELSE s]
                  /\ config' = [config EXCEPT ![j] = g]
                  /\ torn' = IF s \in {"NULL", status[j]} THEN torn ELSE torn \cup {j}
             ELSE UNCHANGED <<table, torn>>
    /\ req' = [req EXCEPT ![c] = Idle]
    /\ UNCHANGED <<quartz, server, worker>>

CloseForm(c) ==
    /\ req[c] \in Form
    /\ req' = [req EXCEPT ![c] = Idle]
    /\ UNCHANGED <<table, quartz, server, worker, torn>>

\* /schedule/save: the form of a new job has no status; ids are AUTO_INCREMENT.
Save(c, j, g) ==
    /\ req[c] = Idle
    /\ \E n \in Node : Serving(n)
    /\ status[j] = "free" /\ \A i \in Job : status[i] = "free" => j <= i
    /\ status' = [status EXCEPT ![j] = "NULL"]
    /\ config' = [config EXCEPT ![j] = g]
    /\ UNCHANGED <<quartz, server, worker, req, torn>>

\* /schedule/delete: removeById, and no call of the scheduler.
Delete(c, j) ==
    /\ req[c] = Idle /\ Present(j)
    /\ \E n \in Node : Serving(n)
    /\ status' = [status EXCEPT ![j] = "gone"]
    /\ UNCHANGED <<config, quartz, server, worker, req, torn>>

\* /schedule/run: sent by the page, answered "ok" by a handler that does
\* nothing else.
SendRun(c, n, j) ==
    /\ req[c] = Idle /\ Serving(n) /\ Listed(j)
    /\ req' = [req EXCEPT ![c] = [op |-> "run", job |-> j, node |-> n]]
    /\ UNCHANGED <<table, quartz, server, worker, torn>>

Run(c) ==
    /\ req[c] \in RunNow
    /\ req' = [req EXCEPT ![c] = Idle]
    /\ UNCHANGED <<table, quartz, server, worker, torn>>

-----------------------------------------------------------------------------
Startup(n) ==
    \/ \E e \in todo[n] : \/ GetCronTrigger(n, e)
                          \/ CreateScheduleJob(n, e)
                          \/ UpdateScheduleJob(n, e)
                          \/ PauseIfPaused(n, e)
    \/ Ready(n)
    \/ StartScheduler(n)

Execution(n) == \E t \in Thread : \/ \E j \in Job : Fire(n, t, j)
                                  \/ ExecutionEnds(n, t)

Request(c) ==
    \/ \E j \in Job, n \in Node : \/ \E op \in {"pause", "resume"} : SwitchScheduler(c, n, j, op)
                                  \/ SendRun(c, n, j)
    \/ UpdateStatus(c) \/ UpdateStatusFails(c) \/ CloseForm(c) \/ Run(c)
    \/ \E j \in Job : Info(c, j) \/ Delete(c, j)
    \/ \E g \in Config : Update(c, g) \/ \E j \in Job : Save(c, j, g)

Next ==
    \/ \E n \in Node : Start(n) \/ Startup(n) \/ InitThrows(n) \/ Crash(n) \/ Execution(n)
    \/ \E c \in Client : Request(c)

Spec == Init /\ [][Next]_vars

\* What runs by itself goes on: init, the delayed start of the scheduler, a
\* handler, an execution.  A trigger fires when it keeps waiting beside a free
\* worker thread; one that finds a free thread only now and then may be skipped
\* each time it is due, so that nothing stronger is assumed of Fire.
Fairness ==
    /\ \A n \in Node : WF_vars(Startup(n))
    /\ \A n \in Node, t \in Thread : WF_vars(ExecutionEnds(n, t))
    /\ \A j \in Job : WF_vars(\E n \in Node, t \in Thread : Fire(n, t, j))
    /\ \A c \in Client : WF_vars(UpdateStatus(c)) /\ WF_vars(Run(c))

FairSpec == Spec /\ Fairness

-----------------------------------------------------------------------------
(* Properties of a deployment with one process.                            *)

\* A row that keeps every start-up from completing.
Poisoned(j) == status[j] = "NULL" \/ (Present(j) /\ config[j] \in BadCron)

\* While the process serves, the status column of a job and its trigger say
\* the same, except in the middle of a pause or resume of that job, and after
\* requests on the job overlapped, failed half-way or wrote a stale status.
\* In particular a crash at any point, the middle of a request or of the
\* start-up included, leaves no lasting difference: the next init removes it.
Agreement ==
    \A j \in Job :
        (j \notin torn /\ (\E n \in Node : Serving(n)) /\ \A c \in Client : ~HalfDone(c, j))
            => /\ status[j] = "PAUSE" => trigger[j] # "WAITING"
               /\ status[j] = "NORMAL" => trigger[j] # "PAUSED"

\* A job that was added on the page and never paused or resumed is not in the
\* scheduler while a process serves.
NewJobUnscheduled ==
    \A j \in Job : (status[j] = "NULL" /\ \E n \in Node : Serving(n)) => trigger[j] = "NONE"

\* A start-up that fails although scheduler and database answered leaves in the
\* table the row it failed for: no crash, and no request another process life
\* served, makes init stumble over rows that are well.
FailureHasCause == (\E n \in Node : phase[n] = "failed") => \E j \in Job : Poisoned(j)

\* Nothing the application does gets it over such a row: the process that
\* finds one when it starts never serves again.
PoisonIsLasting ==
    [][((\E j \in Job : Poisoned(j)) /\ \A n \in Node : ~Serving(n))
          => \A n \in Node : ~Serving(n)']_vars

\* A job that is paused, on a row no request is busy with or has torn, does
\* not start to execute.  (The start-up makes the trigger of a paused job
\* WAITING for a moment: the process fires nothing yet.)
Executes(j) == \E n \in Node, t \in Thread : worker[n][t] = NoJob /\ worker'[n][t] = j
PausedNeverFires ==
    [][\A j \in Job :
         (status[j] = "PAUSE" /\ j \notin torn /\ \A c \in Client : ~HalfDone(c, j))
            => ~Executes(j)]_vars

\* With any number of processes: while one of them serves, every shipped job
\* has its trigger, whichever of them created it and whatever crashed.
ShippedScheduled ==
    (\E n \in Node : Serving(n)) => \A j \in Shipped : trigger[j] # "NONE"

\* A job that stays NORMAL, scheduled and untorn in a process that stays up, and
\* for which that process keeps a worker thread, is executed again and again: no
\* start-up and no request, on this job or another, left its trigger paused.
KeepsThread(n, j) == Serving(n) /\ \E t \in Thread : worker[n][t] \in {NoJob, j}
RunsAgain(n, j) ==
    <>[](/\ status[j] = "NORMAL" /\ trigger[j] # "NONE" /\ j \notin torn
         /\ KeepsThread(n, j) /\ ~\E m \in Node : phase[m] = "init")
        => []<>(\E m \in Node, t \in Thread : worker[m][t] = j)
NormalJobRuns == \A n \in Node, j \in Job : RunsAgain(n, j)
=============================================================================
