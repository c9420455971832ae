-------------------------- MODULE JobSchedule_proofs --------------------------
(***************************************************************************)
(* Proofs about JobSchedule, for every set of jobs, configurations,        *)
(* processes, threads and clients.                                         *)
(***************************************************************************)
EXTENDS JobSchedule, TLAPS

\* The start-up ends with an exception, of either kind.
EndsBadly(n) == StartupEnds(n, "failed") \/ StartupEnds(n, "threw")

\* Every state has the types of the model: selectList, the forms and the
\* requests carry ids and rows of the table only.
THEOREM Typing == Spec => []TypeOK
<1>1. Init => TypeOK
  BY JobAssumption, ConfigAssumption DEF Init, TypeOK, Idle
<1>2. TypeOK /\ [Next]_vars => TypeOK'
  <2> SUFFICES ASSUME TypeOK, [Next]_vars PROVE TypeOK'
    OBVIOUS
  <2> USE DEF table, quartz, server
  <2>0. \A n \in Node : \A e \in todo[n] : e.job \in Job /\ e.config \in Config
    BY DEF TypeOK, Row
  <2>1. ASSUME NEW n \in Node, Start(n) PROVE TypeOK'
    <3>1. {RowOf(j) : j \in {i \in Job : Present(i)}} \in SUBSET Row
      BY DEF TypeOK, RowOf, Row, Present
    <3>2. QED
      BY <2>1, <3>1 DEF Start, TypeOK
  <2>2. ASSUME NEW n \in Node, NEW e \in todo[n], GetCronTrigger(n, e) PROVE TypeOK'
    BY <2>2 DEF GetCronTrigger, TypeOK
  <2>3. ASSUME NEW n \in Node, NEW e \in todo[n],
               CreateScheduleJob(n, e) \/ UpdateScheduleJob(n, e)
        PROVE TypeOK'
    <3>1. CASE EndsBadly(n) /\ UNCHANGED <<table, quartz, worker, req, torn>>
      BY <3>1 DEF EndsBadly, StartupEnds, TypeOK
    <3>2. CASE /\ SchedulerStore(e)
               /\ at' = [at EXCEPT ![n] = "pause"]
               /\ UNCHANGED <<phase, todo, table, worker, req, torn>>
      BY <2>0, <3>2 DEF SchedulerStore, TypeOK
    <3>3. QED
      BY <2>3, <3>1, <3>2, Zenon DEF CreateScheduleJob, UpdateScheduleJob, EndsBadly
  <2>4. ASSUME NEW n \in Node, NEW e \in todo[n], PauseIfPaused(n, e) PROVE TypeOK'
    <3>1. CASE EndsBadly(n) /\ UNCHANGED <<table, quartz, worker, req, torn>>
      BY <3>1 DEF EndsBadly, StartupEnds, TypeOK
    <3>2. CASE e.status # "NULL"
      <4>1. trigger' \in [Job -> {"NONE", "WAITING", "PAUSED"}]
        BY <2>0, <2>4, <3>2 DEF PauseIfPaused, SchedulerPause, TypeOK
      <4>2. QED
        BY <2>4, <3>2, <4>1 DEF PauseIfPaused, TypeOK
    <3>3. QED
      BY <2>4, <3>1, <3>2 DEF PauseIfPaused, EndsBadly
  <2>5. ASSUME NEW n \in Node, Ready(n) \/ StartScheduler(n) \/ InitThrows(n) PROVE TypeOK'
    BY <2>5 DEF Ready, StartScheduler, InitThrows, StartupEnds, TypeOK
  <2>6. ASSUME NEW n \in Node, Crash(n) PROVE TypeOK'
    <3>1. req' \in [Client -> {Idle} \cup Switch \cup Form \cup RunNow]
      BY <2>6 DEF Crash, TypeOK
    <3>2. QED
      BY <2>6, <3>1 DEF Crash, TypeOK
  <2>7. ASSUME NEW n \in Node, Execution(n) PROVE TypeOK'
    <3>1. PICK t \in Thread, k \in Job \cup {NoJob} :
            /\ worker' = [worker EXCEPT ![n][t] = k]
            /\ UNCHANGED <<table, quartz, server, req, torn>>
      BY <2>7, Zenon DEF Execution, Fire, ExecutionEnds
    <3>2. worker' \in [Node -> [Thread -> Job \cup {NoJob}]]
      BY <3>1 DEF TypeOK
    <3>3. QED
      BY <3>1, <3>2 DEF TypeOK
  <2>8. ASSUME NEW c \in Client, NEW n \in Node, NEW j \in Job, NEW op \in {"pause", "resume"},
               SwitchScheduler(c, n, j, op)
        PROVE TypeOK'
    <3>1. trigger' \in [Job -> {"NONE", "WAITING", "PAUSED"}]
      BY <2>8 DEF SwitchScheduler, SchedulerPause, SchedulerResume, TypeOK
    <3>2. [op |-> op, job |-> j, node |-> n] \in Switch
      BY DEF Switch
    <3>3. QED
      BY <2>8, <3>1, <3>2 DEF SwitchScheduler, TypeOK
  <2>9. ASSUME NEW c \in Client,
               UpdateStatus(c) \/ UpdateStatusFails(c) \/ CloseForm(c) \/ Run(c)
        PROVE TypeOK'
    <3>1. req' \in [Client -> {Idle} \cup Switch \cup Form \cup RunNow]
      BY <2>9 DEF UpdateStatus, UpdateStatusFails, CloseForm, Run, TypeOK
    <3>2. req[c] \in Switch => req[c].job \in Job
      BY DEF Switch
    <3>3. status' \in [Job -> {"free", "gone", "NULL", "NORMAL", "PAUSE"}] /\ torn' \subseteq Job
      BY <2>9, <3>2 DEF UpdateStatus, UpdateStatusFails, CloseForm, Run, TypeOK
    <3>4. QED
      BY <2>9, <3>1, <3>3 DEF UpdateStatus, UpdateStatusFails, CloseForm, Run, TypeOK
  <2>10. ASSUME NEW c \in Client, NEW j \in Job, Info(c, j) PROVE TypeOK'
    <3>1. status[j] \in {"NULL", "NORMAL", "PAUSE"}
      BY <2>10 DEF Info, Present
    <3>2. [op |-> "form", job |-> j, status |-> status[j]] \in Form
      BY <3>1 DEF Form
    <3>3. QED
      BY <2>10, <3>2 DEF Info, TypeOK
  <2>11. ASSUME NEW c \in Client, NEW g \in Config, Update(c, g) PROVE TypeOK'
    <3>1. req[c].job \in Job /\ req[c].status \in {"NULL", "NORMAL", "PAUSE"}
      BY <2>11 DEF Update, Form
    <3>2. /\ status' \in [Job -> {"free", "gone", "NULL", "NORMAL", "PAUSE"}]
          /\ config' \in [Job -> Config]
          /\ torn' \subseteq Job
      <4>1. CASE Present(req[c].job)
        <5> DEFINE i == req[c].job
                   s == req[c].status
        <5>1. /\ status' = [status EXCEPT ![i] = IF s = "NULL" THEN @ ELSE s]
              /\ config' = [config EXCEPT ![i] = g]
              /\ torn' = IF s \in {"NULL", status[i]} THEN torn ELSE torn \cup {i}
          BY <2>11, <4>1 DEF Update
        <5>2. i \in Job /\ s \in {"NULL", "NORMAL", "PAUSE"}
          BY <3>1
        <5> HIDE DEF i, s
        <5>3. QED
          BY <5>1, <5>2 DEF TypeOK
      <4>2. CASE ~Present(req[c].job)
        BY <2>11, <4>2 DEF Update, TypeOK
      <4>3. QED
        BY <4>1, <4>2
    <3>3. req' \in [Client -> {Idle} \cup Switch \cup Form \cup RunNow]
      BY <2>11 DEF Update, TypeOK
    <3>4. QED
      BY <2>11, <3>2, <3>3 DEF Update, TypeOK
  <2>12. ASSUME NEW c \in Client, NEW j \in Job, NEW g \in Config, Save(c, j, g) \/ Delete(c, j)
         PROVE TypeOK'
    BY <2>12 DEF Save, Delete, TypeOK
  <2>13. ASSUME NEW c \in Client, NEW n \in Node, NEW j \in Job, SendRun(c, n, j) PROVE TypeOK'
    <3>1. [op |-> "run", job |-> j, node |-> n] \in RunNow
      BY DEF RunNow
    <3>2. QED
      BY <2>13, <3>1 DEF SendRun, TypeOK
  <2>14. CASE UNCHANGED vars
    BY <2>14 DEF vars, TypeOK
  <2>15. \A n \in Node : (Start(n) \/ Startup(n) \/ InitThrows(n) \/ Crash(n) \/ Execution(n)) => TypeOK'
    BY <2>1, <2>2, <2>3, <2>4, <2>5, <2>6, <2>7 DEF Startup
  <2>16. \A c \in Client : Request(c) => TypeOK'
    BY <2>8, <2>9, <2>10, <2>11, <2>12, <2>13, ConfigAssumption DEF Request
  <2>17. QED
    BY <2>14, <2>15, <2>16 DEF Next
<1>3. QED
  BY <1>1, <1>2, PTL DEF Spec

-----------------------------------------------------------------------------
(* One process.                                                            *)

OneProcess == \A m, n \in Node : m = n

\* What PauseIfPaused establishes for the row it has handled.
Synced(j) ==
    /\ status[j] # "NULL" /\ config[j] \notin BadCron
    /\ status[j] = "PAUSE" => trigger[j] = "PAUSED"
    /\ status[j] = "NORMAL" => trigger[j] = "WAITING"

\* A stopped or starting process handles no request.
QuietInv == \A n \in Node : ~Serving(n) => \A c \in Client : req[c] \notin Switch

\* While init runs nobody writes the table: its rows are those of the table,
\* and those it is done with are synchronised.
TodoInv == \A n \in Node :
    /\ phase[n] # "init" => todo[n] = {}
    /\ \A e \in todo[n] : Present(e.job) /\ e = RowOf(e.job)
DoneInv == \A n \in Node : phase[n] = "init" =>
    \A j \in Job : (Present(j) /\ \A e \in todo[n] : e.job # j) => Synced(j)
StepInv == \A n \in Node : \A e \in todo[n] : First(n, e) =>
    /\ at[n] = "create" => trigger[e.job] = "NONE"
    /\ at[n] = "pause" => trigger[e.job] = "WAITING" /\ e.config \notin BadCron

\* The trigger follows the only request that is between its two calls.
HalfInv == \A c \in Client, j \in Job : (HalfDone(c, j) /\ j \notin torn) =>
    /\ \A d \in Client : HalfDone(d, j) => d = c
    /\ req[c].op = "pause" => trigger[j] # "WAITING"
    /\ req[c].op = "resume" => trigger[j] # "PAUSED"

FreeInv == \A j \in Job : status[j] = "free" => trigger[j] = "NONE"

SyncInv ==
    /\ QuietInv /\ TodoInv /\ DoneInv /\ StepInv /\ HalfInv /\ FreeInv
    /\ Agreement /\ NewJobUnscheduled /\ FailureHasCause

\* A step that leaves the stores, the start-up and the half-done requests
\* alone keeps the invariant.
LEMMA Frame ==
    ASSUME SyncInv, UNCHANGED <<status, config, trigger, phase, todo, at, torn>>,
           \A c \in Client : (req[c] \in Switch \/ req'[c] \in Switch) => req'[c] = req[c]
    PROVE  SyncInv'
<1>1. \A c \in Client, j \in Job : HalfDone(c, j)' <=> HalfDone(c, j)
  BY DEF HalfDone
<1>2. QuietInv' /\ HalfInv'
  BY <1>1 DEF SyncInv, QuietInv, HalfInv, Serving, HalfDone
<1>3. TodoInv' /\ DoneInv' /\ StepInv' /\ FreeInv'
  BY DEF SyncInv, TodoInv, DoneInv, StepInv, FreeInv, Present, RowOf, Synced, First
<1>4. Agreement' /\ NewJobUnscheduled' /\ FailureHasCause'
  BY <1>1 DEF SyncInv, Agreement, NewJobUnscheduled, FailureHasCause, Serving, Poisoned, Present
<1>5. QED
  BY <1>2, <1>3, <1>4 DEF SyncInv

\* While the process starts, Agreement, NewJobUnscheduled and HalfInv say
\* nothing: it serves no request.
LEMMA Starting ==
    ASSUME OneProcess, NEW n \in Node, ~Serving(n)', QuietInv'
    PROVE  (Agreement /\ NewJobUnscheduled /\ HalfInv)'
BY DEF OneProcess, QuietInv, Agreement, NewJobUnscheduled, HalfInv, HalfDone

\* init handles one job at a time.
LEMMA FirstIsOne ==
    ASSUME TypeOK, NEW n \in Node, NEW e \in todo[n], NEW f \in todo[n], First(n, e), First(n, f)
    PROVE  e.job = f.job
<1>1. e.job \in Nat /\ f.job \in Nat
  <2>1. e \in Row /\ f \in Row
    BY DEF TypeOK
  <2>2. QED
    BY <2>1, JobAssumption DEF Row
<1>2. e.job <= f.job /\ f.job <= e.job
  BY DEF First
<1>3. QED
  BY <1>1, <1>2

\* The steps of the start-up.
LEMMA StartupStep ==
    ASSUME OneProcess, TypeOK, SyncInv, NEW n \in Node,
           Start(n) \/ Startup(n) \/ InitThrows(n) \/ Crash(n)
    PROVE  SyncInv'
<1> USE DEF SyncInv, table, quartz, server
<1>0. \A m \in Node : m = n
  BY DEF OneProcess
<1>1. CASE Start(n)
  <2>1. QuietInv' /\ ~Serving(n)'
    BY <1>0, <1>1 DEF Start, QuietInv, Serving, TypeOK
  <2>2. todo'[n] = {RowOf(j) : j \in {i \in Job : Present(i)}} /\ phase'[n] = "init"
    BY <1>1 DEF Start, TypeOK
  <2>3. \A j \in Job : RowOf(j)' = RowOf(j) /\ RowOf(j).job = j /\ Present(j)' = Present(j)
    BY <1>1 DEF Start, RowOf, Present
  <2>4. TodoInv'
    BY <1>0, <2>2, <2>3 DEF TodoInv
  <2>5. DoneInv'
    BY <1>0, <2>2, <2>3 DEF DoneInv
  <2>6. StepInv'
    BY <1>0, <1>1 DEF Start, StepInv, TypeOK
  <2>7. FreeInv'
    BY <1>1 DEF Start, FreeInv
  <2>8. FailureHasCause'
    BY <1>0, <2>2 DEF FailureHasCause
  <2>9. QED
    BY <2>1, <2>4, <2>5, <2>6, <2>7, <2>8, Starting
<1>2. ASSUME NEW e \in todo[n], GetCronTrigger(n, e) PROVE SyncInv'
  <2>1. QuietInv' /\ ~Serving(n)'
    BY <1>0, <1>2 DEF GetCronTrigger, QuietInv, Serving, First
  <2>2. TodoInv' /\ DoneInv' /\ FreeInv' /\ FailureHasCause'
    BY <1>2 DEF GetCronTrigger, TodoInv, DoneInv, FreeInv, FailureHasCause, Poisoned,
                Present, RowOf, Synced
  <2>3. StepInv'
    <3> SUFFICES ASSUME NEW f \in todo[n], First(n, f)
                 PROVE  at'[n] = "create" => trigger[f.job] = "NONE"
      BY <1>0, <1>2 DEF GetCronTrigger, StepInv, First, TypeOK
    <3>1. e.job = f.job
      BY <1>2, FirstIsOne DEF GetCronTrigger
    <3>2. QED
      BY <1>2, <3>1 DEF GetCronTrigger, TypeOK
  <2>4. QED
    BY <2>1, <2>2, <2>3, Starting
<1>3. ASSUME EndsBadly(n), phase[n] = "init",
             (\E j \in Job : Poisoned(j)) \/ StartupEnds(n, "threw"),
             UNCHANGED <<status, config, trigger, req, torn>>
      PROVE  SyncInv'
  <2>1. QuietInv' /\ ~Serving(n)'
    BY <1>0, <1>3 DEF EndsBadly, StartupEnds, QuietInv, Serving, TypeOK
  <2>2. TodoInv' /\ DoneInv' /\ StepInv'
    BY <1>0, <1>3 DEF EndsBadly, StartupEnds, TodoInv, DoneInv, StepInv, TypeOK
  <2>3. FreeInv' /\ FailureHasCause'
    BY <1>0, <1>3 DEF StartupEnds, FreeInv, FailureHasCause, Poisoned, Present, TypeOK
  <2>4. QED
    BY <2>1, <2>2, <2>3, Starting
<1>4. ASSUME NEW e \in todo[n], First(n, e), e.config \notin BadCron, SchedulerStore(e),
             at' = [at EXCEPT ![n] = "pause"],
             UNCHANGED <<status, config, phase, todo, req, torn>>
      PROVE  SyncInv'
  <2>1. QuietInv' /\ ~Serving(n)'
    BY <1>0, <1>4 DEF QuietInv, Serving, First
  <2>2. e.job \in Job /\ Present(e.job)
    BY DEF TypeOK, Row, TodoInv
  <2>3. /\ trigger'[e.job] = "WAITING"
        /\ \A j \in Job : j # e.job => trigger'[j] = trigger[j]
    BY <1>4, <2>2 DEF SchedulerStore, TypeOK
  <2>4. TodoInv' /\ FailureHasCause'
    BY <1>4 DEF TodoInv, FailureHasCause, Poisoned, Present, RowOf
  <2>5. DoneInv'
    BY <1>0, <1>4, <2>3 DEF DoneInv, Present, Synced
  <2>6. StepInv'
    <3> SUFFICES ASSUME NEW f \in todo[n], First(n, f)
                 PROVE  trigger'[f.job] = "WAITING" /\ f.config \notin BadCron
      BY <1>0, <1>4 DEF StepInv, First, TypeOK
    <3>1. e.job = f.job
      BY <1>4, FirstIsOne
    <3>2. e.config = f.config
      BY <3>1 DEF TodoInv, RowOf
    <3>3. QED
      BY <1>4, <2>3, <3>1, <3>2
  <2>7. FreeInv'
    BY <1>4, <2>2, <2>3 DEF FreeInv, Present
  <2>8. QED
    BY <2>1, <2>4, <2>5, <2>6, <2>7, Starting
<1>5. ASSUME NEW e \in todo[n], PauseIfPaused(n, e), e.status # "NULL" PROVE SyncInv'
  <2>1. /\ todo' = [todo EXCEPT ![n] = @ \ {e}]
        /\ at' = [at EXCEPT ![n] = "lookup"]
        /\ UNCHANGED <<status, config, phase, req>>
    BY <1>5 DEF PauseIfPaused
  <2>2. QuietInv' /\ ~Serving(n)'
    BY <1>0, <1>5, <2>1 DEF QuietInv, Serving, First, PauseIfPaused
  <2>3. /\ e.job \in Job /\ Present(e.job)
        /\ e.status = status[e.job] /\ e.config = config[e.job]
    BY DEF TypeOK, Row, TodoInv, RowOf
  <2>4. trigger[e.job] = "WAITING" /\ e.config \notin BadCron
    BY <1>5 DEF PauseIfPaused, StepInv
  <2>5. /\ trigger'[e.job] = IF e.status = "PAUSE" THEN "PAUSED" ELSE "WAITING"
        /\ \A j \in Job : j # e.job => trigger'[j] = trigger[j]
    BY <1>5, <2>3, <2>4 DEF PauseIfPaused, SchedulerPause, TypeOK
  <2>6. TodoInv'
    BY <1>0, <2>1 DEF TodoInv, Present, RowOf, TypeOK
  <2>7. DoneInv'
    <3> SUFFICES ASSUME NEW j \in Job, Present(j), \A f \in todo[n] \ {e} : f.job # j,
                        phase[n] = "init"
                 PROVE  Synced(j)'
      BY <1>0, <2>1 DEF DoneInv, Present, TypeOK
    <3>1. CASE j = e.job
      BY <1>5, <2>1, <2>3, <2>4, <2>5, <3>1 DEF Synced
    <3>2. CASE j # e.job
      BY <2>1, <2>5, <3>2 DEF DoneInv, Synced
    <3>3. QED
      BY <3>1, <3>2
  <2>8. StepInv'
    BY <1>0, <2>1 DEF StepInv, TypeOK
  <2>9. FreeInv' /\ FailureHasCause'
    BY <2>1, <2>3, <2>5 DEF FreeInv, FailureHasCause, Poisoned, Present
  <2>10. QED
    BY <2>2, <2>6, <2>7, <2>8, <2>9, Starting
<1>6. ASSUME NEW e \in todo[n],
             CreateScheduleJob(n, e) \/ UpdateScheduleJob(n, e) \/ PauseIfPaused(n, e)
      PROVE  SyncInv'
  <2>1. /\ e.job \in Job /\ Present(e.job)
        /\ e.status = status[e.job] /\ e.config = config[e.job]
    BY DEF TypeOK, Row, TodoInv, RowOf
  <2>2. First(n, e) /\ phase[n] = "init"
    BY <1>6 DEF CreateScheduleJob, UpdateScheduleJob, PauseIfPaused, First
  <2>3. CASE /\ StartupEnds(n, "failed") /\ (e.config \in BadCron \/ e.status = "NULL")
             /\ UNCHANGED <<table, quartz, req, torn>>
    <3>1. Poisoned(e.job)
      BY <2>1, <2>3 DEF Poisoned
    <3>2. EndsBadly(n) /\ \E j \in Job : Poisoned(j)
      BY <2>1, <2>3, <3>1, Zenon DEF EndsBadly
    <3>3. QED
      BY <1>3, <2>2, <2>3, <3>2
  <2>4. CASE StartupEnds(n, "threw") /\ UNCHANGED <<table, quartz, req, torn>>
    BY <1>3, <2>2, <2>4 DEF EndsBadly
  <2>5. CASE PauseIfPaused(n, e) /\ e.status # "NULL"
    BY <1>5, <2>5
  <2>6. CASE /\ e.config \notin BadCron /\ SchedulerStore(e)
             /\ at' = [at EXCEPT ![n] = "pause"]
             /\ UNCHANGED <<phase, todo, table, req, torn>>
    BY <1>4, <2>2, <2>6
  <2>7. QED
    BY <1>6, <2>3, <2>4, <2>5, <2>6, Zenon DEF CreateScheduleJob, UpdateScheduleJob, PauseIfPaused
<1>7. CASE Ready(n)
  <2>1. /\ phase[n] = "init" /\ todo[n] = {}
        /\ phase' = [phase EXCEPT ![n] = "ready"]
        /\ UNCHANGED <<status, config, trigger, todo, at, req, torn>>
    BY <1>7 DEF Ready
  <2>2. \A c \in Client : req[c] \notin Switch
    BY <2>1 DEF QuietInv, Serving
  <2>3. \A j \in Job : Present(j) => Synced(j)
    BY <2>1 DEF DoneInv
  <2>4. QuietInv' /\ HalfInv'
    BY <2>1, <2>2 DEF QuietInv, HalfInv, HalfDone
  <2>5. TodoInv' /\ DoneInv' /\ StepInv'
    BY <1>0, <2>1 DEF TodoInv, DoneInv, StepInv, First, TypeOK
  <2>6. FreeInv' /\ FailureHasCause'
    BY <1>0, <2>1 DEF FreeInv, FailureHasCause, TypeOK
  <2>7. Agreement' /\ NewJobUnscheduled'
    BY <2>1, <2>3 DEF Agreement, NewJobUnscheduled, Synced, Present
  <2>8. QED
    BY <2>4, <2>5, <2>6, <2>7
<1>8. CASE StartScheduler(n)
  <2>1. /\ phase[n] = "ready" /\ phase' = [phase EXCEPT ![n] = "up"]
        /\ UNCHANGED <<status, config, trigger, todo, at, req, torn>>
    BY <1>8 DEF StartScheduler
  <2>2. \A m \in Node : Serving(m) /\ Serving(m)' /\ todo[m] = {} /\ phase'[m] = "up"
    BY <1>0, <2>1 DEF Serving, TypeOK, TodoInv
  <2>3. QuietInv' /\ TodoInv' /\ DoneInv' /\ StepInv' /\ FailureHasCause'
    BY <2>1, <2>2 DEF QuietInv, TodoInv, DoneInv, StepInv, FailureHasCause
  <2>4. HalfInv' /\ FreeInv'
    BY <2>1 DEF HalfInv, FreeInv, HalfDone
  <2>5. Agreement' /\ NewJobUnscheduled'
    BY <2>1, <2>2 DEF Agreement, NewJobUnscheduled, HalfDone
  <2>6. QED
    BY <2>3, <2>4, <2>5
<1>9. CASE Crash(n)
  <2>1. /\ phase' = [phase EXCEPT ![n] = "down"]
        /\ todo' = [todo EXCEPT ![n] = {}]
        /\ UNCHANGED <<status, config, trigger, torn>>
    BY <1>9 DEF Crash
  <2>2. \A c \in Client : req'[c] \notin Switch
    <3>1. Idle \notin Switch
      BY DEF Idle, Switch
    <3>2. \A c \in Client : req[c] \in Switch => req[c].node = n
      BY <1>0 DEF Switch
    <3>3. \A c \in Client : req'[c] = Idle \/ (req'[c] = req[c] /\ req[c] \notin Switch)
      BY <1>9, <3>2 DEF Crash
    <3>4. QED
      BY <3>1, <3>3
  <2>3. ~Serving(n)' /\ QuietInv'
    BY <2>1, <2>2 DEF Serving, QuietInv, TypeOK
  <2>4. TodoInv' /\ DoneInv' /\ StepInv' /\ FailureHasCause'
    BY <1>0, <2>1 DEF TodoInv, DoneInv, StepInv, FailureHasCause, TypeOK
  <2>5. FreeInv'
    BY <2>1 DEF FreeInv
  <2>6. QED
    BY <2>3, <2>4, <2>5, Starting
<1>10. CASE InitThrows(n)
  BY <1>3, <1>10 DEF InitThrows, EndsBadly
<1>11. QED
  BY <1>1, <1>2, <1>6, <1>7, <1>8, <1>9, <1>10 DEF Startup

\* The requests that write a store are handled while the process serves: the
\* parts of the invariant about the start-up say nothing then.
LEMMA ServingInv ==
    ASSUME OneProcess, NEW n \in Node, Serving(n), UNCHANGED server, TodoInv
    PROVE  (QuietInv /\ TodoInv /\ DoneInv /\ StepInv /\ FailureHasCause)'
<1>1. \A m \in Node : Serving(m)' /\ phase'[m] # "init" /\ phase'[m] # "failed" /\ todo'[m] = {}
  BY DEF OneProcess, Serving, TodoInv, server
<1>2. QED
  BY <1>1 DEF QuietInv, TodoInv, DoneInv, StepInv, FailureHasCause

\* The requests of the page.
LEMMA RequestStep ==
    ASSUME OneProcess, TypeOK, SyncInv, NEW c \in Client, Request(c)
    PROVE  SyncInv'
<1> USE DEF SyncInv, table, quartz
<1>0. /\ Idle \notin Switch
      /\ \A d \in Client : req[d] \in Switch => Serving(req[d].node) /\ req[d].node \in Node
      /\ \A d \in Client, j \in Job : HalfDone(d, j) <=> req[d] \in Switch /\ req[d].job = j
  <2>1. Idle \notin Switch
    BY DEF Idle, Switch
  <2>2. \A d \in Client : req[d] \in Switch => req[d].node \in Node
    BY DEF Switch
  <2>3. QED
    BY <2>1, <2>2 DEF QuietInv, HalfDone
<1>1. ASSUME NEW n \in Node, NEW j \in Job, NEW op \in {"pause", "resume"},
             SwitchScheduler(c, n, j, op)
      PROVE  SyncInv'
  <2>1. /\ req[c] = Idle /\ Serving(n) /\ status[j] # "free"
        /\ UNCHANGED <<status, config, server>>
        /\ torn' = IF \E d \in Client : HalfDone(d, j) THEN torn \cup {j} ELSE torn
    BY <1>1 DEF SwitchScheduler, Listed
  <2>2. /\ \A i \in Job : i # j => trigger'[i] = trigger[i]
        /\ op = "pause" => trigger'[j] # "WAITING"
        /\ op = "resume" => trigger'[j] # "PAUSED"
        /\ trigger[j] = "NONE" => trigger'[j] = "NONE"
    BY <1>1 DEF SwitchScheduler, SchedulerPause, SchedulerResume, TypeOK
  <2>3. /\ req'[c] \in Switch /\ req'[c].job = j /\ req'[c].op = op
        /\ \A d \in Client : d # c => req'[d] = req[d]
    BY <1>1 DEF SwitchScheduler, Switch, TypeOK
  <2>4. \A d \in Client, i \in Job : HalfDone(d, i)' <=> HalfDone(d, i) \/ (d = c /\ i = j)
    BY <1>0, <2>1, <2>3 DEF HalfDone
  <2>5. HalfInv'
    <3> SUFFICES ASSUME NEW d \in Client, NEW i \in Job, HalfDone(d, i)', i \notin torn'
                 PROVE  /\ \A b \in Client : HalfDone(b, i)' => b = d
                        /\ req'[d].op = "pause" => trigger'[i] # "WAITING"
                        /\ req'[d].op = "resume" => trigger'[i] # "PAUSED"
      BY DEF HalfInv
    <3>1. CASE i = j
      <4>1. \A b \in Client : ~HalfDone(b, j)
        BY <2>1, <3>1
      <4>2. QED
        BY <2>2, <2>3, <2>4, <3>1, <4>1
    <3>2. CASE i # j
      <4>1. i \notin torn /\ HalfDone(d, i) /\ d # c
        BY <1>0, <2>1, <2>4, <3>2
      <4>2. req'[d] = req[d] /\ trigger'[i] = trigger[i]
        BY <2>2, <2>3, <3>2, <4>1
      <4>3. QED
        BY <1>0, <2>1, <2>4, <3>2, <4>1, <4>2 DEF HalfInv
    <3>3. QED
      BY <3>1, <3>2
  <2>6. Agreement' /\ NewJobUnscheduled' /\ FreeInv'
    BY <2>1, <2>2, <2>4 DEF Agreement, NewJobUnscheduled, FreeInv, Serving, server
  <2>7. QED
    BY <2>1, <2>5, <2>6, ServingInv
<1>2. CASE UpdateStatus(c)
  <2> DEFINE j == req[c].job
             s == IF req[c].op = "pause" THEN "PAUSE" ELSE "NORMAL"
  <2>1. /\ HalfDone(c, j) /\ j \in Job /\ req[c].op \in {"pause", "resume"}
        /\ status' = [status EXCEPT ![j] = IF Present(j) THEN s ELSE @]
        /\ UNCHANGED <<config, trigger, server, torn>>
        /\ req' = [req EXCEPT ![c] = Idle]
    BY <1>2 DEF UpdateStatus, HalfDone, Switch
  <2>2. \A d \in Client, i \in Job : HalfDone(d, i)' <=> HalfDone(d, i) /\ d # c
    BY <1>0, <2>1 DEF HalfDone, TypeOK
  <2>3. HalfInv'
    <3> SUFFICES ASSUME NEW d \in Client, NEW i \in Job, HalfDone(d, i), d # c, i \notin torn
                 PROVE  /\ \A b \in Client : HalfDone(b, i) => b = d
                        /\ req[d].op = "pause" => trigger[i] # "WAITING"
                        /\ req[d].op = "resume" => trigger[i] # "PAUSED"
      BY <2>1, <2>2 DEF HalfInv, TypeOK
    <3>1. QED
      BY DEF HalfInv
  <2>4. Agreement'
    <3> SUFFICES ASSUME NEW i \in Job, i \notin torn, \A d \in Client : ~HalfDone(d, i)'
                 PROVE  /\ status'[i] = "PAUSE" => trigger[i] # "WAITING"
                        /\ status'[i] = "NORMAL" => trigger[i] # "PAUSED"
      BY <2>1 DEF Agreement
    <3>1. CASE i = j
      BY <2>1, <3>1 DEF HalfInv, Present, TypeOK
    <3>2. CASE i # j
      <4>1. status'[i] = status[i] /\ \A d \in Client : ~HalfDone(d, i)
        BY <2>1, <2>2, <3>2 DEF HalfDone, TypeOK
      <4>2. QED
        BY <1>0, <2>1, <4>1 DEF Agreement, HalfDone
    <3>3. QED
      BY <3>1, <3>2
  <2>5. NewJobUnscheduled' /\ FreeInv'
    BY <2>1 DEF NewJobUnscheduled, FreeInv, Present, Serving, server, TypeOK
  <2>6. QED
    BY <1>0, <2>1, <2>3, <2>4, <2>5, ServingInv DEF HalfDone
<1>3. CASE UpdateStatusFails(c)
  <2> DEFINE j == req[c].job
  <2>1. /\ HalfDone(c, j) /\ j \in Job
        /\ torn' = torn \cup {j}
        /\ UNCHANGED <<status, config, trigger, server>>
        /\ req' = [req EXCEPT ![c] = Idle]
    BY <1>3 DEF UpdateStatusFails, HalfDone, Switch
  <2>2. \A d \in Client, i \in Job : HalfDone(d, i)' <=> HalfDone(d, i) /\ d # c
    BY <1>0, <2>1 DEF HalfDone, TypeOK
  <2>3. HalfInv'
    BY <2>1, <2>2 DEF HalfInv, HalfDone, TypeOK
  <2>4. Agreement'
    BY <1>0, <2>1, <2>2 DEF Agreement, HalfDone
  <2>5. NewJobUnscheduled' /\ FreeInv'
    BY <2>1 DEF NewJobUnscheduled, FreeInv, Serving, server
  <2>6. QED
    BY <1>0, <2>1, <2>3, <2>4, <2>5, ServingInv DEF HalfDone
<1>4. ASSUME NEW g \in Config, Update(c, g) PROVE SyncInv'
  <2> DEFINE j == req[c].job
             s == req[c].status
  <2>1. PICK n \in Node : Serving(n)
    BY <1>4 DEF Update
  <2>2. /\ req[c] \notin Switch /\ j \in Job /\ s \in {"NULL", "NORMAL", "PAUSE"}
        /\ UNCHANGED <<trigger, server>>
        /\ req' = [req EXCEPT ![c] = Idle]
    BY <1>4 DEF Update, Form, Switch
  <2>3. CASE ~Present(j)
    BY <1>0, <1>4, <2>2, <2>3, Frame DEF Update, TypeOK, server
  <2>4. CASE Present(j)
    <3>1. /\ status' = [status EXCEPT ![j] = IF s = "NULL" THEN @ ELSE s]
          /\ torn' = IF s \in {"NULL", status[j]} THEN torn ELSE torn \cup {j}
      BY <1>4, <2>4 DEF Update
    <3>2. \A i \in Job : i \notin torn' => i \notin torn /\ status'[i] = status[i]
      BY <2>2, <3>1 DEF TypeOK
    <3>3. \A d \in Client, i \in Job : HalfDone(d, i)' <=> HalfDone(d, i)
      BY <1>0, <2>2 DEF HalfDone, TypeOK
    <3>4. HalfInv'
      BY <1>0, <2>2, <3>2, <3>3 DEF HalfInv, HalfDone, TypeOK
    <3>5. Agreement'
      BY <2>1, <2>2, <3>2, <3>3 DEF Agreement
    <3>6. \A i \in Job : /\ status'[i] = "NULL" => status[i] = "NULL"
                         /\ status'[i] = "free" => status[i] = "free"
      BY <2>2, <3>1 DEF TypeOK
    <3>7. NewJobUnscheduled' /\ FreeInv'
      BY <2>1, <2>2, <3>6 DEF NewJobUnscheduled, FreeInv
    <3>8. QED
      BY <2>1, <2>2, <3>4, <3>5, <3>7, ServingInv
  <2>5. QED
    BY <2>3, <2>4
<1>5. ASSUME NEW j \in Job, Delete(c, j) \/ \E g \in Config : Save(c, j, g) PROVE SyncInv'
  <2>1. PICK n \in Node : Serving(n)
    BY <1>5 DEF Save, Delete
  <2>2. UNCHANGED <<trigger, server, req, torn>>
    BY <1>5 DEF Save, Delete
  <2>3. /\ \A i \in Job : i # j => status'[i] = status[i]
        /\ \/ status'[j] = "gone"
           \/ status[j] = "free" /\ status'[j] = "NULL"
    BY <1>5 DEF Save, Delete, TypeOK
  <2>4. HalfInv' /\ FreeInv'
    BY <2>2, <2>3 DEF HalfInv, FreeInv, HalfDone
  <2>5. Agreement' /\ NewJobUnscheduled'
    BY <2>1, <2>2, <2>3 DEF Agreement, NewJobUnscheduled, FreeInv, HalfDone
  <2>6. QED
    BY <2>1, <2>2, <2>4, <2>5, ServingInv
<1>6. ASSUME NEW j \in Job, Info(c, j) \/ \E n \in Node : SendRun(c, n, j) PROVE SyncInv'
  <2>1. req[c] = Idle /\ UNCHANGED <<table, quartz, server, torn>>
    BY <1>6 DEF Info, SendRun
  <2>2. req'[c] \notin Switch /\ \A d \in Client : d # c => req'[d] = req[d]
    <3>1. /\ [op |-> "form", job |-> j, status |-> status[j]] \notin Switch
          /\ \A n \in Node : [op |-> "run", job |-> j, node |-> n] \notin Switch
      BY DEF Switch
    <3>2. QED
      BY <1>6, <3>1 DEF Info, SendRun, TypeOK
  <2>3. QED
    BY <1>0, <2>1, <2>2, Frame DEF server
<1>7. CASE CloseForm(c) \/ Run(c)
  <2>1. req[c] \notin Switch
    BY <1>7 DEF CloseForm, Run, Form, RunNow, Switch
  <2>2. req' = [req EXCEPT ![c] = Idle] /\ UNCHANGED <<table, quartz, server, torn>>
    BY <1>7 DEF CloseForm, Run
  <2>3. QED
    BY <1>0, <2>1, <2>2, Frame DEF server, TypeOK
<1>8. QED
  BY <1>1, <1>2, <1>3, <1>4, <1>5, <1>6, <1>7 DEF Request

-----------------------------------------------------------------------------
(* The theorems about one process.                                         *)

THEOREM SyncInvariance == ASSUME OneProcess PROVE Spec => []SyncInv
<1>1. Init => SyncInv
  <2>1. ASSUME Init PROVE SyncInv
    <3>1. /\ \A n \in Node : phase[n] = "down" /\ todo[n] = {}
          /\ \A c \in Client : req[c] \notin Switch
      BY <2>1 DEF Init, Idle, Switch
    <3>2. QuietInv /\ TodoInv /\ DoneInv /\ StepInv /\ HalfInv
      BY <3>1 DEF QuietInv, TodoInv, DoneInv, StepInv, HalfInv, HalfDone
    <3>3. Agreement /\ NewJobUnscheduled /\ FailureHasCause
      BY <3>1 DEF Agreement, NewJobUnscheduled, FailureHasCause, Serving
    <3>4. FreeInv
      BY <2>1 DEF Init, FreeInv
    <3>5. QED
      BY <3>2, <3>3, <3>4 DEF SyncInv
  <2>2. QED
    BY <2>1
<1>2. TypeOK /\ SyncInv /\ [Next]_vars => SyncInv'
  <2> SUFFICES ASSUME TypeOK, SyncInv, [Next]_vars PROVE SyncInv'
    OBVIOUS
  <2>1. ASSUME NEW n \in Node, Start(n) \/ Startup(n) \/ InitThrows(n) \/ Crash(n)
        PROVE  SyncInv'
    BY <2>1, StartupStep
  <2>2. ASSUME NEW n \in Node, Execution(n) PROVE SyncInv'
    <3>1. UNCHANGED <<table, quartz, server, req, torn>>
      BY <2>2, Zenon DEF Execution, Fire, ExecutionEnds
    <3>2. QED
      BY <3>1, Frame DEF table, quartz, server
  <2>3. ASSUME NEW c \in Client, Request(c) PROVE SyncInv'
    BY <2>3, RequestStep
  <2>4. CASE UNCHANGED vars
    BY <2>4, Frame DEF vars, table, quartz, server
  <2>5. QED
    BY <2>1, <2>2, <2>3, <2>4 DEF Next
<1>3. QED
  BY <1>1, <1>2, Typing, PTL DEF Spec

\* With one process, status and trigger of a job come apart only while a pause
\* or resume is between its two calls, or by overlapping, half-failed or stale
\* requests; a restart, after a crash at any point, brings them together.
THEOREM AgreementHolds == ASSUME OneProcess PROVE Spec => []Agreement
<1>1. SyncInv => Agreement
  BY DEF SyncInv
<1>2. QED
  BY <1>1, SyncInvariance, PTL

\* With one process, a job added on the page is not scheduled while the process
\* serves.
THEOREM NewJobUnscheduledHolds == ASSUME OneProcess PROVE Spec => []NewJobUnscheduled
<1>1. SyncInv => NewJobUnscheduled
  BY DEF SyncInv
<1>2. QED
  BY <1>1, SyncInvariance, PTL

\* With one process, a start-up that fails although scheduler and database
\* answered its calls fails for a row that is still there.
THEOREM FailureHasCauseHolds == ASSUME OneProcess PROVE Spec => []FailureHasCause
<1>1. SyncInv => FailureHasCause
  BY DEF SyncInv
<1>2. QED
  BY <1>1, SyncInvariance, PTL

\* With one process, a job its row and its trigger agree to be paused starts no
\* execution: the moments at which the trigger of a paused job is WAITING lie
\* before the start of the scheduler.
THEOREM PausedNeverFiresHolds == ASSUME OneProcess PROVE Spec => PausedNeverFires
<1> DEFINE Quiet(j) == status[j] = "PAUSE" /\ j \notin torn /\ \A c \in Client : ~HalfDone(c, j)
<1>1. ASSUME TypeOK, SyncInv, [Next]_vars, NEW j \in Job, Quiet(j), Executes(j) PROVE FALSE
  <2>1. PICK m \in Node, u \in Thread : worker[m][u] = NoJob /\ worker'[m][u] = j
    BY <1>1 DEF Executes
  <2>2. ASSUME NEW n \in Node, NEW t \in Thread, NEW k \in Job, Fire(n, t, k) PROVE FALSE
    <3>1. k = j
      BY <2>1, <2>2, JobAssumption DEF Fire, TypeOK
    <3>2. phase[n] = "up" /\ trigger[j] = "WAITING"
      BY <2>2, <3>1 DEF Fire
    <3>3. QED
      BY <1>1, <3>2 DEF SyncInv, Agreement, Serving
  <2>3. ASSUME NEW n \in Node, NEW t \in Thread, ExecutionEnds(n, t) PROVE FALSE
    BY <2>1, <2>3, JobAssumption DEF ExecutionEnds, TypeOK
  <2>4. ASSUME NEW n \in Node, Crash(n) PROVE FALSE
    BY <2>1, <2>4, JobAssumption DEF Crash, TypeOK
  <2>5. CASE UNCHANGED worker
    BY <2>1, <2>5, JobAssumption
  <2>6. \A n \in Node : (Start(n) \/ Startup(n) \/ InitThrows(n)) => UNCHANGED worker
    BY Zenon DEF Start, Startup, InitThrows, GetCronTrigger, CreateScheduleJob, UpdateScheduleJob,
       PauseIfPaused, Ready, StartScheduler
  <2>7. \A c \in Client : Request(c) => UNCHANGED worker
    BY Zenon DEF Request, SwitchScheduler, SendRun, UpdateStatus, UpdateStatusFails, CloseForm,
       Run, Info, Delete, Update, Save
  <2>8. QED
    BY <1>1, <2>2, <2>3, <2>4, <2>5, <2>6, <2>7 DEF Next, Execution, vars
<1>2. TypeOK /\ SyncInv /\ [Next]_vars => [\A j \in Job : Quiet(j) => ~Executes(j)]_vars
  BY <1>1
<1>3. QED
  BY <1>2, Typing, SyncInvariance, PTL DEF Spec, PausedNeverFires

\* With one process, a row that a start-up cannot handle keeps the application
\* from ever serving again.
THEOREM PoisonIsLastingHolds == ASSUME OneProcess PROVE Spec => PoisonIsLasting
<1> DEFINE Stuck == (\E j \in Job : Poisoned(j)) /\ \A n \in Node : ~Serving(n)
<1>1. ASSUME TypeOK, SyncInv, [Next]_vars, Stuck PROVE \A n \in Node : ~Serving(n)'
  <2>1. ASSUME NEW n \in Node, Ready(n) PROVE FALSE
    <3>1. \A j \in Job : Present(j) => Synced(j)
      BY <1>1, <2>1 DEF Ready, SyncInv, DoneInv
    <3>2. QED
      BY <1>1, <3>1 DEF Poisoned, Present, Synced
  <2>2. ASSUME NEW n \in Node, StartScheduler(n) PROVE FALSE
    BY <1>1, <2>2 DEF StartScheduler, Serving
  <2>3. ASSUME NEW n \in Node,
               phase' = [phase EXCEPT ![n] = "init"] \/ phase' = [phase EXCEPT ![n] = "down"]
                 \/ phase' = [phase EXCEPT ![n] = "failed"] \/ phase' = [phase EXCEPT ![n] = "threw"]
        PROVE  \A m \in Node : ~Serving(m)'
    BY <1>1, <2>3 DEF Serving, TypeOK
  <2>4. CASE UNCHANGED phase
    BY <1>1, <2>4 DEF Serving
  <2>5. \A n \in Node : \A e \in todo[n] :
          (GetCronTrigger(n, e) \/ CreateScheduleJob(n, e) \/ UpdateScheduleJob(n, e)
             \/ PauseIfPaused(n, e))
          => \/ UNCHANGED phase
             \/ phase' = [phase EXCEPT ![n] = "failed"] \/ phase' = [phase EXCEPT ![n] = "threw"]
    BY Zenon DEF GetCronTrigger, CreateScheduleJob, UpdateScheduleJob, PauseIfPaused, StartupEnds
  <2>6. \A n \in Node : /\ Start(n) => phase' = [phase EXCEPT ![n] = "init"]
                        /\ Crash(n) => phase' = [phase EXCEPT ![n] = "down"]
                        /\ InitThrows(n) => phase' = [phase EXCEPT ![n] = "threw"]
                        /\ Execution(n) => UNCHANGED phase
    BY Zenon DEF Start, Crash, InitThrows, StartupEnds, Execution, Fire, ExecutionEnds, server
  <2>7. \A c \in Client : Request(c) => UNCHANGED phase
    BY Zenon DEF Request, SwitchScheduler, SendRun, UpdateStatus, UpdateStatusFails, CloseForm,
       Run, Info, Delete, Update, Save, server
  <2>8. QED
    BY <1>1, <2>1, <2>2, <2>3, <2>4, <2>5, <2>6, <2>7 DEF Next, Startup, vars, server
<1>2. TypeOK /\ SyncInv /\ [Next]_vars => [Stuck => \A n \in Node : ~Serving(n)']_vars
  BY <1>1
<1>3. QED
  BY <1>2, Typing, SyncInvariance, PTL DEF Spec, PoisonIsLasting

-----------------------------------------------------------------------------
(* Any number of processes.                                                *)

\* A process that starts has, for every shipped job, still the row to handle
\* or already the trigger; while no trigger exists the row cannot be deleted.
ShippedInv ==
    /\ \A j \in Shipped : trigger[j] # "NONE" \/ Present(j)
    /\ \A n \in Node, j \in Shipped :
         /\ Serving(n) => trigger[j] # "NONE"
         /\ phase[n] = "init" => trigger[j] # "NONE" \/ \E e \in todo[n] : e.job = j
    /\ \A n \in Node : \A e \in todo[n] :
         (First(n, e) /\ at[n] = "pause") => trigger[e.job] # "NONE"

\* Quartz never loses a trigger: only its state changes.
LEMMA TriggersStay ==
    ASSUME TypeOK, [Next]_vars, NEW j \in Job, trigger[j] # "NONE"
    PROVE  trigger'[j] # "NONE"
<1>0. \A n \in Node : \A e \in todo[n] : e.job \in Job
  BY DEF TypeOK, Row
<1>1. ASSUME NEW e, e.job \in Job, SchedulerStore(e) PROVE trigger'[j] # "NONE"
  BY <1>1 DEF SchedulerStore, TypeOK
<1>2. ASSUME NEW i \in Job, SchedulerPause(i) \/ SchedulerResume(i) PROVE trigger'[j] # "NONE"
  BY <1>2 DEF SchedulerPause, SchedulerResume, TypeOK
<1>3. \A n \in Node : (Start(n) \/ InitThrows(n) \/ Crash(n) \/ Execution(n)) => UNCHANGED trigger
  BY Zenon DEF Start, InitThrows, Crash, Execution, Fire, ExecutionEnds, quartz
<1>4. \A n \in Node : Startup(n) =>
        \/ UNCHANGED trigger
        \/ \E e \in todo[n] : SchedulerStore(e) \/ SchedulerPause(e.job)
  BY Zenon DEF Startup, GetCronTrigger, CreateScheduleJob, UpdateScheduleJob, PauseIfPaused,
     Ready, StartScheduler, quartz
<1>5. \A c \in Client : Request(c) =>
        \/ UNCHANGED trigger
        \/ \E i \in Job : SchedulerPause(i) \/ SchedulerResume(i)
  BY Zenon DEF Request, SwitchScheduler, SendRun, UpdateStatus, UpdateStatusFails, CloseForm,
     Run, Info, Delete, Update, Save, quartz
<1>6. UNCHANGED vars => UNCHANGED trigger
  BY DEF vars, quartz
<1>7. QED
  BY <1>0, <1>1, <1>2, <1>3, <1>4, <1>5, <1>6 DEF Next

\* Whatever crashed and whichever process created it, every shipped job has
\* its trigger while some process serves.
THEOREM ShippedScheduledHolds == Spec => []ShippedScheduled
<1>1. Init => ShippedInv
  BY JobAssumption DEF Init, ShippedInv, Present, Serving
<1>2. TypeOK /\ ShippedInv /\ [Next]_vars => ShippedInv'
  <2> SUFFICES ASSUME TypeOK, ShippedInv, [Next]_vars PROVE ShippedInv'
    OBVIOUS
  <2>1. \A j \in Shipped : j \in Job /\ (trigger[j] # "NONE" => trigger'[j] # "NONE")
    BY TriggersStay, JobAssumption
  <2>2. \A n \in Node : \A e \in todo[n] : trigger[e.job] # "NONE" => trigger'[e.job] # "NONE"
    <3>1. \A n \in Node : \A e \in todo[n] : e.job \in Job
      BY DEF TypeOK, Row
    <3>2. QED
      BY <3>1, TriggersStay
  <2>3. ASSUME NEW n \in Node, Start(n) PROVE ShippedInv'
    <3>1. /\ phase' = [phase EXCEPT ![n] = "init"] /\ at' = [at EXCEPT ![n] = "lookup"]
          /\ \A m \in Node : m # n => todo'[m] = todo[m]
          /\ UNCHANGED <<status, trigger>>
      BY <2>3 DEF Start, table, quartz, TypeOK
    <3>2. \A j \in Job : Present(j) => \E e \in todo'[n] : e.job = j
      <4>1. todo'[n] = {RowOf(j) : j \in {i \in Job : Present(i)}}
        BY <2>3 DEF Start, TypeOK
      <4>2. \A j \in Job : RowOf(j).job = j
        BY DEF RowOf
      <4>3. QED
        BY <4>1, <4>2
    <3>3. QED
      BY <2>1, <3>1, <3>2 DEF ShippedInv, Present, Serving, First, TypeOK
  <2>4. ASSUME NEW n \in Node, NEW e \in todo[n], GetCronTrigger(n, e) PROVE ShippedInv'
    BY <2>4 DEF GetCronTrigger, ShippedInv, table, quartz, Present, Serving, First, TypeOK
  <2>5. ASSUME NEW n \in Node, EndsBadly(n), UNCHANGED <<status, trigger>> PROVE ShippedInv'
    <3>1. PICK how \in {"failed", "threw"} : StartupEnds(n, how)
      BY <2>5 DEF EndsBadly
    <3>2. /\ phase'[n] = how /\ todo'[n] = {}
          /\ \A m \in Node : m # n => phase'[m] = phase[m] /\ todo'[m] = todo[m] /\ at'[m] = at[m]
      BY <3>1 DEF StartupEnds, TypeOK
    <3>3. QED
      BY <2>5, <3>2 DEF ShippedInv, Present, Serving, First
  <2>6. ASSUME NEW n \in Node, NEW e \in todo[n], First(n, e), SchedulerStore(e),
               at' = [at EXCEPT ![n] = "pause"], UNCHANGED <<status, phase, todo>>
        PROVE  ShippedInv'
    <3>1. e.job \in Job
      BY DEF TypeOK, Row
    <3>2. trigger'[e.job] = "WAITING"
      BY <2>6, <3>1 DEF SchedulerStore, TypeOK
    <3>3. \A f \in todo[n] : First(n, f) => trigger'[f.job] # "NONE"
      BY <2>6, <3>2, FirstIsOne
    <3>4. \A m \in Node : \A f \in todo'[m] :
            (First(m, f)' /\ at'[m] = "pause") => trigger'[f.job] # "NONE"
      BY <2>2, <2>6, <3>3 DEF ShippedInv, First, TypeOK
    <3>5. QED
      BY <2>1, <2>6, <3>4 DEF ShippedInv, Present, Serving
  <2>7. ASSUME NEW n \in Node, NEW e \in todo[n], PauseIfPaused(n, e), e.status # "NULL"
        PROVE  ShippedInv'
    <3>1. /\ todo' = [todo EXCEPT ![n] = @ \ {e}]
          /\ at' = [at EXCEPT ![n] = "lookup"]
          /\ UNCHANGED <<status, phase>>
      BY <2>7 DEF PauseIfPaused, table
    <3>2. trigger[e.job] # "NONE"
      BY <2>7 DEF PauseIfPaused, ShippedInv
    <3>3. \A m \in Node, j \in Shipped :
            phase'[m] = "init" => trigger'[j] # "NONE" \/ \E f \in todo'[m] : f.job = j
      <4> SUFFICES ASSUME NEW m \in Node, NEW j \in Shipped, phase[m] = "init", trigger'[j] = "NONE"
                   PROVE  \E f \in todo'[m] : f.job = j
        BY <3>1
      <4>1. PICK f \in todo[m] : f.job = j
        BY <2>1 DEF ShippedInv
      <4>2. f # e \/ m # n
        BY <2>1, <3>2, <4>1
      <4>3. QED
        BY <3>1, <4>1, <4>2 DEF TypeOK
    <3>4. \A m \in Node : \A f \in todo'[m] :
            (First(m, f)' /\ at'[m] = "pause") => trigger'[f.job] # "NONE"
      BY <2>2, <3>1 DEF ShippedInv, First, TypeOK
    <3>5. QED
      BY <2>1, <3>1, <3>3, <3>4 DEF ShippedInv, Present, Serving
  <2>8. ASSUME NEW n \in Node, Ready(n) \/ StartScheduler(n) PROVE ShippedInv'
    <3>1. /\ phase'[n] \in {"ready", "up"} /\ (phase[n] = "init" => todo[n] = {})
          /\ \A m \in Node : m # n => phase'[m] = phase[m]
          /\ phase[n] \in {"init", "ready"}
          /\ UNCHANGED <<status, trigger, todo, at>>
      BY <2>8 DEF Ready, StartScheduler, table, quartz, TypeOK
    <3>2. \A j \in Shipped : trigger[j] # "NONE"
      BY <3>1 DEF ShippedInv, Serving
    <3>3. QED
      BY <3>1, <3>2 DEF ShippedInv, Present, Serving, First
  <2>9. ASSUME NEW n \in Node, Crash(n) PROVE ShippedInv'
    BY <2>9 DEF Crash, ShippedInv, table, quartz, Present, Serving, First, TypeOK
  <2>10. ASSUME UNCHANGED <<phase, todo, at>>,
                \A j \in Job : ~Present(j)' => ~Present(j) \/ \E m \in Node : Serving(m)
         PROVE  ShippedInv'
    <3>1. \A j \in Shipped : trigger'[j] # "NONE" \/ Present(j)'
      BY <2>1, <2>10 DEF ShippedInv
    <3>2. QED
      BY <2>1, <2>2, <2>10, <3>1 DEF ShippedInv, Serving, First
  <2>11. ASSUME NEW n \in Node, Execution(n) PROVE ShippedInv'
    <3>1. UNCHANGED <<status, phase, todo, at>>
      BY <2>11, Zenon DEF Execution, Fire, ExecutionEnds, table, server
    <3>2. QED
      BY <2>10, <3>1 DEF Present
  <2>12. ASSUME NEW c \in Client, Request(c) PROVE ShippedInv'
    <3>1. UNCHANGED <<phase, todo, at>>
      BY <2>12, Zenon DEF Request, SwitchScheduler, SendRun, UpdateStatus, UpdateStatusFails,
         CloseForm, Run, Info, Delete, Update, Save, server
    <3>2. CASE UpdateStatus(c)
      <4>1. \A j \in Job : Present(j) => Present(j)'
        BY <3>2 DEF UpdateStatus, Present, TypeOK
      <4>2. \A j \in Shipped : trigger'[j] # "NONE" \/ Present(j)'
        BY <2>1, <4>1 DEF ShippedInv
      <4>3. QED
        BY <2>1, <2>2, <3>1, <4>2 DEF ShippedInv, Serving, First
    <3>3. CASE ~UpdateStatus(c)
      <4>1. UNCHANGED status \/ \E m \in Node : Serving(m)
        BY <2>12, <3>3, Zenon DEF Request, SwitchScheduler, SendRun, UpdateStatusFails,
           CloseForm, Run, Info, Delete, Update, Save, table
      <4>2. QED
        BY <2>10, <3>1, <4>1 DEF Present
    <3>4. QED
      BY <3>2, <3>3
  <2>13. CASE UNCHANGED vars
    BY <2>10, <2>13 DEF vars, table, server, Present
  <2>14. ASSUME NEW n \in Node, Startup(n) PROVE ShippedInv'
    <3>1. ASSUME NEW e \in todo[n], CreateScheduleJob(n, e) \/ UpdateScheduleJob(n, e)
          PROVE  ShippedInv'
      <4>1. CASE EndsBadly(n) /\ UNCHANGED <<table, quartz>>
        BY <2>5, <4>1 DEF table, quartz
      <4>2. CASE /\ SchedulerStore(e) /\ at' = [at EXCEPT ![n] = "pause"]
                 /\ UNCHANGED <<phase, todo, table>>
        BY <2>6, <3>1, <4>2 DEF CreateScheduleJob, UpdateScheduleJob, table
      <4>3. QED
        BY <3>1, <4>1, <4>2, Zenon DEF CreateScheduleJob, UpdateScheduleJob, EndsBadly
    <3>2. ASSUME NEW e \in todo[n], PauseIfPaused(n, e) PROVE ShippedInv'
      BY <2>5, <2>7, <3>2 DEF PauseIfPaused, EndsBadly, table
    <3>3. QED
      BY <2>4, <2>8, <2>14, <3>1, <3>2 DEF Startup
  <2>15. \A n \in Node : InitThrows(n) => ShippedInv'
    BY <2>5 DEF InitThrows, EndsBadly, table, quartz
  <2>16. QED
    BY <2>3, <2>9, <2>11, <2>12, <2>13, <2>14, <2>15 DEF Next
<1>3. ShippedInv => ShippedScheduled
  BY DEF ShippedInv, ShippedScheduled
<1>4. QED
  BY <1>1, <1>2, <1>3, Typing, PTL DEF Spec
=============================================================================
