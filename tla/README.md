# A TLA+ model of boot-actuator

boot-actuator monitors Spring Boot applications. Each monitored application
contains the *agent* (`actuator-service`); the *monitor* (`boot-monitor`) is a
web application that asks the agents over HTTP, stores samples of their JVM in
a database by means of clustered Quartz jobs, and shows samples and logs to
browsers over STOMP. The repository has no tests. This directory holds TLA+
modules of the parts that keep state, TLC runs of small instances, and proofs
of their main theorems for every size of the instance.

In this document BM stands for `src/boot-monitor/src/main/java/com/pflm`, RES
for `src/boot-monitor/src/main/resources` and AS for
`src/actuator-service/src/main/java/com/github/qinxuewu`.

## Inventory

| component | state | operations | modelled in |
|---|---|---|---|
| job scheduling, `BM/modules/job` | table `schedule_job`; Quartz store (`QRTZ_*`); start-up progress of each process; worker threads | `init` at start-up, firing, requests save, update, delete, pause, resume, run, info, list | `JobSchedule` |
| page of the scheduled jobs, `RES/templates/schedule/index.html`, `RES/static/lib/common.js`, `Query`, `PageUtils` | grid and selection, form, dialogs, requests under way | query, turn, select, add, update, save, delete, pause, resume, run, the answers | `JobPage` |
| executions and collector, `ScheduleJob`, `MonitiorTask`, `HttpUtil` | sample tables, the execution of each worker thread | `pullGc`, `pullThread`, `pullClassload`, `clearAll`, log of the execution | `Collector` |
| registry of applications, `ActuatorController`, `main.html` | table `sys_actuator`, the loaded page | `main`, `saveActuator`, `delete` | `Collector` |
| log reader of the agent, `LogReaderUtils` | static offset and queue, the log file | `run`, `poll`, one thread per request | `LogReader` |
| web log feed, `weblog.html`, `WebSocketController.weblog` | pages, timeouts, messages, requests to the agent | open, close, send, ask, time out, broadcast | `WebLog`, abstractly `Feed` |
| chart feed, `monitor.html`, `RES/static/js`, `WebSocketController` gc, cl, thread | tables, pages, loaded scripts, connections and subscriptions of three topics, timeouts, messages, handlers, charts | open, load, connect, subscribe, send, query, broadcast, draw, close, lose the connection | `ChartFeed`, `Charts`, abstractly `Display` |
| agent endpoints, `CoreController`, `FileController`, `Jstat`, `Jstack`, `Jmap`, `ExecuteCmd` | request threads, child processes and their pipes, snapshot files | thread, classload, gc, runexec, heapDump, threadDump | `Commands`, `Charts` |
| users and sessions, `ActuatorController`, interceptor | table `sys_user`, HTTP sessions | `checkLogin`, `logiout`, `saveUser`, `delUser` | not modelled |
| conversions: `PageUtils`, `Query`, `ByteConvKbUtils`, `DateUtils`, `Base64Util`, `Arith`, `Server` | none | pure functions | units in `Charts`, paging in `JobPage`, the rest not |

How they interact. The pages call the controllers; `ScheduleJobController`
calls `ScheduleJobServiceImpl`, which calls the Quartz scheduler and the table
one after the other, with no transaction around both. At start-up `init` copies
the table into the store. Quartz fires a trigger, a worker thread runs
`ScheduleJob`, which calls a method of `MonitiorTask` by reflection and waits;
that method reads the registry, calls each agent through `HttpUtil.URLGet` and
inserts a row. The agent answers from the output of `jstat` and `jstack`, which
the request thread runs and reads. The log page sends a STOMP message; the
handler calls the agent, whose request thread reads the log file into a static
queue and blocks in `take` until there is a line; the answer is broadcast to
every open page, and each page sends its next message half a second later. The
chart page opens three such connections; there the handler reads the rows of
the page's application, and the callback draws up to eight charts before it
sets the timeout that asks again. The page of the jobs sends asynchronous
requests, whose answers call its callbacks in any order.

What is hard about each, and what makes it correct:

* *Job scheduling*: two stores are changed one after the other, by requests that
  overlap, in processes that crash; start-up passes through states that must not
  be observed. Correct: status and trigger agree whenever nobody is busy with
  the job; a paused job does not fire; every shipped job is scheduled while the
  monitor serves; a normal one is executed again and again.
* *Page of the jobs*: nothing blocks the page while a request is under way; the
  selection outlives the rows it was made of, the form outlives the save.
  Correct: the list shows the table when everything is answered; what is
  operated on is in sight; a form makes one job; an edit does not switch a job.
* *Collector*: one step of a loop over applications fails; midnight falls
  between dating and inserting a sample; the list changes under an execution.
  Correct: success in the log means everybody answered; midnight leaves at most
  one row of an earlier day for each thread; deleted applications are forgotten;
  what is up is sampled.
* *Log reader*: threads without locks on a static offset and queue, a queue at
  its limit, a file that grows or is rotated between two looks at it, an I/O
  error that is swallowed half-way. Correct: no line is lost, none comes twice,
  they come in order, a request that finds lines gets one answered; each
  property says which of these disturbances it does not survive.
* *Web log feed*: one message begets the next; an answer that is lost, or
  broadcast before the page has subscribed, ends the chain, two pages multiply
  it; an abandoned request goes on in the agent. Correct: an open page keeps
  exactly one message, request or timeout alive, and shows lines in order.
* *Chart feed*: answers arrive while scripts still load, before the subscription
  is registered, or with no rows; one name means two functions; broadcasts reach
  the pages of other applications. Correct: a topic goes on unless one of these
  faults was met; the charts of a topic show the same rows, never older ones
  than before; each line is the measurement its legend names.
* *Agent endpoints*: a process with two pipes of which one is read; an exit code
  nobody looks at; a file name shared by all requests; a tool that refuses to
  overwrite. Correct: a command ends; a thread dump is what the tool printed for
  the request that asked for it, a heap dump what was written of one dump.

## Modules

* `JobSchedule`: one step is one database or scheduler call. `Start`,
  `GetCronTrigger`, `CreateScheduleJob`, `UpdateScheduleJob`, `PauseIfPaused`,
  `Ready`, `StartScheduler` are `ScheduleJobServiceImpl.init` row by row (and
  the 30 s start-up delay); `Crash` may come at any point. A start-up ends as
  `failed` when `init` cannot handle a row, and as `threw` when the scheduler or
  the database throws under one of its calls (`InitThrows`; also when two
  processes create the same trigger). The requests `SwitchScheduler` and
  `UpdateStatus` are the two halves of pause and resume, the second of which may
  fail; `Info`, `Update`, `CloseForm` keep the row an open form holds. `config`
  is one value for bean, method, parameters and cron expression; the entity
  Quartz serialises with the trigger is `snapshot`. The history variable `torn`
  names the jobs on which requests overlapped, failed half-way or wrote an old
  status, until the next start-up.
* `JobPage`: the browser's side of the same requests. `list` (grid, page,
  selection), `view` (which of list and form is shown, the title, the form) and
  `dialog` are the state of the page; `net` holds the requests under way, each
  of which is served by the monitor (`Serve`) and later received by the page
  (`Receive`), or is lost or answered with an error code (`Fail`). `ErrorCode`
  is what the callbacks make of the answer of `MyExceptionHandler`: an empty
  grid, a form without a job, or an alert that leads nowhere. `Populate` is
  jqGrid's, which ignores a reload while it is loading. The history variable
  `trouble` collects what the page does not protect its operator from: `hasty`
  (something is clicked while a request is under way), `dismissed` (an alert is
  closed by its cross, which skips the callback), `failed` (the effect of
  `Fail`) and `others` (another operator changes the table). Each property says
  which of them it excludes.
* `LogReader`: a step is a statement of `LogReaderUtils.run` or `poll` that
  reads or writes the file or a static variable. Lines are numbered, sizes count
  lines. `Rotate` renames the file: an open handle goes on reading the old one.
  `OpenFails` and `ReadFails` are the I/O errors `run` catches; the thread
  prints the stack trace and goes on to `take`. The history variable `broken`
  says that one of them has left lines queued which do not count as read.
* `Feed`: the abstract specification of a log page: lines appear in order, at
  most once, after they are written, as long as it is `undisturbed`.
* `WebLog`: composes browser, monitor and agent; the agent is `INSTANCE
  LogReader` (`Agent`), every action of which is wrapped by `Serve` or `Log`. A
  page connects (`OpenPage`), then subscribes and sends (`Connect`); the broker
  registers the subscription in a step of its own (`Subscribe`), and an answer
  broadcast before that is missed. `ClosePage` is also the loss of the
  connection, for which the page has no handler. The variable `asked` says
  whether the monitor still waits for the request a thread works for; `lost`,
  that a request ended without an answer or a page missed one. `solo` is what
  the only page shows, except what an I/O error makes it show again, and `F ==
  INSTANCE Feed WITH shown <- solo, undisturbed <- ~broken` states the
  refinement.
* `Collector`: the registry, an execution (`Fire`, `Ask`, `Date`, `Insert`,
  `InsertFails`, `Finish`, `SaveLog`), `Midnight` and `ClearAll`, and the main
  page (`Open`, `Save`, `Delete`). The three pull methods differ in endpoint and
  table: there is one. `Without` is what the SQL `DELETE ... WHERE name` leaves,
  in the order of the ids. The history variable `late` counts the rows of
  earlier days that each thread has stored since midnight; `missed` says that
  the process was down then, or has been since.
* `Charts`: constants and operators only. A measurement is the column of the
  tool it comes from and its unit (`Measure`); `gc`, `classload` and `threads`
  are the entities the agent fills by position, `pullGc`, `pullClassload` and
  `pullThread` what the monitor converts and stores, and there is one definition
  for each script `s0.js` ... `thread.js`. `Callback` is the order in which a
  topic's callback draws, `Scripts` the order in which `monitor.html` loads.
  `Meaning` is what the legends name, `Glossary` the units the README of the
  repository gives the columns in, `Truthful` the comparison with both.
* `ChartFeed`: extends `Charts`. A *wire* is one topic of one page;
  `connecting`, `joining`, `joined`, `timer` and `sent` count its connections
  that open, that wait for their subscription, that are subscribed, its timeouts
  and its messages; `work` and `answer` are the handlers of the monitor between
  the query and the broadcast. `Broadcast` is the whole callback in every page
  that receives: `Drawn` charts, the next timeouts, or, where `socket.js`'s own
  `thread` has not been redefined yet (`Again`), one more connection. `fault`
  remembers what a wire cannot recover from: `script`, `empty`, `missed`,
  `lost`, `failed`.
* `Display`: the abstract specification of the chart page: each topic is
  refreshed as if one thread read the rows of the page's application, drew all
  charts of the topic, and read again; what it has read may be lost. `D ==
  INSTANCE Display` in `ChartFeed` maps `read` to the answer of the thread that
  works for the wire (`UnderRead`); connections, subscriptions, timeouts and
  messages map to nothing. It promises nothing once the page is disturbed: a
  second page was opened, or an answer came before the scripts (`Undisturbed`).
* `Commands`: `Exec`, `ReadLine`, `Destroy` are `ExecuteCmd.execute`; the
  process is a record of what it has still to print, to complain and to dump,
  and of what its pipes hold; `WriteOut`, `Complain`, `HeapCreate`, `HeapWrite`
  and `Exit` are its steps. A tool may print and dump anything from nothing to
  the whole, for the code never asks how it ended. `ReadFails` is the I/O error
  that `execute` catches while the process runs on (`left`), `FileError` the one
  the request does not catch. A file is a sequence of pieces, each marked with
  the request that wrote it; `Put` is a write at the writer's own offset.
  `shared` remembers the requests during which another one wanted the same file,
  `printed` what a tool prints in all, `heap` whose heap dump there is and how
  much of it.
* `MCJobSchedule`, `MCLogReader`, `MCWebLog`, `MCCollector`, `MCChartFeed`,
  `MCJobPage`, `MCCommands`: instances for TLC, symmetry sets, and the promises
  of comments and documents the code breaks.
* `JobSchedule_proofs`, `LogReader_proofs`, `Collector_proofs`, `WebLog_proofs`,
  `WebLogFeed_proofs`, `ChartFeed_proofs`, `JobPage_proofs`, `Commands_proofs`:
  theorems.

The definitions named `...Forgotten`, `...Skips`, `FireCached` and the like,
under a comment that begins with "Mutant", are variants of an action with a
plausible bug. No specification uses them; they show that a property notices
such a bug.

## Runs

| run | question | result |
|---|---|---|
| `JobScheduleOperators` | one process, two operators, a good and a bad cron expression: do table and scheduler agree, does a paused job stay quiet, what stops a start-up, is a normal job executed again and again? | holds, 696 222 states |
| `JobScheduleCluster` | two processes, two shipped jobs: is every shipped job scheduled while one serves? | holds, 145 706 states |
| `JobScheduleStartup` | do start-ups succeed? | violated: a job saved on the page has a null status |
| `JobPage` | one operator, two pages of the list, two requests under way, one trouble of any kind: selection, saves, list, status | holds, 1 633 998 states |
| `LogReaderRequests` | two request threads, a rotation, a queue that fills, I/O errors: order, losses, answers | holds, 276 217 states |
| `WebLogPages` | two pages, late subscriptions, lost answers and connections: do pages go on, do messages multiply, what is shown? | holds, 2 591 018 states |
| `WebLogStops` | an application that logs nothing for 25 s: does its open page show the log sooner or later? | violated: one timeout ends its feed |
| `CollectorSamples` | success, rows left over at midnight, deletion, and who is sampled | holds, 481 572 states |
| `CollectorBlind` | is an application that is up sampled whatever the others do? | violated: one that is down before it hides it |
| `ChartPages` | two pages, one or two applications, a topic of eight charts: do topics go on, do queries multiply, whose rows and which are drawn, what do the lines mean? | holds, 337 151 states |
| `ChartAlone` | one page, the topic `thread`, two handlers: does a chart go back to older rows, does it show new ones, does the page implement `Display`? | holds, 26 540 states |
| `Commands` | two requests, tools that print, complain, fail half-way or block, I/O errors: whose is a snapshot and how much of it, do commands end? | holds, 733 518 states |

Every property of a run that holds has a mutant of the code that violates it.

### Bounds, and why they are enough

* `JobScheduleOperators`: job 1 is shipped, job 2 is added on the page: the two
  kinds of rows there are. Two operators are what an overlap needs; with two
  worker threads one job can hold one, or both, while the other is due. Triggers
  of different jobs do not influence each other but through start-up order and
  the worker threads, which two jobs exercise. `JobScheduleCluster` has two
  processes because a race of start-ups needs two. The theorems below lift these
  bounds.
* `JobPage`: `PageSize` 1 and two jobs give a second page of the list that a
  delete can empty; two `Slot`s are what it takes to answer in another order;
  one form for a new job and `MaxTrouble` 1, so that each kind of trouble is met
  alone, at any point. Ids are not used again, as `AUTO_INCREMENT` does not.
* `LogReaderRequests`: `Capacity` 2 with `MaxLines` 2 fills the queue, as a line
  that is read twice takes two places; two threads are what a race needs;
  `MaxFiles` 2 is one rotation. The code's capacity is 10 000 and appears in no
  other place.
* `WebLogPages`: `Capacity` 1 and `MaxLines` 2 fill the queue; two pages are
  open together or one after the other, so that answers of the request of a
  closed page arrive; `Handlers` 2 stands for the 20 connections of `HttpUtil`.
  `MaxChains` 3 cuts the growth of messages off, which begins only with two open
  pages; the properties of one page reach at most two. `SmallLog` admits two
  lines, or one line and a rotation: a rotation with two lines is in
  `LogReaderRequests`, and the theorems hold for any log. `WebLogStops` has
  `QuietSpec`: the application writes only while no request is waited for, the
  queue holds all lines, no subscription is late, nothing fails, and a request
  takes too long only if it waits in `take` for a line. So the counterexample is
  the blocked poll and nothing else.
* `CollectorSamples`: two applications, one before the other in the table, in
  either order and also registered twice; days 1 to 3, hence two midnights, so
  that a row can be late at one and be cleared at the next, and a first day with
  or without samples of day 0, as the rows `actuator.sql` ships. Two executions
  share the table of samples and nothing else, and each asks the list it has
  read, so one worker thread shows what the properties are about; the theorems
  hold for any number.
* `ChartPages`: the three topics have no state in common, so a run has one; `gc`
  has the most charts. `LoadSteps` 0, 4, 14 let an answer arrive before, amid
  and after the scripts of its charts; `MaxSamples` 1 tells an empty table from
  one that has rows; `MaxChains` bounds the growth that begins with two open
  pages. `ChartAlone` has the topic `thread`, whose function has two meanings,
  hence `LoadSteps` 0, 13, 14, and two samples and two handlers, so that queries
  can overtake each other. With one topic the run does not show that topics do
  not meet, which the theorem does (`DisplayHolds`).
* `Commands`: a dump of two pieces can be torn or end half-way; a pipe that
  holds one piece blocks a tool that prints two, and one whose complaints do not
  fit. Two requests overlap or follow each other, by threads that are
  interchangeable (`FirstComesFirst` names the first). `thread` and `stat` take
  the path of `runexec`, touch no file, and are not asked. A thread whose
  process was left running gets no further request here; another one does.

`CHECK_DEADLOCK FALSE` is set where the system may come to rest: all lines
written and read, all pages closed, the bound on days reached with the process
crashed, or, in `Commands`, all requests made, or their threads waiting for a
tool that is blocked.

### Fairness

* `JobSchedule`: weak fairness of `init`, of the end of an execution, of
  handlers that have begun, and of firing each job. Not strong fairness of
  firing: the triggers are built with `withMisfireHandlingInstructionDoNothing`
  and the threshold is 12 s, so one that finds all threads busy for longer skips
  its turn, and may do so again and again. `NormalJobRuns` therefore speaks of a
  process that keeps a thread for the job, either free or executing it. No
  fairness of operators, of starting a process, or against crashes and errors.
* `LogReader`: a request thread runs on unless `take` blocks it. Nobody has to
  send requests (`FairSpec`).
* `WebLog`: connections are made and subscriptions registered, timeouts of open
  pages fire, handlers and request threads run on, a request is not waited for
  longer than the socket timeout (`QuietFairness` of `WebLogStops` says the same
  of its steps). Nobody has to open or close a page.
* `Collector`: the trigger fires each minute, executions run on, and the
  database does not refuse the rows of one application for ever (strong fairness
  of `Samples`; without it nothing could be said of samples). In `DiligentSpec`
  an operator loads the page again and again and deletes what is down when the
  page lets him: the run `CollectorBlind` fails in spite of it.
* `ChartFeed`: scripts load, connections open, subscriptions are registered,
  timeouts fire and handlers broadcast (weak); each message is handled in the
  end (strong, because the broker's thread pool serves its queue in order while
  the threads are free only now and then). Nobody has to open a page, and no
  fault has to stay away: `CatchUp` excuses a wire that met one.
* `Commands`: request threads and processes run on, unless they are blocked; but
  the command of `runexec` may be one that never ends. Nothing has to fail.
* `JobPage` has safety and step properties only, and no fairness.

## Proofs

TLAPS checks the following for every value of the constants that satisfies the
named assumptions (`JobAssumption`, `ConfigAssumption`, `BoundsAssumption`,
`PageAssumption`, `AppAssumption`, `ChartAssumption`, `JobPageAssumption`,
`CommandsAssumption`, `AskedAssumption`: ids are numbers, shipped jobs are jobs
and have a cron expression that parses, sets of pages and handlers are finite,
bounds and sizes are numbers).

* `JobSchedule_proofs`. `Typing`: `TypeOK` is inductive. With one process
  (`OneProcess`), `SyncInvariance` proves the invariant `SyncInv`, from which
  `AgreementHolds`, `NewJobUnscheduledHolds` and `FailureHasCauseHolds` follow.
  `Agreement` is not inductive: it speaks of a process that serves, so the
  invariant adds what `init` has achieved so far (`DoneInv`: rows it is done
  with are synchronised; `TodoInv`: rows still to handle are those of the table;
  `StepInv`: what the call in progress has established) and what the first half
  of a pause or resume has (`HalfInv`). `FailureHasCause` speaks of start-ups
  that `failed`, not of those that `threw` because the stores did not answer.
  `PausedNeverFiresHolds` and `PoisonIsLastingHolds` are step properties proved
  from it. For any number of processes, `ShippedScheduledHolds` rests on
  `ShippedInv`: a process that starts has, for every shipped job, the row still
  to handle or already its trigger.
* `JobPage_proofs`. `FormTitleHolds` needs `Filled`: the answer of an info that
  is under way holds the id of a job. `SelectionShownHolds` needs
  `SelectionInv`: nothing is selected while a list is loading.
  `NoDoubleSaveHolds` needs `Orderly`: an operator who waits has at most one
  request under way, and the dialog that is open fits to it (`InTurn`);
  `SaveInv` adds that no form that is open, or on its way, has made a job yet.
  `StatusKeptHolds` rests on `StatusInv`: a form that changes a job agrees with
  the row of the job about its status, while it is shown, on its way to the page
  and on its way back. `GridIsTrueHolds` rests on `GridInv`: a list on its way
  is true, and so is the one shown unless an alert is about to reload it (an
  operation that was answered with an error code is a trouble, which the
  property excludes).
* `LogReader_proofs`. `Typing` needs that open files exist and no file is longer
  than what was written (`FilesInv`). `OnlyLateLinesLostHolds` rests on
  `ReadInv`: not only the lines below the offset are settled (answered, queued,
  or late) but also those a thread has gone past and is about to count.
  `InOrderHolds` rests on `OrderInv`: as long as no two threads were in `run` at
  a time, the queue was never full and no I/O error has left lines queued, the
  queue is in order and above the newest line that was answered, one thread at
  most runs, and what will be read next is above the queue (`Fresh`): from the
  offset on, or all of the file if it is shorter than the offset, and for a
  thread from its place on and in all later files. Lines are numbered upwards
  over the files (`Upwards`). `LoneStep` extends this to the full queue as long
  as one thread is at work (`Lone`): then the lines from the offset on may be
  queued already, but no thread takes one before there is a new file, since each
  finds lines to read and fails with the first (`Stuck`).
* `WebLog_proofs`. `PagesGoOn` is not inductive: when a page opens, its message
  may be handled and answered to other pages as well. `Counts` says what is:
  while no answer is lost, which one that finds a page still joining is, there
  is a message or a request for each page that is connected and has no timeout
  (`Silent`), because each answer gives all open pages one; and without two open
  pages at a time, no more chains than pages opened. From it follow
  `PagesGoOnHolds` and `ChainsBoundHolds`; the lemmas before it count the
  timeouts of all pages, a union of sets (`TimeoutsMore`, `TimeoutLess`).
  `Typing` needs in addition that what the log reader reads is a line
  (`Reader`). `OnePageIsSerialHolds` rests on `Serial`: while one page has been
  opened there is one connection being made, one thread at work, one message or
  one timeout at most, threads the monitor has given up included.
* `WebLogFeed_proofs` proves that `WebLog` implements `Feed` (`FeedHolds`), and
  `PageShowsWhatIsReadHolds`. It takes over the invariants of the log reader (`L
  == INSTANCE LogReader_proofs`) after showing that each step of `WebLog` is a
  step of the log reader or leaves it alone (`SameStep`). While one page has
  been opened one thread is at work (`OneThread`, from `Serial`), so `LoneStep`
  holds; `Delivery` adds that, until an I/O error disturbs the order, the answer
  on its way is the newest line and what is shown is older. `Arrives` says that
  what was taken from the queue is on the page or on its way, unless an answer
  or the connection was lost; with `ReadInv`, nothing that counts as read is
  lost, I/O errors or not.
* `Collector_proofs`. `IInv` strengthens `LeftOversAreFew` by "no sample is
  dated in the future", by `Few`, that a thread that holds a row of an earlier
  day has not stored one since midnight (once it is stored, the next is dated
  anew), and by `Sound`, what holds of each execution: it is not dated in the
  future, a failure is only left to be logged, and one that has not failed has
  met nobody who was down. `Typing`, `LeftOversAreFewHolds` and
  `SuccessMeansAnsweredHolds` follow. `WithoutType` proves that the list without
  one name is a list and not longer, by counting ranks (`FiniteSetTheorems`).
  `DeletedIsForgottenHolds` gives an injection from the requests still to be
  made into those before: the same place of the list, or one place further when
  a thread goes on to the next application (`FS_Injection`).
* `ChartFeed_proofs`. `PagesGoOn` is inductive as it stands: each step that ends
  a chain begins the next one or sets a fault (`Alive`). `InStepHolds`: a
  broadcast draws all charts of a topic or sets the fault. `OwnAppHolds` needs
  that whatever is under way comes from a page that was opened (`Wires`), that
  an answer is for the application of its page (`Works`), and that each chart
  shows the rows of the application of some page that was opened (`Shows`).
  `NeverStepsBackHolds`: with only one page opened (`Sole`) each topic has one
  connection and one query or timeout (`OneChain`), rows only become newer
  (`Tables`, `Read`), and charts are behind the table and the answers under way
  (`Behind`). `ChainsBoundHolds`: `Chained` counts what is under way on the
  wires of a topic (`UnderWay`), by lemmas on totals of counters (`CountChange`,
  `CountLess`) and on sets of threads (`ServedDone`, `ServedQuery`). It is
  inductive together with `Live` (connections are those of open pages) and
  `OneConnection` (one page is open and each wire of it has one connection at
  most), by which an answer gives back to its topic one timeout for the thread
  it takes, and a page that opens adds one. `ChartsTruthfulHolds` computes, for
  each line of each of the 14 scripts, the measure that reaches it through agent
  and monitor: one lemma for each entity (`GcRow` and the like), one for each
  topic. `DisplayHolds` is the refinement: `OneChain` makes the thread of a wire
  unique, so that `UnderRead` is its answer (`UnderReadNow`); then a query is a
  read (`QueryReads`), the end of a thread without a drawing a loss, a broadcast
  a drawing of all charts of the topic or a loss (`BroadcastDraws`: if some were
  not drawn, the page is disturbed), and all else leaves `Display` alone. What
  disturbs a page is never undone (`UndisturbedBefore`), so that invariants of
  the only page may be used.
* `Commands_proofs`. `Reading` says what a request has read, written and left
  running at each of its points: what it has read, what is in the pipe and what
  the tool has still to print is all the tool prints. `Exclusive`: two requests
  for one file know of each other. `Heap`: at most one process is in the middle
  of the heap dump, the file holds exactly what that has written, and otherwise
  all that its process was to write. `Dump`: the thread dump of a request that
  has the file for itself is what it wrote. `Kept`: a heap dump that was
  answered is still there. `Numbered`: requests and answers keep their numbers.
  From these follow `Typing` (which bounds the length of the files),
  `HeapDumpFirstHolds` and `ThreadDumpOwnHolds`.

Only model-checked: all liveness (`NormalJobRuns`, `UnreadAnswered`,
`ReachedIsSampled`, `CatchUp`, `CommandEnds`), which TLAPS cannot do. Every
other property of a run that holds is proved. `FormTitle` is proved and not
run: with `Filled` it is inductive for every number of jobs and requests.

## Where code and documents disagree

The violation runs give a behaviour for each of these; `PROJECT.json` quotes
the lines.

1. A job saved on the page has a null status; the next start-up unboxes it and
   fails, and so does every later one (`JobScheduleStartup`).
2. A poll of an application that logs nothing for 25 s ends the feed of the page
   for good (`WebLogStops`).
3. One application that is down hides those after it, and the page that could
   delete it (`CollectorBlind`).

Others were met while modelling; the model has the behaviour, no run is about
it alone.

* Jobs. Delete removes the row, not the trigger, which goes on firing
  (`deleteScheduleJob` of `ScheduleUtils` has no caller). A pause and a resume
  that overlap leave a job listed as paused that fires (`torn`). The request to
  run a job at once is answered and does nothing. An update of a job is not
  applied until the next start-up (`snapshot` differs from `config`). While a
  second process starts, the trigger of a paused job is `WAITING` for a moment,
  in which the first can fire it, which is why `PausedNeverFires` is stated for
  one process.
* The page of the jobs. An alert that is closed by its cross leaves the form
  open, and it can be saved a second time (`dismissed`); so can a form whose
  save is not answered yet (`hasty`). After the last row of the last page is
  deleted the list stays on that page, which is empty. The edit of a job that
  was deleted meanwhile opens a form without a job (`Null`), and so does one the
  monitor answers with an error code. After an operation that fails, the alert
  shows the message and the list is not loaded again. The list is selected
  without an `ORDER BY`.
* Logs. Two polls that overlap read the same lines. A poll that fails on the
  full queue does not advance the offset, so that each later poll reads the same
  lines and fails again, until a rotation. Lines between the end of reading and
  the second call of `length()` are never read (`late`). `run` swallows an
  `IOException`: if the log cannot be opened, the poll waits in `take` beside
  unread lines; if reading fails half-way, the lines it queued are read, and
  answered, a second time (`broken`).
* The log page. An answer that is broadcast before the page's subscription is
  registered, or the loss of the connection, ends the feed of the page as a
  timeout does (`lost`, `ClosePage`).
* Charts. Midnight empties the tables, and an empty answer throws in the first
  chart (`data[0]`): every chart page that asks before the next sample stops
  (`empty`). A query that is answered before the subscription, or a connection
  that is lost, stops its topic (`missed`, `lost`). Two open pages double the
  queries with each round, and draw each other's applications. The README of the
  repository gives ten columns of `jstat` in KB (`src/README.md:109-121`); the
  monitor converts these to MB, and their charts say MB (`Glossary`, `ShownIn`).
  For `MC` and `CCSC` it gives no unit; the charts show them in MB, too.
* Agent. Nobody looks at the exit code of a tool: a thread dump of which half
  was printed, or a heap dump of which half was written, is served as ok, the
  latter to all later requests as well. A command whose output cannot be read is
  left running. Nobody reads the error output of a tool, so one that complains
  more than the pipe holds blocks, and the request with it. `jmap` refuses a
  file that exists: every later heap dump is the first one. If `jstack` prints
  nothing the thread counts are zeros, and the answer is ok.
* Registry. An application can be registered twice, because `saveActuator`
  overwrites its query for the url with the name.

## Abstractions, and what is not modelled

* `JobSchedule` and `JobPage` look at the same requests from their two ends and
  are checked apart: composed, their states would multiply. `JobPage` keeps bean
  name and status of a row; the filter by bean name and the other columns are
  left out, and the list comes in the order of the ids, which the SQL does not
  ask for but a scan of the primary key gives. An error code comes before the
  table is changed.
* `LogReader` counts whole lines: a last line read before its end is written is
  not modelled, nor is the file left open when `add` throws. `File.length`
  returns 0 for a file that cannot be looked at; here it always can.
* `WebLog` has one monitored application. All pages share one topic, so pages of
  two applications show each other's lines. The 20 connections of `HttpUtil`
  that waiting polls hold are `Handlers`; that they also keep other requests
  waiting is left out. A page whose connection is lost is one that is closed: it
  stays in sight, but gets and sends nothing any more.
* `Collector`: the request of the main page asks all applications at one moment;
  count and insert of `saveActuator` are one step; the thread each execution
  leaves behind and a log entry that cannot be saved are left out; the fields of
  a sample are in `Charts`, here only the day of its date is there.
* `ChartFeed`: the interval of the refresh and the button that changes it are
  left out, a timeout may fire at any time; a broadcast reaches all pages in one
  step.
* `Commands`: what a tool is going to print, complain and dump until it ends,
  fails or is killed is decided when it starts; what `jmap` prints is left out,
  as the request throws it away. The pipes of a process that was left running
  are there until it ends: it blocks on them like any other. `systemInfo`, which
  only reads the operating system, is not there.
* The demo switch `actuatorTtype`, which makes changes fail, is off.
* Not modelled: users and sessions. Login and logout set and clear one attribute
  of a session, which no other part reads but the interceptor; that `saveUser`
  counts and inserts in two steps without a unique key is listed as a hazard.
* Not modelled: list requests and pages that only read, entities and mappers
  beyond their columns, exception handlers (but for what `JobPage` makes of
  their answer), interceptors, SQL filter, Md5, DES, dates, base64 and vendored
  JavaScript: stateless or library code.

## Plan

Done, in this order: `JobSchedule` with its proofs; `LogReader` with its proofs;
`Feed` and `WebLog` with the proof of the refinement; `Collector` with its
proofs; `Charts` and `ChartFeed` with proofs; `JobPage` with proofs; `Commands`
with proofs; `Display` with the proof of the refinement.

Left:

1. `Accounts`: two operators adding a user in two steps, and the login of a name
   that is there twice.
2. `Collector`: several threads in one run if a smaller state allows it, the
   executor threads, a failing log.
3. Pure conversions (base64, dates) against reference definitions.
4. Proofs: what the start-ups of several processes leave true of `Agreement`, and
   abstract specifications of the scheduler and of the snapshots of `Commands`.
