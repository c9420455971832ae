------------------------------- MODULE JobPage --------------------------------
(***************************************************************************)
(* The page of the scheduled jobs: a list with a selection, a form, and    *)
(* dialogs that block the page while they are open.  What the operator     *)
(* does is sent as asynchronous requests, and nothing blocks the page      *)
(* while one is under way: the answers come in any order, or not at all.   *)
(*                                                                         *)
(* Source: templates/schedule/index.html, static/lib/common.js,            *)
(* ScheduleJobController, Query, PageUtils and the SQL of                  *)
(* ScheduleJobDao.xml.  The grid and the dialogs are libraries (jqGrid,    *)
(* layer), modelled by what the page relies on.  Of a job, the row is its  *)
(* bean name and its status; module JobSchedule models the scheduler.  The *)
(* filter by bean name is left out.                                        *)
(***************************************************************************)
EXTENDS Naturals, FiniteSets

CONSTANTS
    Job,        \* ids, in the order AUTO_INCREMENT gives them
    Bean,       \* bean names
    Slot,       \* requests that can be under way at the same time
    PageSize,   \* rows of a page of the list
    MaxForms,   \* bound: forms for a new job
    MaxTrouble  \* bound: kinds of trouble in one behaviour, each of them once

ASSUME JobPageAssumption ==
    /\ IsFiniteSet(Job) /\ Job \subseteq Nat \ {0}
    /\ "" \notin Bean /\ PageSize \in Nat \ {0} /\ MaxForms \in Nat /\ MaxTrouble \in Nat

VARIABLES
    rows,       \* the table
    grid,       \* the rows the list shows
    current, last,  \* of the grid: page, number of pages
    selected,   \* selarrrow: the rows that are selected
    showList, title, schedule,  \* data of the view; schedule is the form
    dialog,
    net,        \* the requests under way
    forms,      \* number of forms opened for a new job
    made,       \* history: those of which a job was made
    twice,      \* history: two jobs were made of one form
    trouble     \* history: what the page does not protect the operator from

view == <<showList, title, schedule>>
list == <<grid, current, last, selected>>
history == <<forms, made, twice>>
vars == <<rows, list, view, dialog, net, history, trouble>>

New == 0            \* the id of a form that has none
Status == {"NULL", "NORMAL", "PAUSE"}
Row == [status : Status \cup {"free", "gone"}, bean : Bean \cup {""}]
Form == [job : Job \cup {New}, status : Status, bean : Bean \cup {""}, no : 0..MaxForms]
Null == [job |-> New, status |-> "gone", bean |-> "", no |-> 0]   \* no schedule in the answer

Idle == [op |-> "idle"]
NoDialog == [kind |-> "none"]
Alert(reload) == [kind |-> "alert", reload |-> reload]

Busy == {s \in Slot : net[s] # Idle}
Loading == \E s \in Busy : net[s].op = "list"
Present(j) == rows[j].status \in Status

Init ==
    /\ \E n \in SUBSET Job :
          /\ \A i \in n : \A j \in Job : j < i => j \in n
          /\ rows \in [Job -> Row]
          /\ \A j \in Job :
                rows[j].status = (IF j \in n THEN "NORMAL" ELSE "free") /\ (rows[j].bean = "" <=> j \notin n)
    /\ grid = << >> /\ current = 1 /\ last = 0 /\ selected = {}
    /\ showList = TRUE /\ title = "" /\ schedule = [Null EXCEPT !.status = "NULL"]
    /\ dialog = NoDialog
    /\ \E s \in Slot : net = [t \in Slot |->
          IF t = s THEN [op |-> "list", page |-> 1, served |-> FALSE] ELSE Idle]
    /\ forms = 0 /\ made = {} /\ twice = FALSE /\ trouble = {}

-----------------------------------------------------------------------------
(* Requests.                                                               *)

Send(r) == \E s \in Slot \ Busy :
    net' = [net EXCEPT ![s] = r]

Trouble(kind) ==
    /\ kind \notin trouble /\ Cardinality(trouble) < MaxTrouble
    /\ trouble' = trouble \cup {kind}

\* The operator does something on the page, perhaps while a request is under way.
Hastily == IF Busy # {} THEN Trouble("hasty") ELSE UNCHANGED trouble
Acts == dialog = NoDialog /\ Hastily

\* populate of the grid: nothing while it is loading.
Populate(page) ==
    IF Loading THEN UNCHANGED net
    ELSE Send([op |-> "list", page |-> page, served |-> FALSE])

-----------------------------------------------------------------------------
(* The list.                                                               *)

Select(j) ==
    /\ Acts /\ showList /\ j \in DOMAIN grid
    /\ selected' = IF j \in selected THEN selected \ {j} ELSE selected \cup {j}
    /\ UNCHANGED <<rows, grid, current, last, view, dialog, net, history>>

\* The pager of the grid.
Turn(p) ==
    /\ Acts /\ showList /\ p \in 1..last /\ p # current
    /\ current' = p /\ selected' = {}
    /\ Populate(p)
    /\ UNCHANGED <<rows, grid, last, view, dialog, history>>

\* Mutant: the selection stays too.
ReloadKeepsSelection ==
    /\ showList' = TRUE
    /\ Populate(current)
    /\ UNCHANGED <<grid, current, last, selected, title, schedule>>

\* reload: the page number stays.
Reload ==
    /\ showList' = TRUE
    /\ selected' = {}
    /\ Populate(current)
    /\ UNCHANGED <<grid, current, last, title, schedule>>

\* query, and the way back from the form.
Query == Acts /\ Reload /\ UNCHANGED <<rows, dialog, history>>

-----------------------------------------------------------------------------
(* The form.                                                               *)

add ==
    /\ Acts /\ showList /\ forms < MaxForms
    /\ forms' = forms + 1
    /\ showList' = FALSE /\ title' = "add"
    /\ schedule' = [job |-> New, status |-> "NULL", bean |-> "", no |-> forms + 1]
    /\ UNCHANGED <<rows, list, dialog, net, made, twice>>

\* Mutant: the form is filled with the row as the list shows it.
UpdateFromGrid ==
    /\ Acts /\ showList /\ Cardinality(selected) = 1
    /\ \E j \in selected \cap DOMAIN grid : schedule' =
          [job |-> j, status |-> grid[j].status, bean |-> grid[j].bean, no |-> 0]
    /\ showList' = FALSE /\ title' = "update"
    /\ UNCHANGED <<rows, list, dialog, net, history>>

\* The answer of /schedule/info will open the form.
update ==
    /\ Acts /\ showList /\ Cardinality(selected) = 1
    /\ \E j \in selected : Send([op |-> "info", job |-> j, served |-> FALSE])
    /\ UNCHANGED <<rows, list, view, dialog, history>>

TypeBean(b) ==
    /\ Acts /\ ~showList /\ schedule # Null /\ schedule.bean # b
    /\ schedule' = [schedule EXCEPT !.bean = b]
    /\ UNCHANGED <<rows, list, showList, title, dialog, net, history>>

\* The validator throws for a form that is null; a blank name is refused.
saveOrUpdate ==
    /\ Acts /\ ~showList /\ schedule # Null
    /\ IF schedule.bean = ""
         THEN dialog' = Alert(FALSE) /\ UNCHANGED net
         ELSE /\ Send([op |-> IF schedule.job = New THEN "save" ELSE "update",
                       form |-> schedule, served |-> FALSE])
              /\ UNCHANGED dialog
    /\ UNCHANGED <<rows, list, view, history>>

-----------------------------------------------------------------------------
(* The operations on a row, and the dialogs.                               *)

Operations == {"delete", "pause", "resume", "run"}

\* Mutant: getSelectedRow without its guards.
OperateUnchecked(op) ==
    /\ Acts /\ showList
    /\ dialog' = [kind |-> "confirm", op |-> op,
                  job |-> IF selected = {} THEN New ELSE CHOOSE j \in selected : TRUE]
    /\ UNCHANGED <<rows, list, view, net, history>>

\* del, pause, resume, runOnce: getSelectedRow, confirm.
Operate(op) ==
    /\ Acts /\ showList /\ Cardinality(selected) = 1
    /\ \E j \in selected : dialog' = [kind |-> "confirm", op |-> op, job |-> j]
    /\ UNCHANGED <<rows, list, view, net, history>>

\* getSelectedRow: no row, or several; of update too.
Refuse ==
    /\ Acts /\ showList /\ Cardinality(selected) # 1
    /\ dialog' = Alert(FALSE)
    /\ UNCHANGED <<rows, list, view, net, history>>

\* Yes: the dialog stays open until the answer comes, and can be clicked again.
Confirm ==
    /\ dialog.kind = "confirm"
    /\ Send([op |-> dialog.op, job |-> dialog.job, served |-> FALSE])
    /\ Hastily
    /\ UNCHANGED <<rows, list, view, dialog, history>>

Cancel ==
    /\ dialog.kind = "confirm"
    /\ dialog' = NoDialog
    /\ Hastily
    /\ UNCHANGED <<rows, list, view, net, history>>

\* Mutant: the callback is lost on the way to the dialog.
CloseAlertOnly ==
    /\ dialog.kind = "alert"
    /\ dialog' = NoDialog
    /\ UNCHANGED <<rows, list, view, net, history, trouble>>

\* OK: the dialog is closed, then the callback is called.
CloseAlert ==
    /\ dialog.kind = "alert"
    /\ dialog' = NoDialog
    /\ IF dialog.reload THEN Reload ELSE UNCHANGED <<list, view, net>>
    /\ UNCHANGED <<rows, history, trouble>>

\* The cross in the corner of the dialog calls nothing.
DismissAlert ==
    /\ dialog.kind = "alert"
    /\ dialog' = NoDialog
    /\ IF dialog.reload THEN Trouble("dismissed") ELSE UNCHANGED trouble
    /\ UNCHANGED <<rows, list, view, net, history>>

-----------------------------------------------------------------------------
(* The monitor handles a request.                                          *)

Answered(s, r) == net' = [net EXCEPT ![s] = r]

\* queryList and queryTotal, with the offset of Query and the pages of PageUtils.
\* The SQL names no order; the rows come in that of the ids, as the database
\* reads them.
Place(j) == Cardinality({i \in Job : Present(i) /\ i <= j})
PageOf(p) == {j \in Job : Present(j) /\ Place(j) > (p - 1) * PageSize /\ Place(j) <= p * PageSize}
Shown(p) == [j \in PageOf(p) |-> rows[j]]
totalPage == (Cardinality({j \in Job : Present(j)}) + PageSize - 1) \div PageSize

ServeList(s) ==
    LET r == net[s]
    IN  /\ r.op = "list"
        /\ Answered(s, [op |-> "list", served |-> TRUE, page |-> r.page,
                        rows |-> Shown(r.page), total |-> totalPage])
        /\ UNCHANGED <<rows, history>>

info(s) ==
    LET r == net[s]
        j == r.job
    IN  /\ r.op = "info"
        /\ Answered(s, [op |-> "info", served |-> TRUE, schedule |->
              IF Present(j) THEN [job |-> j, status |-> rows[j].status, bean |-> rows[j].bean, no |-> 0]
              ELSE Null])
        /\ UNCHANGED <<rows, history>>

save(s) ==
    LET f == net[s].form
    IN  /\ net[s].op = "save"
        /\ \E j \in Job :
              /\ rows[j].status = "free" /\ \A i \in Job : rows[i].status = "free" => j <= i
              /\ rows' = [rows EXCEPT ![j] = [status |-> "NULL", bean |-> f.bean]]
        /\ made' = made \cup {f.no}
        /\ twice' = (twice \/ f.no \in made)
        /\ Answered(s, [op |-> "save", served |-> TRUE])
        /\ UNCHANGED forms

\* updateById: the columns that are not null.
updateById(s) ==
    LET f == net[s].form
        j == f.job
    IN  /\ net[s].op = "update"
        /\ rows' = IF Present(j)
                     THEN [rows EXCEPT ![j] = [status |-> IF f.status = "NULL" THEN @.status ELSE f.status,
                                               bean |-> f.bean]]
                     ELSE rows
        /\ Answered(s, [op |-> "update", served |-> TRUE])
        /\ UNCHANGED history

\* delete, pause, resume of a row; run does nothing.
ServeOperation(s) ==
    LET r == net[s]
        becomes == CASE r.op = "delete" -> "gone" [] r.op = "pause" -> "PAUSE"
                     [] r.op = "resume" -> "NORMAL" [] r.op = "run" -> rows[r.job].status
    IN  /\ r.op \in Operations
        /\ rows' = IF Present(r.job) THEN [rows EXCEPT ![r.job].status = becomes] ELSE rows
        /\ Answered(s, [op |-> r.op, served |-> TRUE])
        /\ UNCHANGED history

Serve(s) ==
    /\ s \in Busy /\ ~net[s].served
    /\ ServeList(s) \/ info(s) \/ save(s) \/ updateById(s) \/ ServeOperation(s)
    /\ UNCHANGED <<list, view, dialog, trouble>>

\* The monitor throws before the table is changed, and MyExceptionHandler answers
\* with an error code.  The grid finds no page in that answer, update finds no
\* schedule and opens the form all the same; the others show the message, in an
\* alert that does not lead back to the list.
ErrorCode(s) ==
    LET op == net[s].op IN
    /\ ~net[s].served
    /\ \/ /\ op = "list"
          /\ grid' = << >> /\ last' = 1
          /\ UNCHANGED <<current, selected, view, dialog>>
       \/ /\ op = "info"
          /\ showList' = FALSE /\ title' = "update" /\ schedule' = Null
          /\ UNCHANGED <<list, dialog>>
       \/ /\ op \in Operations \cup {"save", "update"}
          /\ dialog' = Alert(FALSE)
          /\ UNCHANGED <<list, view>>

\* A request, or its answer, is lost, and no callback is called; or the answer is an
\* error code.
Fail(s) ==
    /\ s \in Busy
    /\ net' = [net EXCEPT ![s] = Idle]
    /\ Trouble("failed")
    /\ UNCHANGED <<list, view, dialog>> \/ ErrorCode(s)
    /\ UNCHANGED <<rows, history>>

\* Another operator's page changes, adds or deletes a job.
Others ==
    /\ \E j \in Job : \E r \in Row :
          /\ \/ Present(j)
             \/ rows[j].status = "free" /\ \A i \in Job : rows[i].status = "free" => j <= i
          /\ r.status # "free" /\ r.bean # "" /\ rows' = [rows EXCEPT ![j] = r]
    /\ Trouble("others")
    /\ UNCHANGED <<list, view, dialog, net, history>>

-----------------------------------------------------------------------------
(* An answer reaches the page.                                             *)

Listed(s) ==
    /\ net[s].op = "list"
    /\ grid' = net[s].rows /\ current' = net[s].page /\ last' = net[s].total
    /\ UNCHANGED <<selected, view, dialog>>

InfoArrives(s) ==
    /\ net[s].op = "info"
    /\ showList' = FALSE /\ title' = "update" /\ schedule' = net[s].schedule
    /\ UNCHANGED <<list, dialog>>

\* Mutant: after a new job is saved its form stays open for the next one.
SuccessStays(s) ==
    /\ net[s].op \in Operations \cup {"save", "update"}
    /\ dialog' = Alert(net[s].op # "save")
    /\ UNCHANGED <<list, view>>

\* Everything else is answered by an alert, which closes the dialogs that are open.
Success(s) ==
    /\ net[s].op \in Operations \cup {"save", "update"}
    /\ dialog' = Alert(TRUE)
    /\ UNCHANGED <<list, view>>

Receive(s) ==
    /\ s \in Busy /\ net[s].served
    /\ Listed(s) \/ InfoArrives(s) \/ Success(s)
    /\ net' = [net EXCEPT ![s] = Idle]
    /\ UNCHANGED <<rows, history, trouble>>

-----------------------------------------------------------------------------
Next ==
    \/ Query \/ add \/ update \/ saveOrUpdate \/ Refuse
    \/ Confirm \/ Cancel \/ CloseAlert \/ DismissAlert \/ Others
    \/ \E j \in Job : Select(j)
    \/ \E p \in 1..last : Turn(p)
    \/ \E b \in Bean \cup {""} : TypeBean(b)
    \/ \E op \in Operations : Operate(op)
    \/ \E s \in Slot : Serve(s) \/ Receive(s) \/ Fail(s)

Spec == Init /\ [][Next]_vars

-----------------------------------------------------------------------------
(* Properties.                                                             *)

ListRequest == [op : {"list"}, served : {FALSE}, page : Nat]
ListAnswer == [op : {"list"}, served : {TRUE}, page : Nat, total : Nat,
               rows : UNION {[S -> Row] : S \in SUBSET Job}]
JobRequest == [op : {"info"} \cup Operations, served : {FALSE}, job : Job]
FormRequest == [op : {"save", "update"}, served : {FALSE}, form : Form]
Answer == [op : {"save", "update"} \cup Operations, served : {TRUE}]
          \cup [op : {"info"}, served : {TRUE}, schedule : Form \cup {Null}]

TypeOK ==
    /\ rows \in [Job -> Row]
    /\ grid \in UNION {[S -> Row] : S \in SUBSET Job}
    /\ current \in Nat /\ last \in Nat
    /\ selected \subseteq Job
    /\ showList \in BOOLEAN /\ title \in {"", "add", "update"} /\ schedule \in Form \cup {Null}
    /\ dialog \in {NoDialog} \cup [kind : {"alert"}, reload : BOOLEAN]
                 \cup [kind : {"confirm"}, op : Operations, job : Job]
    /\ net \in [Slot -> {Idle} \cup ListRequest \cup ListAnswer \cup JobRequest
                           \cup FormRequest \cup Answer]
    /\ forms \in 0..MaxForms /\ made \subseteq 0..MaxForms /\ twice \in BOOLEAN
    /\ trouble \subseteq {"hasty", "dismissed", "failed", "others"}

\* The title tells what the form will do, whichever answer came last: under "add"
\* it makes a job, under "update" it has the id of the job it changes.
FormTitle == ~showList /\ schedule # Null => (title = "add" <=> schedule.job = New)

\* Who waits for the answers never has a row selected that the list does not show:
\* an operation is never done on a row out of sight.
SelectionShown == "hasty" \notin trouble => selected \subseteq DOMAIN grid

\* One form makes one job, if the operator waits for the answer and lets the page
\* go on to the list.
NoDoubleSave == trouble \subseteq {"others"} => ~twice

\* When everything is answered and closed, the list shows the table as it is: the
\* effect of every operation, on the page of the list that was left.
GridIsTrue ==
    trouble = {} /\ Busy = {} /\ dialog = NoDialog /\ showList => grid = Shown(current)

\* To change the bean name of a job does not switch it on or off, even if an earlier
\* request failed or its answer was lost, unless it is switched meanwhile from
\* elsewhere.
UpdateServed == \E s \in Busy :
    net[s].op = "update" /\ ~net[s].served /\ net'[s] # net[s]
KeepsStatus ==
    UpdateServed /\ trouble \cap {"hasty", "others"} = {} =>
        \A j \in Job : rows'[j].status = rows[j].status
StatusKept == [][KeepsStatus]_vars
=============================================================================
