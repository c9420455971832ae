---------------------------- MODULE JobPage_proofs -----------------------------
(***************************************************************************)
(* Theorems of JobPage, for every number of jobs, bean names, requests at  *)
(* a time and rows of a page of the list.                                  *)
(***************************************************************************)
EXTENDS JobPage, FiniteSetTheorems, TLAPS

Message == {Idle} \cup ListRequest \cup ListAnswer \cup JobRequest \cup FormRequest \cup Answer
Grids == UNION {[S -> Row] : S \in SUBSET Job}
Dialog == {NoDialog} \cup [kind : {"alert"}, reload : BOOLEAN]
          \cup [kind : {"confirm"}, op : Operations, job : Job]
Troubles == {"hasty", "dismissed", "failed", "others"}

-----------------------------------------------------------------------------
(* Data.                                                                   *)

LEMMA Bounds ==
    IsFiniteSet(Job) /\ Job \subseteq Nat \ {0} /\ PageSize \in Nat \ {0} /\ MaxForms \in Nat
  BY JobPageAssumption

\* What is under way, by the name of the operation.
LEMMA MessageKinds ==
    ASSUME NEW m \in Message
    PROVE  /\ m # Idle => m.served \in BOOLEAN
           /\ m # Idle => m.op \in {"list", "info", "save", "update"} \cup Operations
           /\ m # Idle /\ m.op = "list" /\ ~m.served => m \in ListRequest
           /\ m # Idle /\ m.op = "list" /\ m.served => m \in ListAnswer
           /\ m # Idle /\ m.op \in {"info"} \cup Operations /\ ~m.served => m \in JobRequest
           /\ m # Idle /\ m.op \in {"save", "update"} /\ ~m.served => m \in FormRequest
           /\ m # Idle /\ m.op = "info" /\ m.served => m.schedule \in Form \cup {Null}
  BY DEF Message, Idle, ListRequest, ListAnswer, JobRequest, FormRequest, Answer, Operations

\* The requests of the page are not the sign for none.
LEMMA Requests ==
    /\ \A p \in Nat : [op |-> "list", page |-> p, served |-> FALSE] \in ListRequest \ {Idle}
    /\ \A j \in Job : \A op \in {"info"} \cup Operations :
          [op |-> op, job |-> j, served |-> FALSE] \in JobRequest \ {Idle}
    /\ \A f \in Form : \A op \in {"save", "update"} :
          [op |-> op, form |-> f, served |-> FALSE] \in FormRequest \ {Idle}
  BY DEF ListRequest, JobRequest, FormRequest, Idle, Operations

LEMMA DialogType ==
    /\ NoDialog \in Dialog /\ \A b \in BOOLEAN : Alert(b) \in Dialog
    /\ \A o \in Operations : \A j \in Job : [kind |-> "confirm", op |-> o, job |-> j] \in Dialog
  BY DEF Dialog, Alert

\* What Send and Populate do to the requests.
LEMMA SendType ==
    ASSUME TypeOK, NEW r \in Message, Send(r) PROVE net' \in [Slot -> Message]
  BY DEF TypeOK, Send, Message

LEMMA PopulateType ==
    ASSUME TypeOK, NEW p \in Nat, Populate(p) PROVE net' \in [Slot -> Message]
<1>1. [op |-> "list", page |-> p, served |-> FALSE] \in Message
  BY Requests DEF Message
<1> QED
  BY <1>1, SendType DEF Populate, TypeOK, Message

LEMMA TroubleType ==
    ASSUME TypeOK, Hastily \/ Trouble("failed") \/ Trouble("others") \/ Trouble("dismissed")
    PROVE  trouble' \subseteq Troubles
  BY DEF TypeOK, Hastily, Trouble, Troubles

\* The reload leaves a list that is typed.
LEMMA ReloadType ==
    ASSUME TypeOK, Reload
    PROVE  /\ grid' \in Grids /\ current' \in Nat /\ last' \in Nat /\ selected' \subseteq Job
           /\ showList' \in BOOLEAN /\ title' = title /\ schedule' = schedule
           /\ net' \in [Slot -> Message]
<1>1. current \in Nat
  BY DEF TypeOK
<1>2. net' \in [Slot -> Message]
  BY <1>1, PopulateType DEF Reload
<1> QED
  BY <1>2 DEF Reload, TypeOK, Grids

LEMMA ShownType == ASSUME TypeOK, NEW p PROVE Shown(p) \in Grids
<1>1. PageOf(p) \in SUBSET Job
  BY DEF PageOf
<1>2. Shown(p) \in [PageOf(p) -> Row]
  BY <1>1 DEF Shown, TypeOK
<1> QED
  BY <1>1, <1>2 DEF Grids

LEMMA DivType == ASSUME NEW a \in Nat, NEW b \in Nat \ {0} PROVE a \div b \in Nat
  BY SMTT(30)

\* The number of pages is a number.
LEMMA TotalType == totalPage \in Nat
<1> DEFINE n == Cardinality({j \in Job : Present(j)})
<1>1. n \in Nat
  <2>1. IsFiniteSet({j \in Job : Present(j)})
    BY Bounds, FS_Subset
  <2> QED
    BY <2>1, FS_CardinalityType
<1> HIDE DEF n
<1>2. n + PageSize - 1 \in Nat /\ PageSize \in Nat \ {0}
  BY <1>1, Bounds
<1> USE DEF n
<1> QED
  BY <1>2, DivType DEF totalPage

-----------------------------------------------------------------------------
(* Types.                                                                  *)

\* What the monitor does to the table, and what it answers.
LEMMA ServeType ==
    ASSUME TypeOK, NEW s \in Slot, Serve(s)
    PROVE  /\ rows' \in [Job -> Row] /\ net' \in [Slot -> Message]
           /\ made' \subseteq 0..MaxForms /\ twice' \in BOOLEAN /\ forms' = forms
           /\ UNCHANGED <<list, view, dialog, trouble>>
<1> DEFINE r == net[s]
<1>0. net \in [Slot -> Message] /\ r \in Message /\ r # Idle /\ ~r.served
  BY DEF TypeOK, Message, Serve, Busy
<1>1. ASSUME ServeList(s)
      PROVE  rows' = rows /\ net' \in [Slot -> Message] /\ UNCHANGED history
  <2>1. r.page \in Nat
    BY <1>0, <1>1, MessageKinds DEF ServeList, ListRequest
  <2>2. [op |-> "list", served |-> TRUE, page |-> r.page, rows |-> Shown(r.page),
         total |-> totalPage] \in ListAnswer
    BY <2>1, ShownType, TotalType DEF ListAnswer, Grids
  <2> QED
    BY <1>0, <1>1, <2>2 DEF ServeList, Answered, Message
<1>2. ASSUME info(s)
      PROVE  rows' = rows /\ net' \in [Slot -> Message] /\ UNCHANGED history
  <2> DEFINE j == r.job
             a == IF Present(j)
                  THEN [job |-> j, status |-> rows[j].status, bean |-> rows[j].bean, no |-> 0]
                  ELSE Null
  <2>1. j \in Job
    BY <1>0, <1>2, MessageKinds DEF info, JobRequest
  <2>2. rows[j] \in Row /\ 0 \in 0..MaxForms
    <3>1. rows[j] \in Row
      BY <2>1 DEF TypeOK
    <3> QED
      BY <3>1, Bounds
  <2>3. a \in Form \cup {Null}
    <3>1. Present(j) => rows[j].status \in Status /\ rows[j].bean \in Bean \cup {""}
      BY <2>2 DEF Row, Present
    <3>2. Present(j) => a \in Form
      BY <2>1, <2>2, <3>1 DEF Form
    <3> QED
      BY <3>2
  <2>4. [op |-> "info", served |-> TRUE, schedule |-> a] \in Message
    BY <2>3 DEF Answer, Message
  <2>5. net' = [net EXCEPT ![s] = [op |-> "info", served |-> TRUE, schedule |-> a]]
    BY <1>2 DEF info, Answered
  <2> QED
    BY <1>0, <1>2, <2>4, <2>5 DEF info
<1>3. ASSUME save(s)
      PROVE  /\ rows' \in [Job -> Row] /\ net' \in [Slot -> Message]
             /\ made' \subseteq 0..MaxForms /\ twice' \in BOOLEAN /\ forms' = forms
  <2>1. r.form \in Form
    BY <1>0, <1>3, MessageKinds DEF save, FormRequest
  <2>2. [status |-> "NULL", bean |-> r.form.bean] \in Row /\ r.form.no \in 0..MaxForms
    BY <2>1 DEF Form, Row, Status
  <2>3. [op |-> "save", served |-> TRUE] \in Message
    BY DEF Answer, Message
  <2> QED
    BY <1>0, <1>3, <2>2, <2>3 DEF save, Answered, TypeOK
<1>4. ASSUME updateById(s)
      PROVE  rows' \in [Job -> Row] /\ net' \in [Slot -> Message] /\ UNCHANGED history
  <2> DEFINE f == r.form  j == f.job
             n == [status |-> IF f.status = "NULL" THEN rows[j].status ELSE f.status,
                   bean |-> f.bean]
  <2>1. f \in Form
    BY <1>0, <1>4, MessageKinds DEF updateById, FormRequest
  <2>2. ASSUME j \in Job PROVE n \in Row
    BY <2>1, <2>2 DEF Form, Row, TypeOK, Status
  <2>3. rows' = IF Present(j) THEN [rows EXCEPT ![j] = n] ELSE rows
    BY <1>4 DEF updateById
  <2>4. rows' \in [Job -> Row]
    BY <2>2, <2>3 DEF TypeOK
  <2>5. [op |-> "update", served |-> TRUE] \in Message
    BY DEF Answer, Message
  <2> QED
    BY <1>0, <1>4, <2>4, <2>5 DEF updateById, Answered
<1>5. ASSUME ServeOperation(s)
      PROVE  rows' \in [Job -> Row] /\ net' \in [Slot -> Message] /\ UNCHANGED history
  <2>1. r.op \in Operations /\ r.job \in Job
    BY <1>0, <1>5, MessageKinds DEF ServeOperation, JobRequest
  <2>2. rows[r.job] \in Row
    BY <2>1 DEF TypeOK
  <2> DEFINE becomes == CASE r.op = "delete" -> "gone" [] r.op = "pause" -> "PAUSE"
                          [] r.op = "resume" -> "NORMAL" [] r.op = "run" -> rows[r.job].status
  <2>3. becomes \in Status \cup {"free", "gone"}
    BY <2>1, <2>2 DEF Operations, Row, Status
  <2>4. rows' = IF Present(r.job) THEN [rows EXCEPT ![r.job].status = becomes] ELSE rows
    BY <1>5 DEF ServeOperation
  <2>5. rows' \in [Job -> Row]
    <3> HIDE DEF becomes
    <3> QED
      BY <2>1, <2>2, <2>3, <2>4 DEF TypeOK, Row
  <2>6. [op |-> r.op, served |-> TRUE] \in Message
    BY <2>1 DEF Answer, Message
  <2> QED
    BY <1>0, <1>5, <2>5, <2>6 DEF ServeOperation, Answered
<1> QED
  BY <1>1, <1>2, <1>3, <1>4, <1>5 DEF Serve, history, TypeOK

\* What the page does with an answer.
LEMMA ReceiveType ==
    ASSUME TypeOK, NEW s \in Slot, Receive(s)
    PROVE  TypeOK'
<1>0. net \in [Slot -> Message] /\ net[s] \in Message /\ net[s] # Idle /\ net[s].served
  BY DEF TypeOK, Message, Receive, Busy
<1>1. net' \in [Slot -> Message] /\ UNCHANGED <<rows, history, trouble>>
  BY <1>0 DEF Receive, Message
<1>2. CASE Listed(s)
  <2>1. net[s] \in ListAnswer
    BY <1>0, <1>2, MessageKinds DEF Listed
  <2>2. grid' \in Grids /\ current' \in Nat /\ last' \in Nat /\ UNCHANGED <<selected, view, dialog>>
    BY <1>2, <2>1 DEF Listed, ListAnswer, Grids
  <2> QED
    BY <1>1, <2>2 DEF TypeOK, Message, Grids, view, history
<1>3. CASE InfoArrives(s)
  <2>1. net[s].schedule \in Form \cup {Null}
    BY <1>0, <1>3, MessageKinds DEF InfoArrives
  <2>2. /\ schedule' \in Form \cup {Null} /\ showList' \in BOOLEAN
        /\ title' \in {"", "add", "update"} /\ UNCHANGED <<list, dialog>>
    BY <1>3, <2>1 DEF InfoArrives
  <2> QED
    BY <1>1, <2>2 DEF TypeOK, Message, list, history
<1>4. CASE Success(s)
  <2>1. dialog' \in Dialog
    BY <1>4 DEF Success, Alert, Dialog
  <2>2. UNCHANGED <<list, view>>
    BY <1>4 DEF Success
  <2> QED
    BY <1>1, <2>1, <2>2 DEF TypeOK, Message, Dialog, list, view, history
<1> QED
  BY <1>2, <1>3, <1>4 DEF Receive

\* Every state of table, list, form, dialogs and requests is typed.
THEOREM Typing == Spec => []TypeOK
<1>1. Init => TypeOK
  <2> SUFFICES ASSUME Init PROVE TypeOK
    OBVIOUS
  <2>1. net \in [Slot -> Message]
    <3>1. [op |-> "list", page |-> 1, served |-> FALSE] \in Message
      BY Requests DEF Message
    <3> QED
      BY <3>1 DEF Init, Message
  <2>2. << >> \in Grids
    BY DEF Grids
  <2>3. [Null EXCEPT !.status = "NULL"] \in Form
    <3>1. 0 \in 0..MaxForms
      BY Bounds
    <3> QED
      BY <3>1 DEF Null, Form, New, Status
  <2>4. rows \in [Job -> Row]
    BY DEF Init
  <2>5. forms \in 0..MaxForms
    <3>1. forms = 0
      BY DEF Init
    <3> QED
      BY <3>1, Bounds
  <2> QED
    BY <2>1, <2>2, <2>3, <2>4, <2>5 DEF Init, TypeOK, Message, Grids
<1>2. ASSUME TypeOK, [Next]_vars PROVE TypeOK'
  <2> USE <1>2
  <2>0. /\ net \in [Slot -> Message] /\ grid \in Grids /\ dialog \in Dialog
        /\ trouble \subseteq Troubles
    BY DEF TypeOK, Message, Grids, Dialog, Troubles
  <2>1. ASSUME Query PROVE TypeOK'
    BY <2>0, <2>1, ReloadType, TroubleType
    DEF Query, Acts, TypeOK, Message, Grids, Dialog, Troubles, history
  <2>2. ASSUME add PROVE TypeOK'
    <3>1. forms' \in 0..MaxForms /\ 0 \in 0..MaxForms
      <4>1. forms \in 0..MaxForms
        BY DEF TypeOK
      <4>2. forms < MaxForms /\ forms' = forms + 1
        BY <2>2 DEF add
      <4> QED
        BY <4>1, <4>2, Bounds
    <3>2. schedule' \in Form
      BY <2>2, <3>1 DEF add, Form, New, Status
    <3> QED
      BY <2>0, <2>2, <3>1, <3>2, TroubleType
      DEF add, Acts, TypeOK, Message, Grids, Dialog, Troubles, list
  <2>3. ASSUME update PROVE TypeOK'
    <3>1. PICK j \in selected : Send([op |-> "info", job |-> j, served |-> FALSE])
      BY <2>3 DEF update
    <3>2. [op |-> "info", job |-> j, served |-> FALSE] \in Message
      BY Requests DEF TypeOK, Message
    <3>3. net' \in [Slot -> Message]
      BY <3>1, <3>2, SendType
    <3> QED
      BY <2>0, <2>3, <3>3, TroubleType
      DEF update, Acts, TypeOK, Message, Grids, Dialog, Troubles, list, view, history
  <2>4. ASSUME saveOrUpdate PROVE TypeOK'
    <3>1. net' \in [Slot -> Message] /\ dialog' \in Dialog
      <4>1. CASE schedule.bean = ""
        <5>1. net' = net /\ dialog' = Alert(FALSE)
          BY <2>4, <4>1 DEF saveOrUpdate
        <5> QED
          BY <2>0, <5>1, DialogType
      <4>2. CASE schedule.bean # ""
        <5> DEFINE r == [op |-> IF schedule.job = New THEN "save" ELSE "update",
                         form |-> schedule, served |-> FALSE]
        <5>1. r \in Message
          BY <2>4, Requests DEF saveOrUpdate, TypeOK, Message
        <5>2. Send(r) /\ dialog' = dialog
          BY <2>4, <4>2 DEF saveOrUpdate
        <5> QED
          BY <2>0, <5>1, <5>2, SendType
      <4> QED
        BY <4>1, <4>2
    <3> QED
      BY <2>0, <2>4, <3>1, TroubleType
      DEF saveOrUpdate, Acts, TypeOK, Message, Grids, Dialog, Troubles, list, view, history
  <2>5. ASSUME Refuse \/ Cancel PROVE TypeOK'
    <3>1. dialog' \in Dialog
      <4>1. dialog' \in {Alert(FALSE), NoDialog}
        BY <2>5 DEF Refuse, Cancel
      <4> QED
        BY <4>1, DialogType
    <3> QED
      BY <2>0, <2>5, <3>1, TroubleType
      DEF Refuse, Cancel, Acts, TypeOK, Message, Grids, Dialog, Troubles, list, view, history
  <2>6. ASSUME Confirm PROVE TypeOK'
    <3>1. dialog.op \in Operations /\ dialog.job \in Job
      BY <2>0, <2>6 DEF Confirm, Dialog, NoDialog
    <3>2. [op |-> dialog.op, job |-> dialog.job, served |-> FALSE] \in Message
      BY <3>1, Requests DEF Message
    <3>3. net' \in [Slot -> Message]
      BY <2>6, <3>2, SendType DEF Confirm
    <3> QED
      BY <2>0, <2>6, <3>3, TroubleType
      DEF Confirm, TypeOK, Message, Grids, Dialog, Troubles, list, view, history
  <2>7. ASSUME CloseAlert PROVE TypeOK'
    <3>1. CASE dialog.reload
      BY <2>0, <2>7, <3>1, ReloadType
      DEF CloseAlert, TypeOK, Message, Grids, Dialog, Troubles, history
    <3>2. CASE ~dialog.reload
      BY <2>0, <2>7, <3>2
      DEF CloseAlert, TypeOK, Message, Grids, Dialog, Troubles, list, view, history
    <3> QED
      BY <3>1, <3>2
  <2>8. ASSUME DismissAlert PROVE TypeOK'
    <3>1. trouble' \subseteq Troubles
      BY <2>0, <2>8, TroubleType DEF DismissAlert
    <3> QED
      BY <2>0, <2>8, <3>1
      DEF DismissAlert, TypeOK, Message, Grids, Dialog, Troubles, list, view, history
  <2>9. ASSUME Others PROVE TypeOK'
    <3>1. rows' \in [Job -> Row]
      BY <2>9 DEF Others, TypeOK
    <3> QED
      BY <2>0, <2>9, <3>1, TroubleType
      DEF Others, TypeOK, Message, Grids, Dialog, Troubles, list, view, history
  <2>10. ASSUME NEW j \in Job, Select(j) PROVE TypeOK'
    <3>1. selected' \subseteq Job
      BY <2>10 DEF Select, TypeOK
    <3> QED
      BY <2>0, <2>10, <3>1, TroubleType
      DEF Select, Acts, TypeOK, Message, Grids, Dialog, Troubles, view, history
  <2>11. ASSUME NEW p \in 1..last, Turn(p) PROVE TypeOK'
    <3>1. p \in Nat
      <4>1. last \in Nat
        BY DEF TypeOK
      <4> QED
        BY <4>1
    <3>2. net' \in [Slot -> Message]
      BY <2>11, <3>1, PopulateType DEF Turn
    <3> QED
      BY <2>0, <2>11, <3>1, <3>2, TroubleType
      DEF Turn, Acts, TypeOK, Message, Grids, Dialog, Troubles, view, history
  <2>12. ASSUME NEW b \in Bean \cup {""}, TypeBean(b) PROVE TypeOK'
    <3>1. schedule \in Form /\ schedule' = [schedule EXCEPT !.bean = b]
      BY <2>12 DEF TypeBean, TypeOK
    <3>2. schedule' \in Form
      BY <3>1 DEF Form
    <3> QED
      BY <2>0, <2>12, <3>2, TroubleType
      DEF TypeBean, Acts, TypeOK, Message, Grids, Dialog, Troubles, list, history
  <2>13. ASSUME NEW op \in Operations, Operate(op) PROVE TypeOK'
    <3>1. dialog' \in Dialog
      <4>1. PICK j \in selected : dialog' = [kind |-> "confirm", op |-> op, job |-> j]
        BY <2>13 DEF Operate
      <4>2. j \in Job
        BY DEF TypeOK
      <4> QED
        BY <4>1, <4>2, DialogType
    <3> QED
      BY <2>0, <2>13, <3>1, TroubleType
      DEF Operate, Acts, TypeOK, Message, Grids, Dialog, Troubles, list, view, history
  <2>14. ASSUME NEW s \in Slot, Serve(s) PROVE TypeOK'
    BY <2>0, <2>14, ServeType DEF TypeOK, Message, Grids, Dialog, Troubles, list, view
  <2>15. ASSUME NEW s \in Slot, Receive(s) PROVE TypeOK'
    BY <2>15, ReceiveType
  <2>16. ASSUME NEW s \in Slot, Fail(s) PROVE TypeOK'
    <3>1. net' \in [Slot -> Message] /\ rows' = rows /\ UNCHANGED history /\ trouble' \subseteq Troubles
      BY <2>0, <2>16, TroubleType DEF Fail, Message
    <3>2. ASSUME ErrorCode(s)
          PROVE  /\ grid' \in Grids /\ current' = current /\ last' \in Nat /\ selected' = selected
                 /\ showList' \in BOOLEAN /\ title' \in {"", "add", "update"}
                 /\ schedule' \in Form \cup {Null} /\ dialog' \in Dialog
      <4>1. << >> \in Grids
        BY DEF Grids
      <4>2. Alert(FALSE) \in Dialog /\ dialog \in Dialog /\ grid \in Grids
        BY DialogType DEF TypeOK, Dialog, Grids
      <4>3. grid' \in Grids /\ current' = current /\ last' \in Nat /\ selected' = selected
        <5>1. last \in Nat /\ 1 \in Nat
          BY DEF TypeOK
        <5> QED
          BY <3>2, <4>1, <4>2, <5>1 DEF ErrorCode, list
      <4>4. /\ showList' \in BOOLEAN /\ title' \in {"", "add", "update"}
            /\ schedule' \in Form \cup {Null} /\ dialog' \in Dialog
        <5>1. showList \in BOOLEAN /\ title \in {"", "add", "update"} /\ schedule \in Form \cup {Null}
          BY DEF TypeOK
        <5>2. showList' \in BOOLEAN
          BY <3>2, <5>1, Zenon DEF ErrorCode, view
        <5> QED
          BY <3>2, <4>2, <5>1, <5>2 DEF ErrorCode, view
      <4> QED
        BY <4>3, <4>4
    <3>3. CASE UNCHANGED <<list, view, dialog>>
      BY <2>0, <3>1, <3>3 DEF TypeOK, Message, Grids, Dialog, Troubles, list, view, history
    <3>4. CASE ErrorCode(s)
      BY <2>0, <3>1, <3>2, <3>4 DEF TypeOK, Message, Grids, Dialog, Troubles, history
    <3> QED
      BY <2>16, <3>3, <3>4 DEF Fail
  <2>17. CASE UNCHANGED vars
    BY <2>17 DEF vars, list, view, history, TypeOK
  <2> QED
    BY <2>1, <2>2, <2>3, <2>4, <2>5, <2>6, <2>7, <2>8, <2>9, <2>10, <2>11, <2>12, <2>13, <2>14,
       <2>15, <2>16, <2>17 DEF Next
<1> QED
  BY <1>1, <1>2, PTL DEF Spec

-----------------------------------------------------------------------------
(* One thing at a time.                                                    *)

\* If the operator waits for the answers, at most one request is under way; no
\* alert is open meanwhile; a dialog that asks for confirmation is over the list
\* and stays while the operation is under way; the form stays while it is saved.
InTurn ==
    /\ \A r, s \in Busy : r = s
    /\ dialog.kind = "alert" => Busy = {}
    /\ dialog.kind = "confirm" => showList /\ \A s \in Busy : net[s].op \in Operations
    /\ \A s \in Busy : net[s].op \in Operations => dialog.kind = "confirm"
    /\ \A s \in Busy : net[s].op \in {"save", "update"} <=> ~showList
Orderly == "hasty" \notin trouble => InTurn

\* Trouble is never forgotten.
LEMMA TroubleGrows == ASSUME [Next]_vars PROVE trouble \subseteq trouble'
<1>1. Hastily => trouble \subseteq trouble'
  BY DEF Hastily, Trouble
<1>2. \A kind : Trouble(kind) => trouble \subseteq trouble'
  BY DEF Trouble
<1>3. ASSUME NEW s \in Slot, Serve(s) \/ Receive(s) \/ Fail(s) PROVE trouble \subseteq trouble'
  BY <1>2, <1>3 DEF Serve, Receive, Fail
<1>4. ASSUME NEW j \in Job, Select(j) PROVE trouble \subseteq trouble'
  BY <1>1, <1>4 DEF Select, Acts
<1>5. ASSUME NEW p \in 1..last, Turn(p) PROVE trouble \subseteq trouble'
  BY <1>1, <1>5 DEF Turn, Acts
<1>6. ASSUME NEW b \in Bean \cup {""}, TypeBean(b) PROVE trouble \subseteq trouble'
  BY <1>1, <1>6 DEF TypeBean, Acts
<1>7. ASSUME NEW op \in Operations, Operate(op) PROVE trouble \subseteq trouble'
  BY <1>1, <1>7 DEF Operate, Acts
<1>8. ASSUME Query \/ add \/ update \/ saveOrUpdate \/ Refuse \/ Confirm \/ Cancel
      PROVE  trouble \subseteq trouble'
  BY <1>1, <1>8 DEF Query, add, update, saveOrUpdate, Refuse, Confirm, Cancel, Acts
<1>9. ASSUME CloseAlert \/ DismissAlert \/ Others \/ UNCHANGED vars
      PROVE  trouble \subseteq trouble'
  BY <1>2, <1>9 DEF CloseAlert, DismissAlert, Others, vars
<1> QED
  BY <1>3, <1>4, <1>5, <1>6, <1>7, <1>8, <1>9 DEF Next

\* Who is not hasty acts when nothing is under way.
LEMMA Unhurried ==
    ASSUME "hasty" \notin trouble', Hastily
    PROVE  Busy = {} /\ trouble' = trouble
  BY DEF Hastily, Trouble

\* Then the only request is the one that is sent.
LEMMA Sent ==
    ASSUME TypeOK, Busy = {}, NEW r, r # Idle, Send(r)
    PROVE  \E s \in Slot : Busy' = {s} /\ net'[s] = r
<1>1. PICK s \in Slot : net' = [net EXCEPT ![s] = r]
  BY DEF Send
<1>2. net'[s] = r /\ \A q \in Slot \ {s} : net'[q] = Idle
  BY <1>1 DEF TypeOK, Busy
<1> QED
  BY <1>2 DEF Busy

LEMMA Populated ==
    ASSUME TypeOK, Busy = {}, NEW p \in Nat, Populate(p)
    PROVE  \E s \in Slot : Busy' = {s} /\ net'[s] = [op |-> "list", page |-> p, served |-> FALSE]
<1>1. ~Loading
  BY DEF Loading
<1> QED
  BY <1>1, Sent, Requests DEF Populate

\* A request that is handled stays what it is; one that is over leaves the others.
LEMMA Handled ==
    ASSUME TypeOK, NEW s \in Slot, Serve(s)
    PROVE  /\ s \in Busy /\ Busy' = Busy /\ net'[s].op = net[s].op /\ net'[s].served
           /\ ~net[s].served /\ \A q \in Slot \ {s} : net'[q] = net[q]
           /\ UNCHANGED <<list, view, dialog, trouble>>
<1>1. PICK m : net' = [net EXCEPT ![s] = m] /\ m.op = net[s].op /\ m.served /\ m # Idle
  <2>1. ASSUME ServeList(s)
        PROVE  \E m : net' = [net EXCEPT ![s] = m] /\ m.op = net[s].op /\ m.served /\ m # Idle
    <3> DEFINE m == [op |-> "list", served |-> TRUE, page |-> net[s].page,
                     rows |-> Shown(net[s].page), total |-> totalPage]
    <3>1. net' = [net EXCEPT ![s] = m] /\ net[s].op = "list"
      BY <2>1 DEF ServeList, Answered
    <3>2. m.op = "list" /\ m.served /\ m # Idle
      BY DEF Idle
    <3> QED
      BY <3>1, <3>2
  <2>2. ASSUME info(s)
        PROVE  \E m : net' = [net EXCEPT ![s] = m] /\ m.op = net[s].op /\ m.served /\ m # Idle
    <3>1. PICK a : /\ net' = [net EXCEPT ![s] = [op |-> "info", served |-> TRUE, schedule |-> a]]
                   /\ net[s].op = "info"
      BY <2>2 DEF info, Answered
    <3> DEFINE m == [op |-> "info", served |-> TRUE, schedule |-> a]
    <3>2. m.op = "info" /\ m.served /\ m # Idle
      BY DEF Idle
    <3> QED
      BY <3>1, <3>2
  <2>3. ASSUME save(s) \/ updateById(s) \/ ServeOperation(s)
        PROVE  \E m : net' = [net EXCEPT ![s] = m] /\ m.op = net[s].op /\ m.served /\ m # Idle
    <3> DEFINE m == [op |-> net[s].op, served |-> TRUE]
    <3>1. net' = [net EXCEPT ![s] = m]
      BY <2>3 DEF save, updateById, ServeOperation, Answered
    <3>2. m.op = net[s].op /\ m.served /\ m # Idle
      BY DEF Idle
    <3> QED
      BY <3>1, <3>2
  <2> QED
    BY <2>1, <2>2, <2>3 DEF Serve
<1>2. net'[s] = m /\ \A q \in Slot \ {s} : net'[q] = net[q]
  BY <1>1 DEF TypeOK
<1> QED
  BY <1>1, <1>2 DEF Serve, Busy

LEMMA Over ==
    ASSUME TypeOK, NEW s \in Slot, Receive(s) \/ Fail(s)
    PROVE  s \in Busy /\ Busy' = Busy \ {s} /\ \A q \in Slot \ {s} : net'[q] = net[q]
<1>1. s \in Busy /\ net' = [net EXCEPT ![s] = Idle]
  BY DEF Receive, Fail
<1>2. net'[s] = Idle /\ \A q \in Slot \ {s} : net'[q] = net[q]
  BY <1>1 DEF TypeOK
<1> QED
  BY <1>1, <1>2 DEF Busy

\* If nothing is under way, a confirmation over the list is all there is to say.
LEMMA Resting ==
    ASSUME Busy' = {}, dialog'.kind = "confirm" => showList' PROVE InTurn'
  BY DEF InTurn

\* The list is asked for, with no dialog over it.
LEMMA Asking ==
    ASSUME TypeOK, Busy = {}, NEW p \in Nat, Populate(p), dialog' = NoDialog, showList' = TRUE
    PROVE  InTurn'
<1>1. PICK s \in Slot : Busy' = {s} /\ net'[s] = [op |-> "list", page |-> p, served |-> FALSE]
  BY Populated
<1>2. net'[s].op = "list"
  BY <1>1
<1> QED
  BY <1>1, <1>2 DEF InTurn, NoDialog, Operations

LEMMA OrderlyStep ==
    ASSUME TypeOK, Orderly, [Next]_vars
    PROVE  Orderly'
<1> SUFFICES ASSUME "hasty" \notin trouble' PROVE InTurn'
  BY DEF Orderly
<1>0. InTurn
  BY TroubleGrows DEF Orderly
<1>1. ASSUME Query PROVE InTurn'
  <2>1. Busy = {} /\ dialog' = NoDialog /\ showList' = TRUE /\ Populate(current) /\ current \in Nat
    BY <1>1, Unhurried DEF Query, Acts, Reload, TypeOK
  <2> QED
    BY <2>1, Asking
<1>2. ASSUME add PROVE InTurn'
  <2>1. Busy = {} /\ net' = net /\ dialog' = NoDialog
    BY <1>2, Unhurried DEF add, Acts
  <2> QED
    BY <2>1, Resting DEF Busy, NoDialog
<1>3. ASSUME update PROVE InTurn'
  <2>1. Busy = {} /\ dialog' = NoDialog /\ showList /\ showList' = showList
    BY <1>3, Unhurried DEF update, Acts, view
  <2>2. PICK j \in selected : Send([op |-> "info", job |-> j, served |-> FALSE])
    BY <1>3 DEF update
  <2>3. [op |-> "info", job |-> j, served |-> FALSE] # Idle
    BY DEF Idle
  <2>4. PICK s \in Slot : Busy' = {s} /\ net'[s] = [op |-> "info", job |-> j, served |-> FALSE]
    BY <2>1, <2>2, <2>3, Sent
  <2>5. net'[s].op = "info"
    BY <2>4
  <2> QED
    BY <2>1, <2>4, <2>5 DEF InTurn, NoDialog, Operations
<1>4. ASSUME saveOrUpdate PROVE InTurn'
  <2>1. Busy = {} /\ dialog = NoDialog /\ ~showList /\ showList' = showList
    BY <1>4, Unhurried DEF saveOrUpdate, Acts, view
  <2>2. CASE schedule.bean = ""
    <3>1. net' = net /\ dialog' = Alert(FALSE)
      BY <1>4, <2>2 DEF saveOrUpdate
    <3> QED
      BY <2>1, <3>1, Resting DEF Busy, Alert
  <2>3. CASE schedule.bean # ""
    <3> DEFINE r == [op |-> IF schedule.job = New THEN "save" ELSE "update",
                     form |-> schedule, served |-> FALSE]
    <3>1. Send(r) /\ dialog' = dialog
      BY <1>4, <2>3 DEF saveOrUpdate
    <3>2. r # Idle /\ r.op \in {"save", "update"}
      BY DEF Idle
    <3>3. PICK s \in Slot : Busy' = {s} /\ net'[s] = r
      BY <2>1, <3>1, <3>2, Sent
    <3>4. net'[s].op \in {"save", "update"}
      BY <3>2, <3>3
    <3> QED
      BY <2>1, <3>1, <3>3, <3>4 DEF InTurn, NoDialog, Operations
  <2> QED
    BY <2>2, <2>3
<1>5. ASSUME Refuse \/ Cancel PROVE InTurn'
  <2>1. Busy = {} /\ net' = net /\ dialog' \in {Alert(FALSE), NoDialog}
    BY <1>5, Unhurried DEF Refuse, Cancel, Acts
  <2> QED
    BY <2>1, Resting DEF Busy, Alert, NoDialog
<1>6. ASSUME Confirm PROVE InTurn'
  <2>1. /\ Busy = {} /\ dialog' = dialog /\ dialog.kind = "confirm"
        /\ showList' = showList /\ dialog.op \in Operations
    <3>1. dialog \in Dialog
      BY DEF TypeOK, Dialog
    <3>2. dialog.op \in Operations
      BY <1>6, <3>1 DEF Confirm, Dialog, NoDialog
    <3> QED
      BY <1>6, <3>2, Unhurried DEF Confirm, view
  <2> DEFINE r == [op |-> dialog.op, job |-> dialog.job, served |-> FALSE]
  <2>2. r # Idle /\ r.op \in Operations /\ Send(r)
    BY <1>6, <2>1 DEF Confirm, Idle
  <2>3. PICK s \in Slot : Busy' = {s} /\ net'[s] = r
    BY <2>1, <2>2, Sent
  <2>4. net'[s].op \in Operations
    BY <2>2, <2>3
  <2> QED
    BY <1>0, <2>1, <2>3, <2>4 DEF InTurn, Operations
<1>7. ASSUME CloseAlert PROVE InTurn'
  <2>1. Busy = {} /\ dialog' = NoDialog
    BY <1>0, <1>7 DEF CloseAlert, InTurn
  <2>2. CASE dialog.reload
    <3>1. showList' = TRUE /\ Populate(current) /\ current \in Nat
      BY <1>7, <2>2 DEF CloseAlert, Reload, TypeOK
    <3> QED
      BY <2>1, <3>1, Asking
  <2>3. CASE ~dialog.reload
    BY <1>7, <2>1, <2>3, Resting DEF CloseAlert, Busy, NoDialog
  <2> QED
    BY <2>2, <2>3
<1>8. ASSUME DismissAlert PROVE InTurn'
  <2>1. Busy = {} /\ net' = net /\ dialog' = NoDialog
    BY <1>0, <1>8 DEF DismissAlert, InTurn
  <2> QED
    BY <2>1, Resting DEF Busy, NoDialog
<1>9. ASSUME Others \/ UNCHANGED vars PROVE InTurn'
  <2>1. net' = net /\ dialog' = dialog /\ showList' = showList /\ Busy' = Busy
    BY <1>9 DEF Others, vars, view, Busy
  <2> QED
    BY <1>0, <2>1 DEF InTurn
<1>10. ASSUME NEW j \in Job, Select(j) PROVE InTurn'
  <2>1. Busy = {} /\ net' = net /\ dialog' = NoDialog
    BY <1>10, Unhurried DEF Select, Acts
  <2> QED
    BY <2>1, Resting DEF Busy, NoDialog
<1>11. ASSUME NEW p \in 1..last, Turn(p) PROVE InTurn'
  <2>1. p \in Nat
    <3>1. last \in Nat
      BY DEF TypeOK
    <3> QED
      BY <3>1
  <2>2. Busy = {} /\ dialog' = NoDialog /\ showList' = TRUE /\ Populate(p)
    BY <1>11, Unhurried DEF Turn, Acts, view, TypeOK
  <2> QED
    BY <2>1, <2>2, Asking
<1>12. ASSUME NEW b \in Bean \cup {""}, TypeBean(b) PROVE InTurn'
  <2>1. Busy = {} /\ net' = net /\ dialog' = NoDialog
    BY <1>12, Unhurried DEF TypeBean, Acts
  <2> QED
    BY <2>1, Resting DEF Busy, NoDialog
<1>13. ASSUME NEW op \in Operations, Operate(op) PROVE InTurn'
  <2>1. Busy = {} /\ net' = net /\ showList /\ showList' = showList
    BY <1>13, Unhurried DEF Operate, Acts, view
  <2> QED
    BY <2>1, Resting DEF Busy
<1>14. ASSUME NEW s \in Slot, Serve(s) PROVE InTurn'
  <2>1. /\ Busy' = Busy /\ dialog' = dialog /\ showList' = showList
        /\ \A q \in Busy : net'[q].op = net[q].op
    BY <1>14, Handled DEF view, Busy
  <2> QED
    BY <1>0, <2>1 DEF InTurn
<1>15. ASSUME NEW s \in Slot, Receive(s) PROVE InTurn'
  <2>1. s \in Busy /\ Busy' = {}
    BY <1>0, <1>15, Over DEF InTurn
  <2>2. dialog'.kind = "confirm" => showList'
    <3>1. CASE Listed(s)
      BY <1>0, <3>1 DEF Listed, InTurn, view
    <3>2. CASE InfoArrives(s)
      BY <1>0, <2>1, <3>2 DEF InfoArrives, InTurn, Operations
    <3>3. CASE Success(s)
      BY <3>3 DEF Success, Alert
    <3> QED
      BY <1>15, <3>1, <3>2, <3>3 DEF Receive
  <2> QED
    BY <2>1, <2>2, Resting
<1>16. ASSUME NEW s \in Slot, Fail(s) PROVE InTurn'
  <2>1. Busy' = {}
    BY <1>0, <1>16, Over DEF InTurn
  <2>2. CASE UNCHANGED <<list, view, dialog>>
    BY <1>0, <2>1, <2>2, Resting DEF InTurn, view
  <2>3. CASE ErrorCode(s)
    <3>1. net[s].op \in {"list", "info"} => dialog.kind # "confirm" /\ dialog' = dialog
      BY <1>0, <1>16, <2>3 DEF ErrorCode, InTurn, Fail, Operations
    <3>2. dialog'.kind # "confirm"
      BY <2>3, <3>1 DEF ErrorCode, Alert
    <3> QED
      BY <2>1, <3>2, Resting
  <2> QED
    BY <1>16, <2>2, <2>3 DEF Fail
<1> QED
  BY <1>1, <1>2, <1>3, <1>4, <1>5, <1>6, <1>7, <1>8, <1>9, <1>10, <1>11, <1>12, <1>13, <1>14,
     <1>15, <1>16 DEF Next

-----------------------------------------------------------------------------
(* The form.                                                               *)

\* The answer to /schedule/info is about a row, or about none.
Filled ==
    \A s \in Busy : net[s].op = "info" /\ net[s].served /\ net[s].schedule # Null =>
        net[s].schedule.job # New

\* An answer comes from the monitor; the page sends requests.
LEMMA SendTakes ==
    ASSUME TypeOK, NEW r, Send(r), NEW q \in Slot
    PROVE  net'[q] = net[q] \/ (q \notin Busy /\ net'[q] = r)
  BY DEF Send, TypeOK

\* A request of the page is put into a free slot; one that changes a job takes the form.
Asks(q) ==
    /\ q \notin Busy /\ ~net'[q].served
    /\ net'[q].op = "update" => ~showList /\ net'[q].form = schedule

LEMMA PopulateAsks ==
    ASSUME TypeOK, NEW p, Populate(p), NEW q \in Slot PROVE net'[q] = net[q] \/ Asks(q)
<1>1. CASE UNCHANGED net
  BY <1>1
<1>2. CASE Send([op |-> "list", page |-> p, served |-> FALSE])
  BY <1>2, SendTakes DEF Asks
<1> QED
  BY <1>1, <1>2 DEF Populate

\* What can happen to a request.
LEMMA NetSteps ==
    ASSUME TypeOK, [Next]_vars, NEW q \in Slot
    PROVE  net'[q] = net[q] \/ Serve(q) \/ Receive(q) \/ Fail(q) \/ Asks(q)
<1>1. ASSUME Query \/ \E p \in 1..last : Turn(p)
      PROVE  net'[q] = net[q] \/ Asks(q)
  BY <1>1, PopulateAsks DEF Query, Reload, Turn
<1>2. ASSUME update PROVE net'[q] = net[q] \/ Asks(q)
  <2>1. PICK j \in selected : Send([op |-> "info", job |-> j, served |-> FALSE])
    BY <1>2 DEF update
  <2> QED
    BY <2>1, SendTakes DEF Asks
<1>3. ASSUME saveOrUpdate PROVE net'[q] = net[q] \/ Asks(q)
  <2>1. CASE UNCHANGED net
    BY <2>1
  <2> DEFINE r == [op |-> IF schedule.job = New THEN "save" ELSE "update",
                   form |-> schedule, served |-> FALSE]
  <2>2. CASE Send(r)
    <3>1. ~r.served /\ r.form = schedule /\ ~showList
      BY <1>3 DEF saveOrUpdate
    <3> HIDE DEF r
    <3>2. net'[q] = net[q] \/ (q \notin Busy /\ net'[q] = r)
      BY <2>2, SendTakes
    <3> QED
      BY <3>1, <3>2 DEF Asks
  <2> QED
    BY <1>3, <2>1, <2>2 DEF saveOrUpdate
<1>4. ASSUME Confirm PROVE net'[q] = net[q] \/ Asks(q)
  <2>1. dialog.op \in Operations
    <3>1. dialog \in Dialog
      BY DEF TypeOK, Dialog
    <3> QED
      BY <1>4, <3>1 DEF Confirm, Dialog, NoDialog
  <2> DEFINE r == [op |-> dialog.op, job |-> dialog.job, served |-> FALSE]
  <2>2. r.op # "update" /\ ~r.served /\ Send(r)
    BY <1>4, <2>1 DEF Confirm, Operations
  <2> QED
    BY <2>2, SendTakes DEF Asks
<1>5. ASSUME CloseAlert PROVE net'[q] = net[q] \/ Asks(q)
  BY <1>5, PopulateAsks DEF CloseAlert, Reload
<1>6. ASSUME NEW s \in Slot, Serve(s) PROVE net'[q] = net[q] \/ Serve(q)
  BY <1>6, Handled
<1>7. ASSUME NEW s \in Slot, Receive(s) \/ Fail(s)
      PROVE  net'[q] = net[q] \/ Receive(q) \/ Fail(q)
  BY <1>7, Over
<1>8. ASSUME NEW j \in Job, Select(j) PROVE net' = net
  BY <1>8 DEF Select
<1>9. ASSUME NEW b \in Bean \cup {""}, TypeBean(b) PROVE net' = net
  BY <1>9 DEF TypeBean
<1>10. ASSUME NEW op \in Operations, Operate(op) PROVE net' = net
  BY <1>10 DEF Operate
<1>11. ASSUME add \/ Refuse \/ Cancel \/ DismissAlert \/ Others \/ UNCHANGED vars PROVE net' = net
  BY <1>11 DEF add, Refuse, Cancel, DismissAlert, Others, vars
<1> QED
  BY <1>1, <1>2, <1>3, <1>4, <1>5, <1>6, <1>7, <1>8, <1>9, <1>10, <1>11 DEF Next

LEMMA AnswersAreServed ==
    ASSUME TypeOK, [Next]_vars, NEW q \in Slot
    PROVE  net'[q] = net[q] \/ net'[q] = Idle \/ Serve(q) \/ ~net'[q].served
<1>1. Receive(q) \/ Fail(q) => net'[q] = Idle
  BY DEF Receive, Fail, TypeOK
<1> QED
  BY <1>1, NetSteps DEF Asks

\* At first the list is on its way.
LEMMA Beginning ==
    ASSUME Init
    PROVE  \E s \in Slot : Busy = {s} /\ net[s] = [op |-> "list", page |-> 1, served |-> FALSE]
                           /\ ~net[s].served /\ net[s].op = "list"
<1>1. PICK s \in Slot : net = [t \in Slot |->
          IF t = s THEN [op |-> "list", page |-> 1, served |-> FALSE] ELSE Idle]
  BY DEF Init
<1>2. [op |-> "list", page |-> 1, served |-> FALSE] # Idle
  BY DEF Idle
<1> QED
  BY <1>1, <1>2 DEF Busy

LEMMA FilledStep ==
    ASSUME TypeOK, Filled, [Next]_vars PROVE Filled'
<1> SUFFICES ASSUME NEW q \in Slot, net'[q] # Idle, net'[q].op = "info", net'[q].served,
                    net'[q].schedule # Null
             PROVE  net'[q].schedule.job # New
  BY DEF Filled, Busy
<1>1. CASE net'[q] = net[q]
  BY <1>1 DEF Filled, Busy
<1>2. CASE Serve(q)
  <2>1. net[q].op = "info" /\ info(q)
    <3>1. net[q].op = "info"
      BY <1>2, Handled
    <3> QED
      BY <1>2, <3>1
      DEF Serve, ServeList, save, updateById, ServeOperation, Operations
  <2>2. net[q] \in JobRequest
    BY <1>2, <2>1, MessageKinds DEF Serve, Busy, TypeOK, Message
  <2>3. net[q].job \in Job /\ net[q].job # New
    BY <2>2, Bounds DEF JobRequest, New
  <2> DEFINE j == net[q].job
             a == IF Present(j)
                  THEN [job |-> j, status |-> rows[j].status, bean |-> rows[j].bean, no |-> 0]
                  ELSE Null
  <2>4. net'[q] = [op |-> "info", served |-> TRUE, schedule |-> a]
    BY <2>1 DEF info, Answered, TypeOK
  <2>5. net'[q].schedule = a
    BY <2>4
  <2> QED
    BY <2>3, <2>5
<1> QED
  BY <1>1, <1>2, AnswersAreServed

\* What can happen to title and form.
LEMMA ViewSteps ==
    ASSUME [Next]_vars
    PROVE  \/ UNCHANGED view
           \/ showList' = TRUE
           \/ add
           \/ \E b \in Bean \cup {""} : TypeBean(b)
           \/ \E s \in Slot : Receive(s) /\ InfoArrives(s)
           \/ title' = "update" /\ schedule' = Null
<1>1. Query \/ CloseAlert => UNCHANGED view \/ showList' = TRUE
  BY DEF Query, CloseAlert, Reload
<1>2. \A p \in 1..last : Turn(p) => UNCHANGED view
  BY DEF Turn
<1>3. \A j \in Job : Select(j) => UNCHANGED view
  BY DEF Select
<1>4. \A op \in Operations : Operate(op) => UNCHANGED view
  BY DEF Operate
<1>5. \A s \in Slot : Serve(s) => UNCHANGED view
  BY DEF Serve
<1>9. \A s \in Slot : Fail(s) => UNCHANGED view \/ (title' = "update" /\ schedule' = Null)
  BY DEF Fail, ErrorCode
<1>6. \A s \in Slot : Receive(s) => UNCHANGED view \/ InfoArrives(s)
  BY DEF Receive, Listed, Success
<1>7. update \/ saveOrUpdate \/ Refuse \/ Confirm \/ Cancel => UNCHANGED view
  BY DEF update, saveOrUpdate, Refuse, Confirm, Cancel
<1>8. DismissAlert \/ Others \/ UNCHANGED vars => UNCHANGED view
  BY DEF DismissAlert, Others, vars
<1> QED
  BY <1>1, <1>2, <1>3, <1>4, <1>5, <1>6, <1>7, <1>8, <1>9 DEF Next

\* In whatever order the answers come: the title says whether the form makes a job
\* or changes one.
THEOREM FormTitleHolds == Spec => []FormTitle
<1>1. Init => FormTitle /\ Filled
  <2>1. Init => FormTitle
    BY DEF Init, FormTitle
  <2>2. ASSUME Init PROVE \A s \in Busy : ~net[s].served
    BY <2>2, Beginning
  <2> QED
    BY <2>1, <2>2 DEF Filled
<1>2. ASSUME TypeOK, Filled, FormTitle, [Next]_vars PROVE FormTitle'
  <2>1. CASE UNCHANGED view \/ showList' = TRUE
    BY <1>2, <2>1 DEF FormTitle, view
  <2>2. CASE add
    BY <2>2 DEF add, FormTitle
  <2>3. ASSUME NEW b \in Bean \cup {""}, TypeBean(b) PROVE FormTitle'
    <3>1. /\ ~showList /\ schedule # Null /\ schedule \in Form /\ title' = title
          /\ schedule' = [schedule EXCEPT !.bean = b]
      BY <1>2, <2>3 DEF TypeBean, TypeOK
    <3>2. schedule'.job = schedule.job
      BY <3>1 DEF Form
    <3> QED
      BY <1>2, <3>1, <3>2 DEF FormTitle
  <2>4. ASSUME NEW s \in Slot, Receive(s), InfoArrives(s) PROVE FormTitle'
    <3>1. s \in Busy /\ net[s].op = "info" /\ net[s].served
      BY <2>4 DEF Receive, InfoArrives
    <3> QED
      BY <1>2, <2>4, <3>1 DEF InfoArrives, Filled, FormTitle
  <2>5. CASE title' = "update" /\ schedule' = Null
    BY <2>5 DEF FormTitle
  <2> QED
    BY <1>2, <2>1, <2>2, <2>3, <2>4, <2>5, ViewSteps
<1>3. TypeOK /\ Filled /\ [Next]_vars => Filled'
  BY FilledStep
<1> QED
  BY <1>1, <1>2, <1>3, Typing, PTL DEF Spec

-----------------------------------------------------------------------------
(* The selection.                                                          *)

\* While the list is loading nothing is selected.
SelectionInv ==
    "hasty" \notin trouble => selected \subseteq DOMAIN grid /\ (Loading => selected = {})

LEMMA SelectionStep ==
    ASSUME TypeOK, SelectionInv, [Next]_vars PROVE SelectionInv'
<1> SUFFICES ASSUME "hasty" \notin trouble'
             PROVE  selected' \subseteq DOMAIN grid' /\ (Loading' => selected' = {})
  BY DEF SelectionInv
<1>0. selected \subseteq DOMAIN grid /\ (Loading => selected = {})
  BY TroubleGrows DEF SelectionInv
<1>1. CASE selected' = {}
  BY <1>1
<1>2. CASE selected' = selected /\ grid' = grid /\ (Loading' => Loading)
  BY <1>0, <1>2
<1>3. ASSUME NEW j \in Job, Select(j)
      PROVE  selected' \subseteq DOMAIN grid' /\ ~Loading'
  <2>1. Busy = {} /\ net' = net /\ grid' = grid /\ j \in DOMAIN grid
    BY <1>3, Unhurried DEF Select, Acts
  <2>2. selected' \subseteq selected \cup {j}
    BY <1>3 DEF Select
  <2> QED
    BY <1>0, <2>1, <2>2 DEF Busy, Loading
<1>4. ASSUME Query \/ \E p \in 1..last : Turn(p) PROVE selected' = {}
  BY <1>4 DEF Query, Turn, Reload
<1>5. ASSUME add \/ Refuse \/ Cancel \/ DismissAlert \/ Others \/ UNCHANGED vars
      PROVE  selected' = selected /\ grid' = grid /\ Loading' = Loading
  BY <1>5 DEF add, Refuse, Cancel, DismissAlert, Others, vars, list, Loading, Busy
<1>6. ASSUME CloseAlert
      PROVE  selected' = {} \/ (selected' = selected /\ grid' = grid /\ Loading' = Loading)
  BY <1>6 DEF CloseAlert, Reload, list, Loading, Busy
<1>7. ASSUME update \/ saveOrUpdate \/ Confirm
      PROVE  selected' = selected /\ grid' = grid /\ ~Loading'
  <2>1. Busy = {} /\ selected' = selected /\ grid' = grid
    BY <1>7, Unhurried DEF update, saveOrUpdate, Confirm, Acts, list
  <2>2. CASE net' = net
    BY <2>1, <2>2 DEF Busy, Loading
  <2>3. ASSUME NEW r, r.op \in {"info", "save", "update"} \cup Operations, Send(r)
        PROVE  ~Loading'
    <3>1. r # Idle /\ r.op # "list"
      BY <2>3 DEF Idle, Operations
    <3>2. PICK s \in Slot : Busy' = {s} /\ net'[s] = r
      BY <2>1, <2>3, <3>1, Sent
    <3> QED
      BY <3>1, <3>2 DEF Loading
  <2>4. ASSUME update PROVE ~Loading'
    <3>1. PICK j \in selected : Send([op |-> "info", job |-> j, served |-> FALSE])
      BY <2>4 DEF update
    <3> QED
      BY <2>3, <3>1
  <2>5. ASSUME saveOrUpdate PROVE ~Loading'
    BY <2>2, <2>3, <2>5 DEF saveOrUpdate
  <2>6. ASSUME Confirm PROVE ~Loading'
    <3>1. dialog \in Dialog
      BY DEF TypeOK, Dialog
    <3>2. dialog.op \in Operations
      BY <2>6, <3>1 DEF Confirm, Dialog, NoDialog
    <3> QED
      BY <2>3, <2>6, <3>2 DEF Confirm
  <2> QED
    BY <1>7, <2>1, <2>4, <2>5, <2>6
<1>8. ASSUME NEW b \in Bean \cup {""}, TypeBean(b)
      PROVE  selected' = selected /\ grid' = grid /\ Loading' = Loading
  BY <1>8 DEF TypeBean, list, Loading, Busy
<1>9. ASSUME NEW op \in Operations, Operate(op)
      PROVE  selected' = selected /\ grid' = grid /\ Loading' = Loading
  BY <1>9 DEF Operate, list, Loading, Busy
<1>10. ASSUME NEW s \in Slot, Serve(s)
       PROVE  selected' = selected /\ grid' = grid /\ (Loading' => Loading)
  <2>1. UNCHANGED list /\ Busy' = Busy /\ \A q \in Busy : net'[q].op = net[q].op
    BY <1>10, Handled DEF Busy
  <2> QED
    BY <2>1 DEF list, Loading
<1>11. ASSUME NEW s \in Slot, Receive(s) \/ Fail(s)
       PROVE  \/ selected' = {}
              \/ selected' = selected /\ grid' = grid /\ (Loading' => Loading)
  <2>1. s \in Busy /\ Busy' = Busy \ {s} /\ \A q \in Busy' : net'[q] = net[q]
    BY <1>11, Over DEF Busy
  <2>2. Loading' => Loading
    BY <2>1 DEF Loading
  <2>3. Receive(s) /\ Listed(s) => selected' = {}
    BY <1>0, <2>1 DEF Listed, Loading
  <2>4. UNCHANGED list \/ (Receive(s) /\ Listed(s)) \/ (net[s].op = "list" /\ selected' = selected)
    BY <1>11 DEF Receive, Fail, ErrorCode, InfoArrives, Success
  <2>5. net[s].op = "list" => selected = {}
    BY <1>0, <2>1 DEF Loading
  <2> QED
    BY <2>2, <2>3, <2>4, <2>5 DEF list
<1> QED
  BY <1>1, <1>2, <1>3, <1>4, <1>5, <1>6, <1>7, <1>8, <1>9, <1>10, <1>11, <1>0 DEF Next

\* Who waits for the answers never has a row selected that the list does not show,
\* for any number of jobs, rows of a page and requests.
THEOREM SelectionShownHolds == Spec => []SelectionShown
<1>1. Init => SelectionInv
  BY DEF Init, SelectionInv
<1>2. TypeOK /\ SelectionInv /\ [Next]_vars => SelectionInv'
  BY SelectionStep
<1>3. SelectionInv => SelectionShown
  BY DEF SelectionInv, SelectionShown
<1> QED
  BY <1>1, <1>2, <1>3, Typing, PTL DEF Spec

-----------------------------------------------------------------------------
(* One form, one job.                                                      *)

\* The number of a form for a new job that can still be saved is fresh.
SaveInv ==
    trouble \subseteq {"others"} =>
        /\ ~twice /\ made \subseteq 1..forms
        /\ \A s \in Busy : net[s].op = "save" /\ ~net[s].served =>
                               net[s].form.no \in (1..forms) \ made
        /\ ~showList /\ schedule # Null /\ schedule.job = New /\ Busy = {} /\ dialog # Alert(TRUE)
              => schedule.no \in (1..forms) \ made

\* The dialogs that are not the alert after an operation.
LEMMA Dialogs ==
    /\ Alert(TRUE) # Alert(FALSE) /\ Alert(TRUE) # NoDialog
    /\ Alert(TRUE).kind = "alert" /\ Alert(TRUE).reload
  BY DEF Alert, NoDialog

LEMMA ServeHistory ==
    ASSUME NEW s \in Slot, Serve(s), net[s].op # "save" PROVE UNCHANGED history
  BY DEF Serve, ServeList, info, save, updateById, ServeOperation

LEMMA SaveStep ==
    ASSUME TypeOK, Orderly, Filled, SaveInv, [Next]_vars PROVE SaveInv'
<1> SUFFICES ASSUME trouble' \subseteq {"others"} PROVE SaveInv'
  BY DEF SaveInv
<1> DEFINE Fresh(n) == n \in (1..forms) \ made
<1>0. /\ InTurn /\ "hasty" \notin trouble' /\ trouble \subseteq {"others"}
      /\ ~twice /\ made \subseteq 1..forms /\ forms \in Nat
  <2>1. trouble \subseteq {"others"} /\ "hasty" \notin trouble'
    BY TroubleGrows
  <2>2. forms \in Nat
    <3>1. forms \in 0..MaxForms
      BY DEF TypeOK
    <3> QED
      BY <3>1, Bounds
  <2> QED
    BY <2>1, <2>2 DEF SaveInv, Orderly
<1>a. \A s \in Busy : net[s].op = "save" /\ ~net[s].served => Fresh(net[s].form.no)
  BY <1>0 DEF SaveInv
<1>b. ~showList /\ schedule # Null /\ schedule.job = New /\ Busy = {} /\ dialog # Alert(TRUE)
        => Fresh(schedule.no)
  BY <1>0 DEF SaveInv
<1>1. ASSUME Query PROVE showList' /\ (\A s \in Busy' : net'[s].op # "save") /\ UNCHANGED history
  <2>1. Busy = {} /\ Populate(current) /\ current \in Nat /\ showList' /\ UNCHANGED history
    BY <1>0, <1>1, Unhurried DEF Query, Acts, Reload, TypeOK
  <2>2. PICK s \in Slot : /\ Busy' = {s}
                          /\ net'[s] = [op |-> "list", page |-> current, served |-> FALSE]
    BY <2>1, Populated
  <2>3. net'[s].op = "list"
    BY <2>2
  <2> QED
    BY <2>1, <2>2, <2>3
<1>2. ASSUME add
      PROVE  /\ Busy' = {} /\ made' = made /\ twice' = twice
             /\ forms' = forms + 1 /\ schedule'.no = forms + 1
  <2>1. Busy = {} /\ net' = net
    BY <1>0, <1>2, Unhurried DEF add, Acts
  <2> QED
    BY <1>2, <2>1 DEF add, Busy
<1>3. ASSUME update PROVE showList' /\ (\A s \in Busy' : net'[s].op # "save") /\ UNCHANGED history
  <2>1. Busy = {} /\ showList' /\ UNCHANGED history
    BY <1>0, <1>3, Unhurried DEF update, Acts, view
  <2>2. PICK j \in selected : Send([op |-> "info", job |-> j, served |-> FALSE])
    BY <1>3 DEF update
  <2>3. [op |-> "info", job |-> j, served |-> FALSE] # Idle
    BY DEF Idle
  <2>4. PICK s \in Slot : Busy' = {s} /\ net'[s] = [op |-> "info", job |-> j, served |-> FALSE]
    BY <2>1, <2>2, <2>3, Sent
  <2>5. net'[s].op = "info"
    BY <2>4
  <2> QED
    BY <2>1, <2>4, <2>5
<1>4. ASSUME saveOrUpdate
      PROVE  /\ UNCHANGED <<history, schedule>>
             /\ \A s \in Busy' : net'[s].op = "save" => Fresh(net'[s].form.no)
             /\ Busy' = {} => (schedule.job = New => Fresh(schedule.no))
  <2>1. /\ Busy = {} /\ dialog = NoDialog /\ ~showList /\ schedule # Null
        /\ UNCHANGED <<history, schedule>>
    BY <1>0, <1>4, Unhurried DEF saveOrUpdate, Acts, view
  <2>2. schedule.job = New => Fresh(schedule.no)
    BY <1>b, <2>1, Dialogs
  <2>3. CASE UNCHANGED net
    BY <2>1, <2>2, <2>3 DEF Busy
  <2> DEFINE r == [op |-> IF schedule.job = New THEN "save" ELSE "update",
                   form |-> schedule, served |-> FALSE]
  <2>4. CASE Send(r)
    <3>1. r # Idle /\ r.form = schedule /\ (r.op = "save" => schedule.job = New)
      BY DEF Idle
    <3>2. PICK s \in Slot : Busy' = {s} /\ net'[s] = r
      BY <2>1, <2>4, <3>1, Sent
    <3> HIDE DEF r
    <3> QED
      BY <2>1, <2>2, <3>1, <3>2
  <2> QED
    BY <1>4, <2>3, <2>4 DEF saveOrUpdate
<1>5. ASSUME Refuse \/ Cancel
      PROVE  showList' /\ Busy' = {} /\ UNCHANGED history
  <2>1. showList
    BY <1>0, <1>5 DEF Refuse, Cancel, InTurn
  <2>2. Busy = {} /\ net' = net /\ UNCHANGED history /\ showList' = showList
    BY <1>0, <1>5, Unhurried DEF Refuse, Cancel, Acts, view
  <2> QED
    BY <2>1, <2>2 DEF Busy
<1>6. ASSUME Confirm
      PROVE  showList' /\ (\A s \in Busy' : net'[s].op # "save") /\ UNCHANGED history
  <2>1. showList' /\ Busy = {} /\ UNCHANGED history
    BY <1>0, <1>6, Unhurried DEF Confirm, InTurn, view
  <2>2. dialog.op \in Operations
    <3>1. dialog \in Dialog
      BY DEF TypeOK, Dialog
    <3> QED
      BY <1>6, <3>1 DEF Confirm, Dialog, NoDialog
  <2> DEFINE r == [op |-> dialog.op, job |-> dialog.job, served |-> FALSE]
  <2>3. r # Idle /\ r.op \in Operations /\ Send(r)
    BY <1>6, <2>2 DEF Confirm, Idle
  <2>4. PICK s \in Slot : Busy' = {s} /\ net'[s] = r
    BY <2>1, <2>3, Sent
  <2>5. net'[s].op # "save"
    BY <2>3, <2>4 DEF Operations
  <2> QED
    BY <2>1, <2>4, <2>5
<1>7. ASSUME CloseAlert
      PROVE  \/ /\ showList' /\ (\A s \in Busy' : net'[s].op # "save") /\ UNCHANGED history
             \/ /\ Busy' = {} /\ Busy = {} /\ UNCHANGED <<view, history>> /\ dialog # Alert(TRUE)
  <2>1. Busy = {} /\ UNCHANGED history
    BY <1>0, <1>7 DEF CloseAlert, InTurn
  <2>2. CASE dialog.reload
    <3>1. Populate(current) /\ current \in Nat /\ showList'
      BY <1>7, <2>2 DEF CloseAlert, Reload, TypeOK
    <3>2. PICK s \in Slot : /\ Busy' = {s}
                            /\ net'[s] = [op |-> "list", page |-> current, served |-> FALSE]
      BY <2>1, <3>1, Populated
    <3>3. net'[s].op = "list"
      BY <3>2
    <3> QED
      BY <2>1, <3>1, <3>2, <3>3
  <2>3. CASE ~dialog.reload
    BY <1>7, <2>1, <2>3, Dialogs DEF CloseAlert, Busy
  <2> QED
    BY <2>2, <2>3
<1>8. ASSUME DismissAlert
      PROVE  Busy' = {} /\ Busy = {} /\ UNCHANGED <<view, history>> /\ dialog # Alert(TRUE)
  <2>1. ~dialog.reload
    BY <1>8 DEF DismissAlert, Trouble
  <2> QED
    BY <1>0, <1>8, <2>1, Dialogs DEF DismissAlert, InTurn, Busy
<1>9. ASSUME Others \/ UNCHANGED vars
      PROVE  net' = net /\ Busy' = Busy /\ UNCHANGED <<view, dialog, history>>
  BY <1>9 DEF Others, vars, Busy
<1>10. ASSUME (\E j \in Job : Select(j)) \/ (\E op \in Operations : Operate(op))
       PROVE  showList' /\ Busy' = {} /\ UNCHANGED history
  <2>1. Busy = {} /\ net' = net
    BY <1>0, <1>10, Unhurried DEF Select, Operate, Acts
  <2> QED
    BY <1>10, <2>1 DEF Select, Operate, view, Busy
<1>11. ASSUME NEW p \in 1..last, Turn(p)
       PROVE  showList' /\ (\A s \in Busy' : net'[s].op # "save") /\ UNCHANGED history
  <2>1. p \in Nat
    <3>1. last \in Nat
      BY DEF TypeOK
    <3> QED
      BY <3>1
  <2>2. Busy = {} /\ Populate(p) /\ showList' /\ UNCHANGED history
    BY <1>0, <1>11, Unhurried DEF Turn, Acts, view
  <2>3. PICK s \in Slot : /\ Busy' = {s}
                          /\ net'[s] = [op |-> "list", page |-> p, served |-> FALSE]
    BY <2>1, <2>2, Populated
  <2>4. net'[s].op = "list"
    BY <2>3
  <2> QED
    BY <2>2, <2>3, <2>4
<1>12. ASSUME NEW b \in Bean \cup {""}, TypeBean(b)
       PROVE  /\ Busy' = {} /\ UNCHANGED history
              /\ schedule'.job = New => Fresh(schedule'.no)
  <2>1. /\ Busy = {} /\ net' = net /\ dialog = NoDialog /\ ~showList /\ schedule # Null
        /\ schedule \in Form /\ schedule' = [schedule EXCEPT !.bean = b] /\ UNCHANGED history
    BY <1>0, <1>12, Unhurried DEF TypeBean, Acts, TypeOK
  <2>2. schedule'.no = schedule.no /\ schedule'.job = schedule.job
    BY <2>1 DEF Form
  <2> QED
    BY <1>b, <2>1, <2>2, Dialogs DEF Busy
<1>13. ASSUME NEW s \in Slot, Serve(s), net[s].op # "save"
       PROVE  /\ Busy' # {} /\ UNCHANGED history
              /\ \A q \in Busy' : net'[q].op = "save" /\ ~net'[q].served => Fresh(net'[q].form.no)
  <2>1. s \in Busy' /\ UNCHANGED history
    BY <1>13, Handled, ServeHistory
  <2>2. \A q \in Busy' : q # s => net'[q] = net[q] /\ q \in Busy
    BY <1>13, Handled DEF Busy
  <2>3. net'[s].served
    BY <1>13, Handled
  <2> QED
    BY <1>a, <2>1, <2>2, <2>3
<1>14. ASSUME NEW s \in Slot, Serve(s), net[s].op = "save"
       PROVE  /\ \A q \in Busy' : net'[q].served
              /\ ~twice' /\ made' \subseteq 1..forms' /\ Busy' # {}
  <2>1. save(s)
    BY <1>14 DEF Serve, ServeList, info, updateById, ServeOperation, Operations
  <2>2. s \in Busy /\ Busy' = Busy /\ net'[s].served /\ ~net[s].served
    BY <1>14, Handled
  <2>3. Fresh(net[s].form.no)
    BY <1>14, <1>a, <2>2
  <2>4. /\ made' = made \cup {net[s].form.no} /\ forms' = forms
        /\ twice' = (twice \/ net[s].form.no \in made)
    BY <2>1 DEF save
  <2> QED
    BY <1>0, <2>2, <2>3, <2>4 DEF InTurn
<1>15. ASSUME NEW s \in Slot, Receive(s)
       PROVE  /\ Busy' = {} /\ UNCHANGED history
              /\ ~(~showList' /\ schedule' # Null /\ schedule'.job = New /\ dialog' # Alert(TRUE))
  <2>1. s \in Busy /\ Busy' = {} /\ UNCHANGED history /\ net[s].served
    BY <1>0, <1>15, Over DEF InTurn, Receive
  <2>2. CASE Listed(s)
    BY <1>0, <2>1, <2>2 DEF Listed, InTurn, view
  <2>3. CASE InfoArrives(s)
    <3>1. net[s].op = "info" /\ schedule' = net[s].schedule
      BY <2>3 DEF InfoArrives
    <3>2. schedule' # Null => schedule'.job # New
      BY <2>1, <3>1 DEF Filled
    <3>3. ~(~showList' /\ schedule' # Null /\ schedule'.job = New /\ dialog' # Alert(TRUE))
      BY <3>2
    <3> QED
      BY <2>1, <3>3
  <2>4. CASE Success(s)
    BY <2>1, <2>4 DEF Success
  <2> QED
    BY <1>15, <2>1, <2>2, <2>3, <2>4 DEF Receive
<1>16. ASSUME NEW s \in Slot, Fail(s) PROVE FALSE
  BY <1>16 DEF Fail, Trouble
<1>17. ASSUME UNCHANGED history, showList' \/ Busy' # {},
              \A s \in Busy' : net'[s].op = "save" /\ ~net'[s].served => Fresh(net'[s].form.no)
       PROVE  SaveInv'
  BY <1>0, <1>17 DEF SaveInv, history
<1>18. ASSUME UNCHANGED history, Busy' = {},
              ~showList' /\ schedule' # Null /\ schedule'.job = New /\ dialog' # Alert(TRUE)
                 => Fresh(schedule'.no)
       PROVE  SaveInv'
  BY <1>0, <1>18 DEF SaveInv, history, Alert
<1>19. ASSUME Query \/ update \/ Confirm \/ Refuse \/ Cancel PROVE SaveInv'
  BY <1>1, <1>3, <1>5, <1>6, <1>17, <1>19
<1>20. ASSUME add PROVE SaveInv'
  <2>1. forms' = forms + 1 /\ made' = made
    BY <1>2, <1>20
  <2>2. 1..forms \subseteq 1..(forms + 1) /\ forms + 1 \in 1..(forms + 1)
        /\ forms + 1 \notin 1..forms
    BY <1>0
  <2>3. forms + 1 \in (1..forms') \ made' /\ made' \subseteq 1..forms'
    BY <1>0, <2>1, <2>2
  <2> QED
    BY <1>0, <1>2, <1>20, <2>3 DEF SaveInv
<1>21. ASSUME saveOrUpdate PROVE SaveInv'
  <2>1. CASE Busy' = {}
    BY <1>4, <1>18, <1>21, <2>1
  <2>2. CASE Busy' # {}
    BY <1>4, <1>17, <1>21, <2>2
  <2> QED
    BY <2>1, <2>2
<1>22. ASSUME CloseAlert \/ DismissAlert PROVE SaveInv'
  <2>1. CASE showList' /\ (\A s \in Busy' : net'[s].op # "save") /\ UNCHANGED history
    BY <1>17, <2>1
  <2>2. CASE Busy' = {} /\ Busy = {} /\ UNCHANGED <<view, history>> /\ dialog # Alert(TRUE)
    BY <1>b, <1>18, <2>2 DEF view
  <2> QED
    BY <1>7, <1>8, <1>22, <2>1, <2>2
<1>23. ASSUME Others \/ UNCHANGED vars PROVE SaveInv'
  BY <1>0, <1>a, <1>b, <1>9, <1>23 DEF SaveInv, history, view, Alert
<1>24. ASSUME (\E j \in Job : Select(j)) \/ (\E op \in Operations : Operate(op)) PROVE SaveInv'
  BY <1>10, <1>17, <1>24
<1>25. ASSUME NEW p \in 1..last, Turn(p) PROVE SaveInv'
  BY <1>11, <1>17, <1>25
<1>26. ASSUME NEW b \in Bean \cup {""}, TypeBean(b) PROVE SaveInv'
  BY <1>12, <1>18, <1>26
<1>27. ASSUME NEW s \in Slot, Serve(s) PROVE SaveInv'
  <2>1. CASE net[s].op # "save"
    BY <1>13, <1>17, <1>27, <2>1
  <2>2. CASE net[s].op = "save"
    BY <1>14, <1>27, <2>2 DEF SaveInv
  <2> QED
    BY <2>1, <2>2
<1>28. ASSUME NEW s \in Slot, Receive(s) PROVE SaveInv'
  BY <1>15, <1>18, <1>28
<1> QED
  BY <1>16, <1>19, <1>20, <1>21, <1>22, <1>23, <1>24, <1>25, <1>26, <1>27, <1>28 DEF Next

\* One form makes one job, for any number of requests under way, as long as the
\* operator waits for the answers and lets the page go on to the list.
THEOREM NoDoubleSaveHolds == Spec => []NoDoubleSave
<1>1. Init => Orderly /\ Filled /\ SaveInv
  <2> SUFFICES ASSUME Init PROVE Orderly /\ Filled /\ SaveInv
    OBVIOUS
  <2>1. PICK s \in Slot : Busy = {s} /\ net[s].op = "list" /\ ~net[s].served
    BY Beginning
  <2>2. dialog = NoDialog /\ showList /\ ~twice /\ made = {} /\ forms = 0
    BY DEF Init
  <2>3. Orderly
    BY <2>1, <2>2 DEF Orderly, InTurn, NoDialog, Operations
  <2> QED
    BY <2>1, <2>2, <2>3 DEF Filled, SaveInv
<1>2. TypeOK /\ Orderly /\ Filled /\ SaveInv /\ [Next]_vars => (Orderly /\ Filled /\ SaveInv)'
  BY OrderlyStep, FilledStep, SaveStep
<1>3. SaveInv => NoDoubleSave
  BY DEF SaveInv, NoDoubleSave
<1> QED
  BY <1>1, <1>2, <1>3, Typing, PTL DEF Spec
-----------------------------------------------------------------------------
(* The status of a job.                                                    *)

\* A form that changes a job was filled from its row, and has a status only if the
\* row has the same.
Fits(f) ==
    f.job # New =>
        /\ rows[f.job].status # "free"
        /\ Present(f.job) => f.status \in {"NULL", rows[f.job].status}

Alone == trouble \cap {"hasty", "others"} = {}

\* It fits while it is shown, on its way to the page, and on its way back.
StatusInv ==
    Alone =>
        /\ ~showList => Fits(schedule)
        /\ \A s \in Busy : net[s].op = "info" /\ net[s].served => Fits(net[s].schedule)
        /\ \A s \in Busy : net[s].op = "update" /\ ~net[s].served => Fits(net[s].form)

LEMMA NullJob == Null.job = New
  BY DEF Null

LEMMA AloneBefore == ASSUME [Next]_vars, Alone' PROVE Alone /\ "hasty" \notin trouble
  BY TroubleGrows DEF Alone

\* An update that is handled changes no status.
LEMMA UpdateServedKeeps ==
    ASSUME TypeOK, NEW s \in Slot, updateById(s), Fits(net[s].form), s \in Busy, ~net[s].served
    PROVE  \A j \in Job : rows'[j].status = rows[j].status
<1> DEFINE f == net[s].form
<1>1. f \in Form
  <2>1. net[s] \in FormRequest
    BY MessageKinds DEF updateById, TypeOK, Message, Busy
  <2> QED
    BY <2>1 DEF FormRequest
<1> HIDE DEF f
<1>2. CASE ~Present(f.job)
  BY <1>2 DEF updateById, f
<1>3. CASE Present(f.job) /\ f.job \in Job
  <2> DEFINE st == IF f.status = "NULL" THEN rows[f.job].status ELSE f.status
  <2>1. rows' = [rows EXCEPT ![f.job] = [status |-> st, bean |-> f.bean]]
    BY <1>3 DEF updateById, f
  <2>2. st = rows[f.job].status
    <3>1. f.job # New
      BY <1>3, Bounds DEF New
    <3> QED
      BY <1>3, <3>1 DEF Fits, f
  <2> HIDE DEF st
  <2>3. rows \in [Job -> Row]
    BY DEF TypeOK
  <2> QED
    BY <1>3, <2>1, <2>2, <2>3
<1>4. CASE Present(f.job) /\ f.job = New
  <2>1. f.job \notin Job /\ DOMAIN rows = Job
    BY <1>4, Bounds DEF TypeOK, New
  <2> QED
    BY <1>4, <2>1 DEF updateById, f
<1> QED
  BY <1>1, <1>2, <1>3, <1>4 DEF Form

\* What the monitor does to the rows.
LEMMA RowsSteps ==
    ASSUME TypeOK, [Next]_vars, Alone'
    PROVE  \/ rows' = rows
           \/ \E s \in Slot : Serve(s) /\ (save(s) \/ updateById(s) \/ ServeOperation(s))
<1>1. CASE \E s \in Slot : Serve(s)
  BY <1>1 DEF Serve, ServeList, info
<1>2. CASE \E s \in Slot : Receive(s) \/ Fail(s)
  BY <1>2 DEF Receive, Fail
<1>3. CASE Others
  BY <1>3 DEF Others, Trouble, Alone
<1>4. CASE Query \/ add \/ update \/ saveOrUpdate \/ Refuse
  BY <1>4 DEF Query, add, update, saveOrUpdate, Refuse
<1>5. CASE Confirm \/ Cancel \/ CloseAlert \/ DismissAlert \/ UNCHANGED vars
  BY <1>5 DEF Confirm, Cancel, CloseAlert, DismissAlert, vars
<1>6. CASE (\E j \in Job : Select(j)) \/ (\E p \in 1..last : Turn(p))
  BY <1>6 DEF Select, Turn
<1>7. CASE (\E b \in Bean \cup {""} : TypeBean(b)) \/ (\E op \in Operations : Operate(op))
  BY <1>7 DEF TypeBean, Operate
<1> QED
  BY <1>1, <1>2, <1>3, <1>4, <1>5, <1>6, <1>7 DEF Next

\* Only an operation of the list can make a form unfit.
LEMMA FitsKept ==
    ASSUME TypeOK, StatusInv, [Next]_vars, Alone', NEW f \in Form \cup {Null}, Fits(f),
           ~ \E s \in Slot : Serve(s) /\ ServeOperation(s)
    PROVE  Fits(f)'
<1>0. Alone /\ (f.job = New \/ f.job \in Job) /\ rows \in [Job -> Row]
  <2>1. f \in Form => f.job = New \/ f.job \in Job
    BY DEF Form
  <2>2. f = Null => f.job = New
    BY NullJob
  <2> QED
    BY <2>1, <2>2, AloneBefore DEF TypeOK
<1>1. CASE rows' = rows
  BY <1>1 DEF Fits, Present
<1>2. ASSUME NEW s \in Slot, Serve(s), updateById(s) PROVE Fits(f)'
  <2>1. s \in Busy /\ net[s].op = "update" /\ ~net[s].served
    BY <1>2 DEF Serve, updateById
  <2>2. Fits(net[s].form)
    BY <1>0, <2>1 DEF StatusInv
  <2>3. \A j \in Job : rows'[j].status = rows[j].status
    BY <1>2, <2>1, <2>2, UpdateServedKeeps
  <2> QED
    BY <1>0, <2>3 DEF Fits, Present
<1>3. ASSUME NEW s \in Slot, save(s) PROVE Fits(f)'
  <2>1. PICK j \in Job : /\ rows[j].status = "free"
                         /\ rows' = [rows EXCEPT ![j] = [status |-> "NULL", bean |-> net[s].form.bean]]
    BY <1>3 DEF save
  <2>2. f.job # New => f.job # j
    BY <2>1 DEF Fits
  <2>3. f.job # New => rows'[f.job] = rows[f.job]
    BY <1>0, <2>1, <2>2
  <2> QED
    BY <2>3 DEF Fits, Present
<1> QED
  BY <1>1, <1>2, <1>3, RowsSteps

LEMMA StatusStep ==
    ASSUME TypeOK, TypeOK', Orderly, StatusInv, [Next]_vars PROVE StatusInv'
<1> SUFFICES ASSUME Alone' PROVE StatusInv'
  BY DEF StatusInv
<1>0. Alone /\ InTurn
  BY AloneBefore DEF Orderly
<1>1. CASE \E s \in Slot : Serve(s) /\ ServeOperation(s)
  <2>1. PICK s \in Slot : Serve(s) /\ ServeOperation(s)
    BY <1>1
  <2>2. /\ s \in Busy /\ Busy' = {s} /\ net'[s].op \in Operations
        /\ net[s].op \in Operations /\ showList' = showList
    BY <1>0, <2>1, Handled DEF InTurn, ServeOperation, view
  <2>3. showList'
    BY <1>0, <2>2 DEF InTurn, Operations
  <2> QED
    BY <2>2, <2>3 DEF StatusInv, Operations
<1>2. CASE ~ \E s \in Slot : Serve(s) /\ ServeOperation(s)
  <2>1. \A f \in Form \cup {Null} : Fits(f) => Fits(f)'
    BY <1>2, FitsKept
  <2>2. ~showList' => Fits(schedule)'
    <3> SUFFICES ASSUME ~showList' PROVE Fits(schedule)'
      OBVIOUS
    <3>1. CASE UNCHANGED view
      <4>1. Fits(schedule) /\ schedule \in Form \cup {Null} /\ schedule' = schedule
        BY <1>0, <3>1 DEF StatusInv, view, TypeOK
      <4>2. PICK f \in Form \cup {Null} : f = schedule
        BY <4>1
      <4> QED
        BY <2>1, <4>1, <4>2 DEF Fits
    <3>2. CASE add
      BY <3>2 DEF add, Fits
    <3>3. ASSUME NEW b \in Bean \cup {""}, TypeBean(b) PROVE Fits(schedule)'
      <4>1. /\ ~showList /\ schedule # Null /\ schedule \in Form
            /\ schedule' = [schedule EXCEPT !.bean = b]
        BY <3>3 DEF TypeBean, TypeOK
      <4>2. schedule'.job = schedule.job /\ schedule'.status = schedule.status
        BY <4>1 DEF Form
      <4>3. PICK f \in Form : f = schedule
        BY <4>1
      <4>4. Fits(f)'
        BY <1>0, <2>1, <4>1, <4>3 DEF StatusInv
      <4> QED
        BY <4>2, <4>3, <4>4 DEF Fits
    <3>4. ASSUME NEW s \in Slot, Receive(s), InfoArrives(s) PROVE Fits(schedule)'
      <4>1. s \in Busy /\ net[s].op = "info" /\ net[s].served /\ schedule' = net[s].schedule
        BY <3>4 DEF Receive, InfoArrives
      <4>2. Fits(net[s].schedule)
        BY <1>0, <4>1 DEF StatusInv
      <4>3. net[s].schedule \in Form \cup {Null}
        BY <4>1, MessageKinds DEF TypeOK, Message, Busy
      <4>4. PICK f \in Form \cup {Null} : f = net[s].schedule
        BY <4>3
      <4> QED
        BY <2>1, <4>1, <4>2, <4>4 DEF Fits
    <3>5. CASE title' = "update" /\ schedule' = Null
      BY <3>5, NullJob DEF Fits
    <3> QED
      BY <3>1, <3>2, <3>3, <3>4, <3>5, ViewSteps
  <2>3. ASSUME NEW q \in Slot, net'[q] # Idle, net'[q].op = "info", net'[q].served
        PROVE  Fits(net[q].schedule)'
    <3>1. CASE net'[q] = net[q]
      <4>1. net[q].schedule \in Form \cup {Null} /\ Fits(net[q].schedule)
        BY <1>0, <2>3, <3>1, MessageKinds DEF StatusInv, TypeOK, Message, Busy
      <4>2. PICK f \in Form \cup {Null} : f = net[q].schedule
        BY <4>1
      <4> QED
        BY <2>1, <3>1, <4>1, <4>2 DEF Fits
    <3>2. CASE Serve(q)
      <4>1. net[q].op = "info" /\ info(q)
        <5>1. net[q].op = "info"
          BY <2>3, <3>2, Handled
        <5> QED
          BY <3>2, <5>1
          DEF Serve, ServeList, save, updateById, ServeOperation, Operations
      <4> DEFINE j == net[q].job
                 a == IF Present(j)
                      THEN [job |-> j, status |-> rows[j].status, bean |-> rows[j].bean, no |-> 0]
                      ELSE Null
      <4>2. net'[q] = [op |-> "info", served |-> TRUE, schedule |-> a] /\ rows' = rows
        BY <4>1 DEF info, Answered, TypeOK
      <4>3. net'[q].schedule = a
        BY <4>2
      <4>4. CASE Present(j)
        BY <4>2, <4>3, <4>4 DEF Fits, Present, Status
      <4>5. CASE ~Present(j)
        <5>1. net'[q].schedule.job = New
          BY <4>3, <4>5, NullJob
        <5> QED
          BY <5>1 DEF Fits
      <4> QED
        BY <4>4, <4>5
    <3> QED
      BY <2>3, <3>1, <3>2, AnswersAreServed
  <2>4. ASSUME NEW q \in Slot, net'[q] # Idle, net'[q].op = "update", ~net'[q].served
        PROVE  Fits(net[q].form)'
    <3>1. \/ q \in Busy /\ net'[q] = net[q] /\ net[q] \in FormRequest
          \/ ~showList /\ net'[q].form = schedule
      <4>1. ~Serve(q)
        BY <2>4, Handled
      <4>2. ~Receive(q) /\ ~Fail(q)
        BY <2>4 DEF Receive, Fail, TypeOK
      <4>3. CASE net'[q] = net[q]
        BY <2>4, <4>3, MessageKinds DEF TypeOK, Message, Busy
      <4> QED
        BY <2>4, <4>1, <4>2, <4>3, NetSteps DEF Asks
    <3>2. CASE q \in Busy /\ net'[q] = net[q] /\ net[q] \in FormRequest
      <4>1. net[q].form \in Form /\ Fits(net[q].form)
        BY <1>0, <2>4, <3>2 DEF StatusInv, FormRequest
      <4>2. PICK f \in Form : f = net[q].form
        BY <4>1
      <4> QED
        BY <2>1, <3>2, <4>1, <4>2 DEF Fits
    <3>3. CASE ~showList /\ net'[q].form = schedule
      <4>1. Fits(schedule) /\ schedule \in Form \cup {Null}
        BY <1>0, <3>3 DEF StatusInv, TypeOK
      <4>2. PICK f \in Form \cup {Null} : f = schedule
        BY <4>1
      <4> QED
        BY <2>1, <3>3, <4>1, <4>2 DEF Fits
    <3> QED
      BY <3>1, <3>2, <3>3
  <2> QED
    BY <2>2, <2>3, <2>4 DEF StatusInv, Busy
<1> QED
  BY <1>1, <1>2

\* Whatever answers are lost: an operator who waits for them changes the bean name
\* of a job and leaves it switched on or off as it was.
THEOREM StatusKeptHolds == Spec => StatusKept
<1>1. Init => Orderly /\ StatusInv
  <2> SUFFICES ASSUME Init PROVE Orderly /\ StatusInv
    OBVIOUS
  <2>1. PICK s \in Slot : Busy = {s} /\ net[s].op = "list" /\ ~net[s].served
    BY Beginning
  <2>2. dialog = NoDialog /\ showList
    BY DEF Init
  <2> QED
    BY <2>1, <2>2 DEF Orderly, InTurn, NoDialog, Operations, StatusInv
<1>2. TypeOK /\ TypeOK' /\ Orderly /\ StatusInv /\ [Next]_vars => (Orderly /\ StatusInv)'
  BY OrderlyStep, StatusStep
<1>3. TypeOK /\ StatusInv /\ [Next]_vars => [KeepsStatus]_vars
  <2> SUFFICES ASSUME TypeOK, StatusInv, [Next]_vars, UpdateServed, Alone
               PROVE  \A j \in Job : rows'[j].status = rows[j].status
    BY DEF KeepsStatus, Alone
  <2>1. PICK s \in Busy : net[s].op = "update" /\ ~net[s].served /\ net'[s] # net[s]
    BY DEF UpdateServed
  <2>2. s \in Slot /\ Fits(net[s].form)
    BY <2>1 DEF StatusInv, Busy
  <2>3. Serve(s) \/ Fail(s)
    BY <2>1, <2>2, NetSteps DEF Asks, Receive
  <2>4. CASE Serve(s)
    <3>1. updateById(s)
      BY <2>1, <2>4 DEF Serve, ServeList, info, save, ServeOperation, Operations
    <3> QED
      BY <2>1, <2>2, <3>1, UpdateServedKeeps
  <2>5. CASE Fail(s)
    BY <2>5 DEF Fail
  <2> QED
    BY <2>3, <2>4, <2>5
<1> QED
  BY <1>1, <1>2, <1>3, Typing, PTL DEF Spec, StatusKept
-----------------------------------------------------------------------------
(* The list shows the table.                                               *)

\* A list on its way is true, and so is the one that is shown, unless it is about
\* to be loaded again.
GridInv ==
    trouble = {} =>
        /\ \A s \in Busy : net[s].op = "list" /\ net[s].served => net[s].rows = Shown(net[s].page)
        /\ Busy = {} /\ showList /\ dialog # Alert(TRUE) => grid = Shown(current)

\* What is shown depends on the table only.
LEMMA ShownKept ==
    ASSUME rows' = rows, current' = current PROVE Shown(current)' = Shown(current)
  BY DEF Shown, PageOf, Place, Present

\* A step that leaves the table, the list and the requests as they are.
LEMMA GridKept ==
    ASSUME GridInv, trouble = {},
           UNCHANGED <<rows, grid, current, net>>,
           Busy = {} /\ showList' /\ dialog' # Alert(TRUE) => showList /\ dialog # Alert(TRUE)
    PROVE  GridInv'
<1>1. Busy' = Busy /\ Shown(current)' = Shown(current)
  BY ShownKept DEF Busy
<1>2. \A p : Shown(p)' = Shown(p)
  BY DEF Shown, PageOf, Place, Present
<1>3. ASSUME NEW s \in Busy', net'[s].op = "list", net'[s].served
      PROVE  net'[s].rows = Shown(net[s].page)'
  <2>1. net'[s] = net[s] /\ net[s].rows = Shown(net[s].page)
    BY <1>1, <1>3 DEF GridInv
  <2>2. PICK p : p = net[s].page
    OBVIOUS
  <2> QED
    BY <2>1, <2>2, <1>2
<1> QED
  BY <1>1, <1>3 DEF GridInv

\* A step after which a request is under way that is not an answer with a list.
LEMMA GridAsked ==
    ASSUME Busy' # {}, \A s \in Busy' : net'[s].op = "list" => ~net'[s].served
    PROVE  GridInv'
  BY DEF GridInv

LEMMA GridLoading ==
    ASSUME TypeOK, Busy = {}, NEW p \in Nat, Populate(p) PROVE GridInv'
<1>1. PICK s \in Slot : Busy' = {s} /\ net'[s] = [op |-> "list", page |-> p, served |-> FALSE]
  BY Populated
<1>2. ~net'[s].served
  BY <1>1
<1> QED
  BY <1>1, <1>2, GridAsked

LEMMA GridSending ==
    ASSUME TypeOK, Busy = {}, NEW r, r # Idle, ~r.served, Send(r) PROVE GridInv'
<1>1. PICK s \in Slot : Busy' = {s} /\ net'[s] = r
  BY Sent
<1> QED
  BY <1>1, GridAsked

LEMMA GridStep ==
    ASSUME TypeOK, Orderly, GridInv, [Next]_vars PROVE GridInv'
<1> SUFFICES ASSUME trouble' = {} PROVE GridInv'
  BY DEF GridInv
<1>0. trouble = {} /\ InTurn /\ "hasty" \notin trouble' /\ current \in Nat
  BY TroubleGrows DEF Orderly, TypeOK
<1>1. CASE Query
  <2>1. Busy = {} /\ Populate(current)
    BY <1>0, <1>1, Unhurried DEF Query, Acts, Reload
  <2> QED
    BY <1>0, <2>1, GridLoading
<1>2. ASSUME NEW p \in 1..last, Turn(p) PROVE GridInv'
  <2>1. p \in Nat
    <3>1. last \in Nat
      BY DEF TypeOK
    <3> QED
      BY <3>1
  <2>2. Busy = {} /\ Populate(p)
    BY <1>0, <1>2, Unhurried DEF Turn, Acts
  <2> QED
    BY <2>1, <2>2, GridLoading
<1>3. CASE update
  <2>1. Busy = {}
    BY <1>0, <1>3, Unhurried DEF update, Acts
  <2>2. PICK j \in selected : Send([op |-> "info", job |-> j, served |-> FALSE])
    BY <1>3 DEF update
  <2>3. [op |-> "info", job |-> j, served |-> FALSE] # Idle
    BY DEF Idle
  <2> QED
    BY <2>1, <2>2, <2>3, GridSending
<1>4. CASE saveOrUpdate
  <2>1. Busy = {} /\ ~showList /\ showList' = showList
    BY <1>0, <1>4, Unhurried DEF saveOrUpdate, Acts, view
  <2>2. CASE UNCHANGED net
    BY <1>0, <1>4, <2>1, <2>2, GridKept DEF saveOrUpdate, list
  <2> DEFINE r == [op |-> IF schedule.job = New THEN "save" ELSE "update",
                   form |-> schedule, served |-> FALSE]
  <2>3. CASE Send(r)
    <3>1. r # Idle /\ ~r.served
      BY DEF Idle
    <3> HIDE DEF r
    <3> QED
      BY <2>1, <2>3, <3>1, GridSending
  <2> QED
    BY <1>4, <2>2, <2>3 DEF saveOrUpdate
<1>5. CASE Confirm
  <2>1. Busy = {}
    BY <1>0, <1>5, Unhurried DEF Confirm
  <2> DEFINE r == [op |-> dialog.op, job |-> dialog.job, served |-> FALSE]
  <2>2. Send(r) /\ r # Idle /\ ~r.served
    BY <1>5 DEF Confirm, Idle
  <2> HIDE DEF r
  <2> QED
    BY <2>1, <2>2, GridSending
<1>6. CASE CloseAlert
  <2>1. Busy = {} /\ dialog.kind = "alert"
    BY <1>0, <1>6 DEF CloseAlert, InTurn
  <2>2. CASE dialog.reload
    BY <1>0, <1>6, <2>1, <2>2, GridLoading DEF CloseAlert, Reload
  <2>3. CASE ~dialog.reload
    <3>1. UNCHANGED <<list, view, net, rows>> /\ dialog # Alert(TRUE)
      BY <1>6, <2>3, Dialogs DEF CloseAlert
    <3> QED
      BY <1>0, <3>1, GridKept DEF list, view
  <2> QED
    BY <2>2, <2>3
<1>7. CASE DismissAlert
  <2>1. ~dialog.reload
    BY <1>7 DEF DismissAlert, Trouble
  <2>2. UNCHANGED <<list, view, net, rows>> /\ dialog # Alert(TRUE)
    BY <1>7, <2>1, Dialogs DEF DismissAlert
  <2> QED
    BY <1>0, <2>2, GridKept DEF list, view
<1>8. CASE Refuse \/ Cancel \/ (\E j \in Job : Select(j)) \/ (\E op \in Operations : Operate(op))
  <2>1. /\ UNCHANGED <<rows, grid, current, net, view>>
        /\ dialog = NoDialog \/ dialog.kind = "confirm"
    BY <1>8 DEF Refuse, Cancel, Select, Operate, Acts, list
  <2>2. dialog # Alert(TRUE)
    BY <2>1, Dialogs
  <2> QED
    BY <1>0, <2>1, <2>2, GridKept DEF view
<1>9. CASE add \/ \E b \in Bean \cup {""} : TypeBean(b)
  <2>1. UNCHANGED <<rows, grid, current>> /\ net' = net /\ ~showList'
    <3>1. CASE add
      BY <3>1 DEF add, list
    <3>2. ASSUME NEW b \in Bean \cup {""}, TypeBean(b)
          PROVE  UNCHANGED <<rows, grid, current>> /\ net' = net /\ ~showList'
      BY <3>2 DEF TypeBean, list
    <3> QED
      BY <1>9, <3>1, <3>2
  <2> QED
    BY <1>0, <2>1, GridKept
<1>10. CASE UNCHANGED vars
  BY <1>0, <1>10, GridKept DEF vars, list, view
<1>11. ASSUME NEW s \in Slot, Serve(s) PROVE GridInv'
  <2>1. s \in Busy /\ Busy' = {s} /\ net'[s].op = net[s].op
    BY <1>0, <1>11, Handled DEF InTurn
  <2>2. CASE net[s].op = "list"
    <3>1. ServeList(s)
      BY <1>11, <2>2 DEF Serve, info, save, updateById, ServeOperation, Operations
    <3> DEFINE p == net[s].page
               m == [op |-> "list", served |-> TRUE, page |-> p, rows |-> Shown(p),
                     total |-> totalPage]
    <3>2. rows' = rows /\ net'[s] = m
      BY <3>1 DEF ServeList, Answered, TypeOK
    <3>3. net'[s].rows = Shown(p) /\ net'[s].page = p
      BY <3>2
    <3> HIDE DEF p
    <3>4. Shown(net[s].page)' = Shown(p)
      BY <3>2, <3>3 DEF Shown, PageOf, Place, Present
    <3> QED
      BY <2>1, <3>3, <3>4 DEF GridInv
  <2>3. CASE net[s].op # "list"
    BY <2>1, <2>3, GridAsked
  <2> QED
    BY <2>2, <2>3
<1>12. ASSUME NEW s \in Slot, Receive(s) PROVE GridInv'
  <2>1. s \in Busy /\ Busy' = {} /\ rows' = rows /\ net[s].served
    BY <1>0, <1>12, Over DEF InTurn, Receive
  <2>2. CASE Listed(s)
    <3>1. net[s].rows = Shown(net[s].page)
      BY <1>0, <2>1, <2>2 DEF Listed, GridInv
    <3>2. grid' = Shown(net[s].page) /\ current' = net[s].page
      BY <2>2, <3>1 DEF Listed
    <3>3. Shown(current)' = Shown(net[s].page)
      BY <2>1, <3>2 DEF Shown, PageOf, Place, Present
    <3> QED
      BY <2>1, <3>2, <3>3 DEF GridInv
  <2>3. CASE InfoArrives(s)
    BY <2>1, <2>3 DEF GridInv, InfoArrives
  <2>4. CASE Success(s)
    BY <2>1, <2>4 DEF GridInv, Success, Alert
  <2> QED
    BY <1>12, <2>2, <2>3, <2>4 DEF Receive
<1>13. ASSUME (\E s \in Slot : Fail(s)) \/ Others PROVE FALSE
  BY <1>13 DEF Fail, Others, Trouble
<1> QED
  BY <1>1, <1>2, <1>3, <1>4, <1>5, <1>6, <1>7, <1>8, <1>9, <1>10, <1>11, <1>12, <1>13 DEF Next

\* When all is answered and closed the list shows the table: for every number of
\* jobs and rows of a page.
THEOREM GridIsTrueHolds == Spec => []GridIsTrue
<1>1. Init => Orderly /\ GridInv
  <2> SUFFICES ASSUME Init PROVE Orderly /\ GridInv
    OBVIOUS
  <2>1. PICK s \in Slot : Busy = {s} /\ net[s].op = "list" /\ ~net[s].served
    BY Beginning
  <2>2. dialog = NoDialog /\ showList
    BY DEF Init
  <2> QED
    BY <2>1, <2>2 DEF Orderly, InTurn, NoDialog, Operations, GridInv
<1>2. TypeOK /\ Orderly /\ GridInv /\ [Next]_vars => (Orderly /\ GridInv)'
  BY OrderlyStep, GridStep
<1>3. GridInv => GridIsTrue
  BY Dialogs DEF GridInv, GridIsTrue
<1> QED
  BY <1>1, <1>2, <1>3, Typing, PTL DEF Spec
=============================================================================
