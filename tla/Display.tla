-------------------------------- MODULE Display --------------------------------
(***************************************************************************)
(* What the page monitor.html promises to one who looks at it: each topic  *)
(* is refreshed as if one thread read the rows of the page's application,  *)
(* drew all charts of the topic from what it has read, and only then read  *)
(* again.  It does not promise that it goes on, and nothing once the page  *)
(* is disturbed.                                                           *)
(***************************************************************************)
EXTENDS Naturals

CONSTANTS
    Page, App, Topic,
    Diagram,
    DiagramsOf,       \* the charts of each topic
    None            \* nothing is read, or shown

VARIABLES
    table,          \* for each topic and application, the rows old+1 .. new
    pid,            \* the application of each page
    read,           \* what each topic of each page has read and not drawn yet
    shown,          \* what each chart of each page shows
    undisturbed

vars == <<table, pid, read, shown, undisturbed>>
Wire == Page \X Topic

Rows(f) ==
    LET a == pid[f[1]]
    IN  [app |-> a, old |-> table[f[2]][a].old, new |-> table[f[2]][a].new]

Init ==
    /\ table = [t \in Topic |-> [a \in App |-> [old |-> 0, new |-> 0]]]
    /\ pid \in [Page -> App]
    /\ read = [f \in Wire |-> None]
    /\ shown = [v \in Page |-> [c \in Diagram |-> None]]
    /\ undisturbed = TRUE

Collect(t, a) ==
    /\ table' = [table EXCEPT ![t][a].new = @ + 1]
    /\ UNCHANGED <<pid, read, shown>>

Clear(t) ==
    /\ table' = [table EXCEPT ![t] = [a \in App |-> [old |-> @[a].new, new |-> @[a].new]]]
    /\ UNCHANGED <<pid, read, shown>>

Read(f) ==
    /\ read[f] = None
    /\ read' = [read EXCEPT ![f] = Rows(f)]
    /\ UNCHANGED <<table, pid, shown>>

Draw(f) ==
    /\ read[f] # None /\ read[f].old # read[f].new
    /\ shown' = [shown EXCEPT ![f[1]] =
                   [c \in Diagram |-> IF c \in DiagramsOf[f[2]] THEN read[f] ELSE @[c]]]
    /\ read' = [read EXCEPT ![f] = None]
    /\ UNCHANGED <<table, pid>>

\* What was read is not drawn: it is empty, or lost on its way.
Drop(f) ==
    /\ read[f] # None
    /\ read' = [read EXCEPT ![f] = None]
    /\ UNCHANGED <<table, pid, shown>>

Refresh ==
    \/ \E t \in Topic : Clear(t) \/ \E a \in App : Collect(t, a)
    \/ \E f \in Wire : Read(f) \/ Draw(f) \/ Drop(f)

\* From then on anything may happen.
Disturb == undisturbed' = FALSE

Next == (undisturbed /\ undisturbed' /\ Refresh) \/ Disturb

Spec == Init /\ [][Next]_vars
=============================================================================
