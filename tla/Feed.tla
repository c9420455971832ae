--------------------------------- MODULE Feed ---------------------------------
(***************************************************************************)
(* What the log page of the monitor promises to one who watches it: the    *)
(* lines the application writes appear in their order, each at most once   *)
(* and never before it is written.  It does not promise every line, and    *)
(* nothing once the reading of the log is disturbed.                       *)
(***************************************************************************)
EXTENDS Naturals, Sequences

CONSTANT MaxLines   \* bound: lines the application writes

VARIABLES
    written,        \* number of lines written
    shown,          \* the lines on the page, in the order in which they appeared
    undisturbed

vars == <<written, shown, undisturbed>>

Init == written \in 0..MaxLines /\ shown = << >> /\ undisturbed = TRUE

Write == written' = written + 1 /\ UNCHANGED shown

Show(i) ==
    /\ i <= written /\ \A k \in 1..Len(shown) : shown[k] < i
    /\ shown' = Append(shown, i)
    /\ UNCHANGED written

\* From then on anything may happen.
Disturb == undisturbed' = FALSE

Next ==
    \/ undisturbed /\ undisturbed' /\ (Write \/ \E i \in 1..MaxLines : Show(i))
    \/ Disturb

Spec == Init /\ [][Next]_vars
=============================================================================
