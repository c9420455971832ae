------------------------------ MODULE MCCommands -------------------------------
(* TLC instances of Commands.                                               *)
EXTENDS Commands

\* Threads are interchangeable: the first request is that of one of them.
First == CHOOSE p \in Requester : TRUE
FirstComesFirst == \A p \in Requester : run[p] = 1 => p = First
=============================================================================
