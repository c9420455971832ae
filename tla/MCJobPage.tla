------------------------------- MODULE MCJobPage -------------------------------
(* TLC instances of JobPage.                                                *)
EXTENDS JobPage, TLC

\* Requests are interchangeable.
Symmetry == Permutations(Slot)
=============================================================================
