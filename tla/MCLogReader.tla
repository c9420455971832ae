----------------------------- MODULE MCLogReader -----------------------------
(* TLC instances of LogReader.                                              *)
EXTENDS LogReader, TLC

\* Request threads are interchangeable.
Symmetry == Permutations(Poller)
=============================================================================
