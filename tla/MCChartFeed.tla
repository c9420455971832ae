----------------------------- MODULE MCChartFeed ------------------------------
(* TLC instances of ChartFeed.                                              *)
EXTENDS ChartFeed, TLC

\* Threads are interchangeable, and so are pages and applications.
Symmetry == Permutations(Handler) \cup Permutations(Page) \cup Permutations(App)
=============================================================================
