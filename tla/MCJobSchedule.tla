---------------------------- MODULE MCJobSchedule ----------------------------
(* TLC instances of JobSchedule, and what the comments of the code say of   *)
(* it where the code does something else.                                   *)
EXTENDS JobSchedule, TLC

\* Browser tabs, processes and worker threads are interchangeable.
Symmetry == Permutations(Client) \cup Permutations(Thread) \cup Permutations(Node)

\* init initialises the timers when the project starts
\* (ScheduleJobServiceImpl.java, comment of init).
StartupSucceeds == \A n \in Node : phase[n] # "failed"
=============================================================================
