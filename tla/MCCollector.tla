---------------------------- MODULE MCCollector ----------------------------
(* TLC instances of Collector.                                              *)
EXTENDS Collector

\* Two applications.
First == [name |-> "web1", url |-> "http://web1"]
Second == [name |-> "web2", url |-> "http://web2"]
Both == {First, Second}
BothInOrder == <<First, Second>>

\* The tool monitors several web applications at the same time (README.md line
\* 9): one that is up and registered is sampled again and again, when all of
\* them stay as they are.
UpIsSampled ==
    \A u \in Url :
        (<>[](up /\ state[u] = "up" /\ Listed(u)) /\ <>[][UNCHANGED state]_state)
            => []<><<\E t \in Thread : Samples(t, u)>>_vars

\* Operators who load the page again and again and delete what is down
\* whenever the page lets them.
DeleteDown(o) ==
    \E a \in App : state[a.url] = "down" /\ Listed(a.url) /\ Delete(o, a.name)
DiligentSpec ==
    /\ FairSpec
    /\ \A o \in Operator :
          /\ WF_vars(Open(o)) /\ SF_vars(DeleteDown(o))
=============================================================================
