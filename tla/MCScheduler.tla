------------------------------ MODULE MCScheduler ------------------------------
(* Small instances of Scheduler for TLC. *)
EXTENDS Scheduler, TLC

CONSTANTS s1, s2, w, T0, T1, T2, T3, U0, U1, U2, U3, K

TwoNames == <<"cleanup", "report">>
\* The report is not due in the first minute.
Staggered == {pair \in Pairs : pair[1] = "cleanup" \/ pair[2] # 0}

OneProcess == [x \in Workers |-> w]
options == [task |-> NoTask, queue |-> "maintenance", key |-> K, uniqueFor |-> 0,
            delay |-> 0, timeout |-> 0, retention |-> 0, maxRetry |-> 1, known |-> TRUE]

\* The report is unique for a minute.
Unique == [name \in NameSet |-> [options EXCEPT !.uniqueFor = IF name = "report" THEN 1 ELSE 0]]

TaskIDList == [cleanup |-> <<T0, T1, T2, T3>>, report |-> <<U0, U1, U2, U3>>]
Symmetric == Permutations(Schedulers)

TaskIDTable == [pair \in Pairs |-> TaskIDList[pair[1]][pair[2] + 1]]
===============================================================================
