--------------------------- MODULE JobQueueLifecycle ---------------------------
(* JobQueue implements JobLifecycle: the refinement mapping. *)
EXTENDS JobQueue

CONSTANT Nobody

Jobs == 1..MaxDispatch

stateOf(j) ==
  CASE j >= nextSeq -> "none"
    [] j \in Completed -> "done"
    [] j \in dropped -> "dropped"
    [] \E r \in jobs : r.seq = j /\ r.status \in Waiting -> "waiting"
    [] \E r \in jobs : r.seq = j /\ r.status = "active" -> "active"
    [] \E r \in jobs : r.seq = j /\ r.status = "failed" -> "failed"
    [] OTHER -> "lost"

Owners(j) ==
  {w \in Workers : /\ worker[w].pc \in Holding
                   /\ \E r \in Leased(worker[w].job) : r.seq = j}

ownerOf(j) ==
  IF Owners(j) = {} THEN Nobody ELSE CHOOSE w \in Workers : w \in Owners(j)

Lifecycle == INSTANCE JobLifecycle WITH
  MaxJobs <- MaxDispatch,
  state <- [j \in Jobs |-> stateOf(j)],
  owner <- [j \in Jobs |-> ownerOf(j)]

\* Every behaviour of the queue is one that JobLifecycle allows.
ImplementsLifecycle == Lifecycle!LifecycleSpec
===============================================================================
