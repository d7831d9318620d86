----------------------------- MODULE JobLifecycle -----------------------------
(***************************************************************************)
(* What the job queue promises about each accepted job, without tables,    *)
(* clocks, tokens or processes: a job waits until a worker takes it; only  *)
(* the worker that owns it now settles it; done and dropped are final; an  *)
(* operator decides about failed jobs only.                                *)
(***************************************************************************)
EXTENDS Integers

CONSTANTS Workers, Nobody, MaxJobs

VARIABLES
  state, \* of each job, by order of acceptance
  owner  \* the worker whose result for the job counts

lifecycleVars == <<state, owner>>

Jobs == 1..MaxJobs
States == {"none", "waiting", "active", "failed", "done", "dropped"}

LifecycleTypeOK ==
  state \in [Jobs -> States] /\ owner \in [Jobs -> Workers \cup {Nobody}]

LifecycleInit ==
  /\ state = [j \in Jobs |-> "none"]
  /\ owner = [j \in Jobs |-> Nobody]

Accept(j) ==
  /\ state[j] = "none"
  /\ \A i \in 1..(j - 1) : state[i] # "none"
  /\ state' = [state EXCEPT ![j] = "waiting"]
  /\ UNCHANGED owner

\* A job is taken by a worker, or over from one that let its lease run out.
\* The taker may be gone before it learns that it owns the job.
Take(j, w) ==
  /\ state[j] \in {"waiting", "active"}
  /\ state' = [state EXCEPT ![j] = "active"]
  /\ owner' = [owner EXCEPT ![j] = w]

\* Workers that crash or give up leave their jobs active without an owner.
Abandon(lost) ==
  /\ \A j \in lost : state[j] = "active"
  /\ owner' = [j \in Jobs |-> IF j \in lost THEN Nobody ELSE owner[j]]
  /\ UNCHANGED state

Settle(j, w, result) ==
  /\ state[j] = "active" /\ owner[j] = w
  /\ state' = [state EXCEPT ![j] = result]
  /\ owner' = [owner EXCEPT ![j] = Nobody]

Decide(chosen, result) ==
  /\ \A j \in chosen : state[j] = "failed"
  /\ state' = [j \in Jobs |-> IF j \in chosen THEN result ELSE state[j]]
  /\ UNCHANGED owner

LifecycleNext ==
  \/ \E j \in Jobs :
       \/ Accept(j)
       \/ \E w \in Workers \cup {Nobody} : Take(j, w)
       \/ \E w \in Workers, result \in {"done", "waiting", "failed"} : Settle(j, w, result)
  \/ \E chosen \in SUBSET Jobs :
       Abandon(chosen) \/ Decide(chosen, "waiting") \/ Decide(chosen, "dropped")

LifecycleSpec == LifecycleInit /\ [][LifecycleNext]_lifecycleVars
===============================================================================
