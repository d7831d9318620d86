------------------------------ MODULE WorkerLoop ------------------------------
(***************************************************************************)
(* DatabaseWorker.runLoop (src/internal/adapter/queue/database.go): the    *)
(* goroutines of one worker process walk the weighted sequence of queues,  *)
(* each from its own offset, and sleep for the poll interval after an      *)
(* error or after a whole round of empty queues.  The settings they work   *)
(* with are those that config.Load lets through (src/internal/config).     *)
(* The reservation and the handling of a job are single steps here; module *)
(* JobQueue has them in detail and lets a worker try any queue next.       *)
(***************************************************************************)
EXTENDS Integers, Sequences, Functions

CONSTANTS
  Names,          \* names a queue can have, sorted, each once
  Weights,        \* weights a configuration can give, also unfit ones
  Numbers,        \* other numbers it can give
  MaxConcurrency, \* bound on the goroutines
  MaxErrors       \* bound on the number of failed reservations

ASSUME NamesAssumption == Names \in Seq(Range(Names)) /\ Names # <<>> /\ IsInjective(Names)
ASSUME SettingsAssumption ==
  Weights \subseteq Int /\ Numbers \subseteq {n \in Int : n <= MaxConcurrency}
ASSUME BoundAssumption == MaxConcurrency \in Nat \ {0} /\ MaxErrors \in Nat

VARIABLES
  cfg,     \* the worker's cfg
  ready,   \* the queues with a job that can be reserved now
  place,   \* where each goroutine is
  index,   \* its position in the weighted sequence, from 0 as in the code
  empty,   \* its emptyReserves
  found,   \* history: queues it found empty since its last job or sleep
  idle,    \* history: its attempts without a job since then
  stopped, \* has the context been cancelled?
  errors   \* failed reservations so far

local == <<index, empty, found, idle>>
vars == <<cfg, ready, place, local, stopped, errors>>

-----------------------------------------------------------------------------
(* The queue section of the configuration.                                 *)

\* What a file or the environment may hold: any queues, any numbers.
Given ==
  [queues : UNION {[names -> Weights] : names \in SUBSET Range(Names)},
   concurrency : Numbers, poll : Numbers]

\* Faulty: nothing replaces a number of goroutines that is not set.
AsGiven(queue) == [queue EXCEPT !.poll = IF @ <= 0 THEN 500 ELSE @]

normalizeQueueConfig(queue) ==
  [queue EXCEPT !.concurrency = IF @ <= 0 THEN 1 ELSE @, !.poll = IF @ <= 0 THEN 500 ELSE @]

\* Faulty: only negative weights are rejected.
NotNegative(queue) ==
  DOMAIN queue.queues # {} /\ \A name \in DOMAIN queue.queues : queue.queues[name] >= 0

validateConfig(queue) ==
  DOMAIN queue.queues # {} /\ \A name \in DOMAIN queue.queues : queue.queues[name] > 0

Loaded == {queue \in {normalizeQueueConfig(given) : given \in Given} : validateConfig(queue)}

-----------------------------------------------------------------------------
Queues == Range(Names)
Goroutines == 0..(cfg.concurrency - 1)

\* Every name as often as its weight, the names in order; weighted[n] are the
\* slots of the first n.
weightedQueueNames(queues) ==
  LET Weight(name) == IF name \in DOMAIN queues THEN queues[name] ELSE 0
      weighted[n \in 0..Len(Names)] ==
        IF n = 0 THEN <<>>
        ELSE weighted[n - 1] \o [k \in 1..Weight(Names[n]) |-> Names[n]]
  IN weighted[Len(Names)]

weightedQueues == weightedQueueNames(cfg.queues)
Slots == Len(weightedQueues)
Served == Range(weightedQueues)
QueueAt(g) == weightedQueues[index[g] + 1]

\* Faulty: the index does not wrap around.
NoWrap(i) == i + 1

Next1(i) == (i + 1) % Slots

\* Faulty: only a slot that was empty is left.
StayOnJob(i, hit) == IF hit THEN i ELSE Next1(i)
\* index = (index + 1) % len(w.weightedQueues), whatever reserve returned.
Advance(i, hit) == Next1(i)

\* Faulty: the count of empty slots survives a job.
KeepCount(n) == n
AfterJob(n) == 0

\* Faulty: an error is retried at once, like an empty slot in mid-round.
RoundOnly(failed, n) == n >= Slots
\* Sleep unless err == nil && emptyReserves < len(w.weightedQueues).
Sleeps(failed, n) == failed \/ n >= Slots

-----------------------------------------------------------------------------
\* Run refuses to start without a slot.
Init ==
  /\ cfg \in Loaded
  /\ ready = {}
  /\ place = [g \in Goroutines |-> IF Slots = 0 THEN "returned" ELSE "loop"]
  /\ index = [g \in Goroutines |-> IF Slots = 0 THEN 0 ELSE g % Slots]
  /\ empty = [g \in Goroutines |-> 0]
  /\ found = [g \in Goroutines |-> {}]
  /\ idle = [g \in Goroutines |-> 0]
  /\ stopped = FALSE
  /\ errors = 0

(* A job becomes due, by dispatch or by time, or another process takes it. *)
Arrive(q) ==
  /\ q \notin ready
  /\ ready' = ready \cup {q}
  /\ UNCHANGED <<cfg, place, local, stopped, errors>>

Depart(q) ==
  /\ q \in ready
  /\ ready' = ready \ {q}
  /\ UNCHANGED <<cfg, place, local, stopped, errors>>

Cancel ==
  /\ ~stopped
  /\ stopped' = TRUE
  /\ UNCHANGED <<cfg, ready, place, local, errors>>

(* reserve finds a job: process it, and go on with the next slot.          *)
Take(g) ==
  /\ place[g] = "loop" /\ ~stopped
  /\ QueueAt(g) \in ready
  /\ ready' = ready \ {QueueAt(g)}
  /\ index' = [index EXCEPT ![g] = Advance(@, TRUE)]
  /\ empty' = [empty EXCEPT ![g] = AfterJob(@)]
  /\ place' = [place EXCEPT ![g] = "process"]
  /\ found' = [found EXCEPT ![g] = {}]
  /\ idle' = [idle EXCEPT ![g] = 0]
  /\ UNCHANGED <<cfg, stopped, errors>>

(* reserve returns no job, or (failed) an error.                           *)
Miss(g, failed) ==
  /\ place[g] = "loop" /\ ~stopped
  /\ IF failed THEN errors < MaxErrors /\ errors' = errors + 1
     ELSE QueueAt(g) \notin ready /\ UNCHANGED errors
  /\ index' = [index EXCEPT ![g] = Advance(@, FALSE)]
  /\ found' = [found EXCEPT ![g] = IF failed THEN @ ELSE @ \cup {QueueAt(g)}]
  /\ idle' = [idle EXCEPT ![g] = @ + 1]
  /\ IF Sleeps(failed, empty[g] + 1)
       THEN /\ empty' = [empty EXCEPT ![g] = 0]
            /\ place' = [place EXCEPT ![g] = IF failed THEN "backoff" ELSE "poll"]
       ELSE /\ empty' = [empty EXCEPT ![g] = @ + 1]
            /\ UNCHANGED place
  /\ UNCHANGED <<cfg, ready, stopped>>

Processed(g) ==
  /\ place[g] = "process"
  /\ place' = [place EXCEPT ![g] = "loop"]
  /\ UNCHANGED <<cfg, ready, local, stopped, errors>>

(* The timer of the poll interval fires.                                   *)
Wake(g) ==
  /\ place[g] \in {"backoff", "poll"}
  /\ place' = [place EXCEPT ![g] = "loop"]
  /\ found' = [found EXCEPT ![g] = {}]
  /\ idle' = [idle EXCEPT ![g] = 0]
  /\ UNCHANGED <<cfg, ready, index, empty, stopped, errors>>

Return(g) ==
  /\ stopped /\ place[g] \in {"loop", "backoff", "poll"}
  /\ place' = [place EXCEPT ![g] = "returned"]
  /\ UNCHANGED <<cfg, ready, local, stopped, errors>>

Step(g) ==
  \/ Take(g) \/ Miss(g, FALSE) \/ Processed(g) \/ Wake(g) \/ Return(g)
Runs(g) == g \in Goroutines /\ Step(g)

Next ==
  \/ \E q \in Queues : Arrive(q) \/ Depart(q)
  \/ Cancel
  \/ \E g \in Goroutines : Step(g) \/ Miss(g, TRUE)

Spec == Init /\ [][Next]_vars

(* Goroutines are scheduled, handlers return and timers fire.              *)
FairSpec == Spec /\ \A g \in 0..(MaxConcurrency - 1) : WF_vars(Runs(g))

-----------------------------------------------------------------------------
(* Properties.                                                             *)

\* Types, and: index is in the sequence and a round is never counted beyond
\* its end.
TypeOK ==
  /\ cfg \in Loaded
  /\ ready \subseteq Queues
  /\ place \in [Goroutines -> {"loop", "process", "backoff", "poll", "returned"}]
  /\ index \in [Goroutines -> 0..(Slots - 1)]
  /\ empty \in [Goroutines -> 0..(Slots - 1)]
  /\ found \in [Goroutines -> SUBSET Served]
  /\ idle \in [Goroutines -> Nat]
  /\ stopped \in BOOLEAN
  /\ errors \in 0..MaxErrors

\* A goroutine sleeps for a poll interval only when it has found every served
\* queue empty since its last job, from wherever in the sequence it started: an
\* empty queue does not delay ready work in another.
PollsWhenAllEmpty ==
  \A g \in Goroutines : place[g] = "poll" => found[g] = Served

\* No hot loop: without a job a goroutine makes at most one round of attempts
\* before it sleeps, and none after an error; and its sleep is one.
BoundedIdling ==
  [][\A g \in Goroutines : idle'[g] > idle[g] =>
       /\ idle'[g] <= Slots
       /\ idle'[g] = Slots \/ errors' # errors => place'[g] \in {"backoff", "poll"} /\ cfg.poll > 0]_vars

\* With every configuration that loads, work in any configured queue is reserved
\* sooner or later, even if all the other queues always have work.
NoStarvation ==
  \A q \in Queues : q \in DOMAIN cfg.queues /\ q \in ready ~> q \notin ready \/ stopped

===============================================================================
