------------------------------ MODULE Scheduler ------------------------------
(***************************************************************************)
(* The schedule ticker (internal/scheduler, cmd/app/scheduler.go and       *)
(* cmd/app/schedule.go) over the database queue: several scheduler         *)
(* processes, and operators running `schedule run`, dispatch the jobs due  *)
(* in each minute into the queue JobQueue models.                          *)
(***************************************************************************)
EXTENDS Integers, FiniteSets, Sequences

CONSTANTS
  Schedulers, \* scheduler processes, and operators running `schedule run`
  Names,      \* the registered schedules, in the order of Registry.definitions
  Due,        \* the pairs (name, minute) at which the cron expression is due
  Minute,     \* seconds of a minute
  MaxMinute,  \* bound on minutes
  TaskIDFor,  \* [Names x minutes -> TaskIDs], one task ID for each pair
  JobOptions, \* Definition.DispatchOptions of each schedule
  MaxErrors   \* bound on dispatch errors and scheduler crashes

CONSTANTS
  TaskIDs, NoTask, Keys, Queues, Workers, Procs, ProcOf, Reservation,
  CleanupInterval, CleanupLimit, ClockLag, MaxTime, MaxDispatch, MaxFaults

Minutes == 0..MaxMinute
NameSet == {Names[i] : i \in 1..Len(Names)}
Pairs == NameSet \X Minutes

ASSUME MinuteAssumption ==
  Minute \in Nat \ {0} /\ MaxMinute \in Nat /\ MaxTime < (MaxMinute + 1) * Minute
\* Register refuses a name it has.
ASSUME NamesAssumption ==
  Len(Names) \in Nat /\ \A i, j \in 1..Len(Names) : Names[i] = Names[j] => i = j
ASSUME TaskIDAssumption ==
  /\ TaskIDFor \in [Pairs -> TaskIDs]
  /\ \A a, b \in Pairs : TaskIDFor[a] = TaskIDFor[b] => a = b
ASSUME DueAssumption == Due \subseteq Pairs
ASSUME ErrorsAssumption == MaxErrors \in Nat

VARIABLES
  now, jobs, taskLocks, uniqueLocks, processed, worker, nextCleanup, stopping,
  nextSeq, nextToken, done, dropped, window, faults, \* as in JobQueue
  ticker,   \* the local state of each scheduler
  accepted, \* history: creation numbers of the jobs accepted for each pair
  errors    \* errors so far

queueVars == <<now, jobs, taskLocks, uniqueLocks, processed, worker, nextCleanup,
               stopping, nextSeq, nextToken, done, dropped, window, faults>>
schedulerVars == <<ticker, accepted, errors>>
vars == <<queueVars, schedulerVars>>

\* Faulty: all minutes of a schedule share a task ID.
taskIDOfName(pair) == TaskIDFor[<<pair[1], 0>>]

TaskID(pair) == TaskIDFor[pair]

\* Faulty: the definition's retention as it is.
retentionAsGiven(name) == JobOptions[name].retention

\* At least two minutes.
retention(name) ==
  IF JobOptions[name].retention < 2 * Minute THEN 2 * Minute ELSE JobOptions[name].retention

\* The options Runner.Run dispatches with.
RunOptions ==
  [pair \in Pairs |->
     [JobOptions[pair[1]] EXCEPT !.task = TaskID(pair), !.retention = retention(pair[1])]]

Queue == INSTANCE JobQueue WITH Requests <- Pairs, Opt <- RunOptions

\* What JobQueue assumes of its constants, for the options as they are registered.
ASSUME QueueAssumption ==
  /\ JobOptions \in [NameSet -> Queue!Options]
  /\ NoTask \notin TaskIDs /\ TaskIDs \cap Nat = {}
  /\ ProcOf \in [Workers -> Procs]
  /\ Reservation \in Nat \ {0}
  /\ CleanupInterval \in Nat /\ CleanupLimit \in Nat /\ ClockLag \in Nat
  /\ MaxTime \in Nat /\ MaxDispatch \in Nat /\ MaxFaults \in Nat

\* Where a scheduler stands: not running, waiting for `wake`, or in Runner.Run
\* for `minute` with the definitions from `next` on still to look at.
Off == [pc |-> "off", wake |-> 0, minute |-> 0, next |-> 0, once |-> FALSE, failed |-> {}]
Ticker == [pc : {"off", "sleep", "run"}, wake : Nat, minute : Minutes,
           next : 0..(Len(Names) + 1), once : BOOLEAN, failed : SUBSET NameSet]

-----------------------------------------------------------------------------
Init ==
  /\ Queue!Init
  /\ ticker = [s \in Schedulers |-> Off]
  /\ accepted = [pair \in Pairs |-> {}] /\ errors = 0

Asleep == [Off EXCEPT !.pc = "sleep", !.wake = ((now \div Minute) + 1) * Minute]

\* Faulty: the tick is taken for the minute it ends.
RunningNext(once) ==
  [Off EXCEPT !.pc = "run", !.minute = (now \div Minute) + 1, !.next = 1, !.once = once]

Running(once) ==
  [Off EXCEPT !.pc = "run", !.minute = now \div Minute, !.next = 1, !.once = once]

Start(s) ==
  /\ ticker[s] = Off
  /\ ticker' = [ticker EXCEPT ![s] = Asleep]
  /\ UNCHANGED <<queueVars, accepted, errors>>

\* `schedule run`: one Run for the current minute.
RunOnce(s) ==
  /\ ticker[s] = Off
  /\ ticker' = [ticker EXCEPT ![s] = Running(TRUE)]
  /\ UNCHANGED <<queueVars, accepted, errors>>

\* The timer fires at the minute boundary, or late: the minute is the tick's.
Fire(s) ==
  /\ ticker[s].pc = "sleep" /\ now >= ticker[s].wake
  /\ ticker' = [ticker EXCEPT ![s] = Running(FALSE)]
  /\ UNCHANGED <<queueVars, accepted, errors>>

Stop(s) ==
  /\ ticker[s].pc = "sleep"
  /\ ticker' = [ticker EXCEPT ![s] = Off]
  /\ UNCHANGED <<queueVars, accepted, errors>>

AtDue(s) ==
  /\ ticker[s].pc = "run" /\ ticker[s].next <= Len(Names)
  /\ <<Names[ticker[s].next], ticker[s].minute>> \in Due
Pair(s) == <<Names[ticker[s].next], ticker[s].minute>>
Advance(s) == ticker' = [ticker EXCEPT ![s].next = @ + 1]

\* Not due: on to the next definition.
Skip(s) ==
  /\ ticker[s].pc = "run" /\ ticker[s].next <= Len(Names) /\ ~AtDue(s)
  /\ Advance(s) /\ UNCHANGED <<queueVars, accepted, errors>>

DispatchDue(s) ==
  /\ AtDue(s) /\ \E t \in Queue!ClockReadings : Queue!Dispatch(Pair(s), t)
  /\ Advance(s) /\ UNCHANGED errors
  /\ accepted' = [accepted EXCEPT ![Pair(s)] = @ \cup {nextSeq}]

\* ErrDuplicateJob is not an error, be it of the task ID or of the unique lock.
Duplicate(s) ==
  /\ AtDue(s) /\ Queue!DuplicateKey(Pair(s))
  /\ Advance(s) /\ UNCHANGED <<queueVars, accepted, errors>>

\* Any other error is collected; the remaining definitions still run.
DispatchError(s) ==
  /\ AtDue(s) /\ errors < MaxErrors
  /\ ticker' = [ticker EXCEPT ![s].next = @ + 1, ![s].failed = @ \cup {Pair(s)[1]}]
  /\ errors' = errors + 1 /\ UNCHANGED <<queueVars, accepted>>

\* Run returns: the ticker waits for the next boundary, however late it is.
RunReturns(s) ==
  /\ ticker[s].pc = "run" /\ ticker[s].next = Len(Names) + 1
  /\ ticker' = [ticker EXCEPT ![s] = IF @.once THEN Off ELSE Asleep]
  /\ UNCHANGED <<queueVars, accepted, errors>>

Crash(s) ==
  /\ ticker[s] # Off /\ errors < MaxErrors
  /\ ticker' = [ticker EXCEPT ![s] = Off]
  /\ errors' = errors + 1 /\ UNCHANGED <<queueVars, accepted>>

SchedulerStep(s) ==
  \/ Start(s) \/ RunOnce(s) \/ Fire(s) \/ Stop(s) \/ Skip(s) \/ DispatchDue(s)
  \/ Duplicate(s) \/ DispatchError(s) \/ RunReturns(s) \/ Crash(s)

Next ==
  \/ \E s \in Schedulers : SchedulerStep(s)
  \/ Queue!Serve /\ UNCHANGED schedulerVars

Spec == Init /\ [][Next]_vars

-----------------------------------------------------------------------------
(* Properties.                                                             *)

\* The schedulers' types; a Run serves a minute that has begun.
SchedulerTypeOK ==
  /\ ticker \in [Schedulers -> Ticker]
  /\ accepted \in [Pairs -> SUBSET Nat] /\ errors \in 0..MaxErrors
  /\ \A s \in Schedulers : ticker[s].pc = "run" => ticker[s].minute * Minute <= now

\* README.md, "Deterministic task IDs prevent duplicate dispatches for the same
\* schedule and minute": however many schedulers and operators dispatch it, a
\* schedule's job of a minute is accepted again only by a scheduler two minutes
\* late, or after an operator deleted every job accepted for it before.
DispatchedOncePerMinute ==
  [][\A pair \in Pairs : accepted'[pair] # accepted[pair] =>
       accepted[pair] \subseteq dropped \/ now >= (pair[2] + 2) * Minute]_vars

\* The Run of scheduler s goes on to the definition after one that is due.
Passes(s) ==
  AtDue(s) /\ ticker'[s].pc = "run" /\ ticker'[s].next = ticker[s].next + 1

\* A schedule with a unique window dispatches into one that is still open.
WindowOpen(options) == options.uniqueFor > 0 /\ window[options.key] > now

\* A Run that passes a due definition without an error leaves its job of that
\* minute accepted.  What it takes for a duplicate is that job, or, of a schedule
\* dispatched with a unique window, a job that opened a window not yet over:
\* never the job of another minute or schedule by its task ID, nor a lock left
\* behind.
RunServesDue ==
  [][\A s \in Schedulers : Passes(s) =>
       \/ Pair(s)[1] \in ticker'[s].failed
       \/ accepted'[Pair(s)] # {}
       \/ WindowOpen(JobOptions[Pair(s)[1]])]_vars
===============================================================================
