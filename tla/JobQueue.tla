------------------------------- MODULE JobQueue -------------------------------
(***************************************************************************)
(* The database queue (src/internal/adapter/queue/database.go and          *)
(* database_reservation.go): dispatchers, worker goroutines of several     *)
(* processes and the operator's inspector sharing the tables queue_jobs,   *)
(* queue_locks and queue_stats.                                            *)
(*                                                                         *)
(* One action is one database transaction, or one local step between two   *)
(* of them.  A value the code captures and uses later (the `now` of        *)
(* reserve, the ids of a cleanup scan, the snapshot of a reserved job) is  *)
(* kept in the worker's record and used when the code uses it.             *)
(***************************************************************************)
EXTENDS Integers, FiniteSets

CONSTANTS
  Requests,        \* the calls of Dispatch a client may make
  Opt,             \* their DispatchOptions: Opt[q] for q \in Requests
  TaskIDs, NoTask, \* explicit task IDs, and the absent one
  Keys,            \* hashes of (queue, type, payload)
  Queues,          \* queue names
  Workers, Procs,  \* worker goroutines, and the processes they run in
  ProcOf,          \* [Workers -> Procs]
  Reservation,     \* DatabaseWorker.reservation, in seconds
  CleanupInterval, \* cleanupInterval, in seconds
  CleanupLimit,    \* LIMIT of the completed-job scan
  ClockLag,        \* bound: age of a clock reading when Dispatch commits
  MaxTime,         \* bound on the clock
  MaxDispatch,     \* bound on the number of accepted dispatches
  MaxFaults        \* bound on crashes, shutdowns and database errors

DefaultMaxRetry == 25

Options ==
  [task : TaskIDs \cup {NoTask}, queue : Queues, key : Keys, uniqueFor : Nat,
   delay : Nat, timeout : Nat, retention : Nat, maxRetry : Nat, known : BOOLEAN]

ASSUME OptAssumption == Opt \in [Requests -> Options]
ASSUME IdAssumption == NoTask \notin TaskIDs /\ TaskIDs \cap Nat = {}
ASSUME ProcAssumption == ProcOf \in [Workers -> Procs]
ASSUME TimeAssumption ==
  /\ Reservation \in Nat \ {0}
  /\ CleanupInterval \in Nat /\ CleanupLimit \in Nat /\ ClockLag \in Nat
ASSUME BoundAssumption ==
  MaxTime \in Nat /\ MaxDispatch \in Nat /\ MaxFaults \in Nat

VARIABLES
  now,         \* the clock, in seconds
  jobs,        \* rows of queue_jobs
  taskLocks,   \* job IDs with a row of queue_locks without expiry
  uniqueLocks, \* rows of queue_locks with an expiry
  processed,   \* queue_stats.processed_total
  worker,      \* the local state of each worker goroutine
  nextCleanup, \* DatabaseWorker.nextCleanup of each process
  stopping,    \* has the context of the process been cancelled?
  nextSeq,     \* order of creation (created_at), source of fresh uuids
  nextToken,   \* source of fresh lease tokens
  done,        \* history: creation numbers of the jobs completed, by queue
  dropped,     \* history: creation numbers of those an operator deleted
  window,      \* history: end of the last unique window of each key
  faults       \* faults so far

tables == <<jobs, taskLocks, uniqueLocks, processed>>
history == <<done, dropped, window>>
vars == <<now, tables, worker, nextCleanup, stopping, nextSeq, nextToken,
          history, faults>>

Ids == TaskIDs \cup Nat
Waiting == {"pending", "retry"}
Status == Waiting \cup {"active", "completed", "failed"}

Row == [id : Ids, req : Requests, seq : Nat, status : Status, attempts : Nat,
        available : Nat, token : Nat, leased : Nat, expires : Nat]
NoRow == [status |-> "none"]

\* Where a goroutine of runLoop stands.  A worker in "locked" has an open
\* reservation transaction that holds the row lock of its job.
Places == {"loop", "locks", "scan", "delete", "reserve", "locked", "run", "settle"}
Holding == {"run", "settle"}

WorkerState ==
  [pc : Places, at : Nat, ids : SUBSET Ids, job : Row \cup {NoRow},
   deadline : Nat, beat : Nat, limit : Nat, ok : BOOLEAN]

Idle == [pc |-> "loop", at |-> 0, ids |-> {}, job |-> NoRow,
         deadline |-> 0, beat |-> 0, limit |-> 0, ok |-> FALSE]

-----------------------------------------------------------------------------
(* Pure parts of the code.                                                 *)

\* min(2^min(max(attempt - 1, 0), 12), 3600) seconds
retryDelay(attempt) ==
  LET steps == <<1, 2, 4, 8, 16, 32, 64, 128, 256, 512, 1024, 2048, 3600>>
  IN IF attempt <= 1 THEN 1 ELSE IF attempt >= 13 THEN 3600 ELSE steps[attempt]

maxRetry(q) == IF Opt[q].maxRetry <= 0 THEN DefaultMaxRetry ELSE Opt[q].maxRetry

heartbeatInterval ==
  IF Reservation \div 3 < 1 THEN 1 ELSE Reservation \div 3

chooseJobID(q) == IF Opt[q].task = NoTask THEN nextSeq ELSE Opt[q].task

\* Faulty: no lock for a task ID, or one for every job.
noTaskLock(q, id) == {}
alwaysTaskLock(q, id) == {id}

\* The part of dispatchLocks that has no expiry.
taskLock(q, id) == IF Opt[q].task = NoTask THEN {} ELSE {id}

\* Faulty: the last retry is not made.
exhaustedEarly(job) == job.attempts >= maxRetry(job.req)

exhausted(job) == job.attempts > maxRetry(job.req)

-----------------------------------------------------------------------------
(* What SQL statements match.                                              *)

RowsOf(id) == {r \in jobs : r.id = id}

RowFree(r) == \A v \in Workers : worker[v].pc = "locked" => worker[v].job # r

\* Faulty: any worker that ever had the job settles it.
LeasedByID(job) == {r \in jobs : r.id = job.id}

\* Faulty: any worker that ever had the job settles it while it is active.
LeasedToAny(job) == {r \in jobs : r.id = job.id /\ r.status = "active"}

\* WHERE id = ? AND status = 'active' AND lease_token = ?
Leased(job) ==
  {r \in jobs : r.id = job.id /\ r.status = "active" /\ r.token = job.token}

\* Faulty: active jobs are free for all, taken a second early, or never retaken.
EligibleActive(r, t) ==
  (r.status \in Waiting /\ r.available <= t) \/ r.status = "active"
EligibleEarly(r, t) ==
  (r.status \in Waiting /\ r.available <= t) \/ (r.status = "active" /\ r.leased <= t + 1)
EligibleWaiting(r, t) == r.status \in Waiting /\ r.available <= t

Eligible(r, t) ==
  \/ r.status \in Waiting /\ r.available <= t
  \/ r.status = "active" /\ r.leased <= t

\* Faulty: the lock is found expired a second early.
LocksExpiredEarly(t) == {l \in uniqueLocks : l.expires <= t + 1}

LocksExpired(t) == {l \in uniqueLocks : l.expires <= t}

\* Faulty: the scan ignores the status (expires is null, 0 here, but in completed
\* rows), or the retention.
AnyBefore(t) == {r \in jobs : r.expires <= t}
CompletedAnyTime(t) == {r \in jobs : r.status = "completed"}

CompletedBefore(t) == {r \in jobs : r.status = "completed" /\ r.expires <= t}

\* Faulty: a unique lock is found whether or not it has expired.
DuplicateEver(q) ==
  \/ RowsOf(chooseJobID(q)) # {} \/ taskLock(q, chooseJobID(q)) \cap taskLocks # {}
  \/ Opt[q].uniqueFor > 0 /\ \E l \in uniqueLocks : l.key = Opt[q].key

(* isDuplicateKey, of an insert of Dispatch: the ID has a row or a lock, or *)
(* the key has a unique lock that the transaction did not find expired.    *)
DuplicateKey(q) ==
  \/ RowsOf(chooseJobID(q)) # {} \/ taskLock(q, chooseJobID(q)) \cap taskLocks # {}
  \/ /\ Opt[q].uniqueFor > 0
     /\ \E l \in uniqueLocks \ LocksExpired(now) : l.key = Opt[q].key

Precedes(r, s) ==
  r.available < s.available \/ (r.available = s.available /\ r.seq <= s.seq)

Replace(r, s) == jobs' = (jobs \ {r}) \cup {s}

Fault == faults < MaxFaults /\ faults' = faults + 1

-----------------------------------------------------------------------------
Init ==
  /\ now = 0
  /\ jobs = {} /\ taskLocks = {} /\ uniqueLocks = {}
  /\ processed = [name \in Queues |-> 0]
  /\ worker = [w \in Workers |-> Idle]
  /\ nextCleanup = [p \in Procs |-> 0]
  /\ stopping = [p \in Procs |-> FALSE]
  /\ nextSeq = 1 /\ nextToken = 1
  /\ done = [name \in Queues |-> {}] /\ dropped = {}
  /\ window = [k \in Keys |-> 0]
  /\ faults = 0

Tick ==
  /\ now < MaxTime
  /\ now' = now + 1
  /\ UNCHANGED <<tables, worker, nextCleanup, stopping, nextSeq, nextToken,
                 history, faults>>

(* DatabaseDispatcher.Dispatch.  t is the clock reading that available_at  *)
(* and the unique lock's expiry are computed from; the transaction deletes *)
(* the expired unique lock by a later reading.  A duplicate job ID or lock *)
(* key rolls the transaction back, which leaves no trace.                  *)
Dispatch(q, t) ==
  LET o == Opt[q]
      id == chooseJobID(q)
      current == uniqueLocks \ {l \in LocksExpired(now) : l.key = o.key}
      row == [id |-> id, req |-> q, seq |-> nextSeq, status |-> "pending",
              attempts |-> 0, available |-> t + o.delay, token |-> 0,
              leased |-> 0, expires |-> 0]
  IN /\ nextSeq <= MaxDispatch
     /\ ~DuplicateKey(q)
     /\ jobs' = jobs \cup {row}
     /\ taskLocks' = taskLocks \cup taskLock(q, id)
     /\ IF o.uniqueFor > 0
          THEN /\ uniqueLocks' = current \cup
                    {[key |-> o.key, job |-> id, expires |-> t + o.uniqueFor]}
               /\ window' = [window EXCEPT ![o.key] = t + o.uniqueFor]
          ELSE UNCHANGED <<uniqueLocks, window>>
     /\ nextSeq' = nextSeq + 1
     /\ UNCHANGED <<now, processed, worker, nextCleanup, stopping, nextToken,
                    done, dropped, faults>>

(* reserve and maybeCleanup: capture the clock once; the first worker of   *)
(* the process to see nextCleanup due takes the cleanup.                   *)
StartReserve(w) ==
  LET p == ProcOf[w]
      due == now >= nextCleanup[p]
  IN /\ worker[w].pc = "loop"
     /\ ~stopping[p]
     /\ worker' = [worker EXCEPT ![w] =
          [Idle EXCEPT !.pc = IF due THEN "locks" ELSE "reserve", !.at = now]]
     /\ nextCleanup' = IF due
          THEN [nextCleanup EXCEPT ![p] = now + CleanupInterval] ELSE nextCleanup
     /\ UNCHANGED <<now, tables, stopping, nextSeq, nextToken, history, faults>>

CleanupLocks(w) ==
  /\ worker[w].pc = "locks"
  /\ uniqueLocks' = uniqueLocks \ LocksExpired(worker[w].at)
  /\ worker' = [worker EXCEPT ![w] = [@ EXCEPT !.pc = "scan"]]
  /\ UNCHANGED <<now, jobs, taskLocks, processed, nextCleanup, stopping,
                 nextSeq, nextToken, history, faults>>

CleanupScan(w) ==
  LET expired == CompletedBefore(worker[w].at)
  IN /\ worker[w].pc = "scan"
     /\ \E found \in SUBSET expired :
          /\ \/ found = expired /\ Cardinality(found) <= CleanupLimit
             \/ found # expired /\ Cardinality(found) = CleanupLimit
          /\ worker' = [worker EXCEPT ![w] =
               [@ EXCEPT !.pc = IF found = {} THEN "reserve" ELSE "delete",
                         !.ids = {r.id : r \in found}]]
     /\ UNCHANGED <<now, tables, nextCleanup, stopping, nextSeq, nextToken,
                    history, faults>>

(* The deleting transaction selects by id alone.                           *)
CleanupDelete(w) ==
  LET gone == {r \in jobs : r.id \in worker[w].ids}
  IN /\ worker[w].pc = "delete"
     /\ \A r \in gone : RowFree(r)
     /\ jobs' = jobs \ gone
     /\ taskLocks' = taskLocks \ worker[w].ids
     /\ worker' = [worker EXCEPT ![w] = [@ EXCEPT !.pc = "reserve", !.ids = {}]]
     /\ UNCHANGED <<now, uniqueLocks, processed, nextCleanup, stopping,
                    nextSeq, nextToken, history, faults>>

(* A statement of cleanup fails and is only logged.                        *)
CleanupError(w) ==
  /\ worker[w].pc \in {"locks", "scan", "delete"}
  /\ worker' = [worker EXCEPT ![w] = [@ EXCEPT
       !.pc = IF worker[w].pc = "locks" THEN "scan" ELSE "reserve", !.ids = {}]]
  /\ Fault
  /\ UNCHANGED <<now, tables, nextCleanup, stopping, nextSeq, nextToken, history>>

(* reserveDatabaseJob: SELECT ... FOR UPDATE SKIP LOCKED, first by         *)
(* available_at and created_at, judged by the captured clock reading.      *)
Candidates(w, name) ==
  {r \in jobs : Opt[r.req].queue = name /\ Eligible(r, worker[w].at) /\ RowFree(r)}

SelectJob(w, name) ==
  /\ worker[w].pc = "reserve"
  /\ \E r \in Candidates(w, name) :
       /\ \A s \in Candidates(w, name) : Precedes(r, s)
       /\ worker' = [worker EXCEPT ![w] = [@ EXCEPT !.pc = "locked", !.job = r]]
  /\ UNCHANGED <<now, tables, nextCleanup, stopping, nextSeq, nextToken,
                 history, faults>>

SelectNone(w, name) ==
  /\ worker[w].pc = "reserve"
  /\ Candidates(w, name) = {}
  /\ worker' = [worker EXCEPT ![w] = Idle]
  /\ UNCHANGED <<now, tables, nextCleanup, stopping, nextSeq, nextToken,
                 history, faults>>

Reserved(w) ==
  [worker[w].job EXCEPT !.status = "active", !.attempts = worker[w].job.attempts + 1,
     !.token = nextToken, !.leased = worker[w].at + Reservation]

(* The UPDATE commits and process starts: the handler of the job's type,   *)
(* its timeout and the heartbeat ticker; or, without a handler, fail.      *)
Reserve(w) ==
  LET row == Reserved(w)
      o == Opt[row.req]
  IN /\ worker[w].pc = "locked"
     /\ Replace(worker[w].job, row)
     /\ nextToken' = nextToken + 1
     /\ worker' = [worker EXCEPT ![w] =
          [Idle EXCEPT !.pc = IF o.known THEN "run" ELSE "settle", !.job = row,
             !.deadline = row.leased, !.beat = now + heartbeatInterval,
             !.limit = IF o.timeout > 0 THEN now + o.timeout ELSE 0]]
     /\ UNCHANGED <<now, taskLocks, uniqueLocks, processed, nextCleanup,
                    stopping, nextSeq, history, faults>>

(* The reservation fails: rolled back, or committed with the answer lost,  *)
(* which leaves an active row nobody runs.                                 *)
ReserveError(w) ==
  /\ worker[w].pc \in {"reserve", "locked"}
  /\ \/ UNCHANGED <<jobs, nextToken>>
     \/ /\ worker[w].pc = "locked"
        /\ Replace(worker[w].job, Reserved(w))
        /\ nextToken' = nextToken + 1
  /\ worker' = [worker EXCEPT ![w] = Idle]
  /\ \/ Fault
     \/ stopping[ProcOf[w]] /\ UNCHANGED faults
  /\ UNCHANGED <<now, taskLocks, uniqueLocks, processed, nextCleanup, stopping,
                 nextSeq, history>>

(* handlerCtx: a child of the worker's context, with the job's timeout.  A *)
(* result that arrives in the very second of the deadline may win or lose. *)
TimedOut(w) ==
  LET o == Opt[worker[w].job.req] IN o.timeout > 0 /\ now >= worker[w].limit
MayBeLive(w) ==
  /\ ~stopping[ProcOf[w]]
  /\ TimedOut(w) => now = worker[w].limit

(* One tick of heartbeat.  It may still fire once while the job settles.   *)
Heartbeat(w) ==
  LET held == Leased(worker[w].job)
      until == now + Reservation
  IN /\ worker[w].pc \in Holding
     /\ Opt[worker[w].job.req].known
     /\ MayBeLive(w)
     /\ now >= worker[w].beat
     /\ \A r \in held : RowFree(r)
     /\ jobs' = (jobs \ held) \cup {[r EXCEPT !.leased = until] : r \in held}
     /\ worker' = [worker EXCEPT ![w] = [@ EXCEPT
          !.beat = now + heartbeatInterval,
          !.deadline = IF held = {} THEN worker[w].deadline ELSE until]]
     /\ UNCHANGED <<now, taskLocks, uniqueLocks, processed, nextCleanup,
                    stopping, nextSeq, nextToken, history, faults>>

(* runHandler returns.  A nil result counts only if handlerCtx is alive.   *)
HandlerReturns(w, ok) ==
  /\ worker[w].pc = "run"
  /\ ok => MayBeLive(w)
  /\ worker' = [worker EXCEPT ![w] = [@ EXCEPT !.pc = "settle", !.ok = ok]]
  /\ UNCHANGED <<now, tables, nextCleanup, stopping, nextSeq, nextToken,
                 history, faults>>

(* complete: one transaction over the three tables; no row, no effect.     *)
Complete(w) ==
  LET job == worker[w].job
      o == Opt[job.req]
      held == Leased(job)
  IN /\ worker[w].pc = "settle" /\ worker[w].ok
     /\ \A r \in held : RowFree(r)
     /\ IF o.retention <= 0
          THEN /\ jobs' = jobs \ held
               /\ taskLocks' = IF held = {} THEN taskLocks ELSE taskLocks \ {job.id}
          ELSE /\ jobs' = (jobs \ held) \cup
                    {[r EXCEPT !.status = "completed", !.expires = now + o.retention,
                               !.token = 0, !.leased = 0] : r \in held}
               /\ UNCHANGED taskLocks
     /\ processed' = IF held = {} THEN processed
                     ELSE [processed EXCEPT ![o.queue] = @ + 1]
     /\ done' = [done EXCEPT ![o.queue] = @ \cup {r.seq : r \in held}]
     /\ worker' = [worker EXCEPT ![w] = Idle]
     /\ UNCHANGED <<now, uniqueLocks, nextCleanup, stopping, nextSeq,
                    nextToken, dropped, window, faults>>

(* fail: judged by the attempts of the snapshot taken at reservation.      *)
Fail(w) ==
  LET job == worker[w].job
      held == Leased(job)
      status == IF exhausted(job) THEN "failed" ELSE "retry"
      available == IF exhausted(job) THEN now ELSE now + retryDelay(job.attempts)
  IN /\ worker[w].pc = "settle" /\ ~worker[w].ok
     /\ \A r \in held : RowFree(r)
     /\ jobs' = (jobs \ held) \cup
          {[r EXCEPT !.status = status, !.available = available,
                     !.token = 0, !.leased = 0] : r \in held}
     /\ worker' = [worker EXCEPT ![w] = Idle]
     /\ UNCHANGED <<now, taskLocks, uniqueLocks, processed, nextCleanup,
                    stopping, nextSeq, nextToken, history, faults>>

(* complete or fail returns an error, which is only logged.                *)
SettleError(w) ==
  /\ worker[w].pc = "settle"
  /\ worker' = [worker EXCEPT ![w] = Idle]
  /\ Fault
  /\ UNCHANGED <<now, tables, nextCleanup, stopping, nextSeq, nextToken, history>>

(* The worker's context is cancelled.                                      *)
Shutdown(p) ==
  /\ ~stopping[p]
  /\ stopping' = [stopping EXCEPT ![p] = TRUE]
  /\ Fault
  /\ UNCHANGED <<now, tables, worker, nextCleanup, nextSeq, nextToken, history>>

Restarted(p) ==
  /\ worker' = [w \in Workers |-> IF ProcOf[w] = p THEN Idle ELSE worker[w]]
  /\ nextCleanup' = [nextCleanup EXCEPT ![p] = 0]
  /\ stopping' = [stopping EXCEPT ![p] = FALSE]
  /\ UNCHANGED <<now, tables, nextSeq, nextToken, history>>

(* Run returns when its goroutines did or when shutdownTimeout is over,    *)
(* whatever they were doing; the process ends and is started again.        *)
Exit(p) == stopping[p] /\ Restarted(p) /\ UNCHANGED faults

Crash(p) == Fault /\ Restarted(p)

(* DatabaseInspector.Retry and Delete, on one failed job or all of a queue.*)
\* Faulty: the inspector takes jobs of any status.
RowsIn(name) == {r \in jobs : Opt[r.req].queue = name}

FailedRows(name) == {r \in jobs : Opt[r.req].queue = name /\ r.status = "failed"}
Chosen(name) == {FailedRows(name)} \cup {{r} : r \in FailedRows(name)}

Retry(name) ==
  \E rows \in Chosen(name) \ {{}} :
    /\ jobs' = (jobs \ rows) \cup
         {[r EXCEPT !.status = "retry", !.attempts = 0, !.available = now] : r \in rows}
    /\ UNCHANGED <<now, taskLocks, uniqueLocks, processed, worker, nextCleanup,
                   stopping, nextSeq, nextToken, history, faults>>

Delete(name) ==
  \E rows \in Chosen(name) \ {{}} :
    LET ids == {r.id : r \in rows}
        freed == {l \in uniqueLocks : l.job \in ids}
    IN /\ jobs' = jobs \ {r \in jobs : r.id \in ids}
       /\ taskLocks' = taskLocks \ ids
       /\ uniqueLocks' = uniqueLocks \ freed
       /\ dropped' = dropped \cup {r.seq : r \in rows}
       /\ window' = [k \in Keys |->
                       IF \E l \in freed : l.key = k THEN 0 ELSE window[k]]
       /\ UNCHANGED <<now, processed, worker, nextCleanup, stopping, nextSeq,
                      nextToken, done, faults>>

-----------------------------------------------------------------------------
WorkerStep(w) ==
  \/ StartReserve(w)
  \/ CleanupLocks(w) \/ CleanupScan(w) \/ CleanupDelete(w)
  \/ \E name \in Queues : SelectJob(w, name) \/ SelectNone(w, name)
  \/ Reserve(w)
  \/ \E ok \in BOOLEAN : HandlerReturns(w, ok)
  \/ Complete(w) \/ Fail(w)

ClockReadings == {t \in 0..now : now <= t + ClockLag}

(* Everything but the calls of Dispatch.                                   *)
Serve ==
  \/ Tick
  \/ \E w \in Workers :
       WorkerStep(w) \/ Heartbeat(w) \/ CleanupError(w) \/ ReserveError(w) \/ SettleError(w)
  \/ \E p \in Procs : Shutdown(p) \/ Exit(p) \/ Crash(p)
  \/ \E name \in Queues : Retry(name) \/ Delete(name)

Next == Serve \/ \E q \in Requests, t \in ClockReadings : Dispatch(q, t)

Spec == Init /\ [][Next]_vars

(* Time passes, goroutines are scheduled, handlers return, and a process   *)
(* that was told to stop is restarted.  Faults are bounded by MaxFaults.   *)
FairSpec ==
  /\ Spec
  /\ WF_vars(Tick)
  /\ \A w \in Workers : WF_vars(WorkerStep(w))
  /\ \A p \in Procs : WF_vars(Exit(p))

-----------------------------------------------------------------------------
(* Properties.                                                             *)

TypeOK ==
  /\ now \in Nat
  /\ jobs \subseteq Row
  /\ taskLocks \subseteq TaskIDs
  /\ uniqueLocks \subseteq [key : Keys, job : Ids, expires : Nat]
  /\ processed \in [Queues -> Nat]
  /\ worker \in [Workers -> WorkerState]
  /\ \A w \in Workers :
       worker[w].pc \in {"locked"} \cup Holding => worker[w].job \in Row
  /\ nextCleanup \in [Procs -> Nat]
  /\ stopping \in [Procs -> BOOLEAN]
  /\ nextSeq \in Nat /\ nextToken \in Nat
  /\ done \in [Queues -> SUBSET Nat] /\ dropped \subseteq Nat
  /\ window \in [Keys -> Nat]
  /\ faults \in Nat

\* Worker w runs or settles a job under a lease that, as far as it knows, lasts.
Holds(w) == worker[w].pc \in Holding /\ worker[w].deadline > now

\* No accepted job is ever worked on by two workers whose leases both last,
\* whatever crashes, stale clock readings and late heartbeats came before.
LeaseExclusive ==
  \A v, w \in Workers :
    Holds(v) /\ Holds(w) /\ worker[v].job.seq = worker[w].job.seq => v = w

\* While its lease lasts, the row of a worker's job is active under its token
\* and no other reservation can have it.
LeaseHeld ==
  \A w \in Workers : Holds(w) =>
    \A r \in jobs : r.seq = worker[w].job.seq =>
      r \in Leased(worker[w].job) /\ r.leased = worker[w].deadline

\* A task ID is locked exactly as long as its job has a row: the ID can neither
\* leak (never dispatched again) nor be taken twice.
TaskLockIffRow ==
  \A id \in TaskIDs : id \in taskLocks <=> RowsOf(id) # {}

\* A unique key that was accepted is not accepted again before its window is
\* over, unless an operator deletes the failed job that took it.
UniqueOncePerWindow ==
  [][\A k \in Keys : window'[k] \notin {window[k], 0} => window[k] <= now]_vars

Completed == UNION {done[name] : name \in Queues}
Unfinished == {r.seq : r \in {s \in jobs : s.status # "completed"}}
Accepted == 1..(nextSeq - 1)

\* No accepted job is lost: it is still to be done, was completed, or was
\* deleted by an operator.
NoLostJob == Accepted = Unfinished \cup Completed \cup dropped

\* A job is in one of these states only: what completed or was deleted is
\* never run again, and the statistics count every completion once.
SettledOnce ==
  /\ Unfinished \cap (Completed \cup dropped) = {} /\ Completed \cap dropped = {}
  /\ \A name \in Queues : processed[name] = Cardinality(done[name])

\* Only a job whose retries are used up is marked failed.
FailedAfterRetries ==
  \A r \in jobs : r.status = "failed" => r.attempts > maxRetry(r.req)

\* An active row whose lease lasts changes only by the hand of the worker that
\* holds its token.
OwnerSettles ==
  [][\A r \in jobs : r.status = "active" /\ r.leased > now /\ r \notin jobs' =>
       \E w \in Workers : /\ worker[w].pc \in Holding
                          /\ worker[w].job.token = r.token
                          /\ worker'[w] # worker[w]]_vars

\* The task IDs under which completed rows are kept.
KeptIDs ==
  {id \in TaskIDs : \E q \in Requests : Opt[q].task = id /\ Opt[q].retention > 0}

\* Whatever becomes of the ids between a cleanup's scan and its delete, a job that
\* is not completed and expired is deleted only under a task ID of which completed
\* rows are kept: no job under a uuid, and no task that leaves no row, is taken.
CleanupTakesKept ==
  [][\A w \in Workers : worker[w].pc = "delete" /\ worker'[w] # worker[w] =>
       \A r \in jobs \ jobs' :
         (r.status = "completed" /\ r.expires <= now) \/ r.id \in KeptIDs]_vars

\* The cleanup deletes expired completed jobs, and no others.
CleanupSparesOthers ==
  [][\A w \in Workers : worker[w].pc = "delete" /\ worker'[w] # worker[w] =>
       \A r \in jobs \ jobs' : r.status = "completed" /\ r.expires <= now]_vars

\* A job that becomes due is served: it does not stay due forever, not even when
\* the worker that had it crashed, its answer was lost or its row lock was held.
DueInTime(j) ==
  \E r \in jobs : /\ r.seq = j
                  /\ \/ r.status \in Waiting /\ r.available <= MaxTime
                     \/ r.status = "active" /\ r.leased <= MaxTime
EventuallyServed == \A j \in 1..MaxDispatch : DueInTime(j) ~> ~DueInTime(j)

===============================================================================
