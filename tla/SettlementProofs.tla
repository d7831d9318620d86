--------------------------- MODULE SettlementProofs ---------------------------
(***************************************************************************)
(* What becomes of an accepted job, for every value of JobQueue's          *)
(* constants: it is settled once, fails only when its retries are used up, *)
(* and, as long as a cleanup deletes nothing but expired completed jobs,   *)
(* is not lost and is settled by the worker that owns it.                  *)
(*                                                                         *)
(* Becomes and Gone say all a step may do to a row of queue_jobs.          *)
(***************************************************************************)
EXTENDS JobQueueLifecycle, JobQueueProofs, FiniteSetTheorems

\* A worker's result for the row is the one that counts.
Settles(w, r) ==
  worker[w].pc = "settle" /\ r \in Leased(worker[w].job) /\ worker'[w] = Idle

\* Row r of the table is row s after the step: it stayed, was reserved, its
\* lease was extended, it was completed and kept, failed, or was retried.
Becomes(r, s) ==
  /\ s.id = r.id /\ s.seq = r.seq /\ s.req = r.req
  /\ \/ s = r
     \/ /\ \E w \in Workers : worker[w].pc = "locked" /\ worker[w].job = r
        /\ s.status = "active" /\ s.token = nextToken
     \/ /\ \E w \in Workers : /\ worker[w].pc \in Holding /\ r \in Leased(worker[w].job)
                              /\ worker'[w] # worker[w]
        /\ s.status = "active" /\ s.token = r.token /\ s.attempts = r.attempts
     \/ /\ \E w \in Workers :
             LET o == Opt[worker[w].job.req]
             IN /\ Settles(w, r) /\ r.seq \in done'[o.queue]
                /\ o.retention > 0 /\ s.expires = now + o.retention
        /\ s.status = "completed"
     \/ /\ \E w \in Workers :
             /\ Settles(w, r)
             /\ s.status = IF exhausted(worker[w].job) THEN "failed" ELSE "retry"
        /\ s.attempts = r.attempts
     \/ r.status = "failed" /\ s.status = "retry"

\* Row r is deleted: done and not kept, by an operator, or by a cleanup.
Gone(r) ==
  \/ \E w \in Workers : LET o == Opt[worker[w].job.req]
                        IN Settles(w, r) /\ r.seq \in done'[o.queue] /\ o.retention <= 0
  \/ r.status = "failed" /\ r.seq \in dropped'
  \/ \E w \in Workers : /\ worker[w].pc = "delete" /\ worker'[w] # worker[w]
                        /\ r.id \in worker[w].ids

Created(s) ==
  /\ s.seq = nextSeq /\ nextSeq' = nextSeq + 1 /\ s.status = "pending"
  /\ s.req \in Requests /\ s.id = chooseJobID(s.req)

Follows ==
  /\ \A s \in jobs' : Created(s) \/ \E r \in jobs : Becomes(r, s)
  /\ \A r \in jobs \ jobs' : Gone(r) \/ \E s \in jobs' : Becomes(r, s)

LEMMA Facts ==
  ASSUME LeaseInv
  PROVE  /\ now \in Nat /\ nextSeq \in Nat /\ nextToken \in Nat
         /\ worker \in [Workers -> WorkerState]
         /\ \A w \in Workers : worker[w] \in WorkerState
         /\ \A r \in jobs : /\ r \in Row /\ r.seq \in Nat /\ r.token \in Nat /\ r.id \in Ids
                            /\ r.seq < nextSeq /\ r.token < nextToken
         /\ \A w \in Workers : worker[w].pc \in {"locked"} \cup Holding =>
              worker[w].job \in Row /\ worker[w].job.token < nextToken
         /\ \A r, s \in jobs : r.id = s.id \/ r.seq = s.seq => r = s
         /\ done \in [Queues -> SUBSET Nat] /\ dropped \subseteq Nat
BY DEF LeaseInv, TypeOK, Fresh, RowsApart, Row

LEMMA DispatchFollows ==
  ASSUME LeaseInv, NEW q \in Requests, NEW t, Dispatch(q, t)
  PROVE  Follows
<1> DEFINE row == [id |-> chooseJobID(q), req |-> q, seq |-> nextSeq, status |-> "pending",
                   attempts |-> 0, available |-> t + Opt[q].delay, token |-> 0,
                   leased |-> 0, expires |-> 0]
<1>1. jobs' = jobs \cup {row} /\ nextSeq' = nextSeq + 1
  BY DEF Dispatch
<1>2. Created(row)
  <2>1. row.seq = nextSeq /\ row.status = "pending" /\ row.req = q /\ row.id = chooseJobID(row.req)
    OBVIOUS
  <2> HIDE DEF row
  <2> QED BY <1>1, <2>1 DEF Created
<1> HIDE DEF row
<1>3. \A r \in jobs : Becomes(r, r)
  BY DEF Becomes
<1> QED BY <1>1, <1>2, <1>3 DEF Follows

LEMMA ReserveFollows ==
  ASSUME LeaseInv, NEW w \in Workers, worker[w].pc = "locked",
         Replace(worker[w].job, Reserved(w))
  PROVE  Follows
<1> DEFINE job == worker[w].job
           row == Reserved(w)
<1>1. job \in jobs /\ job \in Row
  BY SelectedRow
<1>2. row.id = job.id /\ row.seq = job.seq /\ row.status = "active" /\ row.token = nextToken
  BY SelectedRow
<1>3. row.req = job.req
  BY <1>1 DEF Reserved, Row
<1>4. jobs' = (jobs \ {job}) \cup {row}
  BY DEF Replace
<1> HIDE DEF row
<1>5. Becomes(job, row)
  BY <1>2, <1>3 DEF Becomes
<1> HIDE DEF job
<1>6. \A r \in jobs : Becomes(r, r)
  BY DEF Becomes
<1> QED BY <1>1, <1>4, <1>5, <1>6 DEF Follows

LEMMA HeartbeatFollows ==
  ASSUME LeaseInv, NEW w \in Workers, Heartbeat(w)
  PROVE  Follows
<1> DEFINE held == Leased(worker[w].job)
           new(r) == [r EXCEPT !.leased = now + Reservation]
<1>1. worker[w].pc \in Holding /\ jobs' = (jobs \ held) \cup {new(r) : r \in held}
  BY DEF Heartbeat
<1>2. worker'[w] # worker[w]
  <2>1. worker'[w].beat = now + heartbeatInterval /\ now >= worker[w].beat
    BY Facts DEF Heartbeat, WorkerState
  <2>2. heartbeatInterval \in Nat /\ heartbeatInterval > 0
    BY TimeAssumption DEF heartbeatInterval
  <2>3. worker[w].beat \in Nat /\ now \in Nat
    BY Facts DEF WorkerState
  <2>4. worker'[w].beat # worker[w].beat
    BY <2>1, <2>2, <2>3
  <2> QED BY <2>4
<1>3. \A r \in held : /\ r \in jobs /\ r.status = "active"
                      /\ new(r).id = r.id /\ new(r).seq = r.seq /\ new(r).req = r.req
                      /\ new(r).status = "active" /\ new(r).token = r.token
                      /\ new(r).attempts = r.attempts
  BY Facts DEF Leased, Row
<1> HIDE DEF new
<1>4. \A r \in held : Becomes(r, new(r))
  BY <1>1, <1>2, <1>3 DEF Becomes
<1>5. \A r \in jobs : Becomes(r, r)
  BY DEF Becomes
<1> HIDE DEF held
<1> QED BY <1>1, <1>3, <1>4, <1>5 DEF Follows

LEMMA CompleteFollows ==
  ASSUME LeaseInv, NEW w \in Workers, Complete(w)
  PROVE  Follows
<1> DEFINE job == worker[w].job
           o == Opt[job.req]
           held == Leased(job)
           new(r) == [r EXCEPT !.status = "completed", !.expires = now + o.retention,
                               !.token = 0, !.leased = 0]
<1>1. /\ worker[w].pc = "settle" /\ worker' = [worker EXCEPT ![w] = Idle]
      /\ \/ jobs' = jobs \ held /\ o.retention <= 0
         \/ jobs' = (jobs \ held) \cup {new(r) : r \in held} /\ ~(o.retention <= 0)
      /\ done' = [done EXCEPT ![o.queue] = @ \cup {r.seq : r \in held}]
  BY DEF Complete
<1>2. o.queue \in Queues /\ o.retention \in Nat
  BY <1>1, Facts, OptAssumption DEF Holding, Row, Options
<1>3. \A r \in held : Settles(w, r) /\ r.seq \in done'[o.queue]
  BY <1>1, <1>2, Facts DEF Settles
<1>4. \A r \in held : /\ r \in jobs
                      /\ new(r).id = r.id /\ new(r).seq = r.seq /\ new(r).req = r.req
                      /\ new(r).status = "completed" /\ new(r).expires = now + o.retention
  BY Facts DEF Leased, Row
<1> HIDE DEF new, held
<1>5. \A r \in held : (o.retention <= 0 => Gone(r)) /\ (~(o.retention <= 0) => Becomes(r, new(r)))
  BY <1>2, <1>3, <1>4 DEF Becomes, Gone
<1>6. \A r \in jobs : Becomes(r, r)
  BY DEF Becomes
<1> QED BY <1>1, <1>4, <1>5, <1>6 DEF Follows

LEMMA FailFollows ==
  ASSUME LeaseInv, NEW w \in Workers, Fail(w)
  PROVE  Follows
<1> DEFINE job == worker[w].job
           held == Leased(job)
           status == IF exhausted(job) THEN "failed" ELSE "retry"
           later == IF exhausted(job) THEN now ELSE now + retryDelay(job.attempts)
           new(r) == [r EXCEPT !.status = status, !.available = later,
                               !.token = 0, !.leased = 0]
<1>1. /\ worker[w].pc = "settle" /\ worker' = [worker EXCEPT ![w] = Idle]
      /\ jobs' = (jobs \ held) \cup {new(r) : r \in held}
  BY DEF Fail
<1>2. \A r \in held : Settles(w, r)
  BY <1>1, Facts DEF Settles
<1> HIDE DEF later
<1>3. \A r \in held : /\ r \in jobs
                      /\ new(r).id = r.id /\ new(r).seq = r.seq /\ new(r).req = r.req
                      /\ new(r).status = status /\ new(r).attempts = r.attempts
  <2> HIDE DEF status
  <2> QED BY Facts DEF Leased, Row
<1> HIDE DEF new, held
<1>4. \A r \in held : Becomes(r, new(r))
  BY <1>2, <1>3 DEF Becomes
<1>5. \A r \in jobs : Becomes(r, r)
  BY DEF Becomes
<1> QED BY <1>1, <1>3, <1>4, <1>5 DEF Follows

LEMMA InspectorFollows ==
  ASSUME LeaseInv, NEW name, Retry(name) \/ Delete(name)
  PROVE  Follows
<1>k. \A r \in jobs : Becomes(r, r)
  BY DEF Becomes
<1>1. CASE Retry(name)
  <2> DEFINE new(r) == [r EXCEPT !.status = "retry", !.attempts = 0, !.available = now]
  <2>1. PICK rows \in Chosen(name) : jobs' = (jobs \ rows) \cup {new(r) : r \in rows}
    BY <1>1 DEF Retry
  <2>2. \A r \in rows : /\ r \in jobs /\ r.status = "failed"
                        /\ new(r).id = r.id /\ new(r).seq = r.seq /\ new(r).req = r.req
                        /\ new(r).status = "retry"
    BY Facts DEF Chosen, FailedRows, Row
  <2> HIDE DEF new
  <2>3. \A r \in rows : Becomes(r, new(r))
    BY <2>2 DEF Becomes
  <2> QED BY <1>k, <2>1, <2>2, <2>3 DEF Follows
<1>2. CASE Delete(name)
  <2>1. PICK rows \in Chosen(name) :
          /\ jobs' = jobs \ {r \in jobs : r.id \in {s.id : s \in rows}}
          /\ dropped' = dropped \cup {r.seq : r \in rows}
    BY <1>2 DEF Delete
  <2>2. \A r \in rows : r \in jobs /\ r.status = "failed"
    BY DEF Chosen, FailedRows
  <2>3. \A r \in jobs \ jobs' : r \in rows
    BY <2>1, <2>2, Facts
  <2>4. \A r \in jobs \ jobs' : Gone(r)
    BY <2>1, <2>2, <2>3 DEF Gone
  <2> QED BY <1>k, <2>1, <2>4 DEF Follows
<1> QED BY <1>1, <1>2

LEMMA CleanupFollows ==
  ASSUME LeaseInv, NEW w \in Workers, CleanupDelete(w)
  PROVE  Follows
<1>1. /\ worker[w].pc = "delete"
      /\ jobs' = jobs \ {r \in jobs : r.id \in worker[w].ids}
      /\ worker'[w].pc = "reserve"
  BY Facts DEF CleanupDelete, WorkerState
<1>2. \A r \in jobs \ jobs' : Gone(r)
  BY <1>1 DEF Gone
<1>3. \A r \in jobs : Becomes(r, r)
  BY DEF Becomes
<1> QED BY <1>1, <1>2, <1>3 DEF Follows

LEMMA NextFollows ==
  ASSUME LeaseInv, [Next]_vars
  PROVE  Follows
<1>1. ASSUME UNCHANGED jobs PROVE Follows
  <2>1. \A r \in jobs : Becomes(r, r)
    BY DEF Becomes
  <2> QED BY <1>1, <2>1 DEF Follows
<1>2. ASSUME NEW w \in Workers, Reserve(w) \/ ReserveError(w) PROVE Follows
  BY <1>1, <1>2, ReserveFollows DEF Reserve, ReserveError
<1>3. ASSUME NEW w \in Workers, WorkerStep(w) PROVE Follows
  BY <1>1, <1>2, <1>3, CleanupFollows, CompleteFollows, FailFollows
     DEF WorkerStep, StartReserve, CleanupLocks, CleanupScan, SelectJob, SelectNone,
         HandlerReturns, tables
<1>4. CASE Serve
  BY <1>1, <1>2, <1>3, <1>4, HeartbeatFollows, InspectorFollows
     DEF Serve, Tick, CleanupError, SettleError, Shutdown, Exit, Crash, Restarted, tables
<1>5. CASE UNCHANGED vars
  BY <1>1, <1>5 DEF vars, tables
<1> QED BY <1>4, <1>5, DispatchFollows DEF Next

-----------------------------------------------------------------------------
(* Failure.                                                                *)

\* The snapshot a worker judges its job by is what the row still says.
Snapshot ==
  \A w \in Workers : worker[w].pc \in Holding =>
    \A r \in Leased(worker[w].job) :
      r.attempts = worker[w].job.attempts /\ r.req = worker[w].job.req

\* A worker has the job it had, or the one it reserves in this step.
LEMMA HoldersStep ==
  ASSUME LeaseInv, [Next]_vars, NEW v \in Workers, worker'[v].pc \in Holding
  PROVE  \/ worker[v].pc \in Holding /\ worker'[v].job = worker[v].job
         \/ Reserve(v) /\ worker'[v].job = Reserved(v)
<1>u. worker \in [Workers -> WorkerState]
  BY Facts
<1>1. ASSUME worker'[v] = worker[v] PROVE worker[v].pc \in Holding /\ worker'[v].job = worker[v].job
  BY <1>1
<1>2. ASSUME NEW w \in Workers, Reserve(w)
      PROVE  worker'[v] = worker[v] \/ (w = v /\ worker'[v].job = Reserved(v))
  <2>1. CASE w = v
    BY <1>2, <1>u, <2>1 DEF Reserve, Idle
  <2>2. CASE w # v
    BY <1>2, <1>u, <2>2 DEF Reserve
  <2> QED BY <2>1, <2>2
<1>3. ASSUME NEW w \in Workers,
             \/ StartReserve(w) \/ CleanupLocks(w) \/ CleanupScan(w) \/ CleanupDelete(w)
             \/ CleanupError(w) \/ \E name \in Queues : SelectJob(w, name)
      PROVE  worker'[v] = worker[v]
  <2>1. w # v => worker'[v] = worker[v]
    BY <1>3, <1>u DEF StartReserve, CleanupLocks, CleanupScan, CleanupDelete, CleanupError, SelectJob
  <2>2. worker'[w].pc \notin Holding
    <3>u. worker[w] \in WorkerState
      BY <1>u
    <3>1. CASE StartReserve(w)
      BY <1>u, <3>1 DEF StartReserve, Holding, Idle
    <3>2. CASE CleanupLocks(w)
      BY <1>u, <3>u, <3>2 DEF CleanupLocks, Holding, WorkerState
    <3>3. CASE CleanupDelete(w) \/ CleanupError(w)
      <4>1. PICK x \in {"scan", "reserve"} :
              worker' = [worker EXCEPT ![w] = [@ EXCEPT !.pc = x, !.ids = {}]]
        BY <3>3 DEF CleanupDelete, CleanupError
      <4> QED BY <1>u, <3>u, <4>1 DEF Holding, WorkerState
    <3>4. CASE CleanupScan(w)
      <4>1. PICK x \in {"reserve", "delete"} :
              \E y : worker' = [worker EXCEPT ![w] = [@ EXCEPT !.pc = x, !.ids = y]]
        BY <3>4 DEF CleanupScan
      <4> QED BY <1>u, <3>u, <4>1 DEF Holding, WorkerState
    <3>5. CASE \E name \in Queues : SelectJob(w, name)
      <4>1. PICK r : worker' = [worker EXCEPT ![w] = [@ EXCEPT !.pc = "locked", !.job = r]]
        BY <3>5 DEF SelectJob
      <4> QED BY <1>u, <3>u, <4>1 DEF Holding, WorkerState
    <3> QED BY <1>3, <3>1, <3>2, <3>3, <3>4, <3>5
  <2> QED BY <2>1, <2>2
<1>4. ASSUME NEW w \in Workers,
             \/ \E name \in Queues : SelectNone(w, name)
             \/ ReserveError(w) \/ Complete(w) \/ Fail(w) \/ SettleError(w)
      PROVE  worker'[v] = worker[v]
  <2>1. worker' = [worker EXCEPT ![w] = Idle]
    BY <1>4 DEF SelectNone, ReserveError, Complete, Fail, SettleError
  <2> QED BY <1>u, <2>1, IdleType
<1>5. ASSUME NEW w \in Workers, Heartbeat(w) \/ \E ok \in BOOLEAN : HandlerReturns(w, ok)
      PROVE  worker[v].pc \in Holding /\ worker'[v].job = worker[v].job
  <2>1. w # v => worker'[v] = worker[v]
    BY <1>5, <1>u DEF Heartbeat, HandlerReturns
  <2>2. worker[w].pc \in Holding /\ worker'[w].job = worker[w].job
    <3>1. worker[w] \in WorkerState
      BY <1>u
    <3>2. CASE Heartbeat(w)
      BY <1>u, <3>1, <3>2 DEF Heartbeat, WorkerState
    <3>3. ASSUME NEW ok \in BOOLEAN, HandlerReturns(w, ok)
          PROVE  worker[w].pc \in Holding /\ worker'[w].job = worker[w].job
      BY <1>u, <3>1, <3>3 DEF HandlerReturns, Holding, WorkerState
    <3> QED BY <1>5, <3>2, <3>3
  <2> QED BY <1>1, <2>1, <2>2
<1>6. ASSUME NEW p \in Procs, Exit(p) \/ Crash(p) PROVE worker'[v] = worker[v]
  BY <1>6, IdleType DEF Exit, Crash, Restarted
<1>7. ASSUME UNCHANGED worker PROVE worker'[v] = worker[v]
  BY <1>7
<1>8. ASSUME NEW w \in Workers,
             WorkerStep(w) \/ Heartbeat(w) \/ CleanupError(w) \/ ReserveError(w) \/ SettleError(w)
      PROVE  \/ worker[v].pc \in Holding /\ worker'[v].job = worker[v].job
             \/ Reserve(v) /\ worker'[v].job = Reserved(v)
  BY <1>1, <1>2, <1>3, <1>4, <1>5, <1>8 DEF WorkerStep
<1>9. CASE Next
  BY <1>1, <1>6, <1>7, <1>8, <1>9 DEF Next, Serve, Tick, Shutdown, Retry, Delete, Dispatch
<1>10. CASE UNCHANGED vars
  BY <1>1, <1>7, <1>10 DEF vars
<1> QED BY <1>9, <1>10

LEMMA SnapshotStep == LeaseInv /\ Snapshot /\ [Next]_vars => Snapshot'
<1> SUFFICES ASSUME LeaseInv, Snapshot, [Next]_vars,
                    NEW v \in Workers, worker'[v].pc \in Holding,
                    NEW s \in jobs', s \in Leased(worker[v].job)'
             PROVE  s.attempts = worker'[v].job.attempts /\ s.req = worker'[v].job.req
  BY DEF Snapshot, Leased
<1>1. s.id = worker'[v].job.id /\ s.status = "active" /\ s.token = worker'[v].job.token
  BY DEF Leased
<1>2. CASE worker[v].pc \in Holding /\ worker'[v].job = worker[v].job
  <2>1. worker[v].job.token < nextToken
    BY <1>2, Facts
  <2>2. PICK r \in jobs : Becomes(r, s)
    BY <1>1, NextFollows DEF Follows, Created
  <2>3. s.token # nextToken
    BY <1>1, <1>2, <2>1, Facts DEF Row
  <2>4. r.status = "active" /\ r.token = s.token /\ r.attempts = s.attempts
    BY <1>1, <2>2, <2>3 DEF Becomes, Leased
  <2>5. r \in Leased(worker[v].job)
    BY <1>1, <1>2, <2>2, <2>4 DEF Becomes, Leased
  <2> QED BY <1>2, <2>2, <2>4, <2>5 DEF Becomes, Snapshot
<1>3. CASE Reserve(v) /\ worker'[v].job = Reserved(v)
  <2>1. jobs' = (jobs \ {worker[v].job}) \cup {Reserved(v)} /\ Reserved(v).token = nextToken
    BY <1>3, SelectedRow DEF Reserve, Replace
  <2>2. s = Reserved(v)
    BY <1>1, <1>3, <2>1, Facts
  <2> QED BY <1>3, <2>2
<1> QED BY <1>2, <1>3, HoldersStep

LEMMA FailureStep ==
  LeaseInv /\ Snapshot /\ FailedAfterRetries /\ [Next]_vars => FailedAfterRetries'
<1> SUFFICES ASSUME LeaseInv, Snapshot, FailedAfterRetries, [Next]_vars,
                    NEW s \in jobs', s.status = "failed"
             PROVE  s.attempts > maxRetry(s.req)
  BY DEF FailedAfterRetries
<1>1. PICK r \in jobs : Becomes(r, s)
  BY NextFollows DEF Follows, Created
<1>2. CASE s = r
  BY <1>2 DEF FailedAfterRetries
<1>3. CASE s # r
  <2>1. PICK w \in Workers : /\ Settles(w, r) /\ s.attempts = r.attempts /\ s.req = r.req
                             /\ exhausted(worker[w].job)
    BY <1>1, <1>3 DEF Becomes
  <2>2. r.attempts = worker[w].job.attempts /\ r.req = worker[w].job.req
    BY <2>1 DEF Settles, Holding, Snapshot
  <2> QED BY <2>1, <2>2 DEF exhausted
<1> QED BY <1>2, <1>3

\* Whatever leases lapse and workers settle late, only a job whose retries are
\* used up is marked failed.
THEOREM FailuresExhausted == Spec => []FailedAfterRetries
<1>1. Init => Snapshot /\ FailedAfterRetries
  BY DEF Init, Snapshot, FailedAfterRetries, Leased
<1> QED BY LeaseInit, LeaseNext, SnapshotStep, FailureStep, <1>1, PTL DEF Spec

-----------------------------------------------------------------------------
(* Settlement.                                                             *)

\* Worker w completes row r.
Completes(w, r) ==
  LET name == Opt[worker[w].job.req].queue
  IN /\ r \in Leased(worker[w].job) /\ name \in Queues
     /\ done' = [done EXCEPT ![name] = @ \cup {r.seq}]
     /\ processed' = [processed EXCEPT ![name] = @ + 1]
     /\ UNCHANGED dropped
     /\ \A s \in jobs' : s.seq = r.seq => s.status = "completed"

\* An operator deletes failed rows.
Drops(rows) ==
  /\ rows \subseteq jobs /\ \A r \in rows : r.status = "failed"
  /\ dropped' = dropped \cup {r.seq : r \in rows}
  /\ jobs' = jobs \ rows
  /\ UNCHANGED <<done, processed>>

LEMMA CompleteHistory ==
  ASSUME LeaseInv, NEW w \in Workers, Complete(w)
  PROVE  UNCHANGED <<done, dropped, processed>> \/ \E r \in jobs : Completes(w, r)
<1> DEFINE job == worker[w].job
           o == Opt[job.req]
           held == Leased(job)
           new(r) == [r EXCEPT !.status = "completed", !.expires = now + o.retention,
                               !.token = 0, !.leased = 0]
<1>1. /\ jobs' = jobs \ held \/ jobs' = (jobs \ held) \cup {new(r) : r \in held}
      /\ processed' = IF held = {} THEN processed ELSE [processed EXCEPT ![o.queue] = @ + 1]
      /\ done' = [done EXCEPT ![o.queue] = @ \cup {r.seq : r \in held}]
      /\ UNCHANGED dropped
  BY DEF Complete
<1>2. o.queue \in Queues
  <2>1. worker[w].pc \in Holding
    BY DEF Complete, Holding
  <2> QED BY <2>1, Facts, OptAssumption DEF Row, Options
<1>3. CASE held = {}
  <2>1. [done EXCEPT ![o.queue] = @ \cup {r.seq : r \in held}] = done
    BY <1>3, Facts
  <2> QED BY <1>1, <1>3, <2>1
<1>4. ASSUME NEW r \in held PROVE Completes(w, r)
  <2>1. held = {r}
    <3>1. \A s \in held : s \in jobs /\ s.id = job.id
      BY DEF Leased
    <3> QED BY <1>4, <3>1, Facts
  <2>2. new(r).seq = r.seq /\ new(r).status = "completed" /\ r \in jobs
    BY Facts DEF Leased, Row
  <2> HIDE DEF new
  <2>3. \A s \in jobs' : s.seq = r.seq => s.status = "completed"
    BY <1>1, <2>1, <2>2, Facts
  <2>4. {x.seq : x \in held} = {r.seq}
    BY <2>1
  <2>5. /\ done' = [done EXCEPT ![o.queue] = @ \cup {r.seq}]
        /\ processed' = [processed EXCEPT ![o.queue] = @ + 1]
    BY <1>1, <1>4, <2>4
  <2> HIDE DEF held
  <2> QED BY <1>1, <1>2, <1>4, <2>3, <2>5 DEF Completes, held
<1> QED BY <1>3, <1>4 DEF Leased

LEMMA DeleteHistory ==
  ASSUME LeaseInv, NEW name \in Queues, Delete(name)
  PROVE  \E rows : Drops(rows)
<1>1. PICK rows \in Chosen(name) :
        /\ jobs' = jobs \ {r \in jobs : r.id \in {s.id : s \in rows}}
        /\ dropped' = dropped \cup {r.seq : r \in rows}
        /\ UNCHANGED <<done, processed>>
  BY DEF Delete
<1>2. rows \subseteq jobs /\ \A r \in rows : r.status = "failed"
  BY DEF Chosen, FailedRows
<1>3. jobs' = jobs \ rows
  BY <1>1, <1>2, Facts
<1> QED BY <1>1, <1>2, <1>3 DEF Drops

LEMMA NextHistory ==
  ASSUME LeaseInv, [Next]_vars
  PROVE  \/ UNCHANGED <<done, dropped, processed>>
         \/ \E w \in Workers, r \in jobs : Completes(w, r)
         \/ \E rows : Drops(rows)
<1>1. ASSUME NEW w \in Workers,
             \/ StartReserve(w) \/ CleanupLocks(w) \/ CleanupScan(w) \/ CleanupDelete(w)
             \/ CleanupError(w) \/ Reserve(w) \/ ReserveError(w) \/ Heartbeat(w) \/ SettleError(w)
             \/ \E name \in Queues : SelectJob(w, name) \/ SelectNone(w, name)
      PROVE  UNCHANGED <<done, dropped, processed>>
  BY <1>1 DEF StartReserve, CleanupLocks, CleanupScan, CleanupDelete, CleanupError, SelectJob,
              SelectNone, Reserve, ReserveError, Heartbeat, SettleError, history, tables
<1>2. ASSUME NEW w \in Workers, Fail(w) \/ \E ok \in BOOLEAN : HandlerReturns(w, ok)
      PROVE  UNCHANGED <<done, dropped, processed>>
  BY <1>2 DEF Fail, HandlerReturns, history, tables
<1>3. ASSUME \/ Tick \/ UNCHANGED vars
             \/ \E p \in Procs : Shutdown(p) \/ Exit(p) \/ Crash(p)
             \/ \E name \in Queues : Retry(name)
      PROVE  UNCHANGED <<done, dropped, processed>>
  BY <1>3 DEF Tick, Shutdown, Exit, Crash, Restarted, Retry, vars, history, tables
<1>4. ASSUME NEW q \in Requests, NEW t \in ClockReadings, Dispatch(q, t)
      PROVE  UNCHANGED <<done, dropped, processed>>
  BY <1>4 DEF Dispatch
<1>5. CASE \E w \in Workers :
             WorkerStep(w) \/ Heartbeat(w) \/ CleanupError(w) \/ ReserveError(w) \/ SettleError(w)
  BY <1>1, <1>2, <1>5, CompleteHistory DEF WorkerStep
<1>6. CASE \E name \in Queues : Delete(name)
  BY <1>6, DeleteHistory
<1> QED BY <1>3, <1>4, <1>5, <1>6 DEF Next, Serve

\* Only Dispatch creates a row; only the clock's own step moves it.
LEMMA ServeKeeps == Serve => nextSeq' = nextSeq /\ (now' = now \/ Tick)
<1>1. ASSUME NEW w \in Workers, WorkerStep(w) PROVE UNCHANGED <<nextSeq, now>>
  BY <1>1 DEF WorkerStep, StartReserve, CleanupLocks, CleanupScan, CleanupDelete, SelectJob,
              SelectNone, Reserve, HandlerReturns, Complete, Fail
<1>2. ASSUME NEW w \in Workers, Heartbeat(w) \/ CleanupError(w) \/ ReserveError(w) \/ SettleError(w)
      PROVE  UNCHANGED <<nextSeq, now>>
  BY <1>2 DEF Heartbeat, CleanupError, ReserveError, SettleError
<1>3. ASSUME NEW p \in Procs, Shutdown(p) \/ Exit(p) \/ Crash(p) PROVE UNCHANGED <<nextSeq, now>>
  BY <1>3 DEF Shutdown, Exit, Crash, Restarted
<1>4. ASSUME NEW name \in Queues, Retry(name) \/ Delete(name) PROVE UNCHANGED <<nextSeq, now>>
  BY <1>4 DEF Retry, Delete
<1>5. Tick => nextSeq' = nextSeq
  BY DEF Tick
<1> QED BY <1>1, <1>2, <1>3, <1>4, <1>5 DEF Serve

LEMMA NextCreates ==
  ASSUME LeaseInv, [Next]_vars
  PROVE  \/ nextSeq' = nextSeq
         \/ nextSeq' = nextSeq + 1 /\ \E s \in jobs' : s.seq = nextSeq /\ s.status = "pending"
<1>1. ASSUME NEW q \in Requests, NEW t, Dispatch(q, t)
      PROVE  nextSeq' = nextSeq + 1 /\ \E s \in jobs' : s.seq = nextSeq /\ s.status = "pending"
  <2> DEFINE row == [id |-> chooseJobID(q), req |-> q, seq |-> nextSeq, status |-> "pending",
                     attempts |-> 0, available |-> t + Opt[q].delay, token |-> 0,
                     leased |-> 0, expires |-> 0]
  <2>1. nextSeq' = nextSeq + 1 /\ row \in jobs'
    BY <1>1 DEF Dispatch
  <2>2. row.seq = nextSeq /\ row.status = "pending"
    OBVIOUS
  <2> QED BY <2>1, <2>2
<1>2. CASE Next
  BY <1>1, <1>2, ServeKeeps DEF Next
<1>3. CASE UNCHANGED vars
  BY <1>3 DEF vars
<1> QED BY <1>2, <1>3

\* A row that is still to be done was so before, or is new.
LEMMA UnfinishedStep ==
  ASSUME LeaseInv, [Next]_vars, NEW s \in jobs', s.status # "completed"
  PROVE  \/ \E r \in jobs : r.seq = s.seq /\ r.status # "completed"
         \/ s.seq = nextSeq /\ nextSeq' = nextSeq + 1
<1>1. CASE Created(s)
  BY <1>1 DEF Created
<1>2. ASSUME NEW r \in jobs, Becomes(r, s) PROVE r.seq = s.seq /\ r.status # "completed"
  <2>1. \A w \in Workers : worker[w].pc = "locked" => worker[w].job.status # "completed"
    BY DEF LeaseInv, LockHeld, Eligible, Waiting
  <2> QED BY <1>2, <2>1 DEF Becomes, Settles, Leased
<1> QED BY <1>1, <1>2, NextFollows DEF Follows

\* What the histories hold was accepted; the sets are finite.
Past ==
  /\ nextSeq > 0
  /\ \A name \in Queues : IsFiniteSet(done[name])
  /\ \A n \in Completed \cup dropped : n < nextSeq

SettleInv == LeaseInv /\ Past /\ SettledOnce

LEMMA SettleInit == Init => SettleInv
BY LeaseInit, FS_EmptySet
   DEF Init, SettleInv, Past, SettledOnce, Unfinished, Completed

LEMMA CompletedGrows ==
  ASSUME LeaseInv, NEW w \in Workers, NEW r \in jobs, Completes(w, r)
  PROVE  Completed' = Completed \cup {r.seq}
<1> DEFINE name == Opt[worker[w].job.req].queue
<1>1. name \in Queues /\ done' = [done EXCEPT ![name] = @ \cup {r.seq}]
  BY DEF Completes
<1>2. \A m \in Queues : done'[m] = IF m = name THEN done[m] \cup {r.seq} ELSE done[m]
  BY <1>1, Facts
<1> HIDE DEF name
<1> QED BY <1>1, <1>2 DEF Completed

LEMMA SettleStep == SettleInv /\ [Next]_vars => SettleInv'
<1> SUFFICES ASSUME SettleInv, [Next]_vars PROVE Past' /\ SettledOnce'
  BY LeaseNext DEF SettleInv
<1> USE DEF SettleInv
<1>1. \A n \in Unfinished' : n \in Unfinished \/ (n = nextSeq /\ nextSeq' = nextSeq + 1)
  BY UnfinishedStep DEF Unfinished
<1>2. nextSeq' \in {nextSeq, nextSeq + 1} /\ nextSeq \in Nat
  BY NextCreates, Facts
<1>3. \A n \in Completed \cup dropped : n \in Nat
  BY Facts DEF Completed
<1>4. CASE UNCHANGED <<done, dropped, processed>>
  <2>1. Completed' = Completed
    BY <1>4 DEF Completed
  <2>2. Past'
    BY <1>2, <1>3, <1>4, <2>1 DEF Past
  <2> QED BY <1>1, <1>2, <1>3, <1>4, <2>1, <2>2 DEF Past, SettledOnce
<1>5. ASSUME NEW w \in Workers, NEW r \in jobs, Completes(w, r) PROVE Past' /\ SettledOnce'
  <2> DEFINE name == Opt[worker[w].job.req].queue
  <2>1. /\ name \in Queues /\ r.status = "active"
        /\ done' = [done EXCEPT ![name] = @ \cup {r.seq}]
        /\ processed' = [processed EXCEPT ![name] = @ + 1] /\ UNCHANGED dropped
        /\ \A s \in jobs' : s.seq = r.seq => s.status = "completed"
    BY <1>5 DEF Completes, Leased
  <2>2. r.seq \in Unfinished /\ r.seq < nextSeq /\ r.seq \in Nat
    BY <2>1, Facts DEF Unfinished
  <2>3. Completed' = Completed \cup {r.seq}
    BY <1>5, CompletedGrows
  <2>4. r.seq \notin Completed \cup dropped
    BY <2>2 DEF SettledOnce
  <2>5. r.seq \notin Unfinished'
    BY <2>1 DEF Unfinished
  <2>6. \A m \in Queues : done'[m] = IF m = name THEN done[m] \cup {r.seq} ELSE done[m]
    BY <2>1, Facts
  <2>7. \A m \in Queues : processed'[m] = IF m = name THEN processed[m] + 1 ELSE processed[m]
    BY <2>1 DEF LeaseInv, TypeOK
  <2>8. /\ IsFiniteSet(done[name] \cup {r.seq})
        /\ Cardinality(done[name] \cup {r.seq}) = Cardinality(done[name]) + 1
    <3>1. r.seq \notin done[name] /\ IsFiniteSet(done[name])
      BY <2>1, <2>4 DEF Completed, Past
    <3> QED BY <3>1, FS_AddElement
  <2>9. Past'
    <3>1. \A n \in Completed' \cup dropped' : n \in Nat /\ n < nextSeq
      BY <1>3, <2>1, <2>2, <2>3 DEF Past
    <3>2. \A n \in Completed' \cup dropped' : n < nextSeq'
      BY <1>2, <3>1
    <3>3. \A m \in Queues : IsFiniteSet(done'[m])
      BY <2>6, <2>8 DEF Past
    <3>4. nextSeq' > 0
      BY <1>2 DEF Past
    <3> QED BY <3>2, <3>3, <3>4 DEF Past
  <2>10. \A m \in Queues : processed'[m] = Cardinality(done'[m])
    BY <2>6, <2>7, <2>8 DEF SettledOnce
  <2>11. Unfinished' \cap (Completed' \cup dropped') = {} /\ Completed' \cap dropped' = {}
    BY <1>1, <1>2, <1>3, <2>1, <2>3, <2>4, <2>5 DEF SettledOnce, Past
  <2> QED BY <2>9, <2>10, <2>11 DEF SettledOnce
<1>6. ASSUME NEW rows, Drops(rows) PROVE Past' /\ SettledOnce'
  <2> DEFINE seqs == {r.seq : r \in rows}
  <2>1. dropped' = dropped \cup seqs /\ jobs' = jobs \ rows /\ UNCHANGED <<done, processed>>
    BY <1>6 DEF Drops
  <2>2. \A n \in seqs : n \in Unfinished /\ n < nextSeq /\ n \in Nat
    BY <1>6, Facts DEF Drops, Unfinished
  <2>3. \A n \in seqs : n \notin Unfinished'
    BY <1>6, <2>1, Facts DEF Drops, Unfinished
  <2>4. Completed' = Completed
    BY <2>1 DEF Completed
  <2> HIDE DEF seqs
  <2>5. Past'
    BY <1>2, <1>3, <2>1, <2>2, <2>4 DEF Past
  <2>6. Unfinished' \cap (Completed' \cup dropped') = {} /\ Completed' \cap dropped' = {}
    BY <1>1, <1>2, <1>3, <2>1, <2>2, <2>3, <2>4 DEF SettledOnce, Past
  <2> QED BY <2>1, <2>5, <2>6 DEF SettledOnce
<1> QED BY <1>4, <1>5, <1>6, NextHistory

\* Nothing is run again that was completed or deleted by an operator, and each
\* completion is counted once, whatever late or repeated settlements there are.
THEOREM JobsSettleOnce == Spec => []SettledOnce
<1>1. SettleInv => SettledOnce
  BY DEF SettleInv
<1> QED BY SettleInit, SettleStep, <1>1, PTL DEF Spec

-----------------------------------------------------------------------------
(* Cleanups that spare the jobs of others.                                 *)

\* What CleanupSparesOthers says of a step.
Spares ==
  \A w \in Workers : worker[w].pc = "delete" /\ worker'[w] # worker[w] =>
    \A r \in jobs \ jobs' : r.status = "completed" /\ r.expires <= now

\* A row that is still to be done is there after the step, or its job is done
\* or dropped.
LEMMA UnfinishedStays ==
  ASSUME LeaseInv, [Next]_vars, Spares, NEW r \in jobs, r.status # "completed"
  PROVE  r.seq \in Unfinished' \cup Completed' \cup dropped'
<1>1. ASSUME NEW w \in Workers, Settles(w, r), r.seq \in done'[Opt[worker[w].job.req].queue]
      PROVE  r.seq \in Completed'
  <2>1. worker[w].job \in Row
    BY <1>1, Facts DEF Settles, Holding
  <2>2. Opt[worker[w].job.req].queue \in Queues
    BY <2>1, OptAssumption DEF Row, Options
  <2> QED BY <1>1, <2>2 DEF Completed
<1>2. ASSUME NEW s \in jobs', Becomes(r, s) PROVE r.seq \in Unfinished' \cup Completed'
  <2>1. CASE s.status = "completed"
    <3>1. PICK w \in Workers : Settles(w, r) /\ r.seq \in done'[Opt[worker[w].job.req].queue]
      BY <1>2, <2>1 DEF Becomes
    <3> QED BY <1>1, <3>1
  <2>2. CASE s.status # "completed"
    BY <1>2, <2>2 DEF Becomes, Unfinished
  <2> QED BY <2>1, <2>2
<1>3. ASSUME r \notin jobs', Gone(r) PROVE r.seq \in Completed' \cup dropped'
  BY <1>1, <1>3 DEF Gone, Spares
<1>4. r \in jobs' => r.seq \in Unfinished'
  BY DEF Unfinished
<1> QED BY <1>2, <1>3, <1>4, NextFollows DEF Follows

LEMMA HistoryGrows ==
  ASSUME LeaseInv, [Next]_vars
  PROVE  /\ Completed \subseteq Completed' /\ dropped \subseteq dropped'
         /\ \A n \in Completed' \cup dropped' : n \in Unfinished \cup Completed \cup dropped
<1>1. CASE UNCHANGED <<done, dropped, processed>>
  BY <1>1 DEF Completed
<1>2. ASSUME NEW w \in Workers, NEW r \in jobs, Completes(w, r)
      PROVE  Completed' = Completed \cup {r.seq} /\ r.seq \in Unfinished /\ dropped' = dropped
  BY <1>2, CompletedGrows DEF Completes, Leased, Unfinished
<1>3. ASSUME NEW rows, Drops(rows)
      PROVE  /\ Completed' = Completed /\ dropped' = dropped \cup {r.seq : r \in rows}
             /\ \A r \in rows : r.seq \in Unfinished
  BY <1>3 DEF Drops, Completed, Unfinished
<1> QED BY <1>1, <1>2, <1>3, NextHistory

LEMMA LostStep == SettleInv /\ NoLostJob /\ [Next]_vars /\ [Spares]_vars => NoLostJob'
<1> SUFFICES ASSUME SettleInv, NoLostJob, [Next]_vars, [Spares]_vars PROVE NoLostJob'
  OBVIOUS
<1>1. CASE UNCHANGED vars
  BY <1>1 DEF vars, tables, history, NoLostJob, Accepted, Unfinished, Completed
<1>2. CASE Spares
  <2>1. LeaseInv /\ nextSeq \in Nat /\ nextSeq > 0
    BY Facts DEF SettleInv, Past
  <2>2. ASSUME NEW n \in Unfinished' \cup Completed' \cup dropped' PROVE n \in Accepted'
    <3>1. n \in Unfinished \cup Completed \cup dropped \/ (n = nextSeq /\ nextSeq' = nextSeq + 1)
      <4>1. CASE n \in Unfinished'
        <5>1. PICK s \in jobs' : s.status # "completed" /\ n = s.seq
          BY <4>1 DEF Unfinished
        <5> QED BY <2>1, <5>1, UnfinishedStep DEF Unfinished
      <4>2. CASE n \in Completed' \cup dropped'
        BY <2>1, <4>2, HistoryGrows
      <4> QED BY <4>1, <4>2
    <3>2. n \in Accepted \/ (n = nextSeq /\ nextSeq' = nextSeq + 1)
      BY <3>1 DEF NoLostJob
    <3> QED BY <2>1, <3>2, NextCreates DEF Accepted
  <2>3. ASSUME NEW n \in Accepted' PROVE n \in Unfinished' \cup Completed' \cup dropped'
    <3>1. CASE n \in Accepted
      <4>1. CASE n \in Unfinished
        <5>1. PICK r \in jobs : r.status # "completed" /\ r.seq = n
          BY <4>1 DEF Unfinished
        <5> QED BY <1>2, <2>1, <5>1, UnfinishedStays
      <4>2. CASE n \in Completed \cup dropped
        BY <2>1, <4>2, HistoryGrows
      <4> QED BY <3>1, <4>1, <4>2 DEF NoLostJob
    <3>2. CASE n \notin Accepted
      <4>1. n = nextSeq /\ nextSeq' = nextSeq + 1
        BY <2>1, <3>2, NextCreates DEF Accepted
      <4>2. PICK s \in jobs' : s.seq = nextSeq /\ s.status = "pending"
        BY <2>1, <4>1, NextCreates
      <4> QED BY <4>1, <4>2 DEF Unfinished
    <3> QED BY <3>1, <3>2
  <2> QED BY <2>2, <2>3 DEF NoLostJob
<1> QED BY <1>1, <1>2

\* No accepted job is lost, whatever crashes, faults and operators do, as long
\* as the cleanup deletes nothing but expired completed jobs.
THEOREM NothingLost == Spec /\ CleanupSparesOthers => []NoLostJob
<1>1. Init => NoLostJob
  BY DEF Init, NoLostJob, Accepted, Unfinished, Completed
<1>2. [\A w \in Workers : worker[w].pc = "delete" /\ worker'[w] # worker[w] =>
         \A r \in jobs \ jobs' : r.status = "completed" /\ r.expires <= now]_vars => [Spares]_vars
  BY DEF Spares
<1> QED BY SettleInit, SettleStep, LostStep, <1>1, <1>2, PTL DEF Spec, CleanupSparesOthers

\* What OwnerSettles says of a step.
ByOwner ==
  \A r \in jobs : r.status = "active" /\ r.leased > now /\ r \notin jobs' =>
    \E w \in Workers : /\ worker[w].pc \in Holding
                       /\ worker[w].job.token = r.token
                       /\ worker'[w] # worker[w]

LEMMA OwnerStep == LeaseInv /\ [Next]_vars /\ [Spares]_vars => [ByOwner]_vars
<1> SUFFICES ASSUME LeaseInv, [Next]_vars, Spares,
                    NEW r \in jobs, r.status = "active", r.leased > now, r \notin jobs'
             PROVE  \E w \in Workers : /\ worker[w].pc \in Holding
                                       /\ worker[w].job.token = r.token
                                       /\ worker'[w] # worker[w]
  BY DEF ByOwner
<1>1. ASSUME NEW w \in Workers, Settles(w, r)
      PROVE  worker[w].pc \in Holding /\ worker[w].job.token = r.token /\ worker'[w] # worker[w]
  BY <1>1, IdleType DEF Settles, Leased, Holding
<1>2. ASSUME NEW w \in Workers, worker[w].pc = "locked" PROVE worker[w].job # r
  <2>1. worker[w].at <= now /\ worker[w].at \in Nat /\ now \in Nat /\ r.leased \in Nat
    BY Facts DEF LeaseInv, LockHeld, WorkerState, Row
  <2> QED BY <1>2, <2>1 DEF LeaseInv, LockHeld, Eligible, Waiting
<1>3. CASE Gone(r)
  BY <1>1, <1>3 DEF Gone, Spares
<1>4. ASSUME NEW s \in jobs', Becomes(r, s)
      PROVE  \E w \in Workers : /\ worker[w].pc \in Holding
                                /\ worker[w].job.token = r.token
                                /\ worker'[w] # worker[w]
  BY <1>1, <1>2, <1>4 DEF Becomes, Leased
<1> QED BY <1>3, <1>4, NextFollows DEF Follows

\* An active row whose lease lasts is changed only by the worker that holds its
\* token, as long as the cleanup deletes nothing but expired completed jobs.
THEOREM OwnersSettle == Spec /\ CleanupSparesOthers => OwnerSettles
<1>1. [\A w \in Workers : worker[w].pc = "delete" /\ worker'[w] # worker[w] =>
         \A r \in jobs \ jobs' : r.status = "completed" /\ r.expires <= now]_vars => [Spares]_vars
  BY DEF Spares
<1>2. [ByOwner]_vars =>
      [\A r \in jobs : r.status = "active" /\ r.leased > now /\ r \notin jobs' =>
         \E w \in Workers : /\ worker[w].pc \in Holding
                            /\ worker[w].job.token = r.token
                            /\ worker'[w] # worker[w]]_vars
  BY DEF ByOwner
<1> QED BY LeaseInit, LeaseNext, OwnerStep, <1>1, <1>2, PTL DEF Spec, CleanupSparesOthers, OwnerSettles

-----------------------------------------------------------------------------
(* Which jobs cleanups spare.                                              *)

\* A row has the id of its creation, or the task ID of its request.
KeptRows ==
  /\ \A r \in jobs : r.id = IF Opt[r.req].task = NoTask THEN r.seq ELSE Opt[r.req].task
  /\ \A r \in jobs : r.status = "completed" => Opt[r.req].retention > 0

\* What a scan found is still as it was, or gone, but under ids of S.
ExpiredBut(S) ==
  \A w \in Workers : worker[w].pc = "delete" =>
    \A r \in jobs : r.id \in worker[w].ids \ S => r.status = "completed" /\ r.expires <= now

\* The other ids a scan found are uuids, which are never used again.
Scanned ==
  \A w \in Workers : worker[w].pc = "delete" =>
    \A i \in worker[w].ids \ KeptIDs : i \in Nat /\ i < nextSeq

KeptInv == LeaseInv /\ Snapshot /\ KeptRows /\ ExpiredBut(KeptIDs) /\ Scanned

LEMMA KeptRowsStep ==
  ASSUME LeaseInv, Snapshot, KeptRows, [Next]_vars
  PROVE  KeptRows'
<1>1. ASSUME NEW s \in jobs', Created(s)
      PROVE  /\ s.id = IF Opt[s.req].task = NoTask THEN s.seq ELSE Opt[s.req].task
             /\ s.status # "completed"
  BY <1>1, OptAssumption DEF Created, chooseJobID, Options
<1>2. ASSUME NEW s \in jobs', NEW r \in jobs, Becomes(r, s)
      PROVE  /\ s.id = IF Opt[s.req].task = NoTask THEN s.seq ELSE Opt[s.req].task
             /\ s.status = "completed" => Opt[s.req].retention > 0
  <2>1. s.id = r.id /\ s.seq = r.seq /\ s.req = r.req
    BY <1>2 DEF Becomes
  <2>2. ASSUME s.status = "completed", s # r PROVE Opt[s.req].retention > 0
    <3>1. PICK w \in Workers : Settles(w, r) /\ Opt[worker[w].job.req].retention > 0
      BY <1>2, <2>2 DEF Becomes
    <3>2. r.req = worker[w].job.req
      BY <3>1 DEF Settles, Holding, Snapshot
    <3> QED BY <2>1, <3>1, <3>2
  <2> QED BY <2>1, <2>2 DEF KeptRows
<1> QED BY <1>1, <1>2, NextFollows DEF Follows, KeptRows

\* Where the ids of a cleanup come from, and that the clock does not go back.
LEMMA DeletersStep ==
  ASSUME LeaseInv, [Next]_vars
  PROVE  /\ now' >= now
         /\ \A v \in Workers : worker'[v].pc = "delete" =>
              \/ worker'[v] = worker[v]
              \/ /\ UNCHANGED <<jobs, now, nextSeq>>
                 /\ \A i \in worker'[v].ids :
                      \E r \in jobs : r.id = i /\ r.status = "completed" /\ r.expires <= now
<1>t. now \in Nat
  BY Facts
<1>1. ASSUME NEW w \in Workers, CleanupScan(w)
      PROVE  /\ UNCHANGED <<jobs, now, nextSeq>>
             /\ \A v \in Workers : v = w \/ worker'[v] = worker[v]
             /\ worker'[w].pc = "delete" => \A i \in worker'[w].ids :
                  \E r \in jobs : r.id = i /\ r.status = "completed" /\ r.expires <= now
  <2>1. PICK found \in SUBSET CompletedBefore(worker[w].at) :
          worker' = [worker EXCEPT ![w] =
            [@ EXCEPT !.pc = IF found = {} THEN "reserve" ELSE "delete",
                      !.ids = {r.id : r \in found}]]
    BY <1>1 DEF CleanupScan
  <2>2. worker'[w].ids = {r.id : r \in found} /\ \A v \in Workers : v = w \/ worker'[v] = worker[v]
    BY <2>1, Facts DEF WorkerState
  <2>3. \A r \in found : r \in jobs /\ r.status = "completed" /\ r.expires <= now
    <3>1. worker[w].at <= now /\ worker[w].at \in Nat /\ now \in Nat
      BY Facts DEF LeaseInv, LockHeld, WorkerState
    <3>2. \A r \in jobs : r.expires \in Nat
      BY Facts DEF Row
    <3> QED BY <3>1, <3>2 DEF CompletedBefore
  <2>4. UNCHANGED <<jobs, now, nextSeq>>
    BY <1>1 DEF CleanupScan, tables
  <2> QED BY <2>2, <2>3, <2>4
<1>2. ASSUME NEW w \in Workers,
             \/ WorkerStep(w) \/ Heartbeat(w) \/ CleanupError(w) \/ ReserveError(w) \/ SettleError(w),
             ~CleanupScan(w)
      PROVE  now' = now /\ \A v \in Workers : v # w => worker'[v] = worker[v]
  BY <1>2, Facts
     DEF WorkerStep, StartReserve, CleanupLocks, CleanupDelete, CleanupError, SelectJob, SelectNone,
         Reserve, ReserveError, Heartbeat, HandlerReturns, Complete, Fail, SettleError
<1>3. ASSUME NEW w \in Workers,
             \/ WorkerStep(w) \/ Heartbeat(w) \/ CleanupError(w) \/ ReserveError(w) \/ SettleError(w),
             ~CleanupScan(w)
      PROVE  worker'[w].pc # "delete"
  <2>u. worker \in [Workers -> WorkerState] /\ worker[w] \in WorkerState
    BY Facts
  <2>1. CASE StartReserve(w)
    BY <2>u, <2>1 DEF StartReserve, Idle
  <2>2. CASE CleanupLocks(w)
    BY <2>u, <2>2 DEF CleanupLocks, WorkerState
  <2>8. CASE CleanupDelete(w)
    BY <2>u, <2>8 DEF CleanupDelete, WorkerState
  <2>9. CASE CleanupError(w)
    BY <2>u, <2>9 DEF CleanupError, WorkerState
  <2>3. CASE \E name \in Queues : SelectJob(w, name)
    BY <2>u, <2>3 DEF SelectJob, WorkerState
  <2>4. CASE \/ \E name \in Queues : SelectNone(w, name)
             \/ Complete(w) \/ Fail(w) \/ SettleError(w) \/ ReserveError(w)
    <3>1. worker' = [worker EXCEPT ![w] = Idle]
      BY <2>4 DEF SelectNone, Complete, Fail, SettleError, ReserveError
    <3> QED BY <2>u, <3>1 DEF Idle
  <2>5. CASE Reserve(w)
    BY <2>u, <2>5 DEF Reserve, Idle
  <2>6. CASE Heartbeat(w)
    BY <2>u, <2>6 DEF Heartbeat, Holding, WorkerState
  <2>7. CASE \E ok \in BOOLEAN : HandlerReturns(w, ok)
    BY <2>u, <2>7 DEF HandlerReturns, WorkerState
  <2> QED BY <1>3, <2>1, <2>2, <2>3, <2>4, <2>5, <2>6, <2>7, <2>8, <2>9 DEF WorkerStep
<1>4. ASSUME NEW p \in Procs, Exit(p) \/ Crash(p)
      PROVE  now' = now /\ \A v \in Workers : worker'[v].pc = "delete" => worker'[v] = worker[v]
  BY <1>4 DEF Exit, Crash, Restarted, Idle
<1> DEFINE Deletes(v) ==
             worker'[v].pc = "delete" =>
               \/ worker'[v] = worker[v]
               \/ /\ UNCHANGED <<jobs, now, nextSeq>>
                  /\ \A i \in worker'[v].ids :
                       \E r \in jobs : r.id = i /\ r.status = "completed" /\ r.expires <= now
<1>7. ASSUME NEW w \in Workers,
             WorkerStep(w) \/ Heartbeat(w) \/ CleanupError(w) \/ ReserveError(w) \/ SettleError(w)
      PROVE  now' = now /\ \A v \in Workers : Deletes(v)
  <2>1. CASE CleanupScan(w)
    BY <1>1, <2>1
  <2>2. CASE ~CleanupScan(w)
    BY <1>2, <1>3, <1>7, <2>2
  <2> QED BY <2>1, <2>2
<1>8. ASSUME UNCHANGED worker, now' \in {now, now + 1}
      PROVE  now' >= now /\ \A v \in Workers : Deletes(v)
  BY <1>t, <1>8
<1>9. ASSUME NEW p \in Procs, Exit(p) \/ Crash(p) PROVE now' >= now /\ \A v \in Workers : Deletes(v)
  BY <1>t, <1>4, <1>9
<1> HIDE DEF Deletes
<1>15. ASSUME NEW p \in Procs, Shutdown(p) PROVE now' >= now /\ \A v \in Workers : Deletes(v)
  BY <1>8, <1>15 DEF Shutdown
<1>10. ASSUME Tick PROVE now' >= now /\ \A v \in Workers : Deletes(v)
  BY <1>8, <1>10 DEF Tick
<1>11. ASSUME NEW name \in Queues, Retry(name) \/ Delete(name)
       PROVE  now' >= now /\ \A v \in Workers : Deletes(v)
  BY <1>8, <1>11 DEF Retry, Delete
<1>12. ASSUME NEW q \in Requests, NEW t, Dispatch(q, t)
       PROVE  now' >= now /\ \A v \in Workers : Deletes(v)
  BY <1>8, <1>12 DEF Dispatch
<1>13. ASSUME UNCHANGED vars PROVE now' >= now /\ \A v \in Workers : Deletes(v)
  BY <1>8, <1>13 DEF vars
<1>16. ASSUME Serve PROVE now' >= now /\ \A v \in Workers : Deletes(v)
  BY <1>t, <1>7, <1>9, <1>10, <1>11, <1>15, <1>16 DEF Serve
<1>17. ASSUME \E q \in Requests, t \in ClockReadings : Dispatch(q, t)
       PROVE  now' >= now /\ \A v \in Workers : Deletes(v)
  BY <1>12, <1>17
<1>14. now' >= now /\ \A v \in Workers : Deletes(v)
  BY <1>13, <1>16, <1>17 DEF Next
<1> QED BY <1>14 DEF Deletes

\* An expired completed row changes no more.
LEMMA StaysExpired ==
  ASSUME LeaseInv, [Next]_vars, NEW s \in jobs', ~Created(s),
         \A r \in jobs : r.id = s.id => r.status = "completed" /\ r.expires <= now
  PROVE  s.status = "completed" /\ s.expires <= now'
<1>1. PICK r \in jobs : Becomes(r, s)
  BY NextFollows DEF Follows
<1>2. r.status = "completed" /\ r.expires <= now /\ r.expires \in Nat
  BY <1>1, Facts DEF Becomes, Row
<1>3. s = r
  <2>1. \A v \in Workers : worker[v].pc = "locked" => worker[v].job # r
    BY <1>2 DEF LeaseInv, LockHeld, Eligible, Waiting
  <2> QED BY <1>1, <1>2, <2>1 DEF Becomes, Settles, Leased
<1>4. now \in Nat /\ now' \in Nat /\ now' >= now
  BY Facts, DeletersStep, LeaseNext DEF LeaseInv, TypeOK
<1> QED BY <1>2, <1>3, <1>4

\* A worker has such rows only before it, as long as none is created under an ID
\* that a worker has before it.
LEMMA ExpiredStep ==
  ASSUME NEW CONSTANT S, LeaseInv, ExpiredBut(S), [Next]_vars,
         \A s \in jobs' : Created(s) =>
           \A w \in Workers : worker[w].pc = "delete" => s.id \notin worker[w].ids \ S
  PROVE  ExpiredBut(S)'
<1> SUFFICES ASSUME NEW w \in Workers, worker'[w].pc = "delete",
                    NEW s \in jobs', s.id \in worker'[w].ids \ S
             PROVE  s.status = "completed" /\ s.expires <= now'
  BY DEF ExpiredBut
<1>1. CASE worker'[w] = worker[w]
  <2>1. ~Created(s)
    BY <1>1
  <2>2. \A r \in jobs : r.id = s.id => r.status = "completed" /\ r.expires <= now
    BY <1>1 DEF ExpiredBut
  <2> QED BY <2>1, <2>2, StaysExpired
<1>2. ASSUME UNCHANGED <<jobs, now, nextSeq>>, NEW r \in jobs, r.id = s.id,
             r.status = "completed", r.expires <= now
      PROVE  s.status = "completed" /\ s.expires <= now'
  <2>1. s = r
    BY <1>2, Facts
  <2> QED BY <1>2, <2>1
<1> QED BY <1>1, <1>2, DeletersStep

LEMMA ScannedStep ==
  ASSUME KeptInv, [Next]_vars
  PROVE  Scanned' /\ ExpiredBut(KeptIDs)'
<1>i. LeaseInv /\ KeptRows /\ ExpiredBut(KeptIDs) /\ Scanned
  BY DEF KeptInv
<1>t. nextSeq \in Nat /\ nextSeq' \in {nextSeq, nextSeq + 1}
  BY <1>i, Facts, NextCreates
<1>1. ASSUME NEW w \in Workers, worker'[w].pc = "delete", NEW i \in worker'[w].ids \ KeptIDs
      PROVE  i \in Nat /\ i < nextSeq'
  <2>1. CASE worker'[w] = worker[w]
    BY <1>i, <1>t, <1>1, <2>1 DEF Scanned
  <2>2. CASE nextSeq' = nextSeq /\ \E r \in jobs : r.id = i /\ r.status = "completed"
    <3>1. PICK r \in jobs : r.id = i /\ r.status = "completed"
      BY <2>2
    <3>2. Opt[r.req].retention > 0 /\ r.req \in Requests
      BY <1>i, <3>1, Facts DEF KeptRows, Row
    <3>3. CASE Opt[r.req].task = NoTask
      BY <1>i, <2>2, <3>1, <3>3, Facts DEF KeptRows
    <3>4. CASE Opt[r.req].task # NoTask
      <4>1. i = Opt[r.req].task /\ i \in TaskIDs
        BY <1>i, <3>1, <3>2, <3>4, OptAssumption DEF KeptRows, Options
      <4> QED BY <1>1, <3>2, <4>1 DEF KeptIDs
    <3> QED BY <3>3, <3>4
  <2> QED BY <1>i, <1>1, <2>1, <2>2, DeletersStep
<1>2. ASSUME NEW s \in jobs', Created(s), NEW w \in Workers, worker[w].pc = "delete"
      PROVE  s.id \notin worker[w].ids \ KeptIDs
  <2>1. s.id = nextSeq \/ s.id \in TaskIDs
    BY <1>2, OptAssumption DEF Created, chooseJobID, Options
  <2> QED BY <1>i, <1>t, <1>2, <2>1, IdAssumption DEF Scanned
<1>3. ExpiredBut(KeptIDs)'
  BY <1>i, <1>2, ExpiredStep
<1> QED BY <1>1, <1>3 DEF Scanned

\* Only its own step takes a worker out of a cleanup, or its process's end.
LEMMA DeleterStep ==
  ASSUME LeaseInv, [Next]_vars, NEW w \in Workers, worker[w].pc = "delete", worker'[w] # worker[w]
  PROVE  UNCHANGED jobs \/ CleanupDelete(w)
<1>u. worker \in [Workers -> WorkerState]
  BY Facts
<1>1. ASSUME NEW v \in Workers,
             \/ WorkerStep(v) \/ Heartbeat(v) \/ CleanupError(v) \/ ReserveError(v) \/ SettleError(v)
      PROVE  UNCHANGED jobs \/ CleanupDelete(w)
  <2>1. v # w => worker'[w] = worker[w]
    BY <1>1, <1>u
       DEF WorkerStep, StartReserve, CleanupLocks, CleanupScan, CleanupDelete, CleanupError,
           SelectJob, SelectNone, Reserve, ReserveError, Heartbeat, HandlerReturns, Complete,
           Fail, SettleError
  <2>2. WorkerStep(w) \/ Heartbeat(w) \/ CleanupError(w) \/ ReserveError(w) \/ SettleError(w)
    BY <1>1, <2>1
  <2> QED
    BY <2>2
       DEF WorkerStep, StartReserve, CleanupLocks, CleanupScan, CleanupError,
           SelectJob, SelectNone, Reserve, ReserveError, Heartbeat, Holding, HandlerReturns,
           Complete, Fail, SettleError, tables
<1>2. ASSUME NEW p \in Procs, Exit(p) \/ Crash(p) PROVE UNCHANGED jobs
  BY <1>2 DEF Exit, Crash, Restarted, tables
<1> QED
  BY <1>1, <1>2 DEF Next, Serve, Tick, Shutdown, Retry, Delete, Dispatch, vars

\* What a cleanup deletes, it has the id of.
LEMMA DeletesItsIds ==
  ASSUME LeaseInv, [Next]_vars, NEW S, ExpiredBut(S), NEW w \in Workers,
         worker[w].pc = "delete", worker'[w] # worker[w], NEW r \in jobs, r \notin jobs'
  PROVE  (r.status = "completed" /\ r.expires <= now) \/ r.id \in S
<1>1. CleanupDelete(w)
  BY DeleterStep
<1>2. r.id \in worker[w].ids
  BY <1>1 DEF CleanupDelete
<1> QED BY <1>2 DEF ExpiredBut

LEMMA SparesStep == LeaseInv /\ ExpiredBut({}) /\ [Next]_vars => [Spares]_vars
BY DeletesItsIds DEF Spares

\* What CleanupTakesKept says of a step.
TakesKept ==
  \A w \in Workers : worker[w].pc = "delete" /\ worker'[w] # worker[w] =>
    \A r \in jobs \ jobs' :
      (r.status = "completed" /\ r.expires <= now) \/ r.id \in KeptIDs

LEMMA InitKept == Init => KeptInv
BY LeaseInit
   DEF Init, KeptInv, Snapshot, KeptRows, Scanned, ExpiredBut, Idle, Holding

LEMMA KeptStep == KeptInv /\ [Next]_vars => KeptInv'
BY LeaseNext, SnapshotStep, KeptRowsStep, ScannedStep DEF KeptInv

LEMMA TakesKeptStep == KeptInv /\ [Next]_vars => [TakesKept]_vars
BY DeletesItsIds DEF KeptInv, TakesKept

\* Whatever happens between the scan of a cleanup and its delete, a job that is
\* not completed and expired is taken only under a task ID that keeps its rows.
THEOREM CleanupsTakeKept == Spec => CleanupTakesKept
<1>1. [TakesKept]_vars =>
      [\A w \in Workers : worker[w].pc = "delete" /\ worker'[w] # worker[w] =>
         \A r \in jobs \ jobs' :
           (r.status = "completed" /\ r.expires <= now) \/ r.id \in KeptIDs]_vars
  BY DEF TakesKept
<1> QED BY <1>1, InitKept, KeptStep, TakesKeptStep, PTL DEF Spec, CleanupTakesKept

\* No request that names a task ID has its completed job kept.
KeptIdsUnique == \A q \in Requests : Opt[q].task = NoTask \/ Opt[q].retention = 0

\* Then the cleanup deletes expired completed jobs and no others: a scanned ID is
\* never used again.
THEOREM CleanupsSpare == KeptIdsUnique /\ Spec => CleanupSparesOthers
<1> SUFFICES ASSUME KeptIdsUnique PROVE Spec => CleanupSparesOthers
  OBVIOUS
<1>1. KeptIDs = {}
  BY IdAssumption DEF KeptIdsUnique, KeptIDs
<1>2. [TakesKept]_vars =>
      [\A w \in Workers : worker[w].pc = "delete" /\ worker'[w] # worker[w] =>
         \A r \in jobs \ jobs' : r.status = "completed" /\ r.expires <= now]_vars
  BY <1>1 DEF TakesKept
<1> QED BY <1>2, InitKept, KeptStep, TakesKeptStep, PTL DEF Spec, CleanupSparesOthers

-----------------------------------------------------------------------------
(* The queue implements JobLifecycle.                                      *)

\* Creation numbers are those JobLifecycle counts its jobs by.
Numbered ==
  /\ nextSeq \in 1..(MaxDispatch + 1)
  /\ \A r \in jobs : r.seq \in 1..(nextSeq - 1)

RefineInv == SettleInv /\ Numbered

LEMMA NumberedStep == RefineInv /\ [Next]_vars => Numbered'
<1> SUFFICES ASSUME RefineInv, [Next]_vars PROVE Numbered'
  OBVIOUS
<1>1. LeaseInv /\ nextSeq \in 1..(MaxDispatch + 1) /\ MaxDispatch \in Nat
  BY BoundAssumption DEF RefineInv, SettleInv, Numbered
<1>2. nextSeq' \in {nextSeq, nextSeq + 1}
  BY <1>1, NextCreates
<1>3. nextSeq' # nextSeq => nextSeq <= MaxDispatch
  <2>1. ASSUME NEW q \in Requests, NEW t, Dispatch(q, t) PROVE nextSeq <= MaxDispatch
    BY <2>1 DEF Dispatch
  <2>2. CASE Serve
    BY <2>2, ServeKeeps
  <2>3. CASE UNCHANGED vars
    BY <2>3 DEF vars
  <2> QED BY <2>1, <2>2, <2>3 DEF Next
<1>4. ASSUME NEW s \in jobs' PROVE s.seq \in 1..(nextSeq' - 1)
  <2>1. CASE Created(s)
    BY <1>1, <2>1 DEF Created
  <2>2. ASSUME NEW r \in jobs, Becomes(r, s) PROVE s.seq \in 1..(nextSeq' - 1)
    BY <1>1, <1>2, <2>2 DEF Becomes, RefineInv, Numbered
  <2> QED BY <1>1, <2>1, <2>2, NextFollows DEF Follows
<1> QED BY <1>1, <1>2, <1>3, <1>4 DEF Numbered

LEMMA RefineStep == RefineInv /\ [Next]_vars => RefineInv'
BY SettleStep, NumberedStep DEF RefineInv

LEMMA RefineInit == Init => RefineInv
BY SettleInit, BoundAssumption DEF Init, RefineInv, Numbered

\* The state JobLifecycle gives a job whose row is still to be done.
Stage(status) ==
  CASE status \in Waiting -> "waiting" [] status = "active" -> "active" [] OTHER -> "failed"

\* What the mapping shows of the tables: the state of each kind of job, and who
\* may own one.
Shown ==
  /\ \A j \in Jobs : j >= nextSeq => stateOf(j) = "none"
  /\ \A j \in Jobs : j \in Completed => stateOf(j) = "done"
  /\ \A j \in Jobs : j \in dropped => stateOf(j) = "dropped"
  /\ \A r \in jobs : r.status # "completed" => stateOf(r.seq) = Stage(r.status)
  /\ \A r \in jobs : r.seq \in Jobs

OwnersApart ==
  /\ \A j \in Jobs : \A w \in Owners(j) :
       worker[w].job.seq = j /\ stateOf(j) = "active" /\ Owners(j) = {w}
  /\ \A j \in Jobs : Owners(j) \subseteq Workers

LEMMA ShownHolds == RefineInv => Shown
<1> SUFFICES ASSUME RefineInv PROVE Shown
  OBVIOUS
<1>t. /\ LeaseInv /\ nextSeq \in Nat /\ nextSeq > 0 /\ MaxDispatch \in Nat
      /\ nextSeq <= MaxDispatch + 1
  BY BoundAssumption DEF RefineInv, SettleInv, Numbered
<1>1. ASSUME NEW r \in jobs PROVE r.seq \in Jobs
  BY <1>t DEF RefineInv, Numbered, Jobs
<1>2. ASSUME NEW j \in Jobs, j \in Completed \cup dropped
      PROVE  ~(j >= nextSeq) /\ ~(j \in Completed /\ j \in dropped)
  BY <1>t, <1>2 DEF RefineInv, SettleInv, Past, SettledOnce, Jobs
<1>3. ASSUME NEW r \in jobs
      PROVE  /\ ~(r.seq >= nextSeq)
             /\ r.seq \in Completed \cup dropped => r.status = "completed"
  BY <1>t DEF RefineInv, SettleInv, SettledOnce, Unfinished, Numbered
<1>4. ASSUME NEW j \in Jobs, j >= nextSeq PROVE stateOf(j) = "none"
  <2>1. j \notin Completed \cup dropped /\ \A r \in jobs : r.seq # j
    BY <1>4, <1>2, <1>3
  <2> QED BY <1>4, <2>1, Zenon DEF stateOf
<1>5. ASSUME NEW j \in Jobs, j \in Completed PROVE stateOf(j) = "done"
  <2>1. ~(j >= nextSeq) /\ j \notin dropped
    BY <1>2, <1>5
  <2>2. \A r \in jobs : r.seq = j => r.status = "completed"
    BY <1>5, <1>3
  <2>3. /\ ~\E r \in jobs : r.seq = j /\ r.status \in Waiting
        /\ ~\E r \in jobs : r.seq = j /\ r.status = "active"
        /\ ~\E r \in jobs : r.seq = j /\ r.status = "failed"
    BY <2>2 DEF Waiting
  <2> QED BY <1>5, <2>1, <2>3, Zenon DEF stateOf
<1>6. ASSUME NEW j \in Jobs, j \in dropped PROVE stateOf(j) = "dropped"
  <2>1. ~(j >= nextSeq) /\ j \notin Completed
    BY <1>2, <1>6
  <2>2. \A r \in jobs : r.seq = j => r.status = "completed"
    BY <1>6, <1>3
  <2>3. /\ ~\E r \in jobs : r.seq = j /\ r.status \in Waiting
        /\ ~\E r \in jobs : r.seq = j /\ r.status = "active"
        /\ ~\E r \in jobs : r.seq = j /\ r.status = "failed"
    BY <2>2 DEF Waiting
  <2> QED BY <1>6, <2>1, <2>3, Zenon DEF stateOf
<1>7. ASSUME NEW r \in jobs, r.status # "completed" PROVE stateOf(r.seq) = Stage(r.status)
  <2>1. ~(r.seq >= nextSeq)
    BY <1>t, <1>1 DEF RefineInv, Numbered
  <2>2. r.seq \notin Completed \cup dropped
    BY <1>7 DEF RefineInv, SettleInv, SettledOnce, Unfinished
  <2>3. \A s \in jobs : s.seq = r.seq => s = r
    BY <1>t, Facts
  <2>4. r.status \in Status
    BY <1>t, Facts DEF Row
  <2> QED BY <1>7, <2>1, <2>2, <2>3, <2>4 DEF stateOf, Stage, Status, Waiting
<1> QED BY <1>1, <1>4, <1>5, <1>6, <1>7 DEF Shown

LEMMA OwnersHold == RefineInv => OwnersApart
<1> SUFFICES ASSUME RefineInv, NEW j \in Jobs, NEW w \in Owners(j)
             PROVE  worker[w].job.seq = j /\ stateOf(j) = "active" /\ Owners(j) = {w}
  BY DEF OwnersApart, Owners
<1>t. LeaseInv /\ Shown
  BY ShownHolds DEF RefineInv, SettleInv
<1>1. PICK r \in Leased(worker[w].job) : r.seq = j
  BY DEF Owners
<1>2. w \in Workers /\ worker[w].pc \in Holding
  BY DEF Owners
<1>3. r \in jobs /\ r.status = "active" /\ r.token = worker[w].job.token
  BY DEF Leased
<1>4. worker[w].job.seq = j
  BY <1>t, <1>1, <1>2, <1>3 DEF LeaseInv, TokensApart
<1>5. stateOf(j) = "active"
  BY <1>t, <1>1, <1>3 DEF Shown, Stage, Waiting
<1>6. ASSUME NEW v \in Owners(j) PROVE v = w
  <2>1. v \in Workers /\ worker[v].pc \in Holding
    BY DEF Owners
  <2>2. PICK s \in Leased(worker[v].job) : s.seq = j
    BY DEF Owners
  <2>3. s = r /\ s.token = worker[v].job.token
    BY <1>t, <1>1, <1>3, <2>2, Facts DEF Leased
  <2> QED BY <1>t, <1>2, <1>3, <2>1, <2>3 DEF LeaseInv, TokensApart
<1> QED BY <1>4, <1>5, <1>6

LEMMA RefineFacts ==
  ASSUME RefineInv, [Next]_vars
  PROVE  /\ LeaseInv /\ Shown /\ OwnersApart
         /\ LeaseInv' /\ Shown' /\ OwnersApart'
<1>1. RefineInv'
  BY RefineStep
<1>2. LeaseInv' /\ LeaseInv
  BY <1>1 DEF RefineInv, SettleInv
<1>3. Shown' /\ OwnersApart'
  BY <1>1, ShownHolds, OwnersHold, PTL
<1> QED BY <1>2, <1>3, ShownHolds, OwnersHold

\* Rows r and s of a job say the same of it to JobLifecycle.
Alike(r, s) ==
  r.id = s.id /\ r.seq = s.seq /\ r.status = s.status /\ r.token = s.token

\* The step changes no row of job j that is still to be done, but for its times.
SameRows(j) ==
  /\ \A r \in jobs : r.seq = j /\ r.status # "completed" => \E s \in jobs' : Alike(r, s)
  /\ \A s \in jobs' : s.seq = j /\ s.status # "completed" => \E r \in jobs : Alike(r, s)

LEMMA StateStays ==
  ASSUME NEW j \in Jobs, SameRows(j), j >= nextSeq' <=> j >= nextSeq,
         j \in Completed' <=> j \in Completed, j \in dropped' <=> j \in dropped
  PROVE  stateOf(j)' = stateOf(j)
<1>1. /\ (\E r \in jobs' : r.seq = j /\ r.status \in Waiting)
            = (\E r \in jobs : r.seq = j /\ r.status \in Waiting)
      /\ (\E r \in jobs' : r.seq = j /\ r.status = "active")
            = (\E r \in jobs : r.seq = j /\ r.status = "active")
      /\ (\E r \in jobs' : r.seq = j /\ r.status = "failed")
            = (\E r \in jobs : r.seq = j /\ r.status = "failed")
  BY DEF SameRows, Alike, Waiting
<1>2. /\ (j >= nextSeq') = (j >= nextSeq) /\ (j \in Completed') = (j \in Completed)
      /\ (j \in dropped') = (j \in dropped)
  OBVIOUS
<1> QED BY <1>1, <1>2, Zenon DEF stateOf

\* Worker w holds what it held.
StaysAt(w) ==
  /\ worker'[w].pc \in Holding <=> worker[w].pc \in Holding
  /\ worker[w].pc \in Holding => worker'[w].job = worker[w].job

LEMMA OwnersStay ==
  ASSUME NEW j \in Jobs, SameRows(j),
         \A w \in Workers : StaysAt(w) \/ ~(w \in Owners(j)' \cup Owners(j))
  PROVE  Owners(j)' = Owners(j) /\ ownerOf(j)' = ownerOf(j)
<1>1. ASSUME NEW w \in Workers, StaysAt(w) PROVE w \in Owners(j)' <=> w \in Owners(j)
  BY <1>1 DEF Owners, Leased, StaysAt, SameRows, Alike
<1>2. Owners(j)' = Owners(j)
  <2>1. \A w : w \in Owners(j)' <=> w \in Owners(j)
    BY <1>1 DEF Owners
  <2> QED BY <2>1
<1>3. ownerOf(j)' = ownerOf(j)
  BY <1>2 DEF ownerOf
<1> QED BY <1>2, <1>3

LEMMA OwnerIs ==
  ASSUME NEW j \in Jobs
  PROVE  /\ Owners(j) = {} => ownerOf(j) = Nobody
         /\ Owners(j)' = {} => ownerOf(j)' = Nobody
         /\ \A w \in Workers : Owners(j) = {w} => ownerOf(j) = w
         /\ \A w \in Workers : Owners(j)' = {w} => ownerOf(j)' = w
BY DEF ownerOf

-----------------------------------------------------------------------------
(* What a step is to JobLifecycle.                                         *)

Unmoved(j) == stateOf(j)' = stateOf(j) /\ ownerOf(j)' = ownerOf(j)

LEMMA IsStutter ==
  ASSUME \A j \in Jobs : Unmoved(j)
  PROVE  UNCHANGED Lifecycle!lifecycleVars
BY DEF Unmoved, Lifecycle!lifecycleVars

LEMMA IsAccept ==
  ASSUME NEW k \in Jobs, stateOf(k) = "none", stateOf(k)' = "waiting",
         \A j \in Jobs : j < k => stateOf(j) # "none",
         \A j \in Jobs \ {k} : stateOf(j)' = stateOf(j),
         \A j \in Jobs : ownerOf(j)' = ownerOf(j)
  PROVE  Lifecycle!LifecycleNext
<1>1. \A i \in 1..(k - 1) : i \in Jobs /\ i < k
  BY BoundAssumption DEF Jobs
<1>2. Lifecycle!Accept(k)
  BY <1>1 DEF Lifecycle!Accept, Jobs
<1> QED BY <1>2 DEF Lifecycle!LifecycleNext, Lifecycle!Jobs, Jobs

LEMMA IsTake ==
  ASSUME NEW k \in Jobs, stateOf(k) \in {"waiting", "active"}, stateOf(k)' = "active",
         ownerOf(k)' \in Workers \cup {Nobody},
         \A j \in Jobs \ {k} : Unmoved(j)
  PROVE  Lifecycle!LifecycleNext
<1>1. Lifecycle!Take(k, ownerOf(k)')
  BY DEF Lifecycle!Take, Jobs, Unmoved
<1> QED BY <1>1 DEF Lifecycle!LifecycleNext, Lifecycle!Jobs, Jobs

LEMMA IsAbandon ==
  ASSUME NEW lost \in SUBSET Jobs, \A j \in lost : stateOf(j) = "active",
         \A j \in lost : ownerOf(j)' = Nobody,
         \A j \in Jobs \ lost : ownerOf(j)' = ownerOf(j),
         \A j \in Jobs : stateOf(j)' = stateOf(j)
  PROVE  Lifecycle!LifecycleNext
<1>1. Lifecycle!Abandon(lost)
  BY DEF Lifecycle!Abandon, Lifecycle!Jobs, Jobs
<1> QED BY <1>1 DEF Lifecycle!LifecycleNext, Lifecycle!Jobs, Jobs

LEMMA IsSettle ==
  ASSUME NEW k \in Jobs, NEW w \in Workers, stateOf(k) = "active", ownerOf(k) = w,
         stateOf(k)' \in {"done", "waiting", "failed"}, ownerOf(k)' = Nobody,
         \A j \in Jobs \ {k} : Unmoved(j)
  PROVE  Lifecycle!LifecycleNext
<1>1. Lifecycle!Settle(k, w, stateOf(k)')
  BY DEF Lifecycle!Settle, Jobs, Unmoved
<1> QED BY <1>1 DEF Lifecycle!LifecycleNext, Lifecycle!Jobs, Jobs

LEMMA IsDecide ==
  ASSUME NEW chosen \in SUBSET Jobs, NEW result \in {"waiting", "dropped"},
         \A j \in chosen : stateOf(j) = "failed" /\ stateOf(j)' = result,
         \A j \in Jobs \ chosen : stateOf(j)' = stateOf(j),
         \A j \in Jobs : ownerOf(j)' = ownerOf(j)
  PROVE  Lifecycle!LifecycleNext
<1>1. Lifecycle!Decide(chosen, result)
  BY DEF Lifecycle!Decide, Lifecycle!Jobs, Jobs
<1> QED BY <1>1 DEF Lifecycle!LifecycleNext, Lifecycle!Jobs, Jobs

-----------------------------------------------------------------------------
(* The steps, by what they do to the rows and to their holders.            *)

Refines == [Lifecycle!LifecycleNext]_(Lifecycle!lifecycleVars)

\* Steps that change nothing JobLifecycle sees.
LEMMA CalmRefines ==
  ASSUME UNCHANGED <<done, dropped, nextSeq>>,
         \A j \in Jobs : SameRows(j), \A w \in Workers : StaysAt(w)
  PROVE  Refines
<1>1. ASSUME NEW j \in Jobs PROVE Unmoved(j)
  <2>1. Completed' = Completed
    BY DEF Completed
  <2> QED BY <2>1, StateStays, OwnersStay DEF Unmoved
<1> QED BY <1>1, IsStutter DEF Refines

LEMMA SameTable ==
  ASSUME UNCHANGED jobs, NEW j \in Jobs
  PROVE  SameRows(j)
BY DEF SameRows, Alike

\* Workers G lose what they hold: they crash, give up or have nothing left.
LEMMA GoneRefines ==
  ASSUME RefineInv, [Next]_vars, UNCHANGED <<jobs, done, dropped, nextSeq>>,
         NEW G \in SUBSET Workers, \A w \in G : worker'[w] = Idle,
         \A w \in Workers \ G : worker'[w] = worker[w]
  PROVE  Refines
<1> DEFINE lost == {j \in Jobs : Owners(j) \cap G # {}}
<1>1. \A j \in Jobs : \A w \in G : w \notin Owners(j)'
  BY IdleType DEF Owners
<1>2. \A w \in Workers \ G : StaysAt(w)
  BY DEF StaysAt
<1>3. ASSUME NEW j \in Jobs PROVE stateOf(j)' = stateOf(j)
  <2>1. Completed' = Completed
    BY DEF Completed
  <2> QED BY <2>1, SameTable, StateStays
<1>4. ASSUME NEW j \in Jobs \ lost PROVE ownerOf(j)' = ownerOf(j)
  <2>1. \A w \in Workers : StaysAt(w) \/ ~(w \in Owners(j)' \cup Owners(j))
    BY <1>1, <1>2
  <2> QED BY <2>1, SameTable, OwnersStay
<1>5. ASSUME NEW j \in lost PROVE stateOf(j) = "active" /\ ownerOf(j)' = Nobody
  <2>1. PICK w \in G : w \in Owners(j)
    OBVIOUS
  <2>2. stateOf(j) = "active" /\ Owners(j) = {w}
    BY <2>1, RefineFacts DEF OwnersApart
  <2>3. ASSUME NEW v \in Owners(j)' PROVE FALSE
    <3>1. v \in Workers \ G
      BY <1>1 DEF Owners
    <3>2. v \in Owners(j)
      BY <3>1 DEF Owners, Leased
    <3> QED BY <2>2, <3>1, <3>2
  <2> QED BY <2>2, <2>3, OwnerIs
<1> HIDE DEF lost
<1>6. lost \in SUBSET Jobs
  BY DEF lost
<1> QED BY <1>3, <1>4, <1>5, <1>6, IsAbandon DEF Refines

\* Worker w settles row r, the only one of its job.
LEMMA SettleRefines ==
  ASSUME RefineInv, [Next]_vars, NEW w \in Workers, worker[w].pc \in Holding,
         worker' = [worker EXCEPT ![w] = Idle], NEW r \in Leased(worker[w].job),
         \A s : s.seq # r.seq => (s \in jobs' <=> s \in jobs),
         \A s \in jobs' : s.seq = r.seq => s.status # "active",
         UNCHANGED <<dropped, nextSeq>>, \A j : j # r.seq => (j \in Completed' <=> j \in Completed),
         stateOf(r.seq)' \in {"done", "waiting", "failed"}
  PROVE  Refines
<1> DEFINE k == r.seq
<1>1. r \in jobs /\ r.status = "active" /\ k \in Jobs /\ stateOf(k) = "active"
  <2>1. r \in jobs /\ r.status = "active"
    BY DEF Leased
  <2> QED BY <2>1, RefineFacts DEF Shown, Stage, Waiting
<1>2. w \in Owners(k)
  BY DEF Owners
<1>3. Owners(k) = {w} /\ worker[w].job.seq = k
  BY <1>1, <1>2, RefineFacts DEF OwnersApart
<1>4. \A v \in Workers : v # w => StaysAt(v)
  BY DEF StaysAt
<1>5. \A j \in Jobs : w \notin Owners(j)'
  <2>1. worker'[w] = Idle
    BY RefineFacts, Facts
  <2> QED BY <2>1, IdleType DEF Owners
<1>6. ownerOf(k) = w /\ ownerOf(k)' = Nobody
  <2>1. Owners(k)' = {}
    BY DEF Owners, Leased
  <2> QED BY <1>1, <1>3, <2>1, OwnerIs
<1>7. ASSUME NEW j \in Jobs \ {k} PROVE Unmoved(j)
  <2>1. SameRows(j)
    BY DEF SameRows, Alike
  <2>2. w \notin Owners(j)
    BY <1>3, RefineFacts DEF OwnersApart
  <2>3. stateOf(j)' = stateOf(j)
    BY <2>1, StateStays
  <2>4. ownerOf(j)' = ownerOf(j)
    BY <1>4, <1>5, <2>1, <2>2, OwnersStay
  <2> QED BY <2>3, <2>4 DEF Unmoved
<1> QED BY <1>1, <1>6, <1>7, IsSettle DEF Refines

\* Worker w commits the reservation of its row, and may not learn that it did.
LEMMA TakeRefines ==
  ASSUME RefineInv, [Next]_vars, NEW w \in Workers, worker[w].pc = "locked",
         NEW job, job = worker[w].job, NEW row, row = Reserved(w), Replace(job, row),
         UNCHANGED <<done, dropped, nextSeq>>,
         \A v \in Workers \ {w} : worker'[v] = worker[v],
         worker'[w] = Idle \/ worker'[w].job = row
  PROVE  Refines
<1> DEFINE k == job.seq
<1>1. job \in jobs /\ job.status \in Waiting \cup {"active"}
  BY RefineFacts DEF LeaseInv, LockHeld, Eligible
<1>2. /\ row.seq = k /\ row.status = "active"
      /\ jobs' = (jobs \ {job}) \cup {row}
  BY RefineFacts, SelectedRow DEF Replace
<1>3. k \in Jobs /\ stateOf(k) \in {"waiting", "active"}
  BY <1>1, RefineFacts DEF Shown, Stage, Waiting
<1>4. stateOf(k)' = "active"
  <2>1. row \in jobs'
    BY <1>2
  <2>2. \A r \in jobs' : r.status = "active" => stateOf(r.seq)' = "active"
    BY RefineFacts DEF Shown, Stage, Waiting
  <2> QED BY <1>2, <2>1, <2>2
<1>5. ownerOf(k)' \in Workers \cup {Nobody}
  <2>1. CASE Owners(k)' = {}
    BY <1>3, <2>1, OwnerIs
  <2>2. ASSUME NEW v \in Owners(k)' PROVE ownerOf(k)' \in Workers
    <3>1. Owners(k)' = {v} /\ v \in Workers
      BY <1>3, RefineFacts DEF OwnersApart
    <3> QED BY <1>3, <3>1, OwnerIs
  <2> QED BY <2>1, <2>2
<1>6. ASSUME NEW j \in Jobs \ {k} PROVE Unmoved(j)
  <2>1. SameRows(j)
    BY <1>2 DEF SameRows, Alike
  <2>2. w \notin Owners(j)
    BY DEF Owners, Holding
  <2>3. ~(w \in Owners(j)')
    <3>1. CASE worker'[w] = Idle
      BY <3>1, IdleType DEF Owners
    <3>2. CASE worker'[w].job = row
      BY <1>2, <3>2, RefineFacts DEF OwnersApart
    <3> QED BY <3>1, <3>2
  <2>4. \A v \in Workers \ {w} : StaysAt(v)
    BY DEF StaysAt
  <2>5. Completed' = Completed
    BY DEF Completed
  <2>6. stateOf(j)' = stateOf(j)
    BY <2>1, <2>5, StateStays
  <2>7. ownerOf(j)' = ownerOf(j)
    BY <2>1, <2>2, <2>3, <2>4, OwnersStay
  <2> QED BY <2>6, <2>7 DEF Unmoved
<1> HIDE DEF k
<1> QED BY <1>3, <1>4, <1>5, <1>6, IsTake DEF Refines

\* Rows of failed jobs are retried or deleted by an operator.
LEMMA DecideRefines ==
  ASSUME RefineInv, [Next]_vars, NEW rows \in SUBSET jobs,
         NEW result \in {"waiting", "dropped"},
         \A r \in rows : r.status = "failed" /\ stateOf(r.seq)' = result,
         \A s : (\A r \in rows : r.seq # s.seq) => (s \in jobs' <=> s \in jobs),
         \A j : (\A r \in rows : r.seq # j) => (j \in dropped' <=> j \in dropped),
         UNCHANGED <<done, nextSeq>>, UNCHANGED worker
  PROVE  Refines
<1> DEFINE chosen == {r.seq : r \in rows}
<1>1. ASSUME NEW j \in chosen PROVE j \in Jobs /\ stateOf(j) = "failed" /\ stateOf(j)' = result
  <2>1. PICK r \in rows : r.seq = j
    OBVIOUS
  <2> QED BY <2>1, RefineFacts DEF Shown, Stage, Waiting
<1>2. \A w \in Workers : StaysAt(w)
  BY DEF StaysAt
<1>3. Completed' = Completed
  BY DEF Completed
<1>4. ASSUME NEW j \in Jobs \ chosen
      PROVE  stateOf(j)' = stateOf(j) /\ ownerOf(j)' = ownerOf(j)
  <2>1. \A r \in rows : r.seq # j
    OBVIOUS
  <2>2. SameRows(j)
    BY <2>1 DEF SameRows, Alike
  <2> QED BY <1>2, <1>3, <2>1, <2>2, StateStays, OwnersStay
<1>5. ASSUME NEW j \in chosen PROVE ownerOf(j)' = ownerOf(j)
  <2>1. Owners(j) = {} /\ Owners(j)' = {}
    BY <1>1, RefineFacts DEF OwnersApart
  <2> QED BY <1>1, <2>1, OwnerIs
<1> HIDE DEF chosen
<1>6. chosen \in SUBSET Jobs
  BY <1>1
<1> QED BY <1>1, <1>4, <1>5, <1>6, IsDecide DEF Refines

-----------------------------------------------------------------------------
(* The actions.                                                            *)

LEMMA DispatchRefines ==
  ASSUME RefineInv, [Next]_vars, NEW q \in Requests, NEW t, Dispatch(q, t)
  PROVE  Refines
<1>1. PICK k : k = nextSeq
  OBVIOUS
<1>2. PICK row : row = [id |-> chooseJobID(q), req |-> q, seq |-> nextSeq, status |-> "pending",
                        attempts |-> 0, available |-> t + Opt[q].delay, token |-> 0,
                        leased |-> 0, expires |-> 0]
  OBVIOUS
<1>3. /\ k <= MaxDispatch /\ jobs' = jobs \cup {row} /\ nextSeq' = k + 1
      /\ UNCHANGED <<done, dropped, worker>>
  BY <1>1, <1>2 DEF Dispatch
<1>4. row.seq = k /\ row.status = "pending"
  BY <1>1, <1>2
<1>5. k \in Jobs /\ k \in Nat
  BY <1>1, <1>3, BoundAssumption DEF RefineInv, Numbered, Jobs
<1>6. stateOf(k) = "none" /\ \A j \in Jobs : j < k => stateOf(j) # "none"
  <2>1. stateOf(k) = "none"
    BY <1>1, <1>5, RefineFacts DEF Shown
  <2>2. ASSUME NEW j \in Jobs, j < k PROVE stateOf(j) # "none"
    <3>1. ~(j >= nextSeq)
      BY <1>1, <1>5, <2>2 DEF Jobs
    <3> QED BY <3>1, Zenon DEF stateOf
  <2> QED BY <2>1, <2>2
<1>7. stateOf(k)' = "waiting"
  BY <1>3, <1>4, RefineFacts DEF Shown, Stage, Waiting
<1>8. ASSUME NEW j \in Jobs \ {k}
      PROVE  stateOf(j)' = stateOf(j) /\ ownerOf(j)' = ownerOf(j)
  <2>1. SameRows(j)
    BY <1>3, <1>4 DEF SameRows, Alike
  <2>2. j >= nextSeq' <=> j >= nextSeq
    BY <1>1, <1>3, <1>5 DEF Jobs
  <2>3. Completed' = Completed /\ \A w \in Workers : StaysAt(w)
    BY <1>3 DEF Completed, StaysAt
  <2> QED BY <1>3, <2>1, <2>2, <2>3, StateStays, OwnersStay
<1>9. ownerOf(k)' = ownerOf(k)
  <2>1. Owners(k) = {} /\ Owners(k)' = {}
    BY <1>5, <1>6, <1>7, RefineFacts DEF OwnersApart
  <2> QED BY <1>5, <2>1, OwnerIs
<1> QED BY <1>5, <1>6, <1>7, <1>8, <1>9, IsAccept DEF Refines

LEMMA InspectorRefines ==
  ASSUME RefineInv, [Next]_vars, NEW name \in Queues, Retry(name) \/ Delete(name)
  PROVE  Refines
<1>1. CASE Retry(name)
  <2> DEFINE new(r) == [r EXCEPT !.status = "retry", !.attempts = 0, !.available = now]
  <2>1. PICK rows \in Chosen(name) : /\ jobs' = (jobs \ rows) \cup {new(r) : r \in rows}
                                     /\ UNCHANGED <<done, dropped, nextSeq, worker>>
    BY <1>1 DEF Retry, history
  <2>2. \A r \in rows : /\ r \in jobs /\ r.status = "failed"
                        /\ new(r).seq = r.seq /\ new(r).status = "retry"
    BY RefineFacts, Facts DEF Chosen, FailedRows, Row
  <2> HIDE DEF new
  <2>3. ASSUME NEW r \in rows PROVE stateOf(r.seq)' = "waiting"
    <3>1. PICK s \in jobs' : s.seq = r.seq /\ s.status = "retry"
      BY <2>1, <2>2
    <3> QED BY <3>1, RefineFacts DEF Shown, Stage, Waiting
  <2>4. \A s : (\A r \in rows : r.seq # s.seq) => (s \in jobs' <=> s \in jobs)
    BY <2>1, <2>2
  <2> QED BY <2>1, <2>2, <2>3, <2>4, DecideRefines
<1>2. CASE Delete(name)
  <2>1. PICK rows : Drops(rows)
    BY <1>2, RefineFacts, DeleteHistory
  <2>2. UNCHANGED <<nextSeq, worker>>
    BY <1>2 DEF Delete
  <2>3. ASSUME NEW r \in rows PROVE stateOf(r.seq)' = "dropped"
    <3>1. r.seq \in dropped' /\ r.seq \in Jobs
      BY <2>1, RefineFacts DEF Drops, Shown
    <3> QED BY <3>1, RefineFacts DEF Shown
  <2>4. \A s : (\A r \in rows : r.seq # s.seq) => (s \in jobs' <=> s \in jobs)
    BY <2>1 DEF Drops
  <2> QED BY <2>1, <2>2, <2>3, <2>4, DecideRefines DEF Drops
<1> QED BY <1>1, <1>2

LEMMA HeartbeatRefines ==
  ASSUME RefineInv, [Next]_vars, NEW w \in Workers, Heartbeat(w)
  PROVE  Refines
<1> DEFINE held == Leased(worker[w].job)
           new(r) == [r EXCEPT !.leased = now + Reservation]
<1>1. /\ jobs' = (jobs \ held) \cup {new(r) : r \in held}
      /\ UNCHANGED <<done, dropped, nextSeq>>
  BY DEF Heartbeat, history
<1>2. \A v \in Workers : StaysAt(v)
  <2>1. worker[w] \in WorkerState /\ worker \in [Workers -> WorkerState]
    BY RefineFacts, Facts
  <2>2. worker'[w].pc = worker[w].pc /\ worker'[w].job = worker[w].job
    BY <2>1 DEF Heartbeat, WorkerState
  <2>3. \A v \in Workers : v # w => worker'[v] = worker[v]
    BY DEF Heartbeat
  <2> QED BY <2>2, <2>3 DEF StaysAt
<1>3. \A r \in held : r \in jobs /\ Alike(r, new(r))
  BY RefineFacts, Facts DEF Leased, Row, Alike
<1> HIDE DEF new, held
<1>4. \A r : Alike(r, r)
  BY DEF Alike
<1>5. ASSUME NEW j \in Jobs PROVE SameRows(j)
  BY <1>1, <1>3, <1>4 DEF SameRows
<1> QED BY <1>1, <1>2, <1>5, CalmRefines

LEMMA CleanupRefines ==
  ASSUME RefineInv, [Next]_vars, Spares, NEW w \in Workers, CleanupDelete(w)
  PROVE  Refines
<1>1. /\ jobs' \subseteq jobs /\ worker[w].pc = "delete"
      /\ UNCHANGED <<done, dropped, nextSeq>>
      /\ \A v \in Workers : v # w => worker'[v] = worker[v]
  BY DEF CleanupDelete, history
<1>2. worker'[w].pc = "reserve"
  BY RefineFacts, Facts DEF CleanupDelete, WorkerState
<1>3. \A r \in jobs \ jobs' : r.status = "completed"
  BY <1>1, <1>2 DEF Spares
<1>4. \A v \in Workers : StaysAt(v)
  BY <1>1, <1>2 DEF StaysAt, Holding
<1>5. ASSUME NEW j \in Jobs PROVE SameRows(j)
  BY <1>1, <1>3 DEF SameRows, Alike
<1> QED BY <1>1, <1>4, <1>5, CalmRefines

\* A worker whose lease was taken over, or whose row is gone, settles nothing.
LEMMA LateRefines ==
  ASSUME RefineInv, [Next]_vars, NEW w \in Workers, worker' = [worker EXCEPT ![w] = Idle],
         UNCHANGED <<jobs, done, dropped, nextSeq>>
  PROVE  Refines
<1>1. worker'[w] = Idle /\ \A v \in Workers \ {w} : worker'[v] = worker[v]
  BY RefineFacts, Facts
<1> DEFINE G == {w}
<1>2. G \in SUBSET Workers /\ \A v \in G : worker'[v] = Idle
  BY <1>1
<1>3. \A v \in Workers \ G : worker'[v] = worker[v]
  BY <1>1
<1> HIDE DEF G
<1> QED BY <1>2, <1>3, GoneRefines

LEMMA CompleteRefines ==
  ASSUME RefineInv, [Next]_vars, NEW w \in Workers, Complete(w)
  PROVE  Refines
<1> DEFINE job == worker[w].job
           o == Opt[job.req]
           held == Leased(job)
           new(r) == [r EXCEPT !.status = "completed", !.expires = now + o.retention,
                               !.token = 0, !.leased = 0]
<1>1. /\ jobs' = jobs \ held \/ jobs' = (jobs \ held) \cup {new(r) : r \in held}
      /\ done' = [done EXCEPT ![o.queue] = @ \cup {r.seq : r \in held}]
      /\ worker[w].pc \in Holding /\ worker' = [worker EXCEPT ![w] = Idle]
      /\ UNCHANGED <<dropped, nextSeq>>
  BY DEF Complete, Holding
<1>2. CASE held = {}
  <2>1. [done EXCEPT ![o.queue] = @ \cup {r.seq : r \in held}] = done
    BY <1>2, RefineFacts, Facts
  <2>2. {new(r) : r \in held} = {}
    BY <1>2
  <2>3. UNCHANGED <<jobs, done>>
    BY <1>1, <1>2, <2>1, <2>2
  <2> QED BY <1>1, <2>3, LateRefines
<1>3. ASSUME NEW r \in held PROVE Refines
  <2>1. held = {r} /\ r \in jobs
    BY RefineFacts, Facts DEF Leased
  <2>2. new(r).seq = r.seq /\ new(r).status = "completed"
    BY <2>1, RefineFacts, Facts DEF Row
  <2> HIDE DEF new
  <2>3. \A s : s.seq # r.seq => (s \in jobs' <=> s \in jobs)
    BY <1>1, <2>1, <2>2
  <2>4. \A s \in jobs' : s.seq = r.seq => s.status # "active"
    BY <1>1, <2>1, <2>2, RefineFacts, Facts
  <2>5. Completed' = Completed \cup {r.seq}
    <3>1. o.queue \in Queues
      BY <1>1, RefineFacts, Facts, OptAssumption DEF Row, Options
    <3>2. done' = [done EXCEPT ![o.queue] = @ \cup {r.seq}]
      <4>1. {x.seq : x \in held} = {r.seq}
        BY <2>1
      <4> QED BY <1>1, <4>1
    <3>3. \A m \in Queues : done'[m] = IF m = o.queue THEN done[m] \cup {r.seq} ELSE done[m]
      BY <3>1, <3>2, RefineFacts, Facts
    <3>4. PICK name \in Queues : \A m \in Queues :
            done'[m] = IF m = name THEN done[m] \cup {r.seq} ELSE done[m]
      BY <3>1, <3>3
    <3> QED BY <3>4 DEF Completed
  <2>6. stateOf(r.seq)' = "done"
    BY <2>1, <2>5, RefineFacts DEF Shown
  <2> QED BY <1>1, <1>3, <2>3, <2>4, <2>5, <2>6, SettleRefines
<1> QED BY <1>2, <1>3

LEMMA FailRefines ==
  ASSUME RefineInv, [Next]_vars, NEW w \in Workers, Fail(w)
  PROVE  Refines
<1> DEFINE job == worker[w].job
           held == Leased(job)
           status == IF exhausted(job) THEN "failed" ELSE "retry"
           later == IF exhausted(job) THEN now ELSE now + retryDelay(job.attempts)
           new(r) == [r EXCEPT !.status = status, !.available = later,
                               !.token = 0, !.leased = 0]
<1>1. /\ jobs' = (jobs \ held) \cup {new(r) : r \in held}
      /\ worker[w].pc \in Holding /\ worker' = [worker EXCEPT ![w] = Idle]
      /\ UNCHANGED <<done, dropped, nextSeq>>
  BY DEF Fail, Holding, history
<1>2. CASE held = {}
  BY <1>1, <1>2, LateRefines
<1>3. ASSUME NEW r \in held PROVE Refines
  <2>1. held = {r} /\ r \in jobs
    BY RefineFacts, Facts DEF Leased
  <2> HIDE DEF later
  <2>2. new(r).seq = r.seq /\ new(r).status = status
    <3> HIDE DEF status
    <3> QED BY <2>1, RefineFacts, Facts DEF Row
  <2>3. PICK s : s = new(r) /\ s.seq = r.seq /\ s.status \in {"failed", "retry"}
    BY <2>2
  <2> HIDE DEF new
  <2>4. jobs' = (jobs \ {r}) \cup {s}
    BY <1>1, <2>1, <2>3
  <2>5. \A x : x.seq # r.seq => (x \in jobs' <=> x \in jobs)
    BY <2>3, <2>4
  <2>6. \A x \in jobs' : x.seq = r.seq => x = s
    BY <2>1, <2>4, RefineFacts, Facts
  <2>7. stateOf(r.seq)' \in {"waiting", "failed"}
    <3>1. s \in jobs' /\ stateOf(s.seq)' = Stage(s.status)
      BY <2>3, <2>4, RefineFacts DEF Shown
    <3> QED BY <2>3, <3>1 DEF Stage, Waiting
  <2>8. Completed' = Completed
    BY <1>1 DEF Completed
  <2> QED BY <1>1, <2>3, <2>5, <2>6, <2>7, <2>8, SettleRefines
<1> QED BY <1>2, <1>3

LEMMA ReserveRefines ==
  ASSUME RefineInv, [Next]_vars, NEW w \in Workers, Reserve(w) \/ ReserveError(w)
  PROVE  Refines
<1>u. worker \in [Workers -> WorkerState]
  BY RefineFacts, Facts
<1>1. UNCHANGED <<done, dropped, nextSeq>> /\ \A v \in Workers \ {w} : worker'[v] = worker[v]
  <2>1. CASE Reserve(w)
    BY <1>u, <2>1 DEF Reserve, history
  <2>2. CASE ReserveError(w)
    BY <1>u, <2>2 DEF ReserveError, history
  <2> QED BY <2>1, <2>2
<1>2. ASSUME worker[w].pc = "locked", Replace(worker[w].job, Reserved(w)),
             worker'[w] = Idle \/ worker'[w].job = Reserved(w)
      PROVE  Refines
  BY <1>1, <1>2, TakeRefines
<1>3. CASE Reserve(w)
  BY <1>u, <1>2, <1>3, IdleType DEF Reserve
<1>4. CASE ReserveError(w)
  <2>1. worker' = [worker EXCEPT ![w] = Idle] /\ worker'[w] = Idle
    BY <1>u, <1>4 DEF ReserveError
  <2>2. CASE UNCHANGED jobs
    BY <1>1, <2>1, <2>2, LateRefines
  <2>3. CASE worker[w].pc = "locked" /\ Replace(worker[w].job, Reserved(w))
    BY <1>2, <2>1, <2>3
  <2> QED BY <1>4, <2>2, <2>3 DEF ReserveError
<1> QED BY <1>3, <1>4

LEMMA QuietRefines ==
  ASSUME RefineInv, [Next]_vars, UNCHANGED <<jobs, done, dropped, nextSeq>>,
         \A w \in Workers : StaysAt(w)
  PROVE  Refines
BY SameTable, CalmRefines

LEMMA LocalRefines ==
  ASSUME RefineInv, [Next]_vars, NEW w \in Workers,
         \/ StartReserve(w) \/ CleanupLocks(w) \/ CleanupScan(w) \/ CleanupError(w)
         \/ \E name \in Queues : SelectJob(w, name) \/ SelectNone(w, name)
         \/ \E ok \in BOOLEAN : HandlerReturns(w, ok)
  PROVE  Refines
<1>u. worker \in [Workers -> WorkerState] /\ worker[w] \in WorkerState
  BY RefineFacts, Facts
<1>1. /\ UNCHANGED <<jobs, done, dropped, nextSeq>>
      /\ \A v \in Workers : v # w => worker'[v] = worker[v]
  <2>1. UNCHANGED <<jobs, done, dropped, nextSeq>>
    BY DEF StartReserve, CleanupLocks, CleanupScan, CleanupError, SelectJob, SelectNone,
           HandlerReturns, tables, history
  <2>2. \E x : worker' = [worker EXCEPT ![w] = x]
    BY Zenon DEF StartReserve, CleanupLocks, CleanupScan, CleanupError, SelectJob, SelectNone,
                 HandlerReturns
  <2> QED BY <1>u, <2>1, <2>2
<1>2. StaysAt(w)
  <2>1. CASE StartReserve(w)
    BY <1>u, <2>1 DEF StartReserve, StaysAt, Holding, Idle
  <2>2. CASE CleanupLocks(w)
    BY <1>u, <2>2 DEF CleanupLocks, StaysAt, Holding, WorkerState
  <2>3. CASE CleanupScan(w)
    <3>1. worker[w].pc \notin Holding
      BY <2>3 DEF CleanupScan, Holding
    <3>2. PICK x \in {"reserve", "delete"} :
            \E y : worker' = [worker EXCEPT ![w] = [@ EXCEPT !.pc = x, !.ids = y]]
      BY <2>3 DEF CleanupScan
    <3>3. worker'[w].pc \notin Holding
      BY <1>u, <3>2 DEF Holding, WorkerState
    <3> QED BY <3>1, <3>3 DEF StaysAt
  <2>4. CASE CleanupError(w)
    <3>1. worker[w].pc \notin Holding /\ worker'[w].pc \in {"scan", "reserve"}
      BY <1>u, <2>4 DEF CleanupError, Holding, WorkerState
    <3> QED BY <3>1 DEF StaysAt, Holding
  <2>5. ASSUME NEW name \in Queues, SelectJob(w, name) PROVE StaysAt(w)
    <3>1. PICK r : worker' = [worker EXCEPT ![w] = [@ EXCEPT !.pc = "locked", !.job = r]]
      BY <2>5 DEF SelectJob
    <3>2. worker[w].pc = "reserve" /\ worker'[w].pc = "locked"
      BY <1>u, <2>5, <3>1 DEF SelectJob, WorkerState
    <3> QED BY <3>2 DEF StaysAt, Holding
  <2>6. ASSUME NEW name \in Queues, SelectNone(w, name) PROVE StaysAt(w)
    BY <1>u, <2>6, IdleType DEF SelectNone, StaysAt, Holding
  <2>7. ASSUME NEW ok \in BOOLEAN, HandlerReturns(w, ok) PROVE StaysAt(w)
    BY <1>u, <2>7 DEF HandlerReturns, StaysAt, Holding, WorkerState
  <2> QED BY <2>1, <2>2, <2>3, <2>4, <2>5, <2>6, <2>7
<1>3. \A v \in Workers : StaysAt(v)
  BY <1>1, <1>2 DEF StaysAt
<1> QED BY <1>1, <1>3, QuietRefines

LEMMA RestartRefines ==
  ASSUME RefineInv, [Next]_vars, NEW p \in Procs, Restarted(p)
  PROVE  Refines
<1> DEFINE G == {w \in Workers : ProcOf[w] = p}
<1>1. /\ UNCHANGED <<jobs, done, dropped, nextSeq>> /\ G \in SUBSET Workers
      /\ \A w \in G : worker'[w] = Idle
      /\ \A w \in Workers \ G : worker'[w] = worker[w]
  BY DEF Restarted, tables, history
<1> HIDE DEF G
<1> QED BY <1>1, GoneRefines

LEMMA NextRefines == RefineInv /\ [Next]_vars /\ [Spares]_vars => Refines
<1> SUFFICES ASSUME RefineInv, [Next]_vars, [Spares]_vars PROVE Refines
  OBVIOUS
<1>1. ASSUME NEW w \in Workers, WorkerStep(w), Spares PROVE Refines
  BY <1>1, LocalRefines, CleanupRefines, ReserveRefines, CompleteRefines, FailRefines
     DEF WorkerStep
<1>2. ASSUME NEW w \in Workers, SettleError(w) PROVE Refines
  BY <1>2, LateRefines DEF SettleError, tables, history
<1>3. ASSUME Tick \/ (\E p \in Procs : Shutdown(p)) \/ UNCHANGED vars PROVE Refines
  <2>1. UNCHANGED <<jobs, done, dropped, nextSeq, worker>>
    BY <1>3 DEF Tick, Shutdown, vars, tables, history
  <2> QED BY <2>1, QuietRefines DEF StaysAt
<1>4. ASSUME NEW p \in Procs, Exit(p) \/ Crash(p) PROVE Refines
  BY <1>4, RestartRefines DEF Exit, Crash
<1>5. ASSUME Serve, Spares PROVE Refines
  BY <1>1, <1>2, <1>3, <1>4, <1>5, LocalRefines, ReserveRefines, HeartbeatRefines,
     InspectorRefines DEF Serve
<1> QED BY <1>3, <1>5, DispatchRefines DEF Next

LEMMA InitRefines == Init => Lifecycle!LifecycleInit
<1> SUFFICES ASSUME Init PROVE Lifecycle!LifecycleInit
  OBVIOUS
<1>1. ASSUME NEW j \in Jobs PROVE stateOf(j) = "none" /\ Owners(j) = {}
  <2>1. stateOf(j) = "none"
    BY RefineInit, ShownHolds, BoundAssumption DEF Shown, Init, Jobs
  <2> QED BY <2>1, RefineInit, OwnersHold DEF OwnersApart
<1>2. \A j \in Jobs : stateOf(j) = "none" /\ ownerOf(j) = Nobody
  BY <1>1, OwnerIs
<1> QED BY <1>2 DEF Lifecycle!LifecycleInit, Lifecycle!Jobs, Jobs

\* The tables, tokens and clocks of the queue keep what JobLifecycle promises of
\* each accepted job, as long as the cleanup deletes nothing but expired completed
\* jobs.
THEOREM QueueImplementsLifecycle == Spec /\ CleanupSparesOthers => ImplementsLifecycle
<1>1. [\A w \in Workers : worker[w].pc = "delete" /\ worker'[w] # worker[w] =>
         \A r \in jobs \ jobs' : r.status = "completed" /\ r.expires <= now]_vars => [Spares]_vars
  BY DEF Spares
<1>2. RefineInv /\ [Next]_vars /\ [Spares]_vars
        => [Lifecycle!LifecycleNext]_(Lifecycle!lifecycleVars)
  BY NextRefines DEF Refines
<1> QED BY RefineInit, RefineStep, InitRefines, <1>1, <1>2, PTL
        DEF Spec, CleanupSparesOthers, ImplementsLifecycle, Lifecycle!LifecycleSpec

\* Where no task ID is kept after its job ran, nothing is assumed of the cleanup.
THEOREM UniqueIdsSuffice ==
  KeptIdsUnique /\ Spec => []NoLostJob /\ OwnerSettles /\ ImplementsLifecycle
BY CleanupsSpare, NothingLost, OwnersSettle, QueueImplementsLifecycle, PTL

===============================================================================
