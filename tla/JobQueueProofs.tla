---------------------------- MODULE JobQueueProofs ----------------------------
(* Theorems about JobQueue for every value of its constants. *)
EXTENDS JobQueue, TLAPS

(* The inductive invariant behind LeaseHeld and LeaseExclusive.  A lease    *)
(* excludes others because the token of an active row identifies both the   *)
(* worker it was given to and the job it was given for, and because a row   *)
(* under reservation stays as it was selected until the transaction ends.   *)

\* Creation numbers and tokens in use were handed out before.
Fresh ==
  /\ nextToken > 0
  /\ \A r \in jobs : r.seq < nextSeq /\ r.token < nextToken
  /\ \A w \in Workers : worker[w].pc \in {"locked"} \cup Holding =>
       worker[w].job.seq < nextSeq /\ worker[w].job.token < nextToken

\* id is the primary key of queue_jobs, and no two rows share a creation number.
RowsApart ==
  \A r, s \in jobs : r.id = s.id \/ r.seq = s.seq => r = s

\* A row a reservation has locked is still the eligible row it selected.
LockHeld ==
  \A w \in Workers :
    /\ worker[w].at <= now
    /\ worker[w].pc = "locked" =>
         worker[w].job \in jobs /\ Eligible(worker[w].job, worker[w].at)

LocksApart ==
  \A v, w \in Workers :
    worker[v].pc = "locked" /\ worker[w].pc = "locked" /\ worker[v].job = worker[w].job
      => v = w

\* A lease token belongs to one worker and to one job.
TokensApart ==
  /\ \A v, w \in Workers :
       /\ worker[v].pc \in Holding /\ worker[w].pc \in Holding
       /\ worker[v].job.token = worker[w].job.token
       => v = w
  /\ \A w \in Workers, r \in jobs :
       /\ worker[w].pc \in Holding
       /\ r.status = "active" /\ r.token = worker[w].job.token
       => r.seq = worker[w].job.seq /\ r.id = worker[w].job.id

LeaseInv ==
  /\ TypeOK /\ Fresh /\ RowsApart /\ LockHeld /\ LocksApart /\ TokensApart
  /\ LeaseHeld /\ LeaseExclusive

-----------------------------------------------------------------------------
(* Type correctness.                                                       *)

LEMMA RetryDelayType ==
  ASSUME NEW a \in Nat
  PROVE  retryDelay(a) \in Nat
<1>1. CASE a <= 1
  BY <1>1 DEF retryDelay
<1>2. CASE a >= 13
  BY <1>2 DEF retryDelay
<1>3. CASE a \in 2..12
  BY <1>3 DEF retryDelay
<1> QED BY <1>1, <1>2, <1>3

LEMMA InitType == Init => TypeOK
BY DEF Init, TypeOK, WorkerState, Places, Idle, NoRow, Holding

USE OptAssumption, IdAssumption, ProcAssumption, TimeAssumption

LEMMA IdleType == Idle \in WorkerState /\ Idle.pc \notin {"locked"} \cup Holding
BY DEF Idle, WorkerState, Places, NoRow, Holding

\* A worker's record after a step: its type, and its job's.
LEMMA WorkerType ==
  ASSUME TypeOK, NEW w \in Workers, NEW s \in WorkerState,
         s.pc \in {"locked"} \cup Holding => s.job \in Row,
         worker' = [worker EXCEPT ![w] = s]
  PROVE  /\ worker' \in [Workers -> WorkerState]
         /\ \A v \in Workers :
              worker'[v].pc \in {"locked"} \cup Holding => worker'[v].job \in Row
BY DEF TypeOK

\* Rows after the updates of the code.
LEMMA RowUpdate ==
  ASSUME NEW r \in Row, NEW status \in Status,
         NEW t \in Nat, NEW n \in Nat, NEW m \in Nat
  PROVE  /\ [r EXCEPT !.status = status, !.expires = t, !.token = 0, !.leased = 0] \in Row
         /\ [r EXCEPT !.status = status, !.available = t, !.token = 0, !.leased = 0] \in Row
         /\ [r EXCEPT !.status = status, !.attempts = n, !.available = t] \in Row
         /\ [r EXCEPT !.status = status, !.attempts = t, !.token = n, !.leased = m] \in Row
<1>1. [r EXCEPT !.status = status, !.expires = t, !.token = 0, !.leased = 0] \in Row
  BY DEF Row
<1>2. [r EXCEPT !.status = status, !.available = t, !.token = 0, !.leased = 0] \in Row
  BY DEF Row
<1>3. [r EXCEPT !.status = status, !.attempts = n, !.available = t] \in Row
  BY DEF Row
<1>4. [r EXCEPT !.status = status, !.attempts = t, !.token = n, !.leased = m] \in Row
  BY DEF Row
<1> QED BY <1>1, <1>2, <1>3, <1>4

\* The row a reservation commits.
LEMMA ReservedType ==
  ASSUME TypeOK, NEW w \in Workers, worker[w].pc = "locked"
  PROVE  Reserved(w) \in Row
<1>1. worker[w].job \in Row /\ worker[w].at \in Nat /\ nextToken \in Nat
  BY DEF TypeOK, WorkerState
<1>2. /\ "active" \in Status /\ worker[w].at + Reservation \in Nat
      /\ worker[w].job.attempts + 1 \in Nat
  BY <1>1 DEF Status, Row
<1> QED BY <1>1, <1>2, RowUpdate DEF Reserved

LEMMA NextType == TypeOK /\ [Next]_vars => TypeOK'
<1> SUFFICES ASSUME TypeOK, [Next]_vars PROVE TypeOK'
  OBVIOUS
<1>1. CASE Tick
  BY <1>1 DEF Tick, tables, history, TypeOK
<1>2. ASSUME NEW q \in Requests, NEW t \in ClockReadings, Dispatch(q, t)
     PROVE  TypeOK'
  <2>1. t \in Nat /\ chooseJobID(q) \in Ids /\ Opt[q] \in Options
    BY DEF ClockReadings, chooseJobID, Ids, TypeOK, Options
  <2>2. jobs' \subseteq Row
    BY <1>2, <2>1 DEF Dispatch, TypeOK, Row, Options, Status, Waiting
  <2>3. taskLocks' \subseteq TaskIDs
    BY <1>2, <2>1 DEF Dispatch, TypeOK, Options, chooseJobID, taskLock
  <2>4. /\ uniqueLocks' \subseteq [key : Keys, job : Ids, expires : Nat]
        /\ window' \in [Keys -> Nat]
    BY <1>2, <2>1 DEF Dispatch, TypeOK, Options, LocksExpired
  <2> QED BY <1>2, <2>2, <2>3, <2>4 DEF Dispatch, TypeOK
<1>3. ASSUME NEW w \in Workers, StartReserve(w) PROVE TypeOK'
  <2> DEFINE s == [Idle EXCEPT
       !.pc = IF now >= nextCleanup[ProcOf[w]] THEN "locks" ELSE "reserve", !.at = now]
  <2>1. worker[w] \in WorkerState /\ now \in Nat
    BY DEF TypeOK
  <2>2. s \in WorkerState
    BY <2>1 DEF WorkerState, Places, Idle, NoRow
  <2>3. s.pc \in {"locked"} \cup Holding => s.job \in Row
    BY <1>3, <2>1 DEF StartReserve, WorkerState, Holding, TypeOK, Idle
  <2>4. worker' = [worker EXCEPT ![w] = s]
    BY <1>3 DEF StartReserve
  <2>5. /\ worker' \in [Workers -> WorkerState]
        /\ \A v \in Workers :
             worker'[v].pc \in {"locked"} \cup Holding => worker'[v].job \in Row
    BY <2>2, <2>3, <2>4, WorkerType
  <2> QED BY <1>3, <2>5 DEF StartReserve, tables, history, TypeOK, Fault
<1>4. ASSUME NEW w \in Workers, CleanupLocks(w) PROVE TypeOK'
  <2> DEFINE s == [worker[w] EXCEPT !.pc = "scan"]
  <2>1. worker[w] \in WorkerState /\ now \in Nat
    BY DEF TypeOK
  <2>2. s \in WorkerState
    BY <2>1 DEF WorkerState, Places
  <2>3. s.pc \in {"locked"} \cup Holding => s.job \in Row
    BY <1>4, <2>1 DEF CleanupLocks, WorkerState, Holding, TypeOK
  <2>4. worker' = [worker EXCEPT ![w] = s]
    BY <1>4 DEF CleanupLocks
  <2>5. /\ worker' \in [Workers -> WorkerState]
        /\ \A v \in Workers :
             worker'[v].pc \in {"locked"} \cup Holding => worker'[v].job \in Row
    BY <2>2, <2>3, <2>4, WorkerType
  <2> QED BY <1>4, <2>5 DEF CleanupLocks, LocksExpired, tables, history, TypeOK, Fault
<1>5. ASSUME NEW w \in Workers, CleanupScan(w) PROVE TypeOK'
  <2>1. PICK found \in SUBSET jobs :
          worker' = [worker EXCEPT ![w] =
            [worker[w] EXCEPT !.pc = IF found = {} THEN "reserve" ELSE "delete",
                              !.ids = {r.id : r \in found}]]
    BY <1>5 DEF CleanupScan, CompletedBefore
  <2> DEFINE s == [worker[w] EXCEPT !.pc = IF found = {} THEN "reserve" ELSE "delete",
                                    !.ids = {r.id : r \in found}]
  <2>2. {r.id : r \in found} \subseteq Ids
    BY DEF TypeOK, Row
  <2>3. worker[w] \in WorkerState
    BY DEF TypeOK
  <2>4. s \in WorkerState /\ s.pc \notin {"locked"} \cup Holding
    BY <2>2, <2>3 DEF WorkerState, Places, Holding
  <2>5. /\ worker' \in [Workers -> WorkerState]
        /\ \A v \in Workers :
             worker'[v].pc \in {"locked"} \cup Holding => worker'[v].job \in Row
    BY <2>1, <2>4, WorkerType
  <2> QED BY <1>5, <2>5 DEF CleanupScan, tables, history, TypeOK
<1>6. ASSUME NEW w \in Workers, CleanupDelete(w) PROVE TypeOK'
  <2> DEFINE s == [worker[w] EXCEPT !.pc = "reserve", !.ids = {}]
  <2>1. worker[w] \in WorkerState /\ now \in Nat
    BY DEF TypeOK
  <2>2. s \in WorkerState
    BY <2>1 DEF WorkerState, Places
  <2>3. s.pc \in {"locked"} \cup Holding => s.job \in Row
    BY <1>6, <2>1 DEF CleanupDelete, WorkerState, Holding, TypeOK
  <2>4. worker' = [worker EXCEPT ![w] = s]
    BY <1>6 DEF CleanupDelete
  <2>5. /\ worker' \in [Workers -> WorkerState]
        /\ \A v \in Workers :
             worker'[v].pc \in {"locked"} \cup Holding => worker'[v].job \in Row
    BY <2>2, <2>3, <2>4, WorkerType
  <2> QED BY <1>6, <2>5 DEF CleanupDelete, tables, history, TypeOK, Fault
<1>7. ASSUME NEW w \in Workers, CleanupError(w) PROVE TypeOK'
  <2> DEFINE s == [worker[w] EXCEPT
       !.pc = IF worker[w].pc = "locks" THEN "scan" ELSE "reserve", !.ids = {}]
  <2>1. worker[w] \in WorkerState /\ now \in Nat
    BY DEF TypeOK
  <2>2. s \in WorkerState
    BY <2>1 DEF WorkerState, Places
  <2>3. s.pc \in {"locked"} \cup Holding => s.job \in Row
    BY <1>7, <2>1 DEF CleanupError, WorkerState, Holding, TypeOK
  <2>4. worker' = [worker EXCEPT ![w] = s]
    BY <1>7 DEF CleanupError
  <2>5. /\ worker' \in [Workers -> WorkerState]
        /\ \A v \in Workers :
             worker'[v].pc \in {"locked"} \cup Holding => worker'[v].job \in Row
    BY <2>2, <2>3, <2>4, WorkerType
  <2> QED BY <1>7, <2>5 DEF CleanupError, tables, history, TypeOK, Fault
<1>8. ASSUME NEW w \in Workers, NEW name \in Queues, SelectJob(w, name)
     PROVE  TypeOK'
  <2>1. PICK r \in jobs :
          worker' = [worker EXCEPT ![w] = [worker[w] EXCEPT !.pc = "locked", !.job = r]]
    BY <1>8 DEF SelectJob, Candidates
  <2> DEFINE s == [worker[w] EXCEPT !.pc = "locked", !.job = r]
  <2>2. worker[w] \in WorkerState /\ r \in Row
    BY DEF TypeOK
  <2>3. s \in WorkerState /\ s.job \in Row
    BY <2>2 DEF WorkerState, Places
  <2>4. /\ worker' \in [Workers -> WorkerState]
        /\ \A v \in Workers :
             worker'[v].pc \in {"locked"} \cup Holding => worker'[v].job \in Row
    BY <2>1, <2>3, WorkerType
  <2> QED BY <1>8, <2>4 DEF SelectJob, tables, history, TypeOK
<1>9. ASSUME NEW w \in Workers, NEW name \in Queues, SelectNone(w, name)
     PROVE  TypeOK'
  <2>1. /\ worker' \in [Workers -> WorkerState]
        /\ \A v \in Workers :
             worker'[v].pc \in {"locked"} \cup Holding => worker'[v].job \in Row
    BY <1>9, IdleType, WorkerType DEF SelectNone
  <2> QED BY <1>9, <2>1 DEF SelectNone, tables, history, TypeOK
<1>10. ASSUME NEW w \in Workers, Reserve(w) PROVE TypeOK'
  <2> DEFINE row == Reserved(w)
             o == Opt[row.req]
             place == IF o.known THEN "run" ELSE "settle"
             beat == now + heartbeatInterval
             limit == IF o.timeout > 0 THEN now + o.timeout ELSE 0
             s == [Idle EXCEPT !.pc = place, !.job = row, !.deadline = row.leased,
                               !.beat = beat, !.limit = limit]
  <2>1. row \in Row
    BY <1>10, ReservedType DEF Reserve
  <2>2. place \in Places /\ row.leased \in Nat /\ beat \in Nat /\ limit \in Nat
    BY <2>1 DEF Row, Options, heartbeatInterval, TypeOK, Places
  <2>3. s \in WorkerState /\ s.job \in Row
    <3> HIDE DEF row, place, beat, limit
    <3> QED BY <2>1, <2>2 DEF WorkerState, Idle
  <2>4. /\ worker' \in [Workers -> WorkerState]
        /\ \A v \in Workers :
             worker'[v].pc \in {"locked"} \cup Holding => worker'[v].job \in Row
    BY <1>10, <2>3, WorkerType DEF Reserve
  <2> QED BY <1>10, <2>1, <2>4 DEF Reserve, Replace, tables, history, TypeOK
<1>11. ASSUME NEW w \in Workers, ReserveError(w) PROVE TypeOK'
  <2>1. jobs' \subseteq Row /\ nextToken' \in Nat
    BY <1>11, ReservedType DEF ReserveError, Replace, TypeOK
  <2>2. /\ worker' \in [Workers -> WorkerState]
        /\ \A v \in Workers :
             worker'[v].pc \in {"locked"} \cup Holding => worker'[v].job \in Row
    BY <1>11, IdleType, WorkerType DEF ReserveError
  <2> QED BY <1>11, <2>1, <2>2 DEF ReserveError, history, TypeOK, Fault
<1>12. ASSUME NEW w \in Workers, Heartbeat(w) PROVE TypeOK'
  <2> DEFINE held == Leased(worker[w].job)
             until == now + Reservation
             beat == now + heartbeatInterval
             deadline == IF held = {} THEN worker[w].deadline ELSE until
             s == [worker[w] EXCEPT !.beat = beat, !.deadline = deadline]
  <2>1. worker[w] \in WorkerState /\ worker[w].job \in Row
    BY <1>12 DEF Heartbeat, TypeOK
  <2>2. until \in Nat /\ beat \in Nat /\ deadline \in Nat
    BY <2>1 DEF TypeOK, heartbeatInterval, WorkerState
  <2>3. s \in WorkerState /\ s.job \in Row
    <3> HIDE DEF beat, deadline
    <3> QED BY <2>1, <2>2 DEF WorkerState
  <2>4. /\ worker' \in [Workers -> WorkerState]
        /\ \A v \in Workers :
             worker'[v].pc \in {"locked"} \cup Holding => worker'[v].job \in Row
    BY <1>12, <2>3, WorkerType DEF Heartbeat
  <2>5. \A r \in held : [r EXCEPT !.leased = until] \in Row
    BY <2>2 DEF Leased, TypeOK, Row
  <2>6. jobs' \subseteq Row
    BY <1>12, <2>5 DEF Heartbeat, TypeOK
  <2> QED BY <1>12, <2>4, <2>6 DEF Heartbeat, history, TypeOK
<1>13. ASSUME NEW w \in Workers, NEW ok \in BOOLEAN, HandlerReturns(w, ok) PROVE TypeOK'
  <2> DEFINE s == [worker[w] EXCEPT !.pc = "settle", !.ok = ok]
  <2>1. worker[w] \in WorkerState /\ now \in Nat
    BY DEF TypeOK
  <2>2. s \in WorkerState
    BY <2>1 DEF WorkerState, Places
  <2>3. s.pc \in {"locked"} \cup Holding => s.job \in Row
    BY <1>13, <2>1 DEF HandlerReturns, WorkerState, Holding, TypeOK
  <2>4. worker' = [worker EXCEPT ![w] = s]
    BY <1>13 DEF HandlerReturns
  <2>5. /\ worker' \in [Workers -> WorkerState]
        /\ \A v \in Workers :
             worker'[v].pc \in {"locked"} \cup Holding => worker'[v].job \in Row
    BY <2>2, <2>3, <2>4, WorkerType
  <2> QED BY <1>13, <2>5 DEF HandlerReturns, tables, history, TypeOK, Fault
<1>14. ASSUME NEW w \in Workers, Complete(w) PROVE TypeOK'
  <2> DEFINE job == worker[w].job
             o == Opt[job.req]
             held == Leased(job)
  <2>1. /\ worker' \in [Workers -> WorkerState]
        /\ \A v \in Workers :
             worker'[v].pc \in {"locked"} \cup Holding => worker'[v].job \in Row
    BY <1>14, IdleType, WorkerType DEF Complete
  <2>2. o \in Options /\ held \subseteq jobs
    BY <1>14 DEF Complete, TypeOK, Holding, Row, Leased
  <2>3. now + o.retention \in Nat /\ o.queue \in Queues
    BY <2>2 DEF Options, TypeOK
  <2>4. \A r \in held : /\ r.seq \in Nat
                       /\ [r EXCEPT !.status = "completed", !.expires = now + o.retention,
                                    !.token = 0, !.leased = 0] \in Row
    <3> TAKE r \in held
    <3>1. r \in Row /\ "completed" \in Status
      BY <2>2 DEF TypeOK, Status
    <3> HIDE DEF o, held
    <3> QED BY <2>3, <3>1, RowUpdate DEF Row
  <2>5. taskLocks' \subseteq TaskIDs
    BY <1>14 DEF Complete, TypeOK
  <2>6. jobs' \subseteq Row
    <3>1. CASE o.retention <= 0
      BY <1>14, <3>1 DEF Complete, TypeOK
    <3>2. CASE ~(o.retention <= 0)
      <4>1. jobs' = (jobs \ held) \cup
              {[r EXCEPT !.status = "completed", !.expires = now + o.retention,
                         !.token = 0, !.leased = 0] : r \in held}
        BY <1>14, <3>2 DEF Complete
      <4> HIDE DEF o, held
      <4> QED BY <2>4, <4>1 DEF TypeOK
    <3> QED BY <3>1, <3>2
  <2>7. processed' \in [Queues -> Nat]
    <3>1. processed' = IF held = {} THEN processed
                       ELSE [processed EXCEPT ![o.queue] = processed[o.queue] + 1]
      BY <1>14 DEF Complete
    <3>2. processed \in [Queues -> Nat] /\ processed[o.queue] + 1 \in Nat
      BY <2>3 DEF TypeOK
    <3> HIDE DEF o, held
    <3> QED BY <3>1, <3>2
  <2>8. done' \in [Queues -> SUBSET Nat]
    <3> DEFINE finished == {r.seq : r \in held}
    <3>1. done' = [done EXCEPT ![o.queue] = done[o.queue] \cup finished]
      BY <1>14 DEF Complete
    <3>2. done \in [Queues -> SUBSET Nat] /\ finished \subseteq Nat
      BY <2>4 DEF TypeOK
    <3> HIDE DEF o, held, finished
    <3> QED BY <2>3, <3>1, <3>2
  <2> QED BY <1>14, <2>1, <2>5, <2>6, <2>7, <2>8 DEF Complete, TypeOK
<1>15. ASSUME NEW w \in Workers, Fail(w) PROVE TypeOK'
  <2> DEFINE job == worker[w].job
             held == Leased(job)
             later == IF exhausted(job) THEN now ELSE now + retryDelay(job.attempts)
             status == IF exhausted(job) THEN "failed" ELSE "retry"
  <2>1. /\ worker' \in [Workers -> WorkerState]
        /\ \A v \in Workers :
             worker'[v].pc \in {"locked"} \cup Holding => worker'[v].job \in Row
    BY <1>15, IdleType, WorkerType DEF Fail
  <2>2. job \in Row /\ held \subseteq jobs
    BY <1>15 DEF Fail, TypeOK, Holding, Leased
  <2>3. later \in Nat /\ status \in Status
    BY <2>2, RetryDelayType DEF TypeOK, Row, Status, Waiting
  <2>4. \A r \in held :
          [r EXCEPT !.status = status, !.available = later,
                    !.token = 0, !.leased = 0] \in Row
    <3> TAKE r \in held
    <3>1. r \in Row
      BY <2>2 DEF TypeOK
    <3> HIDE DEF later, status, held
    <3> QED BY <2>3, <3>1, RowUpdate
  <2>5. jobs' \subseteq Row
    <3>1. jobs' = (jobs \ held) \cup
            {[r EXCEPT !.status = status, !.available = later,
                       !.token = 0, !.leased = 0] : r \in held}
      BY <1>15 DEF Fail
    <3> HIDE DEF later, status, held
    <3> QED BY <2>4, <3>1 DEF TypeOK
  <2> QED BY <1>15, <2>1, <2>5 DEF Fail, history, TypeOK
<1>16. ASSUME NEW w \in Workers, SettleError(w) PROVE TypeOK'
  <2>1. /\ worker' \in [Workers -> WorkerState]
        /\ \A v \in Workers :
             worker'[v].pc \in {"locked"} \cup Holding => worker'[v].job \in Row
    BY <1>16, IdleType, WorkerType DEF SettleError
  <2> QED BY <1>16, <2>1 DEF SettleError, tables, history, TypeOK, Fault
<1>17. ASSUME NEW p \in Procs, Shutdown(p) PROVE TypeOK'
  BY <1>17 DEF Shutdown, tables, history, TypeOK, Fault
<1>18. ASSUME NEW p \in Procs, Exit(p) \/ Crash(p) PROVE TypeOK'
  <2>1. Restarted(p) /\ faults' \in Nat
    BY <1>18 DEF Exit, Crash, Fault, TypeOK
  <2> QED BY <2>1, IdleType DEF Restarted, tables, history, TypeOK
<1>19. ASSUME NEW name \in Queues, Retry(name) PROVE TypeOK'
  <2>1. PICK rows \in SUBSET jobs :
          jobs' = (jobs \ rows) \cup
            {[r EXCEPT !.status = "retry", !.attempts = 0, !.available = now] : r \in rows}
    BY <1>19 DEF Retry, Chosen, FailedRows
  <2>2. \A r \in rows :
          [r EXCEPT !.status = "retry", !.attempts = 0, !.available = now] \in Row
    BY RowUpdate DEF TypeOK, Status, Waiting
  <2>3. jobs' \subseteq Row
    BY <2>1, <2>2 DEF TypeOK
  <2> QED BY <1>19, <2>3 DEF Retry, history, TypeOK
<1>20. ASSUME NEW name \in Queues, Delete(name) PROVE TypeOK'
  <2>1. \A rows \in Chosen(name) : rows \subseteq jobs
    BY DEF Chosen, FailedRows
  <2>2. dropped' \subseteq Nat
    BY <1>20, <2>1 DEF Delete, TypeOK, Row
  <2>3. window' \in [Keys -> Nat]
    BY <1>20 DEF Delete, TypeOK
  <2> QED BY <1>20, <2>2, <2>3 DEF Delete, TypeOK
<1>21. CASE UNCHANGED vars
  BY <1>21 DEF vars, tables, history, TypeOK
<1> QED
  BY <1>1, <1>2, <1>3, <1>4, <1>5, <1>6, <1>7, <1>8, <1>9, <1>10, <1>11, <1>12, <1>13, <1>14, <1>15, <1>16, <1>17, <1>18, <1>19, <1>20, <1>21
  DEF Next, Serve, WorkerStep

\* Every variable keeps its type in every reachable state.
THEOREM TypeCorrect == Spec => []TypeOK
BY InitType, NextType, PTL DEF Spec

-----------------------------------------------------------------------------
(* Leases.                                                                  *)

LEMMA LeaseInit == Init => LeaseInv
<1> SUFFICES ASSUME Init PROVE LeaseInv
  OBVIOUS
<1>1. TypeOK
  BY InitType
<1>2. \A w \in Workers : worker[w].pc \notin {"locked"} \cup Holding /\ worker[w].at = 0
  BY DEF Init, Idle, Holding
<1> QED
  BY <1>1, <1>2 DEF Init, LeaseInv, Fresh, RowsApart, LockHeld, LocksApart,
     TokensApart, LeaseHeld, LeaseExclusive, Holds, Holding

\* A worker that keeps, or gives up, what it was doing.
Keeps(w) ==
  \/ worker'[w] = worker[w]
  \/ /\ worker[w].pc \in Holding /\ worker'[w].pc \in Holding
     /\ worker'[w].job = worker[w].job /\ worker'[w].deadline = worker[w].deadline
     /\ worker'[w].at = worker[w].at
  \/ worker'[w].pc \notin {"locked"} \cup Holding /\ worker'[w].at <= now'

\* A row that a step wrote: no lease that lasts covered what it replaces, and no
\* worker has its token.
Written(r) ==
  /\ r.status = "active" => r.token >= nextToken
  /\ r.seq < nextSeq' /\ r.token < nextToken'
  /\ \/ r.seq >= nextSeq
     \/ \E o \in jobs :
          /\ o.seq = r.seq
          /\ \A v \in Workers :
               worker'[v].pc \in Holding /\ worker'[v].deadline > now' =>
                 ~(o.status = "active" /\ o.token = worker'[v].job.token)

\* Steps in which no worker gains a job or a lease.
LEMMA QuietStep ==
  ASSUME LeaseInv, TypeOK', RowsApart',
         now' >= now, nextSeq' >= nextSeq, nextToken' >= nextToken,
         \A w \in Workers : Keeps(w),
         \A r \in jobs' \ jobs : Written(r),
         \A r \in jobs \ jobs' : \A v \in Workers :
           worker'[v].pc = "locked" => worker'[v].job # r
  PROVE  LeaseInv'
<1>1. \A w \in Workers : worker'[w].pc = "locked" => worker'[w] = worker[w]
  BY DEF Keeps, Holding
<1>2. \A w \in Workers : worker'[w].pc \in Holding =>
         /\ worker[w].pc \in Holding
         /\ worker'[w].job = worker[w].job /\ worker'[w].deadline = worker[w].deadline
         /\ worker'[w].at = worker[w].at
  BY DEF Keeps, Holding
<1>3. \A w \in Workers : worker'[w].at = worker[w].at \/ worker'[w].at <= now'
  BY DEF Keeps
<1>t. /\ now \in Nat /\ now' \in Nat /\ nextSeq \in Nat /\ nextSeq' \in Nat
      /\ nextToken \in Nat /\ nextToken' \in Nat
      /\ \A r \in jobs \cup jobs' : r.seq \in Nat /\ r.token \in Nat
      /\ \A w \in Workers : /\ worker[w].at \in Nat
                            /\ worker[w].deadline \in Nat
                            /\ worker[w].pc \in {"locked"} \cup Holding =>
                                 worker[w].job.seq \in Nat /\ worker[w].job.token \in Nat
  <2>1. TypeOK /\ TypeOK'
    BY DEF LeaseInv
  <2>2. \A r \in Row : r.seq \in Nat /\ r.token \in Nat
    BY DEF Row
  <2>3. \A x \in WorkerState : x.at \in Nat /\ x.deadline \in Nat
    BY DEF WorkerState
  <2> QED BY <2>1, <2>2, <2>3 DEF TypeOK
<1>4. Fresh'
  BY <1>1, <1>2, <1>t DEF LeaseInv, Fresh, Written
<1>5. LockHeld'
  BY <1>1, <1>3, <1>t DEF LeaseInv, LockHeld, Eligible
<1>6. LocksApart'
  BY <1>1 DEF LeaseInv, LocksApart
<1>7. TokensApart'
  <2>1. \A r \in jobs' : \A w \in Workers :
          worker'[w].pc \in Holding /\ r.status = "active" /\ r.token = worker'[w].job.token
            => r \in jobs
    BY <1>2, <1>t DEF LeaseInv, Fresh, Written
  <2> QED BY <1>2, <2>1 DEF LeaseInv, TokensApart
<1>8. LeaseHeld'
  <2> SUFFICES ASSUME NEW w \in Workers, Holds(w)', NEW r \in jobs',
                      r.seq = worker'[w].job.seq
               PROVE  r \in Leased(worker[w].job)' /\ r.leased = worker'[w].deadline
    BY DEF LeaseHeld
  <2>1. Holds(w) /\ worker'[w].job = worker[w].job /\ worker'[w].deadline = worker[w].deadline
    BY <1>2, <1>t DEF Holds
  <2>2. r \in jobs
    <3>1. \A o \in jobs : o.seq = r.seq =>
            o.status = "active" /\ o.token = worker'[w].job.token
      BY <2>1 DEF LeaseInv, LeaseHeld, Leased
    <3>2. r.seq < nextSeq
      BY <2>1 DEF LeaseInv, Fresh, Holds
    <3> QED BY <1>t, <3>1, <3>2 DEF Holds, Written
  <2> QED BY <2>1, <2>2 DEF LeaseInv, LeaseHeld, Leased
<1>9. LeaseExclusive'
  BY <1>2, <1>t DEF LeaseInv, LeaseExclusive, Holds
<1> QED BY <1>4, <1>5, <1>6, <1>7, <1>8, <1>9 DEF LeaseInv

\* Steps that leave queue_jobs alone and in which no worker gains anything.
LEMMA QuietWorkers ==
  ASSUME LeaseInv, TypeOK', UNCHANGED <<jobs, nextSeq, nextToken>>, now' >= now,
         \A w \in Workers : Keeps(w)
  PROVE  LeaseInv'
<1>1. RowsApart'
  BY DEF LeaseInv, RowsApart
<1>2. nextSeq \in Nat /\ nextToken \in Nat
  BY DEF LeaseInv, TypeOK
<1> QED BY <1>1, <1>2, QuietStep

\* A worker that steps alone keeps its promise if it ends up idle.
LEMMA GoesIdle ==
  ASSUME LeaseInv, UNCHANGED now, NEW w \in Workers,
         worker' = [worker EXCEPT ![w] = Idle]
  PROVE  \A v \in Workers : Keeps(v)
<1>1. worker \in [Workers -> WorkerState] /\ now \in Nat
  BY DEF LeaseInv, TypeOK
<1>2. worker'[w] = Idle /\ \A v \in Workers \ {w} : worker'[v] = worker[v]
  BY <1>1
<1> QED BY <1>1, <1>2 DEF Keeps, Idle, Holding

\* A reservation that commits takes a row no unexpired lease covers.
LEMMA SelectedRow ==
  ASSUME LeaseInv, NEW w \in Workers, worker[w].pc = "locked"
  PROVE  LET job == worker[w].job
             row == Reserved(w)
         IN /\ job \in jobs /\ job \in Row /\ worker[w].at \in Nat
            /\ row.id = job.id /\ row.seq = job.seq /\ row.status = "active"
            /\ row.token = nextToken /\ row.leased = worker[w].at + Reservation
            /\ \A v \in Workers : Holds(v) => worker[v].job.seq # job.seq
<1> DEFINE job == worker[w].job
<1>1. /\ job \in jobs /\ job \in Row /\ Eligible(job, worker[w].at) /\ worker[w].at <= now
      /\ worker[w].at \in Nat /\ now \in Nat
  BY DEF LeaseInv, LockHeld, TypeOK, WorkerState
<1>2. ASSUME NEW v \in Workers, Holds(v), worker[v].job.seq = job.seq PROVE FALSE
  <2>1. job.status = "active" /\ job.leased = worker[v].deadline
    BY <1>1, <1>2 DEF LeaseInv, LeaseHeld, Leased
  <2>2. job.leased \in Nat
    BY <1>1 DEF Row
  <2> QED BY <1>1, <1>2, <2>1, <2>2 DEF Eligible, Holds, Waiting
<1> QED BY <1>1, <1>2 DEF Reserved, Row

LEMMA LeaseNext == LeaseInv /\ [Next]_vars => LeaseInv'
<1> SUFFICES ASSUME LeaseInv, [Next]_vars PROVE LeaseInv'
  OBVIOUS
<1>t. TypeOK'
  BY NextType DEF LeaseInv
<1>u. /\ worker \in [Workers -> WorkerState] /\ now \in Nat
      /\ nextSeq \in Nat /\ nextToken \in Nat
  BY DEF LeaseInv, TypeOK
<1>1. CASE Tick
  <2>1. now' >= now /\ \A w \in Workers : Keeps(w)
    BY <1>1, <1>u DEF Tick, Keeps
  <2> QED BY <1>1, <1>t, <2>1, QuietWorkers DEF Tick, tables
<1>2. ASSUME NEW q \in Requests, NEW t \in ClockReadings, Dispatch(q, t)
     PROVE  LeaseInv'
  <2> DEFINE row == [id |-> chooseJobID(q), req |-> q, seq |-> nextSeq, status |-> "pending",
                     attempts |-> 0, available |-> t + Opt[q].delay, token |-> 0,
                     leased |-> 0, expires |-> 0]
  <2>1. /\ jobs' = jobs \cup {row} /\ \A r \in jobs : r.id # row.id
        /\ nextSeq' = nextSeq + 1
        /\ UNCHANGED <<now, worker, nextToken>>
    BY <1>2 DEF Dispatch, DuplicateKey, RowsOf
  <2>2. RowsApart'
    BY <2>1, <1>u DEF LeaseInv, Fresh, RowsApart
  <2>3. \A r \in jobs' \ jobs : Written(r)
    BY <2>1, <1>u DEF LeaseInv, Fresh, Written
  <2>4. \A w \in Workers : Keeps(w)
    BY <2>1 DEF Keeps
  <2> QED BY <1>t, <1>u, <2>1, <2>2, <2>3, <2>4, QuietStep
<1>3. ASSUME NEW w \in Workers, StartReserve(w) PROVE LeaseInv'
  <2>1. /\ worker'[w].pc \notin {"locked"} \cup Holding /\ worker'[w].at <= now
        /\ \A v \in Workers \ {w} : worker'[v] = worker[v]
    BY <1>3, <1>u DEF StartReserve, LeaseInv, LockHeld, WorkerState, Holding, Idle
  <2>2. \A v \in Workers : Keeps(v)
    BY <1>3, <2>1 DEF StartReserve, Keeps
  <2> QED BY <1>3, <1>t, <1>u, <2>2, QuietWorkers DEF StartReserve, tables
<1>4. ASSUME NEW w \in Workers, CleanupLocks(w) PROVE LeaseInv'
  <2>1. /\ worker'[w].pc \notin {"locked"} \cup Holding /\ worker'[w].at <= now
        /\ \A v \in Workers \ {w} : worker'[v] = worker[v]
    BY <1>4, <1>u DEF CleanupLocks, LeaseInv, LockHeld, WorkerState, Holding
  <2>2. \A v \in Workers : Keeps(v)
    BY <1>4, <2>1 DEF CleanupLocks, Keeps
  <2> QED BY <1>4, <1>t, <1>u, <2>2, QuietWorkers DEF CleanupLocks, tables
<1>5. ASSUME NEW w \in Workers, CleanupError(w) PROVE LeaseInv'
  <2>1. /\ worker'[w].pc \notin {"locked"} \cup Holding /\ worker'[w].at <= now
        /\ \A v \in Workers \ {w} : worker'[v] = worker[v]
    BY <1>5, <1>u DEF CleanupError, LeaseInv, LockHeld, WorkerState, Holding
  <2>2. \A v \in Workers : Keeps(v)
    BY <1>5, <2>1 DEF CleanupError, Keeps
  <2> QED BY <1>5, <1>t, <1>u, <2>2, QuietWorkers DEF CleanupError, tables
<1>6. ASSUME NEW w \in Workers, CleanupScan(w) PROVE LeaseInv'
  <2>1. /\ worker'[w].pc \notin {"locked"} \cup Holding /\ worker'[w].at <= now
        /\ \A v \in Workers \ {w} : worker'[v] = worker[v]
    BY <1>6, <1>u DEF CleanupScan, LeaseInv, LockHeld, WorkerState, Holding
  <2>2. \A v \in Workers : Keeps(v)
    BY <1>6, <2>1 DEF CleanupScan, Keeps
  <2> QED BY <1>6, <1>t, <1>u, <2>2, QuietWorkers DEF CleanupScan, tables
<1>7. ASSUME NEW w \in Workers, CleanupDelete(w) PROVE LeaseInv'
  <2>1. /\ worker'[w].pc = "reserve" /\ worker'[w].at <= now
        /\ \A v \in Workers \ {w} : worker'[v] = worker[v]
    BY <1>7, <1>u DEF CleanupDelete, LeaseInv, LockHeld, WorkerState
  <2>2. \A v \in Workers : Keeps(v)
    BY <1>7, <2>1 DEF CleanupDelete, Keeps, Holding
  <2>3. jobs' \subseteq jobs /\ RowsApart'
    BY <1>7 DEF CleanupDelete, LeaseInv, RowsApart
  <2>4. \A r \in jobs \ jobs' : \A v \in Workers :
          worker'[v].pc = "locked" => worker'[v].job # r
    BY <1>7, <2>1 DEF CleanupDelete, RowFree
  <2> QED BY <1>7, <1>t, <1>u, <2>2, <2>3, <2>4, QuietStep DEF CleanupDelete
<1>8. ASSUME NEW w \in Workers, NEW name \in Queues, SelectNone(w, name)
     PROVE  LeaseInv'
  <2>1. \A v \in Workers : Keeps(v)
    BY <1>8, GoesIdle DEF SelectNone
  <2> QED BY <1>8, <1>t, <1>u, <2>1, QuietWorkers DEF SelectNone, tables
<1>9. ASSUME NEW w \in Workers, NEW ok \in BOOLEAN, HandlerReturns(w, ok)
     PROVE  LeaseInv'
  <2>1. /\ worker'[w] = [worker[w] EXCEPT !.pc = "settle", !.ok = ok]
        /\ \A v \in Workers \ {w} : worker'[v] = worker[v]
    BY <1>9, <1>u DEF HandlerReturns
  <2>2. worker[w] \in WorkerState
    BY <1>u
  <2>3. Keeps(w)
    BY <1>9, <2>1, <2>2 DEF HandlerReturns, Keeps, Holding, WorkerState
  <2>4. \A v \in Workers : Keeps(v)
    BY <2>1, <2>3 DEF Keeps
  <2> QED BY <1>9, <1>t, <1>u, <2>4, QuietWorkers DEF HandlerReturns, tables
<1>10. ASSUME NEW w \in Workers, SettleError(w) PROVE LeaseInv'
  <2>1. \A v \in Workers : Keeps(v)
    BY <1>10, GoesIdle DEF SettleError
  <2> QED BY <1>10, <1>t, <1>u, <2>1, QuietWorkers DEF SettleError, tables
<1>11. ASSUME NEW p \in Procs, Shutdown(p) PROVE LeaseInv'
  <2>1. \A v \in Workers : Keeps(v)
    BY <1>11 DEF Shutdown, Keeps
  <2> QED BY <1>11, <1>t, <1>u, <2>1, QuietWorkers DEF Shutdown, tables
<1>12. ASSUME NEW p \in Procs, Exit(p) \/ Crash(p) PROVE LeaseInv'
  <2>1. Restarted(p)
    BY <1>12 DEF Exit, Crash
  <2>2. \A v \in Workers : Keeps(v)
    BY <2>1, <1>u DEF Restarted, Keeps, Idle, Holding
  <2> QED BY <1>t, <1>u, <2>1, <2>2, QuietWorkers DEF Restarted, tables
<1>13. CASE UNCHANGED vars
  <2>1. \A v \in Workers : Keeps(v)
    BY <1>13 DEF vars, Keeps
  <2> QED BY <1>13, <1>t, <1>u, <2>1, QuietWorkers DEF vars, tables
<1>14. ASSUME NEW name \in Queues, Delete(name) PROVE LeaseInv'
  <2>1. PICK rows \in Chosen(name) : jobs' = jobs \ {r \in jobs : r.id \in {s.id : s \in rows}}
    BY <1>14 DEF Delete
  <2>2. \A r \in rows : r \in jobs /\ r.status = "failed"
    BY DEF Chosen, FailedRows
  <2>3. UNCHANGED <<now, worker, nextSeq, nextToken>>
    BY <1>14 DEF Delete
  <2>4. jobs' \subseteq jobs /\ RowsApart'
    BY <2>1 DEF LeaseInv, RowsApart
  <2>5. \A r \in jobs \ jobs' : r.status = "failed"
    BY <2>1, <2>2 DEF LeaseInv, RowsApart
  <2>6. \A r \in jobs \ jobs' : \A v \in Workers :
          worker'[v].pc = "locked" => worker'[v].job # r
    BY <2>3, <2>5 DEF LeaseInv, LockHeld, Eligible, Waiting
  <2>7. \A v \in Workers : Keeps(v)
    BY <2>3 DEF Keeps
  <2> QED BY <1>t, <1>u, <2>3, <2>4, <2>6, <2>7, QuietStep
<1>15. ASSUME NEW name \in Queues, Retry(name) PROVE LeaseInv'
  <2> DEFINE new(r) == [r EXCEPT !.status = "retry", !.attempts = 0, !.available = now]
  <2>1. PICK rows \in Chosen(name) : jobs' = (jobs \ rows) \cup {new(r) : r \in rows}
    BY <1>15 DEF Retry
  <2>2. UNCHANGED <<now, worker, nextSeq, nextToken>>
    BY <1>15 DEF Retry
  <2>3. \A r \in rows : r \in jobs /\ r \in Row /\ r.status = "failed"
    BY DEF Chosen, FailedRows, LeaseInv, TypeOK
  <2>4. \A r \in rows : /\ new(r).id = r.id /\ new(r).seq = r.seq
                       /\ new(r).token = r.token /\ new(r).status = "retry"
    BY <2>3 DEF Row
  <2> HIDE DEF new
  <2>5. RowsApart'
    BY <2>1, <2>3, <2>4 DEF LeaseInv, RowsApart
  <2>6. \A r \in jobs' \ jobs : Written(r)
    <3> SUFFICES ASSUME NEW o \in rows PROVE Written(new(o))
      BY <2>1
    <3> QED BY <2>2, <2>3, <2>4 DEF Written, LeaseInv, Fresh
  <2>7. \A r \in jobs \ jobs' : \A v \in Workers :
          worker'[v].pc = "locked" => worker'[v].job # r
    BY <2>1, <2>2, <2>3 DEF LeaseInv, LockHeld, Eligible, Waiting
  <2>8. \A v \in Workers : Keeps(v)
    BY <2>2 DEF Keeps
  <2> QED BY <1>t, <1>u, <2>2, <2>5, <2>6, <2>7, <2>8, QuietStep
<1>16. ASSUME NEW w \in Workers, Complete(w) PROVE LeaseInv'
  <2> DEFINE job == worker[w].job
             held == Leased(job)
             new(r) == [r EXCEPT !.status = "completed",
                         !.expires = now + Opt[job.req].retention, !.token = 0, !.leased = 0]
  <2>1. /\ worker[w].pc \in Holding
        /\ jobs' = jobs \ held \/ jobs' = (jobs \ held) \cup {new(r) : r \in held}
        /\ \A r \in held : RowFree(r)
        /\ worker' = [worker EXCEPT ![w] = Idle]
        /\ UNCHANGED <<now, nextSeq, nextToken>>
    BY <1>16 DEF Complete, Holding
  <2>2. \A v \in Workers : Keeps(v)
    BY <2>1, GoesIdle
  <2>3. worker'[w].pc = "loop" /\ \A v \in Workers \ {w} : worker'[v] = worker[v]
    BY <2>1, <1>u DEF Idle
  <2>4. \A r \in held : r \in jobs /\ r \in Row /\ r.token = job.token
    BY DEF Leased, LeaseInv, TypeOK
  <2>5. \A r \in held : /\ new(r).id = r.id /\ new(r).seq = r.seq
                       /\ new(r).token = 0 /\ new(r).status # "active"
    BY <2>4 DEF Row
  <2> HIDE DEF new, held
  <2>6. RowsApart'
    BY <2>1, <2>4, <2>5 DEF LeaseInv, RowsApart
  <2>7. \A r \in jobs' \ jobs : Written(r)
    <3> SUFFICES ASSUME NEW o \in held PROVE Written(new(o))
      BY <2>1
    <3>1. \A v \in Workers : worker'[v].pc \in Holding => ~(o.token = worker'[v].job.token)
      BY <2>1, <2>3, <2>4 DEF LeaseInv, TokensApart, Holding
    <3> QED BY <1>u, <2>1, <2>4, <2>5, <3>1 DEF Written, LeaseInv, Fresh
  <2>8. \A r \in jobs \ jobs' : \A v \in Workers :
          worker'[v].pc = "locked" => worker'[v].job # r
    BY <2>1, <2>3, <2>4 DEF RowFree
  <2> QED BY <1>t, <1>u, <2>1, <2>2, <2>6, <2>7, <2>8, QuietStep
<1>17. ASSUME NEW w \in Workers, Fail(w) PROVE LeaseInv'
  <2> DEFINE job == worker[w].job
             held == Leased(job)
             status == IF exhausted(job) THEN "failed" ELSE "retry"
             later == IF exhausted(job) THEN now ELSE now + retryDelay(job.attempts)
             new(r) == [r EXCEPT !.status = status, !.available = later,
                                 !.token = 0, !.leased = 0]
  <2>1. /\ worker[w].pc \in Holding
        /\ jobs' = jobs \ held \/ jobs' = (jobs \ held) \cup {new(r) : r \in held}
        /\ \A r \in held : RowFree(r)
        /\ worker' = [worker EXCEPT ![w] = Idle]
        /\ UNCHANGED <<now, nextSeq, nextToken>>
    BY <1>17 DEF Fail, Holding
  <2>2. \A v \in Workers : Keeps(v)
    BY <2>1, GoesIdle
  <2>3. worker'[w].pc = "loop" /\ \A v \in Workers \ {w} : worker'[v] = worker[v]
    BY <2>1, <1>u DEF Idle
  <2>4. \A r \in held : r \in jobs /\ r \in Row /\ r.token = job.token
    BY DEF Leased, LeaseInv, TypeOK
  <2>5. \A r \in held : /\ new(r).id = r.id /\ new(r).seq = r.seq
                       /\ new(r).token = 0 /\ new(r).status # "active"
    BY <2>4 DEF Row
  <2> HIDE DEF new, held
  <2>6. RowsApart'
    BY <2>1, <2>4, <2>5 DEF LeaseInv, RowsApart
  <2>7. \A r \in jobs' \ jobs : Written(r)
    <3> SUFFICES ASSUME NEW o \in held PROVE Written(new(o))
      BY <2>1
    <3>1. \A v \in Workers : worker'[v].pc \in Holding => ~(o.token = worker'[v].job.token)
      BY <2>1, <2>3, <2>4 DEF LeaseInv, TokensApart, Holding
    <3> QED BY <1>u, <2>1, <2>4, <2>5, <3>1 DEF Written, LeaseInv, Fresh
  <2>8. \A r \in jobs \ jobs' : \A v \in Workers :
          worker'[v].pc = "locked" => worker'[v].job # r
    BY <2>1, <2>3, <2>4 DEF RowFree
  <2> QED BY <1>t, <1>u, <2>1, <2>2, <2>6, <2>7, <2>8, QuietStep
<1>18. ASSUME NEW w \in Workers, NEW name \in Queues, SelectJob(w, name)
     PROVE  LeaseInv'
  <2>1. PICK r \in Candidates(w, name) :
          worker' = [worker EXCEPT ![w] = [worker[w] EXCEPT !.pc = "locked", !.job = r]]
    BY <1>18 DEF SelectJob
  <2>2. /\ worker'[w].pc = "locked" /\ worker'[w].job = r /\ worker'[w].at = worker[w].at
        /\ \A v \in Workers \ {w} : worker'[v] = worker[v]
    BY <2>1, <1>u DEF WorkerState
  <2>3. r \in jobs /\ Eligible(r, worker[w].at) /\ RowFree(r)
    BY DEF Candidates
  <2>4. UNCHANGED <<now, jobs, nextSeq, nextToken>>
    BY <1>18 DEF SelectJob, tables
  <2>5. Fresh' /\ RowsApart'
    BY <2>2, <2>3, <2>4 DEF LeaseInv, Fresh, RowsApart, Holding
  <2>6. LockHeld'
    BY <2>2, <2>3, <2>4 DEF LeaseInv, LockHeld, Eligible
  <2>7. LocksApart'
    BY <2>2, <2>3 DEF LeaseInv, LocksApart, RowFree
  <2>8. TokensApart'
    BY <2>2, <2>4 DEF LeaseInv, TokensApart, Holding
  <2>9. LeaseHeld' /\ LeaseExclusive'
    BY <2>2, <2>4 DEF LeaseInv, LeaseHeld, LeaseExclusive, Holds, Leased, Holding
  <2> QED BY <1>t, <2>5, <2>6, <2>7, <2>8, <2>9 DEF LeaseInv
<1>19. ASSUME NEW w \in Workers, Reserve(w) PROVE LeaseInv'
  <2> DEFINE job == worker[w].job
             row == Reserved(w)
  <2>1. worker[w].pc = "locked" /\ job \in jobs /\ job \in Row
    BY <1>19, SelectedRow DEF Reserve
  <2>2. /\ row.id = job.id /\ row.seq = job.seq /\ row.status = "active"
        /\ row.token = nextToken /\ row.leased = worker[w].at + Reservation
    BY <2>1, SelectedRow
  <2>3. \A v \in Workers : Holds(v) => worker[v].job.seq # job.seq
    BY <2>1, SelectedRow
  <2>4. /\ jobs' = (jobs \ {job}) \cup {row} /\ nextToken' = nextToken + 1
        /\ UNCHANGED <<now, nextSeq>>
    BY <1>19 DEF Reserve, Replace
  <2>5. /\ worker'[w].pc \in Holding /\ worker'[w].job = row /\ worker'[w].at = 0
        /\ worker'[w].deadline = row.leased
        /\ \A v \in Workers \ {w} : worker'[v] = worker[v]
    BY <1>19, <1>u DEF Reserve, Idle, Holding
  <2> HIDE DEF job, row
  <2>t. /\ \A v \in Workers : worker[v].at \in Nat
        /\ \A r \in jobs : r.seq \in Nat /\ r.token \in Nat
        /\ \A v \in Workers : worker[v].pc \in {"locked"} \cup Holding =>
             worker[v].job.seq \in Nat /\ worker[v].job.token \in Nat
    BY <1>u DEF LeaseInv, TypeOK, WorkerState, Row
  <2>6. Fresh'
    BY <2>1, <2>2, <2>4, <2>5, <2>t, <1>u DEF LeaseInv, Fresh
  <2>7. RowsApart'
    BY <2>1, <2>2, <2>4 DEF LeaseInv, RowsApart
  <2>8. LockHeld'
    BY <2>1, <2>4, <2>5, <1>u DEF LeaseInv, LockHeld, LocksApart, Eligible, Holding, job
  <2>9. LocksApart'
    BY <2>5 DEF LeaseInv, LocksApart, Holding
  <2>10. TokensApart'
    BY <2>1, <2>2, <2>4, <2>5, <2>t, <1>u DEF LeaseInv, TokensApart, Fresh
  <2>11. LeaseHeld'
    <3> SUFFICES ASSUME NEW v \in Workers, Holds(v)', NEW r \in jobs',
                        r.seq = worker'[v].job.seq
                 PROVE  r \in Leased(worker[v].job)' /\ r.leased = worker'[v].deadline
      BY DEF LeaseHeld
    <3>1. CASE v = w
      <4>1. r = row
        BY <3>1, <2>1, <2>2, <2>4, <2>5 DEF LeaseInv, RowsApart
      <4> QED BY <3>1, <4>1, <2>2, <2>5 DEF Leased
    <3>2. CASE v # w
      <4>1. Holds(v) /\ worker'[v] = worker[v]
        BY <3>2, <2>4, <2>5 DEF Holds
      <4>2. r \in jobs
        BY <4>1, <2>2, <2>3, <2>4
      <4> QED BY <4>1, <4>2 DEF LeaseInv, LeaseHeld, Leased
    <3> QED BY <3>1, <3>2
  <2>12. LeaseExclusive'
    BY <2>2, <2>3, <2>4, <2>5 DEF LeaseInv, LeaseExclusive, Holds
  <2> QED BY <1>t, <2>6, <2>7, <2>8, <2>9, <2>10, <2>11, <2>12 DEF LeaseInv
<1>20. ASSUME NEW w \in Workers, ReserveError(w) PROVE LeaseInv'
  <2> DEFINE job == worker[w].job
             row == Reserved(w)
  <2>a. /\ UNCHANGED <<now, nextSeq>> /\ worker' = [worker EXCEPT ![w] = Idle]
        /\ \A v \in Workers : Keeps(v)
    BY <1>20, GoesIdle DEF ReserveError
  <2>b. CASE UNCHANGED <<jobs, nextToken>>
    BY <1>t, <1>u, <2>a, <2>b, QuietWorkers
  <2>c. ASSUME worker[w].pc = "locked", Replace(job, row), nextToken' = nextToken + 1
        PROVE  LeaseInv'
    <3>1. job \in jobs /\ job \in Row
      BY <2>c, SelectedRow
    <3>2. row.id = job.id /\ row.seq = job.seq /\ row.status = "active" /\ row.token = nextToken
      BY <2>c, SelectedRow
    <3>3. \A v \in Workers : Holds(v) => worker[v].job.seq # job.seq
      BY <2>c, SelectedRow
    <3>4. jobs' = (jobs \ {job}) \cup {row}
      BY <2>c DEF Replace
    <3>5. worker'[w].pc = "loop" /\ \A v \in Workers \ {w} : worker'[v] = worker[v]
      BY <2>a, <1>u DEF Idle
    <3> HIDE DEF job, row
    <3>6. RowsApart'
      BY <3>1, <3>2, <3>4 DEF LeaseInv, RowsApart
    <3>7. Written(row)
      <4> SUFFICES ASSUME NEW v \in Workers,
                          worker'[v].pc \in Holding, worker'[v].deadline > now',
                          job.status = "active", job.token = worker'[v].job.token
                   PROVE  FALSE
        BY <2>a, <2>c, <3>1, <3>2, <1>u DEF Written, LeaseInv, Fresh
      <4>1. worker'[v] = worker[v] /\ Holds(v)
        BY <2>a, <3>5 DEF Holds, Holding
      <4>2. worker[v].job.seq = job.seq
        BY <4>1, <3>1 DEF LeaseInv, TokensApart, Holds
      <4> QED BY <4>1, <4>2, <3>3
    <3>8. \A r \in jobs \ jobs' : \A v \in Workers :
            worker'[v].pc = "locked" => worker'[v].job # r
      BY <2>c, <3>4, <3>5 DEF LeaseInv, LocksApart, job
    <3> QED BY <1>t, <1>u, <2>a, <2>c, <3>4, <3>6, <3>7, <3>8, QuietStep
  <2> QED BY <1>20, <2>b, <2>c DEF ReserveError
<1>21. ASSUME NEW w \in Workers, Heartbeat(w) PROVE LeaseInv'
  <2> DEFINE job == worker[w].job
             held == Leased(job)
             until == now + Reservation
             new(r) == [r EXCEPT !.leased = until]
  <2>1. /\ worker[w].pc \in Holding
        /\ jobs' = (jobs \ held) \cup {new(r) : r \in held}
        /\ \A r \in held : RowFree(r)
        /\ UNCHANGED <<now, nextSeq, nextToken>>
    BY <1>21 DEF Heartbeat
  <2>2. /\ worker'[w].pc = worker[w].pc /\ worker'[w].job = job /\ worker'[w].at = worker[w].at
        /\ worker'[w].deadline = IF held = {} THEN worker[w].deadline ELSE until
        /\ \A v \in Workers \ {w} : worker'[v] = worker[v]
    BY <1>21, <1>u DEF Heartbeat, WorkerState
  <2>3. \A r \in held : /\ r \in jobs /\ r \in Row /\ r.status = "active"
                       /\ r.token = job.token /\ r.seq = job.seq /\ r.id = job.id
    BY <2>1 DEF Leased, LeaseInv, TypeOK, TokensApart
  <2>4. \A r \in held : /\ new(r).id = r.id /\ new(r).seq = r.seq
                       /\ new(r).token = r.token /\ new(r).status = r.status
                       /\ new(r).leased = until
    BY <2>3 DEF Row
  <2> HIDE DEF new, held, until
  <2>5. \A v \in Workers : worker'[v].pc = worker[v].pc /\ worker'[v].job = worker[v].job
                         /\ worker'[v].at = worker[v].at
    BY <2>2
  <2>6. Fresh'
    BY <2>1, <2>3, <2>4, <2>5 DEF LeaseInv, Fresh
  <2>7. RowsApart'
    BY <2>1, <2>3, <2>4 DEF LeaseInv, RowsApart
  <2>8. LockHeld' /\ LocksApart'
    BY <2>1, <2>3, <2>5 DEF LeaseInv, LockHeld, LocksApart, RowFree
  <2>9. TokensApart'
    BY <2>1, <2>3, <2>4, <2>5 DEF LeaseInv, TokensApart
  <2>10. \A v \in Workers \ {w} : Holds(v)' => Holds(v) /\ (held # {} => worker[v].job.seq # job.seq)
    <3> SUFFICES ASSUME NEW v \in Workers \ {w}, Holds(v)', NEW r \in held,
                        worker[v].job.seq = job.seq
                 PROVE  FALSE
      BY <2>1, <2>2 DEF Holds
    <3>1. Holds(v)
      BY <2>1, <2>2 DEF Holds
    <3>2. r.token = worker[v].job.token
      BY <2>3, <3>1 DEF LeaseInv, LeaseHeld, Leased
    <3> QED BY <2>1, <2>3, <3>1, <3>2 DEF LeaseInv, TokensApart, Holds
  <2>11. LeaseHeld'
    <3> SUFFICES ASSUME NEW v \in Workers, Holds(v)', NEW r \in jobs',
                        r.seq = worker'[v].job.seq
                 PROVE  r \in Leased(worker[v].job)' /\ r.leased = worker'[v].deadline
      BY DEF LeaseHeld
    <3>1. CASE v = w /\ held # {}
      <4>1. PICK o \in held : TRUE
        BY <3>1
      <4>2. r = new(o)
        BY <2>1, <2>2, <2>3, <2>4, <3>1, <4>1 DEF LeaseInv, RowsApart
      <4> QED BY <2>2, <2>3, <2>4, <3>1, <4>1, <4>2 DEF Leased
    <3>2. CASE held = {}
      <4>1. Holds(v) /\ r \in jobs /\ worker'[v].deadline = worker[v].deadline
        BY <2>1, <2>2, <2>5, <3>2 DEF Holds
      <4> QED BY <2>5, <4>1 DEF LeaseInv, LeaseHeld, Leased
    <3>3. CASE v # w /\ held # {}
      <4>1. Holds(v) /\ worker'[v] = worker[v] /\ worker[v].job.seq # job.seq
        BY <2>2, <2>10, <3>3
      <4>2. r \in jobs
        BY <2>1, <2>3, <2>4, <4>1
      <4> QED BY <4>1, <4>2 DEF LeaseInv, LeaseHeld, Leased
    <3> QED BY <3>1, <3>2, <3>3
  <2>12. LeaseExclusive'
    <3>1. CASE held = {}
      BY <2>1, <2>2, <2>5, <3>1 DEF LeaseInv, LeaseExclusive, Holds
    <3>2. CASE held # {}
      BY <2>1, <2>2, <2>10, <3>2 DEF LeaseInv, LeaseExclusive, Holds
    <3> QED BY <3>1, <3>2
  <2> QED BY <1>t, <2>6, <2>7, <2>8, <2>9, <2>11, <2>12 DEF LeaseInv
<1> QED
  BY <1>1, <1>2, <1>3, <1>4, <1>5, <1>6, <1>7, <1>8, <1>9, <1>10, <1>11, <1>12, <1>13, <1>14, <1>15, <1>16, <1>17, <1>18, <1>19, <1>20, <1>21
  DEF Next, Serve, WorkerStep

\* Whatever the clock, the crashes and the errors do, two workers never hold
\* unexpired leases of the same accepted job.
THEOREM LeasesExclude == Spec => []LeaseExclusive
<1>1. LeaseInv => LeaseExclusive
  BY DEF LeaseInv
<1> QED BY LeaseInit, LeaseNext, <1>1, PTL DEF Spec

\* A worker whose lease lasts owns the row of its job, if the row still exists.
THEOREM LeasesHold == Spec => []LeaseHeld
<1>1. LeaseInv => LeaseHeld
  BY DEF LeaseInv
<1> QED BY LeaseInit, LeaseNext, <1>1, PTL DEF Spec

-----------------------------------------------------------------------------
(* Locks of task IDs and of unique keys.                                    *)

\* A step keeps the jobs of the table if it deletes no row and adds none.
LEMMA SameIds ==
  ASSUME TaskLockIffRow, UNCHANGED taskLocks,
         \A r \in jobs : \E s \in jobs' : s.id = r.id,
         \A s \in jobs' : \E r \in jobs : s.id = r.id
  PROVE  TaskLockIffRow'
BY DEF TaskLockIffRow, RowsOf

LEMMA TaskLockNext == LeaseInv /\ TaskLockIffRow /\ [Next]_vars => TaskLockIffRow'
<1> SUFFICES ASSUME LeaseInv, TaskLockIffRow, [Next]_vars PROVE TaskLockIffRow'
  OBVIOUS
<1>1. CASE UNCHANGED <<jobs, taskLocks>>
  BY <1>1 DEF TaskLockIffRow, RowsOf
<1>2. ASSUME NEW q \in Requests, NEW t \in ClockReadings, Dispatch(q, t)
      PROVE  TaskLockIffRow'
  <2> DEFINE row == [id |-> chooseJobID(q), req |-> q, seq |-> nextSeq, status |-> "pending",
                     attempts |-> 0, available |-> t + Opt[q].delay, token |-> 0,
                     leased |-> 0, expires |-> 0]
  <2>1. jobs' = jobs \cup {row} /\ row.id = chooseJobID(q)
    BY <1>2 DEF Dispatch
  <2>2. taskLocks' = IF Opt[q].task = NoTask THEN taskLocks ELSE taskLocks \cup {chooseJobID(q)}
    BY <1>2 DEF Dispatch, taskLock
  <2>3. nextSeq \notin TaskIDs
    BY DEF LeaseInv, TypeOK
  <2>4. Opt[q].task = NoTask => chooseJobID(q) \notin TaskIDs
    BY <2>3 DEF chooseJobID
  <2> HIDE DEF row
  <2> QED BY <2>1, <2>2, <2>4 DEF TaskLockIffRow, RowsOf
<1>3. ASSUME NEW w \in Workers, CleanupDelete(w) PROVE TaskLockIffRow'
  BY <1>3 DEF CleanupDelete, TaskLockIffRow, RowsOf
<1>4. ASSUME NEW w \in Workers, Reserve(w) \/ ReserveError(w) PROVE TaskLockIffRow'
  <2>1. CASE UNCHANGED jobs
    BY <1>4, <2>1, SameIds DEF Reserve, ReserveError
  <2>2. CASE worker[w].pc = "locked" /\ Replace(worker[w].job, Reserved(w))
    <3>1. worker[w].job \in jobs /\ Reserved(w).id = worker[w].job.id
      BY <2>2, SelectedRow
    <3> QED BY <1>4, <2>2, <3>1, SameIds DEF Replace, Reserve, ReserveError
  <2> QED BY <1>4, <2>1, <2>2 DEF Reserve, ReserveError
<1>5. ASSUME NEW w \in Workers, Heartbeat(w) PROVE TaskLockIffRow'
  <2> DEFINE held == Leased(worker[w].job)
             new(r) == [r EXCEPT !.leased = now + Reservation]
  <2>1. jobs' = (jobs \ held) \cup {new(r) : r \in held} /\ UNCHANGED taskLocks
    BY <1>5 DEF Heartbeat
  <2>2. \A r \in held : r \in jobs /\ new(r).id = r.id
    BY DEF Leased, LeaseInv, TypeOK, Row
  <2> HIDE DEF held, new
  <2> QED BY <2>1, <2>2, SameIds
<1>6. ASSUME NEW w \in Workers, Fail(w) PROVE TaskLockIffRow'
  <2> DEFINE job == worker[w].job
             held == Leased(job)
             status == IF exhausted(job) THEN "failed" ELSE "retry"
             later == IF exhausted(job) THEN now ELSE now + retryDelay(job.attempts)
             new(r) == [r EXCEPT !.status = status, !.available = later,
                                 !.token = 0, !.leased = 0]
  <2>1. jobs' = (jobs \ held) \cup {new(r) : r \in held} /\ UNCHANGED taskLocks
    BY <1>6 DEF Fail
  <2>2. \A r \in held : r \in jobs /\ new(r).id = r.id
    BY DEF Leased, LeaseInv, TypeOK, Row
  <2> HIDE DEF held, new
  <2> QED BY <2>1, <2>2, SameIds
<1>7. ASSUME NEW w \in Workers, Complete(w) PROVE TaskLockIffRow'
  <2> DEFINE job == worker[w].job
             o == Opt[job.req]
             held == Leased(job)
             new(r) == [r EXCEPT !.status = "completed", !.expires = now + o.retention,
                                 !.token = 0, !.leased = 0]
  <2>1. \A r \in held : r \in jobs /\ new(r).id = r.id /\ r.id = job.id
    BY DEF Leased, LeaseInv, TypeOK, Row
  <2>2. CASE o.retention <= 0
    <3>1. jobs' = jobs \ held
      BY <1>7, <2>2 DEF Complete
    <3>2. taskLocks' = IF held = {} THEN taskLocks ELSE taskLocks \ {job.id}
      BY <1>7, <2>2 DEF Complete
    <3> HIDE DEF held, new, o
    <3> QED BY <2>1, <3>1, <3>2 DEF TaskLockIffRow, RowsOf, LeaseInv, RowsApart
  <2>3. CASE ~(o.retention <= 0)
    <3>1. jobs' = (jobs \ held) \cup {new(r) : r \in held} /\ UNCHANGED taskLocks
      BY <1>7, <2>3 DEF Complete
    <3> HIDE DEF held, new, o
    <3> QED BY <2>1, <3>1, SameIds
  <2> QED BY <2>2, <2>3
<1>8. ASSUME NEW name \in Queues, Retry(name) PROVE TaskLockIffRow'
  <2> DEFINE new(r) == [r EXCEPT !.status = "retry", !.attempts = 0, !.available = now]
  <2>1. PICK rows \in Chosen(name) : jobs' = (jobs \ rows) \cup {new(r) : r \in rows}
    BY <1>8 DEF Retry
  <2>2. \A r \in rows : r \in jobs /\ new(r).id = r.id
    BY DEF Chosen, FailedRows, LeaseInv, TypeOK, Row
  <2>3. UNCHANGED taskLocks
    BY <1>8 DEF Retry
  <2> HIDE DEF new
  <2> QED BY <2>1, <2>2, <2>3, SameIds
<1>9. ASSUME NEW name \in Queues, Delete(name) PROVE TaskLockIffRow'
  <2>1. PICK ids : /\ jobs' = jobs \ {r \in jobs : r.id \in ids}
                   /\ taskLocks' = taskLocks \ ids
    BY <1>9 DEF Delete
  <2> QED BY <2>1 DEF TaskLockIffRow, RowsOf
<1> QED
  BY <1>1, <1>2, <1>3, <1>4, <1>5, <1>6, <1>7, <1>8, <1>9
  DEF Next, Serve, WorkerStep, Tick, StartReserve, CleanupLocks, CleanupScan, CleanupError,
      SelectJob, SelectNone, HandlerReturns, SettleError, Shutdown, Exit, Crash,
      Restarted, vars, tables

\* In every reachable state the task locks are those of the jobs in the table.
THEOREM TaskLocksFollowRows == Spec => []TaskLockIffRow
<1>1. Init => TaskLockIffRow
  BY DEF Init, TaskLockIffRow, RowsOf
<1> QED BY LeaseInit, LeaseNext, TaskLockNext, <1>1, PTL DEF Spec

\* The lock of a unique window that lasts is in the table.
WindowLocked ==
  \A k \in Keys : window[k] > now =>
    \E l \in uniqueLocks : l.key = k /\ l.expires = window[k]

\* Unique locks and windows change by a dispatch, a cleanup or a deletion only.
LEMMA UniqueLocksStay ==
  ASSUME [Next]_vars,
         \A q \in Requests, t \in ClockReadings : ~Dispatch(q, t),
         \A w \in Workers : ~CleanupLocks(w),
         \A name \in Queues : ~Delete(name)
  PROVE  UNCHANGED <<uniqueLocks, window>> /\ now' \in {now, now + 1}
<1> DEFINE Stay == UNCHANGED <<uniqueLocks, window>> /\ now' \in {now, now + 1}
<1>1. ASSUME NEW w \in Workers, WorkerStep(w) PROVE Stay
  BY <1>1 DEF WorkerStep, StartReserve, CleanupScan, CleanupDelete, SelectJob, SelectNone,
              Reserve, HandlerReturns, Complete, Fail, tables, history
<1>2. ASSUME NEW w \in Workers,
             Heartbeat(w) \/ CleanupError(w) \/ ReserveError(w) \/ SettleError(w)
      PROVE  Stay
  BY <1>2 DEF Heartbeat, CleanupError, ReserveError, SettleError, tables, history
<1>3. ASSUME NEW p \in Procs, Shutdown(p) \/ Exit(p) \/ Crash(p) PROVE Stay
  BY <1>3 DEF Shutdown, Exit, Crash, Restarted, tables, history
<1>4. ASSUME NEW name \in Queues, Retry(name) PROVE Stay
  BY <1>4 DEF Retry, history
<1>5. CASE Tick \/ UNCHANGED vars
  BY <1>5 DEF Tick, vars, tables, history
<1> QED BY <1>1, <1>2, <1>3, <1>4, <1>5 DEF Next, Serve

LEMMA WindowNext == LeaseInv /\ WindowLocked /\ [Next]_vars => WindowLocked'
<1> SUFFICES ASSUME LeaseInv, WindowLocked, [Next]_vars PROVE WindowLocked'
  OBVIOUS
<1>t. now \in Nat /\ window \in [Keys -> Nat]
  BY DEF LeaseInv, TypeOK
<1>1. CASE UNCHANGED <<uniqueLocks, window>> /\ now' \in {now, now + 1}
  BY <1>1, <1>t DEF WindowLocked
<1>2. ASSUME NEW q \in Requests, NEW t \in ClockReadings, Dispatch(q, t)
      PROVE  WindowLocked'
  <2> DEFINE o == Opt[q]
             current == uniqueLocks \ {l \in LocksExpired(now) : l.key = o.key}
  <2>1. now' = now
    BY <1>2 DEF Dispatch
  <2>2. CASE o.uniqueFor > 0
    <3> DEFINE new == [key |-> o.key, job |-> chooseJobID(q), expires |-> t + o.uniqueFor]
    <3>1. uniqueLocks' = current \cup {new} /\ new.key = o.key /\ new.expires = t + o.uniqueFor
      BY <1>2, <2>2 DEF Dispatch
    <3>2. window' = [window EXCEPT ![o.key] = t + o.uniqueFor]
      BY <1>2, <2>2 DEF Dispatch
    <3> HIDE DEF new
    <3> QED BY <1>t, <2>1, <3>1, <3>2 DEF WindowLocked, LocksExpired
  <2>3. CASE ~(o.uniqueFor > 0)
    BY <1>2, <2>1, <2>3 DEF Dispatch, WindowLocked
  <2> QED BY <2>2, <2>3
<1>3. ASSUME NEW w \in Workers, CleanupLocks(w) PROVE WindowLocked'
  <2>1. worker[w].at <= now /\ worker[w].at \in Nat
    BY DEF LeaseInv, LockHeld, TypeOK, WorkerState
  <2>2. uniqueLocks' = uniqueLocks \ LocksExpired(worker[w].at) /\ UNCHANGED <<window, now>>
    BY <1>3 DEF CleanupLocks, LocksExpired, history
  <2> QED BY <1>t, <2>1, <2>2 DEF WindowLocked, LocksExpired
<1>4. ASSUME NEW name \in Queues, Delete(name) PROVE WindowLocked'
  <2>1. PICK freed : /\ uniqueLocks' = uniqueLocks \ freed
                     /\ window' = [k \in Keys |->
                          IF \E l \in freed : l.key = k THEN 0 ELSE window[k]]
    BY <1>4 DEF Delete
  <2>2. now' = now
    BY <1>4 DEF Delete
  <2> QED BY <1>t, <2>1, <2>2 DEF WindowLocked
<1> QED BY <1>1, <1>2, <1>3, <1>4, UniqueLocksStay

\* What a step does to the windows.
LEMMA WindowStep ==
  ASSUME LeaseInv, WindowLocked, [Next]_vars, NEW k \in Keys,
         window'[k] \notin {window[k], 0}
  PROVE  window[k] <= now
<1>t. now \in Nat /\ window \in [Keys -> Nat]
  BY DEF LeaseInv, TypeOK
<1>1. ASSUME NEW q \in Requests, NEW t \in ClockReadings, Dispatch(q, t)
      PROVE  window[k] <= now
  <2>1. /\ Opt[q].uniqueFor > 0 /\ k = Opt[q].key
        /\ \A l \in uniqueLocks : ~(l.key = k /\ l.expires <= now) => l.key # k
    BY <1>1, <1>t DEF Dispatch, DuplicateKey, LocksExpired
  <2> QED BY <1>t, <2>1 DEF WindowLocked
<1>2. ASSUME NEW name \in Queues, Delete(name) PROVE window[k] <= now
  BY <1>2 DEF Delete
<1>3. ASSUME NEW w \in Workers, CleanupLocks(w) PROVE window' = window
  BY <1>3 DEF CleanupLocks, history
<1> QED BY <1>1, <1>2, <1>3, UniqueLocksStay

\* A unique job is accepted at most once per window of its key.
THEOREM UniqueWindows == Spec => UniqueOncePerWindow
<1>1. Init => WindowLocked
  BY DEF Init, WindowLocked
<1>2. LeaseInv /\ WindowLocked /\ [Next]_vars =>
        [\A k \in Keys : window'[k] \notin {window[k], 0} => window[k] <= now]_vars
  BY WindowStep
<1> QED
  BY LeaseInit, LeaseNext, WindowNext, <1>1, <1>2, PTL DEF Spec, UniqueOncePerWindow

\* Each unique lock in the table is the only one of its key and expires with the
\* key's window.
WindowOfLock ==
  \A l \in uniqueLocks :
    l.expires = window[l.key] /\ \A m \in uniqueLocks : m.key = l.key => m = l

LEMMA WindowOfLockNext == LeaseInv /\ WindowOfLock /\ [Next]_vars => WindowOfLock'
<1> SUFFICES ASSUME LeaseInv, WindowOfLock, [Next]_vars PROVE WindowOfLock'
  OBVIOUS
<1>t. /\ now \in Nat /\ window \in [Keys -> Nat]
      /\ \A l \in uniqueLocks : l.key \in Keys
  BY DEF LeaseInv, TypeOK
<1>1. CASE uniqueLocks' \subseteq uniqueLocks /\ window' = window
  BY <1>1 DEF WindowOfLock
<1>2. ASSUME NEW q \in Requests, NEW t \in ClockReadings, Dispatch(q, t)
      PROVE  WindowOfLock'
  <2> DEFINE o == Opt[q]
             current == uniqueLocks \ {l \in LocksExpired(now) : l.key = o.key}
  <2>1. CASE o.uniqueFor > 0
    <3> DEFINE new == [key |-> o.key, job |-> chooseJobID(q), expires |-> t + o.uniqueFor]
    <3>1. uniqueLocks' = current \cup {new} /\ new.key = o.key /\ new.expires = t + o.uniqueFor
      BY <1>2, <2>1 DEF Dispatch
    <3>2. window' = [window EXCEPT ![o.key] = t + o.uniqueFor]
      BY <1>2, <2>1 DEF Dispatch
    <3>3. current \subseteq uniqueLocks /\ \A l \in current : l.key # o.key
      BY <1>2, <2>1 DEF Dispatch, DuplicateKey
    <3>4. o.key \in Keys
      BY OptAssumption DEF Options
    <3> HIDE DEF new, current, o
    <3> QED BY <1>t, <3>1, <3>2, <3>3, <3>4 DEF WindowOfLock
  <2>2. CASE ~(o.uniqueFor > 0)
    BY <1>1, <1>2, <2>2 DEF Dispatch
  <2> QED BY <2>1, <2>2
<1>3. ASSUME NEW w \in Workers, CleanupLocks(w) PROVE WindowOfLock'
  BY <1>1, <1>3 DEF CleanupLocks, history
<1>4. ASSUME NEW name \in Queues, Delete(name) PROVE WindowOfLock'
  <2>1. PICK freed : /\ uniqueLocks' = uniqueLocks \ freed
                     /\ freed \subseteq uniqueLocks
                     /\ window' = [k \in Keys |->
                          IF \E l \in freed : l.key = k THEN 0 ELSE window[k]]
    BY <1>4 DEF Delete
  <2>2. ASSUME NEW l \in uniqueLocks'
        PROVE  l \in uniqueLocks /\ l.key \in Keys /\ ~\E m \in freed : m.key = l.key
    BY <1>t, <2>1 DEF WindowOfLock
  <2> QED BY <2>1, <2>2 DEF WindowOfLock
<1> QED BY <1>1, <1>2, <1>3, <1>4, UniqueLocksStay

\* A unique lock that Dispatch finds was taken in a window that lasts.
LEMMA UniqueLockFound ==
  ASSUME LeaseInv, WindowOfLock, NEW l \in uniqueLocks \ LocksExpired(now)
  PROVE  window[l.key] > now
BY DEF WindowOfLock, LocksExpired, LeaseInv, TypeOK

===============================================================================
