---------------------------- MODULE SchedulerProofs ----------------------------
(***************************************************************************)
(* Theorems about Scheduler for every number of schedulers, schedules,     *)
(* minutes and workers.  What is known of the queue from JobQueueProofs    *)
(* and SettlementProofs holds of the queue the schedulers dispatch into.   *)
(***************************************************************************)
EXTENDS Scheduler, TLAPS

CONSTANT Nobody \* the owner of a job that no worker has, in JobLifecycle

Q == INSTANCE SettlementProofs WITH Requests <- Pairs, Opt <- RunOptions

-----------------------------------------------------------------------------
(* The queue's assumptions and steps.                                      *)

\* Two minutes after the start of the pair's minute.
Over(pair) == (pair[2] + 2) * Minute

LEMMA Times ==
  ASSUME NEW pair \in Pairs
  PROVE  /\ pair[2] \in Nat /\ pair[2] * Minute \in Nat /\ 2 * Minute \in Nat
         /\ Over(pair) = pair[2] * Minute + 2 * Minute
<1>1. pair[2] \in Nat /\ Minute \in Nat
  BY MinuteAssumption DEF Pairs, Minutes
<1> QED BY <1>1 DEF Over

LEMMA MinuteOf ==
  ASSUME now \in Nat, now <= MaxTime
  PROVE  /\ now \div Minute \in Minutes /\ (now \div Minute) * Minute <= now
         /\ ((now \div Minute) + 1) * Minute \in Nat
<1> DEFINE m == now \div Minute
<1>1. m \in Nat /\ m * Minute <= now
  BY MinuteAssumption
<1>2. m <= MaxMinute
  <2>1. ASSUME m >= MaxMinute + 1 PROVE FALSE
    <3>1. m * Minute >= (MaxMinute + 1) * Minute
      BY <1>1, <2>1, MinuteAssumption
    <3> QED BY <1>1, <3>1, MinuteAssumption, QueueAssumption
  <2> QED BY <1>1, <2>1, MinuteAssumption
<1> QED BY <1>1, <1>2, MinuteAssumption DEF Minutes

LEMMA RunOptionsType ==
  /\ RunOptions \in [Pairs -> Q!Options]
  /\ \A pair \in Pairs : /\ RunOptions[pair].task = TaskIDFor[pair] /\ TaskIDFor[pair] \in TaskIDs
                         /\ RunOptions[pair].task # NoTask
                         /\ RunOptions[pair].retention >= 2 * Minute
                         /\ RunOptions[pair].uniqueFor = JobOptions[pair[1]].uniqueFor
                         /\ RunOptions[pair].key = JobOptions[pair[1]].key
<1> SUFFICES ASSUME NEW pair \in Pairs
             PROVE  /\ RunOptions[pair] \in Q!Options
                    /\ RunOptions[pair].task = TaskIDFor[pair] /\ TaskIDFor[pair] \in TaskIDs
                    /\ RunOptions[pair].retention >= 2 * Minute
                    /\ RunOptions[pair].uniqueFor = JobOptions[pair[1]].uniqueFor
                    /\ RunOptions[pair].key = JobOptions[pair[1]].key
  <2>1. RunOptions = [pair \in Pairs |-> RunOptions[pair]]
    BY DEF RunOptions
  <2> QED BY <2>1, QueueAssumption
<1> DEFINE o == JobOptions[pair[1]]
           kept == retention(pair[1])
<1>1. o \in Q!Options /\ pair[1] \in NameSet
  BY QueueAssumption DEF Pairs, Queue!Options, Q!Options
<1>2. kept \in Nat /\ kept >= 2 * Minute
  BY <1>1, MinuteAssumption DEF retention, Q!Options
<1>3. TaskIDFor[pair] \in TaskIDs
  BY TaskIDAssumption
<1>4. RunOptions[pair] = [o EXCEPT !.task = TaskIDFor[pair], !.retention = kept]
  BY DEF RunOptions, TaskID
<1>5. o = JobOptions[pair[1]]
  OBVIOUS
<1> HIDE DEF o, kept
<1> QED BY <1>1, <1>2, <1>3, <1>4, <1>5 DEF Q!Options

LEMMA QueueAssumptions ==
  /\ RunOptions \in [Pairs -> Q!Options]
  /\ NoTask \notin TaskIDs /\ TaskIDs \cap Nat = {}
  /\ ProcOf \in [Workers -> Procs]
  /\ Reservation \in Nat \ {0}
  /\ CleanupInterval \in Nat /\ CleanupLimit \in Nat /\ ClockLag \in Nat
  /\ MaxTime \in Nat /\ MaxDispatch \in Nat /\ MaxFaults \in Nat
BY RunOptionsType, QueueAssumption

LEMMA SameTables ==
  /\ UNCHANGED queueVars <=> UNCHANGED Q!vars
  /\ Queue!ClockReadings = Q!ClockReadings
  /\ \A pair : Queue!DuplicateKey(pair) <=> Q!DuplicateKey(pair)
  /\ \A pair, t : Queue!Dispatch(pair, t) <=> Q!Dispatch(pair, t)
<1>1. Queue!ClockReadings = Q!ClockReadings
  BY DEF Queue!ClockReadings, Q!ClockReadings
<1>2. UNCHANGED queueVars <=> UNCHANGED Q!vars
  BY DEF queueVars, Q!vars, Q!tables, Q!history
<1>3. ASSUME NEW pair PROVE Queue!DuplicateKey(pair) <=> Q!DuplicateKey(pair)
  BY DEF Queue!DuplicateKey, Q!DuplicateKey, Queue!chooseJobID, Q!chooseJobID, Queue!RowsOf,
         Q!RowsOf, Queue!taskLock, Q!taskLock, Queue!LocksExpired, Q!LocksExpired
<1>4. ASSUME NEW pair, NEW t PROVE Queue!Dispatch(pair, t) <=> Q!Dispatch(pair, t)
  BY <1>3 DEF Queue!Dispatch, Q!Dispatch, Queue!chooseJobID, Q!chooseJobID,
              Queue!LocksExpired, Q!LocksExpired, Queue!taskLock, Q!taskLock
<1> QED BY <1>1, <1>2, <1>3, <1>4

LEMMA SameInit == Queue!Init => Q!Init
BY DEF Queue!Init, Q!Init, Queue!Idle, Q!Idle, Queue!NoRow, Q!NoRow

LEMMA SameServe == Queue!Serve => Q!Serve
<1> USE DEF Queue!tables, Q!tables, Queue!history, Q!history
<1> USE DEF Queue!Idle, Q!Idle, Queue!NoRow, Q!NoRow, Queue!Fault, Q!Fault
<1> USE DEF Queue!RowFree, Q!RowFree, Queue!Leased, Q!Leased, Queue!Holding, Q!Holding
<1>1. ASSUME NEW w PROVE Queue!StartReserve(w) => Q!StartReserve(w)
  BY DEF Queue!StartReserve, Q!StartReserve
<1>2. ASSUME NEW w PROVE Queue!CleanupLocks(w) => Q!CleanupLocks(w)
  BY DEF Queue!CleanupLocks, Q!CleanupLocks, Queue!LocksExpired, Q!LocksExpired
<1>3. ASSUME NEW w PROVE Queue!CleanupScan(w) => Q!CleanupScan(w)
  BY Zenon DEF Queue!CleanupScan, Q!CleanupScan, Queue!CompletedBefore, Q!CompletedBefore,
               Queue!Cardinality, Q!Cardinality
<1>4. ASSUME NEW w PROVE Queue!CleanupDelete(w) => Q!CleanupDelete(w)
  BY DEF Queue!CleanupDelete, Q!CleanupDelete
<1>5. ASSUME NEW w, NEW name
      PROVE  /\ Queue!SelectJob(w, name) => Q!SelectJob(w, name)
             /\ Queue!SelectNone(w, name) => Q!SelectNone(w, name)
  BY DEF Queue!SelectJob, Q!SelectJob, Queue!SelectNone, Q!SelectNone, Queue!Candidates,
         Q!Candidates, Queue!Eligible, Q!Eligible, Queue!Waiting, Q!Waiting, Queue!Precedes,
         Q!Precedes
<1>6. ASSUME NEW w PROVE Queue!Reserve(w) => Q!Reserve(w)
  BY DEF Queue!Reserve, Q!Reserve, Queue!Reserved, Q!Reserved, Queue!Replace, Q!Replace,
         Queue!heartbeatInterval, Q!heartbeatInterval
<1>7. ASSUME NEW w, NEW ok PROVE Queue!HandlerReturns(w, ok) => Q!HandlerReturns(w, ok)
  BY DEF Queue!HandlerReturns, Q!HandlerReturns, Queue!MayBeLive, Q!MayBeLive,
         Queue!TimedOut, Q!TimedOut
<1>8. ASSUME NEW w PROVE Queue!Complete(w) => Q!Complete(w)
  BY DEF Queue!Complete, Q!Complete
<1>9. ASSUME NEW w PROVE Queue!Fail(w) => Q!Fail(w)
  BY DEF Queue!Fail, Q!Fail, Queue!exhausted, Q!exhausted, Queue!maxRetry, Q!maxRetry,
         Queue!retryDelay, Q!retryDelay, Queue!DefaultMaxRetry, Q!DefaultMaxRetry
<1>10. ASSUME NEW w PROVE Queue!Heartbeat(w) => Q!Heartbeat(w)
  BY DEF Queue!Heartbeat, Q!Heartbeat, Queue!MayBeLive, Q!MayBeLive, Queue!TimedOut,
         Q!TimedOut, Queue!heartbeatInterval, Q!heartbeatInterval
<1>11. ASSUME NEW w
       PROVE  /\ Queue!CleanupError(w) => Q!CleanupError(w)
              /\ Queue!ReserveError(w) => Q!ReserveError(w)
              /\ Queue!SettleError(w) => Q!SettleError(w)
  BY DEF Queue!CleanupError, Q!CleanupError, Queue!ReserveError, Q!ReserveError,
         Queue!Reserved, Q!Reserved, Queue!Replace, Q!Replace, Queue!SettleError, Q!SettleError
<1>12. ASSUME NEW p
       PROVE  /\ Queue!Shutdown(p) => Q!Shutdown(p)
              /\ Queue!Exit(p) => Q!Exit(p)
              /\ Queue!Crash(p) => Q!Crash(p)
  BY DEF Queue!Shutdown, Q!Shutdown, Queue!Exit, Q!Exit, Queue!Crash, Q!Crash,
         Queue!Restarted, Q!Restarted
<1>13. ASSUME NEW name
       PROVE  /\ Queue!Retry(name) => Q!Retry(name)
              /\ Queue!Delete(name) => Q!Delete(name)
  BY DEF Queue!Retry, Q!Retry, Queue!Delete, Q!Delete, Queue!Chosen, Q!Chosen,
         Queue!FailedRows, Q!FailedRows
<1>14. ASSUME NEW w PROVE Queue!WorkerStep(w) => Q!WorkerStep(w)
  BY <1>1, <1>2, <1>3, <1>4, <1>5, <1>6, <1>7, <1>8, <1>9
     DEF Queue!WorkerStep, Q!WorkerStep
<1>15. Queue!Tick => Q!Tick
  BY DEF Queue!Tick, Q!Tick
<1>16. ASSUME NEW w \in Workers,
              \/ Queue!WorkerStep(w) \/ Queue!Heartbeat(w) \/ Queue!CleanupError(w)
              \/ Queue!ReserveError(w) \/ Queue!SettleError(w)
       PROVE  Q!Serve
  <2>1. \/ Q!WorkerStep(w) \/ Q!Heartbeat(w) \/ Q!CleanupError(w)
        \/ Q!ReserveError(w) \/ Q!SettleError(w)
    BY <1>10, <1>11, <1>14, <1>16
  <2> QED BY <2>1 DEF Q!Serve
<1>17. ASSUME NEW p \in Procs, Queue!Shutdown(p) \/ Queue!Exit(p) \/ Queue!Crash(p)
       PROVE  Q!Serve
  <2>1. Q!Shutdown(p) \/ Q!Exit(p) \/ Q!Crash(p)
    BY <1>12, <1>17
  <2> QED BY <2>1 DEF Q!Serve
<1>18. ASSUME NEW name \in Queues, Queue!Retry(name) \/ Queue!Delete(name) PROVE Q!Serve
  <2>1. Q!Retry(name) \/ Q!Delete(name)
    BY <1>13, <1>18
  <2> QED BY <2>1 DEF Q!Serve
<1>19. Queue!Tick => Q!Serve
  BY <1>15 DEF Q!Serve
<1> QED BY <1>16, <1>17, <1>18, <1>19 DEF Queue!Serve

LEMMA QueueStep == [Next]_vars => [Q!Next]_(Q!vars)
<1> SUFFICES ASSUME [Next]_vars PROVE [Q!Next]_(Q!vars)
  OBVIOUS
<1>1. ASSUME UNCHANGED queueVars PROVE UNCHANGED Q!vars
  BY <1>1, SameTables
<1>2. ASSUME NEW s \in Schedulers, DispatchDue(s) PROVE Q!Next
  <2>1. Pair(s) \in Pairs
    BY <1>2, DueAssumption DEF DispatchDue, AtDue, Pair
  <2> QED BY <1>2, <2>1, SameTables DEF DispatchDue, Q!Next
<1>3. ASSUME NEW s \in Schedulers, SchedulerStep(s), ~DispatchDue(s) PROVE UNCHANGED queueVars
  BY <1>3 DEF SchedulerStep, Start, RunOnce, Fire, Stop, Skip, Duplicate, DispatchError,
              RunReturns, Crash
<1>4. CASE Queue!Serve
  BY <1>4, SameServe DEF Q!Next
<1>5. CASE UNCHANGED vars
  BY <1>1, <1>5 DEF vars
<1> QED BY <1>1, <1>2, <1>3, <1>4, <1>5 DEF Next

-----------------------------------------------------------------------------
(* Types.                                                                  *)

QueueInv == Q!LeaseInv /\ Q!Snapshot /\ Q!TaskLockIffRow /\ Q!WindowOfLock

\* The clock's bound.
InTime == now <= MaxTime

SchedulerInv == QueueInv /\ SchedulerTypeOK /\ InTime

LEMMA QueueInvInit == Init => QueueInv
<1>1. Q!Init => Q!LeaseInv
  BY QueueAssumptions, Q!LeaseInit
<1>2. Q!Init => Q!Snapshot /\ Q!TaskLockIffRow /\ Q!WindowOfLock
  BY DEF Q!Init, Q!Idle, Q!Snapshot, Q!TaskLockIffRow, Q!RowsOf, Q!Holding, Q!WindowOfLock
<1> QED BY <1>1, <1>2, SameInit DEF Init, QueueInv

LEMMA QueueInvStep == QueueInv /\ [Next]_vars => QueueInv'
<1>1. Q!LeaseInv /\ [Q!Next]_(Q!vars) => Q!LeaseInv'
  BY QueueAssumptions, Q!LeaseNext
<1>2. Q!LeaseInv /\ Q!Snapshot /\ [Q!Next]_(Q!vars) => Q!Snapshot'
  BY QueueAssumptions, Q!SnapshotStep
<1>3. Q!LeaseInv /\ Q!TaskLockIffRow /\ [Q!Next]_(Q!vars) => Q!TaskLockIffRow'
  BY QueueAssumptions, Q!TaskLockNext
<1>4. Q!LeaseInv /\ Q!WindowOfLock /\ [Q!Next]_(Q!vars) => Q!WindowOfLock'
  BY QueueAssumptions, Q!WindowOfLockNext
<1> QED BY <1>1, <1>2, <1>3, <1>4, QueueStep DEF QueueInv

LEMMA QueueFacts ==
  ASSUME QueueInv
  PROVE  /\ now \in Nat /\ nextSeq \in Nat /\ dropped \subseteq Nat
         /\ \A r \in jobs : /\ r.req \in Pairs /\ r.seq \in Nat /\ r.seq < nextSeq
                            /\ r.expires \in Nat
         /\ \A w \in Workers : worker[w].pc \in Q!Holding => worker[w].job.req \in Pairs
<1>1. /\ now \in Nat /\ nextSeq \in Nat /\ dropped \subseteq Nat
      /\ \A r \in jobs : r \in Q!Row /\ r.seq \in Nat /\ r.seq < nextSeq
      /\ \A w \in Workers : worker[w].pc \in {"locked"} \cup Q!Holding => worker[w].job \in Q!Row
  BY QueueAssumptions, Q!Facts DEF QueueInv
<1> QED BY <1>1 DEF Q!Row

\* What a dispatch does to the tables.
Dispatches(s, row) ==
  /\ Pair(s) \in Due /\ Pair(s) \in Pairs /\ Pair(s)[2] = ticker[s].minute
  /\ ticker[s].pc = "run"
  /\ row.req = Pair(s) /\ row.id = TaskIDFor[Pair(s)] /\ row.seq = nextSeq
  /\ row.status = "pending" /\ \A r \in jobs : r.id # row.id
  /\ jobs' = jobs \cup {row} /\ nextSeq' = nextSeq + 1
  /\ UNCHANGED <<now, worker, done, dropped>>
  /\ accepted' = [accepted EXCEPT ![Pair(s)] = @ \cup {nextSeq}]

LEMMA DispatchDueStep ==
  ASSUME NEW s \in Schedulers, DispatchDue(s)
  PROVE  \E row : Dispatches(s, row)
<1>1. PICK t : Q!Dispatch(Pair(s), t)
  BY SameTables DEF DispatchDue
<1> DEFINE id == Q!chooseJobID(Pair(s))
           row == [id |-> id, req |-> Pair(s), seq |-> nextSeq, status |-> "pending",
                   attempts |-> 0, available |-> t + RunOptions[Pair(s)].delay, token |-> 0,
                   leased |-> 0, expires |-> 0]
<1>2. /\ jobs' = jobs \cup {row} /\ Q!RowsOf(id) = {} /\ nextSeq' = nextSeq + 1
      /\ UNCHANGED <<now, worker, done, dropped>>
  BY <1>1 DEF Q!Dispatch, Q!DuplicateKey
<1>3. /\ Pair(s) \in Due /\ Pair(s) \in Pairs /\ Pair(s)[2] = ticker[s].minute
      /\ ticker[s].pc = "run"
  BY DueAssumption DEF DispatchDue, AtDue, Pair
<1>4. id = TaskIDFor[Pair(s)]
  BY <1>3, RunOptionsType DEF Q!chooseJobID
<1>5. row.req = Pair(s) /\ row.id = id /\ row.seq = nextSeq /\ row.status = "pending"
  OBVIOUS
<1> HIDE DEF row, id
<1>6. \A r \in jobs : r.id # row.id
  BY <1>2, <1>5 DEF Q!RowsOf
<1> QED BY <1>2, <1>3, <1>4, <1>5, <1>6 DEF Dispatches, DispatchDue

\* A step that is no dispatch.
LEMMA OtherSteps ==
  ASSUME QueueInv, [Next]_vars, \A s \in Schedulers : ~DispatchDue(s)
  PROVE  nextSeq' = nextSeq /\ accepted' = accepted
<1>1. CASE Queue!Serve /\ UNCHANGED schedulerVars
  <2>1. Q!Serve => nextSeq' = nextSeq
    BY QueueAssumptions, Q!ServeKeeps
  <2> QED BY <1>1, <2>1, SameServe DEF schedulerVars
<1>2. ASSUME NEW s \in Schedulers, SchedulerStep(s) PROVE nextSeq' = nextSeq /\ accepted' = accepted
  BY <1>2 DEF SchedulerStep, Start, RunOnce, Fire, Stop, Skip, Duplicate, DispatchError,
              RunReturns, Crash, queueVars
<1>3. CASE UNCHANGED vars
  BY <1>3 DEF vars, queueVars, schedulerVars
<1> QED BY <1>1, <1>2, <1>3 DEF Next

LEMMA TickerTypes ==
  ASSUME now \in Nat, now <= MaxTime
  PROVE  /\ Off \in Ticker /\ Off.pc # "run"
         /\ Asleep \in Ticker /\ Asleep.pc # "run"
         /\ \A once \in BOOLEAN :
              /\ Running(once) \in Ticker
              /\ Running(once).minute * Minute <= now
<1>1. Off \in Ticker /\ Off.pc # "run"
  BY MinuteAssumption, NamesAssumption DEF Off, Ticker, Minutes
<1> DEFINE m == now \div Minute
<1>2. m \in Minutes /\ m * Minute <= now /\ (m + 1) * Minute \in Nat
  BY MinuteOf
<1> HIDE DEF m
<1>3. Asleep \in Ticker /\ Asleep.pc # "run"
  <2> DEFINE wake == (m + 1) * Minute
  <2>1. Asleep = [Off EXCEPT !.pc = "sleep", !.wake = wake]
    BY DEF Asleep, m
  <2>2. wake \in Nat
    BY <1>2
  <2> HIDE DEF wake
  <2> QED BY <1>1, <2>1, <2>2 DEF Ticker
<1>4. ASSUME NEW once \in BOOLEAN
      PROVE  /\ Running(once) \in Ticker
             /\ Running(once).minute * Minute <= now
  <2>1. Running(once) = [Off EXCEPT !.pc = "run", !.minute = m, !.next = 1, !.once = once]
    BY DEF Running, m
  <2>2. 1 \in 0..(Len(Names) + 1)
    BY NamesAssumption
  <2>3. Running(once) \in Ticker /\ Running(once).minute = m
    BY <1>1, <1>2, <2>1, <2>2 DEF Ticker
  <2> QED BY <1>2, <2>3
<1> QED BY <1>1, <1>3, <1>4

\* Scheduler s takes state t: it starts, stops or begins a Run, or it goes on to
\* the next definition.
Turns(s, t) ==
  \/ t.pc = "run" => ticker[s].pc # "run" /\ t.minute * Minute <= now
  \/ /\ ticker[s].pc = "run" /\ t.pc = "run" /\ t.minute = ticker[s].minute
     /\ AtDue(s) => DispatchDue(s) \/ Duplicate(s) \/ Pair(s)[1] \in t.failed

LEMMA AdvanceTurns ==
  ASSUME QueueInv, SchedulerTypeOK, InTime, NEW s \in Schedulers, ticker[s].pc = "run",
         ticker[s].next <= Len(Names), NEW failed \in SUBSET NameSet,
         AtDue(s) => DispatchDue(s) \/ Duplicate(s) \/ Pair(s)[1] \in failed,
         ticker' = [ticker EXCEPT ![s].next = @ + 1, ![s].failed = failed]
  PROVE  \E t \in Ticker : Turns(s, t) /\ ticker' = [ticker EXCEPT ![s] = t]
<1>1. ticker[s] \in Ticker
  BY DEF SchedulerTypeOK
<1> DEFINE next == ticker[s].next + 1
<1>2. next \in 0..(Len(Names) + 1)
  BY <1>1, NamesAssumption DEF Ticker
<1>5. ticker' = [ticker EXCEPT ![s] = [ticker[s] EXCEPT !.next = next, !.failed = failed]]
  OBVIOUS
<1>6. next = ticker[s].next + 1
  OBVIOUS
<1> HIDE DEF next
<1>7. PICK t : t = [ticker[s] EXCEPT !.next = next, !.failed = failed]
  OBVIOUS
<1>3. /\ t \in Ticker /\ t.pc = "run" /\ t.minute = ticker[s].minute
      /\ t.next = ticker[s].next + 1 /\ t.failed = failed
  BY <1>1, <1>2, <1>6, <1>7 DEF Ticker
<1>4. ticker' = [ticker EXCEPT ![s] = t]
  BY <1>5, <1>7
<1> QED BY <1>3, <1>4 DEF Turns

LEMMA TickerSteps ==
  ASSUME QueueInv, SchedulerTypeOK, InTime, NEW s \in Schedulers, SchedulerStep(s)
  PROVE  \E t \in Ticker : Turns(s, t) /\ ticker' = [ticker EXCEPT ![s] = t]
<1>t. now \in Nat /\ now <= MaxTime /\ ticker[s] \in Ticker
  BY QueueFacts DEF InTime, SchedulerTypeOK
<1>1. CASE Start(s)
  BY <1>t, <1>1, TickerTypes DEF Start, Turns
<1>2. CASE RunOnce(s)
  <2>1. Running(TRUE) \in Ticker /\ Turns(s, Running(TRUE))
    BY <1>t, <1>2, TickerTypes DEF RunOnce, Turns
  <2> QED BY <1>2, <2>1 DEF RunOnce
<1>3. CASE Fire(s)
  <2>1. Running(FALSE) \in Ticker /\ Turns(s, Running(FALSE))
    BY <1>t, <1>3, TickerTypes DEF Fire, Turns
  <2> QED BY <1>3, <2>1 DEF Fire
<1>4. CASE Stop(s) \/ Crash(s)
  <2>1. Off \in Ticker /\ Turns(s, Off)
    BY <1>t, TickerTypes DEF Turns
  <2> QED BY <1>4, <2>1 DEF Stop, Crash
<1>5. CASE RunReturns(s)
  <2>1. PICK t \in {Off, Asleep} : ticker' = [ticker EXCEPT ![s] = t]
    BY <1>5 DEF RunReturns
  <2>2. t \in Ticker /\ Turns(s, t)
    BY <1>t, <2>1, TickerTypes DEF Turns
  <2> QED BY <2>1, <2>2
<1>6. CASE Skip(s) \/ DispatchDue(s) \/ Duplicate(s)
  <2> DEFINE failed == ticker[s].failed
  <2>1. ticker' = [ticker EXCEPT ![s].next = @ + 1]
    BY <1>6 DEF Skip, DispatchDue, Duplicate, Advance
  <2>2. failed \in SUBSET NameSet
    BY <1>t DEF Ticker
  <2>3. [ticker[s] EXCEPT !.next = @ + 1] = [ticker[s] EXCEPT !.next = @ + 1, !.failed = failed]
    BY <1>t DEF Ticker
  <2>4. ticker' = [ticker EXCEPT ![s].next = @ + 1, ![s].failed = failed]
    BY <2>1, <2>3
  <2>5. ticker[s].pc = "run" /\ ticker[s].next <= Len(Names)
    BY <1>6 DEF Skip, DispatchDue, Duplicate, AtDue
  <2>6. AtDue(s) => DispatchDue(s) \/ Duplicate(s)
    BY <1>6 DEF Skip
  <2> HIDE DEF failed
  <2> QED BY <2>2, <2>4, <2>5, <2>6, AdvanceTurns
<1>7. CASE DispatchError(s)
  <2> DEFINE failed == ticker[s].failed \cup {Pair(s)[1]}
  <2>1. ticker' = [ticker EXCEPT ![s].next = @ + 1, ![s].failed = failed]
    BY <1>7 DEF DispatchError
  <2>2. ticker[s].pc = "run" /\ ticker[s].next <= Len(Names) /\ Pair(s) \in Pairs
    BY <1>7, DueAssumption DEF DispatchError, AtDue, Pair
  <2>3. failed \in SUBSET NameSet
    BY <1>t, <2>2 DEF Ticker, Pairs
  <2>4. Pair(s)[1] \in failed
    OBVIOUS
  <2> HIDE DEF failed
  <2> QED BY <2>1, <2>2, <2>3, <2>4, AdvanceTurns
<1> QED BY <1>1, <1>2, <1>3, <1>4, <1>5, <1>6, <1>7 DEF SchedulerStep

LEMMA ClockStep ==
  ASSUME QueueInv, InTime, [Next]_vars
  PROVE  now' >= now /\ now' <= MaxTime /\ now' \in Nat
<1>1. now' >= now
  <2>1. Q!LeaseInv /\ [Q!Next]_(Q!vars) => now' >= now
    BY QueueAssumptions, Q!DeletersStep
  <2> QED BY <2>1, QueueStep DEF QueueInv
<1>2. now' = now \/ (now < MaxTime /\ now' = now + 1)
  <2>1. CASE Queue!Serve
    <3>1. Q!Serve => now' = now \/ Q!Tick
      BY QueueAssumptions, Q!ServeKeeps
    <3> QED BY <2>1, <3>1, SameServe DEF Q!Tick
  <2>2. ASSUME NEW s \in Schedulers, SchedulerStep(s) PROVE now' = now
    <3>1. CASE DispatchDue(s)
      BY <3>1, DispatchDueStep DEF Dispatches
    <3>2. CASE ~DispatchDue(s)
      BY <2>2, <3>2 DEF SchedulerStep, Start, RunOnce, Fire, Stop, Skip, Duplicate,
                        DispatchError, RunReturns, Crash, queueVars
    <3> QED BY <3>1, <3>2
  <2>3. CASE UNCHANGED vars
    BY <2>3 DEF vars, queueVars
  <2> QED BY <2>1, <2>2, <2>3 DEF Next
<1> QED BY <1>1, <1>2, QueueFacts, QueueAssumption DEF InTime

LEMMA TypesStep == SchedulerInv /\ [Next]_vars => SchedulerInv'
<1> SUFFICES ASSUME SchedulerInv, [Next]_vars PROVE SchedulerInv'
  OBVIOUS
<1> USE DEF SchedulerInv
<1>t. ticker \in [Schedulers -> Ticker] /\ now \in Nat /\ now <= MaxTime
  BY QueueFacts DEF SchedulerTypeOK, InTime
<1>c. now' >= now /\ now' <= MaxTime /\ now' \in Nat
  BY ClockStep
<1>q. QueueInv'
  BY QueueInvStep
<1>m. ASSUME NEW s \in Schedulers PROVE ticker[s].minute * Minute \in Nat
  BY <1>t, MinuteAssumption DEF Ticker, Minutes
<1>1. ASSUME NEW s \in Schedulers, SchedulerStep(s) PROVE SchedulerTypeOK' /\ InTime'
  <2>1. PICK t \in Ticker : Turns(s, t) /\ ticker' = [ticker EXCEPT ![s] = t]
    BY <1>1, TickerSteps
  <2>2. ticker' \in [Schedulers -> Ticker]
    BY <1>t, <2>1
  <2>3. accepted' \in [Pairs -> SUBSET Nat]
    <3>1. CASE DispatchDue(s)
      BY <3>1, DispatchDueStep, QueueFacts DEF Dispatches, SchedulerTypeOK
    <3>2. CASE ~DispatchDue(s)
      BY <1>1, <3>2 DEF SchedulerStep, Start, RunOnce, Fire, Stop, Skip, Duplicate,
                        DispatchError, RunReturns, Crash, SchedulerTypeOK
    <3> QED BY <3>1, <3>2
  <2>4. errors' \in 0..MaxErrors
    <3>1. errors \in 0..MaxErrors
      BY DEF SchedulerTypeOK
    <3>2. errors' = errors \/ (errors < MaxErrors /\ errors' = errors + 1)
      BY <1>1 DEF SchedulerStep, Start, RunOnce, Fire, Stop, Skip, DispatchDue, Duplicate,
                  DispatchError, RunReturns, Crash
    <3> QED BY <3>1, <3>2, ErrorsAssumption
  <2>5. ASSUME NEW v \in Schedulers, ticker'[v].pc = "run"
        PROVE  ticker'[v].minute * Minute <= now'
    <3>1. CASE v # s
      <4>1. ticker'[v] = ticker[v] /\ ticker[v].minute * Minute <= now
        BY <1>t, <2>1, <2>5, <3>1 DEF SchedulerTypeOK
      <4> QED BY <1>t, <1>c, <1>m, <4>1
    <3>2. CASE v = s
      <4>1. ticker'[v] = t /\ t.minute * Minute <= now
        BY <1>t, <2>1, <2>5, <3>2 DEF SchedulerTypeOK, Turns
      <4>2. t.minute * Minute \in Nat
        BY <2>1, MinuteAssumption DEF Ticker, Minutes
      <4> QED BY <1>t, <1>c, <4>1, <4>2
    <3> QED BY <3>1, <3>2
  <2> QED BY <1>c, <2>2, <2>3, <2>4, <2>5 DEF SchedulerTypeOK, InTime
<1>2. ASSUME UNCHANGED schedulerVars PROVE SchedulerTypeOK' /\ InTime'
  BY <1>t, <1>c, <1>m, <1>2 DEF schedulerVars, SchedulerTypeOK, InTime
<1> QED BY <1>q, <1>1, <1>2 DEF Next, vars

LEMMA InitTypes == Init => SchedulerInv
<1> SUFFICES ASSUME Init PROVE SchedulerTypeOK /\ InTime
  BY QueueInvInit DEF SchedulerInv
<1>1. now = 0 /\ MaxTime \in Nat
  BY QueueAssumption DEF Init, Queue!Init
<1> QED BY <1>1, TickerTypes, ErrorsAssumption DEF Init, SchedulerTypeOK, InTime

\* However many schedulers there are, and whatever the queue does, what a scheduler
\* keeps between two steps has its type, and the minute its Run serves has begun:
\* no job is dispatched ahead of its time.
THEOREM SchedulerTypes == Spec => []SchedulerTypeOK
<1>1. SchedulerInv => SchedulerTypeOK
  BY DEF SchedulerInv
<1> QED BY <1>1, InitTypes, TypesStep, PTL DEF Spec

-----------------------------------------------------------------------------
(* A Run serves what is due.                                               *)

\* The rows are those of jobs accepted for their pairs, each under the task ID of
\* its pair.
Belongs == \A r \in jobs : r.seq \in accepted[r.req] /\ r.id = TaskIDFor[r.req]

ServedInv == SchedulerInv /\ Belongs

LEMMA AcceptedGrows ==
  ASSUME SchedulerInv, [Next]_vars, NEW pair \in Pairs
  PROVE  accepted[pair] \subseteq accepted'[pair]
<1>1. ASSUME NEW s \in Schedulers, DispatchDue(s) PROVE accepted[pair] \subseteq accepted'[pair]
  BY <1>1, DispatchDueStep DEF Dispatches, SchedulerInv, SchedulerTypeOK
<1>2. CASE \A s \in Schedulers : ~DispatchDue(s)
  BY <1>2, OtherSteps DEF SchedulerInv
<1> QED BY <1>1, <1>2

LEMMA BelongsStep ==
  ASSUME SchedulerInv, Belongs, [Next]_vars
  PROVE  Belongs'
<1>1. \A r \in jobs : r.req \in Pairs
  BY QueueFacts DEF SchedulerInv
<1>2. ASSUME NEW s \in Schedulers, DispatchDue(s) PROVE Belongs'
  <2>1. PICK row : Dispatches(s, row)
    BY <1>2, DispatchDueStep
  <2>2. row.seq \in accepted'[row.req] /\ row.id = TaskIDFor[row.req]
    BY <2>1 DEF Dispatches, SchedulerInv, SchedulerTypeOK
  <2>3. \A r \in jobs : r.seq \in accepted'[r.req]
    BY <1>1, AcceptedGrows DEF Belongs
  <2> QED BY <2>1, <2>2, <2>3 DEF Dispatches, Belongs
<1>3. CASE \A s \in Schedulers : ~DispatchDue(s)
  <2>1. nextSeq' = nextSeq /\ accepted' = accepted /\ nextSeq \in Nat
    BY <1>3, OtherSteps, QueueFacts DEF SchedulerInv
  <2>2. Q!Follows
    BY QueueAssumptions, QueueStep, Q!NextFollows DEF SchedulerInv, QueueInv
  <2>3. ASSUME NEW x \in jobs' PROVE \E r \in jobs : r.req = x.req /\ r.id = x.id /\ r.seq = x.seq
    BY <2>1, <2>2 DEF Q!Follows, Q!Created, Q!Becomes
  <2> QED BY <2>1, <2>3 DEF Belongs
<1> QED BY <1>2, <1>3

\* What Dispatch refuses as a duplicate is the pair's own job, or its window is
\* still open.
LEMMA DuplicateAccepted ==
  ASSUME ServedInv, NEW s \in Schedulers, Duplicate(s)
  PROVE  accepted[Pair(s)] # {} \/ WindowOpen(JobOptions[Pair(s)[1]])
<1>i. SchedulerInv /\ QueueInv /\ Belongs
  BY DEF ServedInv, SchedulerInv
<1>1. Pair(s) \in Pairs
  BY DueAssumption DEF Duplicate, AtDue, Pair
<1>2. Q!DuplicateKey(Pair(s))
  BY SameTables DEF Duplicate
<1>3. /\ Q!chooseJobID(Pair(s)) = TaskIDFor[Pair(s)]
      /\ Q!taskLock(Pair(s), TaskIDFor[Pair(s)]) = {TaskIDFor[Pair(s)]}
      /\ TaskIDFor[Pair(s)] \in TaskIDs
  BY <1>1, RunOptionsType DEF Q!chooseJobID, Q!taskLock
<1>4. CASE Q!RowsOf(TaskIDFor[Pair(s)]) # {} \/ TaskIDFor[Pair(s)] \in taskLocks
  <2>1. PICK r \in jobs : r.id = TaskIDFor[Pair(s)]
    BY <1>i, <1>3, <1>4 DEF QueueInv, Q!TaskLockIffRow, Q!RowsOf
  <2>2. r.req \in Pairs /\ TaskIDFor[r.req] = TaskIDFor[Pair(s)]
    BY <1>i, <2>1, QueueFacts DEF Belongs
  <2>3. r.req = Pair(s)
    BY <1>1, <2>2, TaskIDAssumption
  <2> QED BY <1>i, <2>1, <2>3 DEF Belongs
<1>5. ASSUME RunOptions[Pair(s)].uniqueFor > 0, NEW l \in uniqueLocks \ Q!LocksExpired(now),
             l.key = RunOptions[Pair(s)].key
      PROVE  WindowOpen(JobOptions[Pair(s)[1]])
  <2>1. window[l.key] > now
    BY <1>i, QueueAssumptions, Q!UniqueLockFound DEF QueueInv
  <2> QED BY <1>1, <1>5, <2>1, RunOptionsType DEF WindowOpen
<1> QED BY <1>2, <1>3, <1>4, <1>5 DEF Q!DuplicateKey

LEMMA ServedStep == ServedInv /\ [Next]_vars => ServedInv'
BY TypesStep, BelongsStep DEF ServedInv

LEMMA InitServed == Init => ServedInv
<1>1. Init => jobs = {}
  BY DEF Init, Queue!Init
<1> QED BY <1>1, InitTypes DEF ServedInv, Belongs

\* What RunServesDue says of a step.
Serves ==
  \A s \in Schedulers : Passes(s) =>
    \/ Pair(s)[1] \in ticker'[s].failed
    \/ accepted'[Pair(s)] # {}
    \/ WindowOpen(JobOptions[Pair(s)[1]])

LEMMA ServesStep == ServedInv /\ [Next]_vars => Serves
<1> SUFFICES ASSUME ServedInv, [Next]_vars, NEW s \in Schedulers, Passes(s)
             PROVE  \/ Pair(s)[1] \in ticker'[s].failed
                    \/ accepted'[Pair(s)] # {}
                    \/ WindowOpen(JobOptions[Pair(s)[1]])
  BY DEF Serves
<1>i. SchedulerInv /\ QueueInv /\ SchedulerTypeOK /\ InTime
  BY DEF ServedInv, SchedulerInv
<1>t. ticker \in [Schedulers -> Ticker] /\ ticker[s].next \in Nat
  BY <1>i, NamesAssumption DEF SchedulerTypeOK, Ticker
<1>p. Pair(s) \in Pairs /\ AtDue(s) /\ ticker[s].pc = "run" /\ ticker'[s] # ticker[s]
  BY <1>t, DueAssumption DEF Passes, AtDue, Pair
<1>1. PICK v \in Schedulers : SchedulerStep(v)
  BY <1>p DEF Next, vars, schedulerVars
<1>2. PICK t \in Ticker : Turns(v, t) /\ ticker' = [ticker EXCEPT ![v] = t]
  BY <1>i, <1>1, TickerSteps
<1>3. v = s /\ ticker'[s] = t
  BY <1>t, <1>p, <1>2
<1>4. DispatchDue(s) \/ Duplicate(s) \/ Pair(s)[1] \in t.failed
  BY <1>p, <1>2, <1>3 DEF Turns, Passes
<1>5. CASE DispatchDue(s)
  <2>1. accepted' = [accepted EXCEPT ![Pair(s)] = @ \cup {nextSeq}]
    BY <1>5 DEF DispatchDue
  <2>2. accepted \in [Pairs -> SUBSET Nat]
    BY <1>i DEF SchedulerTypeOK
  <2>3. nextSeq \in accepted'[Pair(s)]
    BY <1>p, <2>1, <2>2
  <2> QED BY <2>3
<1>6. CASE Duplicate(s)
  BY <1>i, <1>p, <1>6, DuplicateAccepted, AcceptedGrows
<1> QED BY <1>3, <1>4, <1>5, <1>6

\* A Run, of any number at the same time, passes a due definition only when its
\* job of that minute is accepted, the definition is among the failed ones, or a
\* job opened a unique window of its key that is not over.
THEOREM RunsServe == Spec => RunServesDue
<1>1. ServedInv /\ [Next]_vars =>
        [\A s \in Schedulers : Passes(s) =>
           \/ Pair(s)[1] \in ticker'[s].failed
           \/ accepted'[Pair(s)] # {}
           \/ WindowOpen(JobOptions[Pair(s)[1]])]_vars
  BY ServesStep DEF Serves
<1> QED BY <1>1, InitServed, ServedStep, PTL DEF Spec, RunServesDue

-----------------------------------------------------------------------------
(* A minute's job is accepted once.                                        *)

\* No pair is accepted before its minute.
Opened == \A pair \in Pairs : accepted[pair] # {} => pair[2] * Minute <= now

\* A completed row is kept until the minute is over.
KeptLong == \A r \in jobs : r.status = "completed" => r.expires >= Over(r.req)

\* What a cleanup is about to delete is as old.
DeletedLate ==
  \A w \in Workers : worker[w].pc = "delete" =>
    \A pair \in Pairs : TaskIDFor[pair] \in worker[w].ids => now >= Over(pair)

\* Until then the row of a pair's last job stands, and the operators deleted those
\* accepted before it, or them all.
Standing ==
  \A pair \in Pairs :
    \/ accepted[pair] \subseteq dropped
    \/ now >= Over(pair)
    \/ \E r \in jobs : r.id = TaskIDFor[pair] /\ accepted[pair] \subseteq dropped \cup {r.seq}

OnceInv == SchedulerInv /\ Belongs /\ Opened /\ KeptLong /\ DeletedLate /\ Standing

LEMMA OpenedStep ==
  ASSUME OnceInv, [Next]_vars
  PROVE  Opened'
<1>i. SchedulerInv /\ SchedulerTypeOK /\ Opened
  BY DEF OnceInv, SchedulerInv
<1>c. now' >= now /\ now' \in Nat /\ now \in Nat
  BY <1>i, ClockStep, QueueFacts DEF SchedulerInv
<1>m. \A pair \in Pairs : pair[2] * Minute \in Nat
  BY Times
<1>o. \A pair \in Pairs : accepted[pair] # {} => pair[2] * Minute <= now'
  BY <1>i, <1>c, <1>m DEF Opened
<1>1. ASSUME NEW s \in Schedulers, DispatchDue(s) PROVE Opened'
  <2>1. PICK row : Dispatches(s, row)
    BY <1>1, DispatchDueStep
  <2>2. Pair(s)[2] * Minute <= now'
    BY <1>i, <2>1 DEF Dispatches, SchedulerTypeOK
  <2>3. \A pair \in Pairs : pair = Pair(s) \/ accepted'[pair] = accepted[pair]
    BY <1>i, <2>1 DEF Dispatches, SchedulerTypeOK
  <2> QED BY <1>o, <2>2, <2>3 DEF Opened
<1>2. CASE \A s \in Schedulers : ~DispatchDue(s)
  BY <1>i, <1>2, <1>o, OtherSteps DEF SchedulerInv, Opened
<1> QED BY <1>1, <1>2

LEMMA KeptLongStep ==
  ASSUME OnceInv, [Next]_vars
  PROVE  KeptLong'
<1>i. QueueInv /\ now \in Nat
  BY QueueFacts DEF OnceInv, SchedulerInv
<1>1. Q!Follows
  BY <1>i, QueueAssumptions, QueueStep, Q!NextFollows DEF QueueInv
<1>2. ASSUME NEW x \in jobs', x.status = "completed", NEW r \in jobs, Q!Becomes(r, x)
      PROVE  x.expires >= Over(x.req)
  <2>1. CASE x = r
    BY <1>2, <2>1 DEF OnceInv, KeptLong
  <2>2. CASE x # r
    <3>1. PICK w \in Workers :
            /\ worker[w].pc \in Q!Holding /\ r \in Q!Leased(worker[w].job)
            /\ x.expires = now + RunOptions[worker[w].job.req].retention
      BY <1>2, <2>2 DEF Q!Becomes, Q!Settles, Q!Holding
    <3>2. r.req = worker[w].job.req /\ x.req = r.req
      BY <1>2, <1>i, <3>1 DEF QueueInv, Q!Snapshot, Q!Becomes
    <3>3. x.req \in Pairs /\ x.req[2] * Minute <= now
      <4>1. r.req \in Pairs /\ accepted[r.req] # {}
        BY <1>i, QueueFacts DEF OnceInv, Belongs
      <4> QED BY <3>2, <4>1 DEF OnceInv, Opened
    <3>4. RunOptions[x.req].retention \in Nat /\ RunOptions[x.req].retention >= 2 * Minute
      BY <3>3, RunOptionsType DEF Q!Options
    <3>5. x.expires = now + RunOptions[x.req].retention
      BY <3>1, <3>2
    <3> QED BY <1>i, <3>3, <3>4, <3>5, Times
  <2> QED BY <2>1, <2>2
<1>3. \A x \in jobs' : x.status = "completed" => \E r \in jobs : Q!Becomes(r, x)
  BY <1>1 DEF Q!Follows, Q!Created
<1> QED BY <1>2, <1>3 DEF KeptLong

\* The row under the ID of a pair is the pair's.
LEMMA RowOfPair ==
  ASSUME OnceInv, NEW r \in jobs, NEW pair \in Pairs, r.id = TaskIDFor[pair]
  PROVE  r.req = pair
<1>1. r.req \in Pairs /\ TaskIDFor[r.req] = TaskIDFor[pair]
  BY QueueFacts DEF OnceInv, SchedulerInv, Belongs
<1> QED BY <1>1, TaskIDAssumption

LEMMA DeletedLateStep ==
  ASSUME OnceInv, [Next]_vars
  PROVE  DeletedLate'
<1>i. QueueInv /\ now \in Nat
  BY QueueFacts DEF OnceInv, SchedulerInv
<1>c. now' >= now /\ now' \in Nat
  BY ClockStep DEF OnceInv, SchedulerInv
<1>o. \A pair \in Pairs : Over(pair) \in Nat
  BY Times
<1>1. \A w \in Workers : worker'[w].pc = "delete" =>
         \/ worker'[w] = worker[w]
         \/ \A i \in worker'[w].ids :
              \E r \in jobs : r.id = i /\ r.status = "completed" /\ r.expires <= now
  BY <1>i, QueueAssumptions, QueueStep, Q!DeletersStep DEF QueueInv
<1> SUFFICES ASSUME NEW w \in Workers, worker'[w].pc = "delete",
                    NEW pair \in Pairs, TaskIDFor[pair] \in worker'[w].ids
             PROVE  now' >= Over(pair)
  BY DEF DeletedLate
<1>2. CASE worker'[w] = worker[w]
  BY <1>i, <1>c, <1>o, <1>2 DEF OnceInv, DeletedLate
<1>3. ASSUME NEW r \in jobs, r.id = TaskIDFor[pair], r.status = "completed", r.expires <= now
      PROVE  now' >= Over(pair)
  <2>1. r.expires >= Over(pair) /\ r.expires \in Nat
    BY <1>i, <1>3, RowOfPair, QueueFacts DEF OnceInv, KeptLong
  <2> QED BY <1>i, <1>c, <1>o, <1>3, <2>1
<1> QED BY <1>1, <1>2, <1>3

LEMMA StandingStep ==
  ASSUME OnceInv, [Next]_vars
  PROVE  Standing'
<1>i. QueueInv /\ SchedulerTypeOK /\ Standing /\ DeletedLate /\ now \in Nat
  BY QueueFacts DEF OnceInv, SchedulerInv
<1>c. now' >= now /\ now' \in Nat
  BY ClockStep DEF OnceInv, SchedulerInv
<1>o. \A pair \in Pairs : Over(pair) \in Nat
  BY Times
<1>1. ASSUME NEW s \in Schedulers, DispatchDue(s) PROVE Standing'
  <2>1. PICK row : Dispatches(s, row)
    BY <1>1, DispatchDueStep
  <2>2. ASSUME NEW pair \in Pairs, pair # Pair(s)
        PROVE  accepted'[pair] = accepted[pair]
    BY <1>i, <2>1, <2>2 DEF Dispatches, SchedulerTypeOK
  <2>3. /\ accepted'[Pair(s)] = accepted[Pair(s)] \cup {row.seq}
        /\ accepted[Pair(s)] \subseteq dropped \/ now >= Over(Pair(s))
    BY <1>i, <2>1 DEF Dispatches, SchedulerTypeOK, Standing
  <2>4. /\ row \in jobs' /\ jobs \subseteq jobs' /\ dropped' = dropped /\ now' = now
        /\ row.id = TaskIDFor[Pair(s)]
    BY <2>1 DEF Dispatches
  <2> QED BY <1>i, <2>2, <2>3, <2>4 DEF Standing
<1>2. ASSUME \A s \in Schedulers : ~DispatchDue(s), NEW pair \in Pairs
      PROVE  \/ accepted'[pair] \subseteq dropped'
             \/ now' >= Over(pair)
             \/ \E r \in jobs' : /\ r.id = TaskIDFor[pair]
                               /\ accepted'[pair] \subseteq dropped' \cup {r.seq}
  <2>1. accepted' = accepted
    BY <1>2, <1>i, OtherSteps
  <2>2. Q!Follows
    BY <1>i, QueueAssumptions, QueueStep, Q!NextFollows DEF QueueInv
  <2>3. dropped \subseteq dropped'
    BY <1>i, QueueAssumptions, QueueStep, Q!HistoryGrows DEF QueueInv
  <2>4. CASE now >= Over(pair)
    BY <1>i, <1>c, <1>o, <2>4
  <2>5. ASSUME NEW r \in jobs, r.id = TaskIDFor[pair],
               accepted[pair] \subseteq dropped \cup {r.seq}
        PROVE  \/ accepted[pair] \subseteq dropped'
               \/ now' >= Over(pair)
               \/ \E x \in jobs' : /\ x.id = TaskIDFor[pair]
                                 /\ accepted[pair] \subseteq dropped' \cup {x.seq}
    <3>1. ASSUME NEW x \in jobs', Q!Becomes(r, x)
          PROVE  x.id = TaskIDFor[pair] /\ accepted[pair] \subseteq dropped' \cup {x.seq}
      BY <2>3, <2>5, <3>1 DEF Q!Becomes
    <3>2. CASE Q!Gone(r)
      <4>1. ASSUME NEW w \in Workers, Q!Settles(w, r),
                   RunOptions[worker[w].job.req].retention <= 0
            PROVE  FALSE
        <5>1. worker[w].job.req \in Pairs
          BY <1>i, <4>1, QueueFacts DEF Q!Settles, Q!Holding
        <5>2. /\ RunOptions[worker[w].job.req].retention \in Nat
              /\ RunOptions[worker[w].job.req].retention >= 2 * Minute
          BY <5>1, RunOptionsType DEF Q!Options
        <5> QED BY <4>1, <5>2, MinuteAssumption
      <4>2. ASSUME NEW w \in Workers, worker[w].pc = "delete", r.id \in worker[w].ids
            PROVE  now' >= Over(pair)
        BY <1>i, <1>c, <1>o, <2>5, <4>2 DEF DeletedLate
      <4>3. r.seq \in dropped' => accepted[pair] \subseteq dropped'
        BY <2>3, <2>5
      <4> QED BY <3>2, <4>1, <4>2, <4>3 DEF Q!Gone
    <3>3. r \in jobs' => Q!Becomes(r, r)
      BY DEF Q!Becomes
    <3> QED BY <2>2, <2>5, <3>1, <3>2, <3>3 DEF Q!Follows
  <2> QED BY <1>i, <2>1, <2>3, <2>4, <2>5 DEF Standing
<1> QED BY <1>1, <1>2 DEF Standing

LEMMA OnceStep == OnceInv /\ [Next]_vars => OnceInv'
BY TypesStep, BelongsStep, OpenedStep, KeptLongStep, DeletedLateStep, StandingStep DEF OnceInv

LEMMA InitOnce == Init => OnceInv
<1> SUFFICES ASSUME Init PROVE Opened /\ KeptLong /\ DeletedLate /\ Standing
  BY InitServed DEF ServedInv, OnceInv
<1>1. jobs = {} /\ (\A pair \in Pairs : accepted[pair] = {}) /\ \A w \in Workers : worker[w].pc = "loop"
  BY DEF Init, Queue!Init, Queue!Idle
<1> QED BY <1>1 DEF Opened, KeptLong, DeletedLate, Standing

\* What DispatchedOncePerMinute says of a step.
AcceptedOnce ==
  \A pair \in Pairs : accepted'[pair] # accepted[pair] =>
    accepted[pair] \subseteq dropped \/ now >= (pair[2] + 2) * Minute

LEMMA AcceptedOnceStep == OnceInv /\ [Next]_vars => AcceptedOnce
<1> SUFFICES ASSUME OnceInv, [Next]_vars PROVE AcceptedOnce
  OBVIOUS
<1>1. ASSUME NEW s \in Schedulers, DispatchDue(s) PROVE AcceptedOnce
  <2>1. PICK row : Dispatches(s, row)
    BY <1>1, DispatchDueStep
  <2>2. accepted[Pair(s)] \subseteq dropped \/ now >= Over(Pair(s))
    BY <2>1 DEF Dispatches, OnceInv, Standing
  <2>3. \A pair \in Pairs : pair = Pair(s) \/ accepted'[pair] = accepted[pair]
    BY <2>1 DEF Dispatches, OnceInv, SchedulerInv, SchedulerTypeOK
  <2> QED BY <2>2, <2>3 DEF AcceptedOnce, Over
<1>2. CASE \A s \in Schedulers : ~DispatchDue(s)
  BY <1>2, OtherSteps DEF OnceInv, SchedulerInv, AcceptedOnce
<1> QED BY <1>1, <1>2

\* Replicas, operators and restarts together have a schedule's job of a minute
\* accepted once, until two minutes later or until an operator deleted it: that
\* other jobs are deleted makes no difference.
THEOREM AcceptedOncePerMinute == Spec => DispatchedOncePerMinute
<1>1. OnceInv /\ [Next]_vars =>
        [\A pair \in Pairs : accepted'[pair] # accepted[pair] =>
           accepted[pair] \subseteq dropped \/ now >= (pair[2] + 2) * Minute]_vars
  BY AcceptedOnceStep DEF AcceptedOnce
<1> QED BY <1>1, InitOnce, OnceStep, PTL DEF Spec, DispatchedOncePerMinute

-----------------------------------------------------------------------------
(* No job is lost between the schedules and the cleanup.                   *)

\* The task IDs of a schedule's rows are used again and their rows are kept,
\* so that what a scan found completed may be another job by the delete.  Here
\* it takes a scheduler that dispatches its pair again two minutes late: as
\* long as none does, the queue keeps its promises.
PunctualStep ==
  \A s \in Schedulers : DispatchDue(s) => accepted[Pair(s)] = {} \/ now < Over(Pair(s))

Punctual == [][PunctualStep]_vars

\* What a cleanup is about to delete are jobs of accepted pairs.
IdsBelong ==
  \A w \in Workers : worker[w].pc = "delete" =>
    \A i \in worker[w].ids :
      \E pair \in Pairs : accepted[pair] # {} /\ i = TaskIDFor[pair]

PunctualInv == OnceInv /\ Q!ExpiredBut({}) /\ IdsBelong

LEMMA IdsBelongStep ==
  ASSUME OnceInv, IdsBelong, [Next]_vars
  PROVE  IdsBelong'
<1>i. SchedulerInv /\ QueueInv /\ Belongs
  BY DEF OnceInv, SchedulerInv
<1>1. \A pair \in Pairs : accepted[pair] # {} => accepted'[pair] # {}
  BY <1>i, AcceptedGrows
<1>2. \A w \in Workers : worker'[w].pc = "delete" =>
         worker'[w] = worker[w] \/ \A i \in worker'[w].ids : \E r \in jobs : r.id = i
  BY <1>i, QueueAssumptions, QueueStep, Q!DeletersStep DEF QueueInv
<1>3. \A r \in jobs : \E pair \in Pairs : accepted[pair] # {} /\ r.id = TaskIDFor[pair]
  BY <1>i, QueueFacts DEF Belongs
<1> QED BY <1>1, <1>2, <1>3 DEF IdsBelong

\* What is dispatched under an ID that a cleanup has is late.
LEMMA NoneUnderDeletedId ==
  ASSUME PunctualInv, PunctualStep, [Next]_vars, NEW s \in jobs', Q!Created(s),
         NEW w \in Workers, worker[w].pc = "delete"
  PROVE  s.id \notin worker[w].ids
<1> SUFFICES ASSUME s.id \in worker[w].ids PROVE FALSE
  OBVIOUS
<1>i. OnceInv /\ QueueInv /\ DeletedLate
  BY DEF PunctualInv, OnceInv, SchedulerInv
<1>1. s.seq = nextSeq /\ nextSeq' # nextSeq /\ s \notin jobs
  BY <1>i, QueueFacts DEF Q!Created
<1>2. PICK v \in Schedulers : DispatchDue(v)
  BY <1>i, <1>1, OtherSteps
<1>r. PICK row : Dispatches(v, row)
  BY <1>2, DispatchDueStep
<1>3. s = row /\ s.id = TaskIDFor[Pair(v)] /\ Pair(v) \in Pairs
  BY <1>1, <1>r DEF Dispatches
<1>4. PICK pair \in Pairs : accepted[pair] # {} /\ s.id = TaskIDFor[pair]
  BY DEF PunctualInv, IdsBelong
<1>5. pair = Pair(v)
  BY <1>3, <1>4, TaskIDAssumption
<1>6. now < Over(pair)
  BY <1>2, <1>4, <1>5 DEF PunctualStep
<1>7. now >= Over(pair)
  BY <1>i, <1>4 DEF DeletedLate
<1>8. now \in Nat /\ Over(pair) \in Nat
  BY <1>i, QueueFacts, Times
<1> QED BY <1>6, <1>7, <1>8

LEMMA PunctualInvStep == PunctualInv /\ [Next]_vars /\ [PunctualStep]_vars => PunctualInv'
<1> SUFFICES ASSUME PunctualInv, [Next]_vars, [PunctualStep]_vars PROVE PunctualInv'
  OBVIOUS
<1>1. OnceInv' /\ IdsBelong'
  BY OnceStep, IdsBelongStep DEF PunctualInv
<1>2. Q!LeaseInv /\ [Q!Next]_(Q!vars)
  BY QueueStep DEF PunctualInv, OnceInv, SchedulerInv, QueueInv
<1>3. CASE PunctualStep
  <2>1. Q!ExpiredBut({})'
    BY <1>2, <1>3, NoneUnderDeletedId, QueueAssumptions, Q!ExpiredStep DEF PunctualInv
  <2> QED BY <1>1, <2>1 DEF PunctualInv
<1>4. CASE UNCHANGED vars
  <2>1. Q!ExpiredBut({})'
    BY <1>4 DEF vars, queueVars, PunctualInv, Q!ExpiredBut
  <2> QED BY <1>1, <2>1 DEF PunctualInv
<1> QED BY <1>3, <1>4

LEMMA InitPunctual == Init => PunctualInv
<1>1. Init => \A w \in Workers : worker[w].pc = "loop"
  BY DEF Init, Queue!Init, Queue!Idle
<1> QED BY <1>1, InitOnce DEF PunctualInv, Q!ExpiredBut, IdsBelong

LEMMA PunctualSpares == PunctualInv /\ [Next]_vars => [Q!Spares]_(Q!vars)
BY QueueAssumptions, QueueStep, Q!SparesStep DEF PunctualInv, OnceInv, SchedulerInv, QueueInv

\* The queue the schedulers dispatch into is the one of JobQueue, for the jobs due
\* at each minute as its requests.
THEOREM ScheduledQueue == Spec => Q!Spec
<1>1. Init => Q!Init
  BY SameInit DEF Init
<1> QED BY <1>1, QueueStep, PTL DEF Spec, Q!Spec

\* The cleanup deletes expired completed jobs and no others, as long as no
\* scheduler dispatches a pair again two minutes late.
THEOREM ScheduledCleanups == Spec /\ Punctual => Q!CleanupSparesOthers
<1>1. [Q!Spares]_(Q!vars) =>
        [\A w \in Workers : worker[w].pc = "delete" /\ worker'[w] # worker[w] =>
           \A r \in jobs \ jobs' : r.status = "completed" /\ r.expires <= now]_(Q!vars)
  BY DEF Q!Spares
<1> QED
  BY <1>1, InitPunctual, PunctualInvStep, PunctualSpares, PTL
     DEF Spec, Punctual, Q!CleanupSparesOthers

\* Then no job that a scheduler had accepted is lost, only the worker that owns
\* one settles it, and the tables keep what JobLifecycle promises of it, whatever
\* schedulers, workers and operators do and whichever of them crash.
THEOREM ScheduledJobsKept ==
  Spec /\ Punctual => []Q!NoLostJob /\ Q!OwnerSettles /\ Q!ImplementsLifecycle
<1>1. Q!Spec /\ Q!CleanupSparesOthers => []Q!NoLostJob
  BY QueueAssumptions, Q!NothingLost
<1>2. Q!Spec /\ Q!CleanupSparesOthers => Q!OwnerSettles
  BY QueueAssumptions, Q!OwnersSettle
<1>3. Q!Spec /\ Q!CleanupSparesOthers => Q!ImplementsLifecycle
  BY QueueAssumptions, Q!QueueImplementsLifecycle
<1> QED BY <1>1, <1>2, <1>3, ScheduledQueue, ScheduledCleanups, PTL
=============================================================================
