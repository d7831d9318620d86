# Verification of the clean-architecture template

TLA+ modules, TLC runs and TLAPS proofs for the service in `src/`: a Go web
service (Fiber, GORM, MySQL) with users, sessions and verified e-mail
addresses, a job queue kept in database tables, a cron scheduler, and a command
`app all` that runs server, worker and scheduler in one process. All paths
below are relative to `src/`; `PROJECT.json` maps each definition to its lines.

    tlc -workers 2 -config JobQueue_leases.cfg MCJobQueue    # one run
    tlapm JobQueueProofs.tla                                 # the proofs

## 1. The system

| Component | State | Operations | What makes it hard |
|---|---|---|---|
| Queue dispatcher (`internal/adapter/queue/database.go:72`) | `queue_jobs`, `queue_locks` | `Dispatch` with task ID, unique window, delay, retention | two kinds of lock with different lifetimes; clock read before the commit |
| Queue worker (`database.go:138-435`, `database_reservation.go`) | the same tables, `queue_stats`; per process `nextCleanup`; per goroutine position, snapshot of the job, deadline | reserve, process, heartbeat, complete, fail, cleanup, shutdown | several processes and goroutines; leases against an old clock reading; late results; crashes; values captured in one statement and used in another |
| Queue inspector and command (`database.go:437-588`, `cmd/app/queue.go`) | the same tables | list, stats, retry and delete failed jobs | several statements beside working workers |
| Scheduler (`internal/scheduler`, `cmd/app/scheduler.go`, `cmd/app/schedule.go`) | registry (constant after start-up), timer | a Run each minute, `schedule run` | replicas and operators dispatch the same minute, possibly late |
| Accounts (`internal/auth`, `internal/user`, `internal/adapter/mysql/identity`) | `users`, `email_verification_tokens` | register, create, resend, verify, update, change role, delete | services decide on what they read before the transaction; row locks taken one after the other |
| Sessions (same packages, `internal/adapter/jwt`) | `refresh_tokens`, `users.token_version` | login, refresh (rotation), logout, revocation, cleanup | token versions and revocations against requests under way |
| Mail, jobs, notifiers (`internal/mail`, `internal/adapter/jobs`, `smtp`) | messages on the queue and in inboxes | render and queue a message; the handlers that send it | a chain of request, queue, worker and SMTP that can break at each joint, and comes back as a followed link |
| HTTP (`internal/adapter/http`) | none | routes, authentication, DTOs | read-then-call sequences in the handlers |
| Process (`cmd/app/all.go`, `serve.go`, `server.go`, `worker.go`, `scheduler.go`, `internal/adapter/mysql/connection.go`) | context, wait group, `firstErr`, pool | load, connect, start, fail, signal, shut down | three goroutines that end each other |
| Configuration, wiring (`internal/config`, `internal/bootstrap`) | none after loading | normalise, validate, build by driver | boundary values that slip through |
| Redis queue (`internal/adapter/queue/asynq.go`) | in Redis | adapter over the asynq library | behaviour is the library's |
| Logging, bcrypt, cron parser, template tooling | none at run time | | |

How they interact: HTTP requests call the auth and user services, which read
and write the identity tables and hand mails to the dispatcher; a verification
mail is dispatched inside the registration's transaction but in a transaction
of its own. The scheduler only calls `Dispatch`. Workers of any number of
processes share nothing but the tables; goroutines of one process share also
`nextCleanup` and the context. `app all` gives the three components one context
and one pool.

What must hold, by component: an accepted job is never lost, never settled by
two workers, not accepted again inside its unique window, and served in the end;
a schedule's job of a minute is accepted once; there is always an admin and roles
change on an admin's authority; an unverified address is claimed once and welcomed
once; a registered user has a verification message on its way, a message that
counts as sent was, and an address is verified by a link that went to it; role
changes and deletions end and leave no locks; a refresh token is exchanged once
and a version change ends the sessions; `retry all` means all; `app all` ends as
a whole, reports the cause and gives jobs their time to end.
`PROJECT.json` lists the hazards line by line, with the property for each.

## 2. The modules

The queue came first (the only concurrent protocol written by hand), then
identity, the scheduler on top of the queue, and the process around them; then
what joins the parts: the statements inside identity's transactions, and the way
of a message from a request over the queue to an inbox and back.

| Module | Models | Composes |
|---|---|---|
| `JobQueue` | dispatcher, worker and inspector over the tables | |
| `JobLifecycle` | abstract: what the queue promises about each job | |
| `JobQueueLifecycle` | the refinement mapping | `JobQueue`, `JobLifecycle` |
| `WorkerLoop` | the loaded queue settings, the weighted rotation and the sleeps of `runLoop` | |
| `Scheduler` | schedulers and `schedule run` | `JobQueue` (INSTANCE) |
| `QueueCommand` | `queue retry`, `delete`, `status` statement by statement | `JobLifecycle` |
| `Delivery` | services, notifiers, mailer, mail handler, SMTP, links | `QueueCommand`, `JobLifecycle` |
| `Identity` | accounts, verification, roles, sessions | |
| `Transactions` | role change, deletion, verification by statement and row lock | refines `Identity` (INSTANCE) |
| `AppLifecycle` | the commands `all`, `serve`, `worker`, `scheduler` | |
| `JobQueueProofs`, `SettlementProofs`, `TransactionsProofs`, `IdentityProofs`, `DeliveryProofs`, `AppLifecycleProofs`, `WorkerLoopProofs` | theorems | the modules they are about |
| `SchedulerProofs` | theorems | `Scheduler`, and `SettlementProofs` for its queue (INSTANCE) |
| `MC*` | constants, option tables, symmetry for TLC | |

In each module, definitions marked `Faulty:` are wrong forms of the one that
follows them. The specification does not use them; they show that a property
notices the mistake.

### JobQueue

*State.* `jobs`, `taskLocks`, `uniqueLocks`, `processed` are the tables
(`queue_locks` split by whether `expires_at` is NULL). `worker[w]` is a
goroutine's local state: `at`, the `now` that `reserve` captured; `ids`, the ids
of a cleanup scan; `job`, the snapshot of the reserved row; `deadline`, until when
it believes to have the lease. `nextCleanup` and `stopping` belong to a process.
`done`, `dropped`, `window` are history. `now` is one clock for all processes, in
seconds; `ClockLag` bounds the age of the reading `Dispatch` commits with.

*Actions.* One transaction, or one local step between two:
`Dispatch`; `StartReserve` (clock and cleanup decision), `CleanupLocks`,
`CleanupScan`, `CleanupDelete` (statements of their own in the code, so three
steps), `SelectJob` (SELECT ... FOR UPDATE SKIP LOCKED; the row is locked until)
`Reserve` (commit), `SelectNone`, `Heartbeat`, `HandlerReturns`, `Complete`,
`Fail`; `CleanupError`, `ReserveError`, `SettleError` for database errors, the
answer of a committed transaction being lost included; `Shutdown`, `Exit` and
`Crash` of a process; the operator's `Retry` and `Delete`. A refused dispatch rolls
back and is no step. `SelectJob` lets a worker try any queue next; in which order
it does is `WorkerLoop`.

*Abstractions.* Payload and type are one key; the retry delay is the table that
the shift and the cap of `retryDelay` compute (`database.go:652`); seconds are the
unit of time; `last_error` and the listing columns are left out.

### JobLifecycle, JobQueueLifecycle

A job is `none`, `waiting`, `active` (with an owner or none), `failed`, `done` or
`dropped`. Only the owner settles, `done` and `dropped` are final, operators
decide about failed jobs only, a restart makes owners forget. A job's state is
read off its row and the history, its owner is the worker whose token the row
has. A job whose row vanished in any other way would be `lost`, which the abstract
specification does not have.

### WorkerLoop

`cfg` is one of the queue sections that `Load` lets through: `Given` is what a file
or the environment may say, `normalizeQueueConfig` and `validateConfig` are the
functions of `internal/config`, `Loaded` their order. Each goroutine walks
`weightedQueueNames` from its own offset, sleeps after an error or when the count
of empty slots reaches the length, and the count starts again after a job and
after a sleep. `Arrive` and `Depart` change at will which queues have a job.

### Scheduler

`Start`, `Fire`, `Stop` are the timer loop of `runScheduler`, `RunOnce` is
`schedule run`; `Skip`, `DispatchDue`, `Duplicate`, `DispatchError`, `RunReturns`
are the steps of `Runner.Run`, one definition at a time. `DispatchDue` is the
`Dispatch` of `JobQueue` with the options `Run` makes up (task ID of name and
minute, retention of at least two minutes), and everything else of the queue
runs alongside. `Duplicate` is every case in which that `Dispatch` refuses
(`DuplicateKey` of `JobQueue`): a row or lock of the task ID, or an unexpired unique
lock, both of which `Run` takes for success (`scheduler.go:134`). `accepted` is history. Which schedule is due in which minute is a constant.

### Identity

A request is a slot that keeps what the services read (`id`, `actor`, `version`,
`token`, ...) until the transaction that uses it. A transaction that locks what
it reads is one action, since InnoDB lets no conflicting write in between.
`UpdateProfile` is two (`LockProfile`, `UpdateProfile`), because its count of other
claims to the address is a plain read. Between the two the row is locked:
writes of it and of its child rows wait (`RowFree`), and so does the locking scan
of `RegisterUser` and `createUser` over the unindexed condition (`ScanFree`).
`Fail(c)` ends a request anywhere: a refused precondition, a rollback, a deadlock
or lock timeout, a client gone. A registration whose dispatch fails rolls back and
is no step; one whose commit fails after the dispatch is `RegisterUncommitted`.
The checks the services make before `ChangeRole` and `Delete` are the guards of the
`Start...` actions; what the transactions check again is in the others.

Passwords, usernames, token strings and access tokens are not modelled: a
password is correct or the request is not made, a token is a number, and a JWT is
its claims.

### Transactions

The transactions of `ChangeRole`, `Delete` and `VerifyEmail`, each a chain of
statements (`LockActor`, `LockToken`, `LockTarget`, `LockAdmins`, `CountAdmins` or
`CountPlainly`, the write). `tx[c]` is what connection `c` has read and which rows it
has locked; a statement waits while another transaction holds a row it needs, the
scan `WHERE role = 'admin'` takes every user in the order of the ids, as no index
serves it, and `Victim` is InnoDB's way out of a cycle of waits. `Fail` is a lock
wait timeout or a lost connection. Locking and cycle detection are external,
modelled as InnoDB does them at MySQL's default isolation level; a `Count` without
`FOR UPDATE` reads committed rows and waits for nobody. `Accounts` maps the state
to that of `Identity`, where each transaction is one step.

### QueueCommand

`cmd` is a running command: the queues it has still to visit and, as history, the
jobs it has to account for (`due`) or has counted (`seen`). `ReadRows` and `ReadStats`
are the two statements of `Queues`, `Operate` is one `RetryAll` or `DeleteAll`,
`FirstRead` and `SecondRead` are the two statements of `Stats`. `End` may come at
any point: an error leaves the later queues alone. The jobs move between the
statements as `JobLifecycle` allows.

### Delivery

*State.* `users` and `token` have of an account what messages depend on (`Identity`
has the rest). `req[c]` is a request between two of its steps, with the copy of the
account it read; `message[j]` is the payload of a job, `handler[w]` the result a
worker has yet to report, `inbox` the jobs whose message arrived. `outdated` is
history: tokens that do not belong to the address they will activate, because
the pending address changed after the account was read for them.

*Actions.* `Register` inserts user and token and queues the message before `Commit`;
if the message is not queued, the request ends. `UpdateProfile` and `Resend` go on to
`ReadAccount`, `ReplaceToken` (the rate check passed) and `NotifyVerification`, each a
transaction of its own; `VerifyEmail` follows a link found in the inbox, and
`NotifyWelcome` comes after its commit. `Fail` ends a request anywhere, which covers
rollbacks, refused calls and dropped errors. `Run` is a reservation with the handler;
`Send` may deliver and still return an error. `Report` settles the job if it is still
the worker's; `LoseLease` hands it to another process; `Crash` makes a process
forget. `Operator` is the queue command. The queue is `JobLifecycle`, which `JobQueue`
is checked to implement.

*Abstractions.* Templates, subjects and SMTP sessions: a message is its kind, user,
token hash and recipient. Deletion of users and creation by an admin are in `Identity`
only.

### AppLifecycle

`command` is one of the four long-running commands, `driver` the queue driver.
`LoadConfig` or `LoadFails` come first; what needs the database (`NeedsPool`) goes
through `Connect`, `ConnectFails`, `TryAgain`, `StopWaiting`, the loop of
`mysqladapter.Open` under the signal context; `StartComponents` or
`DispatcherFails` follow. Each component of the command is then `start`, `up`,
`returned` and, in `all`, `recorded` (`firstErr`) and `done` (`cancel`, `wg.Done`);
the other commands return what their component returns (`ExitWith`).
The HTTP library is external and modelled from its use: `Shutdown` closes the
listener, upon which `Listen` returns nil at once; without a listener it does
nothing, and a later `Listen` serves as ever. With the driver `redis` the worker's
goroutines are asynq's, whose `Shutdown` is taken to wait for handlers until the
configured timeout, as `DatabaseWorker.Run` does.

## 3. What is checked

| Run | Instance | What it shows |
|---|---|---|
| `leases` | 2 workers, each a process; one job with timeout and retention; leases of 2, clock to 3; one fault; fairness | `LeaseExclusive`, `LeaseHeld`: workers that both believe in a lasting lease never share a job. `OwnerSettles`, `SettledOnce`: late results change nothing. `NoLostJob`: every accepted job is still to be done, was completed or was deleted by an operator. `ImplementsLifecycle`: the queue implements `JobLifecycle`. `EventuallyServed`: no due job stays due, after a crash or a lost answer too. |
| `unique` | 2 goroutines of one process; a job with a task ID and a unique job of another queue, both kept for a second; 3 dispatches; clock to 2, readings one second old, a cleanup each second | `TaskLockIffRow`, `UniqueOncePerWindow`, `FailedAfterRetries`. `CleanupTakesKept`: cleanups that overlap take another's job only under a task ID of which completed rows are kept. |
| `reused_id` | 2 processes, 2 dispatches of a task ID | violated: see findings. |
| `rotation` | every queue section with up to 2 queues, weights and numbers of -1 to 2; 2 errors; fairness | `PollsWhenAllEmpty`, `BoundedIdling`, `NoStarvation`: whatever loads gives a worker that sleeps when it should and serves every configured queue. |
| `replicas` | 2 schedulers, 2 schedules, one of them unique for a minute and not due in the first; minutes 0-2; one worker with cleanup; one error or crash | `DispatchedOncePerMinute`: a pair of schedule and minute is accepted again only two minutes late, or when operators deleted all of its jobs. `RunServesDue`: a schedule that `Run` passes over without an error has its job accepted or its unique window open. |
| `all` | 4 commands, 3 drivers, 2 goroutines, 1 request, 3 connection attempts, fairness | `ReportsCause`, `JobsEndOrTimeOut`, `WaitingStops`, `RunningStops`. |
| `stops` | as `all` | violated: see findings. |
| `roles` | 3 users, one of them new and with the bootstrap address; 2 connections; fairness | `ImplementsAccounts`: statement by statement the transactions do what the atomic ones of `Identity` do. `AdminRemains`, and `TransactionsEnd`: waits and cycles end. |
| `accounts` | 2 users, 2 addresses, 2 requests, 3 tokens and versions | `UnverifiedAddressClaimedOnce`, `RoleChangesAuthorised`, types (a token has a user). |
| `delivery` | 1 worker and other processes, 3 jobs, 1 user, 2 addresses, 2 tokens, 2 requests, 3 queues of which one is configured | `RegisteredIsNotified` (of registrations: users that an admin creates are committed before their message is sent, `user_handler.go:104`), `DoneMeansDelivered`, `WelcomeAfterVerification`, `AddressProven` (with outdated tokens as its exception, see the observations); `AllMeansAll`, `StatsMissNone`. |
| `sessions` | 1 user, 2 requests, 4 tokens, 4 versions | `SingleUse`, `OldSessionsEnd`. |
| `stale_actor` | 2 requests: verify, change role, delete | violated: see findings. |

*Why the bounds are enough.* A lease conflict needs two workers, one job, and a
clock that passes one lease and enters the next: 3 ticks with leases of 2 and a
handler timeout of 1. A window or retention conflict needs a dispatch before, in
and after the window: three. A lost answer and a crash have the same shape; one
fault at every point covers each alone, two in one behaviour are not covered.
An overlap of cleanups needs two goroutines and a scan, a delete of the same row and a
new dispatch before the other delete, within two ticks at an interval of one. Two
queues keep the counters of `queue_stats` and the operator's calls apart. A duplicate
of the unique lock needs two minutes of one schedule within its window. Two
requests at once suffice for every race between one read and one transaction;
three users, for two admins and a third who is promoted meanwhile, and two open
transactions, for any cycle of waits between two of the three kinds. Three
connection attempts have a first, a middle and a last one; the code has ten.
`maxRetry` is 1, so that it is reached; nothing in the code depends on its size.
Weights and numbers of -1 to 2 have one below, at and above each limit that the
loading tests.

In `delivery`, three messages are a first link, a second one after a change of
address, and a welcome; two tokens are an outdated one and its successor. Two
bounds of `Delivery` are in the guards: the behaviours with dispatches other than mail, or with a
command that reads queue by queue, are those without users (`NoMail`), and those
with users have mail only (`OnlyMail`); to the command a job is a job, and what it
may do to a single failed message is in all of them. Several users, and any
number of everything else, are covered by the proofs (section 4), which hold
with these two guards and do not use them.

Deadlock is checked for `JobQueue` and `WorkerLoop`, where a worker or the
restart of a process always has a step. It is not for the runs that stop when
bounded ids, versions and clocks are used up (`Identity`, `Scheduler`,
`Transactions`, `Delivery`), and for `AppLifecycle`, whose process ends; what must not
get stuck in these is a liveness property (`TransactionsEnd`, `RunningStops`).

Symmetry (workers, schedulers, clients, addresses other than the bootstrap one)
is used in runs of safety properties and refinement only.

*Fairness.* `leases`: the clock moves (`Tick`), the runtime schedules goroutines
and handlers return (the timeout context asks them to; `WorkerStep`), a process
told to stop is started again (`Exit`). Heartbeats, faults and operators
are not fair, and faults are bounded. `rotation`: goroutines and timers.
`all`: loading, goroutines, timers and the command's own steps; the worker is built
or fails (`StartWorker \/ BuildFails("worker")`); strong fairness for
`SchedulerStops`, because the select of `runScheduler` chooses at random between
the cancelled context and a timer that is ready once a minute. `roles`: InnoDB
grants locks in the order of the requests, so a statement whose lock is free again
and again gets it (strong fairness of `Step`), and it looks for cycles (`Victim`);
lock wait timeouts and lost connections (`Fail`) may but need not happen. Nothing
is assumed of handlers, clients, signals and failures.

### Findings

* `stops`, `cmd/app/server.go:72`: when the context is done before the server has
  a listener (a component fails at start-up, or a signal), `Shutdown` has nothing
  to close, `Listen` then serves for ever and `all` never returns, with neither
  worker nor scheduler. `docs/ARCHITECTURE.md:71-72` promises that any component's
  return ends the others. `RunningStops` in `all` shows that it holds once the
  server listens, and for the commands without a server.
* `reused_id`, `database.go:407`: the cleanup deletes by ids it read in an earlier
  statement. If another process deletes the same expired row and the task ID is
  dispatched again in between, the new pending job is deleted with its lock, and
  is lost. Two goroutines of one process can do the same when a cleanup takes longer
  than the interval between two (`database.go:374-384`): on the instance of `unique`, which is of that kind,
  `CleanupSparesOthers` is violated too. `CleanupTakesKept` says which jobs are
  exposed: those under a task ID of which completed rows are kept, as the
  scheduler's are.
* `stale_actor`, `repository.go:229`: `Delete` does not read the actor again, as
  `ChangeRole` does, so an admin demoted meanwhile still deletes a user.
  `docs/ARCHITECTURE.md:94-97` says deletion re-checks the actor.

### Observations that no property states

* A job whose worker dies each time is taken over without limit:
  `max_retry` is looked at only in `fail` (`database.go:418`), while README.md:296
  speaks of the number of retries.
* A token names a user, not an address. A second profile update within a minute
  changes the pending address without a message of its own (`auth/service.go:302`),
  and the link sent to the first address then verifies the second; so does a resend
  that read the account before the change. `CONTEXT.md:24-27` calls the verified
  address the one whose ownership was proved. `AddressProven` has these tokens as
  its exception (`outdated`): they are the only ones.
* A `reservation_seconds` of 1 passes the loading (`config.go:380`), but the heartbeat waits
  at least a second (`database.go:308`), so that the lease ends as it is renewed.
* The driver `none` is accepted by `config.Load` (`config.go:18`), also without any
  queue, and fails in every command (`bootstrap.go:34`, `bootstrap.go:77`).
* Mails and the token cleanup go to the queues `mail` and `maintenance` whatever
  `queue.queues` says; without an entry there, nobody serves them.
* A partial update without an e-mail passes on the address the handler read
  (`user_handler.go:157`); if a verification replaced it meanwhile, the old address
  becomes the pending one.
* `all` may end while requests are still being answered, because `Listen`
  returns as soon as the listener is closed.
* The pool is opened with GORM's `TranslateError` (`connection.go:23`), so the test
  for a `*mysql.MySQLError` in `mapWriteError` may never match. The kind of an error
  is not modelled.
* Each tick serves its own minute only: a minute that a long `Run` or a stopped
  process lets pass (`cmd/app/scheduler.go:80`) is not looked back at. The model
  skips minutes too, and no document promises otherwise.

## 4. What is proved

Eight modules hold the theorems. Each holds for every value of the constants that
satisfies the assumptions of the module it is about, so for any number of
workers, users, jobs, requests, messages and goroutines.

| Module | Theorem | Statement | Assumptions |
|---|---|---|---|
| `JobQueueProofs` | `TypeCorrect` | `Spec => []TypeOK` | `OptAssumption`, `IdAssumption`, `ProcAssumption`, `TimeAssumption` |
| | `LeasesExclude` | `Spec => []LeaseExclusive` | |
| | `LeasesHold` | `Spec => []LeaseHeld` | |
| | `TaskLocksFollowRows` | `Spec => []TaskLockIffRow` | |
| | `UniqueWindows` | `Spec => UniqueOncePerWindow` | |
| `SettlementProofs` | `FailuresExhausted` | `Spec => []FailedAfterRetries` | as `JobQueueProofs` |
| | `JobsSettleOnce` | `Spec => []SettledOnce` | |
| | `NothingLost` | `Spec /\ CleanupSparesOthers => []NoLostJob` | |
| | `OwnersSettle` | `Spec /\ CleanupSparesOthers => OwnerSettles` | |
| | `QueueImplementsLifecycle` | `Spec /\ CleanupSparesOthers => ImplementsLifecycle` | and `BoundAssumption` |
| | `CleanupsTakeKept` | `Spec => CleanupTakesKept` | |
| | `CleanupsSpare` | `KeptIdsUnique /\ Spec => CleanupSparesOthers` | |
| | `UniqueIdsSuffice` | `KeptIdsUnique /\ Spec =>` the three above | and `BoundAssumption` |
| `SchedulerProofs` | `SchedulerTypes` | `Spec => []SchedulerTypeOK` | those of `Scheduler` |
| | `RunsServe` | `Spec => RunServesDue` | |
| | `AcceptedOncePerMinute` | `Spec => DispatchedOncePerMinute` | |
| | `ScheduledQueue` | `Spec => Q!Spec`, the queue of `JobQueue` | |
| | `ScheduledCleanups` | `Spec /\ Punctual => Q!CleanupSparesOthers` | |
| | `ScheduledJobsKept` | `Spec /\ Punctual => []Q!NoLostJob /\ Q!OwnerSettles /\ Q!ImplementsLifecycle` | |
| `TransactionsProofs` | `TypeCorrect` | `Spec => []TypeOK` | `UserAssumption`, `VersionAssumption` |
| | `AnAdminRemains` | `Spec => AdminRemains` | |
| | `StatementsActAtomically` | `Spec => ImplementsAccounts` | |
| | `StepsOfIdentity` | `Spec => [][Accounts!Next]_(Accounts!vars)` | |
| | `RolesChangeByAuthority` | `Spec => RoleChangesAuthorised` | |
| `IdentityProofs` | `IdentityTypes` | `Spec => []TypeOK` | those of `Identity` |
| | `ClaimedOnce` | `Spec => []UnverifiedAddressClaimedOnce` | |
| | `ExchangedOnce` | `Spec => []SingleUse` | |
| | `SessionsEnd` | `Spec => []OldSessionsEnd` | |
| | `RolesAuthorised` | `Spec => RoleChangesAuthorised` | |
| `AppLifecycleProofs` | `AppTypes` | `Spec => []TypeOK` | those of `AppLifecycle` |
| | `CausesReported` | `Spec => []ReportsCause` | |
| | `JobsEnd` | `Spec => []JobsEndOrTimeOut` | |
| `DeliveryProofs` | `DeliveryTypeCorrect` | `Spec => []TypeOK` | `DeliveryAssumption`, `BoundAssumption`, `ConfiguredAssumption` |
| | `NobodyRegisteredInSilence` | `Spec => []RegisteredIsNotified` | |
| | `DoneIsDelivered` | `Spec => []DoneMeansDelivered` | |
| | `AllAreOperatedOn` | `Spec => []AllMeansAll` | |
| | `NoneIsMissed` | `Spec => []StatsMissNone` | |
| | `WelcomedOnceVerified` | `Spec => []WelcomeAfterVerification` | |
| | `OnlyProvenAddresses` | `Spec => AddressProven` | |
| `WorkerLoopProofs` | `RotationTypeCorrect` | `Spec => []TypeOK` | `NamesAssumption`, `SettingsAssumption`, `BoundAssumption` |
| | `PollsOnlyWhenAllEmpty` | `Spec => []PollsWhenAllEmpty` | |
| | `IdlesBoundedly` | `Spec => BoundedIdling` | |
| | `ConfiguredServed` | `Spec => []ServesConfigured` | |

*Leases* (`LeaseInv`). `LeaseExclusive` alone is not inductive: nothing in it
says why a row that a worker reserves is not held by another. `LeaseInv` adds
`Fresh` (creation numbers and tokens in use were handed out before),
`RowsApart` (ids and creation numbers identify rows), `LockHeld` and `LocksApart` (a row
under reservation is still as selected, is eligible by the captured clock
reading, which is not in the future, and is locked by one worker), and `TokensApart`
(a lease token belongs to one worker and one job). `LeaseHeld` ties a worker's
belief to the row. A reservation takes a row that is waiting, or active with a
lease that ended by the time of the reading, hence by now; a worker that believed
in it would, by `LeaseHeld`, have a deadline in the past. A late heartbeat can only
extend the row its token is on. `UniqueWindows` needs `WindowLocked`: while the
clock is before the window's end, a unique lock with that expiry exists. `WindowOfLock`
is the converse, for the schedulers: the unique lock of a key ends with the last window
that a job of the key opened.

*Settlement* (`SettleInv`, `Snapshot`). `NextFollows` says once, for every action, what
a step may do to a row (`Becomes`, `Gone`, `Created`); the theorems about jobs use
it and not the actions. `FailedAfterRetries` needs `Snapshot`: the copy by which a
worker judges its job still has the attempts of the row while the row has the
worker's token, as every reservation makes a new token. `SettledOnce` needs
`Past` (the histories are finite and hold accepted jobs only); a job is counted when its row
leaves the unfinished ones in the same transaction.

*Cleanups.* `NoLostJob`, `OwnerSettles` and the refinement fail in general, as the finding
`reused_id` shows; `CleanupSparesOthers`, the property that run violates, is exactly
what is missing, and is a premise of their theorems. What holds without a premise is
`CleanupTakesKept` (`KeptInv`): an id of a scan is one of `KeptIDs`, a task ID of which
completed rows are kept, or a uuid handed out before (`Scanned`, from `KeptRows`: no
other row completes and stays), and rows under uuids are completed and expired, or gone,
until the delete (`ExpiredBut`). Where no request with a task ID keeps its row, `KeptIDs`
is empty and `CleanupSparesOthers` follows. Mails and demo jobs are such requests; the scheduler's are not, as
`Run` gives each a task ID and a retention.

*The queue of the schedulers.* `Scheduler` has a JobQueue of its own, by INSTANCE.
`ScheduledQueue` shows that its behaviours are behaviours of `JobQueue` for the requests and
options that `Run` makes up, and that `QueueAssumption` and `MinuteAssumption` of
`Scheduler` imply what the queue's theorems assume, so that all of them hold of it
(`Q!LeaseNext`, `Q!NextFollows`, ...).

*A minute's job* (`ServedInv`, `OnceInv`). A task ID belongs to one pair of schedule and
minute, so that the rows are those of accepted pairs, under their IDs (`Belongs`): what
`Run` takes for a duplicate by its task ID is the same pair's job, and what it takes for
one by a unique lock is a window that a job opened and that lasts (`WindowOfLock`;
`DuplicateAccepted`). That this job is accepted once
takes four facts: no pair is accepted before its minute begins (`Opened`), so that a
row completed after that and kept for `retention`, two minutes at least, expires
after them (`KeptLong`); what a cleanup is about to delete is that old
(`DeletedLate`); so until then the row of the last job accepted for the pair
stands and its ID is refused, and operators deleted the jobs before it; or they deleted
that one too (`Standing`).

*What is kept of scheduled jobs* (`PunctualInv`). `CleanupSparesOthers` fails of this queue
as well, when one cleanup deletes the row of a pair, a scheduler more than two minutes late
dispatches the pair again, and a second cleanup, which had scanned the old row, deletes the
new one. `Punctual` says that no such dispatch happens: none of a pair accepted before
takes place once the pair's two minutes are over; the rest is
proved: an ID that a cleanup has is an accepted pair's (`IdsBelong`), so what is
dispatched under it would be late, and the rows stay expired until the
delete (`ExpiredBut({})`). Nothing in the code bounds
how long a `Run` takes, so that the premise is about the time its dispatches take.

*Refinement of the queue* (`RefineInv`). `Shown` says what the mapping makes of the
tables: `stateOf` of a number not yet given out, completed or dropped, and of each
row; `OwnersApart` that a job has one owner at most and is then active. Each action
has a lemma that names the step of `JobLifecycle` it is, or that nothing shown
changes; a job whose row did not change keeps its state and owner (`StateStays`,
`OwnersStay`).

*Admins* (`AdminInv`). A transaction that is about to commit a demotion or a
deletion of an admin holds the rows of a second admin (`Spared`), because it
counted two while it held all of them, and its own target's row, so that what it
read of the target still holds (`Targeted`). Held rows are apart, and a commit
writes only the row it holds: no other transaction can remove that second admin.

*Refinement of the transactions* (`GroundInv`). `Identity` does each of role change,
deletion and verification in one step; here they are statements with locks, and what
an early one read must still be so at the commit. That is `Grounded`: a transaction
has the form of its kind (`Formed`); the actor it read as an admin still is one, as it
holds that row (`ActorHeld`); whoever it is about to make an admin is verified
(`TargetVerified`); a token that it locked has not been used (`TokenHeld`); and the
count of admins by which a verification gives the bootstrap role is not outdated
(`CountHolds`). The last is the delicate one: that count locks nothing, but admins
there are remain (`AnAdminRemains`), and while there is none, only the bootstrap
user's own verification makes one. A commit then is the atomic step of `Identity`, a refusal, a
rollback or a timeout its `Fail` or no step, and every other statement only changes
what is known of the request. The initial states are not compared: `Transactions`
starts from any set of users, which `Identity` reaches by registrations.
`RolesChangeByAuthority` states what that means for roles in terms of the rows.

*Types of Identity* (`TypeInv`). That a token has a user needs what requests know
between two steps (`Begun`): the id with which a login or a rotation inserts its token,
and that a locked profile is not deleted. `Generated` bounds ids and hashes.

*Addresses of accounts* (`ClaimInv`). `UpdateProfile` counts the claims to an address
in one statement and writes in another. `Counted` says that the count is still worth
something: while the row is locked, no other user has the address unverified,
as `RegisterUser` and `createUser` wait with their scans and a commit of another
profile makes an address pending, not a user's own.

*Sessions* (`SessionInv`). A rotation revokes the token it replaces (`Spent`), so a
second one finds it revoked. `OldSessionsEnd` needs `Current`: the version that a
rotation read is the account's as long as the token it presents is active, since
each change of the version revokes the tokens in its own transaction.

*Processes* (`AppInv`). `ReportsCause` is about the end; what leads there is that a
failed component's error is kept or an earlier one is (`Reported`), and that the first
to cancel without a signal failed and was recorded (`Caused`). This needs that
nothing returns without an error before the cancellation, so that a listener is only
closed after it (`Listening`), and that only components of the command run (`Placed`).
Goroutines that run have a worker that waits for them, or its timeout passed (`Held`).

*Types of the delivery* (`TypeInv`). That a verified user has an address is not
inductive: a followed link must belong to a user that exists. `Begun` says what a
request knows at each of its steps, `Addressed` that a stored token has a user,
`Linked` that a verification message names a user and a token.

*Registration* (`RegistrationInv`). A request about to commit has its message on
the queue (`Announced`), and a message stays what it is once its job was accepted
(`JobsStay`), which needs that jobs never accepted have none (`Fresh`).

*Delivery* (`DeliveryInv`). A result that waits to be reported may be about a job
that others own by then; a good one is about a message in the inbox all the same
(`Reported`), and only such a report makes a job done.

*The command* (`CommandInv`). What `all` still owes is failed and in a queue it has
yet to visit (`LeftToDo`): the statements that find the queues run after the job
was failed, its queue never changes, and only operators take jobs out of
`failed`. What the first statement of `Stats` did not count has completed by the
second (`LeftToCount`), and completed jobs stay so.

*Welcome* (`WelcomeInv`). At most one request asks for the welcome of a user
(`OneAsks`), as a verification that is the first makes every later one not the first;
this fails if a registration could overwrite a verified row, so `Reserved` says
that the id of a request about to commit is nobody else's.

*Addresses* (`AddressInv`). The message that carries the stored token of a user goes
to the address it would activate, or the token is outdated (`Bound`). The two
requests that bring this about are covered by `CommitBound` (the message is out
before the row) and `NotifyBound` (the token is stored before the message is
out); `Issued` says that a new token is no old one.

*The rotation* (`RotationInv`). That a goroutine polls with a full count of empty slots
says nothing of the queues unless the slots counted are different ones and cover
the sequence. `Looked` says so: a slot that the goroutine tried no longer ago than
its count goes back was found empty, where `Ago` is the distance around the
sequence. At the end of a round the count reaches every slot, from whatever
offset it began. `BoundedIdling` needs that the count is the number
of attempts since the last job or sleep, and that it is 0 during a sleep.

*The weighted sequence* (`SlotsWeighted`). `weightedQueueNames` is a recursive
function on the number of names gone through, and what it returns is a fact by
induction. The induction theorems of the library cannot be instantiated here, but a
set of numbers can: were a fact false of some number of names, there would be a
first one (`Least`, from the well-foundedness of `<`), which is not 0 and does not
follow one of which the fact holds. In this way there is a function that satisfies
the recursion (`SlotsExist`), it is the one that the definition chooses (`SlotsDefined`), and
each name has a run of slots as long as its weight in it (`Runs1`). With what the
loading lets through (`LoadedFit`: every weight is at least 1), each
configured queue is served and has its share (`ConfiguredServed`), and the length
that the index is divided by is not 0. This needs that no name is
listed twice (`NamesAssumption`), which holds of the sorted keys of a map.

The proofs have one lemma per kind of step, one case per action, and temporal
steps only at the end of each theorem.

*Checked before they were proved.* TLC finds the parts of these invariants to hold:
those of the queue on the instances of `leases` and `unique`, those of the
schedulers on that of `replicas`, those of the processes on that of `all`, those of the transactions on that of `roles`, and
those of the rotation on that of `rotation`.

*Model-checked only.* Liveness (`EventuallyServed`, `NoStarvation`, `RunningStops`,
`WaitingStops`, `TransactionsEnd`), which needs fairness and ENABLED, out of the prover's
reach. Every other property of a passing run is proved; `NoLostJob`, `OwnerSettles` and
`ImplementsLifecycle` under the premises named above (in `leases`, whose task is kept,
they hold because a single dispatch puts no other row under the ID).

## 5. What is not modelled

* The Redis queue: the behaviour is asynq's. `AppLifecycle` has the start and stop
  of a command with that driver.
* In `Transactions`: the locks of refresh tokens and of replaced verification tokens
  (`ReplaceEmailVerificationToken`, `RotateRefreshToken`), the shared locks that
  foreign keys take on parent rows, and profile updates; `Identity` has these as
  atomic steps and their deadlocks as `Fail`.
* In `Delivery`: deletion of users and creation by an admin, which are in
  `Identity`; expired tokens, which only refuse a link.
* Mail templates, SMTP sessions, attachments and `Mailer.Send`, which nothing calls.
* Of the configuration, all but the queue section; the other sections are checked
  field by field and leave no state. `queue failed`, which lists.
* Logging, bcrypt, cron parsing, JWT signatures, DTOs, rate limiting, the search
  stub, migrations as a process, template tooling.
* Clocks that differ between processes: there is one clock, and a reading may be
  old.

## 6. What could come next

1. Rotation and password change in `Transactions`, which lock tokens and users in
   opposite order.
