----------------------------- MODULE AppLifecycle -----------------------------
(***************************************************************************)
(* The long-running commands (src/cmd/app): `all`, with server, worker and *)
(* scheduler in one process, sharing a context and the database pool, and  *)
(* `serve`, `worker` and `scheduler` with one of them; how the pool is     *)
(* opened, and what starts, fails and stops the components, for each       *)
(* driver of the queue that the configuration accepts.                     *)
(*                                                                         *)
(* The HTTP library is external.  As its Shutdown is used here: it closes  *)
(* the listener, upon which Listen returns nil at once, and itself waits   *)
(* for the open requests; without a listener it returns nil, and a Listen  *)
(* that comes later serves as ever.                                        *)
(***************************************************************************)
EXTENDS Naturals, FiniteSets

CONSTANTS
  connectionAttempts, \* how often the database is tried
  Concurrency, \* goroutines of the database worker
  MaxRequests  \* bound on the requests the server has open at once

ASSUME AttemptsAssumption == connectionAttempts \in Nat \ {0}
ASSUME BoundAssumption == Concurrency \in Nat /\ MaxRequests \in Nat

Components == {"server", "worker", "scheduler"}
None == "none"

VARIABLES
  command,    \* the command that runs
  driver,     \* cfg.Queue.Driver
  db,         \* where the command is with its database pool
  attempt,    \* attempts to connect so far
  ctxDone,    \* is the shared context cancelled?
  component,  \* where the goroutine of each component is
  failed,     \* did its function return an error?
  firstErr,   \* the component of firstErr, or None
  listener,   \* the server's listener
  shutdown,   \* the goroutine that shuts the server down
  requests,   \* requests the server has open
  goroutine,  \* the worker's goroutines
  late,       \* did the worker's shutdown timer fire?
  exited,     \* did the command return, closing the pool?
  signalled,  \* history: did a signal arrive?
  causes      \* history: components that failed before the cancellation

pool == <<db, attempt>>
server == <<listener, shutdown, requests>>
jobs == <<goroutine, late>>
history == <<signalled, causes>>
given == <<command, driver>>
vars == <<given, pool, ctxDone, component, failed, firstErr, server, jobs, exited, history>>

Goroutines == 1..Concurrency

\* The components a command runs.
Runs ==
  [all |-> Components, serve |-> {"server"}, worker |-> {"worker"}, scheduler |-> {"scheduler"}]
Started == Runs[command]

-----------------------------------------------------------------------------
Init ==
  /\ command \in DOMAIN Runs /\ driver \in {"database", "redis", "none"}
  /\ db = "loading" /\ attempt = 1
  /\ ctxDone = FALSE
  /\ component = [c \in Components |-> "start"]
  /\ failed = [c \in Components |-> FALSE]
  /\ firstErr = None
  /\ listener = "none" /\ shutdown = "none" /\ requests = 0
  /\ goroutine = [g \in Goroutines |-> "none"] /\ late = FALSE
  /\ exited = FALSE
  /\ signalled = FALSE /\ causes = {}

At(c, place) == c \in Started /\ ~exited /\ db = "shared" /\ component[c] = place
Goes(c, place) == component' = [component EXCEPT ![c] = place]

\* The component's function returns.
Returns(c, err) ==
  /\ Goes(c, "returned")
  /\ failed' = [failed EXCEPT ![c] = err]
  /\ causes' = IF err /\ ~ctxDone THEN causes \cup {c} ELSE causes
  /\ UNCHANGED <<given, pool, ctxDone, firstErr, exited, signalled>>

Internal == UNCHANGED <<given, pool, ctxDone, failed, firstErr, exited, history>>

\* SIGINT or SIGTERM.
Signal ==
  /\ ~exited /\ ~ctxDone
  /\ ctxDone' = TRUE /\ signalled' = TRUE
  /\ UNCHANGED <<given, pool, component, failed, firstErr, server, jobs, exited, causes>>

-----------------------------------------------------------------------------
(* config.Load, mysqladapter.Open and the start of the components.         *)

Opens(from, to) == ~exited /\ db = from /\ db' = to
Unstarted == UNCHANGED <<given, ctxDone, component, failed, firstErr, server, jobs, history>>

\* The scheduler alone needs the database only for a queue in it.
NeedsPool == command # "scheduler" \/ driver = "database"

LoadConfig ==
  /\ Opens("loading", IF NeedsPool THEN "connecting" ELSE "open")
  /\ UNCHANGED <<attempt, exited>> /\ Unstarted

\* The configuration is not accepted, or the log file cannot be opened.
LoadFails ==
  /\ Opens("loading", "closed") /\ exited' = TRUE
  /\ UNCHANGED attempt /\ Unstarted

\* Faulty: the ping ignores the context.
PingWithoutContext == TRUE

\* PingContext fails once the context is done.
PingSucceeds == ~ctxDone

Connect ==
  /\ PingSucceeds /\ Opens("connecting", "open")
  /\ UNCHANGED <<attempt, exited>> /\ Unstarted

\* The last attempt ends the command, the others start the timer.
ConnectFails ==
  /\ IF attempt = connectionAttempts
     THEN Opens("connecting", "closed") /\ exited' = TRUE
     ELSE Opens("connecting", "waiting") /\ UNCHANGED exited
  /\ UNCHANGED attempt /\ Unstarted

\* select takes either branch when both are ready.
TryAgain ==
  /\ Opens("waiting", "connecting") /\ attempt' = attempt + 1
  /\ UNCHANGED exited /\ Unstarted

StopWaiting ==
  /\ ctxDone /\ Opens("waiting", "closed") /\ exited' = TRUE
  /\ UNCHANGED attempt /\ Unstarted

\* bootstrap.Dispatcher has none for the driver "none"; `worker` needs none.
HasDispatcher == command = "worker" \/ driver # "none"

StartComponents ==
  /\ HasDispatcher /\ Opens("open", "shared")
  /\ UNCHANGED <<attempt, exited>> /\ Unstarted

DispatcherFails ==
  /\ ~HasDispatcher /\ Opens("open", "closed") /\ exited' = TRUE
  /\ UNCHANGED attempt /\ Unstarted

-----------------------------------------------------------------------------
(* runServer.                                                              *)

\* Routes are set up and the goroutine that awaits the cancellation started.
StartServer ==
  /\ At("server", "start") /\ Goes("server", "up")
  /\ shutdown' = "waiting"
  /\ UNCHANGED <<listener, requests, jobs>> /\ Internal

Listen ==
  /\ At("server", "up") /\ listener = "none"
  /\ listener' = "open"
  /\ UNCHANGED <<component, shutdown, requests, jobs>> /\ Internal

\* The port is taken, or accepting fails: an error unless the context is done.
ListenError ==
  /\ At("server", "up") /\ listener \in {"none", "open"}
  /\ listener' = "closed"
  /\ Returns("server", ~ctxDone)
  /\ UNCHANGED <<shutdown, requests, jobs>>

ListenReturns ==
  /\ At("server", "up") /\ listener = "closed"
  /\ Returns("server", FALSE)
  /\ UNCHANGED <<server, jobs>>

BeginShutdown ==
  /\ ~exited /\ shutdown = "waiting" /\ ctxDone
  /\ listener' = IF listener = "open" THEN "closed" ELSE listener
  /\ shutdown' = IF listener = "none" THEN "over" ELSE "draining"
  /\ UNCHANGED <<component, requests, jobs>> /\ Internal

\* All requests are answered, or the fifteen seconds are over.
EndShutdown ==
  /\ ~exited /\ shutdown = "draining"
  /\ \/ requests = 0 /\ shutdown' = "over"
     \/ shutdown' = "timedOut"
  /\ UNCHANGED <<component, listener, requests, jobs>> /\ Internal

Request ==
  /\ ~exited /\ listener = "open" /\ requests < MaxRequests
  /\ requests' = requests + 1
  /\ UNCHANGED <<component, listener, shutdown, jobs>> /\ Internal

Answer ==
  /\ ~exited /\ requests > 0
  /\ requests' = requests - 1
  /\ UNCHANGED <<component, listener, shutdown, jobs>> /\ Internal

-----------------------------------------------------------------------------
(* runWorker and the Run of the driver's worker.                           *)

\* bootstrap.Worker builds the mail transport and the handlers, or fails, as it
\* does for the driver "none".
StartWorker ==
  /\ driver # "none" /\ At("worker", "start") /\ Goes("worker", "up")
  /\ goroutine' = [g \in Goroutines |-> "loop"]
  /\ UNCHANGED <<server, late>> /\ Internal

BuildFails(c) ==
  /\ c \in {"worker", "scheduler"} /\ At(c, "start")
  /\ Returns(c, TRUE)
  /\ UNCHANGED <<server, jobs>>

Moves(g, from, to) ==
  /\ ~exited /\ goroutine[g] = from
  /\ goroutine' = [goroutine EXCEPT ![g] = to]
  /\ UNCHANGED <<component, server, late>> /\ Internal

\* A handler may take any time, whatever becomes of its context.
Process(g) == ~ctxDone /\ Moves(g, "loop", "handler")
HandlerReturns(g) == Moves(g, "handler", "loop")
LoopReturns(g) == ctxDone /\ Moves(g, "loop", "returned")

\* Faulty: Run does not wait for its goroutines.
AnyTime == TRUE

\* workers.Wait
WorkersDone == \A g \in Goroutines : goroutine[g] = "returned"

WorkerReturns ==
  /\ At("worker", "up") /\ ctxDone /\ WorkersDone
  /\ Returns("worker", FALSE)
  /\ UNCHANGED <<server, jobs>>

\* shutdownTimeout is over.
WorkerTimesOut ==
  /\ At("worker", "up") /\ ctxDone /\ ~WorkersDone
  /\ late' = TRUE
  /\ Returns("worker", FALSE)
  /\ UNCHANGED <<server, goroutine>>

-----------------------------------------------------------------------------
(* runScheduler: a Run in progress gets the cancelled context and returns. *)

StartScheduler ==
  /\ At("scheduler", "start") /\ Goes("scheduler", "up")
  /\ UNCHANGED <<server, jobs>> /\ Internal

RunSchedule ==
  /\ At("scheduler", "up") /\ Goes("scheduler", "tick")
  /\ UNCHANGED <<server, jobs>> /\ Internal

ScheduleRan ==
  /\ At("scheduler", "tick") /\ Goes("scheduler", "up")
  /\ UNCHANGED <<server, jobs>> /\ Internal

SchedulerStops ==
  /\ At("scheduler", "up") /\ ctxDone
  /\ Returns("scheduler", FALSE)
  /\ UNCHANGED <<server, jobs>>

-----------------------------------------------------------------------------
(* The `run` wrapper of `all` and the end of the command.                  *)

\* Faulty: nil is wrapped like an error.
FirstReturn(c) == IF firstErr = None THEN c ELSE firstErr

\* Faulty: the last error is kept.
LastErr(c) == IF failed[c] THEN c ELSE firstErr

\* if firstErr == nil { firstErr = ... }, under the mutex
FirstErr(c) == IF failed[c] /\ firstErr = None THEN c ELSE firstErr

Record(c) ==
  /\ command = "all" /\ At(c, "returned") /\ Goes(c, "recorded")
  /\ firstErr' = FirstErr(c)
  /\ UNCHANGED <<given, pool, ctxDone, failed, server, jobs, exited, history>>

\* Faulty: no deferred cancel.
DoneOnly(c) ==
  /\ At(c, "recorded") /\ Goes(c, "done")
  /\ UNCHANGED <<given, pool, ctxDone, failed, firstErr, server, jobs, exited, history>>

\* The deferred cancel and wg.Done.
Finish(c) ==
  /\ At(c, "recorded") /\ Goes(c, "done")
  /\ ctxDone' = TRUE
  /\ UNCHANGED <<given, pool, failed, firstErr, server, jobs, exited, history>>

\* wg.Wait returns; the deferred calls close the pool and the process ends.
Exit ==
  /\ ~exited /\ \A c \in Components : component[c] = "done"
  /\ exited' = TRUE /\ db' = "closed"
  /\ UNCHANGED <<given, attempt, ctxDone, component, failed, firstErr, server, jobs, history>>

\* The other commands return what their component returns.
ExitWith(c) ==
  /\ command # "all" /\ At(c, "returned")
  /\ firstErr' = FirstErr(c)
  /\ exited' = TRUE /\ db' = "closed"
  /\ UNCHANGED <<given, attempt, ctxDone, component, failed, server, jobs, history>>

\* What the process does of its own accord.
Proceeds ==
  \/ TryAgain \/ StopWaiting \/ StartComponents
  \/ StartServer \/ Listen \/ ListenReturns \/ BeginShutdown
  \/ StartWorker \/ (\E g \in Goroutines : LoopReturns(g)) \/ WorkerReturns \/ WorkerTimesOut
  \/ StartScheduler \/ ScheduleRan \/ SchedulerStops
  \/ (\E c \in Components : Record(c) \/ Finish(c) \/ ExitWith(c)) \/ Exit

Next ==
  \/ Proceeds
  \/ LoadConfig \/ LoadFails \/ Connect \/ ConnectFails \/ DispatcherFails
  \/ Signal \/ ListenError \/ EndShutdown \/ Request \/ Answer
  \/ \E c \in Components : BuildFails(c)
  \/ \E g \in Goroutines : Process(g) \/ HandlerReturns(g)
  \/ RunSchedule

Spec == Init /\ [][Next]_vars

(* Every goroutine runs and every timer fires; clients and handlers need   *)
(* not come to an end, and nothing need fail.                              *)
FairSpec ==
  /\ Spec
  /\ WF_vars(LoadConfig \/ LoadFails)
  /\ WF_vars(Connect \/ ConnectFails) /\ WF_vars(TryAgain) /\ WF_vars(StopWaiting)
  /\ WF_vars(StartComponents \/ DispatcherFails)
  /\ WF_vars(StartServer) /\ WF_vars(Listen) /\ WF_vars(ListenReturns)
  /\ WF_vars(BeginShutdown)
  /\ WF_vars(StartWorker \/ BuildFails("worker"))
  /\ \A g \in Goroutines : WF_vars(LoopReturns(g))
  /\ WF_vars(WorkerReturns) /\ WF_vars(WorkerTimesOut)
  /\ WF_vars(StartScheduler) /\ WF_vars(ScheduleRan) /\ SF_vars(SchedulerStops)
  /\ \A c \in Components : WF_vars(Record(c)) /\ WF_vars(Finish(c)) /\ WF_vars(ExitWith(c))
  /\ WF_vars(Exit)

-----------------------------------------------------------------------------
(* Properties.                                                             *)

\* Types, and: what firstErr wraps is an error.
TypeOK ==
  /\ command \in DOMAIN Runs /\ driver \in {"database", "redis", "none"}
  /\ db \in {"loading", "connecting", "waiting", "open", "shared", "closed"}
  /\ attempt \in 1..connectionAttempts
  /\ exited <=> db = "closed"
  /\ ctxDone \in BOOLEAN
  /\ component \in [Components -> {"start", "up", "tick", "returned", "recorded", "done"}]
  /\ failed \in [Components -> BOOLEAN]
  /\ firstErr \in {None} \cup {c \in Components : failed[c]}
  /\ listener \in {"none", "open", "closed"}
  /\ shutdown \in {"none", "waiting", "draining", "over", "timedOut"}
  /\ requests \in 0..MaxRequests
  /\ goroutine \in [Goroutines -> {"none", "loop", "handler", "returned"}]
  /\ late \in BOOLEAN /\ exited \in BOOLEAN /\ signalled \in BOOLEAN
  /\ causes \subseteq Components

\* The components' command reports a root cause: unless a signal came in between,
\* the error it returns is that of a component that failed before the context was
\* cancelled, not one of the wind-down that failure set off; and it reports none
\* only when none failed.
ReportsCause ==
  exited =>
    /\ firstErr = None <=> \A c \in Components : ~failed[c]
    /\ causes # {} /\ ~signalled => firstErr \in causes

\* A signal that finds the command still waiting for its database ends it, at
\* whatever attempt it comes and also when the timer fires at the same time.
WaitingStops == ctxDone /\ db \in {"connecting", "waiting"} ~> exited

\* The pool is closed under a job only after the worker's shutdown timeout.
JobsEndOrTimeOut ==
  exited => late \/ \A g \in Goroutines : goroutine[g] \in {"none", "returned"}

Leaving(c) == component[c] \in {"returned", "recorded", "done"}

\* The return of any component and any signal end the process, whatever the
\* handlers and the clients do, if the command runs no server or its server
\* listens by then.
RunningStops ==
  (/\ ctxDone \/ \E c \in Components : Leaving(c)
   /\ "server" \in Started => listener = "open" /\ shutdown = "waiting") ~> exited

\* docs/ARCHITECTURE.md on `all`: "when any component returns, it cancels the
\* others, waits for all of them, then reports the first component error".
ReturnEndsAll == (\E c \in Components : Leaving(c)) ~> exited
===============================================================================
