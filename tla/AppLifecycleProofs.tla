-------------------------- MODULE AppLifecycleProofs --------------------------
(***************************************************************************)
(* Theorems about AppLifecycle for every number of attempts, goroutines    *)
(* and requests: what the commands report, and what they wait for.         *)
(***************************************************************************)
EXTENDS AppLifecycle, TLAPS

\* The timer runs only between two attempts.
Waits == db = "waiting" => attempt < connectionAttempts

\* Where the components can be: those of the command only, once the pool is
\* shared; recorded and done under `all` only, which cancels with the first.
Placed ==
  /\ \A c \in Components : component[c] # "start" => c \in Started /\ db \in {"shared", "closed"}
  /\ \A c \in Components : failed[c] => Leaving(c)
  /\ \A c \in Components : component[c] \in {"recorded", "done"} => command = "all"
  /\ \A c \in Components : component[c] = "done" => ctxDone

\* Before the cancellation, only the server itself closes its listener.
Listening ==
  /\ component["server"] = "start" => listener = "none"
  /\ component["server"] = "up" /\ listener = "closed" => ctxDone

\* An error that was recorded is reported, if not that one then an earlier one.
Reported ==
  \A c \in Components :
    failed[c] /\ (exited \/ component[c] \in {"recorded", "done"}) => firstErr # None

\* Until the cancellation a component returns only with an error, which is a
\* cause; a cancellation without a signal was made by one whose error was kept.
Caused ==
  /\ causes \subseteq {c \in Components : failed[c]}
  /\ ~ctxDone => causes = {c \in Components : failed[c]} /\ \A c \in Components : Leaving(c) => failed[c]
  /\ ctxDone /\ ~signalled => firstErr \in causes

\* Only a worker that runs has goroutines left to wait for.
Held ==
  \/ late \/ \A g \in Goroutines : goroutine[g] \in {"none", "returned"}
  \/ component["worker"] = "up" /\ ~exited

AppInv == TypeOK /\ Waits /\ Placed /\ Listening /\ Reported /\ Caused /\ Held

LEMMA RunsFacts ==
  /\ DOMAIN Runs = {"all", "serve", "worker", "scheduler"}
  /\ command \in DOMAIN Runs => Started \subseteq Components
  /\ command \in DOMAIN Runs \ {"all"} => \A c, d \in Started : c = d
BY DEF Runs, Started, Components

LEMMA AppInit == Init => AppInv
<1> SUFFICES ASSUME Init PROVE AppInv
  OBVIOUS
<1>1. TypeOK
  <2>1. attempt \in 1..connectionAttempts /\ requests \in 0..MaxRequests
    BY AttemptsAssumption, BoundAssumption DEF Init
  <2>2. /\ component \in [Components -> {"start", "up", "tick", "returned", "recorded", "done"}]
        /\ failed \in [Components -> BOOLEAN]
        /\ goroutine \in [Goroutines -> {"none", "loop", "handler", "returned"}]
    BY DEF Init
  <2> QED BY <2>1, <2>2 DEF Init, TypeOK
<1>2. Waits /\ Placed /\ Listening /\ Reported /\ Caused /\ Held
  BY DEF Init, Waits, Placed, Listening, Reported, Caused, Held, Leaving, Components
<1> QED BY <1>1, <1>2 DEF AppInv

-----------------------------------------------------------------------------
(* One lemma per kind of step.                                             *)

\* Up to the start of the components.
Starting ==
  \/ LoadConfig \/ LoadFails \/ Connect \/ ConnectFails \/ TryAgain \/ StopWaiting
  \/ StartComponents \/ DispatcherFails

LEMMA StartingStep == AppInv /\ Starting => AppInv'
<1> SUFFICES ASSUME AppInv, Starting PROVE AppInv'
  OBVIOUS
<1> USE DEF Starting
<1>1. attempt \in 1..connectionAttempts /\ connectionAttempts \in Nat
  BY AttemptsAssumption DEF AppInv, TypeOK
<1>2. Unstarted /\ ~exited
  BY DEF LoadConfig, LoadFails, Connect, ConnectFails, TryAgain, StopWaiting, StartComponents,
         DispatcherFails, Opens
<1>3. /\ db \in {"loading", "connecting", "waiting", "open"}
      /\ \/ db' \in {"connecting", "waiting", "open", "shared"} /\ UNCHANGED exited
         \/ db' = "closed" /\ exited' = TRUE
  BY DEF LoadConfig, LoadFails, Connect, ConnectFails, TryAgain, StopWaiting, StartComponents,
         DispatcherFails, Opens
<1>4. attempt' \in 1..connectionAttempts /\ Waits'
  BY <1>1 DEF LoadConfig, LoadFails, Connect, ConnectFails, TryAgain, StopWaiting,
              StartComponents, DispatcherFails, Opens, AppInv, Waits
<1>5. \A c \in Components : component[c] = "start" /\ ~failed[c]
  BY <1>3 DEF AppInv, Placed, Leaving
<1>6. /\ UNCHANGED <<command, driver, ctxDone, component, failed, firstErr, listener, shutdown,
                     requests, goroutine, late, signalled, causes>>
  BY <1>2 DEF Unstarted, given, server, jobs, history
<1>7. TypeOK'
  <2>1. exited' \in BOOLEAN /\ (exited' <=> db' = "closed")
    <3>1. exited \in BOOLEAN
      BY DEF AppInv, TypeOK
    <3>2. db' = "closed" => exited' = TRUE
      BY <1>3
    <3>3. db' # "closed" => exited' = exited
      BY <1>3
    <3> QED BY <1>2, <3>1, <3>2, <3>3, Zenon
  <2>2. db' \in {"loading", "connecting", "waiting", "open", "shared", "closed"}
    BY <1>3
  <2> QED BY <1>4, <1>6, <2>1, <2>2 DEF AppInv, TypeOK
<1>8. Placed' /\ Listening' /\ Reported'
  BY <1>5, <1>6 DEF AppInv, Placed, Listening, Reported, Leaving, Started
<1>9. Caused'
  BY <1>6 DEF AppInv, Caused, Leaving
<1>10. Held'
  <2>1. component["worker"] # "up"
    BY <1>5 DEF Components
  <2> QED BY <1>6, <2>1 DEF AppInv, Held
<1> QED BY <1>4, <1>7, <1>8, <1>9, <1>10 DEF AppInv

\* Inside the components.
Inside ==
  \/ StartServer \/ Listen \/ BeginShutdown \/ EndShutdown \/ Request \/ Answer
  \/ StartWorker \/ (\E g \in Goroutines : Process(g) \/ HandlerReturns(g) \/ LoopReturns(g))
  \/ StartScheduler \/ RunSchedule \/ ScheduleRan

LEMMA InsideStep == AppInv /\ Inside => AppInv'
<1> SUFFICES ASSUME AppInv, Inside PROVE AppInv'
  OBVIOUS
<1> DEFINE Places == {"start", "up", "tick", "returned", "recorded", "done"}
<1>t. /\ requests \in 0..MaxRequests /\ MaxRequests \in Nat
      /\ component \in [Components -> Places]
  BY BoundAssumption DEF AppInv, TypeOK
<1>1. Internal
  BY DEF Inside, StartServer, Listen, BeginShutdown, EndShutdown, Request, Answer, StartWorker,
         Process, HandlerReturns, LoopReturns, Moves, StartScheduler, RunSchedule, ScheduleRan
<1>2. UNCHANGED <<command, driver, db, attempt, ctxDone, failed, firstErr, exited, signalled, causes>>
  BY <1>1 DEF Internal, given, pool, history
<1>3. /\ component' \in [Components -> Places]
      /\ \A c \in Components :
           \/ component'[c] = component[c]
           \/ /\ c \in Started /\ db = "shared"
              /\ component[c] \in {"start", "up", "tick"} /\ component'[c] \in {"up", "tick"}
  BY <1>t DEF Inside, StartServer, Listen, BeginShutdown, EndShutdown, Request, Answer,
              StartWorker, Process, HandlerReturns, LoopReturns, Moves, StartScheduler,
              RunSchedule, ScheduleRan, At, Goes, Components
<1>4. /\ listener' \in {"none", "open", "closed"} /\ requests' \in 0..MaxRequests
      /\ shutdown' \in {"none", "waiting", "draining", "over", "timedOut"}
  BY <1>t DEF Inside, StartServer, Listen, BeginShutdown, EndShutdown, Request, Answer,
              StartWorker, Process, HandlerReturns, LoopReturns, Moves, StartScheduler,
              RunSchedule, ScheduleRan, server, AppInv, TypeOK
<1>5. /\ goroutine' \in [Goroutines -> {"none", "loop", "handler", "returned"}]
      /\ UNCHANGED late
  BY DEF Inside, StartServer, Listen, BeginShutdown, EndShutdown, Request, Answer, StartWorker,
         Process, HandlerReturns, LoopReturns, Moves, StartScheduler, RunSchedule, ScheduleRan,
         jobs, AppInv, TypeOK
<1>6. TypeOK' /\ Waits'
  BY <1>2, <1>3, <1>4, <1>5 DEF AppInv, TypeOK, Waits
<1>7. Placed'
  <2>1. UNCHANGED Started
    BY <1>2 DEF Started
  <2> QED BY <1>2, <1>3, <2>1 DEF AppInv, Placed, Leaving
<1>8. Listening'
  <2>1. CASE StartServer \/ Listen \/ BeginShutdown
    BY <1>t, <1>2, <2>1 DEF StartServer, Listen, BeginShutdown, At, Goes, AppInv, Listening, Components
  <2>2. CASE ~(StartServer \/ Listen \/ BeginShutdown)
    <3>1. UNCHANGED listener /\ component'["server"] = component["server"]
      BY <1>t, <2>2 DEF Inside, EndShutdown, Request, Answer, StartWorker, Process,
                        HandlerReturns, LoopReturns, Moves, StartScheduler, RunSchedule,
                        ScheduleRan, Goes, server, Components
    <3> QED BY <1>2, <3>1 DEF AppInv, Listening
  <2> QED BY <2>1, <2>2
<1>9. Reported' /\ Caused'
  BY <1>2, <1>3 DEF AppInv, Reported, Caused, Leaving
<1>10. Held'
  <2>1. CASE StartWorker
    BY <1>t, <2>1 DEF StartWorker, At, Goes, Held, Components, Internal
  <2>2. ASSUME NEW g \in Goroutines, Process(g) \/ HandlerReturns(g) \/ LoopReturns(g) PROVE Held'
    <3>1. goroutine[g] \in {"loop", "handler"} /\ UNCHANGED <<component, late, exited>>
      BY <1>2, <2>2 DEF Process, HandlerReturns, LoopReturns, Moves
    <3> QED BY <3>1 DEF AppInv, Held
  <2>3. CASE ~(StartWorker \/ \E g \in Goroutines : Process(g) \/ HandlerReturns(g) \/ LoopReturns(g))
    <3>1. UNCHANGED <<goroutine, late>> /\ component'["worker"] = component["worker"]
      BY <1>t, <2>3 DEF Inside, StartServer, Listen, BeginShutdown, EndShutdown, Request, Answer,
                        StartScheduler, RunSchedule, ScheduleRan, Goes, jobs, Components
    <3> QED BY <1>2, <3>1 DEF AppInv, Held
  <2> QED BY <2>1, <2>2, <2>3
<1> QED BY <1>6, <1>7, <1>8, <1>9, <1>10 DEF AppInv

\* The return of a component.
Returning ==
  \/ ListenError \/ ListenReturns \/ WorkerReturns \/ WorkerTimesOut \/ SchedulerStops
  \/ \E c \in Components : BuildFails(c)

LEMMA ReturningStep == AppInv /\ Returning => AppInv'
<1> SUFFICES ASSUME AppInv, Returning PROVE AppInv'
  OBVIOUS
<1> DEFINE Places == {"start", "up", "tick", "returned", "recorded", "done"}
<1>1. PICK c \in Components, err \in BOOLEAN :
        /\ At(c, "start") \/ At(c, "up")
        /\ Returns(c, err)
        /\ err = FALSE => ctxDone
        /\ listener' \in {"none", "open", "closed"} /\ UNCHANGED <<shutdown, requests, goroutine>>
        /\ c # "server" => UNCHANGED listener
        /\ late' = late \/ late' = TRUE
        /\ c = "worker" /\ component[c] = "up" =>
             late' = TRUE \/ \A g \in Goroutines : goroutine[g] = "returned"
  <2>1. CASE ListenError
    <3>1. (~ctxDone) \in BOOLEAN /\ ((~ctxDone) = FALSE => ctxDone)
      BY DEF AppInv, TypeOK
    <3>2. /\ "server" \in Components /\ At("server", "up") /\ Returns("server", ~ctxDone)
          /\ listener' = "closed" /\ UNCHANGED <<shutdown, requests, goroutine, late>>
      BY <2>1 DEF ListenError, Components, jobs
    <3> QED BY <3>1, <3>2
  <2>2. CASE ListenReturns
    <3>1. /\ "server" \in Components /\ At("server", "up") /\ Returns("server", FALSE)
          /\ listener = "closed" /\ UNCHANGED <<listener, shutdown, requests, goroutine, late>>
      BY <2>2 DEF ListenReturns, Components, jobs, server
    <3>2. ctxDone
      BY <3>1 DEF At, AppInv, Listening
    <3> QED BY <3>1, <3>2
  <2>3. CASE WorkerReturns \/ WorkerTimesOut
    <3>1. /\ "worker" \in Components /\ At("worker", "up") /\ Returns("worker", FALSE) /\ ctxDone
          /\ UNCHANGED <<listener, shutdown, requests, goroutine>>
          /\ late' = TRUE \/ (late' = late /\ WorkersDone)
      BY <2>3 DEF WorkerReturns, WorkerTimesOut, Components, jobs, server
    <3> QED BY <3>1 DEF WorkersDone, AppInv, TypeOK
  <2>4. CASE SchedulerStops
    <3>1. /\ "scheduler" \in Components /\ At("scheduler", "up") /\ Returns("scheduler", FALSE)
          /\ ctxDone /\ UNCHANGED <<listener, shutdown, requests, goroutine, late>>
      BY <2>4 DEF SchedulerStops, Components, jobs, server
    <3> QED BY <3>1 DEF AppInv, TypeOK
  <2>5. ASSUME NEW c \in Components, BuildFails(c)
        PROVE  /\ At(c, "start") /\ Returns(c, TRUE)
               /\ UNCHANGED <<listener, shutdown, requests, goroutine, late>>
    BY <2>5 DEF BuildFails, jobs, server
  <2>6. ASSUME NEW c \in Components, At(c, "start") PROVE component[c] # "up"
    BY <2>6 DEF At
  <2>7. listener \in {"none", "open", "closed"}
    BY DEF AppInv, TypeOK
  <2> QED BY <2>1, <2>2, <2>3, <2>4, <2>5, <2>6, <2>7 DEF Returning
<1>2. /\ c \in Started /\ db = "shared" /\ ~exited /\ component[c] \in {"start", "up"}
  BY <1>1 DEF At
<1>3. /\ component \in [Components -> Places] /\ failed \in [Components -> BOOLEAN]
      /\ ~failed[c] /\ causes \subseteq Components
  BY <1>2 DEF AppInv, TypeOK, Placed, Leaving
<1>4. /\ component' = [component EXCEPT ![c] = "returned"]
      /\ failed' = [failed EXCEPT ![c] = err]
      /\ causes' = IF err /\ ~ctxDone THEN causes \cup {c} ELSE causes
      /\ UNCHANGED <<command, driver, db, attempt, ctxDone, firstErr, exited, signalled>>
  BY <1>1 DEF Returns, Goes, given, pool
<1>5. TypeOK' /\ Waits'
  <2>1. /\ component' \in [Components -> Places] /\ failed' \in [Components -> BOOLEAN]
        /\ causes' \subseteq Components
    BY <1>3, <1>4
  <2>2. firstErr' \in {None} \cup {d \in Components : failed'[d]}
    BY <1>3, <1>4 DEF AppInv, TypeOK
  <2>3. late' \in BOOLEAN
    BY <1>1 DEF AppInv, TypeOK
  <2> QED BY <1>1, <1>4, <2>1, <2>2, <2>3 DEF AppInv, TypeOK, Waits
<1>6. Placed'
  <2>1. UNCHANGED Started
    BY <1>4 DEF Started
  <2> QED BY <1>2, <1>3, <1>4, <2>1 DEF AppInv, Placed, Leaving
<1>7. Listening'
  BY <1>1, <1>3, <1>4 DEF AppInv, Listening, Components
<1>8. Reported'
  BY <1>2, <1>3, <1>4 DEF AppInv, Reported
<1>9. Caused'
  <2>1. CASE ctxDone
    BY <1>3, <1>4, <2>1 DEF AppInv, Caused
  <2>2. CASE ~ctxDone
    <3>1. err
      BY <1>1, <2>2
    <3>2. causes' = causes \cup {c} /\ \A d \in Components : failed'[d] <=> d = c \/ failed[d]
      BY <1>3, <1>4, <2>2, <3>1
    <3>3. \A d \in Components : Leaving(d)' => d = c \/ Leaving(d)
      BY <1>3, <1>4 DEF Leaving
    <3> QED BY <1>4, <2>2, <3>2, <3>3 DEF AppInv, Caused
  <2> QED BY <2>1, <2>2
<1>10. Held'
  <2>1. CASE c = "worker" /\ component[c] = "up"
    BY <1>1, <1>4, <2>1 DEF Held
  <2>2. CASE c = "worker" /\ component[c] = "start"
    BY <1>1, <1>4, <2>2 DEF AppInv, Held
  <2>3. CASE c # "worker"
    BY <1>1, <1>3, <1>4, <2>3 DEF AppInv, Held, Components
  <2> QED BY <1>2, <2>1, <2>2, <2>3
<1> QED BY <1>5, <1>6, <1>7, <1>8, <1>9, <1>10 DEF AppInv

LEMMA SignalStep == AppInv /\ Signal => AppInv'
<1> SUFFICES ASSUME AppInv, Signal PROVE AppInv'
  OBVIOUS
<1>1. /\ ctxDone' = TRUE /\ signalled' = TRUE
      /\ UNCHANGED <<command, driver, db, attempt, component, failed, firstErr, listener, shutdown,
                     requests, goroutine, late, exited, causes>>
  BY DEF Signal, given, pool, server, jobs
<1>2. TypeOK' /\ Waits'
  BY <1>1 DEF AppInv, TypeOK, Waits
<1>3. Placed' /\ Listening' /\ Reported' /\ Caused' /\ Held'
  BY <1>1 DEF AppInv, Placed, Listening, Reported, Caused, Held, Leaving, Started
<1> QED BY <1>2, <1>3 DEF AppInv

\* The `run` wrapper.
LEMMA RecordStep ==
  ASSUME AppInv, NEW c \in Components, Record(c)
  PROVE  AppInv'
<1>1. /\ command = "all" /\ component[c] = "returned" /\ c \in Started /\ db = "shared" /\ ~exited
      /\ component' = [component EXCEPT ![c] = "recorded"]
      /\ firstErr' = IF failed[c] /\ firstErr = None THEN c ELSE firstErr
      /\ UNCHANGED <<command, driver, db, attempt, ctxDone, failed, listener, shutdown,
                     requests, goroutine, late, exited, signalled, causes>>
  BY DEF Record, At, Goes, FirstErr, given, pool, server, jobs, history
<1>2. component \in [Components -> {"start", "up", "tick", "returned", "recorded", "done"}]
  BY DEF AppInv, TypeOK
<1>3. TypeOK' /\ Waits'
  <2>1. component' \in [Components -> {"start", "up", "tick", "returned", "recorded", "done"}]
    BY <1>1, <1>2
  <2>2. firstErr' \in {None} \cup {d \in Components : failed'[d]}
    BY <1>1 DEF AppInv, TypeOK
  <2> QED BY <1>1, <2>1, <2>2 DEF AppInv, TypeOK, Waits
<1>4. Placed' /\ Listening'
  BY <1>1, <1>2 DEF AppInv, Placed, Listening, Leaving, Started, Components
<1>5. Reported'
  BY <1>1, <1>2 DEF AppInv, Reported, None, Components
<1>6. Caused'
  BY <1>1, <1>2 DEF AppInv, Caused, Leaving, None, Components
<1>7. Held'
  BY <1>1, <1>2 DEF AppInv, Held, Components
<1> QED BY <1>3, <1>4, <1>5, <1>6, <1>7 DEF AppInv

LEMMA FinishStep ==
  ASSUME AppInv, NEW c \in Components, Finish(c)
  PROVE  AppInv'
<1>1. /\ component[c] = "recorded" /\ c \in Started /\ db = "shared" /\ ~exited
      /\ component' = [component EXCEPT ![c] = "done"] /\ ctxDone' = TRUE
      /\ UNCHANGED <<command, driver, db, attempt, failed, firstErr, listener, shutdown,
                     requests, goroutine, late, exited, signalled, causes>>
  BY DEF Finish, At, Goes, given, pool, server, jobs, history
<1>2. component \in [Components -> {"start", "up", "tick", "returned", "recorded", "done"}]
  BY DEF AppInv, TypeOK
<1>3. TypeOK' /\ Waits'
  <2>1. component' \in [Components -> {"start", "up", "tick", "returned", "recorded", "done"}]
    BY <1>1, <1>2
  <2> QED BY <1>1, <2>1 DEF AppInv, TypeOK, Waits
<1>4. Placed' /\ Listening'
  BY <1>1, <1>2 DEF AppInv, Placed, Listening, Leaving, Started, Components
<1>5. Reported'
  BY <1>1, <1>2 DEF AppInv, Reported
<1>6. Caused'
  <2>1. CASE ctxDone
    BY <1>1, <2>1 DEF AppInv, Caused
  <2>2. CASE ~ctxDone
    <3>1. failed[c] /\ causes = {d \in Components : failed[d]}
      BY <1>1, <2>2 DEF AppInv, Caused, Leaving
    <3>2. firstErr # None
      BY <1>1, <3>1 DEF AppInv, Reported
    <3>3. firstErr \in causes
      BY <3>1, <3>2 DEF AppInv, TypeOK
    <3> QED BY <1>1, <3>3 DEF AppInv, Caused
  <2> QED BY <2>1, <2>2
<1>7. Held'
  BY <1>1, <1>2 DEF AppInv, Held, Components
<1> QED BY <1>3, <1>4, <1>5, <1>6, <1>7 DEF AppInv

\* The end of `all`.
LEMMA ExitStep == AppInv /\ Exit => AppInv'
<1> SUFFICES ASSUME AppInv, Exit PROVE AppInv'
  OBVIOUS
<1>1. /\ \A c \in Components : component[c] = "done"
      /\ exited' = TRUE /\ db' = "closed"
      /\ UNCHANGED <<command, driver, attempt, ctxDone, component, failed, firstErr, listener,
                     shutdown, requests, goroutine, late, signalled, causes>>
  BY DEF Exit, given, server, jobs, history
<1>2. TypeOK' /\ Waits'
  BY <1>1 DEF AppInv, TypeOK, Waits
<1>3. Placed' /\ Listening' /\ Reported' /\ Caused'
  BY <1>1 DEF AppInv, Placed, Listening, Reported, Caused, Leaving, Started
<1>4. Held'
  <2>1. component["worker"] # "up"
    BY <1>1 DEF Components
  <2> QED BY <1>1, <2>1 DEF AppInv, Held
<1> QED BY <1>2, <1>3, <1>4 DEF AppInv

\* The end of the other commands.
LEMMA ExitWithStep ==
  ASSUME AppInv, NEW c \in Components, ExitWith(c)
  PROVE  AppInv'
<1>1. /\ command # "all" /\ component[c] = "returned" /\ c \in Started /\ ~exited
      /\ exited' = TRUE /\ db' = "closed"
      /\ firstErr' = IF failed[c] /\ firstErr = None THEN c ELSE firstErr
      /\ UNCHANGED <<command, driver, attempt, ctxDone, component, failed, listener, shutdown,
                     requests, goroutine, late, signalled, causes>>
  BY DEF ExitWith, At, FirstErr, given, server, jobs, history
<1>2. \A d \in Components : component[d] # "start" => d = c
  BY <1>1, RunsFacts DEF AppInv, Placed, TypeOK
<1>3. TypeOK' /\ Waits'
  BY <1>1 DEF AppInv, TypeOK, Waits
<1>4. Placed' /\ Listening'
  BY <1>1 DEF AppInv, Placed, Listening, Leaving, Started
<1>5. Reported'
  BY <1>1, <1>2 DEF AppInv, Placed, Leaving, Reported, None, Components
<1>6. Caused'
  BY <1>1 DEF AppInv, Caused, Leaving, None, Components
<1>7. Held'
  BY <1>1, <1>2 DEF AppInv, Held, Components
<1> QED BY <1>3, <1>4, <1>5, <1>6, <1>7 DEF AppInv

LEMMA AppNext == AppInv /\ [Next]_vars => AppInv'
<1>1. ASSUME AppInv, UNCHANGED vars PROVE AppInv'
  BY <1>1 DEF vars, given, pool, server, jobs, history, AppInv, TypeOK, Waits, Placed, Listening,
              Reported, Caused, Held, Leaving, Started
<1>2. ASSUME AppInv, Next PROVE AppInv'
  BY <1>2, StartingStep, InsideStep, ReturningStep, SignalStep, RecordStep, FinishStep, ExitStep,
     ExitWithStep DEF Next, Proceeds, Starting, Inside, Returning
<1> QED BY <1>1, <1>2

\* Whatever fails and whenever it is stopped, a command is in a state it has.
THEOREM AppTypes == Spec => []TypeOK
<1>1. AppInv => TypeOK
  BY DEF AppInv
<1> QED BY AppInit, AppNext, <1>1, PTL DEF Spec

\* The error a command ends with is that of a component that failed before the
\* cancellation, unless a signal came in between; and it ends without one only
\* when none failed.
THEOREM CausesReported == Spec => []ReportsCause
<1>1. AppInv => ReportsCause
  <2> SUFFICES ASSUME AppInv, exited PROVE ReportsCause
    BY DEF ReportsCause
  <2>1. firstErr = None <=> \A c \in Components : ~failed[c]
    BY DEF AppInv, TypeOK, Reported, None, Components
  <2>2. ASSUME causes # {}, ~signalled PROVE firstErr \in causes
    BY <2>1, <2>2 DEF AppInv, TypeOK, Caused
  <2> QED BY <2>1, <2>2 DEF ReportsCause
<1> QED BY AppInit, AppNext, <1>1, PTL DEF Spec

\* The pool is closed under a job only after the worker's shutdown timeout, for
\* any number of goroutines.
THEOREM JobsEnd == Spec => []JobsEndOrTimeOut
<1>1. AppInv => JobsEndOrTimeOut
  BY DEF AppInv, Held, JobsEndOrTimeOut
<1> QED BY AppInit, AppNext, <1>1, PTL DEF Spec
===============================================================================
