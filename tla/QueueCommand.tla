----------------------------- MODULE QueueCommand -----------------------------
(***************************************************************************)
(* The queue command of an operator, over the queue that JobLifecycle      *)
(* describes: which queues it finds, what it does to each, and what can    *)
(* happen to the jobs between two of its statements.                       *)
(***************************************************************************)
EXTENDS JobLifecycle

CONSTANTS
  Queues,     \* names of queues
  Configured  \* those in the configuration of the operator's process

ASSUME ConfiguredAssumption == Configured \subseteq Queues

VARIABLES
  queue,  \* of each accepted job
  cmd     \* the running command

commandVars == <<queue, cmd>>

Ops == {"retry", "delete", "status"}
NoQueue == "none"

\* `names`: queues still to come; `due`: jobs the command has yet to account
\* for; `seen`: jobs behind the numbers of the current line.
NoCommand == [op |-> "none", at |-> "idle", names |-> {}, queue |-> NoQueue,
              due |-> {}, seen |-> {}]

-----------------------------------------------------------------------------
In(names, states) == {j \in Jobs : queue[j] \in names /\ state[j] \in states}
QueuesOf(states) == {queue[j] : j \in In(Queues, states)}

Live == {"waiting", "active", "failed"}

\* Faulty: only the queues this process is configured for.
ConfiguredOnly == Configured

\* The configured queues and those that have rows.
StoredQueues == Configured \cup QueuesOf(Live)

\* Faulty: the total of processed jobs is read first.
TotalFirst == <<"total", "counts">>

StatsReads == <<"counts", "total">>

\* The jobs behind a number of the status line: rows by status, the total of
\* completed jobs.
Read(what, name) == In({name}, IF what = "counts" THEN Live ELSE {"done"})

-----------------------------------------------------------------------------
CommandInit == queue = [j \in Jobs |-> NoQueue] /\ cmd = NoCommand

Enqueue(j, name) == Accept(j) /\ queue' = [queue EXCEPT ![j] = name]

Start(op) ==
  /\ cmd = NoCommand
  /\ cmd' = [NoCommand EXCEPT !.op = op, !.at = "rows",
               !.due = IF op = "status" THEN {} ELSE In(Queues, {"failed"})]
  /\ UNCHANGED <<lifecycleVars, queue>>

\* all --queue <name>
StartOn(op, name) ==
  /\ cmd = NoCommand /\ op # "status"
  /\ cmd' = [NoCommand EXCEPT !.op = op, !.at = "queues", !.names = {name},
               !.due = In({name}, {"failed"})]
  /\ UNCHANGED <<lifecycleVars, queue>>

ReadRows ==
  /\ cmd.at = "rows"
  /\ cmd' = [cmd EXCEPT !.at = "stats", !.names = StoredQueues]
  /\ UNCHANGED <<lifecycleVars, queue>>

ReadStats ==
  /\ cmd.at = "stats"
  /\ cmd' = [cmd EXCEPT !.at = "queues", !.names = @ \cup QueuesOf({"done"})]
  /\ UNCHANGED <<lifecycleVars, queue>>

\* <id> --queue <name>
OperateOn(op, j) ==
  /\ op # "status" /\ state[j] = "failed"
  /\ Decide({j}, IF op = "retry" THEN "waiting" ELSE "dropped")
  /\ cmd' = [cmd EXCEPT !.due = @ \ {j}] /\ UNCHANGED queue

Operate(name) ==
  LET failed == In({name}, {"failed"})
  IN /\ cmd.at = "queues" /\ cmd.op # "status" /\ name \in cmd.names
     /\ Decide(failed, IF cmd.op = "retry" THEN "waiting" ELSE "dropped")
     /\ cmd' = [cmd EXCEPT !.names = @ \ {name}, !.due = @ \ failed]
     /\ UNCHANGED queue

\* Stats: two statements, then the line.
FirstRead(name) ==
  /\ cmd.at = "queues" /\ cmd.op = "status" /\ name \in cmd.names
  /\ cmd' = [cmd EXCEPT !.at = "second", !.queue = name,
               !.due = In({name}, Live \cup {"done"}), !.seen = Read(StatsReads[1], name)]
  /\ UNCHANGED <<lifecycleVars, queue>>

SecondRead ==
  /\ cmd.at = "second"
  /\ cmd' = [cmd EXCEPT !.at = "line", !.seen = @ \cup Read(StatsReads[2], cmd.queue)]
  /\ UNCHANGED <<lifecycleVars, queue>>

PrintLine ==
  /\ cmd.at = "line"
  /\ cmd' = [NoCommand EXCEPT !.op = cmd.op, !.at = "queues",
               !.names = cmd.names \ {cmd.queue}]
  /\ UNCHANGED <<lifecycleVars, queue>>

Finished == cmd.at = "queues" /\ cmd.names = {}

\* The end, or an error in between: what was done to earlier queues stays done.
End ==
  /\ cmd # NoCommand /\ cmd' = NoCommand
  /\ UNCHANGED <<lifecycleVars, queue>>

CommandNext ==
  \/ \E op \in Ops : Start(op) \/ \E name \in Queues : StartOn(op, name)
  \/ \E op \in Ops, j \in Jobs : OperateOn(op, j)
  \/ \E name \in Queues : Operate(name) \/ FirstRead(name)
  \/ ReadRows \/ ReadStats \/ SecondRead \/ PrintLine \/ End
-----------------------------------------------------------------------------
(* Properties.                                                             *)

CommandTypeOK ==
  /\ queue \in [Jobs -> Queues \cup {NoQueue}]
  /\ cmd \in [op : Ops \cup {"none"}, names : SUBSET Queues, queue : Queues \cup {NoQueue},
              at : {"idle", "rows", "stats", "queues", "second", "line"},
              due : SUBSET Jobs, seen : SUBSET Jobs]

\* When `retry all` or `delete all` ends without an error, every job that was
\* failed when it started has been retried or deleted, in whichever queue it
\* was and whatever workers did meanwhile.
AllMeansAll == Finished /\ cmd.op # "status" => cmd.due = {}

\* A job that completes while the status of its queue is read may be counted
\* twice but is never missing from the line.
StatsMissNone == cmd.at = "line" => cmd.due \subseteq cmd.seen
===============================================================================
