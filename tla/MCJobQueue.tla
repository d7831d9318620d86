------------------------------ MODULE MCJobQueue ------------------------------
(* Small instances of JobQueue for TLC. *)
EXTENDS JobQueueLifecycle, TLC

CONSTANTS w1, w2, p1, T, K

request ==
  [task |-> NoTask, queue |-> "default", key |-> K, uniqueFor |-> 0, delay |-> 0,
   timeout |-> 0, retention |-> 0, maxRetry |-> 1, known |-> TRUE]

task == [request EXCEPT !.task = T]
mail == [request EXCEPT !.uniqueFor = 2]

(* A task with a timeout, kept after it ran; and beside such a task without a
   timeout, a unique job of another queue, kept as well. *)
TimedTask == [task |-> [task EXCEPT !.timeout = 1, !.retention = 1]]
KeptTask == [task |-> [task EXCEPT !.retention = 1]]
TaskAndMail == [task |-> [task EXCEPT !.retention = 1],
                mail |-> [mail EXCEPT !.queue = "mail", !.retention = 1]]

(* Each worker in a process of its own (processes named as their worker), or
   all in one process. *)
OwnProcess == [w \in Workers |-> w]
SameProcess == [w \in Workers |-> p1]
Symmetric == Permutations(Workers)
===============================================================================
