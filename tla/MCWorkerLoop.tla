----------------------------- MODULE MCWorkerLoop -----------------------------
(* A small instance of WorkerLoop for TLC. *)
EXTENDS WorkerLoop

\* configs/config.yaml has three queues of weights 3, 2 and 1; here up to two, of
\* weights up to 2, and whatever a careless configuration says.
TwoNames == <<"default", "mail">>
GivenWeights == -1..2
GivenNumbers == {-1, 0, 1, 2}
===============================================================================
