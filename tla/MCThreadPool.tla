---------------------------- MODULE MCThreadPool ----------------------------
(* Three workers and three tasks: two workers can be asleep while the      *)
(* third runs a task that submits another one, with the destructor in      *)
(* progress.                                                               *)
EXTENDS ThreadPool

CONSTANTS w1, w2, w3, t1, t2, t3

MCWorkers == {w1, w2, w3}
MCTasks == {t1, t2, t3}

=============================================================================
