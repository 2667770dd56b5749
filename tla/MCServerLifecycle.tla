-------------------------- MODULE MCServerLifecycle --------------------------
(* Both classes of server, with two connections and two workers.           *)
EXTENDS ServerLifecycle

CONSTANTS c1, c2, w1, w2

MCConns == {c1, c2}
MCWorkers == {w1, w2}

=============================================================================
