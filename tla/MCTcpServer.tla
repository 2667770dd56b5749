----------------------------- MODULE MCTcpServer -----------------------------
(* Small instances of TcpServer: two connections that are open together or *)
(* (with one descriptor) one after the other on the same descriptor, one   *)
(* or two workers.                                                         *)
EXTENDS TcpServer, TLC

CONSTANTS c1, c2, f1, f2, w1, w2

MCConns == {c1, c2}
OneFd == {f1}
TwoFds == {f1, f2}
OneWorker == {w1}
TwoWorkers == {w1, w2}

(* Connections, descriptors and workers are interchangeable.               *)
Symmetry == Permutations(MCConns) \cup Permutations(TwoFds) \cup Permutations(TwoWorkers)

=============================================================================
