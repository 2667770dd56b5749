------------------------------ MODULE LogSink ------------------------------
(***************************************************************************)
(* What the asynchronous logger promises: the log file is at any time a    *)
(* prefix of what was logged, message by message and in order, and it only *)
(* grows.                                                                  *)
(***************************************************************************)
EXTENDS Naturals, Sequences

CONSTANT Messages

VARIABLES logged,       \* what was logged, in order
          file          \* what has been written to the file

Init == logged = <<>> /\ file = <<>>

Log == \E m \in Messages : logged' = Append(logged, m) /\ UNCHANGED file

Write ==
    /\ \E n \in Len(file) .. Len(logged) : file' = SubSeq(logged, 1, n)
    /\ UNCHANGED logged

Spec == Init /\ [][Log \/ Write]_<<logged, file>>

=============================================================================
