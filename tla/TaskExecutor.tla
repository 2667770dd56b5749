---------------------------- MODULE TaskExecutor ----------------------------
(***************************************************************************)
(* What putils::ThreadPool promises its users, without threads, locks or   *)
(* condition variables: tasks start in the order in which they were        *)
(* accepted, each one at most once, and the pool is gone only when every   *)
(* accepted task has been executed.                                        *)
(***************************************************************************)
EXTENDS Naturals, Sequences

CONSTANT Tasks          \* the tasks that may be submitted, each at most once

VARIABLES accepted,     \* the accepted tasks, in order of acceptance
          started,      \* how many of them have been started
          finished,     \* the tasks that have run to completion
          closed        \* TRUE once the pool has been destroyed

execVars == <<accepted, started, finished, closed>>

Accepted == {accepted[i] : i \in 1 .. Len(accepted)}

StartedTasks == {accepted[i] : i \in 1 .. started}

Init ==
    /\ accepted = <<>>
    /\ started = 0
    /\ finished = {}
    /\ closed = FALSE

Accept(t) ==
    /\ ~closed
    /\ t \notin Accepted
    /\ accepted' = Append(accepted, t)
    /\ UNCHANGED <<started, finished, closed>>

Start ==
    /\ started < Len(accepted)
    /\ started' = started + 1
    /\ UNCHANGED <<accepted, finished, closed>>

Finish(t) ==
    /\ t \in StartedTasks \ finished
    /\ finished' = finished \cup {t}
    /\ UNCHANGED <<accepted, started, closed>>

Close ==
    /\ ~closed
    /\ finished = Accepted
    /\ closed' = TRUE
    /\ UNCHANGED <<accepted, started, finished>>

Next ==
    \/ \E t \in Tasks : Accept(t) \/ Finish(t)
    \/ Start
    \/ Close

Spec == Init /\ [][Next]_execVars

=============================================================================
