----------------------------- MODULE ThreadPool -----------------------------
(***************************************************************************)
(* putils::ThreadPool and the putils::ThreadSafeQueue it is built on       *)
(* (include/base/ThreadPool.hpp, include/base/ThreadSafeQueue.hpp).        *)
(*                                                                         *)
(* Every critical section of ThreadSafeQueue::mutex_ is one action: what a *)
(* thread does between two of them touches only its own state.  The wait   *)
(* set of cond_ is explicit: a worker whose predicate is false gives up    *)
(* the mutex and is "waiting" until it is notified or wakes up spuriously, *)
(* and then evaluates the predicate again.  stop() sets the flag inside    *)
(* the critical section but notifies after it, so it is two actions.       *)
(*                                                                         *)
(* Tasks are submitted by the thread that owns the pool (the event loop of *)
(* TcpServer) until it runs the destructor, and by running tasks (a        *)
(* request task of RPCServer submits the task that sends the response) at  *)
(* any time, the destructor's included.                                    *)
(***************************************************************************)
EXTENDS Naturals, Sequences, FiniteSets

CONSTANTS Workers,      \* the threads of workers_
          Tasks,        \* the tasks that may be submitted, each at most once
          NoTask        \* what an idle worker executes

ASSUME WorkersAssumption == Workers # {}   \* thread_size > 0
ASSUME NoTaskAssumption == NoTask \notin Tasks

VARIABLES data_,        \* ThreadSafeQueue::data_, a FIFO of tasks
          stop_,        \* ThreadSafeQueue::stop_
          worker,       \* where each worker thread is in its loop
          task,         \* the task each worker executes
          owner,        \* the owning thread: using the pool or destroying it
          popped,       \* history: the tasks taken from data_, in order
          completed     \* history: the tasks whose call has returned

vars == <<data_, stop_, worker, task, owner, popped, completed>>

Elems(s) == {s[i] : i \in 1 .. Len(s)}

Submitted == Elems(popped) \cup Elems(data_)

Waiting == {w \in Workers : worker[w] = "waiting"}

TypeOK ==
    /\ data_ \in Seq(Tasks)
    /\ stop_ \in BOOLEAN
    /\ worker \in [Workers -> {"ready", "waiting", "running", "exited"}]
    /\ task \in [Workers -> Tasks \cup {NoTask}]
    /\ owner \in {"using", "notifying", "joining", "destroyed"}
    /\ popped \in Seq(Tasks)
    /\ completed \in SUBSET Tasks

Init ==
    /\ data_ = <<>>
    /\ stop_ = FALSE
    /\ worker = [w \in Workers |-> "ready"]
    /\ task = [w \in Workers |-> NoTask]
    /\ owner = "using"
    /\ popped = <<>>
    /\ completed = {}

-----------------------------------------------------------------------------
(* cond_.notify_one(): one waiter, if there is one, goes back to its       *)
(* predicate.                                                              *)
NotifyOneNobody ==
    UNCHANGED worker

NotifyOne ==
    IF Waiting = {}
    THEN UNCHANGED worker
    ELSE \E w \in Waiting : worker' = [worker EXCEPT ![w] = "ready"]

(* ThreadSafeQueue::push, reached only through ThreadPool::submit.         *)
push(t) ==
    /\ t \in Tasks \ Submitted
    /\ data_' = Append(data_, t)
    /\ NotifyOne
    /\ UNCHANGED <<stop_, task, owner, popped, completed>>

(* ThreadPool::submit called by the owner, before the destructor.          *)
SubmitByOwner(t) ==
    /\ owner = "using"
    /\ push(t)

(* ThreadPool::submit called from inside a task.                           *)
SubmitByTask(w, t) ==
    /\ worker[w] = "running"
    /\ push(t)

(* ThreadSafeQueue::waitAndPop(value) with a task in the queue: it leaves  *)
(* the queue and the worker calls it.                                      *)
WaitAndPopNoPop(w) ==
    /\ worker[w] = "ready"
    /\ data_ # <<>>
    /\ task' = [task EXCEPT ![w] = Head(data_)]
    /\ worker' = [worker EXCEPT ![w] = "running"]
    /\ popped' = Append(popped, Head(data_))
    /\ UNCHANGED <<data_, stop_, owner, completed>>

WaitAndPopTake(w) ==
    /\ worker[w] = "ready"
    /\ data_ # <<>>
    /\ task' = [task EXCEPT ![w] = Head(data_)]
    /\ data_' = Tail(data_)
    /\ worker' = [worker EXCEPT ![w] = "running"]
    /\ popped' = Append(popped, Head(data_))
    /\ UNCHANGED <<stop_, owner, completed>>

(* ... with nothing to do and no request to stop: block on cond_.          *)
WaitAndPopBlock(w) ==
    /\ worker[w] = "ready"
    /\ data_ = <<>>
    /\ ~stop_
    /\ worker' = [worker EXCEPT ![w] = "waiting"]
    /\ UNCHANGED <<data_, stop_, task, owner, popped, completed>>

(* ... with nothing to do after stop(): return false, the worker's lambda  *)
(* returns.                                                                *)
WaitAndPopExit(w) ==
    /\ worker[w] = "ready"
    /\ data_ = <<>>
    /\ stop_
    /\ worker' = [worker EXCEPT ![w] = "exited"]
    /\ UNCHANGED <<data_, stop_, task, owner, popped, completed>>

waitAndPop(w) == WaitAndPopTake(w) \/ WaitAndPopBlock(w) \/ WaitAndPopExit(w)

(* A spurious wakeup of cond_.wait: the predicate is evaluated again.      *)
SpuriousWakeup(w) ==
    /\ worker[w] = "waiting"
    /\ worker' = [worker EXCEPT ![w] = "ready"]
    /\ UNCHANGED <<data_, stop_, task, owner, popped, completed>>

(* task() returns.  A task that throws returns too: the packaged_task      *)
(* stores the exception in a future nobody keeps.                          *)
TaskReturns(w) ==
    /\ worker[w] = "running"
    /\ completed' = completed \cup {task[w]}
    /\ task' = [task EXCEPT ![w] = NoTask]
    /\ worker' = [worker EXCEPT ![w] = "ready"]
    /\ UNCHANGED <<data_, stop_, owner, popped>>

-----------------------------------------------------------------------------
(* ~ThreadPool, tasks_.stop(): the critical section ...                    *)
StopSetFlag ==
    /\ owner = "using"
    /\ stop_' = TRUE
    /\ owner' = "notifying"
    /\ UNCHANGED <<data_, worker, task, popped, completed>>

(* ... and cond_.notify_all() after it.                                    *)
StopNotifyOne ==
    /\ owner = "notifying"
    /\ NotifyOne
    /\ owner' = "joining"
    /\ UNCHANGED <<data_, stop_, task, popped, completed>>

StopNotifyAll ==
    /\ owner = "notifying"
    /\ worker' = [w \in Workers |->
                    IF worker[w] = "waiting" THEN "ready" ELSE worker[w]]
    /\ owner' = "joining"
    /\ UNCHANGED <<data_, stop_, task, popped, completed>>

(* The destructor's join loop returns when every worker thread has.        *)
JoinNobody ==
    /\ owner = "joining"
    /\ owner' = "destroyed"
    /\ UNCHANGED <<data_, stop_, worker, task, popped, completed>>

JoinWorkers ==
    /\ owner = "joining"
    /\ \A w \in Workers : worker[w] = "exited"
    /\ owner' = "destroyed"
    /\ UNCHANGED <<data_, stop_, worker, task, popped, completed>>

(* Nothing is left to do once the pool is destroyed.                       *)
Terminated ==
    /\ owner = "destroyed"
    /\ UNCHANGED vars

-----------------------------------------------------------------------------
WorkerStep(w) == waitAndPop(w) \/ TaskReturns(w)

Next ==
    \/ \E t \in Tasks : SubmitByOwner(t)
    \/ \E w \in Workers, t \in Tasks : SubmitByTask(w, t)
    \/ \E w \in Workers : waitAndPop(w)
    \/ \E w \in Workers : TaskReturns(w)
    \/ \E w \in Workers : SpuriousWakeup(w)
    \/ StopSetFlag
    \/ StopNotifyAll
    \/ JoinWorkers
    \/ Terminated

Spec == Init /\ [][Next]_vars

(* The scheduler runs every runnable thread and tasks return; nothing      *)
(* forces a submission, a spurious wakeup or the destruction of the pool.  *)
Fairness ==
    /\ \A w \in Workers : WF_vars(WorkerStep(w))
    /\ WF_vars(StopNotifyAll)
    /\ WF_vars(JoinWorkers)

FairSpec == Spec /\ Fairness

-----------------------------------------------------------------------------
(* No lost wakeup (ThreadSafeQueue::push and waitAndPop): while a task is  *)
(* queued some worker is awake and will come back to the queue.  It also   *)
(* says that no task is stranded: a worker that finds the queue empty      *)
(* after stop() may leave, but whoever pushes later, during the            *)
(* destructor, is itself such an awake worker.                             *)
NoLostWakeup ==
    data_ # <<>> => \E w \in Workers : worker[w] \in {"ready", "running"}

(* notify_all of stop() reaches every worker that went to sleep before the *)
(* flag was set, and no worker goes to sleep after it: when the destructor *)
(* is joining, nobody waits on cond_.                                      *)
NobodySleepsThroughStop ==
    owner \in {"joining", "destroyed"} => Waiting = {}

(* When ~ThreadPool has joined its workers every task ever submitted, by   *)
(* the owner or by another task, has been executed.                        *)
DestroyedMeansDone ==
    owner = "destroyed" => completed = Submitted

(* The pool implements the abstract executor: FIFO start, at most once,    *)
(* closed only when everything accepted has finished.                      *)
Executor == INSTANCE TaskExecutor
                WITH accepted <- popped \o data_,
                     started <- Len(popped),
                     finished <- completed,
                     closed <- owner = "destroyed"

ImplementsExecutor == Executor!Spec

(* Every submitted task is eventually executed (ThreadPool's worker loop). *)
EveryTaskCompletes ==
    \A t \in Tasks : t \in Submitted ~> t \in completed

(* The destructor terminates: no worker is left blocked in waitAndPop.     *)
DestructorReturns == owner = "notifying" ~> owner = "destroyed"

=============================================================================
