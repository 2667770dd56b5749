-------------------------- MODULE ThreadPoolProofs --------------------------
(***************************************************************************)
(* Proofs about ThreadPool for any non-empty set of workers and any set of *)
(* tasks.  The properties are not inductive on their own: that a queued    *)
(* task has an awake worker needs to know that no worker leaves before     *)
(* stop() and that stop() and the destructor go together (StopInv); that   *)
(* nothing is executed twice or forgotten needs to know where each task is *)
(* (WorkInv).                                                              *)
(***************************************************************************)
EXTENDS ThreadPool, SequenceTheorems, TLAPS

(* The stop flag, the destructor and the exits of workers agree.           *)
StopInv ==
    /\ stop_ <=> owner # "using"
    /\ \A w \in Workers : worker[w] = "exited" => stop_
    /\ owner = "destroyed" => \A w \in Workers : worker[w] = "exited"

(* Every task that was taken from the queue is done or in exactly one      *)
(* worker, and nothing was taken from the queue twice.                     *)
WorkInv ==
    /\ \A i, j \in 1 .. Len(data_) : data_[i] = data_[j] => i = j
    /\ Elems(popped) \cap Elems(data_) = {}
    /\ completed \subseteq Elems(popped)
    /\ \A w \in Workers :
          worker[w] = "running" => task[w] \in Elems(popped) \ completed
    /\ \A v, w \in Workers :
          worker[v] = "running" /\ worker[w] = "running" /\ task[v] = task[w]
            => v = w
    /\ \A t \in Elems(popped) \ completed :
          \E w \in Workers : worker[w] = "running" /\ task[w] = t

IndInv ==
    /\ TypeOK
    /\ StopInv
    /\ WorkInv
    /\ NoLostWakeup
    /\ NobodySleepsThroughStop

-----------------------------------------------------------------------------
(* What Append, Tail and concatenation do to the set of elements.          *)
LEMMA ElemsAppend ==
    ASSUME NEW S, NEW s \in Seq(S), NEW e \in S
    PROVE  Elems(Append(s, e)) = Elems(s) \cup {e}
<1>1. Elems(Append(s, e)) \subseteq Elems(s) \cup {e}
  BY DEF Elems
<1>2. Elems(s) \subseteq Elems(Append(s, e))
  <2> SUFFICES ASSUME NEW i \in 1 .. Len(s)
               PROVE  s[i] \in Elems(Append(s, e))
    BY DEF Elems
  <2>1. i \in 1 .. Len(Append(s, e)) /\ Append(s, e)[i] = s[i]
    OBVIOUS
  <2> QED BY <2>1 DEF Elems
<1>3. e \in Elems(Append(s, e))
  <2>1. /\ Len(s) + 1 \in 1 .. Len(Append(s, e))
        /\ Append(s, e)[Len(s) + 1] = e
    OBVIOUS
  <2> QED BY <2>1 DEF Elems
<1> QED BY <1>1, <1>2, <1>3

LEMMA ElemsHeadTail ==
    ASSUME NEW S, NEW s \in Seq(S), s # <<>>
    PROVE  Elems(s) = {Head(s)} \cup Elems(Tail(s))
<1>1. /\ Len(s) \in Nat \ {0}
      /\ Len(Tail(s)) = Len(s) - 1
      /\ Head(s) = s[1]
      /\ \A i \in 1 .. Len(Tail(s)) : Tail(s)[i] = s[i + 1]
  BY HeadTailProperties, EmptySeq
<1>2. Elems(s) \subseteq {Head(s)} \cup Elems(Tail(s))
  <2> SUFFICES ASSUME NEW i \in 1 .. Len(s), i # 1
               PROVE  s[i] \in Elems(Tail(s))
    BY <1>1 DEF Elems
  <2>1. i - 1 \in 1 .. Len(Tail(s)) /\ Tail(s)[i - 1] = s[i]
    BY <1>1
  <2> QED BY <2>1 DEF Elems
<1>3. {Head(s)} \cup Elems(Tail(s)) \subseteq Elems(s)
  <2>1. Head(s) \in Elems(s)
    BY <1>1 DEF Elems
  <2>2. ASSUME NEW i \in 1 .. Len(Tail(s))
        PROVE  Tail(s)[i] \in Elems(s)
    <3>1. i + 1 \in 1 .. Len(s) /\ Tail(s)[i] = s[i + 1]
      BY <1>1
    <3> QED BY <3>1 DEF Elems
  <2> QED BY <2>1, <2>2 DEF Elems
<1> QED BY <1>2, <1>3

LEMMA ElemsEmpty == Elems(<<>>) = {}
BY DEF Elems

LEMMA ElemsInType ==
    ASSUME NEW S, NEW s \in Seq(S)
    PROVE  Elems(s) \subseteq S
BY DEF Elems

-----------------------------------------------------------------------------
(* The invariant holds initially and every step preserves it.              *)
LEMMA InitIndInv == Init => IndInv
<1> SUFFICES ASSUME Init PROVE IndInv
  OBVIOUS
<1>1. TypeOK
  <2>1. data_ \in Seq(Tasks) /\ popped \in Seq(Tasks)
    BY EmptySeq DEF Init
  <2>2. worker \in [Workers -> {"ready", "waiting", "running", "exited"}]
    BY DEF Init
  <2>3. task \in [Workers -> Tasks \cup {NoTask}]
    BY DEF Init
  <2>4. stop_ \in BOOLEAN
    BY Zenon DEF Init
  <2> QED BY <2>1, <2>2, <2>3, <2>4 DEF Init, TypeOK
<1>2. StopInv
  BY DEF Init, StopInv
<1>3. WorkInv
  BY ElemsEmpty DEF Init, WorkInv
<1>4. NoLostWakeup /\ NobodySleepsThroughStop
  BY DEF Init, NoLostWakeup, NobodySleepsThroughStop, Waiting
<1> QED BY <1>1, <1>2, <1>3, <1>4 DEF IndInv

LEMMA PushIndInv ==
    ASSUME NEW t \in Tasks, IndInv, push(t),
           \/ owner = "using"
           \/ \E w \in Workers : worker[w] = "running"
    PROVE  IndInv'
<1> USE DEF IndInv
<1>1. /\ t \notin Elems(popped) /\ t \notin Elems(data_)
      /\ data_' = Append(data_, t)
      /\ UNCHANGED <<stop_, task, owner, popped, completed>>
      /\ NotifyOne
  BY DEF push, Submitted
<1>2. /\ worker' \in [Workers -> {"ready", "waiting", "running", "exited"}]
      /\ \A w \in Workers : \/ worker'[w] = worker[w]
                            \/ worker[w] = "waiting" /\ worker'[w] = "ready"
  BY <1>1 DEF NotifyOne, TypeOK, Waiting
<1>3. TypeOK'
  BY <1>1, <1>2 DEF TypeOK
<1>4. StopInv'
  BY <1>1, <1>2 DEF StopInv, TypeOK
<1>5. Elems(data_') = Elems(data_) \cup {t}
  BY <1>1, ElemsAppend DEF TypeOK
<1>6. WorkInv'
  <2>1. \A w \in Workers : worker'[w] = "running" <=> worker[w] = "running"
    BY <1>2
  <2>2. \A i, j \in 1 .. Len(data_') : data_'[i] = data_'[j] => i = j
    <3>1. \A i \in 1 .. Len(data_) : data_[i] # t
      BY <1>1 DEF Elems
    <3> QED BY <1>1, <3>1 DEF WorkInv, TypeOK
  <2>3. Elems(popped)' = Elems(popped)
    BY <1>1 DEF Elems
  <2>4. Elems(data_)' = Elems(data_) \cup {t}
    BY <1>5 DEF Elems
  <2> QED BY <1>1, <2>1, <2>2, <2>3, <2>4 DEF WorkInv
<1>7. NoLostWakeup'
  <2>1. CASE \E w \in Workers : worker[w] = "running"
    BY <1>2, <2>1 DEF NoLostWakeup
  <2>2. CASE owner = "using" /\ Waiting # {}
    <3>1. \E w \in Waiting : worker' = [worker EXCEPT ![w] = "ready"]
      BY <1>1, <2>2 DEF NotifyOne
    <3> QED BY <3>1 DEF NoLostWakeup, Waiting, TypeOK
  <2>3. CASE owner = "using" /\ Waiting = {}
    <3>1. PICK w \in Workers : TRUE
      BY WorkersAssumption
    <3>2. worker[w] \in {"ready", "running"}
      BY <2>3 DEF StopInv, TypeOK, Waiting
    <3> QED BY <1>2, <3>2 DEF NoLostWakeup
  <2> QED BY <2>1, <2>2, <2>3
<1>8. NobodySleepsThroughStop'
  BY <1>1, <1>2 DEF NobodySleepsThroughStop, Waiting
<1> QED BY <1>3, <1>4, <1>6, <1>7, <1>8

LEMMA TakeIndInv ==
    ASSUME NEW w \in Workers, IndInv, WaitAndPopTake(w)
    PROVE  IndInv'
<1> USE DEF IndInv
<1> DEFINE t == Head(data_)
<1>1. /\ worker[w] = "ready" /\ data_ # <<>>
      /\ task' = [task EXCEPT ![w] = t]
      /\ data_' = Tail(data_)
      /\ worker' = [worker EXCEPT ![w] = "running"]
      /\ popped' = Append(popped, t)
      /\ UNCHANGED <<stop_, owner, completed>>
  BY DEF WaitAndPopTake
<1>2. /\ t \in Tasks /\ data_' \in Seq(Tasks) /\ t = data_[1]
      /\ Len(data_) \in Nat \ {0} /\ Len(data_') = Len(data_) - 1
      /\ \A i \in 1 .. Len(data_') : data_'[i] = data_[i + 1]
  BY <1>1, HeadTailProperties, EmptySeq DEF TypeOK
<1>3. TypeOK'
  BY <1>1, <1>2 DEF TypeOK
<1>4. StopInv'
  BY <1>1 DEF StopInv, TypeOK
<1>5. /\ Elems(popped') = Elems(popped) \cup {t}
      /\ Elems(data_) = {t} \cup Elems(data_')
  BY <1>1, <1>2, ElemsAppend, ElemsHeadTail DEF TypeOK
<1>6. WorkInv'
  <2>1. t \notin Elems(popped) /\ t \notin completed
    BY <1>5 DEF WorkInv
  <2>2. t \notin Elems(data_')
    <3> SUFFICES ASSUME NEW i \in 1 .. Len(data_'), data_'[i] = t
                 PROVE  FALSE
      BY DEF Elems
    <3>1. i + 1 \in 1 .. Len(data_) /\ 1 \in 1 .. Len(data_)
      BY <1>2
    <3>2. data_[i + 1] = data_[1]
      BY <1>2
    <3>3. i + 1 = 1
      BY <3>1, <3>2 DEF WorkInv
    <3> QED BY <3>3
  <2>3. \A i, j \in 1 .. Len(data_') : data_'[i] = data_'[j] => i = j
    <3> SUFFICES ASSUME NEW i \in 1 .. Len(data_'), NEW j \in 1 .. Len(data_'),
                        data_'[i] = data_'[j]
                 PROVE  i = j
      OBVIOUS
    <3>1. i + 1 \in 1 .. Len(data_) /\ j + 1 \in 1 .. Len(data_)
      BY <1>2
    <3>2. data_[i + 1] = data_[j + 1]
      BY <1>2
    <3>3. i + 1 = j + 1
      BY <3>1, <3>2 DEF WorkInv
    <3> QED BY <3>3
  <2>4. /\ Elems(popped)' = Elems(popped) \cup {t}
        /\ Elems(data_)' = Elems(data_) \ {t}
    BY <1>5, <2>2 DEF Elems
  <2>5. /\ worker'[w] = "running" /\ task'[w] = t
        /\ \A v \in Workers \ {w} : worker'[v] = worker[v] /\ task'[v] = task[v]
    BY <1>1 DEF TypeOK
  <2>6. \A v \in Workers \ {w} : worker[v] = "running" => task[v] # t
    BY <2>1 DEF WorkInv
  <2>7. /\ Elems(popped)' \cap Elems(data_)' = {}
        /\ completed' \subseteq Elems(popped)'
    BY <1>1, <2>1, <2>4 DEF WorkInv
  <2>8. \A v \in Workers :
          worker'[v] = "running" => task'[v] \in Elems(popped)' \ completed'
    BY <1>1, <2>1, <2>4, <2>5 DEF WorkInv
  <2>9. \A u, v \in Workers :
          worker'[u] = "running" /\ worker'[v] = "running" /\ task'[u] = task'[v]
            => u = v
    BY <1>1, <2>5, <2>6 DEF WorkInv
  <2>10. \A x \in Elems(popped)' \ completed' :
            \E v \in Workers : worker'[v] = "running" /\ task'[v] = x
    <3> SUFFICES ASSUME NEW x \in Elems(popped) \ completed
                 PROVE  \E v \in Workers : worker'[v] = "running" /\ task'[v] = x
      BY <1>1, <2>4, <2>5
    <3>1. PICK v \in Workers : worker[v] = "running" /\ task[v] = x
      BY DEF WorkInv
    <3>2. v # w
      BY <1>1, <3>1
    <3> QED BY <2>5, <3>1, <3>2
  <2> QED BY <2>3, <2>7, <2>8, <2>9, <2>10 DEF WorkInv
<1>7. NoLostWakeup'
  BY <1>1 DEF NoLostWakeup, TypeOK
<1>8. NobodySleepsThroughStop'
  BY <1>1 DEF NobodySleepsThroughStop, Waiting, TypeOK
<1> QED BY <1>3, <1>4, <1>6, <1>7, <1>8

(* A step that only moves one worker between idle places of its loop.      *)
LEMMA IdleIndInv ==
    ASSUME NEW w \in Workers, IndInv,
           WaitAndPopBlock(w) \/ WaitAndPopExit(w) \/ SpuriousWakeup(w)
    PROVE  IndInv'
<1> USE DEF IndInv
<1>1. /\ worker[w] \in {"ready", "waiting"}
      /\ worker' \in [Workers -> {"ready", "waiting", "running", "exited"}]
      /\ worker'[w] \in {"ready", "waiting", "exited"}
      /\ \A v \in Workers \ {w} : worker'[v] = worker[v]
      /\ UNCHANGED <<data_, stop_, task, owner, popped, completed>>
  BY DEF WaitAndPopBlock, WaitAndPopExit, SpuriousWakeup, TypeOK
<1>2. TypeOK'
  BY <1>1 DEF TypeOK
<1>3. StopInv'
  <2>1. worker'[w] = "exited" => stop_
    BY <1>1 DEF WaitAndPopBlock, WaitAndPopExit, SpuriousWakeup, TypeOK
  <2> QED BY <1>1, <2>1 DEF StopInv
<1>4. WorkInv'
  <2>1. \A v \in Workers : worker'[v] = "running" <=> worker[v] = "running"
    BY <1>1
  <2>2. Elems(popped)' = Elems(popped) /\ Elems(data_)' = Elems(data_)
    BY <1>1 DEF Elems
  <2> QED BY <1>1, <2>1, <2>2 DEF WorkInv
<1>5. NoLostWakeup'
  <2>1. CASE data_ = <<>>
    BY <1>1, <2>1 DEF NoLostWakeup
  <2>2. CASE data_ # <<>>
    <3>1. SpuriousWakeup(w)
      BY <2>2 DEF WaitAndPopBlock, WaitAndPopExit
    <3> QED BY <3>1 DEF NoLostWakeup, SpuriousWakeup, TypeOK
  <2> QED BY <2>1, <2>2
<1>6. NobodySleepsThroughStop'
  <2>1. worker'[w] = "waiting" => owner = "using"
    BY DEF WaitAndPopBlock, WaitAndPopExit, SpuriousWakeup, TypeOK, StopInv
  <2> QED BY <1>1, <2>1 DEF NobodySleepsThroughStop, Waiting
<1> QED BY <1>2, <1>3, <1>4, <1>5, <1>6

LEMMA ReturnIndInv ==
    ASSUME NEW w \in Workers, IndInv, TaskReturns(w)
    PROVE  IndInv'
<1> USE DEF IndInv
<1>1. /\ worker[w] = "running"
      /\ completed' = completed \cup {task[w]}
      /\ task' = [task EXCEPT ![w] = NoTask]
      /\ worker' = [worker EXCEPT ![w] = "ready"]
      /\ UNCHANGED <<data_, stop_, owner, popped>>
  BY DEF TaskReturns
<1>2. /\ worker'[w] = "ready"
      /\ \A v \in Workers \ {w} : worker'[v] = worker[v] /\ task'[v] = task[v]
  BY <1>1 DEF TypeOK
<1>3. /\ Elems(popped)' = Elems(popped) /\ Elems(data_)' = Elems(data_)
      /\ Elems(popped) \subseteq Tasks
  BY <1>1, ElemsInType DEF Elems, TypeOK
<1>4. task[w] \in Elems(popped) \ completed
  BY <1>1 DEF WorkInv
<1>5. TypeOK'
  BY <1>1, <1>3, <1>4 DEF TypeOK
<1>6. StopInv'
  BY <1>1, <1>2 DEF StopInv
<1>7. WorkInv'
  <2>1. completed' \subseteq Elems(popped)'
    BY <1>1, <1>3, <1>4 DEF WorkInv
  <2>2. \A v \in Workers \ {w} : worker[v] = "running" => task[v] # task[w]
    BY <1>1 DEF WorkInv
  <2>3. \A v \in Workers :
          worker'[v] = "running" => task'[v] \in Elems(popped)' \ completed'
    BY <1>1, <1>2, <1>3, <2>2 DEF WorkInv
  <2>4. \A u, v \in Workers :
          worker'[u] = "running" /\ worker'[v] = "running" /\ task'[u] = task'[v]
            => u = v
    BY <1>2 DEF WorkInv
  <2>5. \A x \in Elems(popped)' \ completed' :
          \E v \in Workers : worker'[v] = "running" /\ task'[v] = x
    <3> SUFFICES ASSUME NEW x \in Elems(popped) \ completed, x # task[w]
                 PROVE  \E v \in Workers : worker'[v] = "running" /\ task'[v] = x
      BY <1>1, <1>3
    <3>1. PICK v \in Workers : worker[v] = "running" /\ task[v] = x
      BY DEF WorkInv
    <3> QED BY <1>2, <3>1
  <2> QED BY <1>1, <1>3, <2>1, <2>3, <2>4, <2>5 DEF WorkInv
<1>8. NoLostWakeup' /\ NobodySleepsThroughStop'
  BY <1>1, <1>2 DEF NoLostWakeup, NobodySleepsThroughStop, Waiting
<1> QED BY <1>5, <1>6, <1>7, <1>8

(* The owner's steps and stuttering change no task and start no worker.    *)
LEMMA OwnerIndInv ==
    ASSUME IndInv,
           StopSetFlag \/ StopNotifyAll \/ JoinWorkers \/ UNCHANGED vars
    PROVE  IndInv'
<1> USE DEF IndInv
<1>1. /\ UNCHANGED <<data_, task, popped, completed>>
      /\ worker' \in [Workers -> {"ready", "waiting", "running", "exited"}]
      /\ \A v \in Workers : \/ worker'[v] = worker[v]
                            \/ worker[v] = "waiting" /\ worker'[v] = "ready"
  BY DEF StopSetFlag, StopNotifyAll, JoinWorkers, vars, TypeOK
<1>2. TypeOK'
  BY <1>1 DEF StopSetFlag, StopNotifyAll, JoinWorkers, vars, TypeOK
<1>3. StopInv'
  BY <1>1 DEF StopSetFlag, StopNotifyAll, JoinWorkers, vars, TypeOK, StopInv
<1>4. WorkInv'
  <2>1. \A v \in Workers : worker'[v] = "running" <=> worker[v] = "running"
    BY <1>1
  <2>2. Elems(popped)' = Elems(popped) /\ Elems(data_)' = Elems(data_)
    BY <1>1 DEF Elems
  <2> QED BY <1>1, <2>1, <2>2 DEF WorkInv
<1>5. NoLostWakeup'
  BY <1>1 DEF NoLostWakeup
<1>6. NobodySleepsThroughStop'
  BY <1>1 DEF StopSetFlag, StopNotifyAll, JoinWorkers, vars, TypeOK,
              NobodySleepsThroughStop, Waiting
<1> QED BY <1>2, <1>3, <1>4, <1>5, <1>6

LEMMA NextIndInv == IndInv /\ [Next]_vars => IndInv'
<1> SUFFICES ASSUME IndInv, [Next]_vars PROVE IndInv'
  OBVIOUS
<1>1. ASSUME NEW t \in Tasks, SubmitByOwner(t) PROVE IndInv'
  BY <1>1, PushIndInv DEF SubmitByOwner
<1>2. ASSUME NEW w \in Workers, NEW t \in Tasks, SubmitByTask(w, t) PROVE IndInv'
  BY <1>2, PushIndInv DEF SubmitByTask
<1>3. ASSUME NEW w \in Workers, waitAndPop(w) PROVE IndInv'
  BY <1>3, TakeIndInv, IdleIndInv DEF waitAndPop
<1>4. ASSUME NEW w \in Workers, TaskReturns(w) PROVE IndInv'
  BY <1>4, ReturnIndInv
<1>5. ASSUME NEW w \in Workers, SpuriousWakeup(w) PROVE IndInv'
  BY <1>5, IdleIndInv
<1>6. CASE StopSetFlag \/ StopNotifyAll \/ JoinWorkers \/ UNCHANGED vars
  BY <1>6, OwnerIndInv
<1>7. CASE Terminated
  BY <1>7, OwnerIndInv DEF Terminated
<1> QED BY <1>1, <1>2, <1>3, <1>4, <1>5, <1>6, <1>7 DEF Next

LEMMA Invariance == Spec => []IndInv
BY InitIndInv, NextIndInv, PTL DEF Spec

-----------------------------------------------------------------------------
(* Type correctness of the pool.                                           *)
THEOREM TypeCorrect == Spec => []TypeOK
<1>1. IndInv => TypeOK
  BY DEF IndInv
<1> QED BY <1>1, Invariance, PTL

(* ThreadSafeQueue never loses a wakeup and the pool never strands a task, *)
(* whatever the number of workers and tasks.                               *)
THEOREM WakeupSafety == Spec => []NoLostWakeup
<1>1. IndInv => NoLostWakeup
  BY DEF IndInv
<1> QED BY <1>1, Invariance, PTL

(* No worker is asleep on cond_ while the destructor joins.                *)
THEOREM StopSafety == Spec => []NobodySleepsThroughStop
<1>1. IndInv => NobodySleepsThroughStop
  BY DEF IndInv
<1> QED BY <1>1, Invariance, PTL

(* A destroyed pool has executed every task submitted to it.               *)
THEOREM DestructionSafety == Spec => []DestroyedMeansDone
<1>1. IndInv => DestroyedMeansDone
  <2> SUFFICES ASSUME IndInv, owner = "destroyed"
               PROVE  completed = Submitted
    BY DEF DestroyedMeansDone
  <2>1. \A w \in Workers : worker[w] = "exited"
    BY DEF IndInv, StopInv
  <2>2. data_ = <<>>
    BY <2>1 DEF IndInv, NoLostWakeup
  <2>3. Elems(popped) \subseteq completed
    BY <2>1 DEF IndInv, WorkInv
  <2> QED BY <2>2, <2>3, ElemsEmpty DEF IndInv, WorkInv, Submitted
<1> QED BY <1>1, Invariance, PTL

-----------------------------------------------------------------------------
(* The refinement: what concatenation does under the two halves of the     *)
(* queue's history.                                                        *)
LEMMA ConcatAppend ==
    ASSUME NEW S, NEW s \in Seq(S), NEW u \in Seq(S), NEW e \in S
    PROVE  s \o Append(u, e) = Append(s \o u, e)
<1>1. s \o Append(u, e) \in Seq(S) /\ Append(s \o u, e) \in Seq(S)
  OBVIOUS
<1>2. Len(s \o Append(u, e)) = Len(Append(s \o u, e))
  OBVIOUS
<1>3. \A i \in 1 .. Len(s \o Append(u, e)) : (s \o Append(u, e))[i] = Append(s \o u, e)[i]
  OBVIOUS
<1> QED BY <1>1, <1>2, <1>3, SeqEqual

LEMMA ConcatHeadTail ==
    ASSUME NEW S, NEW s \in Seq(S), NEW u \in Seq(S), u # <<>>
    PROVE  Append(s, Head(u)) \o Tail(u) = s \o u
<1>1. /\ Head(u) \in S /\ Tail(u) \in Seq(S) /\ Head(u) = u[1]
      /\ Len(u) \in Nat \ {0} /\ Len(Tail(u)) = Len(u) - 1
      /\ \A i \in 1 .. Len(Tail(u)) : Tail(u)[i] = u[i + 1]
  BY HeadTailProperties, EmptySeq
<1> DEFINE a == Append(s, Head(u))
<1>2. /\ a \in Seq(S) /\ Len(a) = Len(s) + 1 /\ Len(s) \in Nat
      /\ \A i \in 1 .. Len(s) : a[i] = s[i]
      /\ a[Len(s) + 1] = u[1]
  BY <1>1
<1> HIDE DEF a
<1>3. a \o Tail(u) \in Seq(S) /\ s \o u \in Seq(S) /\ Len(a \o Tail(u)) = Len(s \o u)
  BY <1>1, <1>2
<1>4. \A i \in 1 .. Len(a \o Tail(u)) : (a \o Tail(u))[i] = (s \o u)[i]
  <2> SUFFICES ASSUME NEW i \in 1 .. Len(a \o Tail(u))
               PROVE  (a \o Tail(u))[i] = (s \o u)[i]
    OBVIOUS
  <2>1. CASE i <= Len(s)
    BY <1>1, <1>2, <2>1
  <2>2. CASE i = Len(s) + 1
    BY <1>1, <1>2, <2>2
  <2>3. CASE i > Len(s) + 1
    <3>1. i - Len(a) \in 1 .. Len(Tail(u)) /\ i - Len(a) + 1 = i - Len(s)
      BY <1>1, <1>2, <2>3
    <3> QED BY <1>1, <1>2, <2>3, <3>1
  <2> QED BY <1>2, <2>1, <2>2, <2>3
<1> QED BY <1>3, <1>4, SeqEqual DEF a

LEMMA ElemsConcat ==
    ASSUME NEW S, NEW s \in Seq(S), NEW u \in Seq(S)
    PROVE  {(s \o u)[i] : i \in 1 .. Len(s \o u)} = Elems(s) \cup Elems(u)
<1>1. \A i \in 1 .. Len(s \o u) : (s \o u)[i] \in Elems(s) \cup Elems(u)
  <2> SUFFICES ASSUME NEW i \in 1 .. Len(s \o u)
               PROVE  (s \o u)[i] \in Elems(s) \cup Elems(u)
    OBVIOUS
  <2>1. CASE i <= Len(s)
    BY <2>1 DEF Elems
  <2>2. CASE i > Len(s)
    <3>1. i - Len(s) \in 1 .. Len(u) /\ (s \o u)[i] = u[i - Len(s)]
      BY <2>2
    <3> QED BY <3>1 DEF Elems
  <2> QED BY <2>1, <2>2
<1>2. \A i \in 1 .. Len(s) : i \in 1 .. Len(s \o u) /\ (s \o u)[i] = s[i]
  OBVIOUS
<1>3. \A i \in 1 .. Len(u) : Len(s) + i \in 1 .. Len(s \o u) /\ (s \o u)[Len(s) + i] = u[i]
  OBVIOUS
<1> DEFINE both == {(s \o u)[i] : i \in 1 .. Len(s \o u)}
<1>4. both \subseteq Elems(s) \cup Elems(u)
  BY <1>1
<1>5. Elems(s) \subseteq both
  BY <1>2 DEF Elems
<1>6. Elems(u) \subseteq both
  BY <1>3 DEF Elems
<1> QED BY <1>4, <1>5, <1>6

(* A submission is accepted behind everything submitted before.            *)
LEMMA PushAccepts ==
    ASSUME NEW t \in Tasks, IndInv, push(t), owner # "destroyed"
    PROVE  Executor!Accept(t)
<1>1. /\ t \notin Elems(popped) \cup Elems(data_)
      /\ data_' = Append(data_, t)
      /\ UNCHANGED <<owner, popped, completed>>
      /\ data_ \in Seq(Tasks) /\ popped \in Seq(Tasks)
  BY DEF push, Submitted, IndInv, TypeOK
<1>2. t \notin Executor!Accepted
  BY <1>1, ElemsConcat DEF Executor!Accepted
<1>3. popped' \o data_' = Append(popped \o data_, t)
  BY <1>1, ConcatAppend
<1>4. UNCHANGED <<Len(popped), completed, owner = "destroyed">>
  BY <1>1
<1> QED BY <1>2, <1>3, <1>4 DEF Executor!Accept

(* A worker that takes the task at the head of the queue starts the first  *)
(* task that has not been started.                                         *)
LEMMA TakeStarts ==
    ASSUME NEW w \in Workers, IndInv, WaitAndPopTake(w)
    PROVE  Executor!Start
<1>1. /\ data_ # <<>> /\ data_' = Tail(data_)
      /\ popped' = Append(popped, Head(data_))
      /\ UNCHANGED <<owner, completed>>
      /\ data_ \in Seq(Tasks) /\ popped \in Seq(Tasks)
  BY DEF WaitAndPopTake, IndInv, TypeOK
<1>2. Len(data_) \in Nat \ {0} /\ Head(data_) \in Tasks
  BY <1>1, HeadTailProperties, EmptySeq
<1>3. popped' \o data_' = popped \o data_
  BY <1>1, ConcatHeadTail
<1>4. Len(popped') = Len(popped) + 1 /\ Len(popped) < Len(popped \o data_)
  BY <1>1, <1>2
<1>5. UNCHANGED <<popped \o data_, completed, owner = "destroyed">>
  BY <1>1, <1>3
<1> QED BY <1>4, <1>5 DEF Executor!Start

(* A call that returns finishes a task that was started and not finished.  *)
LEMMA ReturnFinishes ==
    ASSUME NEW w \in Workers, IndInv, TaskReturns(w)
    PROVE  \E t \in Tasks : Executor!Finish(t)
<1> DEFINE t == task[w]
<1>1. /\ worker[w] = "running" /\ completed' = completed \cup {t}
      /\ UNCHANGED <<data_, owner, popped>>
      /\ data_ \in Seq(Tasks) /\ popped \in Seq(Tasks)
  BY DEF TaskReturns, IndInv, TypeOK
<1>2. t \in Elems(popped) \ completed
  BY <1>1 DEF IndInv, WorkInv
<1>3. t \in Tasks
  BY <1>1, <1>2, ElemsInType
<1>4. PICK i \in 1 .. Len(popped) : popped[i] = t
  BY <1>2 DEF Elems
<1>5. (popped \o data_)[i] = t
  BY <1>1, <1>4
<1>6. t \in Executor!StartedTasks \ completed
  BY <1>2, <1>4, <1>5 DEF Executor!StartedTasks
<1>7. UNCHANGED <<popped \o data_, Len(popped), owner = "destroyed">>
  BY <1>1
<1>8. Executor!Finish(t)
  BY <1>1, <1>6, <1>7 DEF Executor!Finish
<1> QED BY <1>3, <1>8

(* The destructor is over only when everything accepted has finished.      *)
LEMMA JoinCloses ==
    ASSUME IndInv, JoinWorkers
    PROVE  Executor!Close
<1>1. /\ owner = "joining" /\ owner' = "destroyed"
      /\ UNCHANGED <<data_, popped, completed>>
      /\ \A w \in Workers : worker[w] = "exited"
      /\ data_ \in Seq(Tasks) /\ popped \in Seq(Tasks)
  BY DEF JoinWorkers, IndInv, TypeOK
<1>2. data_ = <<>>
  BY <1>1 DEF IndInv, NoLostWakeup
<1>3. completed = Elems(popped)
  BY <1>1 DEF IndInv, WorkInv
<1>4. Executor!Accepted = Elems(popped) \cup Elems(data_)
  BY <1>1, ElemsConcat DEF Executor!Accepted
<1>5. completed = Executor!Accepted
  BY <1>2, <1>3, <1>4, ElemsEmpty
<1>6. UNCHANGED <<popped \o data_, Len(popped), completed>>
  BY <1>1
<1>7. ~(owner = "destroyed") /\ (owner' = "destroyed") = TRUE
  BY <1>1
<1> QED BY <1>5, <1>6, <1>7 DEF Executor!Close

LEMMA StepSimulation == IndInv /\ [Next]_vars => [Executor!Next]_Executor!execVars
<1> SUFFICES ASSUME IndInv, [Next]_vars PROVE [Executor!Next]_Executor!execVars
  OBVIOUS
<1>1. ASSUME NEW t \in Tasks, push(t), owner # "destroyed" PROVE Executor!Next
  BY <1>1, PushAccepts DEF Executor!Next
<1>2. ASSUME NEW w \in Workers, WaitAndPopTake(w) PROVE Executor!Next
  BY <1>2, TakeStarts DEF Executor!Next
<1>3. ASSUME NEW w \in Workers, TaskReturns(w) PROVE Executor!Next
  BY <1>3, ReturnFinishes DEF Executor!Next
<1>4. ASSUME JoinWorkers PROVE Executor!Next
  BY <1>4, JoinCloses DEF Executor!Next
<1>5. ASSUME UNCHANGED <<data_, popped, completed>>, (owner' = "destroyed") <=> (owner = "destroyed")
      PROVE  UNCHANGED Executor!execVars
  <2>1. (owner' = "destroyed") = (owner = "destroyed")
    BY <1>5
  <2>2. UNCHANGED <<popped \o data_, Len(popped), completed>>
    BY <1>5
  <2> QED BY <2>1, <2>2 DEF Executor!execVars
<1>6. ASSUME NEW t \in Tasks, SubmitByOwner(t) PROVE Executor!Next
  BY <1>1, <1>6 DEF SubmitByOwner
<1>7. ASSUME NEW w \in Workers, NEW t \in Tasks, SubmitByTask(w, t) PROVE Executor!Next
  <2>1. push(t) /\ worker[w] = "running"
    BY <1>7 DEF SubmitByTask
  <2>2. owner # "destroyed"
    BY <2>1 DEF IndInv, StopInv
  <2> QED BY <1>1, <2>1, <2>2
<1>8. ASSUME NEW w \in Workers, WaitAndPopBlock(w) \/ WaitAndPopExit(w) \/ SpuriousWakeup(w)
      PROVE  UNCHANGED Executor!execVars
  BY <1>5, <1>8 DEF WaitAndPopBlock, WaitAndPopExit, SpuriousWakeup
<1>9. CASE StopSetFlag \/ StopNotifyAll \/ Terminated \/ UNCHANGED vars
  BY <1>5, <1>9 DEF StopSetFlag, StopNotifyAll, Terminated, vars
<1> QED BY <1>2, <1>3, <1>4, <1>6, <1>7, <1>8, <1>9 DEF Next, waitAndPop

(* The pool, with its threads, mutex and condition variable, implements    *)
(* the executor: tasks start in the order of submission, each at most      *)
(* once, and the pool is gone only when every task has been executed.      *)
THEOREM ExecutorRefinement == Spec => ImplementsExecutor
<1>1. Init => Executor!Init
  <2> SUFFICES ASSUME Init PROVE Executor!Init
    OBVIOUS
  <2>1. popped \o data_ = <<>> /\ Len(popped) = 0 /\ completed = {}
    BY DEF Init
  <2>2. (owner = "destroyed") = FALSE
    BY DEF Init
  <2> QED BY <2>1, <2>2 DEF Executor!Init
<1> QED BY <1>1, Invariance, StepSimulation, PTL DEF Spec, ImplementsExecutor, Executor!Spec

=============================================================================
