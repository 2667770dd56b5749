------------------------ MODULE ServerLifecycleProofs ------------------------
(***************************************************************************)
(* Proofs about ServerLifecycle for any connections, any workers and any   *)
(* number of tasks.  What the properties say of the destructor's last step *)
(* is decided in earlier ones: the order of the owner's steps (OrderInv),  *)
(* who is still running when members go (QuietInv), which descriptors the  *)
(* server still has (ListenInv, ConnInv).                                  *)
(***************************************************************************)
EXTENDS ServerLifecycle, SequenceTheorems, TLAPS

(* How often close() has returned follows from where the owner is.         *)
OrderInv ==
    /\ owner \in {"new", "running"} => closes = 0
    /\ owner \notin {"pool", "gone"} =>
         closes = 0 \/ (closes = 1 /\ kind = "RPCServer")
    /\ owner \in {"pool", "gone"} => closes > 0

(* The remover is joined before close() goes on to the connections, and    *)
(* the tasks that outlive a member were there when it was destroyed.       *)
QuietInv ==
    /\ owner \notin {"running", "stop", "join"} => remover = "none"
    /\ closes > 0 => remover = "none"
    /\ closes > 0 /\ Outstanding => busy
    /\ \A w \in Workers : at[w] # "idle" => job[w] \in Tasks

(* Until the first close() has come to it the number in sock_fd_ is the    *)
(* server's own, and after a close() that did not throw it is given back.  *)
ListenInv ==
    /\ closes = 0 /\ owner \notin {"closed", "pool", "gone"} =>
         sock_fd_ \in {"none", "server"}
    /\ ~failed /\ (closes > 0 \/ owner \in {"closed", "pool", "gone"}) =>
         sock_fd_ # "server"

(* As long as no Client::close has thrown, the map has exactly the         *)
(* connections whose sockets are not closed.                               *)
ConnInv ==
    ~failed =>
        /\ \A c \in Conns : c \in clients_idx_ <=> sock[c] \in {"open", "dead"}
        /\ closes > 0 \/ owner \in {"listen", "closed", "pool", "gone"} =>
             clients_idx_ = {}

IndInv ==
    /\ TypeOK
    /\ OrderInv
    /\ QuietInv
    /\ ListenInv
    /\ ConnInv
    /\ QuietDestructionIsSafe
    /\ FirstCloseIsOwn

-----------------------------------------------------------------------------
LEMMA InitIndInv == Init => IndInv
<1> SUFFICES ASSUME Init PROVE IndInv
  OBVIOUS
<1>1. TypeOK
  <2>1. queue \in Seq(Tasks)
    BY DEF Init
  <2>2. at \in [Workers -> {"idle", "receive", "call", "publish", "handler", "calling", "respond"}]
    BY DEF Init
  <2>3. job \in [Workers -> Tasks \cup {NoTask}]
    BY DEF Init
  <2>4. sock \in [Conns -> {"new", "open", "dead", "closed"}]
    BY DEF Init
  <2>5. /\ threadpool \in BOOLEAN /\ stop_remove_clients_task_ \in BOOLEAN
        /\ busy \in BOOLEAN /\ touched \in BOOLEAN
        /\ stolen \in BOOLEAN /\ failed \in BOOLEAN
    BY Zenon DEF Init
  <2> QED BY <2>1, <2>2, <2>3, <2>4, <2>5, MaxTasksAssumption DEF Init, TypeOK
<1>2. OrderInv /\ ListenInv
  BY DEF Init, OrderInv, ListenInv
<1>3. QuietInv
  BY DEF Init, QuietInv
<1>4. ConnInv
  BY DEF Init, ConnInv
<1>5. QuietDestructionIsSafe /\ FirstCloseIsOwn
  BY DEF Init, QuietDestructionIsSafe, FirstCloseIsOwn
<1> QED BY <1>1, <1>2, <1>3, <1>4, <1>5 DEF IndInv

(* start() and run(), before anything is destroyed.                        *)
LEMMA RunIndInv ==
    ASSUME IndInv, start \/ Run
    PROVE  IndInv'
<1> USE DEF IndInv
<1>1. CASE start
  <2> USE <1>1 DEF start, SocketLeft, clientVars, poolVars, historyVars
  <2>1. TypeOK'
    BY DEF TypeOK
  <2>2. OrderInv' /\ ListenInv'
    BY DEF OrderInv, ListenInv, TypeOK
  <2>3. QuietInv'
    BY DEF QuietInv, OrderInv, Outstanding, TypeOK
  <2>4. ConnInv'
    BY DEF ConnInv, OrderInv
  <2>5. QuietDestructionIsSafe' /\ FirstCloseIsOwn'
    BY DEF QuietDestructionIsSafe, FirstCloseIsOwn
  <2> QED BY <2>1, <2>2, <2>3, <2>4, <2>5
<1>2. ASSUME NEW c \in Conns, accept_client(c) PROVE IndInv'
  <2> USE <1>2 DEF accept_client, ownerVars, removerVars, poolVars, historyVars
  <2>1. TypeOK'
    BY DEF TypeOK
  <2>2. OrderInv' /\ ListenInv'
    BY DEF OrderInv, ListenInv
  <2>3. QuietInv'
    BY DEF QuietInv, OrderInv, Outstanding
  <2>4. ConnInv'
    BY DEF ConnInv, OrderInv, TypeOK
  <2>5. QuietDestructionIsSafe' /\ FirstCloseIsOwn'
    BY DEF QuietDestructionIsSafe, FirstCloseIsOwn
  <2> QED BY <2>1, <2>2, <2>3, <2>4, <2>5
<1>3. ASSUME NEW c \in Conns, handle_et_event(c) PROVE IndInv'
  <2> USE <1>3 DEF handle_et_event, ownerVars, clientVars, removerVars, historyVars
  <2>1. TypeOK'
    <3>1. [kind |-> "receive", conn |-> c] \in Tasks
      BY DEF Tasks
    <3>2. queue' \in Seq(Tasks)
      BY <3>1, AppendProperties DEF TypeOK
    <3>3. submitted' \in 0 .. MaxTasks
      BY MaxTasksAssumption DEF TypeOK
    <3> QED BY <3>2, <3>3 DEF TypeOK
  <2>2. OrderInv' /\ ListenInv'
    BY DEF OrderInv, ListenInv
  <2>3. QuietInv'
    BY DEF QuietInv, OrderInv
  <2>4. ConnInv'
    BY DEF ConnInv
  <2>5. QuietDestructionIsSafe' /\ FirstCloseIsOwn'
    BY DEF QuietDestructionIsSafe, FirstCloseIsOwn
  <2> QED BY <2>1, <2>2, <2>3, <2>4, <2>5
<1>4. CASE RunEnds
  <2> USE <1>4 DEF RunEnds, clientVars, removerVars, poolVars, historyVars
  <2>1. TypeOK'
    BY DEF TypeOK
  <2>2. OrderInv' /\ ListenInv'
    BY DEF OrderInv, ListenInv
  <2>3. QuietInv'
    BY DEF QuietInv, OrderInv, Outstanding
  <2>4. ConnInv'
    BY DEF ConnInv, OrderInv
  <2>5. QuietDestructionIsSafe' /\ FirstCloseIsOwn'
    BY DEF QuietDestructionIsSafe, FirstCloseIsOwn
  <2> QED BY <2>1, <2>2, <2>3, <2>4, <2>5
<1> QED BY <1>1, <1>2, <1>3, <1>4 DEF Run

(* close() and the destructors.                                            *)
LEMMA StopRemoverIndInv ==
    ASSUME IndInv, terminate_dead_clients_remover
    PROVE  IndInv'
<1> USE DEF IndInv, terminate_dead_clients_remover, StopRemover, JoinRemover,
            clientVars, poolVars, historyVars
<1>1. TypeOK'
  <2>1. stop_remove_clients_task_' \in BOOLEAN
    BY Zenon DEF TypeOK
  <2> QED BY <2>1 DEF TypeOK
<1>2. OrderInv' /\ ListenInv'
  BY DEF OrderInv, ListenInv
<1>3. QuietInv'
  BY DEF QuietInv, OrderInv, Outstanding
<1>4. ConnInv'
  BY DEF ConnInv
<1>5. QuietDestructionIsSafe' /\ FirstCloseIsOwn'
  BY DEF QuietDestructionIsSafe, FirstCloseIsOwn
<1> QED BY <1>1, <1>2, <1>3, <1>4, <1>5

LEMMA CloseClientsIndInv ==
    ASSUME IndInv, CloseClients
    PROVE  IndInv'
<1> USE DEF IndInv, CloseClients, ToClose, removerVars, poolVars
<1>1. TypeOK'
  <2>1. failed' \in BOOLEAN
    BY Zenon DEF TypeOK
  <2>2. sock' \in [Conns -> {"new", "open", "dead", "closed"}]
    BY DEF TypeOK
  <2> QED BY <2>1, <2>2 DEF TypeOK
<1>2. OrderInv' /\ ListenInv'
  BY DEF OrderInv, ListenInv
<1>3. QuietInv'
  BY DEF QuietInv, OrderInv, Outstanding
<1>4. ConnInv'
  BY DEF ConnInv, TypeOK
<1>5. QuietDestructionIsSafe' /\ FirstCloseIsOwn'
  BY DEF QuietDestructionIsSafe, FirstCloseIsOwn
<1> QED BY <1>1, <1>2, <1>3, <1>4, <1>5

(* The number in sock_fd_ is somebody else's only in the second close().   *)
LEMMA CloseListeningIndInv ==
    ASSUME IndInv, CloseListening
    PROVE  IndInv'
<1> USE DEF IndInv, CloseListening, clientVars, removerVars, poolVars
<1>1. TypeOK'
  BY DEF TypeOK
<1>2. OrderInv' /\ ListenInv'
  BY DEF OrderInv, ListenInv
<1>3. QuietInv'
  BY DEF QuietInv, OrderInv, Outstanding
<1>4. ConnInv'
  BY DEF ConnInv
<1>5. QuietDestructionIsSafe'
  BY DEF QuietDestructionIsSafe
<1>6. FirstCloseIsOwn'
  BY DEF FirstCloseIsOwn, ListenInv, OrderInv, TypeOK
<1> QED BY <1>1, <1>2, <1>3, <1>4, <1>5, <1>6

(* Whatever task is left when a member goes is recorded in busy.           *)
LEMMA DestroyIndInv ==
    ASSUME IndInv, DestroyMembers \/ DestroyPool
    PROVE  IndInv'
<1> USE DEF IndInv, clientVars, removerVars, poolVars, historyVars
<1>1. CASE DestroyMembers
  <2> USE <1>1 DEF DestroyMembers
  <2>1. TypeOK'
    BY DEF TypeOK, OrderInv
  <2>2. OrderInv'
    BY DEF OrderInv, TypeOK
  <2>3. ListenInv'
    BY DEF ListenInv, OrderInv, TypeOK
  <2>4. QuietInv'
    BY DEF QuietInv, OrderInv, Outstanding
  <2>5. ConnInv'
    BY DEF ConnInv
  <2>6. QuietDestructionIsSafe'
    BY DEF QuietDestructionIsSafe
  <2>7. FirstCloseIsOwn'
    BY DEF FirstCloseIsOwn, TypeOK
  <2> QED BY <2>1, <2>2, <2>3, <2>4, <2>5, <2>6, <2>7
<1>2. CASE DestroyPool
  <2> USE <1>2 DEF DestroyPool
  <2>1. TypeOK'
    BY DEF TypeOK
  <2>2. OrderInv' /\ ListenInv'
    BY DEF OrderInv, ListenInv
  <2>3. QuietInv'
    BY DEF QuietInv, Outstanding
  <2>4. ConnInv'
    BY DEF ConnInv
  <2>5. QuietDestructionIsSafe' /\ FirstCloseIsOwn'
    BY DEF QuietDestructionIsSafe, FirstCloseIsOwn
  <2> QED BY <2>1, <2>2, <2>3, <2>4, <2>5
<1> QED BY <1>1, <1>2

LEMMA OtherOpensIndInv ==
    ASSUME IndInv, OtherOpens
    PROVE  IndInv'
<1> USE DEF IndInv, OtherOpens, clientVars, removerVars, poolVars, historyVars
<1>1. TypeOK'
  BY DEF TypeOK
<1>2. OrderInv' /\ ListenInv'
  BY DEF OrderInv, ListenInv
<1>3. QuietInv'
  BY DEF QuietInv, Outstanding
<1>4. ConnInv'
  BY DEF ConnInv
<1>5. QuietDestructionIsSafe' /\ FirstCloseIsOwn'
  BY DEF QuietDestructionIsSafe, FirstCloseIsOwn
<1> QED BY <1>1, <1>2, <1>3, <1>4, <1>5

(* The remover runs only while the members it uses are there.              *)
LEMMA RemoverIndInv ==
    ASSUME IndInv, remove_dead_clients
    PROVE  IndInv'
<1> USE DEF IndInv, remove_dead_clients, ownerVars, poolVars
<1>1. /\ remover # "none" /\ remover' \in {"returned", "pass", "asleep", "terminated"}
      /\ BaseAlive
  BY DEF RemoverChecks, RemoverRemoves, RemoverThrows, BaseAlive, QuietInv
<1>2. touched' = touched
  <2>1. touched' = (touched \/ ~BaseAlive)
    BY Zenon DEF RemoverChecks, RemoverRemoves, RemoverThrows, Touch
  <2> QED BY <1>1, <2>1, Zenon DEF TypeOK
<1>3. /\ sock' \in [Conns -> {"new", "open", "dead", "closed"}]
      /\ clients_idx_' \subseteq Conns
      /\ client_mtx' \in {"free", "remover"}
  BY DEF RemoverChecks, RemoverRemoves, RemoverThrows, TypeOK, clientVars
<1>4. TypeOK'
  BY <1>1, <1>2, <1>3 DEF TypeOK
<1>5. OrderInv' /\ ListenInv'
  BY DEF OrderInv, ListenInv
<1>6. QuietInv'
  BY <1>1 DEF QuietInv, Outstanding
<1>7. ConnInv'
  BY DEF ConnInv, RemoverChecks, RemoverRemoves, RemoverThrows, TypeOK, clientVars
<1>8. QuietDestructionIsSafe' /\ FirstCloseIsOwn'
  BY <1>2 DEF QuietDestructionIsSafe, FirstCloseIsOwn
<1> QED BY <1>4, <1>5, <1>6, <1>7, <1>8

-----------------------------------------------------------------------------
(* What a step of a worker does.  It needs a task, so that one it leaves   *)
(* behind is never the first; and a destroyed member is used only by a     *)
(* task that outlived it.                                                  *)
LEMMA WorkerEffect ==
    ASSUME IndInv, NEW w \in Workers, Worker(w)
    PROVE  /\ Outstanding
           /\ queue' \in Seq(Tasks)
           /\ at' \in [Workers -> {"idle", "receive", "call", "publish",
                                   "handler", "calling", "respond"}]
           /\ job' \in [Workers -> Tasks \cup {NoTask}]
           /\ \A v \in Workers : at'[v] # "idle" => job'[v] \in Tasks
           /\ subscribers_mtx' \in {"free"} \cup Workers
           /\ touched' \in BOOLEAN
           /\ touched' => touched \/ closes > 0
           /\ sock' \in [Conns -> {"new", "open", "dead", "closed"}]
           /\ \A c \in Conns : sock'[c] \in {"open", "dead"} <=> sock[c] \in {"open", "dead"}
<1> USE DEF IndInv, Goto
<1>0. /\ DerivedAlive \/ closes > 0
      /\ BaseAlive \/ closes > 0
  BY DEF DerivedAlive, BaseAlive, OrderInv, TypeOK
<1>1. CASE TakeTask(w)
  <2> USE <1>1 DEF TakeTask
  <2>1. Head(queue) \in Tasks /\ Tail(queue) \in Seq(Tasks)
    BY HeadTailProperties DEF TypeOK
  <2>2. Head(queue).kind \in {"receive", "respond"}
    BY <2>1 DEF Tasks
  <2> QED BY <2>1, <2>2 DEF Outstanding, TypeOK, QuietInv
<1>2. CASE receive_data(w)
  <2> USE <1>2 DEF receive_data
  <2>1. /\ sock' \in [Conns -> {"new", "open", "dead", "closed"}]
        /\ \A c \in Conns : sock'[c] \in {"open", "dead"} <=> sock[c] \in {"open", "dead"}
    BY DEF TypeOK
  <2> QED BY <2>1 DEF Outstanding, TypeOK, QuietInv
<1>3. CASE CallHandler(w)
  <2> USE <1>3 DEF CallHandler
  <2>1. AnswerTask(job[w].conn) \in Tasks
    BY DEF QuietInv, Tasks, AnswerTask
  <2>2. queue' \in Seq(Tasks)
    BY <2>1, AppendProperties DEF TypeOK
  <2>3. touched' \in BOOLEAN /\ (touched' => touched \/ closes > 0)
    BY <1>0 DEF Touch
  <2> QED BY <2>2, <2>3 DEF Outstanding, TypeOK, QuietInv
<1>4. CASE Respond(w)
  <2> USE <1>4 DEF Respond
  <2>1. touched' \in BOOLEAN /\ (touched' => touched \/ closes > 0)
    BY <1>0 DEF Touch
  <2> QED BY <2>1 DEF Outstanding, TypeOK, QuietInv
<1>5. CASE publish_client_msg(w)
  <2> USE <1>5 DEF publish_client_msg
  <2>1. touched' \in BOOLEAN /\ (touched' => touched \/ closes > 0)
    BY <1>0 DEF Touch
  <2> QED BY <2>1 DEF Outstanding, TypeOK, QuietInv
<1>6. CASE HandlerReturns(w)
  <2> USE <1>6 DEF HandlerReturns
  <2>1. touched' \in BOOLEAN /\ (touched' => touched \/ closes > 0)
    BY <1>0 DEF Touch
  <2> QED BY <2>1 DEF Outstanding, TypeOK, QuietInv
<1> QED BY <1>1, <1>2, <1>3, <1>4, <1>5, <1>6 DEF Worker

LEMMA WorkerIndInv ==
    ASSUME IndInv, NEW w \in Workers, Worker(w)
    PROVE  IndInv'
<1> USE WorkerEffect DEF IndInv
<1>1. UNCHANGED <<kind, owner, closes, threadpool, sock_fd_, clients_idx_,
                  stop_remove_clients_task_, remover, client_mtx, submitted,
                  busy, stolen, failed>>
  BY DEF Worker, ownerVars, removerVars
<1>2. TypeOK'
  BY <1>1 DEF TypeOK
<1>3. OrderInv' /\ ListenInv'
  BY <1>1 DEF OrderInv, ListenInv
<1>4. QuietInv'
  BY <1>1 DEF QuietInv
<1>5. ConnInv'
  BY <1>1 DEF ConnInv
<1>6. QuietDestructionIsSafe' /\ FirstCloseIsOwn'
  BY <1>1 DEF QuietDestructionIsSafe, FirstCloseIsOwn, QuietInv
<1> QED BY <1>2, <1>3, <1>4, <1>5, <1>6

-----------------------------------------------------------------------------
LEMMA NextIndInv == IndInv /\ [Next]_vars => IndInv'
<1> SUFFICES ASSUME IndInv, [Next]_vars PROVE IndInv'
  OBVIOUS
<1>1. CASE UNCHANGED vars
  BY <1>1 DEF IndInv, TypeOK, OrderInv, QuietInv, ListenInv, ConnInv, Outstanding,
     QuietDestructionIsSafe, FirstCloseIsOwn, vars, ownerVars, clientVars,
     removerVars, poolVars, historyVars
<1>2. CASE start \/ Run
  BY <1>2, RunIndInv
<1>3. CASE Destroy
  BY <1>3, StopRemoverIndInv, CloseClientsIndInv, CloseListeningIndInv,
     DestroyIndInv DEF Destroy
<1>4. CASE OtherOpens
  BY <1>4, OtherOpensIndInv
<1>5. CASE remove_dead_clients
  BY <1>5, RemoverIndInv
<1>6. ASSUME NEW w \in Workers, Worker(w) PROVE IndInv'
  BY <1>6, WorkerIndInv
<1> QED BY <1>1, <1>2, <1>3, <1>4, <1>5, <1>6 DEF Next, Over

LEMMA Invariance == Spec => []IndInv
BY InitIndInv, NextIndInv, PTL DEF Spec

(* A server destroyed while no task is queued or running never uses a      *)
(* destroyed member, whatever the number of workers and connections: the   *)
(* remover is joined before the members it uses are destroyed.             *)
THEOREM DestructionSafety == Spec => []QuietDestructionIsSafe
<1>1. IndInv => QuietDestructionIsSafe
  BY DEF IndInv
<1> QED BY <1>1, Invariance, PTL

(* close() and the destructors close every socket of the server and, in    *)
(* the first close(), none of anybody else.                                *)
THEOREM ReleaseSafety == Spec => []SocketsAreReleased
<1>1. IndInv => SocketsAreReleased
  <2> SUFFICES ASSUME IndInv PROVE SocketsAreReleased
    OBVIOUS
  <2>1. ASSUME owner = "gone", ~failed
        PROVE  sock_fd_ # "server" /\ \A c \in Conns : sock[c] \in {"new", "closed"}
    BY <2>1 DEF IndInv, ListenInv, ConnInv, TypeOK
  <2> QED BY <2>1 DEF IndInv, SocketsAreReleased, DestroyedReleasesSockets
<1> QED BY <1>1, Invariance, PTL

=============================================================================
