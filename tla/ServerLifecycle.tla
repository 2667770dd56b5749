--------------------------- MODULE ServerLifecycle ---------------------------
(***************************************************************************)
(* A server from start() to the end of its destructor: the thread that     *)
(* owns it (start, run, close, ~RPCServer, ~TcpServer), the dead-client    *)
(* remover, and the tasks that are queued or running on the pool while the *)
(* members they use are destroyed (src/net/TcpServer.cpp,                  *)
(* src/rpc/RPCServer.cpp).  Descriptors of connections and epoll are the   *)
(* subject of TcpServer, the queue of ThreadPool: here the pool is what    *)
(* its proofs say, its destructor waits until every task is done.          *)
(*                                                                         *)
(* A plain TcpServer publishes to its observers, under subscribers_mtx,    *)
(* and a handler may call back: send_to_client, send_to_all_clients and    *)
(* printClients take client_mtx.  An RPCServer calls its handlers_ and     *)
(* submits the answer; its destructor runs close(), destroys the derived   *)
(* members, and then ~TcpServer runs close() again.                        *)
(***************************************************************************)
EXTENDS Naturals, Sequences

CONSTANTS Conns, Workers,
          Kinds,      \* the classes of server, "TcpServer" or "RPCServer"
          MaxTasks    \* bound: receive tasks submitted

ASSUME KindsAssumption == Kinds \subseteq {"TcpServer", "RPCServer"}
ASSUME MaxTasksAssumption == MaxTasks \in Nat

VARIABLES
    kind,            \* the class of the server
    owner,           \* where the owner's thread is
    closes,          \* calls of close() that have returned
    threadpool,      \* the pool has been made
    sock_fd_,        \* who has the number of the listening descriptor
    clients_idx_,    \* the connections in clients_idx_
    sock,            \* sock[c]: "dead" has is_connected_ = false
    stop_remove_clients_task_,
    remover,         \* where the thread of remove_dead_clients is
    client_mtx, subscribers_mtx,   \* their holders
    queue, at, job,  \* the pool: queued tasks, where each worker is, its task
    submitted,       \* receive tasks submitted so far
    busy,            \* history: tasks were left when a member was destroyed
    touched,         \* history: a destroyed member was used
    stolen,          \* history: a descriptor of somebody else was closed
    failed           \* history: closing a connection failed

ownerVars == <<owner, closes, threadpool, sock_fd_>>
clientVars == <<clients_idx_, sock>>
removerVars == <<stop_remove_clients_task_, remover, client_mtx>>
poolVars == <<queue, at, job, submitted, subscribers_mtx>>
historyVars == <<busy, touched, stolen, failed>>

vars == <<kind, ownerVars, clientVars, removerVars, poolVars, historyVars>>

Tasks == [kind : {"receive", "respond"}, conn : Conns]
NoTask == [kind |-> "none"]

(* One type invariant: the ranges of all variables.                        *)
TypeOK ==
    /\ kind \in Kinds
    /\ owner \in {"new", "running", "stop", "join", "clients", "listen",
                  "closed", "pool", "gone"}
    /\ closes \in 0 .. 2
    /\ threadpool \in BOOLEAN
    /\ sock_fd_ \in {"none", "server", "free", "other"}
    /\ clients_idx_ \subseteq Conns
    /\ sock \in [Conns -> {"new", "open", "dead", "closed"}]
    /\ stop_remove_clients_task_ \in BOOLEAN
    /\ remover \in {"none", "check", "pass", "asleep", "returned", "terminated"}
    /\ client_mtx \in {"free", "remover"}
    /\ subscribers_mtx \in {"free"} \cup Workers
    /\ queue \in Seq(Tasks)
    /\ at \in [Workers -> {"idle", "receive", "call", "publish", "handler", "calling", "respond"}]
    /\ job \in [Workers -> Tasks \cup {NoTask}]
    /\ submitted \in 0 .. MaxTasks
    /\ busy \in BOOLEAN /\ touched \in BOOLEAN
    /\ stolen \in BOOLEAN /\ failed \in BOOLEAN

Init ==
    /\ kind \in Kinds
    /\ owner = "new" /\ closes = 0 /\ threadpool = FALSE /\ sock_fd_ = "none"
    /\ clients_idx_ = {} /\ sock = [c \in Conns |-> "new"]
    /\ stop_remove_clients_task_ = FALSE /\ remover = "none"
    /\ client_mtx = "free" /\ subscribers_mtx = "free"
    /\ queue = <<>> /\ submitted = 0
    /\ at = [w \in Workers |-> "idle"] /\ job = [w \in Workers |-> NoTask]
    /\ busy = FALSE /\ touched = FALSE /\ stolen = FALSE /\ failed = FALSE

(* Which members are left: ~RPCServer destroys handlers_ after its         *)
(* close(), ~TcpServer the maps and mutexes after the last one, and        *)
(* threadpool, which is declared first, at the very end.                   *)
DerivedAlive == kind = "RPCServer" => closes = 0
BaseAlive == owner \notin {"pool", "gone"}

Outstanding == queue # <<>> \/ \E w \in Workers : at[w] # "idle"

-----------------------------------------------------------------------------
(* start(): the remover first, if remove_dead_client_auto says so, then    *)
(* the socket; a failure leaves no pool, and perhaps a socket.             *)
SocketLeft == {"none", "server"}

start ==
    /\ owner = "new"
    /\ owner' = "running"
    /\ \E remove_dead_client_auto \in BOOLEAN :
         remover' = IF remove_dead_client_auto THEN "check" ELSE "none"
    /\ \/ threadpool' = TRUE /\ sock_fd_' = "server"
       \/ UNCHANGED threadpool /\ sock_fd_' \in SocketLeft
    /\ UNCHANGED <<kind, closes, clientVars, stop_remove_clients_task_,
                   client_mtx, poolVars, historyVars>>

(* run(): a connection is accepted, or a receive task submitted ...        *)
accept_client(c) ==
    /\ owner = "running" /\ threadpool
    /\ sock[c] = "new"
    /\ client_mtx = "free"
    /\ sock' = [sock EXCEPT ![c] = "open"]
    /\ clients_idx_' = clients_idx_ \cup {c}
    /\ UNCHANGED <<kind, ownerVars, removerVars, poolVars, historyVars>>

handle_et_event(c) ==
    /\ owner = "running" /\ threadpool
    /\ sock[c] = "open"
    /\ submitted < MaxTasks
    /\ submitted' = submitted + 1
    /\ queue' = Append(queue, [kind |-> "receive", conn |-> c])
    /\ UNCHANGED <<kind, ownerVars, clientVars, removerVars, at, job,
                   subscribers_mtx, historyVars>>

(* ... until epoll_wait or accept fails (at once after a failed start, on  *)
(* an uninitialised epoll_fd), and the server is destroyed.                *)
RunEnds ==
    /\ owner = "running"
    /\ owner' = "stop"
    /\ UNCHANGED <<kind, closes, threadpool, sock_fd_, clientVars, removerVars,
                   poolVars, historyVars>>

-----------------------------------------------------------------------------
(* close(): terminate_dead_clients_remover ...                             *)
StopRemoverForgets == UNCHANGED stop_remove_clients_task_

StopRemover == stop_remove_clients_task_' = TRUE

JoinRemoverLater == UNCHANGED remover

JoinRemover == remover = "returned" /\ remover' = "none"

terminate_dead_clients_remover ==
    /\ \/ /\ owner = "stop" /\ remover = "none"
          /\ owner' = "clients"
          /\ UNCHANGED <<stop_remove_clients_task_, remover>>
       \/ /\ owner = "stop" /\ remover # "none"
          /\ StopRemover
          /\ owner' = "join"
          /\ UNCHANGED remover
       \/ /\ owner = "join"
          /\ JoinRemover
          /\ owner' = "clients"
          /\ UNCHANGED stop_remove_clients_task_
    /\ UNCHANGED <<kind, closes, threadpool, sock_fd_, clientVars, client_mtx,
                   poolVars, historyVars>>

(* ... the connections, in the order of the map and under client_mtx; the  *)
(* first Client::close that throws ends close(), and one that throws has   *)
(* released its descriptor all the same ...                                *)
ToCloseAlive == {c \in clients_idx_ : sock[c] = "open"}

ToClose == clients_idx_

CloseClients ==
    /\ owner = "clients"
    /\ client_mtx = "free"
    /\ \/ /\ \A c \in ToClose : sock[c] # "closed"
          /\ sock' = [c \in Conns |-> IF c \in ToClose THEN "closed" ELSE sock[c]]
          /\ clients_idx_' = {}
          /\ owner' = "listen"
          /\ UNCHANGED failed
       \/ /\ \E before \in SUBSET clients_idx_ : \E c \in clients_idx_ \ before :
               /\ \A b \in before : sock[b] # "closed"
               /\ sock' = [b \in Conns |-> IF b \in before \cup {c} THEN "closed" ELSE sock[b]]
          /\ owner' = "closed"
          /\ failed' = TRUE
          /\ UNCHANGED clients_idx_
    /\ UNCHANGED <<kind, closes, threadpool, sock_fd_, removerVars, poolVars,
                   busy, touched, stolen>>

(* ... and the listening descriptor, by its number.                        *)
CloseListening ==
    /\ owner = "listen"
    /\ sock_fd_' = IF sock_fd_ = "none" THEN "none" ELSE "free"
    /\ stolen' = (stolen \/ sock_fd_ = "other")
    /\ owner' = "closed"
    /\ UNCHANGED <<kind, closes, threadpool, clientVars, removerVars, poolVars,
                   busy, touched, failed>>

(* The members go that belong to the class whose destructor called close() *)
DestroyMembers ==
    /\ owner = "closed"
    /\ closes' = closes + 1
    /\ owner' = IF kind = "RPCServer" /\ closes = 0 THEN "stop" ELSE "pool"
    /\ busy' = (busy \/ Outstanding)
    /\ UNCHANGED <<kind, threadpool, sock_fd_, clientVars, removerVars, poolVars,
                   touched, stolen, failed>>

(* ... and in the end ~ThreadPool, which has every queued task executed.   *)
DestroyPool ==
    /\ owner = "pool"
    /\ threadpool => ~Outstanding
    /\ owner' = "gone"
    /\ UNCHANGED <<kind, closes, threadpool, sock_fd_, clientVars, removerVars,
                   poolVars, historyVars>>

(* Another part of the process opens a file or a socket.                   *)
OtherOpens ==
    /\ sock_fd_ = "free"
    /\ sock_fd_' = "other"
    /\ UNCHANGED <<kind, owner, closes, threadpool, clientVars, removerVars,
                   poolVars, historyVars>>

-----------------------------------------------------------------------------
(* remove_dead_clients.                                                    *)
Touch(alive) == touched' = (touched \/ ~alive)

RemoverChecks ==
    /\ remover \in {"check", "asleep"}
    /\ \/ /\ stop_remove_clients_task_
          /\ remover' = "returned"
          /\ UNCHANGED client_mtx
       \/ /\ ~stop_remove_clients_task_ /\ client_mtx = "free"
          /\ remover' = "pass" /\ client_mtx' = "remover"
    /\ Touch(BaseAlive)
    /\ UNCHANGED clientVars

RemoverRemoves ==
    /\ remover = "pass"
    /\ LET dead == {c \in clients_idx_ : sock[c] = "dead"}
       IN /\ clients_idx_' = clients_idx_ \ dead
          /\ sock' = [c \in Conns |-> IF c \in dead THEN "closed" ELSE sock[c]]
    /\ remover' = "asleep" /\ client_mtx' = "free"
    /\ Touch(BaseAlive)

(* Client::close throws, nothing in the thread catches it: std::terminate. *)
RemoverThrows ==
    /\ remover = "pass"
    /\ \E c \in clients_idx_ : sock[c] = "dead"
    /\ remover' = "terminated"
    /\ Touch(BaseAlive)
    /\ UNCHANGED <<clientVars, client_mtx>>

remove_dead_clients ==
    /\ RemoverChecks \/ RemoverRemoves \/ RemoverThrows
    /\ UNCHANGED <<kind, ownerVars, stop_remove_clients_task_, poolVars,
                   busy, stolen, failed>>

-----------------------------------------------------------------------------
(* The workers.                                                            *)
Goto(w, place) == at' = [at EXCEPT ![w] = place]

TakeTask(w) ==
    /\ at[w] = "idle"
    /\ queue # <<>>
    /\ job' = [job EXCEPT ![w] = Head(queue)]
    /\ queue' = Tail(queue)
    /\ Goto(w, Head(queue).kind)
    /\ UNCHANGED <<sock, subscribers_mtx, touched>>

(* receive_data reads data or finds the connection lost, and makes the     *)
(* virtual call: TcpServer's own function once ~RPCServer is over.         *)
receive_data(w) ==
    /\ at[w] = "receive"
    /\ \E found \in {"same", "dead"} :
         sock' = [sock EXCEPT ![job[w].conn] =
                    IF found = "dead" /\ @ = "open" THEN "dead" ELSE @]
    /\ Goto(w, IF kind = "RPCServer" /\ DerivedAlive THEN "call" ELSE "publish")
    /\ UNCHANGED <<queue, job, subscribers_mtx, touched>>

(* RPCServer::publish_client_msg uses handlers_ and submits the answer     *)
(* (publish_client_disconnected, or no request: nothing is submitted).     *)
AnswerTask(c) == [kind |-> "respond", conn |-> c]

CallHandler(w) ==
    /\ at[w] = "call"
    /\ queue' \in {queue, Append(queue, AnswerTask(job[w].conn))}
    /\ Goto(w, "idle")
    /\ Touch(DerivedAlive)
    /\ UNCHANGED <<sock, job, subscribers_mtx>>

Respond(w) ==
    /\ at[w] = "respond"
    /\ Goto(w, "idle")
    /\ Touch(BaseAlive)
    /\ UNCHANGED <<sock, queue, job, subscribers_mtx>>

(* TcpServer::publish_client_msg and publish_client_disconnected, up to    *)
(* the handler, which runs under subscribers_mtx, and which calls back or  *)
(* does not ...                                                            *)
publish_client_msg(w) ==
    /\ at[w] = "publish"
    /\ subscribers_mtx = "free"
    /\ subscribers_mtx' = w
    /\ Goto(w, "handler") \/ Goto(w, "calling")
    /\ Touch(BaseAlive)
    /\ UNCHANGED <<sock, queue, job>>

(* ... and returns; a call back needs client_mtx.                          *)
HandlerReturns(w) ==
    /\ \/ at[w] = "handler"
       \/ at[w] = "calling" /\ client_mtx = "free"
    /\ subscribers_mtx' = "free"
    /\ Goto(w, "idle")
    /\ Touch(BaseAlive)
    /\ UNCHANGED <<sock, queue, job>>

Worker(w) ==
    /\ \/ TakeTask(w) \/ receive_data(w) \/ CallHandler(w) \/ Respond(w)
       \/ publish_client_msg(w) \/ HandlerReturns(w)
    /\ UNCHANGED <<kind, ownerVars, clients_idx_, removerVars, submitted,
                   busy, stolen, failed>>

-----------------------------------------------------------------------------
Run == (\E c \in Conns : accept_client(c) \/ handle_et_event(c)) \/ RunEnds

Destroy == terminate_dead_clients_remover \/ CloseClients \/ CloseListening
             \/ DestroyMembers \/ DestroyPool

(* The process has died in the remover's thread.                           *)
Terminated == remover = "terminated"

Over == (owner = "gone" \/ Terminated) /\ UNCHANGED vars

Next == \/ /\ ~Terminated
           /\ \/ start \/ Run \/ Destroy \/ OtherOpens \/ remove_dead_clients
              \/ \E w \in Workers : Worker(w)
        \/ Over

Spec == Init /\ [][Next]_vars

(* The destructor, the remover (it sleeps for two seconds) and the workers *)
(* keep running; the mutexes are held for bounded times, and the tasks     *)
(* that could take them again and again are finitely many.                 *)
Fairness ==
    /\ WF_vars(~Terminated /\ Destroy)
    /\ WF_vars(~Terminated /\ remove_dead_clients)
    /\ \A w \in Workers : WF_vars(~Terminated /\ Worker(w))

FairSpec == Spec /\ Fairness

-----------------------------------------------------------------------------
(* A server destroyed while no task is queued or running never uses a      *)
(* destroyed member: the remover is joined before the map it iterates over *)
(* is gone, whether or not start() succeeded.                              *)
QuietDestructionIsSafe == touched => busy

(* The number in sock_fd_ is closed while it may belong to somebody else   *)
(* only by the second close(), the one of ~TcpServer after ~RPCServer's.   *)
FirstCloseIsOwn == stolen => kind = "RPCServer" /\ closes > 0

(* A destroyed server has closed its listening socket, also one whose      *)
(* start() failed half way, and every connection it accepted, unless       *)
(* closing one of them threw.                                              *)
DestroyedReleasesSockets ==
    owner = "gone" /\ ~failed =>
        sock_fd_ # "server" /\ \A c \in Conns : sock[c] \in {"new", "closed"}

(* Nothing is closed that is not the server's, and nothing of it is left.  *)
SocketsAreReleased == TypeOK /\ FirstCloseIsOwn /\ DestroyedReleasesSockets

(* The destructor returns: whoever holds client_mtx or subscribers_mtx,    *)
(* and in whatever place the remover is when it is told to stop, unless    *)
(* the process dies of a Client::close that throws there.                  *)
DestructorReturns == owner \notin {"new", "running"} ~> owner = "gone" \/ Terminated

=============================================================================
