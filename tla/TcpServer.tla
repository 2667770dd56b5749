------------------------------ MODULE TcpServer ------------------------------
(***************************************************************************)
(* The running server: TcpServer's event loop and dead-client remover, the *)
(* Client objects, and the two kinds of task RPCServer runs on the thread  *)
(* pool (src/net/TcpServer.cpp, src/net/Client.cpp, src/rpc/RPCServer.cpp, *)
(* src/rpc/RPCSession.cpp).  The pool is used as TaskExecutor promises:    *)
(* tasks start in the order of their submission, on any idle worker.       *)
(*                                                                         *)
(* The kernel is modelled from how the code uses it: a descriptor is freed *)
(* by ::close and given to a later connection by accept; a connection is   *)
(* registered edge-triggered and one-shot, so its event is reported once   *)
(* and then nothing until EPOLL_CTL_MOD arms the descriptor again, which   *)
(* looks at the socket anew; the listening socket is edge-triggered only.  *)
(*                                                                         *)
(* Requests are abstracted to units of unread data; what a frame holds and *)
(* how it is answered is the subject of RpcExchange.                       *)
(***************************************************************************)
EXTENDS Naturals, Sequences, FiniteSets

CONSTANTS Conns,          \* TCP connections, each with the Client made for it
          Fds,            \* descriptors accept() can return
          ListenFd,       \* sock_fd_, the listening socket
          Workers,        \* threads of the pool
          MaxUnits,       \* bound: units of data a peer sends
          SlotReads,      \* what a read of a dangling reference may yield
          HandlerResults, \* how handling a message may end
          SendResults,    \* how ::send may end
          CloseResults,   \* how ::close may end
          AutoRemove,     \* the values start() may get for remove_dead_client_auto
          Pieces,         \* the units ::send may split a response into
          NoConn,         \* clients_idx_ has no entry
          NullConn,       \* clients_idx_ has an entry holding a null pointer
          NoFd

ASSUME FdsAssumption ==
    IsFiniteSet(Fds) /\ ListenFd \notin Fds /\ NoFd \notin Fds \cup {ListenFd}
ASSUME WorkersAssumption == {"absent", "free"} \cap Workers = {}
ASSUME ConnsAssumption == NoConn # NullConn /\ {NoConn, NullConn} \cap Conns = {}
ASSUME MaxUnitsAssumption == MaxUnits \in Nat
(* "own": the stack slot still holds what the task captured; "latest": the *)
(* event loop has reused the slot for a later event.                       *)
ASSUME SlotReadsAssumption == SlotReads \in (SUBSET {"own", "latest"}) \ {{}}
ASSUME HandlerAssumption == HandlerResults \subseteq {"drop", "respond", "throw"}
ASSUME SendAssumption == SendResults \subseteq {"sent", "failed"}
ASSUME CloseAssumption == CloseResults \subseteq {"closed", "failed"}
ASSUME AutoRemoveAssumption == AutoRemove \subseteq BOOLEAN
ASSUME PiecesAssumption == Pieces \in Nat \ {0}

VARIABLES
    sock,              \* sock[c]: the kernel's view of connection c
    fd,                \* fd[c]: Client::sock_fd_ of c's Client
    unread,            \* unread[c]: data received and not yet read
    supplied,          \* supplied[c]: data the peer has sent so far
    eof,               \* eof[c]: the peer has closed its end
    wire,              \* wire[c]: the clients whose responses were put on c
    interest,          \* interest[f]: the registration of f in epoll_fd
    ready,             \* epoll_fd's ready list
    backlog,           \* connections waiting for accept()
    connected,         \* connected[c]: Client::is_connected_
    clients_idx_,      \* TcpServer::clients_idx_
    client_write_mtx_, \* TcpServer::client_write_mtx_
    loop,              \* where TcpServer::run is
    events_,           \* the events handle_et_event has not reached yet
    slot,              \* the stack slots of handle_et_event's locals
    queue,             \* the pool's queue
    at,                \* at[w]: where worker w is in its task
    job,               \* job[w]: the task of worker w
    cur,               \* cur[w]: the Client worker w operates on
    got,               \* got[w]: receive_data has read some data
    left,              \* left[w]: what writeFixSize has still to write
    remover,           \* where remove_dead_clients is
    victim,            \* the descriptor it is removing
    threw,             \* threw[c]: handling a message of c ended in an exception
    crossed,           \* history: the connections whose events met another Client
    crashed            \* the process has died

kernelVars == <<sock, fd, unread, supplied, eof, wire, interest, ready, backlog>>
mapVars == <<connected, clients_idx_, client_write_mtx_>>
loopVars == <<loop, events_, slot>>
poolVars == <<queue, at, job, cur, got, left>>
removerVars == <<remover, victim>>
faultVars == <<threw, crossed, crashed>>

vars == <<kernelVars, mapVars, loopVars, poolVars, removerVars, faultVars>>

ReceiveTask(c, f) == [kind |-> "receive", client |-> c, fd |-> f]
SendTask(c) == [kind |-> "send", client |-> c, fd |-> NoFd]
NoTask == [kind |-> "none", client |-> NoConn, fd |-> NoFd]

Entries == Conns \cup {NoConn, NullConn}

Jobs == [kind : {"none", "receive", "send"}, client : Entries, fd : Fds \cup {NoFd}]

Readable(c) == unread[c] > 0 \/ eof[c]

(* The connections open on descriptor f: at most one.                      *)
OpenOn(f) == {c \in Conns : sock[c] = "open" /\ fd[c] = f}

FreeFds == {f \in Fds : OpenOn(f) = {}}

TypeOK ==
    /\ sock \in [Conns -> {"new", "pending", "open", "closed"}]
    /\ fd \in [Conns -> Fds \cup {NoFd}]
    /\ unread \in [Conns -> 0 .. MaxUnits]
    /\ supplied \in [Conns -> 0 .. MaxUnits]
    /\ eof \in [Conns -> BOOLEAN]
    /\ wire \in [Conns -> SUBSET Conns]
    /\ interest \in [Fds -> {"none", "armed", "disarmed"}]
    /\ ready \in SUBSET (Fds \cup {ListenFd})
    /\ backlog \in Seq(Conns)
    /\ connected \in [Conns -> BOOLEAN]
    /\ clients_idx_ \in [Fds -> Entries]
    /\ client_write_mtx_ \in [Fds -> {"absent", "free"} \cup Workers]
    /\ loop \in {"dispatch", "insert", "submit", "thrown"}
    /\ events_ \in Seq(Fds \cup {ListenFd})
    /\ slot \in [client : Entries, fd : Fds \cup {NoFd}]
    /\ queue \in Seq(Jobs)
    /\ at \in [Workers -> {"idle", "start", "check", "recv", "publish",
                           "rearm", "lock", "write", "send"}]
    /\ job \in [Workers -> Jobs]
    /\ cur \in [Workers -> Conns \cup {NoConn}]
    /\ got \in [Workers -> BOOLEAN]
    /\ left \in [Workers -> 0 .. Pieces]
    /\ remover \in {"off", "asleep", "scan", "eraseMtx", "eraseIdx"}
    /\ victim \in Fds \cup {NoFd}
    /\ threw \in [Conns -> BOOLEAN]
    /\ crossed \in SUBSET Conns
    /\ crashed \in BOOLEAN

(* After TcpServer::start: listening, nobody connected, the workers        *)
(* started, and the remover if remove_dead_client_auto says so.            *)
Init ==
    /\ sock = [c \in Conns |-> "new"]
    /\ fd = [c \in Conns |-> NoFd]
    /\ unread = [c \in Conns |-> 0]
    /\ supplied = [c \in Conns |-> 0]
    /\ eof = [c \in Conns |-> FALSE]
    /\ wire = [c \in Conns |-> {}]
    /\ interest = [f \in Fds |-> "none"]
    /\ ready = {}
    /\ backlog = <<>>
    /\ connected = [c \in Conns |-> FALSE]
    /\ clients_idx_ = [f \in Fds |-> NoConn]
    /\ client_write_mtx_ = [f \in Fds |-> "absent"]
    /\ loop = "dispatch"
    /\ events_ = <<>>
    /\ slot = [client |-> NoConn, fd |-> NoFd]
    /\ queue = <<>>
    /\ at = [w \in Workers |-> "idle"]
    /\ job = [w \in Workers |-> NoTask]
    /\ cur = [w \in Workers |-> NoConn]
    /\ got = [w \in Workers |-> FALSE]
    /\ left = [w \in Workers |-> 0]
    /\ \E auto \in AutoRemove : remover = IF auto THEN "asleep" ELSE "off"
    /\ victim = NoFd
    /\ threw = [c \in Conns |-> FALSE]
    /\ crossed = {}
    /\ crashed = FALSE

(* The process dies: a null pointer is dereferenced, or an exception       *)
(* leaves a thread's function (std::terminate).                            *)
Crash ==
    /\ crashed' = TRUE
    /\ UNCHANGED <<kernelVars, mapVars, loopVars, poolVars, removerVars, threw, crossed>>

-----------------------------------------------------------------------------
(* The peers and the network.                                              *)

(* New input on an armed descriptor puts it on the ready list.             *)
Edge(c) ==
    ready' = IF sock[c] = "open" /\ interest[fd[c]] = "armed"
             THEN ready \cup {fd[c]}
             ELSE ready

PeerConnects(c) ==
    /\ sock[c] = "new"
    /\ sock' = [sock EXCEPT ![c] = "pending"]
    /\ backlog' = Append(backlog, c)
    /\ ready' = ready \cup {ListenFd}
    /\ UNCHANGED <<fd, unread, supplied, eof, wire, interest,
                   mapVars, loopVars, poolVars, removerVars, faultVars>>

PeerSends(c) ==
    /\ sock[c] \in {"pending", "open"}
    /\ ~eof[c]
    /\ supplied[c] < MaxUnits
    /\ supplied' = [supplied EXCEPT ![c] = @ + 1]
    /\ unread' = [unread EXCEPT ![c] = @ + 1]
    /\ Edge(c)
    /\ UNCHANGED <<sock, fd, eof, wire, interest, backlog,
                   mapVars, loopVars, poolVars, removerVars, faultVars>>

PeerCloses(c) ==
    /\ sock[c] \in {"pending", "open"}
    /\ ~eof[c]
    /\ eof' = [eof EXCEPT ![c] = TRUE]
    /\ Edge(c)
    /\ UNCHANGED <<sock, fd, unread, supplied, wire, interest, backlog,
                   mapVars, loopVars, poolVars, removerVars, faultVars>>

-----------------------------------------------------------------------------
(* TcpServer::run, one thread.                                             *)

(* epoll_wait reports everything on the ready list that still has input;   *)
(* the one-shot descriptors among them are disarmed.                       *)
HasInput(f) == f = ListenFd \/ \E c \in OpenOn(f) : Readable(c)

DisarmNone(batch) == interest

Disarm(batch) == [f \in Fds |-> IF f \in batch THEN "disarmed" ELSE interest[f]]

EpollWait ==
    /\ loop = "dispatch"
    /\ events_ = <<>>
    /\ LET batch == {f \in ready : HasInput(f)}
       IN /\ batch # {}
          /\ events_' \in {s \in [1 .. Cardinality(batch) -> batch] :
                             \A i, j \in DOMAIN s : s[i] = s[j] => i = j}
          /\ interest' = Disarm(batch)
    /\ ready' = {}
    /\ UNCHANGED <<sock, fd, unread, supplied, eof, wire, backlog,
                   mapVars, loop, slot, poolVars, removerVars, faultVars>>

(* handle_et_event goes on with the next event.                            *)
NoneAfterThis == <<>>

NextEvents == Tail(events_)

(* A pass of the remover holds client_mtx from its first find_if to the    *)
(* last; everybody else holds it for less than a step of the model.        *)
AnyClientMtx == TRUE

ClientMtxFree == remover \in {"off", "asleep"}

(* An event of the descriptor, or the receive task made for one, is still  *)
(* under way.                                                              *)
HandledBySomeone(f) ==
    \/ \E i \in 1 .. Len(events_) : events_[i] = f
    \/ \E i \in 1 .. Len(queue) : queue[i].kind = "receive" /\ queue[i].fd = f
    \/ \E w \in Workers : job[w].kind = "receive" /\ job[w].fd = f

(* accept_client up to the lock of client_mtx: one accept() per event, a   *)
(* Client for it, add_fd.  A descriptor that comes back while an event of  *)
(* its last connection is under way crosses the new connection with it.    *)
AcceptClient ==
    /\ loop = "dispatch"
    /\ events_ # <<>>
    /\ Head(events_) = ListenFd
    /\ backlog # <<>>
    /\ \E f \in FreeFds :
         LET c == Head(backlog)
         IN /\ sock' = [sock EXCEPT ![c] = "open"]
            /\ fd' = [fd EXCEPT ![c] = f]
            /\ connected' = [connected EXCEPT ![c] = TRUE]
            /\ interest' = [interest EXCEPT ![f] = "armed"]
            /\ ready' = IF Readable(c) THEN ready \cup {f} ELSE ready
            /\ crossed' = IF HandledBySomeone(f) \/ clients_idx_[f] = NullConn
                          THEN crossed \cup {c} ELSE crossed
    /\ loop' = "insert"
    /\ UNCHANGED <<unread, supplied, eof, wire, backlog, clients_idx_,
                   client_write_mtx_, events_, slot, poolVars, removerVars,
                   threw, crashed>>

(* ... and the rest of it: insert() leaves an existing entry alone.        *)
InsertClient ==
    /\ loop = "insert"
    /\ ClientMtxFree
    /\ LET c == Head(backlog)
       IN clients_idx_' = [clients_idx_ EXCEPT
                             ![fd[c]] = IF @ = NoConn THEN c ELSE @]
    /\ backlog' = Tail(backlog)
    /\ events_' = NextEvents
    /\ loop' = "dispatch"
    /\ UNCHANGED <<sock, fd, unread, supplied, eof, wire, interest, ready,
                   connected, client_write_mtx_, slot,
                   poolVars, removerVars, faultVars>>

(* accept() fails: the exception leaves handle_et_event and run.           *)
AcceptThrows ==
    /\ loop = "dispatch"
    /\ events_ # <<>>
    /\ Head(events_) = ListenFd
    /\ backlog = <<>> \/ FreeFds = {}
    /\ loop' = "thrown"
    /\ UNCHANGED <<kernelVars, mapVars, events_, slot,
                   poolVars, removerVars, faultVars>>

(* handle_et_event, a readable connection: clients_idx_[file_desc], which  *)
(* makes a null entry where there was none, into the local variables.      *)
LookupClient ==
    /\ loop = "dispatch"
    /\ events_ # <<>>
    /\ Head(events_) \in Fds
    /\ LET f == Head(events_)
           c == IF clients_idx_[f] = NoConn THEN NullConn ELSE clients_idx_[f]
       IN /\ clients_idx_' = [clients_idx_ EXCEPT ![f] = c]
          /\ slot' = [client |-> c, fd |-> f]
    /\ loop' = "submit"
    /\ UNCHANGED <<kernelVars, connected, client_write_mtx_, events_,
                   poolVars, removerVars, faultVars>>

(* ... the write mutex of the descriptor, and the receive task.            *)
FreshMutex(f) == "free"

WriteMutex(f) ==
    IF client_write_mtx_[f] = "absent" THEN "free" ELSE client_write_mtx_[f]

SubmitReceive ==
    /\ loop = "submit"
    /\ client_write_mtx_' = [client_write_mtx_ EXCEPT ![slot.fd] = WriteMutex(slot.fd)]
    /\ queue' = Append(queue, ReceiveTask(slot.client, slot.fd))
    /\ events_' = NextEvents
    /\ loop' = "dispatch"
    /\ UNCHANGED <<kernelVars, connected, clients_idx_, slot,
                   at, job, cur, got, left, removerVars, faultVars>>

-----------------------------------------------------------------------------
(* The workers.                                                            *)

TakeTask(w) ==
    /\ at[w] = "idle"
    /\ queue # <<>>
    /\ job' = [job EXCEPT ![w] = Head(queue)]
    /\ queue' = Tail(queue)
    /\ at' = [at EXCEPT ![w] = IF Head(queue).kind = "receive"
                               THEN "start" ELSE "lock"]
    /\ cur' = [cur EXCEPT ![w] = IF Head(queue).kind = "receive"
                                 THEN NoConn ELSE Head(queue).client]
    /\ got' = [got EXCEPT ![w] = FALSE]
    /\ UNCHANGED <<kernelVars, mapVars, loopVars, left, removerVars, faultVars>>

(* The receive task holds references to the event loop's locals.           *)
SlotClients(w) == {job[w].client : r \in SlotReads \cap {"own"}}
                    \cup {slot.client : r \in SlotReads \cap {"latest"}}

SlotFds(w) == {job[w].fd : r \in SlotReads \cap {"own"}}
                \cup {slot.fd : r \in SlotReads \cap {"latest"}}

Goto(w, place) == at' = [at EXCEPT ![w] = place]

EndTask(w) ==
    /\ Goto(w, "idle")
    /\ job' = [job EXCEPT ![w] = NoTask]
    /\ cur' = [cur EXCEPT ![w] = NoConn]
    /\ left' = [left EXCEPT ![w] = 0]

(* client->receive_data(): the call reads the reference to `client'.  A    *)
(* task that finds another Client there crosses the two.                   *)
StartReceive(w) ==
    /\ at[w] = "start"
    /\ \E c \in SlotClients(w) :
         \/ /\ c \in Conns
            /\ cur' = [cur EXCEPT ![w] = c]
            /\ crossed' = IF c = job[w].client THEN crossed
                          ELSE crossed \cup ({job[w].client, c} \cap Conns)
            /\ Goto(w, "check")
            /\ UNCHANGED <<kernelVars, mapVars, loopVars, queue, job, got, left,
                           removerVars, threw, crashed>>
         \/ c \notin Conns /\ Crash

(* while (is_connected()): a client found disconnected ends the loop, and  *)
(* receive_data returns true.                                              *)
CheckConnected(w) ==
    /\ at[w] = "check"
    /\ Goto(w, IF connected[cur[w]] THEN "recv" ELSE "rearm")
    /\ UNCHANGED <<kernelVars, mapVars, loopVars, queue, job, cur, got, left,
                   removerVars, faultVars>>

(* set_connected(false), publish DISCONNECTED, return false: the task ends *)
(* without arming the descriptor.                                          *)
Disconnect(w) ==
    /\ connected' = [connected EXCEPT ![cur[w]] = FALSE]
    /\ EndTask(w)
    /\ UNCHANGED <<kernelVars, clients_idx_, client_write_mtx_, loopVars,
                   queue, got, removerVars, faultVars>>

(* ::recv on whatever is open on the descriptor now.                       *)
RecvData(w) ==
    /\ at[w] = "recv"
    /\ \E c \in OpenOn(fd[cur[w]]) :
         /\ unread[c] > 0
         /\ unread' = [unread EXCEPT ![c] = 0]
         /\ got' = [got EXCEPT ![w] = TRUE]
         /\ Goto(w, "check")
         /\ UNCHANGED <<sock, fd, supplied, eof, wire, interest, ready, backlog,
                        mapVars, loopVars, queue, job, cur, left,
                        removerVars, faultVars>>

(* EAGAIN: everything has been read.  A Client found disconnected inside   *)
(* recv() returns -1 with an old errno, which may be EAGAIN too.           *)
RecvDrained(w) ==
    /\ at[w] = "recv"
    /\ \/ ~connected[cur[w]]
       \/ \E c \in OpenOn(fd[cur[w]]) : ~Readable(c)
    /\ Goto(w, "publish")
    /\ UNCHANGED <<kernelVars, mapVars, loopVars, queue, job, cur, got, left,
                   removerVars, faultVars>>

(* 0, or an error: the peer has closed, the descriptor is not open, or the *)
(* old errno of a Client found disconnected.                               *)
RecvFails(w) ==
    /\ at[w] = "recv"
    /\ \/ ~connected[cur[w]]
       \/ OpenOn(fd[cur[w]]) = {}
       \/ \E c \in OpenOn(fd[cur[w]]) : unread[c] = 0 /\ eof[c]
    /\ Disconnect(w)

(* RPCServer::publish_client_msg: the message is dropped (incomplete, bad  *)
(* magic, no request), answered by a task of its own if the client is      *)
(* still connected, or its handling throws and the receive task is over.   *)
AfterMsgOver == "idle"

AfterMsg == "rearm"

PublishMsg(w) ==
    /\ at[w] = "publish"
    /\ \/ /\ "drop" \in HandlerResults \/ ~got[w]
          /\ Goto(w, AfterMsg)
          /\ UNCHANGED <<queue, job, cur, left, threw>>
       \/ /\ "respond" \in HandlerResults /\ got[w]
          /\ queue' = IF connected[cur[w]] THEN Append(queue, SendTask(cur[w]))
                                           ELSE queue
          /\ Goto(w, AfterMsg)
          /\ UNCHANGED <<job, cur, left, threw>>
       \/ /\ "throw" \in HandlerResults /\ got[w]
          /\ threw' = [threw EXCEPT ![cur[w]] = TRUE]
          /\ EndTask(w)
          /\ UNCHANGED queue
    /\ UNCHANGED <<kernelVars, mapVars, loopVars, got, removerVars, crossed, crashed>>

(* reset_oneshot(file_desc), again through the reference; epoll_ctl fails  *)
(* silently when nothing is open on the descriptor.  Arming another        *)
(* descriptor crosses its connection with the task's own.                  *)
Rearm(w) ==
    /\ at[w] = "rearm"
    /\ \E f \in SlotFds(w) :
         /\ interest' = [interest EXCEPT ![f] = IF f \in FreeFds THEN @ ELSE "armed"]
         /\ ready' = IF f \notin FreeFds /\ HasInput(f) THEN ready \cup {f} ELSE ready
         /\ crossed' = IF f = job[w].fd THEN crossed
                       ELSE crossed \cup ({job[w].client} \cap Conns) \cup OpenOn(f)
    /\ EndTask(w)
    /\ UNCHANGED <<sock, fd, unread, supplied, eof, wire, backlog,
                   mapVars, loopVars, queue, got, removerVars, threw, crashed>>

(* The response task: a lock_guard on client_write_mtx_[fd].  A missing entry *)
(* is created holding a null pointer.                                      *)
LockWrite(w) ==
    /\ at[w] = "lock"
    /\ LET f == fd[cur[w]]
       IN \/ /\ client_write_mtx_[f] = "free"
             /\ client_write_mtx_' = [client_write_mtx_ EXCEPT ![f] = w]
             /\ left' = [left EXCEPT ![w] = Pieces]
             /\ Goto(w, "write")
             /\ UNCHANGED <<kernelVars, connected, clients_idx_, loopVars,
                            queue, job, cur, got, removerVars, faultVars>>
          \/ client_write_mtx_[f] = "absent" /\ Crash

Unlock(w) ==
    client_write_mtx_' = [client_write_mtx_ EXCEPT
                            ![fd[cur[w]]] = IF @ = w THEN "free" ELSE @]

(* RPCSession::write and Client::send look at is_connected() ...           *)
CheckWrite(w) ==
    /\ at[w] = "write"
    /\ connected[cur[w]]
    /\ Goto(w, "send")
    /\ UNCHANGED <<kernelVars, mapVars, loopVars, queue, job, cur, got, left,
                   removerVars, faultVars>>

(* ... ::send writes a part to whatever is open on the descriptor by then, *)
(* and writeFixSize comes back for the rest ...                            *)
SendData(w) ==
    /\ at[w] = "send"
    /\ "sent" \in SendResults
    /\ \E c \in OpenOn(fd[cur[w]]) :
         wire' = [wire EXCEPT ![c] = @ \cup {cur[w]}]
    /\ \/ /\ \E n \in 1 .. left[w] - 1 : left' = [left EXCEPT ![w] = @ - n]
          /\ Goto(w, "write")
          /\ UNCHANGED <<client_write_mtx_, job, cur>>
       \/ Unlock(w) /\ EndTask(w)
    /\ UNCHANGED <<sock, fd, unread, supplied, eof, interest, ready, backlog,
                   connected, clients_idx_, loopVars, queue, got,
                   removerVars, faultVars>>

(* ... and writeFixSize gives the connection up when either fails.         *)
SendFails(w) ==
    /\ \/ at[w] = "write" /\ ~connected[cur[w]]
       \/ /\ at[w] = "send"
          /\ "failed" \in SendResults \/ OpenOn(fd[cur[w]]) = {}
    /\ connected' = [connected EXCEPT ![cur[w]] = FALSE]
    /\ Unlock(w)
    /\ EndTask(w)
    /\ UNCHANGED <<kernelVars, clients_idx_, loopVars, queue, got,
                   removerVars, faultVars>>

-----------------------------------------------------------------------------
(* TcpServer::remove_dead_clients: a pass holds client_mtx from the first  *)
(* find_if until it finds nothing, then the thread sleeps.                 *)
RemoverWakes ==
    /\ remover = "asleep"
    /\ remover' = "scan"
    /\ UNCHANGED <<kernelVars, mapVars, loopVars, poolVars, victim, faultVars>>

AllFds == {f \in Fds : clients_idx_[f] \in Conns}

DeadFds == {f \in Fds : clients_idx_[f] \in Conns /\ ~connected[clients_idx_[f]]}

NullFds == {f \in Fds : clients_idx_[f] = NullConn}

(* find_if meets a disconnected client: Client::close.                     *)
LeaveSocketOpen(c, f) == UNCHANGED <<sock, interest, ready>>

CloseSocket(c, f) ==
    /\ sock' = [sock EXCEPT ![c] = "closed"]
    /\ interest' = [interest EXCEPT ![f] = "none"]
    /\ ready' = ready \ {f}

RemoverCloses ==
    /\ remover = "scan"
    /\ "closed" \in CloseResults
    /\ \E f \in DeadFds :
         LET c == clients_idx_[f]
         IN /\ victim' = f
            /\ connected' = [connected EXCEPT ![c] = FALSE]
            /\ CloseSocket(c, f)
    /\ remover' = "eraseMtx"
    /\ UNCHANGED <<fd, unread, supplied, eof, wire, backlog, clients_idx_,
                   client_write_mtx_, loopVars, poolVars, faultVars>>

(* Client::close throws, and nothing in the thread catches it.             *)
RemoverCloseThrows ==
    /\ remover = "scan"
    /\ DeadFds # {}
    /\ "failed" \in CloseResults
    /\ Crash

(* find_if meets a null entry first.                                       *)
RemoverMeetsNull ==
    /\ remover = "scan"
    /\ NullFds # {}
    /\ Crash

RemoverErasesMtx ==
    /\ remover = "eraseMtx"
    /\ client_write_mtx_' = [client_write_mtx_ EXCEPT ![victim] = "absent"]
    /\ remover' = "eraseIdx"
    /\ UNCHANGED <<kernelVars, connected, clients_idx_, loopVars, poolVars,
                   victim, faultVars>>

RemoverErasesIdx ==
    /\ remover = "eraseIdx"
    /\ clients_idx_' = [clients_idx_ EXCEPT ![victim] = NoConn]
    /\ remover' = "scan"
    /\ victim' = NoFd
    /\ UNCHANGED <<kernelVars, connected, client_write_mtx_, loopVars, poolVars,
                   faultVars>>

RemoverSleeps ==
    /\ remover = "scan"
    /\ DeadFds = {} /\ NullFds = {}
    /\ remover' = "asleep"
    /\ UNCHANGED <<kernelVars, mapVars, loopVars, poolVars, victim, faultVars>>

-----------------------------------------------------------------------------
(* The calls of TcpServer's users, which may come from any thread.  They   *)
(* take client_mtx, not the write mutexes, look at no is_connected_, and   *)
(* call ::send once for each client.                                       *)
SendTo(targets) ==
    /\ wire' = [c \in Conns |-> wire[c] \cup
                  {clients_idx_[f] : f \in {g \in targets : c \in OpenOn(fd[clients_idx_[g]])}}]
    /\ UNCHANGED <<sock, fd, unread, supplied, eof, interest, ready, backlog,
                   mapVars, loopVars, poolVars, removerVars, faultVars>>

(* send_to_client: the first client found with the address.                *)
send_to_client ==
    /\ ClientMtxFree
    /\ "sent" \in SendResults
    /\ \E f \in AllFds : SendTo({f})

(* send_to_all_clients: in the order of the map, up to the first failure.  *)
send_to_all_clients ==
    /\ ClientMtxFree
    /\ \E targets \in SUBSET AllFds :
         /\ targets = AllFds \/ "failed" \in SendResults
         /\ SendTo(targets)

(* Both, and printClients, call a method of every entry they come to.      *)
CallMeetsNull ==
    /\ ClientMtxFree
    /\ NullFds # {}
    /\ Crash

-----------------------------------------------------------------------------
Peer(c) == PeerConnects(c) \/ PeerSends(c) \/ PeerCloses(c)

Loop == EpollWait \/ AcceptClient \/ InsertClient \/ AcceptThrows
          \/ LookupClient \/ SubmitReceive

Worker(w) ==
    \/ TakeTask(w) \/ StartReceive(w) \/ CheckConnected(w)
    \/ RecvData(w) \/ RecvDrained(w) \/ RecvFails(w) \/ PublishMsg(w) \/ Rearm(w)
    \/ LockWrite(w) \/ CheckWrite(w) \/ SendData(w) \/ SendFails(w)

Remover == RemoverWakes \/ RemoverCloses \/ RemoverCloseThrows
             \/ RemoverMeetsNull \/ RemoverErasesMtx \/ RemoverErasesIdx \/ RemoverSleeps

Api == send_to_client \/ send_to_all_clients \/ CallMeetsNull

(* Nothing happens after a crash.                                          *)
Halted == crashed /\ UNCHANGED vars

Next ==
    \/ /\ ~crashed
       /\ \/ \E c \in Conns : Peer(c)
          \/ Loop
          \/ \E w \in Workers : Worker(w)
          \/ Remover
          \/ Api
    \/ Halted

Spec == Init /\ [][Next]_vars

(* Every thread of the server keeps running.  The remover sleeps for two   *)
(* seconds between passes and a response task holds its write mutex for    *)
(* one message, so a thread that waits for one of these mutexes gets it    *)
(* (strong fairness).  The peers may do nothing.                           *)
Fairness ==
    /\ WF_vars(~crashed /\ Loop) /\ SF_vars(~crashed /\ InsertClient)
    /\ \A w \in Workers :
          WF_vars(~crashed /\ Worker(w)) /\ SF_vars(~crashed /\ LockWrite(w))
    /\ WF_vars(~crashed /\ Remover)

FairSpec == Spec /\ Fairness

-----------------------------------------------------------------------------
InReceive(w, c) == at[w] \in {"check", "recv", "publish"} /\ cur[w] = c

(* "At any moment only one thread parses it" (TcpServer.h:125, one_shot):  *)
(* no two workers are in receive_data of the same Client.                  *)
OneThreadPerConnection ==
    \A v, w \in Workers, c \in Conns :
        InReceive(v, c) /\ InReceive(w, c) => v = w

(* What one_shot does achieve: as long as no receive task found another    *)
(* event's locals and the descriptor was not given away under a task, one  *)
(* thread at a time is in receive_data of a Client, whatever happens to    *)
(* the other connections.                                                  *)
OneThreadUnlessCrossed ==
    \A v, w \in Workers, c \in Conns \ crossed :
        InReceive(v, c) /\ InReceive(w, c) => v = w

(* No edge is lost between EPOLLONESHOT, receive_data's loop and           *)
(* reset_oneshot: a live connection with input is on the ready list, in    *)
(* the event loop's batch or in the hands of a receive task, unless the    *)
(* handling of a message threw (nothing arms the descriptor then), run()   *)
(* has ended, or the connection was crossed with another (its task arms    *)
(* the other's descriptor).  Failing sends and crossings elsewhere strand  *)
(* nobody.                                                                 *)
NoStrandedConnection ==
    \A c \in Conns \ crossed :
        /\ sock[c] = "open"
        /\ connected[c]
        /\ Readable(c)
        /\ ~threw[c]
        => fd[c] \in ready \/ HandledBySomeone(fd[c]) \/ loop = "thrown"

(* clients_idx_ has the Client of every open socket under its descriptor,  *)
(* across the removal of dead clients and the reuse of their descriptors,  *)
(* or the null entry that operator[] makes for an event of a connection    *)
(* removed meanwhile, which insert() leaves in the place of the crossed    *)
(* one.  It has no closed Client but the one the remover is erasing.       *)
IndexFollowsSockets ==
    /\ \A c \in Conns :
          sock[c] = "open" /\ ~(loop = "insert" /\ c = Head(backlog))
            => \/ clients_idx_[fd[c]] = c
               \/ clients_idx_[fd[c]] = NullConn /\ c \in crossed
    /\ \A f \in AllFds :
          sock[clients_idx_[f]] = "open" \/ (remover \in {"eraseMtx", "eraseIdx"} /\ f = victim)

(* "Send a message to the client" (Client.h:72): a response is written to  *)
(* the connection its request came on, and a message of send_to_client or  *)
(* send_to_all_clients to the client it was meant for, never to one that   *)
(* got the same descriptor later.                                          *)
AnswersStayOnTheirConnection == \A c \in Conns : wire[c] \subseteq {c}

(* What holds of it: only the answer to a peer whose socket is closed by   *)
(* now strays, and only to a later user of the same descriptor.            *)
StrayAnswersAreForTheDead ==
    \A c \in Conns : \A d \in wire[c] :
        d = c \/ (sock[d] = "closed" /\ fd[d] = fd[c])

Writing(w) == at[w] \in {"write", "send"}

(* The pieces of a response are written under the write mutex of the       *)
(* descriptor as long as the connection has not been given up: the         *)
(* remover, which erases the mutex of a dead connection, never takes away  *)
(* that of a later connection on the same descriptor.                      *)
LiveSenderHoldsWriteMutex ==
    \A w \in Workers :
        Writing(w) /\ connected[cur[w]] => client_write_mtx_[fd[cur[w]]] = w

(* What a response task relies on while descriptors are reused under it:   *)
(* every pointer it follows is a Client, it holds the mutex of a live one, *)
(* so that two responses never mix on a connection, and its bytes go       *)
(* elsewhere only when their own peer is gone.                             *)
ResponsesAreSafe ==
    TypeOK /\ LiveSenderHoldsWriteMutex /\ StrayAnswersAreForTheDead

Stopped == crashed \/ loop = "thrown"

(* A connection found dead is closed by the remover, sooner or later, if   *)
(* there is one.                                                           *)
DeadClientsAreRemoved ==
    \A c \in Conns :
        remover # "off" /\ sock[c] = "open" /\ ~connected[c]
          ~> sock[c] = "closed" \/ Stopped

(* Data that arrives on an open connection is read by some worker, unless  *)
(* the connection dies, the handling of a message of it throws or it was   *)
(* crossed with another.                                                   *)
InputIsRead ==
    \A c \in Conns :
        sock[c] = "open" /\ unread[c] > 0
          ~> unread[c] = 0 \/ ~connected[c] \/ threw[c] \/ c \in crossed \/ Stopped

(* The listening socket is edge-triggered and handle_et_event accepts once *)
(* per event: an edge that is still on the ready list gets the connection  *)
(* at the head of the backlog accepted, whatever else is in the batch.     *)
EdgeServesHead ==
    \A c \in Conns :
        backlog # <<>> /\ Head(backlog) = c /\ sock[c] = "pending" /\ ListenFd \in ready
          ~> sock[c] # "pending" \/ Stopped

=============================================================================
