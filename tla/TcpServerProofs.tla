--------------------------- MODULE TcpServerProofs ---------------------------
(***************************************************************************)
(* Proofs about TcpServer for any connections, descriptors and workers.    *)
(*                                                                         *)
(* BaseInv: which clients threads may know of, what clients_idx_ holds     *)
(* while the remover and accept_client are at the same descriptor, and     *)
(* that a live response has its mutex.                                     *)
(*                                                                         *)
(* WireInv: a socket's descriptor and its end are for ever, so bytes that  *)
(* go astray are those of a closed connection.                             *)
(*                                                                         *)
(* DispatchInv is what EPOLLONESHOT is for: a connection has one token,    *)
(* which is in the kernel (armed), in the event loop's batch, in the queue *)
(* or in the task of one worker.  Dangling references and reused           *)
(* descriptors break this for the connections they cross, and the          *)
(* invariant says that they break it for no other.                         *)
(***************************************************************************)
EXTENDS TcpServer, FiniteSetTheorems, SequenceTheorems, TLAPS

(* The clients that accept_client has put into clients_idx_: only such a   *)
(* Client is ever looked up, captured or operated on.                      *)
Inserting == IF loop = "insert" THEN {Head(backlog)} ELSE {}

Known == {c \in Conns : sock[c] \in {"open", "closed"}} \ Inserting

Open == {c \in Conns : sock[c] = "open"}

Live == {c \in Open : connected[c]}

SocketInv ==
    /\ \A c \in Conns : sock[c] \in {"open", "closed"} => fd[c] \in Fds
    /\ \A c \in Conns : connected[c] => sock[c] = "open"
    /\ \A c, d \in Conns : sock[c] = "open" /\ sock[d] = "open" /\ fd[c] = fd[d] => c = d

InputInv == \A c \in Conns : unread[c] <= supplied[c]

(* The backlog holds the connections that wait, and the one in the hands   *)
(* of accept_client until it is inserted.                                  *)
BacklogInv ==
    /\ \A i \in 1 .. Len(backlog) :
          sock[backlog[i]] = IF i = 1 /\ loop = "insert" THEN "open" ELSE "pending"
    /\ \A i, j \in 1 .. Len(backlog) : backlog[i] = backlog[j] => i = j
    /\ loop = "insert" => backlog # <<>> /\ Head(events_) = ListenFd
    /\ loop \in {"insert", "submit"} => events_ # <<>>

(* An entry of clients_idx_ is the Client open on its descriptor, except   *)
(* while the remover, which holds client_mtx, is erasing it; what is       *)
(* accepted on that descriptor meanwhile has to wait for the insertion.    *)
Erased == IF remover \in {"eraseMtx", "eraseIdx"} THEN {victim} ELSE {}

IndexInv ==
    /\ \A f \in Fds :
          clients_idx_[f] \in Conns =>
            /\ clients_idx_[f] \in Known
            /\ fd[clients_idx_[f]] = f
            /\ sock[clients_idx_[f]] = "open" \/ f \in Erased
    /\ Erased \subseteq Fds
    /\ \A c \in Open : fd[c] \in Erased => c \in Inserting

Receiving == {"start", "check", "recv", "publish", "rearm"}
Sending == {"lock", "write", "send"}

ReceiveTasks == {j \in Jobs : j.kind = "receive" /\ j.fd \in Fds /\ j.client \in Known \cup {NullConn}}
SendTasks == {j \in Jobs : j.kind = "send" /\ j.client \in Known}

(* Tasks and workers know no other clients.                                *)
TaskInv ==
    /\ \A i \in 1 .. Len(queue) : queue[i] \in ReceiveTasks \cup SendTasks
    /\ \A w \in Workers :
          /\ at[w] = "idle" => job[w].kind = "none"
          /\ at[w] \in Receiving => job[w] \in ReceiveTasks
          /\ at[w] \in Sending => job[w].kind = "send"
          /\ at[w] \notin {"idle", "start"} => cur[w] \in Known
    /\ slot.client \in Known \cup {NoConn, NullConn}
    /\ loop = "submit" => slot.client # NoConn /\ slot.fd = Head(events_) /\ slot.fd \in Fds
    /\ \/ slot.fd \in Fds
       \/ /\ \A i \in 1 .. Len(queue) : queue[i].kind # "receive"
          /\ \A w \in Workers : job[w].kind # "receive"

BaseInv ==
    /\ TypeOK
    /\ SocketInv /\ InputInv /\ BacklogInv /\ IndexInv /\ TaskInv
    /\ LiveSenderHoldsWriteMutex

(* The receive tasks that wait in the queue or are in the hands of workers. *)
Pending == {t \in Jobs : /\ t.kind = "receive"
                         /\ \/ \E i \in 1 .. Len(queue) : queue[i] = t
                            \/ \E w \in Workers : job[w] = t}

InEvents == {events_[i] : i \in 1 .. Len(events_)}

Armed == {f \in Fds : interest[f] = "armed"}

(* The connections an event of their descriptor is rightly theirs: open,   *)
(* or closed and not erased yet, and not crossed.                          *)
Clean == {c \in Conns \ crossed : c \in Open \/ \E f \in Fds : clients_idx_[f] = c}

(* epoll_wait reports a descriptor once, ...                               *)
EventsInv == \A i, j \in 1 .. Len(events_) : events_[i] = events_[j] => i = j

(* ... what is armed is open, and has an edge if it has input.             *)
ReadyInv ==
    /\ ready \ {ListenFd} \subseteq Armed
    /\ \A f \in Armed : \E c \in Open : fd[c] = f
    /\ \A c \in Open : fd[c] \in Armed /\ Readable(c) => fd[c] \in ready
    /\ \A c \in Inserting : fd[c] \in Armed

(* A task has a client and its descriptor, and an open connection that     *)
(* nothing has crossed has no tasks but its own ...                        *)
PairInv ==
    /\ \A t \in Pending : t.client \in Conns => fd[t.client] = t.fd
    /\ \A c \in Open \ crossed, t \in Pending : t.fd = fd[c] => t.client = c
    /\ loop = "submit" =>
         /\ slot.client \in Conns => fd[slot.client] = slot.fd
         /\ \A c \in Open \ crossed : slot.fd = fd[c] => slot.client = c

(* ... which calls receive_data of its own Client.                         *)
CurInv ==
    \A w \in Workers :
        at[w] \in Receiving \ {"start"} =>
            \/ cur[w] = job[w].client
            \/ cur[w] \in crossed /\ job[w].client \in crossed \cup {NullConn}

(* The one token of a descriptor: armed in the kernel, an event of the     *)
(* loop's batch, or a task.                                                *)
ArmedInv ==
    \A c \in Open \ crossed :
        fd[c] \in Armed => fd[c] \notin InEvents /\ \A t \in Pending : t.fd # fd[c]

EventInv ==
    /\ \A c \in Clean : fd[c] \in InEvents => \A t \in Pending : t.fd # fd[c]
    /\ loop = "submit" /\ slot.client \in Conns \ crossed =>
         \A t \in Pending : t.client # slot.client

IsFor(t, c) == t.kind = "receive" /\ t.client = c

OneTaskInv ==
    \A c \in Conns \ crossed :
        /\ \A i, j \in 1 .. Len(queue) : IsFor(queue[i], c) /\ IsFor(queue[j], c) => i = j
        /\ \A v, w \in Workers : IsFor(job[v], c) /\ IsFor(job[w], c) => v = w
        /\ \A i \in 1 .. Len(queue), w \in Workers : ~(IsFor(queue[i], c) /\ IsFor(job[w], c))

(* It gets lost only with an exception.                                    *)
LiveInv ==
    \A c \in Live \ crossed :
        threw[c] \/ fd[c] \in Armed \cup InEvents \/ \E t \in Pending : t.fd = fd[c]

FollowInv ==
    /\ \A c \in Open \ Inserting :
          clients_idx_[fd[c]] = c \/ (clients_idx_[fd[c]] = NullConn /\ c \in crossed)
    /\ \A c \in Inserting : clients_idx_[fd[c]] = NullConn => c \in crossed

DispatchInv ==
    /\ EventsInv /\ ReadyInv
    /\ PairInv /\ CurInv /\ ArmedInv /\ EventInv /\ OneTaskInv
    /\ LiveInv /\ FollowInv

-----------------------------------------------------------------------------
(* Steps that leave a part's variables alone.                              *)
LEMMA SocketFrame ==
    ASSUME SocketInv, UNCHANGED <<sock, fd, connected>>
    PROVE  SocketInv'
BY DEF SocketInv

LEMMA InputFrame ==
    ASSUME InputInv, UNCHANGED <<unread, supplied>>
    PROVE  InputInv'
BY DEF InputInv

LEMMA BacklogFrame ==
    ASSUME BacklogInv, UNCHANGED <<sock, backlog, loop, events_>>
    PROVE  BacklogInv'
BY DEF BacklogInv

LEMMA KnownFrame ==
    ASSUME UNCHANGED <<sock, loop, backlog>>
    PROVE  Known' = Known /\ Inserting' = Inserting /\ Open' = Open
BY DEF Known, Inserting, Open

LEMMA IndexFrame ==
    ASSUME IndexInv, UNCHANGED <<clients_idx_, sock, fd, loop, backlog, remover, victim>>
    PROVE  IndexInv'
BY KnownFrame DEF IndexInv, Erased

LEMMA MutexFrame ==
    ASSUME LiveSenderHoldsWriteMutex, UNCHANGED <<at, cur, connected, client_write_mtx_, fd>>
    PROVE  LiveSenderHoldsWriteMutex'
BY DEF LiveSenderHoldsWriteMutex, Writing

(* A client, once known, stays so.                                         *)
LEMMA TaskFrame ==
    ASSUME TaskInv, UNCHANGED <<queue, at, job, cur, slot>>, Known \subseteq Known',
           loop' = "submit" => loop = "submit" /\ Head(events_') = Head(events_)
    PROVE  TaskInv'
<1>1. ReceiveTasks \subseteq ReceiveTasks' /\ SendTasks \subseteq SendTasks'
  BY DEF ReceiveTasks, SendTasks
<1> QED BY <1>1 DEF TaskInv

-----------------------------------------------------------------------------
LEMMA InitBase == Init => BaseInv
<1> SUFFICES ASSUME Init PROVE BaseInv
  OBVIOUS
<1>1. TypeOK
  <2>1. eof \in [Conns -> BOOLEAN] /\ connected \in [Conns -> BOOLEAN]
    BY Zenon DEF Init
  <2>2. got \in [Workers -> BOOLEAN] /\ threw \in [Conns -> BOOLEAN] /\ crashed \in BOOLEAN
    BY Zenon DEF Init
  <2>3. /\ slot \in [client : Entries, fd : Fds \cup {NoFd}]
        /\ job \in [Workers -> Jobs]
    BY DEF Init, Entries, Jobs, NoTask
  <2>4. /\ unread \in [Conns -> 0 .. MaxUnits] /\ supplied \in [Conns -> 0 .. MaxUnits]
        /\ left \in [Workers -> 0 .. Pieces]
    BY MaxUnitsAssumption, PiecesAssumption DEF Init
  <2>5. /\ client_write_mtx_ \in [Fds -> {"absent", "free"} \cup Workers]
        /\ clients_idx_ \in [Fds -> Entries]
        /\ interest \in [Fds -> {"none", "armed", "disarmed"}]
        /\ ready \in SUBSET (Fds \cup {ListenFd})
        /\ wire \in [Conns -> SUBSET Conns] /\ crossed \in SUBSET Conns
        /\ remover \in {"off", "asleep"}
    BY DEF Init, Entries
  <2> QED BY <2>1, <2>2, <2>3, <2>4, <2>5 DEF Init, TypeOK
<1>2. SocketInv /\ InputInv /\ BacklogInv
  BY DEF Init, SocketInv, InputInv, BacklogInv
<1>3. IndexInv
  BY ConnsAssumption DEF Init, IndexInv, Erased, Open
<1>4. TaskInv
  BY DEF Init, TaskInv, NoTask, Receiving, Sending
<1>5. LiveSenderHoldsWriteMutex
  BY DEF Init, LiveSenderHoldsWriteMutex, Writing
<1> QED BY <1>1, <1>2, <1>3, <1>4, <1>5 DEF BaseInv

LEMMA CrashBase ==
    ASSUME BaseInv, Crash
    PROVE  BaseInv'
<1> USE DEF BaseInv, Crash, kernelVars, mapVars, loopVars, poolVars, removerVars
<1>1. TypeOK'
  <2>1. crashed' \in BOOLEAN
    BY Zenon
  <2> QED BY <2>1 DEF TypeOK
<1>2. TaskInv'
  BY TaskFrame, KnownFrame
<1> QED BY <1>1, <1>2, SocketFrame, InputFrame, BacklogFrame, IndexFrame, MutexFrame

-----------------------------------------------------------------------------
(* The peers: a connection that arrives is nobody's client yet.            *)
LEMMA PeerConnectsBase ==
    ASSUME BaseInv, NEW c \in Conns, PeerConnects(c)
    PROVE  BaseInv'
<1> USE DEF BaseInv, mapVars, loopVars, poolVars, removerVars, faultVars
<1>1. /\ sock[c] = "new" /\ sock' = [sock EXCEPT ![c] = "pending"]
      /\ backlog' = Append(backlog, c)
      /\ ready' = ready \cup {ListenFd}
      /\ UNCHANGED <<fd, unread, supplied, eof, wire, interest,
                     mapVars, loopVars, poolVars, removerVars, faultVars>>
  BY DEF PeerConnects
<1>2. /\ sock'[c] = "pending" /\ \A d \in Conns \ {c} : sock'[d] = sock[d]
      /\ sock' \in [Conns -> {"new", "pending", "open", "closed"}]
  BY <1>1 DEF TypeOK
<1>3. /\ backlog' \in Seq(Conns) /\ Len(backlog') = Len(backlog) + 1 /\ Len(backlog) \in Nat
      /\ \A i \in 1 .. Len(backlog) : backlog'[i] = backlog[i] /\ backlog[i] \in Conns
      /\ backlog'[Len(backlog) + 1] = c
  BY <1>1 DEF TypeOK
<1>4. TypeOK'
  BY <1>1, <1>2, <1>3 DEF TypeOK
<1>5. SocketInv'
  BY <1>1, <1>2 DEF SocketInv
<1>6. \A i \in 1 .. Len(backlog) : backlog[i] # c
  BY <1>1 DEF BacklogInv
<1>7. BacklogInv'
  <2>1. loop = "insert" => Len(backlog) > 0
    BY <1>3 DEF BacklogInv
  <2>2. \A i \in 1 .. Len(backlog') :
          sock'[backlog'[i]] = IF i = 1 /\ loop = "insert" THEN "open" ELSE "pending"
    BY <1>1, <1>2, <1>3, <1>6, <2>1 DEF BacklogInv
  <2>3. \A i, j \in 1 .. Len(backlog') : backlog'[i] = backlog'[j] => i = j
    BY <1>3, <1>6 DEF BacklogInv
  <2>4. backlog' # <<>>
    BY <1>3
  <2>5. loop \in {"insert", "submit"} => events_ # <<>>
    BY DEF BacklogInv
  <2>6. loop = "insert" => Head(events_) = ListenFd
    BY DEF BacklogInv
  <2> QED BY <1>1, <2>2, <2>3, <2>4, <2>5, <2>6 DEF BacklogInv
<1>8. Inserting' = Inserting
  <2>1. CASE loop = "insert"
    <3>1. Head(backlog') = Head(backlog)
      BY <1>1, <2>1 DEF BacklogInv, TypeOK
    <3> QED BY <1>1, <3>1 DEF Inserting
  <2>2. CASE loop # "insert"
    BY <1>1, <2>2 DEF Inserting
  <2> QED BY <2>1, <2>2
<1>9. Known' = Known /\ Open' = Open
  BY <1>1, <1>2, <1>8 DEF Known, Open
<1>10. IndexInv'
  <2>1. Erased' = Erased
    BY <1>1 DEF Erased
  <2>2. \A f \in Fds : clients_idx_[f] \in Known => sock'[clients_idx_[f]] = sock[clients_idx_[f]]
    BY <1>1, <1>2 DEF Known
  <2> QED BY <1>1, <1>8, <1>9, <2>1, <2>2 DEF IndexInv
<1>11. TaskInv'
  BY <1>1, <1>9, TaskFrame
<1>12. LiveSenderHoldsWriteMutex'
  BY <1>1, MutexFrame
<1> QED BY <1>1, <1>4, <1>5, <1>7, <1>10, <1>11, <1>12, InputFrame

LEMMA PeerInputBase ==
    ASSUME BaseInv, NEW c \in Conns, PeerSends(c) \/ PeerCloses(c)
    PROVE  BaseInv'
<1> USE DEF BaseInv, mapVars, loopVars, poolVars, removerVars, faultVars
<1>1. UNCHANGED <<sock, fd, wire, interest, backlog,
                  mapVars, loopVars, poolVars, removerVars, faultVars>>
  BY DEF PeerSends, PeerCloses
<1>2. ready' \in SUBSET (Fds \cup {ListenFd})
  <2>1. ready' = ready \/ (sock[c] = "open" /\ ready' = ready \cup {fd[c]})
    BY DEF PeerSends, PeerCloses, Edge
  <2> QED BY <2>1 DEF SocketInv, TypeOK
<1>3. eof' \in [Conns -> BOOLEAN]
  <2>1. eof' \in {eof, [eof EXCEPT ![c] = TRUE]}
    BY DEF PeerSends, PeerCloses
  <2> QED BY <2>1, Zenon DEF TypeOK
<1>4. /\ supplied' \in [Conns -> 0 .. MaxUnits] /\ unread' \in [Conns -> 0 .. MaxUnits]
      /\ InputInv'
  <2>1. \/ UNCHANGED <<supplied, unread>>
        \/ /\ supplied[c] < MaxUnits /\ supplied' = [supplied EXCEPT ![c] = @ + 1]
           /\ unread' = [unread EXCEPT ![c] = @ + 1]
    BY DEF PeerSends, PeerCloses
  <2>2. /\ supplied[c] \in Nat /\ supplied \in [Conns -> 0 .. MaxUnits]
        /\ unread[c] \in Nat /\ unread \in [Conns -> 0 .. MaxUnits]
    BY MaxUnitsAssumption DEF TypeOK
  <2>3. unread[c] <= supplied[c]
    BY DEF InputInv
  <2>4. supplied' \in [Conns -> 0 .. MaxUnits] /\ unread' \in [Conns -> 0 .. MaxUnits]
    BY <2>1, <2>2, <2>3, MaxUnitsAssumption
  <2> QED BY <2>1, <2>2, <2>4 DEF InputInv
<1>5. TypeOK'
  BY <1>1, <1>2, <1>3, <1>4 DEF TypeOK
<1>6. TaskInv'
  BY <1>1, TaskFrame, KnownFrame
<1> QED BY <1>1, <1>4, <1>5, <1>6, SocketFrame, BacklogFrame, IndexFrame, MutexFrame

-----------------------------------------------------------------------------
(* The event loop.  epoll_wait reports its batch completely, each          *)
(* descriptor once.                                                        *)
LEMMA EpollWaitBatch ==
    ASSUME TypeOK, EpollWait
    PROVE  /\ events_' \in Seq(Fds \cup {ListenFd})
           /\ \A i, j \in 1 .. Len(events_') : events_'[i] = events_'[j] => i = j
           /\ {events_'[i] : i \in 1 .. Len(events_')} = {f \in ready : HasInput(f)}
<1> DEFINE batch == {f \in ready : HasInput(f)}
           n == Cardinality(batch)
<1>1. batch \subseteq Fds \cup {ListenFd} /\ IsFiniteSet(batch)
  <2>1. IsFiniteSet(Fds \cup {ListenFd})
    BY FdsAssumption, FS_AddElement
  <2>2. batch \subseteq Fds \cup {ListenFd}
    BY DEF TypeOK
  <2> QED BY <2>1, <2>2, FS_Subset
<1>2. n \in Nat
  BY <1>1, FS_CardinalityType
<1>3. events_' \in [1 .. n -> batch] /\ \A i, j \in DOMAIN events_' : events_'[i] = events_'[j] => i = j
  BY DEF EpollWait
<1>4. events_' \in Injection(1 .. n, batch)
  BY <1>3 DEF Injection, IsInjective
<1>5. Cardinality(1 .. n) = n
  BY <1>2, FS_Interval
<1>6. events_' \in Surjection(1 .. n, batch)
  BY <1>1, <1>4, <1>5, FS_Injection
<1> HIDE DEF batch, n
<1>7. events_' \in Seq(Fds \cup {ListenFd}) /\ Len(events_') = n
  <2>1. events_' \in Seq(batch) /\ Len(events_') = n
    BY <1>2, <1>3
  <2> QED BY <1>1, <2>1
<1>8. {events_'[i] : i \in 1 .. Len(events_')} = batch
  BY <1>3, <1>6, <1>7 DEF Surjection
<1> QED BY <1>3, <1>7, <1>8 DEF batch

LEMMA EpollWaitBase ==
    ASSUME BaseInv, EpollWait
    PROVE  BaseInv'
<1> USE DEF BaseInv, mapVars, poolVars, removerVars, faultVars
<1>1. /\ UNCHANGED <<sock, fd, unread, supplied, eof, wire, backlog,
                     mapVars, loop, slot, poolVars, removerVars, faultVars>>
      /\ loop = "dispatch" /\ ready' = {}
      /\ interest' = [f \in Fds |-> IF f \in {g \in ready : HasInput(g)} THEN "disarmed"
                                    ELSE interest[f]]
  BY DEF EpollWait, Disarm
<1>2. TypeOK'
  <2>1. interest' \in [Fds -> {"none", "armed", "disarmed"}]
    BY <1>1 DEF TypeOK
  <2> QED BY <1>1, <2>1, EpollWaitBatch DEF TypeOK
<1>3. BacklogInv'
  BY <1>1 DEF BacklogInv
<1>4. TaskInv'
  BY <1>1, TaskFrame, KnownFrame
<1> QED BY <1>1, <1>2, <1>3, <1>4, SocketFrame, InputFrame, IndexFrame, MutexFrame

(* accept_client opens the head of the backlog, which nobody knows.        *)
LEMMA AcceptBase ==
    ASSUME BaseInv, AcceptClient
    PROVE  BaseInv'
<1> USE DEF BaseInv, poolVars, removerVars, faultVars
<1> DEFINE c == Head(backlog)
<1>1. PICK f \in FreeFds :
        /\ sock' = [sock EXCEPT ![c] = "open"]
        /\ fd' = [fd EXCEPT ![c] = f]
        /\ connected' = [connected EXCEPT ![c] = TRUE]
        /\ interest' = [interest EXCEPT ![f] = "armed"]
        /\ ready' = IF Readable(c) THEN ready \cup {f} ELSE ready
        /\ crossed' \in {crossed, crossed \cup {c}}
  BY DEF AcceptClient
<1>2. /\ loop = "dispatch" /\ loop' = "insert" /\ events_ # <<>> /\ backlog # <<>>
      /\ Head(events_) = ListenFd
      /\ UNCHANGED <<unread, supplied, eof, wire, backlog, clients_idx_,
                     client_write_mtx_, events_, slot, poolVars, removerVars, threw, crashed>>
  BY DEF AcceptClient
<1>3. /\ c \in Conns /\ c = backlog[1] /\ Len(backlog) \in Nat \ {0}
      /\ \A i \in 1 .. Len(backlog) : backlog[i] \in Conns
  BY <1>2 DEF TypeOK
<1>4. sock[c] = "pending" /\ \A i \in 1 .. Len(backlog) : i # 1 => backlog[i] # c
  BY <1>2, <1>3 DEF BacklogInv
<1>5. f \in Fds /\ \A d \in Conns : ~(sock[d] = "open" /\ fd[d] = f)
  BY DEF FreeFds, OpenOn
<1> HIDE DEF c
<1>6. /\ sock'[c] = "open" /\ fd'[c] = f
      /\ \A d \in Conns \ {c} : sock'[d] = sock[d] /\ fd'[d] = fd[d] /\ connected'[d] = connected[d]
  BY <1>1, <1>3 DEF TypeOK
<1>7. TypeOK'
  <2>1. connected' \in [Conns -> BOOLEAN]
    BY <1>1, Zenon DEF TypeOK
  <2>2. /\ sock' \in [Conns -> {"new", "pending", "open", "closed"}]
        /\ fd' \in [Conns -> Fds \cup {NoFd}]
        /\ interest' \in [Fds -> {"none", "armed", "disarmed"}]
        /\ ready' \in SUBSET (Fds \cup {ListenFd})
        /\ crossed' \in SUBSET Conns
    BY <1>1, <1>3, <1>5 DEF TypeOK
  <2> QED BY <1>2, <2>1, <2>2 DEF TypeOK
<1>8. SocketInv'
  BY <1>5, <1>6 DEF SocketInv
<1>9. BacklogInv'
  BY <1>2, <1>3, <1>4, <1>6 DEF BacklogInv
<1>10. Inserting = {} /\ Inserting' = {c} /\ Open' = Open \cup {c}
  BY <1>2, <1>3, <1>6 DEF Inserting, Open, c
<1>11. Known' = Known /\ c \notin Known
  BY <1>4, <1>6, <1>10 DEF Known
<1>12. IndexInv'
  <2>1. Erased' = Erased
    BY <1>2 DEF Erased
  <2>2. \A d \in Known : sock'[d] = sock[d] /\ fd'[d] = fd[d]
    BY <1>6, <1>11 DEF Known
  <2>3. \A d \in Open : d # c
    BY <1>4 DEF Open
  <2>4. \A d \in Open : fd'[d] = fd[d]
    BY <1>6, <2>3 DEF Open
  <2>5. \A d \in Open' : fd'[d] \in Erased' => d \in Inserting'
    BY <1>10, <2>1, <2>4 DEF IndexInv
  <2>6. \A g \in Fds : clients_idx_[g] \in Conns =>
          /\ clients_idx_[g] \in Known' /\ fd'[clients_idx_[g]] = g
          /\ sock'[clients_idx_[g]] = "open" \/ g \in Erased'
    BY <1>11, <2>1, <2>2 DEF IndexInv
  <2> QED BY <1>2, <2>1, <2>5, <2>6 DEF IndexInv
<1>13. TaskInv'
  BY <1>2, <1>11, TaskFrame
<1>14. LiveSenderHoldsWriteMutex'
  <2>1. \A w \in Workers : Writing(w) => cur[w] \in Known /\ cur[w] # c
    BY <1>11 DEF Writing, TaskInv
  <2>2. \A d \in Known : connected'[d] = connected[d] /\ fd'[d] = fd[d]
    BY <1>6, <1>11 DEF Known
  <2> QED BY <1>2, <2>1, <2>2 DEF LiveSenderHoldsWriteMutex, Writing
<1> QED BY <1>2, <1>7, <1>8, <1>9, <1>12, <1>13, <1>14, InputFrame

LEMMA InsertBase ==
    ASSUME BaseInv, InsertClient
    PROVE  BaseInv'
<1> USE DEF BaseInv, poolVars, removerVars, faultVars
<1> DEFINE c == Head(backlog)
<1>1. /\ loop = "insert" /\ remover \in {"off", "asleep"} /\ loop' = "dispatch"
      /\ clients_idx_' = [clients_idx_ EXCEPT ![fd[c]] = IF @ = NoConn THEN c ELSE @]
      /\ backlog' = Tail(backlog) /\ events_' = Tail(events_)
      /\ UNCHANGED <<sock, fd, unread, supplied, eof, wire, interest, ready,
                     connected, client_write_mtx_, slot, poolVars, removerVars, faultVars>>
  BY DEF InsertClient, ClientMtxFree, NextEvents
<1>2. /\ backlog # <<>> /\ c \in Conns /\ c = backlog[1] /\ Len(backlog) \in Nat \ {0}
      /\ backlog' \in Seq(Conns) /\ Len(backlog') = Len(backlog) - 1
      /\ \A i \in 1 .. Len(backlog') : backlog'[i] = backlog[i + 1]
  <2>1. backlog # <<>> /\ backlog \in Seq(Conns)
    BY <1>1 DEF BacklogInv, TypeOK
  <2> QED BY <1>1, <2>1, HeadTailProperties
<1>3. events_' \in Seq(Fds \cup {ListenFd})
  BY <1>1, HeadTailProperties DEF BacklogInv, TypeOK
<1>4. sock[c] = "open" /\ fd[c] \in Fds
  BY <1>1, <1>2 DEF BacklogInv, SocketInv
<1> HIDE DEF c
<1>5. TypeOK'
  <2>1. clients_idx_' \in [Fds -> Entries]
    BY <1>1, <1>2, <1>4 DEF TypeOK, Entries
  <2> QED BY <1>1, <1>2, <1>3, <2>1 DEF TypeOK
<1>6. BacklogInv'
  <2>1. \A i \in 1 .. Len(backlog') : i + 1 \in 1 .. Len(backlog) /\ i + 1 # 1
    BY <1>2
  <2>2. \A i \in 1 .. Len(backlog') : sock'[backlog'[i]] = "pending"
    BY <1>1, <1>2, <2>1 DEF BacklogInv
  <2>3. ASSUME NEW i \in 1 .. Len(backlog'), NEW j \in 1 .. Len(backlog'), backlog'[i] = backlog'[j]
        PROVE  i = j
    <3>1. i + 1 = j + 1
      BY <1>2, <2>1, <2>3 DEF BacklogInv
    <3> QED BY <3>1
  <2> QED BY <1>1, <2>2, <2>3 DEF BacklogInv
<1>7. Inserting = {c} /\ Inserting' = {} /\ Open' = Open /\ Erased' = {}
  BY <1>1 DEF Inserting, Open, c, Erased
<1>8. Known' = Known \cup {c}
  BY <1>1, <1>2, <1>4, <1>7 DEF Known
<1>9. IndexInv'
  <2>1. \A f \in Fds : clients_idx_'[f] = clients_idx_[f] \/ (f = fd[c] /\ clients_idx_'[f] = c)
    BY <1>1, <1>4 DEF TypeOK
  <2>2. Erased = {}
    BY <1>1 DEF Erased
  <2>3. \A f \in Fds : clients_idx_'[f] \in Conns =>
          /\ clients_idx_'[f] \in Known'
          /\ fd[clients_idx_'[f]] = f
          /\ sock[clients_idx_'[f]] = "open"
    BY <1>4, <1>8, <2>1, <2>2 DEF IndexInv
  <2> QED BY <1>1, <1>7, <2>3 DEF IndexInv
<1>10. TaskInv'
  BY <1>1, <1>8, TaskFrame
<1> QED BY <1>1, <1>5, <1>6, <1>9, <1>10, SocketFrame, InputFrame, MutexFrame

LEMMA AcceptThrowsBase ==
    ASSUME BaseInv, AcceptThrows
    PROVE  BaseInv'
<1> USE DEF BaseInv, kernelVars, mapVars, poolVars, removerVars, faultVars
<1>1. /\ loop = "dispatch" /\ loop' = "thrown"
      /\ UNCHANGED <<kernelVars, mapVars, events_, slot, poolVars, removerVars, faultVars>>
  BY DEF AcceptThrows
<1>2. TypeOK'
  BY <1>1 DEF TypeOK
<1>3. BacklogInv'
  BY <1>1 DEF BacklogInv
<1>4. Inserting' = Inserting /\ Known' = Known /\ Open' = Open /\ Erased' = Erased
  BY <1>1 DEF Inserting, Known, Open, Erased
<1>5. IndexInv'
  BY <1>1, <1>4 DEF IndexInv
<1>6. TaskInv'
  BY <1>1, <1>4, TaskFrame
<1> QED BY <1>1, <1>2, <1>3, <1>5, <1>6, SocketFrame, InputFrame, MutexFrame

(* handle_et_event: what it looks up is a known client, or null.           *)
LEMMA LookupBase ==
    ASSUME BaseInv, LookupClient
    PROVE  BaseInv'
<1> USE DEF BaseInv, kernelVars, poolVars, removerVars, faultVars
<1> DEFINE f == Head(events_)
           c == IF clients_idx_[f] = NoConn THEN NullConn ELSE clients_idx_[f]
<1>1. /\ loop = "dispatch" /\ loop' = "submit" /\ events_ # <<>> /\ f \in Fds
      /\ clients_idx_' = [clients_idx_ EXCEPT ![f] = c]
      /\ slot' = [client |-> c, fd |-> f]
      /\ UNCHANGED <<kernelVars, connected, client_write_mtx_, events_,
                     poolVars, removerVars, faultVars>>
  BY DEF LookupClient
<1>2. c \in Entries \ {NoConn} /\ (c \in Conns => c \in Known)
  BY <1>1, ConnsAssumption DEF TypeOK, Entries, IndexInv
<1>3. \A g \in Fds : clients_idx_'[g] \in Conns => clients_idx_'[g] = clients_idx_[g]
  BY <1>1, ConnsAssumption DEF TypeOK
<1> HIDE DEF c, f
<1>4. TypeOK'
  BY <1>1, <1>2 DEF TypeOK
<1>5. BacklogInv'
  BY <1>1 DEF BacklogInv
<1>6. Inserting' = Inserting /\ Known' = Known /\ Open' = Open /\ Erased' = Erased
  BY <1>1 DEF Inserting, Known, Open, Erased
<1>7. IndexInv'
  BY <1>1, <1>3, <1>6 DEF IndexInv
<1>8. TaskInv'
  <2>1. slot'.client = c /\ slot'.fd = f
    BY <1>1
  <2>2. c \in Known \cup {NullConn}
    BY <1>2 DEF Entries
  <2>3. ReceiveTasks' = ReceiveTasks /\ SendTasks' = SendTasks
    BY <1>6 DEF ReceiveTasks, SendTasks
  <2> QED BY <1>1, <1>2, <1>6, <2>1, <2>2, <2>3 DEF TaskInv, f
<1> QED BY <1>1, <1>4, <1>5, <1>7, <1>8, SocketFrame, InputFrame, MutexFrame

LEMMA SubmitBase ==
    ASSUME BaseInv, SubmitReceive
    PROVE  BaseInv'
<1> USE DEF BaseInv, kernelVars, removerVars, faultVars
<1> DEFINE t == ReceiveTask(slot.client, slot.fd)
<1>1. /\ loop = "submit" /\ loop' = "dispatch"
      /\ client_write_mtx_' = [client_write_mtx_ EXCEPT ![slot.fd] = WriteMutex(slot.fd)]
      /\ queue' = Append(queue, t)
      /\ events_' = Tail(events_)
      /\ UNCHANGED <<kernelVars, connected, clients_idx_, slot, at, job, cur, got, left,
                     removerVars, faultVars>>
  BY DEF SubmitReceive, NextEvents
<1>2. events_' \in Seq(Fds \cup {ListenFd})
  BY <1>1, HeadTailProperties DEF BacklogInv, TypeOK
<1>3. /\ slot.fd \in Fds /\ slot.client \in Known \cup {NullConn}
  BY <1>1 DEF TaskInv
<1>4. t \in Jobs /\ t \in ReceiveTasks
  BY <1>3 DEF ReceiveTask, ReceiveTasks, Jobs, Known, Entries
<1> HIDE DEF t
<1>5. /\ queue' \in Seq(Jobs) /\ Len(queue') = Len(queue) + 1 /\ Len(queue) \in Nat
      /\ \A i \in 1 .. Len(queue) : queue'[i] = queue[i]
      /\ queue'[Len(queue) + 1] = t
  BY <1>1, <1>4 DEF TypeOK
<1>6. /\ client_write_mtx_' \in [Fds -> {"absent", "free"} \cup Workers]
      /\ \A f \in Fds : client_write_mtx_'[f] = client_write_mtx_[f] \/ client_write_mtx_[f] = "absent"
  BY <1>1, <1>3 DEF WriteMutex, TypeOK
<1>7. TypeOK'
  BY <1>1, <1>2, <1>5, <1>6 DEF TypeOK
<1>8. BacklogInv'
  BY <1>1 DEF BacklogInv
<1>9. Inserting' = Inserting /\ Known' = Known /\ Open' = Open /\ Erased' = Erased
  BY <1>1 DEF Inserting, Known, Open, Erased
<1>10. IndexInv'
  BY <1>1, <1>9 DEF IndexInv
<1>11. TaskInv'
  <2>1. ReceiveTasks' = ReceiveTasks /\ SendTasks' = SendTasks
    BY <1>9 DEF ReceiveTasks, SendTasks
  <2>2. \A i \in 1 .. Len(queue') : queue'[i] \in ReceiveTasks \cup SendTasks
    BY <1>4, <1>5 DEF TaskInv
  <2> QED BY <1>1, <1>3, <1>9, <2>1, <2>2 DEF TaskInv
<1>12. LiveSenderHoldsWriteMutex'
  <2>1. \A w \in Workers : Writing(w) => fd[cur[w]] \in Fds
    BY DEF Writing, TaskInv, Known, SocketInv
  <2>2. \A w \in Workers : w # "absent"
    BY WorkersAssumption
  <2> QED BY <1>1, <1>6, <2>1, <2>2 DEF LiveSenderHoldsWriteMutex, Writing
<1> QED BY <1>1, <1>7, <1>8, <1>10, <1>11, <1>12, SocketFrame, InputFrame

-----------------------------------------------------------------------------
(* The workers.  Most of their steps touch, of what BaseInv speaks of,     *)
(* only where the worker is.                                               *)
LEMMA MoveTask ==
    ASSUME TaskInv, TypeOK, NEW w \in Workers, NEW place, Goto(w, place),
           UNCHANGED <<queue, job, cur, slot, sock, loop, backlog, events_>>,
           \/ at[w] \in Receiving \ {"start"} /\ place \in Receiving \ {"start"}
           \/ at[w] \in Sending /\ place \in Sending
    PROVE  TaskInv'
<1>1. Known' = Known
  BY KnownFrame
<1>2. ReceiveTasks' = ReceiveTasks /\ SendTasks' = SendTasks
  BY <1>1 DEF ReceiveTasks, SendTasks
<1>3. at'[w] = place /\ \A v \in Workers \ {w} : at'[v] = at[v]
  BY DEF Goto, TypeOK
<1>4. \A v \in Workers :
          /\ at'[v] = "idle" => job[v].kind = "none"
          /\ at'[v] \in Receiving => job[v] \in ReceiveTasks
          /\ at'[v] \in Sending => job[v].kind = "send"
          /\ at'[v] \notin {"idle", "start"} => cur[v] \in Known
  BY <1>3 DEF TaskInv, Receiving, Sending
<1> QED BY <1>1, <1>2, <1>4 DEF TaskInv

LEMMA FinishTask ==
    ASSUME TaskInv, TypeOK, NEW w \in Workers, EndTask(w),
           UNCHANGED <<slot, sock, loop, backlog, events_, queue>>
    PROVE  /\ TaskInv' /\ at'[w] = "idle" /\ job'[w].kind = "none"
           /\ \A v \in Workers \ {w} : at'[v] = at[v] /\ cur'[v] = cur[v] /\ job'[v] = job[v]
           /\ at' \in [Workers -> {"idle", "start", "check", "recv", "publish",
                                   "rearm", "lock", "write", "send"}]
           /\ job' \in [Workers -> Jobs]
           /\ cur' \in [Workers -> Conns \cup {NoConn}]
           /\ left' \in [Workers -> 0 .. Pieces]
<1>1. Known' = Known
  BY KnownFrame
<1>2. ReceiveTasks' = ReceiveTasks /\ SendTasks' = SendTasks
  BY <1>1 DEF ReceiveTasks, SendTasks
<1>3. /\ at'[w] = "idle" /\ job'[w].kind = "none"
      /\ \A v \in Workers \ {w} : at'[v] = at[v] /\ cur'[v] = cur[v] /\ job'[v] = job[v]
  BY DEF EndTask, Goto, TypeOK, NoTask
<1>4. /\ at' \in [Workers -> {"idle", "start", "check", "recv", "publish",
                               "rearm", "lock", "write", "send"}]
      /\ cur' \in [Workers -> Conns \cup {NoConn}]
      /\ left' \in [Workers -> 0 .. Pieces]
  BY PiecesAssumption DEF EndTask, Goto, TypeOK
<1>5. job' \in [Workers -> Jobs]
  <2>1. NoTask \in Jobs
    BY DEF NoTask, Jobs, Entries
  <2> QED BY <2>1 DEF EndTask, TypeOK
<1>6. TaskInv'
  <2>1. \A v \in Workers :
          /\ at'[v] = "idle" => job'[v].kind = "none"
          /\ at'[v] \in Receiving => job'[v] \in ReceiveTasks
          /\ at'[v] \in Sending => job'[v].kind = "send"
          /\ at'[v] \notin {"idle", "start"} => cur'[v] \in Known
    BY <1>3 DEF TaskInv, Receiving, Sending
  <2>2. \/ slot.fd \in Fds
        \/ /\ \A i \in 1 .. Len(queue) : queue[i].kind # "receive"
           /\ \A v \in Workers : job'[v].kind # "receive"
    BY <1>3 DEF TaskInv
  <2> QED BY <1>1, <1>2, <2>1, <2>2 DEF TaskInv
<1> QED BY <1>3, <1>4, <1>5, <1>6

LEMMA TakeTaskBase ==
    ASSUME BaseInv, NEW w \in Workers, TakeTask(w)
    PROVE  BaseInv'
<1> USE DEF BaseInv, kernelVars, mapVars, loopVars, removerVars, faultVars
<1> DEFINE t == Head(queue)
<1>1. /\ at[w] = "idle" /\ queue # <<>>
      /\ job' = [job EXCEPT ![w] = t]
      /\ queue' = Tail(queue)
      /\ at' = [at EXCEPT ![w] = IF t.kind = "receive" THEN "start" ELSE "lock"]
      /\ cur' = [cur EXCEPT ![w] = IF t.kind = "receive" THEN NoConn ELSE t.client]
      /\ got' = [got EXCEPT ![w] = FALSE]
      /\ UNCHANGED <<kernelVars, mapVars, loopVars, left, removerVars, faultVars>>
  BY DEF TakeTask
<1>2. /\ t \in Jobs /\ t = queue[1] /\ queue' \in Seq(Jobs) /\ Len(queue) \in Nat \ {0}
      /\ Len(queue') = Len(queue) - 1
      /\ \A i \in 1 .. Len(queue') : queue'[i] = queue[i + 1] /\ i + 1 \in 1 .. Len(queue)
  BY <1>1, HeadTailProperties DEF TypeOK
<1>3. t \in ReceiveTasks \cup SendTasks
  BY <1>2 DEF TaskInv
<1>4. \/ t.kind = "receive" /\ t \in ReceiveTasks /\ slot.fd \in Fds
      \/ t.kind = "send" /\ t.client \in Known
  BY <1>2, <1>3 DEF ReceiveTasks, SendTasks, TaskInv
<1> HIDE DEF t
<1>5. /\ job'[w] = t /\ at'[w] = (IF t.kind = "receive" THEN "start" ELSE "lock")
      /\ cur'[w] = (IF t.kind = "receive" THEN NoConn ELSE t.client)
      /\ \A v \in Workers \ {w} : job'[v] = job[v] /\ at'[v] = at[v] /\ cur'[v] = cur[v]
  BY <1>1 DEF TypeOK
<1>6. TypeOK'
  <2>1. got' \in [Workers -> BOOLEAN]
    BY <1>1, Zenon DEF TypeOK
  <2>2. job' \in [Workers -> Jobs]
    BY <1>1, <1>2 DEF TypeOK
  <2>3. at' \in [Workers -> {"idle", "start", "check", "recv", "publish",
                             "rearm", "lock", "write", "send"}]
    BY <1>1 DEF TypeOK
  <2>4. cur' \in [Workers -> Conns \cup {NoConn}]
    BY <1>1, <1>4 DEF TypeOK, Known
  <2> QED BY <1>1, <1>2, <2>1, <2>2, <2>3, <2>4 DEF TypeOK
<1>7. Known' = Known
  BY <1>1, KnownFrame
<1>8. TaskInv'
  <2>1. ReceiveTasks' = ReceiveTasks /\ SendTasks' = SendTasks
    BY <1>7 DEF ReceiveTasks, SendTasks
  <2>2. \A i \in 1 .. Len(queue') : queue'[i] \in ReceiveTasks \cup SendTasks
    BY <1>2 DEF TaskInv
  <2>3. /\ at'[w] = "idle" => job'[w].kind = "none"
        /\ at'[w] \in Receiving => job'[w] \in ReceiveTasks
        /\ at'[w] \in Sending => job'[w].kind = "send"
        /\ at'[w] \notin {"idle", "start"} => cur'[w] \in Known
    BY <1>4, <1>5 DEF Receiving, Sending
  <2>4. \/ slot.fd \in Fds
        \/ /\ \A i \in 1 .. Len(queue') : queue'[i].kind # "receive"
           /\ \A v \in Workers : job'[v].kind # "receive"
    BY <1>2, <1>4, <1>5 DEF TaskInv
  <2> QED BY <1>1, <1>5, <1>7, <2>1, <2>2, <2>3, <2>4 DEF TaskInv
<1>9. LiveSenderHoldsWriteMutex'
  BY <1>1, <1>5 DEF LiveSenderHoldsWriteMutex, Writing
<1> QED BY <1>1, <1>6, <1>8, <1>9, SocketFrame, InputFrame, BacklogFrame, IndexFrame

(* client->receive_data() through the reference.                           *)
LEMMA StartBase ==
    ASSUME BaseInv, NEW w \in Workers, StartReceive(w)
    PROVE  BaseInv'
<1> USE DEF BaseInv, kernelVars, mapVars, loopVars, removerVars, faultVars
<1>1. CASE Crash
  BY <1>1, CrashBase
<1>2. CASE ~Crash
  <2>1. PICK c \in SlotClients(w) :
          /\ c \in Conns /\ cur' = [cur EXCEPT ![w] = c]
          /\ crossed' \in {crossed, crossed \cup ({job[w].client, c} \cap Conns)}
    BY <1>2 DEF StartReceive
  <2>2. /\ at[w] = "start" /\ at' = [at EXCEPT ![w] = "check"]
        /\ UNCHANGED <<kernelVars, mapVars, loopVars, queue, job, got, left, removerVars,
                       threw, crashed>>
    BY <1>2 DEF StartReceive, Goto
  <2>3. c \in Known
    <3>1. c = job[w].client \/ c = slot.client
      BY DEF SlotClients
    <3>2. job[w] \in ReceiveTasks
      BY <2>2 DEF TaskInv, Receiving
    <3> QED BY <2>1, <3>1, <3>2, ConnsAssumption DEF TaskInv, ReceiveTasks
  <2>4. /\ at'[w] = "check" /\ cur'[w] = c
        /\ \A v \in Workers \ {w} : at'[v] = at[v] /\ cur'[v] = cur[v]
    BY <2>1, <2>2 DEF TypeOK
  <2>5. TypeOK'
    <3>1. cur' \in [Workers -> Conns \cup {NoConn}] /\ crossed' \in SUBSET Conns
      BY <2>1 DEF TypeOK
    <3>2. at' \in [Workers -> {"idle", "start", "check", "recv", "publish",
                               "rearm", "lock", "write", "send"}]
      BY <2>2 DEF TypeOK
    <3> QED BY <2>2, <3>1, <3>2 DEF TypeOK
  <2>6. Known' = Known
    BY <2>2, KnownFrame
  <2>7. TaskInv'
    <3>1. ReceiveTasks' = ReceiveTasks /\ SendTasks' = SendTasks
      BY <2>6 DEF ReceiveTasks, SendTasks
    <3>2. \A v \in Workers :
          /\ at'[v] = "idle" => job[v].kind = "none"
          /\ at'[v] \in Receiving => job[v] \in ReceiveTasks
          /\ at'[v] \in Sending => job[v].kind = "send"
          /\ at'[v] \notin {"idle", "start"} => cur'[v] \in Known
      BY <2>2, <2>3, <2>4 DEF TaskInv, Receiving, Sending
    <3> QED BY <2>2, <2>6, <3>1, <3>2 DEF TaskInv
  <2>8. LiveSenderHoldsWriteMutex'
    BY <2>2, <2>4 DEF LiveSenderHoldsWriteMutex, Writing
  <2> QED BY <2>2, <2>5, <2>7, <2>8, SocketFrame, InputFrame, BacklogFrame, IndexFrame
<1> QED BY <1>1, <1>2

(* The loop of receive_data.                                               *)
LEMMA ReceiveBase ==
    ASSUME BaseInv, NEW w \in Workers, CheckConnected(w) \/ RecvData(w) \/ RecvDrained(w)
    PROVE  BaseInv'
<1> USE DEF BaseInv, kernelVars, mapVars, loopVars, removerVars, faultVars
<1>1. /\ UNCHANGED <<sock, fd, supplied, eof, wire, interest, ready, backlog, mapVars, loopVars,
                     queue, job, cur, left, removerVars, faultVars>>
      /\ at[w] \in {"check", "recv"}
      /\ \E place \in {"check", "recv", "publish", "rearm"} : Goto(w, place)
  BY DEF CheckConnected, RecvData, RecvDrained
<1>2. PICK place \in {"check", "recv", "publish", "rearm"} : Goto(w, place)
  BY <1>1
<1>3. at'[w] = place /\ \A v \in Workers \ {w} : at'[v] = at[v]
  BY <1>2 DEF Goto, TypeOK
<1>4. unread' \in [Conns -> 0 .. MaxUnits] /\ InputInv'
  <2>1. unread' = unread \/ \E c \in Conns : unread' = [unread EXCEPT ![c] = 0]
    BY DEF CheckConnected, RecvData, RecvDrained, OpenOn
  <2>2. /\ unread \in [Conns -> 0 .. MaxUnits] /\ supplied \in [Conns -> 0 .. MaxUnits]
    BY DEF TypeOK
  <2>3. \A c \in Conns : supplied[c] >= 0 /\ (unread'[c] = unread[c] \/ unread'[c] = 0)
    BY <2>1, <2>2, MaxUnitsAssumption
  <2>4. unread' \in [Conns -> 0 .. MaxUnits]
    BY <2>1, <2>2, MaxUnitsAssumption
  <2>5. InputInv'
    BY <1>1, <2>3 DEF InputInv
  <2> QED BY <2>4, <2>5
<1>5. TypeOK'
  <2>1. got' \in [Workers -> BOOLEAN]
    <3>1. got' \in {got, [got EXCEPT ![w] = TRUE]}
      BY DEF CheckConnected, RecvData, RecvDrained
    <3> QED BY <3>1, Zenon DEF TypeOK
  <2>2. at' \in [Workers -> {"idle", "start", "check", "recv", "publish",
                             "rearm", "lock", "write", "send"}]
    BY <1>2 DEF Goto, TypeOK
  <2> QED BY <1>1, <1>4, <2>1, <2>2 DEF TypeOK
<1>6. TaskInv'
  BY <1>1, <1>2, MoveTask DEF Receiving
<1>7. LiveSenderHoldsWriteMutex'
  BY <1>1, <1>3 DEF LiveSenderHoldsWriteMutex, Writing
<1> QED BY <1>1, <1>4, <1>5, <1>6, <1>7, SocketFrame, BacklogFrame, IndexFrame

(* A task that ends; it may have given up its connection, written its      *)
(* response, armed the descriptor or thrown.                               *)
LEMMA EndBase ==
    ASSUME BaseInv, NEW w \in Workers, EndTask(w), at[w] \notin {"idle", "start"},
           UNCHANGED <<sock, fd, unread, supplied, eof, backlog, clients_idx_, loopVars,
                       queue, got, removerVars, crashed>>,
           crossed' \subseteq Conns,
           connected' \in {connected, [connected EXCEPT ![cur[w]] = FALSE]},
           \/ client_write_mtx_' = client_write_mtx_
           \/ Unlock(w),
           wire' \in [Conns -> SUBSET Conns],
           interest' \in [Fds -> {"none", "armed", "disarmed"}],
           ready' \subseteq Fds \cup {ListenFd},
           threw' \in [Conns -> BOOLEAN]
    PROVE  BaseInv'
<1> USE DEF BaseInv, loopVars, removerVars
<1>1. /\ TaskInv' /\ at'[w] = "idle"
      /\ \A v \in Workers \ {w} : at'[v] = at[v] /\ cur'[v] = cur[v]
      /\ at' \in [Workers -> {"idle", "start", "check", "recv", "publish",
                              "rearm", "lock", "write", "send"}]
      /\ job' \in [Workers -> Jobs]
      /\ cur' \in [Workers -> Conns \cup {NoConn}]
      /\ left' \in [Workers -> 0 .. Pieces]
  BY FinishTask
<1>2. cur[w] \in Conns /\ fd[cur[w]] \in Fds
  BY DEF TaskInv, Known, SocketInv
<1>3. /\ connected' \in [Conns -> BOOLEAN]
      /\ \A c \in Conns : connected'[c] => connected[c]
  <2>1. connected' \in [Conns -> BOOLEAN]
    BY Zenon DEF TypeOK
  <2>2. \A c \in Conns : connected'[c] => connected[c]
    BY DEF TypeOK
  <2> QED BY <2>1, <2>2
<1>4. /\ client_write_mtx_' \in [Fds -> {"absent", "free"} \cup Workers]
      /\ \A f \in Fds : client_write_mtx_'[f] = client_write_mtx_[f] \/ client_write_mtx_[f] = w
  <2>1. client_write_mtx_ \in [Fds -> {"absent", "free"} \cup Workers]
    BY DEF TypeOK
  <2>2. CASE client_write_mtx_' = client_write_mtx_
    BY <2>1, <2>2
  <2>3. CASE Unlock(w)
    BY <1>2, <2>1, <2>3 DEF Unlock
  <2> QED BY <2>2, <2>3
<1>5. TypeOK'
  BY <1>1, <1>3, <1>4 DEF TypeOK
<1>6. SocketInv'
  BY <1>3 DEF SocketInv
<1>7. LiveSenderHoldsWriteMutex'
  <2> SUFFICES ASSUME NEW v \in Workers, Writing(v)', connected'[cur'[v]]
               PROVE  client_write_mtx_'[fd'[cur'[v]]] = v
    BY DEF LiveSenderHoldsWriteMutex
  <2>1. v # w /\ Writing(v) /\ cur'[v] = cur[v]
    BY <1>1 DEF Writing
  <2>2. cur[v] \in Conns /\ fd[cur[v]] \in Fds
    BY <2>1 DEF Writing, TaskInv, Known, SocketInv
  <2>3. client_write_mtx_[fd[cur[v]]] = v
    BY <1>3, <2>1, <2>2 DEF LiveSenderHoldsWriteMutex
  <2> QED BY <1>4, <2>1, <2>2, <2>3
<1> QED BY <1>1, <1>5, <1>6, <1>7, InputFrame, BacklogFrame, IndexFrame

LEMMA RecvFailsBase ==
    ASSUME BaseInv, NEW w \in Workers, RecvFails(w)
    PROVE  BaseInv'
<1> USE DEF kernelVars, mapVars, faultVars
<1>1. /\ at[w] = "recv" /\ EndTask(w)
      /\ connected' = [connected EXCEPT ![cur[w]] = FALSE]
      /\ UNCHANGED <<kernelVars, clients_idx_, client_write_mtx_, loopVars, queue, got,
                     removerVars, faultVars>>
  BY DEF RecvFails, Disconnect
<1>2. /\ crossed' \subseteq Conns /\ wire' \in [Conns -> SUBSET Conns]
      /\ interest' \in [Fds -> {"none", "armed", "disarmed"}]
      /\ ready' \subseteq Fds \cup {ListenFd}
      /\ threw' \in [Conns -> BOOLEAN]
  BY <1>1 DEF BaseInv, TypeOK
<1> QED BY <1>1, <1>2, EndBase

LEMMA RearmBase ==
    ASSUME BaseInv, NEW w \in Workers, Rearm(w)
    PROVE  BaseInv'
<1> USE DEF mapVars, faultVars
<1>1. /\ at[w] = "rearm" /\ EndTask(w)
      /\ UNCHANGED <<sock, fd, unread, supplied, eof, wire, backlog, mapVars, loopVars,
                     queue, got, removerVars, threw, crashed>>
  BY DEF Rearm
<1>2. PICK f \in SlotFds(w) :
        /\ interest' = [interest EXCEPT ![f] = IF f \in FreeFds THEN @ ELSE "armed"]
        /\ ready' = IF f \notin FreeFds /\ HasInput(f) THEN ready \cup {f} ELSE ready
        /\ crossed' \subseteq crossed \cup Conns
  BY DEF Rearm, OpenOn
<1>3. f \in Fds
  <2>1. job[w] \in ReceiveTasks /\ job[w].kind = "receive"
    BY <1>1 DEF BaseInv, TaskInv, Receiving, ReceiveTasks
  <2>2. job[w].fd \in Fds /\ slot.fd \in Fds
    BY <2>1 DEF BaseInv, TaskInv, ReceiveTasks
  <2> QED BY <2>2 DEF SlotFds
<1>4. /\ wire' \in [Conns -> SUBSET Conns]
      /\ interest' \in [Fds -> {"none", "armed", "disarmed"}]
      /\ ready' \subseteq Fds \cup {ListenFd}
      /\ threw' \in [Conns -> BOOLEAN] /\ crossed' \subseteq Conns
  BY <1>1, <1>2, <1>3 DEF BaseInv, TypeOK
<1> QED BY <1>1, <1>4, EndBase

(* publish_client_msg: what it submits is a response to its own client.    *)
LEMMA PublishBase ==
    ASSUME BaseInv, NEW w \in Workers, PublishMsg(w)
    PROVE  BaseInv'
<1> USE DEF kernelVars, mapVars, loopVars, removerVars
<1>1. /\ at[w] = "publish"
      /\ UNCHANGED <<kernelVars, mapVars, loopVars, got, removerVars, crossed, crashed>>
  BY DEF PublishMsg
<1>2. CASE EndTask(w) /\ threw' = [threw EXCEPT ![cur[w]] = TRUE] /\ UNCHANGED queue
  <2>1. threw' \in [Conns -> BOOLEAN]
    BY <1>2, Zenon DEF BaseInv, TypeOK
  <2>2. /\ wire' \in [Conns -> SUBSET Conns]
        /\ interest' \in [Fds -> {"none", "armed", "disarmed"}]
        /\ ready' \subseteq Fds \cup {ListenFd} /\ crossed' \subseteq Conns
    BY <1>1 DEF BaseInv, TypeOK
  <2> QED BY <1>1, <1>2, <2>1, <2>2, EndBase
<1>3. CASE Goto(w, "rearm") /\ UNCHANGED <<job, cur, left, threw>>
           /\ (queue' = queue \/ queue' = Append(queue, SendTask(cur[w])))
  <2> USE DEF BaseInv
  <2>1. at'[w] = "rearm" /\ \A v \in Workers \ {w} : at'[v] = at[v]
    BY <1>3 DEF Goto, TypeOK
  <2>2. cur[w] \in Known
    BY <1>1 DEF TaskInv
  <2>3. Known' = Known
    BY <1>1, KnownFrame
  <2>4. ReceiveTasks' = ReceiveTasks /\ SendTasks' = SendTasks
    BY <2>3 DEF ReceiveTasks, SendTasks
  <2>5. SendTask(cur[w]) \in SendTasks /\ SendTask(cur[w]) \in Jobs /\ SendTask(cur[w]).kind = "send"
    BY <2>2 DEF SendTask, SendTasks, Jobs, Entries, Known
  <2>6. /\ queue' \in Seq(Jobs)
        /\ \A i \in 1 .. Len(queue') :
              \/ queue'[i] = SendTask(cur[w])
              \/ i \in 1 .. Len(queue) /\ queue'[i] = queue[i]
    <3> DEFINE t == SendTask(cur[w])
    <3>1. queue \in Seq(Jobs) /\ t \in Jobs /\ (queue' = queue \/ queue' = Append(queue, t))
      BY <1>3, <2>5 DEF TypeOK
    <3> HIDE DEF t
    <3>2. CASE queue' = queue
      BY <3>1, <3>2
    <3>3. CASE queue' = Append(queue, t)
      BY <3>1, <3>3 DEF t
    <3> QED BY <3>1, <3>2, <3>3
  <2>7. TypeOK'
    <3>1. at' \in [Workers -> {"idle", "start", "check", "recv", "publish",
                               "rearm", "lock", "write", "send"}]
      BY <1>3 DEF Goto, TypeOK
    <3> QED BY <1>1, <1>3, <2>6, <3>1 DEF TypeOK
  <2>8. TaskInv'
    <3>1. \A i \in 1 .. Len(queue') : queue'[i] \in ReceiveTasks \cup SendTasks
      BY <2>5, <2>6 DEF TaskInv
    <3>2. \A v \in Workers :
          /\ at'[v] = "idle" => job[v].kind = "none"
          /\ at'[v] \in Receiving => job[v] \in ReceiveTasks
          /\ at'[v] \in Sending => job[v].kind = "send"
          /\ at'[v] \notin {"idle", "start"} => cur[v] \in Known
      BY <1>1, <2>1 DEF TaskInv, Receiving, Sending
    <3>3. \/ slot.fd \in Fds
          \/ /\ \A i \in 1 .. Len(queue') : queue'[i].kind # "receive"
             /\ \A v \in Workers : job[v].kind # "receive"
      BY <2>5, <2>6 DEF TaskInv
    <3> QED BY <1>1, <1>3, <2>3, <2>4, <3>1, <3>2, <3>3 DEF TaskInv
  <2>9. LiveSenderHoldsWriteMutex'
    BY <1>1, <1>3, <2>1 DEF LiveSenderHoldsWriteMutex, Writing
  <2> QED BY <1>1, <2>7, <2>8, <2>9, SocketFrame, InputFrame, BacklogFrame, IndexFrame
<1> QED BY <1>2, <1>3 DEF PublishMsg, AfterMsg

(* The response task.                                                      *)
LEMMA LockBase ==
    ASSUME BaseInv, NEW w \in Workers, LockWrite(w) \/ CheckWrite(w)
    PROVE  BaseInv'
<1> USE DEF BaseInv, kernelVars, loopVars, removerVars, faultVars
<1>1. CASE Crash
  BY <1>1, CrashBase
<1>2. CASE ~Crash
  <2>1. /\ UNCHANGED <<kernelVars, connected, clients_idx_, loopVars, queue, job, cur, got,
                       removerVars, faultVars>>
        /\ at[w] \in Sending
        /\ left' \in {left, [left EXCEPT ![w] = Pieces]}
        /\ \E place \in {"write", "send"} : Goto(w, place)
    BY <1>2 DEF LockWrite, CheckWrite, Sending, mapVars
  <2>2. PICK place \in {"write", "send"} : Goto(w, place)
    BY <2>1
  <2>3. cur[w] \in Conns /\ fd[cur[w]] \in Fds
    BY <2>1 DEF TaskInv, Sending, Known, SocketInv
  <2>4. /\ client_write_mtx_' \in [Fds -> {"absent", "free"} \cup Workers]
        /\ \A f \in Fds : \/ client_write_mtx_'[f] = client_write_mtx_[f]
                          \/ client_write_mtx_[f] = "free"
    <3>1. \/ client_write_mtx_' = client_write_mtx_
          \/ /\ client_write_mtx_[fd[cur[w]]] = "free"
             /\ client_write_mtx_' = [client_write_mtx_ EXCEPT ![fd[cur[w]]] = w]
      BY <1>2 DEF LockWrite, CheckWrite, mapVars
    <3>2. client_write_mtx_ \in [Fds -> {"absent", "free"} \cup Workers]
      BY DEF TypeOK
    <3> QED BY <2>3, <3>1, <3>2
  <2>5. client_write_mtx_'[fd[cur[w]]] = w \/ (at[w] = "write" /\ client_write_mtx_' = client_write_mtx_)
    BY <1>2, <2>3 DEF LockWrite, CheckWrite, mapVars, TypeOK
  <2>6. at'[w] = place /\ \A v \in Workers \ {w} : at'[v] = at[v]
    BY <2>2 DEF Goto, TypeOK
  <2>7. TypeOK'
    <3>1. at' \in [Workers -> {"idle", "start", "check", "recv", "publish",
                               "rearm", "lock", "write", "send"}]
      BY <2>2 DEF Goto, TypeOK
    <3>2. left' \in [Workers -> 0 .. Pieces]
      <4>1. left \in [Workers -> 0 .. Pieces] /\ Pieces \in 0 .. Pieces
        BY PiecesAssumption DEF TypeOK
      <4> QED BY <2>1, <4>1
    <3> QED BY <2>1, <2>4, <3>1, <3>2 DEF TypeOK
  <2>8. TaskInv'
    BY <2>1, <2>2, MoveTask DEF Sending
  <2>9. LiveSenderHoldsWriteMutex'
    <3> SUFFICES ASSUME NEW v \in Workers, Writing(v)', connected'[cur'[v]]
                 PROVE  client_write_mtx_'[fd'[cur'[v]]] = v
      BY DEF LiveSenderHoldsWriteMutex
    <3>1. CASE v = w
      BY <2>1, <2>5, <3>1 DEF LiveSenderHoldsWriteMutex, Writing
    <3>2. CASE v # w
      <4>1. Writing(v) /\ cur[v] \in Conns /\ fd[cur[v]] \in Fds
        BY <2>6, <3>2 DEF Writing, TaskInv, Known, SocketInv
      <4>2. client_write_mtx_[fd[cur[v]]] = v /\ v # "free"
        BY <2>1, <4>1, WorkersAssumption DEF LiveSenderHoldsWriteMutex
      <4> QED BY <2>1, <2>4, <4>1, <4>2
    <3> QED BY <3>1, <3>2
  <2> QED BY <2>1, <2>7, <2>8, <2>9, SocketFrame, InputFrame, BacklogFrame, IndexFrame
<1> QED BY <1>1, <1>2

(* A piece of a response that has more of them: the worker keeps the       *)
(* mutex.                                                                  *)
MorePieces(w) ==
    /\ Goto(w, "write")
    /\ \E n \in 1 .. left[w] - 1 : left' = [left EXCEPT ![w] = @ - n]
    /\ UNCHANGED <<client_write_mtx_, job, cur>>

LEMMA SendCases ==
    ASSUME BaseInv, NEW w \in Workers, SendData(w)
    PROVE  /\ at[w] = "send"
           /\ UNCHANGED <<sock, fd, unread, supplied, eof, interest, ready, backlog,
                          connected, clients_idx_, loopVars, queue, got, removerVars, faultVars>>
           /\ wire' \in [Conns -> SUBSET Conns]
           /\ \/ MorePieces(w)
              \/ Unlock(w) /\ EndTask(w)
<1>1. PICK c \in OpenOn(fd[cur[w]]) : wire' = [wire EXCEPT ![c] = @ \cup {cur[w]}]
  BY DEF SendData
<1>2. at[w] = "send" /\ cur[w] \in Conns
  BY DEF SendData, BaseInv, TaskInv, Known
<1>3. wire' \in [Conns -> SUBSET Conns]
  <2>1. wire \in [Conns -> SUBSET Conns]
    BY DEF BaseInv, TypeOK
  <2> QED BY <1>1, <1>2, <2>1 DEF OpenOn
<1> QED BY <1>2, <1>3 DEF SendData, MorePieces

LEMMA PieceBase ==
    ASSUME BaseInv, NEW w \in Workers, SendData(w), MorePieces(w)
    PROVE  BaseInv'
<1> USE DEF BaseInv, loopVars, removerVars, faultVars
<1>1. /\ at[w] = "send" /\ Goto(w, "write") /\ wire' \in [Conns -> SUBSET Conns]
      /\ UNCHANGED <<sock, fd, unread, supplied, eof, interest, ready, backlog, connected,
                     clients_idx_, loopVars, queue, got, removerVars, faultVars,
                     client_write_mtx_, job, cur>>
  BY SendCases DEF MorePieces
<1>2. left' \in [Workers -> 0 .. Pieces]
  <2>1. left \in [Workers -> 0 .. Pieces] /\ left[w] \in 0 .. Pieces
    BY DEF TypeOK
  <2>2. PICK n \in 1 .. left[w] - 1 : left' = [left EXCEPT ![w] = @ - n]
    BY DEF MorePieces
  <2>3. left[w] - n \in 0 .. Pieces
    BY <2>1, PiecesAssumption
  <2> QED BY <2>1, <2>2, <2>3
<1>3. at'[w] = "write" /\ \A v \in Workers \ {w} : at'[v] = at[v]
  BY <1>1 DEF Goto, TypeOK
<1>4. TypeOK'
  <2>1. at' \in [Workers -> {"idle", "start", "check", "recv", "publish",
                             "rearm", "lock", "write", "send"}]
    BY <1>1 DEF Goto, TypeOK
  <2> QED BY <1>1, <1>2, <2>1 DEF TypeOK
<1>5. TaskInv'
  BY <1>1, MoveTask DEF Sending
<1>6. LiveSenderHoldsWriteMutex'
  BY <1>1, <1>3 DEF LiveSenderHoldsWriteMutex, Writing
<1> QED BY <1>1, <1>4, <1>5, <1>6, SocketFrame, InputFrame, BacklogFrame, IndexFrame

LEMMA SendBase ==
    ASSUME BaseInv, NEW w \in Workers, (SendData(w) /\ ~MorePieces(w)) \/ SendFails(w)
    PROVE  BaseInv'
<1> USE DEF kernelVars, mapVars, faultVars
<1>1. /\ at[w] \in {"write", "send"} /\ EndTask(w) /\ Unlock(w)
      /\ UNCHANGED <<sock, fd, unread, supplied, eof, interest, ready, backlog,
                     clients_idx_, loopVars, queue, got, removerVars, faultVars>>
      /\ connected' \in {connected, [connected EXCEPT ![cur[w]] = FALSE]}
      /\ wire' = wire \/ wire' \in [Conns -> SUBSET Conns]
  <2>1. CASE SendData(w) /\ ~MorePieces(w)
    BY <2>1, SendCases
  <2>2. CASE SendFails(w)
    BY <2>2 DEF SendFails
  <2> QED BY <2>1, <2>2
<1>2. /\ interest' \in [Fds -> {"none", "armed", "disarmed"}]
      /\ ready' \subseteq Fds \cup {ListenFd}
      /\ threw' \in [Conns -> BOOLEAN] /\ crossed' \subseteq Conns
      /\ wire' \in [Conns -> SUBSET Conns]
  BY <1>1 DEF BaseInv, TypeOK
<1> QED BY <1>1, <1>2, EndBase

LEMMA WorkerBase ==
    ASSUME BaseInv, NEW w \in Workers, Worker(w)
    PROVE  BaseInv'
BY TakeTaskBase, StartBase, ReceiveBase, RecvFailsBase, PublishBase, RearmBase, LockBase, PieceBase,
   SendBase DEF Worker

-----------------------------------------------------------------------------
(* The remover.  The descriptor it closes may be accepted again before its *)
(* entries are erased, but not inserted.                                   *)
LEMMA RemoverClosesBase ==
    ASSUME BaseInv, RemoverCloses
    PROVE  BaseInv'
<1> USE DEF BaseInv, loopVars, poolVars, faultVars
<1>1. PICK f \in DeadFds :
        /\ victim' = f
        /\ connected' = [connected EXCEPT ![clients_idx_[f]] = FALSE]
        /\ CloseSocket(clients_idx_[f], f)
  BY DEF RemoverCloses
<1> DEFINE c == clients_idx_[f]
<1>2. /\ f \in Fds /\ c \in Conns /\ ~connected[c]
      /\ remover = "scan" /\ remover' = "eraseMtx"
      /\ sock' = [sock EXCEPT ![c] = "closed"]
      /\ interest' = [interest EXCEPT ![f] = "none"]
      /\ ready' = ready \ {f}
      /\ UNCHANGED <<fd, unread, supplied, eof, wire, backlog, clients_idx_,
                     client_write_mtx_, loopVars, poolVars, faultVars>>
  BY <1>1 DEF RemoverCloses, DeadFds, CloseSocket
<1>3. Erased = {} /\ Erased' = {f}
  BY <1>1, <1>2 DEF Erased
<1>4. c \in Known /\ fd[c] = f /\ sock[c] = "open"
  BY <1>2, <1>3 DEF IndexInv
<1> HIDE DEF c
<1>5. sock'[c] = "closed" /\ \A d \in Conns \ {c} : sock'[d] = sock[d]
  BY <1>2 DEF TypeOK
<1>6. /\ connected' \in [Conns -> BOOLEAN]
      /\ \A d \in Conns : connected'[d] => connected[d] /\ d # c
  <2>1. connected' = [connected EXCEPT ![c] = FALSE]
    BY <1>1 DEF c
  <2>2. connected' \in [Conns -> BOOLEAN]
    BY <2>1, Zenon DEF TypeOK
  <2> QED BY <1>2, <2>1, <2>2 DEF TypeOK
<1>7. TypeOK'
  <2>1. /\ sock' \in [Conns -> {"new", "pending", "open", "closed"}]
        /\ interest' \in [Fds -> {"none", "armed", "disarmed"}]
        /\ victim' \in Fds \cup {NoFd}
    BY <1>1, <1>2 DEF TypeOK
  <2> QED BY <1>2, <1>6, <2>1 DEF TypeOK
<1>8. SocketInv'
  BY <1>2, <1>4, <1>5, <1>6 DEF SocketInv
<1>9. \A i \in 1 .. Len(backlog) : backlog[i] \in Conns \ {c}
  <2>1. loop = "insert" => c # Head(backlog)
    BY <1>4 DEF Known, Inserting
  <2>2. \A i \in 1 .. Len(backlog) : backlog[i] \in Conns
    BY DEF TypeOK
  <2>3. backlog # <<>> => Head(backlog) = backlog[1]
    BY DEF TypeOK
  <2> QED BY <1>4, <2>1, <2>2, <2>3 DEF BacklogInv
<1>10. BacklogInv'
  BY <1>2, <1>5, <1>9 DEF BacklogInv
<1>11. Inserting' = Inserting /\ Open' = Open \ {c} /\ Known' = Known
  BY <1>2, <1>4, <1>5 DEF Inserting, Open, Known
<1>12. IndexInv'
  <2>1. \A g \in Fds \ {f} : clients_idx_[g] \in Conns =>
          clients_idx_[g] # c /\ sock'[clients_idx_[g]] = sock[clients_idx_[g]]
    BY <1>4, <1>5 DEF IndexInv
  <2>2. \A g \in Fds : clients_idx_[g] \in Conns =>
            /\ clients_idx_[g] \in Known'
            /\ fd[clients_idx_[g]] = g
            /\ sock'[clients_idx_[g]] = "open" \/ g \in Erased'
    BY <1>3, <1>11, <2>1 DEF IndexInv
  <2>3. \A d \in Open \ {c} : fd[d] # f
    BY <1>2, <1>4 DEF Open, SocketInv, c
  <2> QED BY <1>2, <1>3, <1>11, <2>2, <2>3 DEF IndexInv
<1>13. TaskInv'
  BY <1>2, <1>11, TaskFrame
<1>14. LiveSenderHoldsWriteMutex'
  <2>1. \A w \in Workers : Writing(w) => cur[w] \in Conns
    BY DEF Writing, TaskInv, Known
  <2> QED BY <1>2, <1>6, <2>1 DEF LiveSenderHoldsWriteMutex, Writing
<1> QED BY <1>2, <1>7, <1>8, <1>10, <1>12, <1>13, <1>14, InputFrame

LEMMA RemoverErasesBase ==
    ASSUME BaseInv, RemoverErasesMtx \/ RemoverErasesIdx
    PROVE  BaseInv'
<1> USE DEF BaseInv, kernelVars, loopVars, poolVars, faultVars
<1>1. /\ remover \in {"eraseMtx", "eraseIdx"}
      /\ UNCHANGED <<kernelVars, connected, loopVars, poolVars, faultVars>>
      /\ \/ /\ remover' = "eraseIdx" /\ victim' = victim /\ clients_idx_' = clients_idx_
            /\ client_write_mtx_' = [client_write_mtx_ EXCEPT ![victim] = "absent"]
         \/ /\ remover' = "scan" /\ victim' = NoFd
            /\ clients_idx_' = [clients_idx_ EXCEPT ![victim] = NoConn]
            /\ client_write_mtx_' = client_write_mtx_
  BY DEF RemoverErasesMtx, RemoverErasesIdx
<1>2. Erased = {victim} /\ victim \in Fds
  BY <1>1 DEF Erased, IndexInv
<1>3. Erased' \subseteq {victim}
  BY <1>1 DEF Erased
<1>4. TypeOK'
  <2>1. /\ clients_idx_' \in [Fds -> Entries]
        /\ client_write_mtx_' \in [Fds -> {"absent", "free"} \cup Workers]
        /\ victim' \in Fds \cup {NoFd} /\ remover' \in {"off", "asleep", "scan", "eraseMtx", "eraseIdx"}
    BY <1>1, <1>2 DEF TypeOK, Entries
  <2> QED BY <1>1, <2>1 DEF TypeOK
<1>5. Known' = Known /\ Inserting' = Inserting /\ Open' = Open
  BY <1>1, KnownFrame
<1>6. IndexInv'
  <2>1. \A f \in Fds : clients_idx_'[f] \in Conns =>
          clients_idx_'[f] = clients_idx_[f] /\ (f = victim => Erased' = Erased)
    BY <1>1, <1>2, ConnsAssumption DEF TypeOK, Erased
  <2>2. \A f \in Fds : clients_idx_'[f] \in Conns =>
            /\ clients_idx_'[f] \in Known
            /\ fd[clients_idx_'[f]] = f
            /\ sock[clients_idx_'[f]] = "open" \/ f \in Erased'
    BY <1>2, <2>1 DEF IndexInv
  <2> QED BY <1>1, <1>2, <1>3, <1>5, <2>2 DEF IndexInv
<1>7. TaskInv'
  BY <1>1, <1>5, TaskFrame
<1>8. LiveSenderHoldsWriteMutex'
  <2>1. ASSUME NEW w \in Workers, Writing(w), connected[cur[w]]
        PROVE  fd[cur[w]] \in Fds \ {victim}
    <3>1. cur[w] \in Known /\ cur[w] \in Open
      BY <2>1 DEF Writing, TaskInv, Known, Open, SocketInv
    <3> QED BY <1>2, <3>1 DEF IndexInv, Known, Open, SocketInv
  <2>2. \A f \in Fds \ {victim} : client_write_mtx_'[f] = client_write_mtx_[f]
    BY <1>1 DEF TypeOK
  <2> QED BY <1>1, <2>1, <2>2 DEF LiveSenderHoldsWriteMutex, Writing
<1> QED BY <1>1, <1>4, <1>6, <1>7, <1>8, SocketFrame, InputFrame, BacklogFrame

LEMMA RemoverBase ==
    ASSUME BaseInv, Remover
    PROVE  BaseInv'
<1>1. CASE RemoverWakes \/ RemoverSleeps
  <2> USE DEF BaseInv, kernelVars, mapVars, loopVars, poolVars, faultVars
  <2>1. /\ UNCHANGED <<kernelVars, mapVars, loopVars, poolVars, victim, faultVars>>
        /\ remover \in {"asleep", "scan"} /\ remover' \in {"asleep", "scan"}
    BY <1>1 DEF RemoverWakes, RemoverSleeps
  <2>2. TypeOK'
    BY <2>1 DEF TypeOK
  <2>3. Known' = Known /\ Inserting' = Inserting /\ Open' = Open /\ Erased' = Erased
    BY <2>1, KnownFrame DEF Erased
  <2>4. IndexInv'
    BY <2>1, <2>3 DEF IndexInv
  <2>5. TaskInv'
    BY <2>1, <2>3, TaskFrame
  <2> QED BY <2>1, <2>2, <2>4, <2>5, SocketFrame, InputFrame, BacklogFrame, MutexFrame
<1>2. CASE RemoverMeetsNull \/ RemoverCloseThrows
  BY <1>2, CrashBase DEF RemoverMeetsNull, RemoverCloseThrows
<1> QED BY <1>1, <1>2, RemoverClosesBase, RemoverErasesBase DEF Remover

(* send_to_client and send_to_all_clients only put bytes on the wire.      *)
LEMMA ApiBase ==
    ASSUME BaseInv, Api
    PROVE  BaseInv'
<1>1. CASE CallMeetsNull
  BY <1>1, CrashBase DEF CallMeetsNull
<1>2. CASE send_to_client \/ send_to_all_clients
  <2>1. PICK targets \in SUBSET AllFds : SendTo(targets)
    BY <1>2 DEF send_to_client, send_to_all_clients
  <2> USE DEF BaseInv, mapVars, loopVars, poolVars, removerVars, faultVars
  <2>2. UNCHANGED <<sock, fd, unread, supplied, eof, interest, ready, backlog,
                    mapVars, loopVars, poolVars, removerVars, faultVars>>
    BY <2>1 DEF SendTo
  <2>3. wire' \in [Conns -> SUBSET Conns]
    <3>1. \A f \in targets : clients_idx_[f] \in Conns
      BY DEF AllFds
    <3> QED BY <2>1, <3>1 DEF SendTo, TypeOK
  <2>4. TypeOK'
    BY <2>2, <2>3 DEF TypeOK
  <2>5. TaskInv'
    BY <2>2, TaskFrame, KnownFrame
  <2> QED BY <2>2, <2>4, <2>5, SocketFrame, InputFrame, BacklogFrame, IndexFrame, MutexFrame
<1> QED BY <1>1, <1>2 DEF Api

LEMMA NextBase == BaseInv /\ [Next]_vars => BaseInv'
<1> SUFFICES ASSUME BaseInv, [Next]_vars PROVE BaseInv'
  OBVIOUS
<1>1. ASSUME NEW c \in Conns, Peer(c) PROVE BaseInv'
  BY <1>1, PeerConnectsBase, PeerInputBase DEF Peer
<1>2. CASE Loop
  BY <1>2, EpollWaitBase, AcceptBase, InsertBase, AcceptThrowsBase, LookupBase, SubmitBase DEF Loop
<1>3. CASE UNCHANGED vars
  <2> USE <1>3 DEF vars, BaseInv, kernelVars, mapVars, loopVars, poolVars, removerVars, faultVars
  <2>1. TypeOK'
    BY DEF TypeOK
  <2>2. TaskInv'
    BY TaskFrame, KnownFrame
  <2> QED BY <2>1, <2>2, SocketFrame, InputFrame, BacklogFrame, IndexFrame, MutexFrame
<1> QED BY <1>1, <1>2, <1>3, WorkerBase, RemoverBase, ApiBase DEF Next, Halted

LEMMA BaseInvariance == Spec => []BaseInv
<1> QED BY InitBase, NextBase, PTL DEF Spec

-----------------------------------------------------------------------------
(* Responses.  A socket's descriptor is for ever, and so is its end.       *)
WireInv ==
    \A c \in Conns : \A d \in wire[c] :
        /\ sock[c] \in {"open", "closed"}
        /\ d = c \/ (sock[d] = "closed" /\ fd[d] = fd[c])

LEMMA SocketsLast ==
    ASSUME BaseInv, [Next]_vars
    PROVE  \A c \in Conns : sock[c] \in {"open", "closed"} =>
              /\ sock'[c] \in {"open", "closed"} /\ fd'[c] = fd[c]
              /\ sock[c] = "closed" => sock'[c] = "closed"
<1> USE DEF BaseInv
<1> DEFINE Last == \A c \in Conns : sock[c] \in {"open", "closed"} =>
              /\ sock'[c] \in {"open", "closed"} /\ fd'[c] = fd[c]
              /\ sock[c] = "closed" => sock'[c] = "closed"
<1>1. ASSUME UNCHANGED <<sock, fd>> PROVE Last
  BY <1>1
<1>2. ASSUME NEW c \in Conns, Peer(c) PROVE Last
  BY <1>1, <1>2 DEF Peer, PeerConnects, PeerSends, PeerCloses, TypeOK
<1>3. ASSUME AcceptClient PROVE Last
  <2>1. backlog # <<>> /\ loop = "dispatch" /\ Head(backlog) \in Conns /\ sock[Head(backlog)] = "pending"
    BY <1>3 DEF AcceptClient, TypeOK, BacklogInv
  <2>2. \E f \in FreeFds : /\ sock' = [sock EXCEPT ![Head(backlog)] = "open"]
                           /\ fd' = [fd EXCEPT ![Head(backlog)] = f]
    BY <1>3 DEF AcceptClient
  <2> QED BY <2>1, <2>2 DEF TypeOK
<1>4. ASSUME RemoverCloses PROVE Last
  BY <1>4 DEF RemoverCloses, DeadFds, CloseSocket, TypeOK
<1>5. ASSUME Loop, ~AcceptClient PROVE Last
  BY <1>1, <1>5 DEF Loop, EpollWait, InsertClient, AcceptThrows, LookupClient, SubmitReceive, kernelVars
<1>6. ASSUME NEW w \in Workers, Worker(w) PROVE UNCHANGED <<sock, fd>>
  BY <1>6 DEF Worker, TakeTask, StartReceive, CheckConnected, RecvData, RecvDrained, RecvFails,
              Disconnect, PublishMsg, Rearm, LockWrite, CheckWrite, SendData, SendFails, Crash, kernelVars
<1>7. ASSUME Remover, ~RemoverCloses PROVE UNCHANGED <<sock, fd>>
  BY <1>7 DEF Remover, RemoverWakes, RemoverCloseThrows, RemoverMeetsNull, RemoverErasesMtx,
              RemoverErasesIdx, RemoverSleeps, Crash, kernelVars
<1>8. ASSUME Api \/ Halted \/ UNCHANGED vars PROVE UNCHANGED <<sock, fd>>
  BY <1>8 DEF Api, send_to_client, send_to_all_clients, SendTo, CallMeetsNull, Halted, vars, Crash,
              kernelVars
<1> HIDE DEF Last
<1>9. Last
  BY <1>1, <1>2, <1>3, <1>4, <1>5, <1>6, <1>7, <1>8 DEF Next
<1> QED BY <1>9 DEF Last

(* Who writes, and where to: a worker, on whatever has the descriptor now, *)
(* or a call that has client_mtx, on the client it found in the map.       *)
LEMMA WireSteps ==
    ASSUME [Next]_vars
    PROVE  \/ UNCHANGED wire
           \/ \E w \in Workers : SendData(w)
           \/ \E targets \in SUBSET AllFds : SendTo(targets) /\ remover \in {"off", "asleep"}
<1> USE DEF kernelVars, Crash
<1>1. ASSUME NEW c \in Conns, Peer(c) PROVE UNCHANGED wire
  BY <1>1 DEF Peer, PeerConnects, PeerSends, PeerCloses
<1>2. ASSUME Loop PROVE UNCHANGED wire
  BY <1>2 DEF Loop, EpollWait, AcceptClient, InsertClient, AcceptThrows, LookupClient, SubmitReceive
<1>3. ASSUME NEW w \in Workers, Worker(w) PROVE UNCHANGED wire \/ SendData(w)
  BY <1>3 DEF Worker, TakeTask, StartReceive, CheckConnected, RecvData, RecvDrained, RecvFails,
              Disconnect, PublishMsg, Rearm, LockWrite, CheckWrite, SendFails
<1>4. ASSUME Remover PROVE UNCHANGED wire
  BY <1>4 DEF Remover, RemoverWakes, RemoverCloses, RemoverCloseThrows, RemoverMeetsNull,
              RemoverErasesMtx, RemoverErasesIdx, RemoverSleeps
<1>5. ASSUME Api
      PROVE  UNCHANGED wire
             \/ \E targets \in SUBSET AllFds : SendTo(targets) /\ remover \in {"off", "asleep"}
  BY <1>5 DEF Api, send_to_client, send_to_all_clients, CallMeetsNull, ClientMtxFree
<1>6. ASSUME Halted \/ UNCHANGED vars PROVE UNCHANGED wire
  BY <1>6 DEF Halted, vars
<1> QED BY <1>1, <1>2, <1>3, <1>4, <1>5, <1>6 DEF Next

LEMMA NextWire ==
    ASSUME BaseInv, WireInv, [Next]_vars
    PROVE  WireInv'
<1> USE DEF BaseInv
<1> SUFFICES ASSUME NEW c \in Conns, NEW d \in wire'[c]
             PROVE  /\ sock'[c] \in {"open", "closed"}
                    /\ d = c \/ (sock'[d] = "closed" /\ fd'[d] = fd'[c])
  BY DEF WireInv
<1>1. TypeOK'
  BY NextBase DEF BaseInv
<1>2. d \in Conns
  BY <1>1 DEF TypeOK
<1>3. CASE d \in wire[c]
  <2>1. sock[c] \in {"open", "closed"} /\ (d = c \/ (sock[d] = "closed" /\ fd[d] = fd[c]))
    BY <1>3 DEF WireInv
  <2> QED BY <1>2, <2>1, SocketsLast
<1>4. ASSUME d \notin wire[c]
      PROVE  sock[c] = "open" /\ (d = c \/ (sock[d] = "closed" /\ fd[d] = fd[c]))
  <2>1. ASSUME NEW w \in Workers, SendData(w)
        PROVE  sock[c] = "open" /\ (d = c \/ (sock[d] = "closed" /\ fd[d] = fd[c]))
    <3>1. PICK b \in OpenOn(fd[cur[w]]) : wire' = [wire EXCEPT ![b] = @ \cup {cur[w]}]
      BY <2>1 DEF SendData
    <3>2. c = b /\ d = cur[w]
      BY <1>4, <3>1 DEF TypeOK
    <3>3. sock[c] = "open" /\ fd[c] = fd[d]
      BY <3>1, <3>2 DEF OpenOn
    <3>4. d \in Known
      BY <2>1, <3>2 DEF SendData, TaskInv
    <3> QED BY <1>2, <3>3, <3>4 DEF Known, SocketInv
  <2>2. ASSUME NEW targets \in SUBSET AllFds, SendTo(targets), remover \in {"off", "asleep"}
        PROVE  sock[c] = "open" /\ d = c
    <3>1. PICK f \in targets : d = clients_idx_[f] /\ c \in OpenOn(fd[clients_idx_[f]])
      BY <1>4, <2>2 DEF SendTo
    <3>2. sock[d] = "open" /\ sock[c] = "open" /\ fd[c] = fd[d]
      BY <1>2, <2>2, <3>1 DEF AllFds, IndexInv, Erased, OpenOn
    <3> QED BY <1>2, <3>2 DEF SocketInv
  <2> QED BY <1>4, <2>1, <2>2, WireSteps
<1>5. CASE d \notin wire[c]
  <2>1. sock[c] = "open" /\ (d = c \/ (sock[d] = "closed" /\ fd[d] = fd[c]))
    BY <1>4, <1>5
  <2> QED BY <1>2, <2>1, SocketsLast
<1> QED BY <1>3, <1>5

(* Whatever the pool, its tasks and the remover do, with any number of     *)
(* workers, failing and partial sends: no pointer, descriptor or position  *)
(* is ever outside its type, a response to a live connection is written    *)
(* under the write mutex of its descriptor, and bytes go to another        *)
(* connection only when the one they were meant for has been closed.       *)
THEOREM ResponseSafety == Spec => []ResponsesAreSafe
<1>1. Init => WireInv
  BY DEF Init, WireInv
<1>2. BaseInv /\ WireInv /\ [Next]_vars => WireInv'
  BY NextWire
<1>3. BaseInv /\ WireInv => ResponsesAreSafe
  BY DEF BaseInv, WireInv, ResponsesAreSafe, StrayAnswersAreForTheDead
<1> QED BY <1>1, <1>2, <1>3, BaseInvariance, PTL DEF Spec


-----------------------------------------------------------------------------
(* Dispatch.  Steps that leave the parts of DispatchInv alone, in terms of *)
(* the sets that it speaks of.                                             *)
LEMMA PendingFrame ==
    ASSUME UNCHANGED <<queue, job>>
    PROVE  Pending' = Pending
BY DEF Pending

LEMMA EventsFrame ==
    ASSUME EventsInv, UNCHANGED events_
    PROVE  EventsInv' /\ InEvents' = InEvents
BY DEF EventsInv, InEvents

LEMMA ArmedFrame ==
    ASSUME UNCHANGED interest
    PROVE  Armed' = Armed
BY DEF Armed

LEMMA CleanShrinks ==
    ASSUME crossed \subseteq crossed', UNCHANGED clients_idx_, Open' \subseteq Open
    PROVE  Clean' \subseteq Clean
BY DEF Clean

LEMMA ReadyKeeps ==
    ASSUME ReadyInv, Armed' = Armed, Open' = Open, Inserting' \subseteq Inserting, UNCHANGED fd,
           ready \subseteq ready', ready' \subseteq ready \cup {ListenFd},
           \A c \in Open : Readable(c)' => Readable(c)
    PROVE  ReadyInv'
BY DEF ReadyInv

LEMMA PairKeeps ==
    ASSUME PairInv, Pending' \subseteq Pending, Open' \subseteq Open, crossed \subseteq crossed',
           UNCHANGED <<fd, slot>>, loop' = "submit" => loop = "submit"
    PROVE  PairInv'
BY DEF PairInv

LEMMA CurKeeps ==
    ASSUME CurInv, crossed \subseteq crossed', UNCHANGED <<job, cur>>,
           \A w \in Workers : at'[w] \in Receiving \ {"start"} => at[w] \in Receiving \ {"start"}
    PROVE  CurInv'
BY DEF CurInv

LEMMA ArmedKeeps ==
    ASSUME ArmedInv, Open' \subseteq Open, crossed \subseteq crossed', Armed' \subseteq Armed,
           InEvents' \subseteq InEvents, Pending' \subseteq Pending, UNCHANGED fd
    PROVE  ArmedInv'
BY DEF ArmedInv

LEMMA EventKeeps ==
    ASSUME EventInv, Clean' \subseteq Clean, crossed \subseteq crossed',
           InEvents' \subseteq InEvents, Pending' \subseteq Pending,
           UNCHANGED <<fd, slot>>, loop' = "submit" => loop = "submit"
    PROVE  EventInv'
BY DEF EventInv

LEMMA OneTaskKeeps ==
    ASSUME OneTaskInv, crossed \subseteq crossed', UNCHANGED <<queue, job>>
    PROVE  OneTaskInv'
BY DEF OneTaskInv, IsFor

LEMMA LiveKeeps ==
    ASSUME LiveInv, Live' \subseteq Live, crossed \subseteq crossed',
           \A c \in Live : threw[c] => threw'[c],
           (Armed \cup InEvents) \cap {fd[c] : c \in Live'} \subseteq Armed' \cup InEvents',
           Pending \subseteq Pending', UNCHANGED fd
    PROVE  LiveInv'
BY DEF LiveInv

LEMMA FollowKeeps ==
    ASSUME FollowInv, UNCHANGED <<clients_idx_, fd>>, Open' \subseteq Open,
           Inserting' = Inserting, crossed \subseteq crossed'
    PROVE  FollowInv'
BY DEF FollowInv

(* The variables that DispatchInv speaks of, but for those of the workers  *)
(* and the sockets.                                                        *)
LEMMA DispatchFrame ==
    ASSUME DispatchInv,
           UNCHANGED <<sock, fd, eof, interest, ready, backlog, connected, clients_idx_,
                       loop, events_, slot, queue, job, cur, threw>>,
           crossed \subseteq crossed',
           \A c \in Conns : unread'[c] > 0 => unread[c] > 0,
           \A w \in Workers : at'[w] \in Receiving \ {"start"} => at[w] \in Receiving \ {"start"}
    PROVE  DispatchInv'
<1> USE DEF DispatchInv
<1>1. Open' = Open /\ Inserting' = Inserting
  BY KnownFrame
<1>2. Live' = Live
  BY <1>1 DEF Live
<1>3. Armed' = Armed /\ InEvents' = InEvents /\ EventsInv' /\ Pending' = Pending
  BY ArmedFrame, EventsFrame, PendingFrame
<1>4. Clean' \subseteq Clean
  BY <1>1, CleanShrinks
<1>5. \A c \in Open : Readable(c)' => Readable(c)
  BY DEF Readable, Open
<1>6. ReadyInv'
  BY <1>1, <1>3, <1>5, ReadyKeeps
<1>7. LiveInv'
  BY <1>2, <1>3, LiveKeeps
<1> QED BY <1>1, <1>3, <1>4, <1>6, <1>7, PairKeeps, CurKeeps, ArmedKeeps, EventKeeps, OneTaskKeeps,
           FollowKeeps

(* Taking the first event away.                                            *)
LEMMA EventsTail ==
    ASSUME TypeOK, EventsInv, events_ # <<>>, events_' = Tail(events_)
    PROVE  /\ Head(events_) \in InEvents
           /\ InEvents' = InEvents \ {Head(events_)}
           /\ EventsInv'
<1>1. /\ Len(events_) \in Nat \ {0} /\ Len(events_') = Len(events_) - 1
      /\ Head(events_) = events_[1] /\ 1 \in 1 .. Len(events_)
      /\ \A i \in 1 .. Len(events_') : events_'[i] = events_[i + 1] /\ i + 1 \in 1 .. Len(events_)
  BY HeadTailProperties DEF TypeOK
<1>2. \A i \in 1 .. Len(events_') : events_'[i] \in InEvents /\ events_'[i] # Head(events_)
  <2> SUFFICES ASSUME NEW i \in 1 .. Len(events_')
               PROVE  events_'[i] \in InEvents /\ events_'[i] # Head(events_)
    OBVIOUS
  <2>1. i + 1 # 1
    OBVIOUS
  <2> QED BY <1>1, <2>1 DEF EventsInv, InEvents
<1>3. \A i \in 1 .. Len(events_) : events_[i] # Head(events_) =>
        i - 1 \in 1 .. Len(events_') /\ events_'[i - 1] = events_[i]
  BY <1>1
<1>4. InEvents' = {events_'[i] : i \in 1 .. Len(events_')}
  BY DEF InEvents
<1>5. InEvents' \subseteq InEvents \ {Head(events_)}
  BY <1>2, <1>4
<1>6. InEvents \ {Head(events_)} \subseteq InEvents'
  BY <1>3, <1>4 DEF InEvents
<1>7. EventsInv'
  <2> SUFFICES ASSUME NEW i \in 1 .. Len(events_'), NEW j \in 1 .. Len(events_'),
                      events_'[i] = events_'[j]
               PROVE  i = j
    BY DEF EventsInv
  <2>1. i + 1 = j + 1
    BY <1>1 DEF EventsInv
  <2> QED BY <2>1
<1> QED BY <1>1, <1>5, <1>6, <1>7 DEF InEvents

LEMMA InsertingOpen ==
    ASSUME BaseInv
    PROVE  Inserting \subseteq Open
<1> SUFFICES ASSUME loop = "insert" PROVE Head(backlog) \in Open
  BY DEF Inserting
<1>1. backlog # <<>> /\ backlog \in Seq(Conns)
  BY DEF BaseInv, BacklogInv, TypeOK
<1>2. 1 \in 1 .. Len(backlog) /\ Head(backlog) = backlog[1] /\ Head(backlog) \in Conns
  BY <1>1
<1> QED BY <1>2 DEF BaseInv, BacklogInv, Open

(* What is pending: tasks of known clients or of the null pointer, in the  *)
(* queue or in the hands of a worker.                                      *)
LEMMA PendingTasks ==
    ASSUME BaseInv
    PROVE  /\ Pending \subseteq ReceiveTasks
           /\ \A i \in 1 .. Len(queue) : queue[i].kind = "receive" => queue[i] \in Pending
           /\ \A w \in Workers : job[w].kind = "receive" => job[w] \in Pending
           /\ \A t \in Pending : t.kind = "receive" /\ t.fd \in Fds
                                 /\ (t.client \in Known \/ t.client = NullConn)
<1> USE DEF BaseInv
<1>1. \A i \in 1 .. Len(queue) : queue[i] \in Jobs
  BY DEF TypeOK
<1>2. \A w \in Workers : job[w] \in Jobs
  BY DEF TypeOK
<1>3. \A w \in Workers : job[w].kind = "receive" => job[w] \in ReceiveTasks
  BY DEF TaskInv, TypeOK, Receiving, Sending
<1>4. \A i \in 1 .. Len(queue) : queue[i].kind = "receive" => queue[i] \in ReceiveTasks
  BY DEF TaskInv, SendTasks
<1>5. Pending \subseteq ReceiveTasks
  BY <1>3, <1>4 DEF Pending
<1> QED BY <1>1, <1>2, <1>5 DEF Pending, ReceiveTasks

LEMMA HandledMeans ==
    ASSUME BaseInv, NEW f
    PROVE  HandledBySomeone(f) <=> f \in InEvents \/ \E t \in Pending : t.fd = f
<1>1. HandledBySomeone(f) => f \in InEvents \/ \E t \in Pending : t.fd = f
  BY PendingTasks DEF HandledBySomeone, InEvents
<1>2. f \in InEvents => HandledBySomeone(f)
  BY DEF InEvents, HandledBySomeone
<1>3. (\E t \in Pending : t.fd = f) => HandledBySomeone(f)
  BY DEF Pending, HandledBySomeone
<1> QED BY <1>1, <1>2, <1>3

-----------------------------------------------------------------------------
LEMMA InitDispatch == Init => DispatchInv
<1> SUFFICES ASSUME Init PROVE DispatchInv
  OBVIOUS
<1>1. InEvents = {} /\ Pending = {} /\ Armed = {} /\ Open = {} /\ Inserting = {} /\ Live = {}
  BY DEF Init, InEvents, Pending, Armed, Open, Inserting, Live, NoTask
<1>2. EventsInv /\ OneTaskInv
  BY DEF Init, EventsInv, OneTaskInv, NoTask, IsFor
<1>3. CurInv
  BY DEF Init, CurInv, Receiving
<1>4. PairInv /\ ArmedInv /\ EventInv /\ LiveInv
  BY <1>1 DEF Init, PairInv, ArmedInv, EventInv, LiveInv
<1>5. ReadyInv /\ FollowInv
  BY <1>1 DEF Init, ReadyInv, FollowInv
<1> QED BY <1>2, <1>3, <1>4, <1>5 DEF DispatchInv

(* The peers: input on an armed descriptor puts it on the ready list.      *)
LEMMA PeerDispatch ==
    ASSUME BaseInv, DispatchInv, NEW c \in Conns, Peer(c)
    PROVE  DispatchInv'
<1> USE DEF DispatchInv, mapVars, loopVars, poolVars, removerVars, faultVars
<1>1. UNCHANGED <<fd, interest, connected, clients_idx_, loop, events_, slot, queue, at, job, cur,
                  threw, crossed>>
  BY DEF Peer, PeerConnects, PeerSends, PeerCloses
<1>2. Open' = Open /\ Inserting' = Inserting /\ ReadyInv'
  <2>1. CASE PeerConnects(c)
    <3>1. /\ sock[c] = "new" /\ sock' = [sock EXCEPT ![c] = "pending"] /\ UNCHANGED <<unread, eof>>
          /\ backlog' = Append(backlog, c) /\ ready' = ready \cup {ListenFd}
      BY <2>1 DEF PeerConnects
    <3>2. Open' = Open
      BY <3>1 DEF Open, BaseInv, TypeOK
    <3>3. loop = "insert" => Head(backlog') = Head(backlog)
      BY <3>1 DEF BaseInv, TypeOK, BacklogInv
    <3>4. Inserting' = Inserting
      BY <1>1, <3>3 DEF Inserting
    <3>5. \A d \in Open : Readable(d)' => Readable(d)
      BY <3>1 DEF Readable
    <3> QED BY <1>1, <3>1, <3>2, <3>4, <3>5, ArmedFrame, ReadyKeeps
  <2>2. CASE PeerSends(c) \/ PeerCloses(c)
    <3>1. UNCHANGED <<sock, backlog>> /\ Edge(c)
      BY <2>2 DEF PeerSends, PeerCloses
    <3>2. Open' = Open /\ Inserting' = Inserting /\ Armed' = Armed
      BY <1>1, <3>1, KnownFrame, ArmedFrame
    <3>3. \A d \in Open \ {c} : Readable(d)' => Readable(d)
      BY <2>2 DEF PeerSends, PeerCloses, Readable, Open, BaseInv, TypeOK
    <3>4. ready' = IF c \in Open /\ fd[c] \in Armed THEN ready \cup {fd[c]} ELSE ready
      BY <3>1 DEF Edge, Open, Armed, BaseInv, SocketInv
    <3> QED BY <1>1, <3>2, <3>3, <3>4 DEF ReadyInv
  <2> QED BY <2>1, <2>2 DEF Peer
<1>3. Live' = Live
  BY <1>1, <1>2 DEF Live
<1>4. Armed' = Armed /\ InEvents' = InEvents /\ EventsInv' /\ Pending' = Pending
  BY <1>1, ArmedFrame, EventsFrame, PendingFrame
<1>5. Clean' \subseteq Clean
  BY <1>1, <1>2, CleanShrinks
<1>6. LiveInv'
  BY <1>1, <1>3, <1>4, LiveKeeps
<1> QED BY <1>1, <1>2, <1>4, <1>5, <1>6, PairKeeps, CurKeeps, ArmedKeeps, EventKeeps, OneTaskKeeps,
           FollowKeeps

-----------------------------------------------------------------------------
(* The event loop.  An event that epoll_wait reports takes the token out   *)
(* of the kernel.                                                          *)
LEMMA EpollWaitDispatch ==
    ASSUME BaseInv, DispatchInv, EpollWait
    PROVE  DispatchInv'
<1> USE DEF DispatchInv, mapVars, poolVars, removerVars, faultVars
<1> DEFINE batch == {f \in ready : HasInput(f)}
<1>1. /\ loop = "dispatch" /\ events_ = <<>> /\ ready' = {} /\ interest' = Disarm(batch)
      /\ UNCHANGED <<sock, fd, unread, eof, backlog, connected, clients_idx_, loop, slot,
                     queue, at, job, cur, threw, crossed>>
  BY DEF EpollWait
<1>2. EventsInv' /\ InEvents' = batch /\ InEvents = {}
  BY <1>1, EpollWaitBatch DEF BaseInv, EventsInv, InEvents
<1>3. \A c \in Open : fd[c] \in ready /\ Readable(c) => fd[c] \in batch
  BY DEF HasInput, OpenOn, Open
<1>4. Armed' = Armed \ batch
  BY <1>1 DEF Disarm, Armed
<1>5. batch \ {ListenFd} \subseteq Armed
  BY DEF ReadyInv
<1> HIDE DEF batch
<1>6. Open' = Open /\ Inserting' = Inserting /\ Inserting = {} /\ Pending' = Pending /\ Live' = Live
  BY <1>1, KnownFrame, PendingFrame DEF Inserting, Live, Open
<1>7. Clean' \subseteq Clean
  BY <1>1, <1>6, CleanShrinks
<1>8. ReadyInv'
  <2>1. \A c \in Open : Readable(c)' = Readable(c)
    BY <1>1 DEF Readable
  <2>2. \A c \in Open : fd[c] \in Armed /\ Readable(c) => fd[c] \in batch
    BY <1>3 DEF ReadyInv
  <2> QED BY <1>1, <1>4, <1>6, <2>1, <2>2 DEF ReadyInv
<1>9. ArmedInv'
  BY <1>1, <1>2, <1>4, <1>6 DEF ArmedInv
<1>10. EventInv'
  <2> SUFFICES ASSUME NEW c \in Clean, fd[c] \in batch
               PROVE  \A t \in Pending : t.fd # fd[c]
    BY <1>1, <1>2, <1>6, <1>7 DEF EventInv
  <2>1. c \in Open
    <3> SUFFICES ASSUME c \notin Open PROVE FALSE
      OBVIOUS
    <3>1. PICK f \in Fds : clients_idx_[f] = c
      BY DEF Clean
    <3>2. fd[c] = f /\ f \in Erased
      BY <3>1 DEF BaseInv, IndexInv, Clean, Open
    <3>3. f \in Armed
      BY <1>5, <3>2, FdsAssumption
    <3> QED BY <1>6, <3>2, <3>3 DEF BaseInv, IndexInv, ReadyInv
  <2>2. fd[c] \in Armed
    BY <1>5, <2>1, FdsAssumption DEF BaseInv, SocketInv, Open
  <2> QED BY <2>1, <2>2 DEF ArmedInv, Clean
<1>11. LiveInv'
  BY <1>1, <1>2, <1>4, <1>6, LiveKeeps
<1> QED BY <1>1, <1>2, <1>6, <1>8, <1>9, <1>10, <1>11, PairKeeps, CurKeeps, OneTaskKeeps, FollowKeeps

(* A connection that accept_client does not cross gets a descriptor that   *)
(* nobody handles.                                                         *)
LEMMA AcceptDispatch ==
    ASSUME BaseInv, DispatchInv, AcceptClient
    PROVE  DispatchInv'
<1> USE DEF DispatchInv, poolVars, removerVars
<1> DEFINE c == Head(backlog)
<1>1. PICK f \in FreeFds :
        /\ sock' = [sock EXCEPT ![c] = "open"]
        /\ fd' = [fd EXCEPT ![c] = f]
        /\ connected' = [connected EXCEPT ![c] = TRUE]
        /\ interest' = [interest EXCEPT ![f] = "armed"]
        /\ ready' = IF Readable(c) THEN ready \cup {f} ELSE ready
        /\ crossed' = IF HandledBySomeone(f) \/ clients_idx_[f] = NullConn
                      THEN crossed \cup {c} ELSE crossed
  BY DEF AcceptClient
<1>2. /\ loop = "dispatch" /\ loop' = "insert" /\ backlog # <<>>
      /\ UNCHANGED <<unread, eof, backlog, clients_idx_, events_, slot, queue, at, job, cur, threw>>
  BY DEF AcceptClient
<1>3. c \in Conns /\ sock[c] = "pending"
  BY <1>2 DEF BaseInv, TypeOK, BacklogInv
<1>4. f \in Fds /\ \A d \in Open : fd[d] # f
  BY DEF FreeFds, OpenOn, Open
<1>5. Inserting = {} /\ Inserting' = {c}
  BY <1>2 DEF Inserting
<1> HIDE DEF c
<1>6. /\ Open' = Open \cup {c} /\ c \notin Open /\ fd'[c] = f
      /\ \A d \in Conns \ {c} : fd'[d] = fd[d]
      /\ Live' \subseteq Live \cup {c}
  BY <1>1, <1>3 DEF Open, Live, BaseInv, TypeOK
<1>7. Armed' = Armed \cup {f} /\ f \notin Armed
  <2>1. Armed' = Armed \cup {f}
    BY <1>1, <1>4 DEF Armed, BaseInv, TypeOK
  <2> QED BY <1>4, <2>1 DEF ReadyInv
<1>8. InEvents' = InEvents /\ EventsInv' /\ Pending' = Pending
  BY <1>2, EventsFrame, PendingFrame
<1>9. crossed \subseteq crossed' /\ (c \in crossed' \/ (f \notin InEvents /\ \A t \in Pending : t.fd # f))
  BY <1>1, HandledMeans
<1>10. c \notin Known /\ \A t \in Pending : t.client # c
  <2>1. c \notin Known /\ c # NullConn
    BY <1>3, ConnsAssumption DEF Known
  <2> QED BY <2>1, PendingTasks
<1>11. \A d \in Clean' : d = c \/ d \in Clean
  BY <1>2, <1>6, <1>9 DEF Clean
<1>12. ReadyInv'
  <2>1. \A d \in Open' : Readable(d)' = Readable(d)
    BY <1>2 DEF Readable
  <2>2. ready' \ {ListenFd} \subseteq Armed'
    BY <1>1, <1>7 DEF ReadyInv
  <2>3. \A g \in Armed' : \E d \in Open' : fd'[d] = g
    BY <1>6, <1>7 DEF ReadyInv, Open
  <2>4. \A d \in Open' : fd'[d] \in Armed' /\ Readable(d) => fd'[d] \in ready'
    BY <1>1, <1>4, <1>6, <1>7 DEF ReadyInv, Open
  <2> QED BY <1>5, <1>6, <1>7, <2>1, <2>2, <2>3, <2>4 DEF ReadyInv
<1>13. PairInv'
  <2>1. \A t \in Pending : t.client \in Conns => fd'[t.client] = t.fd
    BY <1>6, <1>10 DEF PairInv
  <2>2. \A d \in Open' \ crossed', t \in Pending : t.fd = fd'[d] => t.client = d
    BY <1>6, <1>9 DEF PairInv, Open
  <2> QED BY <1>2, <1>8, <2>1, <2>2 DEF PairInv
<1>14. ArmedInv'
  <2> SUFFICES ASSUME NEW d \in Open' \ crossed', fd'[d] \in Armed'
               PROVE  fd'[d] \notin InEvents /\ \A t \in Pending : t.fd # fd'[d]
    BY <1>8 DEF ArmedInv
  <2>1. CASE d = c
    BY <1>6, <1>9, <2>1
  <2>2. CASE d # c
    BY <1>4, <1>6, <1>7, <1>9, <2>2 DEF ArmedInv, Open
  <2> QED BY <2>1, <2>2
<1>15. EventInv'
  <2> SUFFICES ASSUME NEW d \in Clean', fd'[d] \in InEvents
               PROVE  \A t \in Pending : t.fd # fd'[d]
    BY <1>2, <1>8 DEF EventInv
  <2>1. CASE d = c
    BY <1>6, <1>9, <2>1 DEF Clean
  <2>2. CASE d # c
    BY <1>6, <1>11, <2>2 DEF EventInv, Clean
  <2> QED BY <2>1, <2>2
<1>16. LiveInv'
  <2> SUFFICES ASSUME NEW d \in Live' \ crossed', d # c
               PROVE  threw[d] \/ fd'[d] \in Armed' \cup InEvents \/ \E t \in Pending : t.fd = fd'[d]
    BY <1>2, <1>6, <1>7, <1>8 DEF LiveInv
  <2> QED BY <1>6, <1>7, <1>9 DEF LiveInv, Live, Open
<1>17. FollowInv'
  <2>1. clients_idx_[f] = NullConn => c \in crossed'
    BY <1>1
  <2>2. \A d \in Open :
           clients_idx_[fd'[d]] = d \/ (clients_idx_[fd'[d]] = NullConn /\ d \in crossed')
    BY <1>5, <1>6, <1>9 DEF FollowInv, Open
  <2> QED BY <1>2, <1>5, <1>6, <2>1, <2>2 DEF FollowInv
<1> QED BY <1>2, <1>8, <1>9, <1>12, <1>13, <1>14, <1>15, <1>16, <1>17, CurKeeps, OneTaskKeeps

LEMMA InsertDispatch ==
    ASSUME BaseInv, DispatchInv, InsertClient
    PROVE  DispatchInv'
<1> USE DEF DispatchInv, poolVars, removerVars, faultVars
<1> DEFINE c == Head(backlog)
<1>1. /\ loop = "insert" /\ remover \in {"off", "asleep"} /\ loop' = "dispatch"
      /\ clients_idx_' = [clients_idx_ EXCEPT ![fd[c]] = IF @ = NoConn THEN c ELSE @]
      /\ events_' = Tail(events_)
      /\ UNCHANGED <<sock, fd, unread, eof, interest, ready, connected, slot,
                     queue, at, job, cur, threw, crossed>>
  BY DEF InsertClient, ClientMtxFree, NextEvents
<1>2. /\ events_ # <<>> /\ Head(events_) = ListenFd
      /\ c \in Conns /\ sock[c] = "open" /\ fd[c] \in Fds
  <2>1. events_ # <<>> /\ Head(events_) = ListenFd
    BY <1>1 DEF BaseInv, BacklogInv
  <2>2. c \in Open
    BY <1>1, InsertingOpen DEF Inserting
  <2> QED BY <2>1, <2>2 DEF BaseInv, SocketInv, Open
<1>3. Inserting = {c} /\ Inserting' = {} /\ Erased = {}
  BY <1>1 DEF Inserting, Erased
<1> HIDE DEF c
<1>4. Open' = Open /\ Live' = Live /\ c \in Open
  BY <1>1, <1>2 DEF Open, Live
<1>5. InEvents' = InEvents \ {ListenFd} /\ EventsInv'
  BY <1>1, <1>2, EventsTail DEF BaseInv
<1>6. Armed' = Armed /\ Pending' = Pending
  BY <1>1, ArmedFrame, PendingFrame
<1>7. /\ \A f \in Fds \ {fd[c]} : clients_idx_'[f] = clients_idx_[f]
      /\ clients_idx_'[fd[c]] = IF clients_idx_[fd[c]] = NoConn THEN c ELSE clients_idx_[fd[c]]
  BY <1>1, <1>2 DEF BaseInv, TypeOK
<1>8. Clean' \subseteq Clean
  BY <1>1, <1>4, <1>7 DEF Clean
<1>9. ReadyInv'
  <2>1. \A d \in Open : Readable(d)' => Readable(d)
    BY <1>1 DEF Readable
  <2> QED BY <1>1, <1>3, <1>4, <1>6, <2>1, ReadyKeeps
<1>10. LiveInv'
  <2>1. \A d \in Live' : fd[d] # ListenFd
    BY <1>4, FdsAssumption DEF Live, Open, BaseInv, SocketInv
  <2> QED BY <1>1, <1>4, <1>5, <1>6, <2>1, LiveKeeps
<1>11. FollowInv'
  <2> SUFFICES ASSUME NEW d \in Open
               PROVE  clients_idx_'[fd[d]] = d \/ (clients_idx_'[fd[d]] = NullConn /\ d \in crossed)
    BY <1>1, <1>3, <1>4 DEF FollowInv
  <2>1. CASE d # c
    <3>1. fd[d] \in Fds \ {fd[c]}
      BY <1>4, <2>1 DEF BaseInv, SocketInv, Open
    <3> QED BY <1>3, <1>7, <2>1, <3>1 DEF FollowInv
  <2>2. CASE d = c
    <3> DEFINE e == clients_idx_[fd[c]]
    <3>1. e \in Entries
      BY <1>2 DEF BaseInv, TypeOK
    <3>2. e \in Conns => e = c
      BY <1>2, <1>3 DEF BaseInv, IndexInv, SocketInv
    <3>3. e = NullConn => c \in crossed
      BY <1>3 DEF FollowInv
    <3> QED BY <1>7, <2>2, <3>1, <3>2, <3>3, ConnsAssumption DEF Entries
  <2> QED BY <2>1, <2>2
<1> QED BY <1>1, <1>4, <1>5, <1>6, <1>8, <1>9, <1>10, <1>11, PairKeeps, CurKeeps, ArmedKeeps, EventKeeps,
           OneTaskKeeps

LEMMA AcceptThrowsDispatch ==
    ASSUME BaseInv, DispatchInv, AcceptThrows
    PROVE  DispatchInv'
<1> USE DEF DispatchInv, kernelVars, mapVars, poolVars, removerVars, faultVars
<1>1. /\ loop = "dispatch" /\ loop' = "thrown"
      /\ UNCHANGED <<sock, fd, unread, eof, interest, ready, connected, clients_idx_, events_, slot,
                     queue, at, job, cur, threw, crossed>>
  BY DEF AcceptThrows
<1>2. Open' = Open /\ Live' = Live /\ Inserting' = Inserting
  BY <1>1 DEF Open, Live, Inserting
<1>3. Armed' = Armed /\ Pending' = Pending /\ InEvents' = InEvents /\ EventsInv'
  BY <1>1, ArmedFrame, PendingFrame, EventsFrame
<1>4. Clean' \subseteq Clean
  BY <1>1, <1>2, CleanShrinks
<1>5. ReadyInv'
  <2>1. \A d \in Open : Readable(d)' => Readable(d)
    BY <1>1 DEF Readable
  <2> QED BY <1>1, <1>2, <1>3, <2>1, ReadyKeeps
<1>6. LiveInv'
  BY <1>1, <1>2, <1>3, LiveKeeps
<1> QED BY <1>1, <1>2, <1>3, <1>4, <1>5, <1>6, PairKeeps, CurKeeps, ArmedKeeps, EventKeeps,
           OneTaskKeeps, FollowKeeps

(* What handle_et_event looks up for an event that nothing has crossed is  *)
(* the connection the event is for.                                        *)
LEMMA LookupDispatch ==
    ASSUME BaseInv, DispatchInv, LookupClient
    PROVE  DispatchInv'
<1> USE DEF DispatchInv, kernelVars, poolVars, removerVars, faultVars
<1> DEFINE f == Head(events_)
           c == IF clients_idx_[f] = NoConn THEN NullConn ELSE clients_idx_[f]
<1>1. /\ loop = "dispatch" /\ loop' = "submit" /\ events_ # <<>> /\ f \in Fds
      /\ clients_idx_' = [clients_idx_ EXCEPT ![f] = c]
      /\ slot' = [client |-> c, fd |-> f]
      /\ UNCHANGED <<sock, fd, unread, eof, interest, ready, backlog, connected, events_,
                     queue, at, job, cur, threw, crossed>>
  BY DEF LookupClient
<1>2. f \in InEvents
  <2>1. 1 \in 1 .. Len(events_) /\ f = events_[1]
    BY <1>1 DEF BaseInv, TypeOK
  <2> QED BY <2>1 DEF InEvents
<1>3. slot'.client = c /\ slot'.fd = f
  BY <1>1
<1>4. c \in Conns => c = clients_idx_[f] /\ fd[c] = f
  BY <1>1, ConnsAssumption DEF BaseInv, IndexInv
<1>5. Open' = Open /\ Live' = Live /\ Inserting' = Inserting /\ Inserting = {}
  BY <1>1 DEF Open, Live, Inserting
<1>6. \A d \in Open : f = fd[d] => clients_idx_[f] = c /\ (c = d \/ (c = NullConn /\ d \in crossed))
  BY <1>5, ConnsAssumption DEF FollowInv, Open
<1>7. \A g \in Fds \ {f} : clients_idx_'[g] = clients_idx_[g]
  BY <1>1 DEF BaseInv, TypeOK
<1>8. clients_idx_'[f] = c
  BY <1>1 DEF BaseInv, TypeOK
<1> HIDE DEF f, c
<1>9. Armed' = Armed /\ Pending' = Pending /\ InEvents' = InEvents /\ EventsInv'
  BY <1>1, ArmedFrame, PendingFrame, EventsFrame
<1>10. Clean' \subseteq Clean
  BY <1>1, <1>4, <1>5, <1>7, <1>8 DEF Clean
<1>11. ReadyInv'
  <2>1. \A d \in Open : Readable(d)' => Readable(d)
    BY <1>1 DEF Readable
  <2> QED BY <1>1, <1>5, <1>9, <2>1, ReadyKeeps
<1>12. PairInv'
  <2>1. \A d \in Open \ crossed : f = fd[d] => c = d
    BY <1>6
  <2> QED BY <1>1, <1>3, <1>4, <1>5, <1>9, <2>1 DEF PairInv
<1>13. EventInv'
  <2>1. ASSUME c \in Conns \ crossed PROVE \A t \in Pending : t.client # c
    <3>1. c \in Clean /\ fd[c] = f
      BY <1>1, <1>4, <2>1 DEF Clean
    <3>2. \A t \in Pending : t.fd # f
      BY <1>2, <3>1 DEF EventInv
    <3> QED BY <2>1, <3>1, <3>2 DEF PairInv
  <2> QED BY <1>1, <1>3, <1>9, <1>10, <2>1 DEF EventInv
<1>14. LiveInv'
  BY <1>1, <1>5, <1>9, LiveKeeps
<1>15. FollowInv'
  <2> SUFFICES ASSUME NEW d \in Open
               PROVE  clients_idx_'[fd[d]] = d \/ (clients_idx_'[fd[d]] = NullConn /\ d \in crossed)
    BY <1>1, <1>5 DEF FollowInv
  <2>1. CASE fd[d] = f
    BY <1>6, <1>8, <2>1
  <2>2. CASE fd[d] # f
    <3>1. fd[d] \in Fds
      BY DEF BaseInv, SocketInv, Open
    <3> QED BY <1>5, <1>7, <2>2, <3>1 DEF FollowInv
  <2> QED BY <2>1, <2>2
<1> QED BY <1>1, <1>5, <1>9, <1>11, <1>12, <1>13, <1>14, <1>15, CurKeeps, ArmedKeeps, OneTaskKeeps

(* An event becomes a task, the only one of its connection.                *)
LEMMA SubmitDispatch ==
    ASSUME BaseInv, DispatchInv, SubmitReceive
    PROVE  DispatchInv'
<1> USE DEF DispatchInv, kernelVars, removerVars, faultVars
<1> DEFINE t == ReceiveTask(slot.client, slot.fd)
<1>1. /\ loop = "submit" /\ loop' = "dispatch"
      /\ queue' = Append(queue, t)
      /\ events_' = Tail(events_)
      /\ UNCHANGED <<sock, fd, unread, eof, interest, ready, backlog, connected, clients_idx_, slot,
                     at, job, cur, threw, crossed>>
  BY DEF SubmitReceive, NextEvents
<1>2. t.kind = "receive" /\ t.client = slot.client /\ t.fd = slot.fd
  BY DEF ReceiveTask
<1>3. events_ # <<>> /\ slot.fd = Head(events_) /\ slot.fd \in Fds
  BY <1>1 DEF BaseInv, BacklogInv, TaskInv
<1>4. t \in Jobs
  BY <1>3 DEF ReceiveTask, Jobs, BaseInv, TypeOK
<1> HIDE DEF t
<1>5. /\ Len(queue) \in Nat /\ Len(queue') = Len(queue) + 1
      /\ \A i \in 1 .. Len(queue) : queue'[i] = queue[i]
      /\ queue'[Len(queue) + 1] = t
  BY <1>1, <1>4 DEF BaseInv, TypeOK
<1>6. Pending' = Pending \cup {t}
  <2>1. Pending' = {s \in Jobs : /\ s.kind = "receive"
                                 /\ \/ \E i \in 1 .. Len(queue') : queue'[i] = s
                                    \/ \E w \in Workers : job[w] = s}
    BY <1>1 DEF Pending
  <2>2. \A s : (\E i \in 1 .. Len(queue') : queue'[i] = s) <=>
                  ((\E i \in 1 .. Len(queue) : queue[i] = s) \/ s = t)
    BY <1>5
  <2> QED BY <1>2, <1>4, <2>1, <2>2 DEF Pending
<1>7. slot.fd \in InEvents /\ InEvents' = InEvents \ {slot.fd} /\ EventsInv'
  BY <1>1, <1>3, EventsTail DEF BaseInv
<1>8. Open' = Open /\ Live' = Live /\ Inserting' = Inserting /\ Armed' = Armed
  BY <1>1, ArmedFrame DEF Open, Live, Inserting
<1>9. Clean' \subseteq Clean
  BY <1>1, <1>8, CleanShrinks
<1>10. ReadyInv'
  <2>1. \A d \in Open : Readable(d)' => Readable(d)
    BY <1>1 DEF Readable
  <2> QED BY <1>1, <1>8, <2>1, ReadyKeeps
<1>11. PairInv'
  BY <1>1, <1>2, <1>6, <1>8 DEF PairInv
<1>12. ArmedInv'
  BY <1>1, <1>2, <1>6, <1>7, <1>8 DEF ArmedInv
<1>13. EventInv'
  BY <1>1, <1>2, <1>6, <1>7, <1>9 DEF EventInv
<1>14. OneTaskInv'
  <2> SUFFICES ASSUME NEW c \in Conns \ crossed
               PROVE  /\ \A i, j \in 1 .. Len(queue') : IsFor(queue'[i], c) /\ IsFor(queue'[j], c) => i = j
                      /\ \A v, w \in Workers : IsFor(job[v], c) /\ IsFor(job[w], c) => v = w
                      /\ \A i \in 1 .. Len(queue'), w \in Workers :
                            ~(IsFor(queue'[i], c) /\ IsFor(job[w], c))
    BY <1>1 DEF OneTaskInv, IsFor
  <2>1. IsFor(t, c) => /\ \A i \in 1 .. Len(queue) : ~IsFor(queue[i], c)
                       /\ \A w \in Workers : ~IsFor(job[w], c)
    BY <1>1, <1>2, PendingTasks DEF EventInv, IsFor
  <2>2. \A i \in 1 .. Len(queue') : i \in 1 .. Len(queue) \/ i = Len(queue) + 1
    BY <1>5
  <2> QED BY <1>5, <2>1, <2>2 DEF OneTaskInv
<1>15. LiveInv'
  <2> SUFFICES ASSUME NEW c \in Live \ crossed
               PROVE  \/ threw[c] \/ fd[c] \in Armed \cup InEvents'
                      \/ \E s \in Pending' : s.fd = fd[c]
    BY <1>1, <1>8 DEF LiveInv
  <2> QED BY <1>2, <1>6, <1>7 DEF LiveInv
<1> QED BY <1>1, <1>7, <1>8, <1>10, <1>11, <1>12, <1>13, <1>14, <1>15, CurKeeps, FollowKeeps

-----------------------------------------------------------------------------
(* The workers.  A task changes hands.                                     *)
LEMMA TakeTaskDispatch ==
    ASSUME BaseInv, DispatchInv, NEW w \in Workers, TakeTask(w)
    PROVE  DispatchInv'
<1> USE DEF DispatchInv, kernelVars, mapVars, loopVars, removerVars, faultVars
<1> DEFINE t == Head(queue)
<1>1. /\ at[w] = "idle" /\ queue # <<>>
      /\ job' = [job EXCEPT ![w] = t]
      /\ queue' = Tail(queue)
      /\ at' = [at EXCEPT ![w] = IF t.kind = "receive" THEN "start" ELSE "lock"]
      /\ cur' = [cur EXCEPT ![w] = IF t.kind = "receive" THEN NoConn ELSE t.client]
      /\ UNCHANGED <<sock, fd, unread, eof, interest, ready, backlog, connected, clients_idx_,
                     loop, events_, slot, threw, crossed>>
  BY DEF TakeTask
<1>2. /\ Len(queue) \in Nat \ {0} /\ Len(queue') = Len(queue) - 1
      /\ t = queue[1] /\ 1 \in 1 .. Len(queue) /\ t \in Jobs
      /\ \A i \in 1 .. Len(queue') : queue'[i] = queue[i + 1] /\ i + 1 \in 1 .. Len(queue) /\ i + 1 # 1
      /\ \A i \in 1 .. Len(queue) : i # 1 => i - 1 \in 1 .. Len(queue') /\ queue'[i - 1] = queue[i]
  BY <1>1, HeadTailProperties DEF BaseInv, TypeOK
<1>3. job[w].kind = "none"
  BY <1>1 DEF BaseInv, TaskInv
<1> HIDE DEF t
<1>4. /\ job'[w] = t /\ at'[w] \in {"start", "lock"}
      /\ \A v \in Workers \ {w} : job'[v] = job[v] /\ at'[v] = at[v] /\ cur'[v] = cur[v]
  BY <1>1 DEF BaseInv, TypeOK
<1>5. Pending' = Pending
  <2>1. Pending' = {s \in Jobs : /\ s.kind = "receive"
                                 /\ \/ \E i \in 1 .. Len(queue') : queue'[i] = s
                                    \/ \E v \in Workers : job'[v] = s}
    BY DEF Pending
  <2>2. ASSUME NEW s \in Pending PROVE s \in Pending'
    <3>1. CASE \E i \in 1 .. Len(queue) : queue[i] = s
      <4>1. PICK i \in 1 .. Len(queue) : queue[i] = s
        BY <3>1
      <4>2. i = 1 => job'[w] = s
        BY <1>2, <1>4, <4>1
      <4>3. i # 1 => i - 1 \in 1 .. Len(queue') /\ queue'[i - 1] = s
        BY <1>2, <4>1
      <4> QED BY <2>1, <4>2, <4>3 DEF Pending
    <3>2. CASE \E v \in Workers : job[v] = s
      BY <1>3, <1>4, <2>1, <3>2 DEF Pending
    <3> QED BY <3>1, <3>2 DEF Pending
  <2>3. ASSUME NEW s \in Pending' PROVE s \in Pending
    BY <1>2, <1>4, <2>1 DEF Pending
  <2> QED BY <2>2, <2>3
<1>6. /\ Open' = Open /\ Live' = Live /\ Inserting' = Inserting
      /\ Armed' = Armed /\ InEvents' = InEvents /\ EventsInv'
  BY <1>1, ArmedFrame, EventsFrame DEF Open, Live, Inserting
<1>7. Clean' \subseteq Clean
  BY <1>1, <1>6, CleanShrinks
<1>8. ReadyInv'
  <2>1. \A d \in Open : Readable(d)' => Readable(d)
    BY <1>1 DEF Readable
  <2> QED BY <1>1, <1>6, <2>1, ReadyKeeps
<1>9. CurInv'
  BY <1>1, <1>4 DEF CurInv, Receiving
<1>10. OneTaskInv'
  <2> SUFFICES ASSUME NEW c \in Conns \ crossed
               PROVE  /\ \A i, j \in 1 .. Len(queue') : IsFor(queue'[i], c) /\ IsFor(queue'[j], c) => i = j
                      /\ \A u, v \in Workers : IsFor(job'[u], c) /\ IsFor(job'[v], c) => u = v
                      /\ \A i \in 1 .. Len(queue'), v \in Workers :
                            ~(IsFor(queue'[i], c) /\ IsFor(job'[v], c))
    BY <1>1 DEF OneTaskInv, IsFor
  <2>1. ASSUME NEW i \in 1 .. Len(queue'), NEW j \in 1 .. Len(queue'),
               IsFor(queue'[i], c), IsFor(queue'[j], c)
        PROVE  i = j
    <3>1. i + 1 = j + 1
      BY <1>2, <2>1 DEF OneTaskInv
    <3> QED BY <3>1
  <2>2. \A u, v \in Workers : IsFor(job'[u], c) /\ IsFor(job'[v], c) => u = v
    BY <1>2, <1>4 DEF OneTaskInv
  <2>3. \A i \in 1 .. Len(queue') : IsFor(queue'[i], c) => ~IsFor(t, c)
    BY <1>2 DEF OneTaskInv
  <2>4. \A i \in 1 .. Len(queue'), v \in Workers : ~(IsFor(queue'[i], c) /\ IsFor(job'[v], c))
    BY <1>2, <1>4, <2>3 DEF OneTaskInv
  <2> QED BY <2>1, <2>2, <2>4
<1>11. LiveInv'
  BY <1>1, <1>5, <1>6, LiveKeeps
<1> QED BY <1>1, <1>5, <1>6, <1>7, <1>8, <1>9, <1>10, <1>11, PairKeeps, ArmedKeeps, EventKeeps, FollowKeeps

(* client->receive_data() on another Client crosses the two.               *)
LEMMA StartDispatch ==
    ASSUME BaseInv, DispatchInv, NEW w \in Workers, StartReceive(w), ~Crash
    PROVE  DispatchInv'
<1> USE DEF DispatchInv, kernelVars, mapVars, loopVars, removerVars, faultVars
<1>1. PICK c \in SlotClients(w) :
        /\ c \in Conns /\ cur' = [cur EXCEPT ![w] = c]
        /\ crossed' = IF c = job[w].client THEN crossed
                      ELSE crossed \cup ({job[w].client, c} \cap Conns)
  BY DEF StartReceive
<1>2. /\ at[w] = "start" /\ at' = [at EXCEPT ![w] = "check"]
      /\ UNCHANGED <<sock, fd, unread, eof, interest, ready, backlog, connected, clients_idx_,
                     loop, events_, slot, queue, job, threw>>
  BY DEF StartReceive, Goto
<1>3. /\ cur'[w] = c
      /\ \A v \in Workers \ {w} : at'[v] = at[v] /\ cur'[v] = cur[v]
  BY <1>1, <1>2 DEF BaseInv, TypeOK
<1>4. job[w].client \in Conns \cup {NullConn}
  BY <1>2 DEF BaseInv, TaskInv, Receiving, ReceiveTasks, Known
<1>5. CurInv'
  BY <1>1, <1>2, <1>3, <1>4 DEF CurInv
<1>6. /\ Open' = Open /\ Live' = Live /\ Inserting' = Inserting /\ crossed \subseteq crossed'
      /\ Armed' = Armed /\ InEvents' = InEvents /\ EventsInv' /\ Pending' = Pending
  BY <1>1, <1>2, ArmedFrame, EventsFrame, PendingFrame DEF Open, Live, Inserting
<1>7. Clean' \subseteq Clean
  BY <1>2, <1>6, CleanShrinks
<1>8. ReadyInv'
  <2>1. \A d \in Open : Readable(d)' => Readable(d)
    BY <1>2 DEF Readable
  <2> QED BY <1>2, <1>6, <2>1, ReadyKeeps
<1>9. LiveInv'
  BY <1>2, <1>6, LiveKeeps
<1> QED BY <1>2, <1>5, <1>6, <1>7, <1>8, <1>9, PairKeeps, ArmedKeeps, EventKeeps, OneTaskKeeps, FollowKeeps

(* Steps of a worker inside its task.                                      *)
LEMMA MoveDispatch ==
    ASSUME BaseInv, DispatchInv, NEW w \in Workers,
           \/ CheckConnected(w) \/ RecvData(w) \/ RecvDrained(w)
           \/ (LockWrite(w) /\ ~Crash) \/ CheckWrite(w)
           \/ (SendData(w) /\ MorePieces(w))
    PROVE  DispatchInv'
<1> USE DEF kernelVars, mapVars, loopVars, removerVars, faultVars
<1>1. UNCHANGED <<sock, fd, eof, interest, ready, backlog, connected, clients_idx_,
                  loop, events_, slot, queue, job, cur, threw, crossed>>
  BY DEF CheckConnected, RecvData, RecvDrained, LockWrite, CheckWrite, SendData, MorePieces
<1>2. \A c \in Conns : unread'[c] > 0 => unread[c] > 0
  <2>1. unread' = unread \/ \E c \in Conns : unread' = [unread EXCEPT ![c] = 0]
    BY DEF CheckConnected, RecvData, RecvDrained, LockWrite, CheckWrite, SendData, OpenOn
  <2>2. unread \in [Conns -> 0 .. MaxUnits]
    BY DEF BaseInv, TypeOK
  <2> QED BY <2>1, <2>2, MaxUnitsAssumption
<1>3. \/ /\ at[w] \in Receiving \ {"start"}
         /\ \E place \in {"recv", "check", "publish", "rearm"} : Goto(w, place)
      \/ \E place \in {"write", "send"} : Goto(w, place)
  BY DEF CheckConnected, RecvData, RecvDrained, LockWrite, CheckWrite, MorePieces, Receiving
<1>4. \A v \in Workers : at'[v] \in Receiving \ {"start"} => at[v] \in Receiving \ {"start"}
  BY <1>3 DEF Goto, BaseInv, TypeOK, Receiving
<1> QED BY <1>1, <1>2, <1>4, DispatchFrame

(* A task that ends.                                                       *)
LEMMA EndPending ==
    ASSUME BaseInv, NEW w \in Workers, EndTask(w), UNCHANGED queue
    PROVE  /\ job'[w] = NoTask /\ at'[w] = "idle"
           /\ \A v \in Workers \ {w} : job'[v] = job[v] /\ cur'[v] = cur[v] /\ at'[v] = at[v]
           /\ Pending' \subseteq Pending
           /\ \A t \in Pending : t \in Pending' \/ t = job[w]
<1>1. /\ job'[w] = NoTask /\ at'[w] = "idle" /\ NoTask.kind # "receive"
      /\ \A v \in Workers \ {w} : job'[v] = job[v] /\ cur'[v] = cur[v] /\ at'[v] = at[v]
  BY DEF EndTask, Goto, BaseInv, TypeOK, NoTask
<1>2. Pending' = {s \in Jobs : /\ s.kind = "receive"
                               /\ \/ \E i \in 1 .. Len(queue) : queue[i] = s
                                  \/ \E v \in Workers : job'[v] = s}
  BY DEF Pending
<1>3. Pending' \subseteq Pending
  BY <1>1, <1>2 DEF Pending
<1>4. \A t \in Pending : t \in Pending' \/ t = job[w]
  BY <1>1, <1>2 DEF Pending
<1> QED BY <1>1, <1>3, <1>4

LEMMA EndDispatch ==
    ASSUME BaseInv, DispatchInv, NEW w \in Workers, EndTask(w),
           UNCHANGED <<sock, fd, backlog, clients_idx_, loop, events_, slot, queue>>,
           crossed \subseteq crossed',
           Live' \subseteq Live, \A c \in Live : threw[c] => threw'[c],
           Armed \subseteq Armed',
           ReadyInv', ArmedInv',
           \A c \in Live' \ crossed' :
              job[w].kind = "receive" /\ job[w].client = c => threw'[c] \/ fd[c] \in Armed'
    PROVE  DispatchInv'
<1> USE DEF DispatchInv
<1>1. /\ job'[w] = NoTask /\ at'[w] = "idle"
      /\ \A v \in Workers \ {w} : job'[v] = job[v] /\ cur'[v] = cur[v] /\ at'[v] = at[v]
      /\ Pending' \subseteq Pending
      /\ \A t \in Pending : t \in Pending' \/ t = job[w]
  BY EndPending
<1>2. Open' = Open /\ Inserting' = Inserting /\ InEvents' = InEvents /\ EventsInv'
  BY EventsFrame DEF Open, Inserting
<1>3. Clean' \subseteq Clean
  BY <1>2, CleanShrinks
<1>4. CurInv'
  BY <1>1 DEF CurInv, Receiving
<1>5. OneTaskInv'
  <2>1. \A c : ~IsFor(NoTask, c)
    BY DEF NoTask, IsFor
  <2> SUFFICES ASSUME NEW c \in Conns \ crossed
               PROVE  /\ \A i, j \in 1 .. Len(queue) : IsFor(queue[i], c) /\ IsFor(queue[j], c) => i = j
                      /\ \A u, v \in Workers : IsFor(job'[u], c) /\ IsFor(job'[v], c) => u = v
                      /\ \A i \in 1 .. Len(queue), v \in Workers :
                            ~(IsFor(queue[i], c) /\ IsFor(job'[v], c))
    BY DEF OneTaskInv, IsFor
  <2> QED BY <1>1, <2>1 DEF OneTaskInv
<1>6. LiveInv'
  <2> SUFFICES ASSUME NEW c \in Live' \ crossed'
               PROVE  threw'[c] \/ fd[c] \in Armed' \cup InEvents \/ \E t \in Pending' : t.fd = fd[c]
    BY <1>2 DEF LiveInv
  <2>1. c \in Open \ crossed
    BY DEF Live
  <2>2. ASSUME NEW t \in Pending, t.fd = fd[c], t \notin Pending'
        PROVE  threw'[c] \/ fd[c] \in Armed'
    <3>1. t = job[w] /\ t.kind = "receive" /\ t.client = c
      BY <1>1, <2>1, <2>2, PendingTasks DEF PairInv
    <3> QED BY <3>1
  <2> QED BY <2>2 DEF LiveInv
<1> QED BY <1>1, <1>2, <1>3, <1>4, <1>5, <1>6, PairKeeps, EventKeeps, FollowKeeps

(* ... because the connection is given up, because the handling of a       *)
(* message threw, or because the response is written.                      *)
LEMMA GiveUpDispatch ==
    ASSUME BaseInv, DispatchInv, NEW w \in Workers,
           \/ RecvFails(w) \/ SendFails(w) \/ (SendData(w) /\ ~MorePieces(w))
           \/ (PublishMsg(w) /\ EndTask(w))
    PROVE  DispatchInv'
<1> USE DEF DispatchInv, kernelVars, mapVars, loopVars, removerVars, faultVars
<1>1. /\ EndTask(w)
      /\ UNCHANGED <<sock, fd, unread, eof, interest, ready, backlog, clients_idx_, loop, events_, slot,
                     crossed>>
      /\ connected' \in {connected, [connected EXCEPT ![cur[w]] = FALSE]}
      /\ threw' \in {threw, [threw EXCEPT ![cur[w]] = TRUE]}
  BY SendCases DEF RecvFails, Disconnect, SendFails, PublishMsg
<1>2. UNCHANGED queue
  <2>1. CASE PublishMsg(w)
    <3>1. at[w] = "publish" /\ at'[w] = "idle"
      BY <1>1, <2>1 DEF PublishMsg, EndTask, Goto, BaseInv, TypeOK
    <3>2. ~Goto(w, AfterMsg)
      BY <3>1 DEF Goto, AfterMsg, BaseInv, TypeOK
    <3> QED BY <2>1, <3>2 DEF PublishMsg
  <2> QED BY <2>1 DEF RecvFails, Disconnect, SendFails, SendData
<1>3. \A c \in Conns : (connected'[c] => connected[c]) /\ (threw[c] => threw'[c])
  BY <1>1 DEF BaseInv, TypeOK
<1>4. Open' = Open /\ Inserting' = Inserting /\ Armed' = Armed /\ InEvents' = InEvents
  BY <1>1, ArmedFrame, EventsFrame DEF Open, Inserting
<1>5. Live' \subseteq Live /\ \A c \in Live : threw[c] => threw'[c]
  BY <1>3, <1>4 DEF Live, Open
<1>6. Pending' \subseteq Pending
  BY <1>1, <1>2, EndPending
<1>7. ReadyInv'
  <2>1. \A d \in Open : Readable(d)' => Readable(d)
    BY <1>1 DEF Readable
  <2> QED BY <1>1, <1>4, <2>1, ReadyKeeps
<1>8. ArmedInv'
  BY <1>1, <1>4, <1>6, ArmedKeeps
<1>9. ASSUME NEW c \in Live' \ crossed', job[w].kind = "receive", job[w].client = c
      PROVE  threw'[c]
  <2>1. c \in Conns \ crossed /\ connected'[c]
    BY <1>1, <1>4 DEF Live, Open
  <2>2. ~SendFails(w) /\ ~SendData(w)
    <3>1. at[w] \notin Sending
      BY <1>9 DEF BaseInv, TaskInv
    <3> QED BY <3>1 DEF Sending, SendFails, SendData
  <2>3. at[w] \in {"recv", "publish"}
    BY <2>2 DEF RecvFails, PublishMsg
  <2>4. cur[w] = c
    BY <1>9, <2>1, <2>3, ConnsAssumption DEF CurInv, Receiving
  <2>5. ~RecvFails(w)
    BY <2>1, <2>4 DEF RecvFails, Disconnect, BaseInv, TypeOK
  <2>6. PublishMsg(w) /\ at'[w] = "idle"
    BY <1>1, <2>2, <2>5 DEF EndTask, Goto, BaseInv, TypeOK
  <2>7. ~Goto(w, AfterMsg)
    BY <2>6 DEF Goto, AfterMsg, BaseInv, TypeOK
  <2>8. threw' = [threw EXCEPT ![c] = TRUE]
    BY <2>4, <2>6, <2>7 DEF PublishMsg
  <2> QED BY <2>1, <2>8 DEF BaseInv, TypeOK
<1> QED BY <1>1, <1>2, <1>4, <1>5, <1>7, <1>8, <1>9, EndDispatch

(* ... or submits a response, which is no receive task, and goes on.       *)
LEMMA RespondDispatch ==
    ASSUME BaseInv, DispatchInv, NEW w \in Workers, PublishMsg(w), ~EndTask(w)
    PROVE  DispatchInv'
<1> USE DEF DispatchInv, kernelVars, mapVars, loopVars, removerVars
<1> DEFINE t == SendTask(cur[w])
<1>1. /\ at[w] = "publish" /\ Goto(w, "rearm")
      /\ queue' = queue \/ queue' = Append(queue, t)
      /\ UNCHANGED <<sock, fd, unread, eof, interest, ready, backlog, connected, clients_idx_,
                     loop, events_, slot, job, cur, threw, crossed>>
  BY DEF PublishMsg, AfterMsg
<1>2. t \in Jobs /\ t.kind = "send"
  BY <1>1 DEF SendTask, Jobs, Entries, BaseInv, TaskInv, Known
<1> HIDE DEF t
<1>3. /\ \A i \in 1 .. Len(queue) : i \in 1 .. Len(queue') /\ queue'[i] = queue[i]
      /\ \A i \in 1 .. Len(queue') : i \in 1 .. Len(queue) \/ queue'[i] = t
  <2>1. queue \in Seq(Jobs)
    BY DEF BaseInv, TypeOK
  <2> QED BY <1>1, <1>2, <2>1
<1>4. Pending' = Pending
  <2>1. Pending' = {s \in Jobs : /\ s.kind = "receive"
                                 /\ \/ \E i \in 1 .. Len(queue') : queue'[i] = s
                                    \/ \E v \in Workers : job[v] = s}
    BY <1>1 DEF Pending
  <2> QED BY <1>2, <1>3, <2>1 DEF Pending
<1>5. OneTaskInv'
  <2>1. \A c : ~IsFor(t, c)
    BY <1>2 DEF IsFor
  <2> SUFFICES ASSUME NEW c \in Conns \ crossed
               PROVE  /\ \A i, j \in 1 .. Len(queue') : IsFor(queue'[i], c) /\ IsFor(queue'[j], c) => i = j
                      /\ \A u, v \in Workers : IsFor(job[u], c) /\ IsFor(job[v], c) => u = v
                      /\ \A i \in 1 .. Len(queue'), v \in Workers :
                            ~(IsFor(queue'[i], c) /\ IsFor(job[v], c))
    BY <1>1 DEF OneTaskInv, IsFor
  <2> QED BY <1>3, <2>1 DEF OneTaskInv
<1>6. \A v \in Workers : at'[v] \in Receiving \ {"start"} => at[v] \in Receiving \ {"start"}
  BY <1>1 DEF Goto, BaseInv, TypeOK, Receiving
<1>7. /\ Open' = Open /\ Live' = Live /\ Inserting' = Inserting
      /\ Armed' = Armed /\ InEvents' = InEvents /\ EventsInv'
  BY <1>1, ArmedFrame, EventsFrame DEF Open, Live, Inserting
<1>8. Clean' \subseteq Clean
  BY <1>1, <1>7, CleanShrinks
<1>9. ReadyInv'
  <2>1. \A d \in Open : Readable(d)' => Readable(d)
    BY <1>1 DEF Readable
  <2> QED BY <1>1, <1>7, <2>1, ReadyKeeps
<1>10. LiveInv'
  BY <1>1, <1>4, <1>7, LiveKeeps
<1> QED BY <1>1, <1>4, <1>5, <1>6, <1>7, <1>8, <1>9, <1>10, PairKeeps, CurKeeps, ArmedKeeps, EventKeeps,
           FollowKeeps

(* reset_oneshot gives the token back to the kernel; arming another        *)
(* descriptor than the task's own crosses whoever is open on it.           *)
LEMMA RearmDispatch ==
    ASSUME BaseInv, DispatchInv, NEW w \in Workers, Rearm(w)
    PROVE  DispatchInv'
<1> USE DEF DispatchInv, mapVars, loopVars, removerVars
<1>1. /\ at[w] = "rearm" /\ EndTask(w)
      /\ UNCHANGED <<sock, fd, unread, eof, backlog, connected, clients_idx_, loop, events_, slot,
                     queue, threw>>
  BY DEF Rearm
<1>2. PICK f \in SlotFds(w) :
        /\ interest' = [interest EXCEPT ![f] = IF f \in FreeFds THEN @ ELSE "armed"]
        /\ ready' = IF f \notin FreeFds /\ HasInput(f) THEN ready \cup {f} ELSE ready
        /\ crossed' = IF f = job[w].fd THEN crossed
                      ELSE crossed \cup ({job[w].client} \cap Conns) \cup OpenOn(f)
  BY DEF Rearm
<1>3. /\ job[w].kind = "receive" /\ job[w] \in Pending /\ job[w].fd \in Fds /\ f \in Fds
  <2>1. job[w] \in ReceiveTasks /\ job[w].kind = "receive"
    BY <1>1 DEF BaseInv, TaskInv, Receiving, ReceiveTasks
  <2>2. job[w].fd \in Fds /\ slot.fd \in Fds
    BY <2>1 DEF BaseInv, TaskInv, ReceiveTasks
  <2> QED BY <2>1, <2>2, PendingTasks DEF SlotFds
<1>4. Open' = Open /\ Live' = Live /\ Inserting' = Inserting /\ InEvents' = InEvents
  BY <1>1, EventsFrame DEF Open, Live, Inserting
<1>5. f \notin FreeFds <=> \E c \in Open : fd[c] = f
  BY <1>3 DEF FreeFds, OpenOn, Open
<1>6. Armed' = IF f \in FreeFds THEN Armed ELSE Armed \cup {f}
  BY <1>2, <1>3 DEF Armed, BaseInv, TypeOK
<1>7. ReadyInv'
  <2>1. \A c \in Open : Readable(c)' = Readable(c)
    BY <1>1 DEF Readable
  <2>2. \A c \in Open : fd[c] = f /\ Readable(c) => HasInput(f)
    BY DEF HasInput, OpenOn, Open
  <2>3. ready' \ {ListenFd} \subseteq Armed'
    BY <1>2, <1>6 DEF ReadyInv
  <2>4. \A g \in Armed' : \E c \in Open : fd[c] = g
    BY <1>5, <1>6 DEF ReadyInv
  <2>5. \A c \in Open : fd[c] \in Armed' /\ Readable(c) => fd[c] \in ready'
    BY <1>2, <1>5, <1>6, <2>2 DEF ReadyInv
  <2>6. \A c \in Inserting : fd[c] \in Armed'
    BY <1>6 DEF ReadyInv
  <2> QED BY <1>1, <1>4, <2>1, <2>3, <2>4, <2>5, <2>6 DEF ReadyInv
<1>8. /\ job'[w] = NoTask /\ \A v \in Workers \ {w} : job'[v] = job[v]
      /\ Pending' \subseteq Pending
  BY <1>1, EndPending
<1>9. ArmedInv'
  <2> SUFFICES ASSUME NEW c \in Open \ crossed', fd[c] \in Armed'
               PROVE  fd[c] \notin InEvents /\ \A t \in Pending' : t.fd # fd[c]
    BY <1>1, <1>4 DEF ArmedInv
  <2>1. c \in Open \ crossed
    BY <1>2
  <2>2. CASE fd[c] \in Armed
    BY <1>8, <2>1, <2>2 DEF ArmedInv
  <2>3. CASE fd[c] \notin Armed
    <3>1. fd[c] = f
      BY <1>6, <2>3
    <3>2. c \in OpenOn(f)
      BY <3>1 DEF OpenOn, Open
    <3>3. job[w].fd = fd[c]
      BY <1>2, <3>1, <3>2
    <3>4. job[w].client = c /\ IsFor(job[w], c)
      BY <1>3, <2>1, <3>3 DEF PairInv, IsFor
    <3>5. fd[c] \notin InEvents
      BY <1>3, <2>1, <3>3 DEF EventInv, Clean, Open
    <3>6. ASSUME NEW t \in Pending', t.fd = fd[c] PROVE FALSE
      <4>1. t.kind = "receive" /\ t.client = c
        BY <1>8, <2>1, <3>6, PendingTasks DEF PairInv
      <4>2. IsFor(t, c)
        BY <4>1 DEF IsFor
      <4>3. (\E i \in 1 .. Len(queue) : queue[i] = t) \/ (\E v \in Workers : job'[v] = t)
        BY <1>1 DEF Pending
      <4>4. ~IsFor(NoTask, c) /\ c \in Conns
        BY DEF NoTask, IsFor, Open
      <4> QED BY <1>8, <2>1, <3>4, <4>2, <4>3, <4>4 DEF OneTaskInv
    <3> QED BY <3>5, <3>6
  <2> QED BY <2>2, <2>3
<1>10. ASSUME NEW c \in Live' \ crossed', job[w].client = c
       PROVE  fd[c] \in Armed'
  <2>1. c \in Open /\ c \in Conns
    BY <1>4 DEF Live, Open
  <2>2. f = job[w].fd
    BY <1>2, <1>10, <2>1
  <2>3. fd[c] = f
    BY <1>3, <1>10, <2>1, <2>2 DEF PairInv
  <2> QED BY <1>5, <1>6, <2>1, <2>3
<1>11. crossed \subseteq crossed' /\ Armed \subseteq Armed'
  BY <1>2, <1>6
<1>12. Live' \subseteq Live /\ \A c \in Live : threw[c] => threw'[c]
  BY <1>1, <1>4
<1> HIDE DEF DispatchInv
<1> QED BY <1>1, <1>7, <1>9, <1>10, <1>11, <1>12, EndDispatch

-----------------------------------------------------------------------------
(* A process that dies, and the steps that DispatchInv does not see.       *)
LEMMA OtherDispatch ==
    ASSUME DispatchInv,
           \/ Crash \/ RemoverWakes \/ RemoverSleeps \/ RemoverErasesMtx
           \/ (\E targets \in SUBSET AllFds : SendTo(targets)) \/ UNCHANGED vars
    PROVE  DispatchInv'
<1> USE DEF kernelVars, mapVars, loopVars, poolVars, removerVars, faultVars, vars
<1>1. UNCHANGED <<sock, fd, unread, eof, interest, ready, backlog, connected, clients_idx_,
                  loop, events_, slot, queue, at, job, cur, threw, crossed>>
  BY DEF Crash, RemoverWakes, RemoverSleeps, RemoverErasesMtx, SendTo
<1> QED BY <1>1, DispatchFrame

LEMMA WorkerDispatch ==
    ASSUME BaseInv, DispatchInv, NEW w \in Workers, Worker(w)
    PROVE  DispatchInv'
<1>1. CASE Crash
  BY <1>1, OtherDispatch
<1>2. CASE ~Crash
  BY <1>2, TakeTaskDispatch, StartDispatch, MoveDispatch, GiveUpDispatch, RespondDispatch, RearmDispatch
     DEF Worker
<1> QED BY <1>1, <1>2

(* The remover closes what was given up; its descriptor has no token.      *)
LEMMA RemoverClosesDispatch ==
    ASSUME BaseInv, DispatchInv, RemoverCloses
    PROVE  DispatchInv'
<1> USE DEF DispatchInv, loopVars, poolVars, faultVars
<1>1. PICK f \in DeadFds :
        /\ connected' = [connected EXCEPT ![clients_idx_[f]] = FALSE]
        /\ CloseSocket(clients_idx_[f], f)
  BY DEF RemoverCloses
<1> DEFINE c == clients_idx_[f]
<1>2. /\ f \in Fds /\ c \in Conns /\ remover = "scan"
      /\ sock' = [sock EXCEPT ![c] = "closed"]
      /\ interest' = [interest EXCEPT ![f] = "none"]
      /\ ready' = ready \ {f}
      /\ UNCHANGED <<fd, unread, eof, backlog, clients_idx_, loop, events_, slot, queue, at, job, cur,
                     threw, crossed>>
  BY <1>1 DEF RemoverCloses, DeadFds, CloseSocket
<1>3. c \in Known /\ fd[c] = f /\ sock[c] = "open"
  BY <1>2 DEF BaseInv, IndexInv, Erased
<1>4. \A d \in Conns : connected'[d] => connected[d]
  BY <1>1, <1>2 DEF BaseInv, TypeOK
<1>5. \A d \in Clean' : d \in Clean
  BY <1>2 DEF Clean, Open, BaseInv, TypeOK
<1> HIDE DEF c
<1>6. /\ Open' = Open \ {c} /\ Inserting' = Inserting /\ c \notin Inserting
      /\ \A d \in Open \ {c} : fd[d] # f
  BY <1>2, <1>3 DEF Open, Inserting, Known, BaseInv, TypeOK, SocketInv
<1>7. Armed' = Armed \ {f} /\ InEvents' = InEvents /\ EventsInv' /\ Pending' = Pending
  BY <1>2, EventsFrame, PendingFrame DEF Armed, BaseInv, TypeOK
<1>8. Live' \subseteq Live \ {c}
  BY <1>4, <1>6 DEF Live, Open
<1>9. Inserting \subseteq Open
  BY InsertingOpen
<1>10. ReadyInv'
  <2>1. \A d \in Open : Readable(d)' = Readable(d)
    BY <1>2 DEF Readable
  <2>2. ready' \ {ListenFd} \subseteq Armed'
    BY <1>2, <1>7 DEF ReadyInv
  <2>3. \A g \in Armed' : \E d \in Open \ {c} : fd[d] = g
    BY <1>3, <1>7 DEF ReadyInv
  <2>4. \A d \in Open \ {c} : fd[d] \in Armed' /\ Readable(d) => fd[d] \in ready'
    BY <1>2, <1>6, <1>7 DEF ReadyInv
  <2>5. \A d \in Inserting : fd[d] \in Armed'
    BY <1>6, <1>7, <1>9 DEF ReadyInv
  <2> QED BY <1>2, <1>6, <2>1, <2>2, <2>3, <2>4, <2>5 DEF ReadyInv
<1>11. LiveInv'
  <2>1. \A d \in Live' : fd[d] # f
    BY <1>6, <1>8 DEF Live
  <2> QED BY <1>2, <1>7, <1>8, <2>1, LiveKeeps
<1> QED BY <1>2, <1>5, <1>6, <1>7, <1>10, <1>11, PairKeeps, CurKeeps, ArmedKeeps, EventKeeps,
           OneTaskKeeps, FollowKeeps

LEMMA RemoverErasesIdxDispatch ==
    ASSUME BaseInv, DispatchInv, RemoverErasesIdx
    PROVE  DispatchInv'
<1> USE DEF DispatchInv, kernelVars, loopVars, poolVars, faultVars
<1>1. /\ remover = "eraseIdx"
      /\ clients_idx_' = [clients_idx_ EXCEPT ![victim] = NoConn]
      /\ UNCHANGED <<sock, fd, unread, eof, interest, ready, backlog, connected, loop, events_, slot,
                     queue, at, job, cur, threw, crossed>>
  BY DEF RemoverErasesIdx
<1>2. Erased = {victim} /\ victim \in Fds
  BY <1>1 DEF Erased, BaseInv, IndexInv
<1>3. \A f \in Fds : clients_idx_'[f] = IF f = victim THEN NoConn ELSE clients_idx_[f]
  BY <1>1, <1>2 DEF BaseInv, TypeOK
<1>4. /\ Open' = Open /\ Live' = Live /\ Inserting' = Inserting
      /\ Armed' = Armed /\ InEvents' = InEvents /\ EventsInv' /\ Pending' = Pending
  BY <1>1, ArmedFrame, EventsFrame, PendingFrame DEF Open, Live, Inserting
<1>5. Clean' \subseteq Clean
  BY <1>1, <1>3, <1>4, ConnsAssumption DEF Clean
<1>6. ReadyInv'
  <2>1. \A d \in Open : Readable(d)' => Readable(d)
    BY <1>1 DEF Readable
  <2> QED BY <1>1, <1>4, <2>1, ReadyKeeps
<1>7. LiveInv'
  BY <1>1, <1>4, LiveKeeps
<1>8. FollowInv'
  <2>1. Inserting \subseteq Open /\ \A c \in Open : fd[c] \in Fds
    BY InsertingOpen DEF Open, BaseInv, SocketInv
  <2>2. \A c \in Open \ Inserting : fd[c] # victim
    BY <1>2 DEF BaseInv, IndexInv
  <2>3. \A c \in Open \ Inserting : clients_idx_'[fd[c]] = clients_idx_[fd[c]]
    BY <1>3, <2>1, <2>2
  <2>4. \A c \in Inserting : clients_idx_'[fd[c]] = NullConn => clients_idx_[fd[c]] = NullConn
    BY <1>3, <2>1, ConnsAssumption
  <2> QED BY <1>1, <1>4, <2>3, <2>4 DEF FollowInv
<1> QED BY <1>1, <1>4, <1>5, <1>6, <1>7, <1>8, PairKeeps, CurKeeps, ArmedKeeps, EventKeeps, OneTaskKeeps

-----------------------------------------------------------------------------
LEMMA NextDispatch == BaseInv /\ DispatchInv /\ [Next]_vars => DispatchInv'
<1> SUFFICES ASSUME BaseInv, DispatchInv, [Next]_vars PROVE DispatchInv'
  OBVIOUS
<1>1. CASE Loop
  BY <1>1, EpollWaitDispatch, AcceptDispatch, InsertDispatch, AcceptThrowsDispatch, LookupDispatch,
     SubmitDispatch DEF Loop
<1>2. CASE Remover
  BY <1>2, RemoverClosesDispatch, RemoverErasesIdxDispatch, OtherDispatch
     DEF Remover, RemoverCloseThrows, RemoverMeetsNull
<1>3. CASE Api
  <2>1. (\E targets \in SUBSET AllFds : SendTo(targets)) \/ Crash
    BY <1>3 DEF Api, send_to_client, send_to_all_clients, CallMeetsNull
  <2> QED BY <2>1, OtherDispatch
<1>4. CASE Halted \/ UNCHANGED vars
  BY <1>4, OtherDispatch DEF Halted
<1> QED BY <1>1, <1>2, <1>3, <1>4, PeerDispatch, WorkerDispatch DEF Next

LEMMA DispatchInvariance == Spec => []DispatchInv
<1>1. Init => DispatchInv
  BY InitDispatch
<1>2. BaseInv /\ DispatchInv /\ [Next]_vars => DispatchInv'
  BY NextDispatch
<1> QED BY <1>1, <1>2, BaseInvariance, PTL DEF Spec

(* EPOLLONESHOT and reset_oneshot keep two workers out of receive_data of  *)
(* one Client, for any pool, whatever the captured references hold and     *)
(* however sends and ::close end, as long as the Client itself has not     *)
(* been crossed: the token argument breaks for crossed connections only.   *)
THEOREM OneShotSafety == Spec => []OneThreadUnlessCrossed
<1>1. BaseInv /\ DispatchInv => OneThreadUnlessCrossed
  <2> SUFFICES ASSUME BaseInv, DispatchInv, NEW v \in Workers, NEW w \in Workers,
                      NEW c \in Conns \ crossed, InReceive(v, c), InReceive(w, c)
               PROVE  v = w
    BY DEF OneThreadUnlessCrossed
  <2>1. at[v] \in Receiving \ {"start"} /\ at[w] \in Receiving \ {"start"} /\ cur[v] = c /\ cur[w] = c
    BY DEF InReceive, Receiving
  <2>2. job[v].client = c /\ job[w].client = c
    BY <2>1 DEF DispatchInv, CurInv
  <2>3. job[v].kind = "receive" /\ job[w].kind = "receive"
    BY <2>1 DEF BaseInv, TaskInv, ReceiveTasks
  <2> QED BY <2>2, <2>3 DEF DispatchInv, OneTaskInv, IsFor
<1> QED BY <1>1, BaseInvariance, DispatchInvariance, PTL

(* No edge of an uncrossed connection is lost between the kernel, the      *)
(* event loop, the queue and the workers, except with an exception of the  *)
(* handler or of accept_client.                                            *)
THEOREM EdgeSafety == Spec => []NoStrandedConnection
<1>1. BaseInv /\ DispatchInv => NoStrandedConnection
  <2> SUFFICES ASSUME BaseInv, DispatchInv, NEW c \in Conns \ crossed, sock[c] = "open", connected[c],
                      Readable(c), ~threw[c]
               PROVE  fd[c] \in ready \/ HandledBySomeone(fd[c])
    BY DEF NoStrandedConnection
  <2>1. c \in Live \ crossed /\ c \in Open
    BY DEF Live, Open
  <2>2. fd[c] \in Armed \/ HandledBySomeone(fd[c])
    BY <2>1, HandledMeans DEF DispatchInv, LiveInv
  <2> QED BY <2>1, <2>2 DEF DispatchInv, ReadyInv
<1> QED BY <1>1, BaseInvariance, DispatchInvariance, PTL

(* clients_idx_ follows the sockets through removal and reuse of their     *)
(* descriptors: the entry of an open connection is its own Client, or the  *)
(* null pointer if it was crossed, and a closed Client is there only while *)
(* the remover erases it.                                                  *)
THEOREM IndexSafety == Spec => []IndexFollowsSockets
<1>1. BaseInv /\ DispatchInv => IndexFollowsSockets
  <2> SUFFICES ASSUME BaseInv, DispatchInv PROVE IndexFollowsSockets
    OBVIOUS
  <2>1. \A c \in Conns : sock[c] = "open" /\ ~(loop = "insert" /\ c = Head(backlog)) =>
          clients_idx_[fd[c]] = c \/ (clients_idx_[fd[c]] = NullConn /\ c \in crossed)
    BY DEF DispatchInv, FollowInv, Open, Inserting
  <2>2. \A f \in AllFds :
          sock[clients_idx_[f]] = "open" \/ (remover \in {"eraseMtx", "eraseIdx"} /\ f = victim)
    BY DEF AllFds, BaseInv, IndexInv, Erased
  <2> QED BY <2>1, <2>2 DEF IndexFollowsSockets
<1> QED BY <1>1, BaseInvariance, DispatchInvariance, PTL

=============================================================================
