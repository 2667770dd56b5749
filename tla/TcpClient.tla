------------------------------ MODULE TcpClient ------------------------------
(***************************************************************************)
(* The stand-alone TCP client (src/net/TcpClient.cpp): the application's   *)
(* thread, which calls connect_server, send_msg, subscribe, close and the  *)
(* destructor in any order, and the receive thread recv_server.  Calls of  *)
(* send_msg from several threads take turns (buffer_mutex), and a publish  *)
(* is one step (sub_mutex).                                                *)
(*                                                                         *)
(* Sockets are numbered by the connect_server that made them; sock_fd_ is  *)
(* the newest.  The bytes handed to send_msg are numbered in their order,  *)
(* so that a gap or a repetition on a connection is visible.               *)
(***************************************************************************)
EXTENDS Integers, Sequences

CONSTANTS MaxConns,     \* bound: calls of connect_server
          BUFFER_SIZE,  \* capacity of buffer_
          MsgSizes,     \* sizes of the messages
          MaxBytes      \* bound: bytes accepted by send_msg

ASSUME BoundsAssumption == MaxConns \in Nat /\ MaxBytes \in Nat
ASSUME BufferAssumption == BUFFER_SIZE \in Nat /\ MsgSizes \subseteq Nat

VARIABLES
    sk,            \* sk[i]: the kernel's view of socket i
    inbox,         \* inbox[i]: data has arrived on i
    wire,          \* wire[i]: the bytes send() took for i
    sock_fd_,      \* the socket in use, 0 before the first
    is_connected_, is_closed_,
    buffer_,       \* bytes not known to be sent
    sent_byte,     \* send_msg's progress in buffer_
    app,           \* where the application's thread is
    dying,         \* it is in the destructor
    result,        \* the last ResultType
    worker,        \* the thread of worker_ptr; "none": no joinable thread
    watched,       \* the socket its select() was called for
    subscribed,    \* subscibers_ is not empty
    accepted,      \* history: number of bytes appended to buffer_ so far
    established,   \* history: sockets connect_server returned SUCCESS for
    reported,      \* history: reported[i], disconnections published for i
    disciplined,   \* history: connect_server was only called on a closed client
    terminated     \* why std::terminate was called

kernelVars == <<sk, inbox, wire>>
stateVars == <<sock_fd_, is_connected_, is_closed_>>
sendVars == <<buffer_, sent_byte, accepted>>
callVars == <<app, dying, result>>
workerVars == <<worker, watched, reported>>
restVars == <<subscribed, established, disciplined, terminated>>

vars == <<kernelVars, stateVars, sendVars, callVars, workerVars, restVars>>

Socks == 1 .. MaxConns
Lost == {"eof", "reset", "refused"}

(* One type invariant: the ranges of all variables.                        *)
TypeOK ==
    /\ sk \in [Socks -> {"none", "connecting", "open", "closed"} \cup Lost]
    /\ inbox \in [Socks -> BOOLEAN]
    /\ wire \in [Socks -> Seq(1 .. MaxBytes)]
    /\ sock_fd_ \in 0 .. MaxConns
    /\ is_connected_ \in BOOLEAN /\ is_closed_ \in BOOLEAN
    /\ buffer_ \in Seq(1 .. MaxBytes) /\ Len(buffer_) <= BUFFER_SIZE
    /\ sent_byte \in 0 .. BUFFER_SIZE
    /\ app \in {"idle", "connecting", "sending", "joining", "closing", "gone"}
    /\ dying \in BOOLEAN
    /\ result \in {"SUCCESS", "FAILURE"}
    /\ worker \in {"none", "loop", "select", "recv", "returned"}
    /\ watched \in 0 .. MaxConns
    /\ subscribed \in BOOLEAN
    /\ accepted \in 0 .. MaxBytes
    /\ established \subseteq Socks
    /\ reported \in [Socks -> Nat]
    /\ disciplined \in BOOLEAN
    /\ terminated \in {"no", "joinable", "select"}

Init ==
    /\ sk = [i \in Socks |-> "none"]
    /\ inbox = [i \in Socks |-> FALSE]
    /\ wire = [i \in Socks |-> <<>>]
    /\ sock_fd_ = 0
    /\ is_connected_ = FALSE /\ is_closed_ = TRUE
    /\ buffer_ = <<>> /\ sent_byte = 0 /\ accepted = 0
    /\ app = "idle" /\ dying = FALSE /\ result = "SUCCESS"
    /\ worker = "none" /\ watched = 0 /\ subscribed = FALSE
    /\ established = {} /\ reported = [i \in Socks |-> 0]
    /\ disciplined = TRUE /\ terminated = "no"

Return(r) == app' = "idle" /\ result' = r /\ UNCHANGED dying

-----------------------------------------------------------------------------
SetSk(i, s) == sk' = [sk EXCEPT ![i] = s]

(* A handshake that outlasted connect_server's select() ends.              *)
HandshakeEnds(i) ==
    /\ sk[i] = "connecting"
    /\ app # "connecting" \/ i # sock_fd_
    /\ \E s \in {"open", "refused"} : SetSk(i, s)
    /\ UNCHANGED inbox

PeerSends(i) ==
    /\ sk[i] = "open"
    /\ inbox' = [inbox EXCEPT ![i] = TRUE]
    /\ UNCHANGED sk

PeerLeaves(i) ==
    /\ \/ sk[i] = "open" /\ \E s \in {"eof", "reset"} : SetSk(i, s)
       \/ sk[i] = "eof" /\ SetSk(i, "reset")
    /\ UNCHANGED inbox

Network ==
    /\ \E i \in Socks : HandshakeEnds(i) \/ PeerSends(i) \/ PeerLeaves(i)
    /\ UNCHANGED <<wire, stateVars, sendVars, callVars, workerVars, restVars>>

-----------------------------------------------------------------------------
(* connect_server: initialize_socket makes a new non-blocking socket; the  *)
(* old one is not closed.                                                  *)
initialize_socket ==
    /\ app = "idle"
    /\ sock_fd_ < MaxConns
    /\ sock_fd_' = sock_fd_ + 1
    /\ SetSk(sock_fd_ + 1, "connecting")
    /\ app' = "connecting"
    /\ disciplined' = (disciplined /\ is_closed_)
    /\ UNCHANGED <<inbox, wire, is_connected_, is_closed_, dying, result, sendVars,
                   workerVars, subscribed, established, terminated>>

(* start_worker assigns a new thread to *worker_ptr: destroying the old    *)
(* one while it is joinable is std::terminate, even if it has returned.    *)
start_worker ==
    IF worker = "none"
    THEN worker' = "loop" /\ UNCHANGED terminated
    ELSE terminated' = "joinable" /\ UNCHANGED worker

(* connect() succeeds at once or select() and SO_ERROR say so later; the   *)
(* socket becomes a blocking one.                                          *)
connect_server ==
    /\ app = "connecting"
    /\ SetSk(sock_fd_, "open")
    /\ is_connected_' = TRUE /\ is_closed_' = FALSE
    /\ established' = established \cup {sock_fd_}
    /\ start_worker
    /\ Return("SUCCESS")
    /\ UNCHANGED <<inbox, wire, sock_fd_, sendVars, watched, reported,
                   subscribed, disciplined>>

(* No socket, no address, connect() fails, SO_ERROR is set ("refused"), or *)
(* select() times out with the handshake still going on.                   *)
ConnectFails ==
    /\ app = "connecting"
    /\ \E s \in {"refused", "connecting"} : SetSk(sock_fd_, s)
    /\ Return("FAILURE")
    /\ UNCHANGED <<inbox, wire, stateVars, sendVars, workerVars, restVars>>

subscribe ==
    /\ app = "idle"
    /\ subscribed' = TRUE
    /\ UNCHANGED <<kernelVars, stateVars, sendVars, callVars, workerVars,
                   established, disciplined, terminated>>

-----------------------------------------------------------------------------
Fits(size) == BUFFER_SIZE - Len(buffer_) >= size

(* send_msg up to its loop.  A message that does not fit empties buffer_.  *)
send_msg(size) ==
    /\ app = "idle"
    /\ accepted + size <= MaxBytes
    /\ \/ /\ size = 0 \/ ~Fits(size)
          /\ buffer_' = IF size = 0 THEN buffer_ ELSE <<>>
          /\ Return("FAILURE")
          /\ UNCHANGED <<sent_byte, accepted>>
       \/ /\ size > 0 /\ Fits(size)
          /\ buffer_' = buffer_ \o [k \in 1 .. size |-> accepted + k]
          /\ accepted' = accepted + size
          /\ sent_byte' = 0
          /\ app' = "sending"
          /\ UNCHANGED <<dying, result>>
    /\ UNCHANGED <<kernelVars, stateVars, workerVars, restVars>>

(* The socket send() is called for; without one it fails.                  *)
Current == IF sock_fd_ = 0 THEN "closed" ELSE sk[sock_fd_]

Unsent == SubSeq(buffer_, sent_byte + 1, Len(buffer_))

TakenFromStart(n) == SubSeq(buffer_, 1, n)

(* The n bytes one send() takes.                                           *)
Taken(n) == SubSeq(Unsent, 1, n)

AllSent(n) == sent_byte + n = Len(buffer_)

(* send() takes some of the bytes; all sent: buffer_ is cleared.           *)
SendSome ==
    /\ app = "sending"
    /\ Current \in {"open", "eof"}
    /\ \E n \in 1 .. Len(Unsent) :
         /\ wire' = [wire EXCEPT ![sock_fd_] = @ \o Taken(n)]
         /\ \/ /\ AllSent(n)
               /\ buffer_' = <<>> /\ sent_byte' = 0 /\ Return("SUCCESS")
            \/ /\ ~AllSent(n)
               /\ sent_byte' = sent_byte + n /\ UNCHANGED <<buffer_, callVars>>
    /\ UNCHANGED <<sk, inbox, stateVars, accepted, workerVars, restVars>>

(* EWOULDBLOCK keeps the rest in buffer_ and reports SUCCESS (only a       *)
(* socket that connect_server gave up is still non-blocking); any other    *)
(* error is a FAILURE and keeps everything, what was sent included.        *)
SendStops ==
    /\ app = "sending"
    /\ \/ /\ sock_fd_ \notin established
          /\ Current \in {"connecting", "open", "eof"}
          /\ buffer_' = Unsent
          /\ Return("SUCCESS")
       \/ /\ Current \in {"reset", "refused", "closed"}
          /\ Return("FAILURE") /\ UNCHANGED buffer_
    /\ sent_byte' = 0
    /\ UNCHANGED <<kernelVars, stateVars, accepted, workerVars, restVars>>

-----------------------------------------------------------------------------
(* recv_server, the receive thread.                                        *)
WhileConnected ==
    /\ worker = "loop"
    /\ worker' = IF is_connected_ THEN "select" ELSE "returned"
    /\ watched' = sock_fd_
    /\ UNCHANGED <<inbox, is_connected_, is_closed_, reported>>

(* wait_for_read: a select() of three seconds.                             *)
wait_for_read ==
    /\ worker = "select"
    /\ worker' = IF inbox[watched] \/ sk[watched] \in Lost THEN "recv" ELSE "loop"
    /\ UNCHANGED <<inbox, is_connected_, is_closed_, watched, reported>>

(* recv() on the socket in use by now; the data goes to the subscribers.   *)
RecvData ==
    /\ worker = "recv"
    /\ inbox[sock_fd_]
    /\ inbox' = [inbox EXCEPT ![sock_fd_] = FALSE]
    /\ worker' = "loop"
    /\ UNCHANGED <<is_connected_, is_closed_, watched, reported>>

PublishNothing == UNCHANGED reported

publish_server_disconnected ==
    reported' = IF subscribed THEN [reported EXCEPT ![sock_fd_] = @ + 1] ELSE reported

GoOn == worker' = "loop" /\ UNCHANGED <<is_connected_, is_closed_>>

Disconnected == is_connected_' = FALSE /\ worker' = "returned" /\ UNCHANGED is_closed_

(* 0 or an error (EAGAIN too, on a socket that is still non-blocking): the *)
(* subscribers are told and the thread returns.                            *)
RecvLost ==
    /\ worker = "recv"
    /\ ~inbox[sock_fd_]
    /\ \/ sk[sock_fd_] \in Lost \cup {"closed"}
       \/ sk[sock_fd_] \in {"connecting", "open"} /\ sock_fd_ \notin established
    /\ Disconnected
    /\ publish_server_disconnected
    /\ UNCHANGED <<inbox, watched>>

recv_server ==
    /\ WhileConnected \/ wait_for_read \/ RecvData \/ RecvLost
    /\ UNCHANGED <<sk, wire, sock_fd_, sendVars, callVars, restVars>>

(* select() fails, on a signal for one: the exception leaves the thread.   *)
SelectFails ==
    /\ worker = "select"
    /\ terminated' = "select"
    /\ UNCHANGED <<kernelVars, stateVars, sendVars, callVars, workerVars,
                   subscribed, established, disciplined>>

-----------------------------------------------------------------------------
(* close, called by the application or by the destructor:                  *)
(* terminate_worker stops and joins the receive thread ...                 *)
TerminateWorkerKeepsRunning ==
    /\ app' = IF worker = "none" THEN "closing" ELSE "joining"
    /\ UNCHANGED is_connected_

terminate_worker ==
    /\ is_connected_' = FALSE
    /\ app' = IF worker = "none" THEN "closing" ELSE "joining"

Leave == app' = IF dying' THEN "gone" ELSE "idle"

close(destructor) ==
    /\ app = "idle"
    /\ dying' = destructor
    /\ \/ is_closed_ /\ Leave /\ result' = "FAILURE" /\ UNCHANGED is_connected_
       \/ ~is_closed_ /\ terminate_worker /\ UNCHANGED result
    /\ UNCHANGED <<kernelVars, sock_fd_, is_closed_, sendVars, workerVars, restVars>>

KeepWorker == worker' = "returned"

ResetWorker == worker' = "none"

JoinWorker ==
    /\ app = "joining"
    /\ worker = "returned"
    /\ ResetWorker
    /\ app' = "closing"
    /\ UNCHANGED <<kernelVars, stateVars, sendVars, dying, result, watched,
                   reported, restVars>>

(* ... and ::close, after which the client is closed unless it failed.     *)
CloseSocket ==
    /\ app = "closing"
    /\ SetSk(sock_fd_, "closed")
    /\ UNCHANGED dying
    /\ Leave
    /\ \/ sk[sock_fd_] # "closed" /\ is_closed_' = TRUE /\ result' = "SUCCESS"
       \/ result' = "FAILURE" /\ UNCHANGED is_closed_
    /\ UNCHANGED <<inbox, wire, sock_fd_, is_connected_, sendVars, workerVars, restVars>>

-----------------------------------------------------------------------------
Application ==
    \/ initialize_socket \/ connect_server \/ ConnectFails \/ subscribe
    \/ \E size \in MsgSizes : send_msg(size)
    \/ SendSome \/ SendStops
    \/ \E destructor \in BOOLEAN : close(destructor)
    \/ JoinWorker \/ CloseSocket

Running == terminated = "no"

(* Nothing happens after std::terminate, and to a destroyed client.        *)
Over == (~Running \/ app = "gone") /\ UNCHANGED vars

Next ==
    \/ Running /\ (Network \/ Application \/ recv_server \/ SelectFails)
    \/ Over

Spec == Init /\ [][Next]_vars

(* The receive thread runs and its select() ends after three seconds at    *)
(* the latest; a call that has begun to close goes on.  The application    *)
(* may stop calling, and the network may do nothing.                       *)
Fairness ==
    /\ WF_vars(Running /\ recv_server)
    /\ WF_vars(Running /\ (JoinWorker \/ CloseSocket))

FairSpec == Spec /\ Fairness

-----------------------------------------------------------------------------
Contiguous(s) == \A k \in 1 .. Len(s) - 1 : s[k + 1] = s[k] + 1

(* send_msg's loop over partial sends, and the bytes buffer_ kept for the  *)
(* next connection (TcpClient.h:59), put the application's bytes on a      *)
(* connection in their order, none left out and none twice.                *)
NoGapNoRepeat == \A i \in established : Contiguous(wire[i])

(* On a connection that has not failed, nothing stays behind in buffer_:   *)
(* after a send_msg everything accepted so far, on earlier connections     *)
(* too, has been given to the kernel.                                      *)
NothingHeldBack ==
    /\ app = "idle"
    /\ sock_fd_ \in established
    /\ sk[sock_fd_] = "open"
    /\ wire[sock_fd_] # <<>>
    => buffer_ = <<>> /\ wire[sock_fd_][Len(wire[sock_fd_])] = accepted

(* What a connection carries is an interval of the application's bytes     *)
(* that ends with the last one accepted.                                   *)
StreamIntact == TypeOK /\ NoGapNoRepeat /\ NothingHeldBack

(* A client that is closed before every connect_server never assigns a     *)
(* thread over a joinable one, whether the receive thread was stopped by   *)
(* close() or had returned because the connection was lost.                *)
CloseBeforeConnectIsSafe == disciplined => terminated # "joinable"

(* ... and a closed client has given back the descriptor of every          *)
(* connection it ever had.                                                 *)
ClosedHasNoConnection ==
    disciplined /\ is_closed_ => \A i \in established : sk[i] = "closed"

(* The loss of a connection is published at most once, and not at all when *)
(* it was not lost: not on a timeout and not because of close().           *)
LossReportedOnce ==
    disciplined =>
        \A i \in Socks : /\ reported[i] <= 1
                         /\ reported[i] = 1 => sk[i] \in {"eof", "reset", "closed"}

(* No receive thread runs on the members of a destroyed client, and its    *)
(* std::thread is not destroyed while joinable.                            *)
DestroyedMeansQuiet == app = "gone" => worker = "none"

(* The receive thread and the connection it serves begin and end together. *)
ThreadFollowsConnection ==
    CloseBeforeConnectIsSafe /\ ClosedHasNoConnection /\ DestroyedMeansQuiet

(* close() returns: the receive thread notices is_connected_ at the latest *)
(* when select() times out.                                                *)
CloseReturns ==
    app \in {"joining", "closing"} ~> app \in {"idle", "gone"} \/ ~Running

(* A connection lost while somebody is subscribed is reported, unless the  *)
(* application closes or replaces it first.                                *)
LossIsReported ==
    \A i \in Socks :
        i \in established /\ subscribed /\ is_connected_ /\ sk[i] \in {"eof", "reset"}
          ~> reported[i] > 0 \/ sk[i] = "closed" \/ sock_fd_ # i \/ ~Running

=============================================================================
