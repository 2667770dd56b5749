----------------------------- MODULE RpcExchange -----------------------------
(***************************************************************************)
(* One RPCClient and the RPCServer on the other end of its connection: the *)
(* frames of Protocol.h, the loops of RPCSession that write and read them, *)
(* Client::receive_data on the server and the result codes of              *)
(* RPCClient::call, RPCServer::call and RPCServer::proxy.                  *)
(*                                                                         *)
(* TCP is a byte stream that the network cuts where it likes.  Bytes are   *)
(* units that know the frame they belong to and their position in it:      *)
(* MetaLen units stand for the 11 bytes of the header, the first of them   *)
(* for the magic number, ContentLen units for the content.  A response     *)
(* with empty content has a header only.                                   *)
(***************************************************************************)
EXTENDS Naturals, Sequences

CONSTANTS Calls,         \* the calls the client makes, numbers in order
          Kinds,         \* what a call may ask for
          MetaLen,       \* units in a header
          ContentLen,    \* units in a non-empty content
          Cuts,          \* TRUE: the network may deliver a request in pieces
          MayFail        \* TRUE: connections break and sends fail

ASSUME LenAssumption == MetaLen \in Nat \ {0} /\ ContentLen \in Nat \ {0}
ASSUME KindsAssumption ==
    Kinds \subseteq {"value", "nomatch", "mistyped", "nomethod", "throws"}
ASSUME FlagsAssumption == Cuts \in BOOLEAN /\ MayFail \in BOOLEAN

VARIABLES
    kind,        \* kind[k]: what call k asks for
    result,      \* result[k]: the RPCResult code call k returned
    caller,      \* where RPCClient::call is
    is_closed_,  \* RPCClient::is_closed_
    cConn,       \* is_connected_ of the client's Client object
    tx,          \* what sendProtocol has still to write
    rx,          \* what recvProtocol has read
    c2s,         \* on its way to the server
    sbuf,        \* arrived at the server, unread
    s2c,         \* on its way to the client, or arrived
    cEof,        \* the client has closed its socket
    sEof,        \* the server has closed its socket
    lost,        \* the connection is broken
    srv,         \* the server's receive task
    sConn,       \* is_connected_ of the server's Client object
    byte,        \* what receive_data has accumulated
    tasks,       \* the response tasks: what each has still to write
    executed,    \* the calls whose method was executed, in order
    dropped      \* history: the calls of which the server dropped a part

clientVars == <<kind, result, caller, is_closed_, cConn, tx, rx>>
netVars == <<c2s, sbuf, s2c, cEof, sEof, lost>>
serverVars == <<srv, sConn, byte, tasks, executed, dropped>>

vars == <<clientVars, netVars, serverVars>>

Unit == [call : Calls, pos : 1 .. MetaLen + ContentLen]

FrameLen(empty) == IF empty THEN MetaLen ELSE MetaLen + ContentLen

(* Protocol::encode.                                                       *)
Frame(k, empty) == [i \in 1 .. FrameLen(empty) |-> [call |-> k, pos |-> i]]

TypeOK ==
    /\ kind \in [Calls -> Kinds \cup {"none"}]
    /\ result \in [Calls -> {"none", "RPC_SUCCESS", "RPC_FAIL", "RPC_NO_MATCH",
                             "RPC_NO_METHOD", "RPC_CLOSED"}]
    /\ caller \in {"idle", "sending", "meta", "content"}
    /\ is_closed_ \in BOOLEAN /\ cConn \in BOOLEAN /\ sConn \in BOOLEAN
    /\ tx \in Seq(Unit) /\ rx \in Seq(Unit)
    /\ c2s \in Seq(Unit) /\ sbuf \in Seq(Unit) /\ s2c \in Seq(Unit)
    /\ byte \in Seq(Unit)
    /\ cEof \in BOOLEAN /\ sEof \in BOOLEAN /\ lost \in BOOLEAN
    /\ srv \in {"armed", "draining", "disarmed"}
    /\ tasks \in Seq(Seq(Unit))
    /\ executed \in Seq(Calls)
    /\ dropped \in SUBSET Calls

Init ==
    /\ kind = [k \in Calls |-> "none"]
    /\ result = [k \in Calls |-> "none"]
    /\ caller = "idle"
    /\ is_closed_ = TRUE /\ cConn = FALSE /\ sConn = FALSE
    /\ tx = <<>> /\ rx = <<>> /\ c2s = <<>> /\ sbuf = <<>> /\ s2c = <<>>
    /\ cEof = FALSE /\ sEof = FALSE /\ lost = FALSE
    /\ srv = "armed"
    /\ byte = <<>> /\ tasks = <<>>
    /\ executed = <<>>
    /\ dropped = {}

Take(s, n) == SubSeq(s, 1, n)
Drop(s, n) == SubSeq(s, n + 1, Len(s))

-----------------------------------------------------------------------------
(* The client.                                                             *)

Pending(k) == kind[k] # "none" /\ result[k] = "none"

(* The next call of the client's program; calls are made in order.         *)
NextCall(k) ==
    /\ caller = "idle"
    /\ kind[k] = "none"
    /\ \A j \in Calls : j < k => result[j] # "none"

(* RPCClient::connect_server succeeds: a Client and a session for the      *)
(* socket; the server accepts it.                                          *)
ConnectServer ==
    /\ is_closed_ /\ ~cEof
    /\ caller = "idle"
    /\ is_closed_' = FALSE
    /\ cConn' = TRUE
    /\ sConn' = TRUE
    /\ UNCHANGED <<kind, result, caller, tx, rx, netVars, srv, byte, tasks, executed, dropped>>

(* connect_server fails, for want of a socket or an address, before there  *)
(* is a Client, or later: the session is one of a new Client then, which   *)
(* is not connected, also if there was another that was.  is_closed_ stays *)
(* as it is, and nobody closes the socket.                                 *)
ConnectServerFails ==
    /\ caller = "idle"
    /\ cConn' \in {cConn, FALSE}
    /\ UNCHANGED <<kind, result, caller, is_closed_, tx, rx, netVars, serverVars>>

(* RPCClient::call on a client that has not connected.                     *)
CallClosed(k, q) ==
    /\ NextCall(k)
    /\ is_closed_
    /\ kind' = [kind EXCEPT ![k] = q]
    /\ result' = [result EXCEPT ![k] = "RPC_CLOSED"]
    /\ UNCHANGED <<caller, is_closed_, cConn, tx, rx, netVars, serverVars>>

(* RPCClient::call: the request frame, sequence id 0.                      *)
Call(k, q) ==
    /\ NextCall(k)
    /\ ~is_closed_
    /\ kind' = [kind EXCEPT ![k] = q]
    /\ tx' = Frame(k, FALSE)
    /\ caller' = "sending"
    /\ UNCHANGED <<result, is_closed_, cConn, rx, netVars, serverVars>>

(* call returns; what was read of a frame is forgotten.                    *)
Return(code) ==
    /\ result' = [k \in Calls |-> IF Pending(k) THEN code ELSE result[k]]
    /\ caller' = "idle"
    /\ rx' = <<>>
    /\ tx' = <<>>
    /\ UNCHANGED <<kind, is_closed_>>

(* writeFixSize: one round of the loop; the last one ends sendProtocol.    *)
WriteRequest ==
    /\ caller = "sending"
    /\ cConn /\ ~lost
    /\ \E n \in 1 .. Len(tx) :
         /\ Cuts \/ n = Len(tx)
         /\ c2s' = c2s \o Take(tx, n)
         /\ tx' = Drop(tx, n)
         /\ caller' = IF n = Len(tx) THEN "meta" ELSE "sending"
    /\ UNCHANGED <<kind, result, is_closed_, cConn, rx,
                   sbuf, s2c, cEof, sEof, lost, serverVars>>

(* RPCSession::write or ::send returns -1: the session is given up.        *)
WriteRequestFails ==
    /\ caller = "sending"
    /\ ~cConn \/ lost \/ sEof
    /\ cConn' = FALSE
    /\ Return("RPC_FAIL")
    /\ UNCHANGED <<netVars, serverVars>>

(* What readFixSize is asked for in this part of recvProtocol.             *)
Wanted == IF caller = "meta" THEN MetaLen ELSE MetaLen + ContentLen

(* readFixSize: one round of its loop.                                     *)
ReadResponse ==
    /\ caller \in {"meta", "content"}
    /\ Len(rx) < Wanted
    /\ cConn /\ ~lost
    /\ \E n \in 1 .. Len(s2c) :
         /\ n <= Wanted - Len(rx)
         /\ rx' = rx \o Take(s2c, n)
         /\ s2c' = Drop(s2c, n)
    /\ UNCHANGED <<kind, result, caller, is_closed_, cConn, tx,
                   c2s, sbuf, cEof, sEof, lost, serverVars>>

(* ... which returns 0 or -1.                                              *)
ReadResponseFails ==
    /\ caller \in {"meta", "content"}
    /\ Len(rx) < Wanted
    /\ ~cConn \/ lost \/ (sEof /\ s2c = <<>>)
    /\ cConn' = FALSE
    /\ Return("RPC_FAIL")
    /\ UNCHANGED <<netVars, serverVars>>

EmptyContent(k) == kind[k] = "nomethod"

(* decodeMeta: a header that does not start with the magic number, empty   *)
(* content, or content to be read.                                         *)
DecodeMetaNoContent ==
    /\ caller = "meta"
    /\ Len(rx) = MetaLen
    /\ Return(IF rx[1].pos # 1 THEN "RPC_FAIL" ELSE "RPC_SUCCESS")
    /\ UNCHANGED <<cConn, netVars, serverVars>>

DecodeMeta ==
    /\ caller = "meta"
    /\ Len(rx) = MetaLen
    /\ IF rx[1].pos # 1 THEN Return("RPC_FAIL")
       ELSE IF EmptyContent(rx[1].call) THEN Return("RPC_NO_METHOD")
       ELSE caller' = "content" /\ UNCHANGED <<kind, result, is_closed_, tx, rx>>
    /\ UNCHANGED <<cConn, netVars, serverVars>>

(* The content decoded as RPCResult<R>: the server's code, or              *)
(* RPC_NO_MATCH if the value is not an R.                                  *)
DecodeContent ==
    /\ caller = "content"
    /\ Len(rx) = MetaLen + ContentLen
    /\ Return(IF kind[rx[1].call] = "value" THEN "RPC_SUCCESS" ELSE "RPC_NO_MATCH")
    /\ UNCHANGED <<cConn, netVars, serverVars>>

(* ~RPCClient, or the end of its process.                                  *)
CloseClient ==
    /\ caller = "idle"
    /\ ~is_closed_
    /\ is_closed_' = TRUE
    /\ cEof' = TRUE
    /\ UNCHANGED <<kind, result, caller, cConn, tx, rx, c2s, sbuf, s2c, sEof, lost,
                   serverVars>>

-----------------------------------------------------------------------------
(* The network.                                                            *)

Deliver ==
    /\ ~lost
    /\ \E n \in 1 .. Len(c2s) :
         /\ Cuts \/ n = Len(c2s)
         /\ sbuf' = sbuf \o Take(c2s, n)
         /\ c2s' = Drop(c2s, n)
    /\ UNCHANGED <<clientVars, s2c, cEof, sEof, lost, serverVars>>

ConnectionBreaks ==
    /\ MayFail /\ ~lost
    /\ sConn
    /\ lost' = TRUE
    /\ UNCHANGED <<clientVars, c2s, sbuf, s2c, cEof, sEof, serverVars>>

-----------------------------------------------------------------------------
(* The server.                                                             *)

AtEof == lost \/ (cEof /\ c2s = <<>>)

(* The edge of an armed descriptor: a receive task is started.             *)
StartReceive ==
    /\ srv = "armed"
    /\ ~sEof
    /\ sbuf # <<>> \/ AtEof
    /\ srv' = "draining"
    /\ byte' = <<>>
    /\ UNCHANGED <<clientVars, netVars, sConn, tasks, executed, dropped>>

(* receive_data reads what has arrived ...                                 *)
RecvData ==
    /\ srv = "draining"
    /\ sConn /\ ~lost
    /\ sbuf # <<>>
    /\ byte' = byte \o sbuf
    /\ sbuf' = <<>>
    /\ UNCHANGED <<clientVars, c2s, s2c, cEof, sEof, lost,
                   srv, sConn, tasks, executed, dropped>>

(* ... until the peer has closed: what was accumulated is not published ...*)
RecvEof ==
    /\ srv = "draining"
    /\ sConn
    /\ lost \/ (sbuf = <<>> /\ AtEof)
    /\ sConn' = FALSE
    /\ srv' = "disarmed"
    /\ UNCHANGED <<clientVars, netVars, byte, tasks, executed, dropped>>

(* ... or the response task has given the connection up ...                *)
RecvDisconnected ==
    /\ srv = "draining"
    /\ ~sConn
    /\ srv' = "armed"
    /\ UNCHANGED <<clientVars, netVars, sConn, byte, tasks, executed, dropped>>

(* ... or nothing is left (EAGAIN).  Only a frame that starts at the first *)
(* byte accumulated and is complete is decoded, the rest is dropped.       *)
Decodes == Len(byte) >= FrameLen(FALSE) /\ byte[1].pos = 1

Drained ==
    /\ srv = "draining"
    /\ sConn /\ ~lost
    /\ sbuf = <<>> /\ ~AtEof

DropMessage ==
    /\ Drained
    /\ ~Decodes
    /\ dropped' = dropped \cup {byte[i].call : i \in 1 .. Len(byte)}
    /\ srv' = "armed"
    /\ UNCHANGED <<clientVars, netVars, sConn, byte, tasks, executed>>

(* handleMethodCall, proxy: the method is executed if it is registered and *)
(* takes these arguments; the response is the task of another worker.      *)
HandleMethodCallPiecemeal ==
    /\ Drained
    /\ byte # <<>>
    /\ LET k == byte[1].call
       IN /\ kind[k] # "throws"
          /\ executed' = IF kind[k] \in {"value", "mistyped"}
                         THEN Append(executed, k) ELSE executed
          /\ tasks' = Append(tasks, Frame(k, EmptyContent(k)))
    /\ srv' = "armed"
    /\ UNCHANGED <<clientVars, netVars, sConn, byte, dropped>>

HandleMethodCall ==
    /\ Drained
    /\ Decodes
    /\ LET k == byte[1].call
       IN /\ kind[k] # "throws"
          /\ executed' = IF kind[k] \in {"value", "mistyped"}
                         THEN Append(executed, k) ELSE executed
          /\ tasks' = Append(tasks, Frame(k, EmptyContent(k)))
    /\ srv' = "armed"
    /\ UNCHANGED <<clientVars, netVars, sConn, byte, dropped>>

(* The method throws: the exception ends the receive task before           *)
(* reset_oneshot and before there is a response.                           *)
MethodThrows ==
    /\ Drained
    /\ Decodes
    /\ kind[byte[1].call] = "throws"
    /\ executed' = Append(executed, byte[1].call)
    /\ srv' = "disarmed"
    /\ UNCHANGED <<clientVars, netVars, sConn, byte, tasks, dropped>>

(* The response task: writeFixSize on the non-blocking socket.             *)
WriteResponse ==
    /\ tasks # <<>>
    /\ sConn /\ ~lost
    /\ \E n \in 1 .. Len(Head(tasks)) :
         /\ s2c' = s2c \o Take(Head(tasks), n)
         /\ tasks' = IF n = Len(Head(tasks)) THEN Tail(tasks)
                     ELSE [tasks EXCEPT ![1] = Drop(@, n)]
    /\ UNCHANGED <<clientVars, c2s, sbuf, cEof, sEof, lost, srv, sConn, byte, executed, dropped>>

(* ... fails: EAGAIN when the socket's buffer is full, an error, or the    *)
(* client was given up before.                                             *)
WriteResponseGoesOn ==
    /\ tasks # <<>>
    /\ MayFail \/ ~sConn \/ lost
    /\ tasks' = Tail(tasks)
    /\ UNCHANGED <<clientVars, netVars, srv, sConn, byte, executed, dropped>>

WriteResponseFails ==
    /\ tasks # <<>>
    /\ MayFail \/ ~sConn \/ lost
    /\ sConn' = FALSE
    /\ tasks' = Tail(tasks)
    /\ UNCHANGED <<clientVars, netVars, srv, byte, executed, dropped>>

(* The remover closes the socket of a client that was given up.            *)
RemoveDeadClient ==
    /\ ~sConn
    /\ ~is_closed_ \/ cEof
    /\ ~sEof
    /\ sEof' = TRUE
    /\ UNCHANGED <<clientVars, c2s, sbuf, s2c, cEof, lost, serverVars>>

-----------------------------------------------------------------------------
ClientStep ==
    \/ WriteRequest \/ WriteRequestFails
    \/ ReadResponse \/ ReadResponseFails
    \/ DecodeMeta \/ DecodeContent

ServerStep ==
    \/ StartReceive \/ RecvData \/ RecvEof \/ RecvDisconnected
    \/ DropMessage \/ HandleMethodCall \/ MethodThrows

ResponseStep == WriteResponse \/ WriteResponseFails

(* Everything the client's program wanted is done.                         *)
Finished == caller = "idle" /\ UNCHANGED vars

Next ==
    \/ ConnectServer \/ ConnectServerFails
    \/ \E k \in Calls, q \in Kinds : Call(k, q) \/ CallClosed(k, q)
    \/ ClientStep
    \/ CloseClient
    \/ Deliver
    \/ ConnectionBreaks
    \/ ServerStep
    \/ ResponseStep
    \/ RemoveDeadClient
    \/ Finished

Spec == Init /\ [][Next]_vars

(* The threads of both processes and the network keep going; calls,        *)
(* failures and the end of the client are not forced.                      *)
Fairness ==
    /\ WF_vars(ClientStep) /\ WF_vars(Deliver) /\ WF_vars(ServerStep)
    /\ WF_vars(ResponseStep) /\ WF_vars(RemoveDeadClient)

FairSpec == Spec /\ Fairness

-----------------------------------------------------------------------------
(* RPCClient::call is an at-most-once remote call: the exchange implements *)
(* RpcService, although no sequence number ties a response to its request. *)
Service == INSTANCE RpcService

ImplementsService == Service!Spec

(* recvProtocol reads at frame boundaries, and the frame it reads is the   *)
(* answer to the call that is waiting: nothing an earlier call left behind *)
(* is ever taken for it.                                                   *)
ResponseBelongsToCall ==
    \A i \in 1 .. Len(rx) : Pending(rx[i].call) /\ rx[i].pos = i

(* Nothing of an earlier exchange is in the connection when a call starts, *)
(* as long as the client considers itself connected.                       *)
QuietBetweenCalls ==
    caller = "idle" /\ cConn /\ ~lost
      => s2c = <<>> /\ tasks = <<>> /\ c2s = <<>> /\ sbuf = <<>>

(* The exchange is in step: what the client reads is the answer to the     *)
(* call it waits for, and between calls there is nothing to read, although *)
(* every request has the same sequence id.                                 *)
ExchangeInStep == TypeOK /\ ResponseBelongsToCall /\ QuietBetweenCalls

(* A call whose request the server takes in one piece returns, also when   *)
(* the connection breaks, a send fails or the server gives the connection  *)
(* up in the middle of a response, unless the method throws: neither side  *)
(* of call() waits for the other for ever.                                 *)
WholeRequestsReturn ==
    \A k \in Calls :
        Pending(k) ~> ~Pending(k) \/ k \in dropped \/ kind[k] = "throws"

(* The result codes know of a call that takes too long ("RPC_TIMEOUT",     *)
(* RPCCommon.h:38): every call returns.                                    *)
CallReturns == \A k \in Calls : Pending(k) ~> ~Pending(k)

=============================================================================
