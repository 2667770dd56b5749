-------------------------- MODULE RpcExchangeProofs --------------------------
(***************************************************************************)
(* Proofs about RpcExchange for any number of calls, every length of       *)
(* header and content, any cuts and failures.                              *)
(*                                                                         *)
(* Nothing in a frame ties a response to its request, so that the two do   *)
(* not get out of step rests on where the pieces can be: the server never  *)
(* holds more than one request (RequestInv), and what is under way to a    *)
(* client that considers itself connected are consecutive pieces of one    *)
(* frame, the answer to the call that waits (ResponseInv).                 *)
(***************************************************************************)
EXTENDS RpcExchange, TLAPS

(* The calls that have not returned, and the ones that were executed.      *)
Waiting == {k \in Calls : Pending(k)}

Executed == {executed[i] : i \in 1 .. Len(executed)}

(* What is left of a request: still to be written (nothing is, once the    *)
(* client has given the connection up), on its way, arrived, and read by a *)
(* receive task that runs.                                                 *)
Unsent == IF cConn THEN tx ELSE <<>>

Read == IF srv = "draining" THEN byte ELSE <<>>

OnTheWay == Len(Unsent) + Len(c2s) + Len(sbuf) + Len(Read)

CallsIn(s) == {s[i].call : i \in 1 .. Len(s)}

Requested == CallsIn(Unsent) \cup CallsIn(c2s) \cup CallsIn(sbuf) \cup CallsIn(Read)

(* What is left to be written of a response.                               *)
Reply == IF tasks = <<>> THEN <<>> ELSE Head(tasks)

Answered == Len(rx) + Len(s2c) + Len(Reply)

(* One call at a time.                                                     *)
CallInv ==
    /\ caller = "idle" => Waiting = {}
    /\ \A j, k \in Waiting : j = k
    /\ \A k \in Calls : kind[k] = "none" => result[k] = "none" /\ k \notin Executed

(* Before connect_server there is nothing anywhere.                        *)
FreshInv ==
    /\ ~cConn => rx = <<>>
    /\ is_closed_ /\ ~cEof =>
         /\ caller = "idle" /\ ~cConn /\ ~sConn /\ ~lost /\ srv = "armed"
         /\ tx = <<>> /\ c2s = <<>> /\ sbuf = <<>> /\ s2c = <<>> /\ tasks = <<>>

(* There is never more than one request on its way to the server, of a     *)
(* call that has not been executed and, while the client is connected, has *)
(* not returned.                                                           *)
RequestInv ==
    /\ OnTheWay <= MetaLen + ContentLen
    /\ Requested \cap Executed = {}
    /\ cConn => Requested \subseteq Waiting

(* s is a piece of the frame of the waiting call that starts behind p.     *)
Piece(s, p) == \A i \in 1 .. Len(s) : s[i].call \in Waiting /\ s[i].pos = p + i

(* While the client is connected, what is read, on its way and not yet     *)
(* written of a response are consecutive pieces of one frame, which        *)
(* answers the waiting call, and the request is used up.                   *)
ResponseInv ==
    cConn =>
      /\ Len(tasks) <= 1
      /\ tasks # <<>> => Reply # <<>>
      /\ Piece(rx, 0)
      /\ Piece(s2c, Len(rx))
      /\ Piece(Reply, Len(rx) + Len(s2c))
      /\ Answered > 0 =>
           /\ OnTheWay = 0
           /\ \A k \in Waiting :
                /\ kind[k] # "throws"
                /\ kind[k] = "value" => k \in Executed
                /\ Answered <= FrameLen(EmptyContent(k))

IndInv == TypeOK /\ CallInv /\ FreshInv /\ RequestInv /\ ResponseInv

-----------------------------------------------------------------------------
(* Sequences of units: what Take, Drop and \o do to them.                  *)
LEMMA SplitUnits ==
    ASSUME NEW s \in Seq(Unit), NEW n \in 1 .. Len(s)
    PROVE  /\ Take(s, n) \in Seq(Unit) /\ Len(Take(s, n)) = n
           /\ \A i \in 1 .. n : Take(s, n)[i] = s[i]
           /\ Drop(s, n) \in Seq(Unit) /\ Len(Drop(s, n)) = Len(s) - n
           /\ \A i \in 1 .. Len(s) - n : Drop(s, n)[i] = s[n + i]
           /\ CallsIn(Take(s, n)) \subseteq CallsIn(s)
           /\ CallsIn(Drop(s, n)) \subseteq CallsIn(s)
<1>1. /\ Take(s, n) \in Seq(Unit) /\ Len(Take(s, n)) = n
      /\ \A i \in 1 .. n : Take(s, n)[i] = s[i] /\ i \in 1 .. Len(s)
  BY DEF Take
<1>2. /\ Drop(s, n) \in Seq(Unit) /\ Len(Drop(s, n)) = Len(s) - n
      /\ \A i \in 1 .. Len(s) - n : Drop(s, n)[i] = s[n + i] /\ n + i \in 1 .. Len(s)
  BY DEF Drop
<1>3. CallsIn(Take(s, n)) \subseteq CallsIn(s)
  BY <1>1 DEF CallsIn
<1>4. CallsIn(Drop(s, n)) \subseteq CallsIn(s)
  BY <1>2 DEF CallsIn
<1> QED BY <1>1, <1>2, <1>3, <1>4

LEMMA JoinUnits ==
    ASSUME NEW s \in Seq(Unit), NEW t \in Seq(Unit)
    PROVE  /\ s \o t \in Seq(Unit) /\ Len(s \o t) = Len(s) + Len(t)
           /\ Len(s) \in Nat /\ Len(t) \in Nat
           /\ \A i \in 1 .. Len(s) : (s \o t)[i] = s[i]
           /\ \A i \in 1 .. Len(s \o t) :
                 i \notin 1 .. Len(s) => i - Len(s) \in 1 .. Len(t) /\ (s \o t)[i] = t[i - Len(s)]
           /\ CallsIn(s \o t) \subseteq CallsIn(s) \cup CallsIn(t)
<1>1. /\ s \o t \in Seq(Unit) /\ Len(s \o t) = Len(s) + Len(t)
      /\ Len(s) \in Nat /\ Len(t) \in Nat
      /\ \A i \in 1 .. Len(s) : (s \o t)[i] = s[i]
      /\ \A i \in 1 .. Len(s \o t) :
            i \notin 1 .. Len(s) => i - Len(s) \in 1 .. Len(t) /\ (s \o t)[i] = t[i - Len(s)]
  OBVIOUS
<1>2. CallsIn(s \o t) \subseteq CallsIn(s) \cup CallsIn(t)
  BY <1>1 DEF CallsIn
<1> QED BY <1>1, <1>2

LEMMA EmptyUnits ==
    ASSUME NEW s \in Seq(Unit)
    PROVE  /\ Len(s) \in Nat
           /\ Len(s) = 0 <=> s = <<>>
           /\ CallsIn(s) = {} <=> s = <<>>
           /\ CallsIn(s) \subseteq Calls
<1>1. Len(s) \in Nat /\ (Len(s) = 0 <=> s = <<>>)
  OBVIOUS
<1>2. s = <<>> => CallsIn(s) = {}
  BY DEF CallsIn
<1>3. s # <<>> => CallsIn(s) # {}
  <2>1. s # <<>> => 1 \in 1 .. Len(s)
    BY <1>1
  <2> QED BY <2>1 DEF CallsIn
<1>4. CallsIn(s) \subseteq Calls
  <2>1. \A i \in 1 .. Len(s) : s[i] \in Unit
    OBVIOUS
  <2>2. \A u \in Unit : u.call \in Calls
    BY DEF Unit
  <2> QED BY <2>1, <2>2 DEF CallsIn
<1> QED BY <1>1, <1>2, <1>3, <1>4

LEMMA FrameUnits ==
    ASSUME NEW k \in Calls, NEW e \in BOOLEAN
    PROVE  /\ FrameLen(e) \in 1 .. MetaLen + ContentLen
           /\ Frame(k, e) \in Seq(Unit) /\ Len(Frame(k, e)) = FrameLen(e)
           /\ Frame(k, e) # <<>>
           /\ \A i \in 1 .. FrameLen(e) : Frame(k, e)[i].call = k /\ Frame(k, e)[i].pos = i
           /\ CallsIn(Frame(k, e)) = {k}
<1>1. FrameLen(e) \in 1 .. MetaLen + ContentLen
  BY LenAssumption DEF FrameLen
<1>2. /\ Frame(k, e) \in Seq(Unit) /\ Len(Frame(k, e)) = FrameLen(e)
      /\ Frame(k, e) # <<>>
      /\ \A i \in 1 .. FrameLen(e) : Frame(k, e)[i].call = k /\ Frame(k, e)[i].pos = i
  <2>1. \A i \in 1 .. FrameLen(e) : [call |-> k, pos |-> i] \in Unit
    BY <1>1, LenAssumption DEF Unit
  <2> QED BY <1>1, <2>1, LenAssumption DEF Frame
<1>3. 1 \in 1 .. FrameLen(e)
  BY <1>1, LenAssumption
<1> QED BY <1>1, <1>2, <1>3 DEF CallsIn

-----------------------------------------------------------------------------
(* The types of what the invariants are about.                             *)
LEMMA Lengths ==
    ASSUME TypeOK
    PROVE  /\ Unsent \in Seq(Unit) /\ Read \in Seq(Unit) /\ Reply \in Seq(Unit)
           /\ Len(Unsent) \in Nat /\ Len(c2s) \in Nat /\ Len(sbuf) \in Nat /\ Len(Read) \in Nat
           /\ Len(rx) \in Nat /\ Len(s2c) \in Nat /\ Len(Reply) \in Nat /\ Len(tasks) \in Nat
           /\ OnTheWay \in Nat /\ Answered \in Nat
<1>1. <<>> \in Seq(Unit)
  OBVIOUS
<1>2. Unsent \in Seq(Unit) /\ Read \in Seq(Unit)
  BY <1>1 DEF TypeOK, Unsent, Read
<1>3. Reply \in Seq(Unit)
  BY <1>1 DEF TypeOK, Reply
<1>4. Len(c2s) \in Nat /\ Len(sbuf) \in Nat /\ Len(rx) \in Nat /\ Len(s2c) \in Nat /\ Len(tasks) \in Nat
  BY DEF TypeOK
<1>5. Len(Unsent) \in Nat /\ Len(Read) \in Nat /\ Len(Reply) \in Nat
  BY <1>2, <1>3
<1> QED BY <1>2, <1>3, <1>4, <1>5 DEF OnTheWay, Answered

LEMMA RequestPrime ==
    /\ Requested' = CallsIn(Unsent') \cup CallsIn(c2s') \cup CallsIn(sbuf') \cup CallsIn(Read')
    /\ OnTheWay' = Len(Unsent') + Len(c2s') + Len(sbuf') + Len(Read')
BY DEF Requested, OnTheWay, CallsIn

LEMMA Frames ==
    /\ UNCHANGED <<kind, result>> => Waiting' = Waiting
    /\ UNCHANGED executed => Executed' = Executed
    /\ UNCHANGED <<tx, cConn>> => Unsent' = Unsent
    /\ UNCHANGED <<srv, byte>> => Read' = Read
    /\ UNCHANGED tasks => Reply' = Reply
    /\ UNCHANGED <<tx, cConn, c2s, sbuf, srv, byte>> => OnTheWay' = OnTheWay /\ Requested' = Requested
<1>1. /\ UNCHANGED <<kind, result>> => Waiting' = Waiting
      /\ UNCHANGED executed => Executed' = Executed
      /\ UNCHANGED <<tx, cConn>> => Unsent' = Unsent
      /\ UNCHANGED <<srv, byte>> => Read' = Read
      /\ UNCHANGED tasks => Reply' = Reply
  BY DEF Waiting, Pending, Executed, Unsent, Read, Reply
<1>2. UNCHANGED <<tx, cConn, c2s, sbuf, srv, byte>> => OnTheWay' = OnTheWay /\ Requested' = Requested
  BY <1>1, RequestPrime DEF OnTheWay, Requested
<1> QED BY <1>1, <1>2

LEMMA CallFrame ==
    ASSUME CallInv, UNCHANGED <<kind, result, executed>>, caller' = "idle" => caller = "idle"
    PROVE  CallInv'
BY Frames DEF CallInv

(* Steps that only move a request on, or lose some of it.                  *)
LEMMA RequestShrinks ==
    ASSUME TypeOK, RequestInv, OnTheWay' \in 0 .. OnTheWay, Requested' \subseteq Requested,
           UNCHANGED executed, cConn' => cConn /\ UNCHANGED <<kind, result>>
    PROVE  RequestInv'
<1>1. OnTheWay \in Nat /\ MetaLen + ContentLen \in Nat
  BY Lengths, LenAssumption
<1>2. OnTheWay' <= MetaLen + ContentLen
  BY <1>1 DEF RequestInv
<1> QED BY <1>2, Frames DEF RequestInv

LEMMA ResponseFrame ==
    ASSUME ResponseInv, UNCHANGED <<rx, s2c, tasks, kind, result, executed>>, cConn' => cConn,
           OnTheWay = 0 => OnTheWay' = 0
    PROVE  ResponseInv'
<1>1. Waiting' = Waiting /\ Executed' = Executed /\ Reply' = Reply
  BY Frames
<1>2. Answered' = Answered
  BY <1>1 DEF Answered
<1> QED BY <1>1, <1>2 DEF ResponseInv, Piece, EmptyContent

-----------------------------------------------------------------------------
LEMMA InitIndInv == Init => IndInv
<1> SUFFICES ASSUME Init PROVE IndInv
  OBVIOUS
<1>1. <<>> \in Seq(Unit) /\ <<>> \in Seq(Seq(Unit)) /\ <<>> \in Seq(Calls) /\ Len(<<>>) = 0
  OBVIOUS
<1>2. TypeOK
  BY <1>1 DEF Init, TypeOK
<1>3. Waiting = {} /\ Executed = {}
  BY DEF Init, Waiting, Pending, Executed
<1>4. Unsent = <<>> /\ Read = <<>> /\ c2s = <<>> /\ sbuf = <<>> /\ ~cConn
  BY DEF Init, Unsent, Read
<1>5. OnTheWay = 0 /\ Requested = {}
  BY <1>1, <1>4 DEF OnTheWay, Requested, CallsIn
<1>6. CallInv /\ FreshInv
  BY <1>3 DEF Init, CallInv, FreshInv
<1>7. RequestInv /\ ResponseInv
  BY <1>4, <1>5, LenAssumption DEF RequestInv, ResponseInv
<1> QED BY <1>2, <1>6, <1>7 DEF IndInv

(* While the client is connected and no call waits, nothing is anywhere.   *)
LEMMA QuietWhenIdle ==
    ASSUME IndInv, cConn, Waiting = {}
    PROVE  /\ tx = <<>> /\ c2s = <<>> /\ sbuf = <<>> /\ Read = <<>>
           /\ rx = <<>> /\ s2c = <<>> /\ tasks = <<>> /\ Reply = <<>> /\ OnTheWay = 0
<1> USE DEF IndInv
<1>1. tx \in Seq(Unit) /\ c2s \in Seq(Unit) /\ sbuf \in Seq(Unit) /\ rx \in Seq(Unit) /\ s2c \in Seq(Unit)
  BY DEF TypeOK
<1>2. Unsent = tx
  BY DEF Unsent
<1>3. CallsIn(tx) = {} /\ CallsIn(c2s) = {} /\ CallsIn(sbuf) = {} /\ CallsIn(Read) = {}
  BY <1>2 DEF RequestInv, Requested
<1>4. tx = <<>> /\ c2s = <<>> /\ sbuf = <<>> /\ Read = <<>>
  BY <1>1, <1>3, Lengths, EmptyUnits
<1>5. OnTheWay = 0
  BY <1>2, <1>4 DEF OnTheWay
<1>6. ASSUME NEW s \in Seq(Unit), NEW p, Piece(s, p) PROVE s = <<>>
  <2>1. Len(s) \in Nat /\ \A i \in 1 .. Len(s) : FALSE
    BY <1>6 DEF Piece
  <2>2. Len(s) = 0
    BY <2>1
  <2> QED BY <2>2
<1>7. rx = <<>> /\ s2c = <<>> /\ Reply = <<>>
  BY <1>1, <1>6, Lengths DEF ResponseInv
<1>8. tasks = <<>>
  BY <1>7 DEF ResponseInv
<1> QED BY <1>4, <1>5, <1>7, <1>8

(* An exchange that has nothing under way is in step.                      *)
LEMMA NothingUnderWay ==
    ASSUME Unsent' = <<>>, c2s' = <<>>, sbuf' = <<>>, Read' = <<>>,
           rx' = <<>>, s2c' = <<>>, tasks' = <<>>
    PROVE  RequestInv' /\ ResponseInv'
<1>1. OnTheWay' = 0 /\ Requested' = {}
  BY RequestPrime DEF CallsIn
<1>2. Reply' = <<>> /\ Answered' = 0
  BY DEF Reply, Answered
<1>3. RequestInv'
  BY <1>1, LenAssumption DEF RequestInv
<1>4. ResponseInv'
  BY <1>2 DEF ResponseInv, Piece
<1> QED BY <1>3, <1>4

-----------------------------------------------------------------------------
(* connect_server finds nothing, and is called once.                       *)
LEMMA ConnectStep ==
    ASSUME IndInv, ConnectServer
    PROVE  IndInv'
<1> USE DEF IndInv, netVars
<1>1. /\ caller = "idle" /\ is_closed_ /\ ~cEof
      /\ ~is_closed_' /\ cConn' = TRUE /\ sConn' = TRUE /\ is_closed_' = FALSE
      /\ UNCHANGED <<kind, result, caller, tx, rx, netVars, srv, byte, tasks, executed, dropped>>
  BY DEF ConnectServer
<1>2. TypeOK'
  BY <1>1 DEF TypeOK
<1>3. CallInv'
  BY <1>1, CallFrame
<1>4. FreshInv'
  BY <1>1 DEF FreshInv
<1>5. /\ tx = <<>> /\ c2s = <<>> /\ sbuf = <<>> /\ s2c = <<>> /\ tasks = <<>> /\ rx = <<>> /\ srv = "armed"
  BY <1>1 DEF FreshInv
<1>6. Unsent' = <<>> /\ Read' = <<>>
  BY <1>1, <1>5 DEF Unsent, Read
<1> QED BY <1>1, <1>2, <1>3, <1>4, <1>5, <1>6, NothingUnderWay

(* One that fails leaves the pieces where they are.                        *)
LEMMA ConnectFailsStep ==
    ASSUME IndInv, ConnectServerFails
    PROVE  IndInv'
<1> USE DEF IndInv, netVars, serverVars
<1>1. /\ caller = "idle" /\ (cConn' = cConn \/ cConn' = FALSE)
      /\ UNCHANGED <<kind, result, caller, is_closed_, tx, rx, netVars, serverVars>>
  BY DEF ConnectServerFails
<1>2. TypeOK'
  BY <1>1 DEF TypeOK
<1>3. CallInv'
  BY <1>1, CallFrame
<1>4. rx = <<>>
  <2>1. Waiting = {}
    BY <1>1 DEF CallInv
  <2> QED BY <2>1, QuietWhenIdle DEF FreshInv
<1>5. FreshInv'
  <2>1. is_closed_' /\ ~cEof' => ~cConn'
    BY <1>1 DEF FreshInv
  <2> QED BY <1>1, <1>4, <2>1 DEF FreshInv
<1>6. CASE cConn' = cConn
  <2>1. OnTheWay' = OnTheWay /\ Requested' = Requested
    BY <1>1, <1>6, Frames
  <2>2. RequestInv' /\ ResponseInv'
    BY <1>1, <1>6, <2>1, Lengths, RequestShrinks, ResponseFrame
  <2> QED BY <1>2, <1>3, <1>5, <2>2
<1>7. CASE cConn' = FALSE
  <2>1. UNCHANGED <<c2s, sbuf, executed>> /\ Read' = Read /\ Unsent' = <<>>
    BY <1>1, <1>7, Frames DEF Unsent
  <2>2. CallsIn(<<>>) = {} /\ Len(<<>>) = 0
    BY DEF CallsIn
  <2>3. Requested' \subseteq Requested
    BY <2>1, <2>2, RequestPrime DEF Requested
  <2>4. OnTheWay' \in 0 .. OnTheWay
    BY <2>1, <2>2, RequestPrime, Lengths DEF OnTheWay
  <2>5. RequestInv'
    BY <1>7, <2>1, <2>3, <2>4, RequestShrinks
  <2>6. ResponseInv'
    BY <1>7 DEF ResponseInv
  <2> QED BY <1>2, <1>3, <1>5, <2>5, <2>6
<1> QED BY <1>1, <1>6, <1>7

LEMMA CloseStep ==
    ASSUME IndInv, CloseClient
    PROVE  IndInv'
<1> USE DEF IndInv, serverVars
<1>1. /\ is_closed_' = TRUE /\ cEof' = TRUE
      /\ UNCHANGED <<kind, result, caller, cConn, tx, rx, c2s, sbuf, s2c, sEof, lost, serverVars>>
  BY DEF CloseClient
<1>2. TypeOK'
  BY <1>1 DEF TypeOK
<1>3. CallInv' /\ FreshInv'
  BY <1>1, CallFrame DEF FreshInv
<1>4. OnTheWay' = OnTheWay /\ Requested' = Requested
  BY <1>1, Frames
<1>5. RequestInv' /\ ResponseInv'
  BY <1>1, <1>4, Lengths, RequestShrinks, ResponseFrame
<1> QED BY <1>2, <1>3, <1>5

LEMMA CallClosedStep ==
    ASSUME IndInv, NEW k \in Calls, NEW q \in Kinds, CallClosed(k, q)
    PROVE  IndInv' /\ Service!Refuse(k, q)
<1> USE DEF IndInv, netVars, serverVars
<1>1. /\ caller = "idle" /\ kind[k] = "none" /\ is_closed_
      /\ kind' = [kind EXCEPT ![k] = q]
      /\ result' = [result EXCEPT ![k] = "RPC_CLOSED"]
      /\ UNCHANGED <<caller, is_closed_, cConn, tx, rx, netVars, serverVars>>
  BY DEF CallClosed, NextCall
<1>2. TypeOK'
  <2>1. kind' \in [Calls -> Kinds \cup {"none"}]
    BY <1>1 DEF TypeOK
  <2>2. result' \in [Calls -> {"none", "RPC_SUCCESS", "RPC_FAIL", "RPC_NO_MATCH",
                               "RPC_NO_METHOD", "RPC_CLOSED"}]
    BY <1>1 DEF TypeOK
  <2> QED BY <1>1, <2>1, <2>2 DEF TypeOK
<1>3. /\ kind'[k] = q /\ q # "none" /\ result'[k] = "RPC_CLOSED"
      /\ \A j \in Calls \ {k} : kind'[j] = kind[j] /\ result'[j] = result[j]
  BY <1>1, KindsAssumption DEF TypeOK
<1>4. Waiting = {} /\ Waiting' = {}
  <2>1. Waiting = {}
    BY <1>1 DEF CallInv
  <2> QED BY <1>3, <2>1 DEF Waiting, Pending
<1>5. CallInv'
  <2>1. Executed' = Executed
    BY <1>1, Frames
  <2> QED BY <1>1, <1>3, <1>4, <2>1 DEF CallInv
<1>6. FreshInv'
  BY <1>1 DEF FreshInv
<1>7. RequestInv' /\ ResponseInv'
  <2>1. CASE cConn
    <3>1. /\ tx = <<>> /\ c2s = <<>> /\ sbuf = <<>> /\ Read = <<>>
          /\ rx = <<>> /\ s2c = <<>> /\ tasks = <<>>
      BY <1>4, <2>1, QuietWhenIdle
    <3>2. Unsent' = <<>> /\ Read' = <<>>
      BY <1>1, <3>1, Frames DEF Unsent
    <3>3. RequestInv' /\ ResponseInv'
      BY <1>1, <3>1, <3>2, NothingUnderWay
    <3> QED BY <3>3
  <2>2. CASE ~cConn
    <3>1. ResponseInv'
      BY <1>1, <2>2 DEF ResponseInv
    <3>2. OnTheWay' = OnTheWay /\ Requested' = Requested
      BY <1>1, Frames
    <3>3. RequestInv'
      BY <1>1, <2>2, <3>2, Lengths, RequestShrinks
    <3> QED BY <3>1, <3>3
  <2> QED BY <2>1, <2>2
<1>8. Service!Refuse(k, q)
  <2>1. \A j \in Calls : ~Service!Pending(j)
    BY <1>4 DEF Waiting, Pending, Service!Pending
  <2> QED BY <1>1, <2>1 DEF Service!Refuse
<1> QED BY <1>2, <1>5, <1>6, <1>7, <1>8

(* The request of a call finds the connection quiet, or is never written.  *)
LEMMA CallStep ==
    ASSUME IndInv, NEW k \in Calls, NEW q \in Kinds, Call(k, q)
    PROVE  IndInv' /\ Service!Invoke(k, q)
<1> USE DEF IndInv, netVars, serverVars
<1>1. /\ caller = "idle" /\ kind[k] = "none" /\ ~is_closed_
      /\ kind' = [kind EXCEPT ![k] = q]
      /\ tx' = Frame(k, FALSE) /\ caller' = "sending"
      /\ UNCHANGED <<result, is_closed_, cConn, rx, netVars, serverVars>>
  BY DEF Call, NextCall
<1>2. /\ tx' \in Seq(Unit) /\ Len(tx') = MetaLen + ContentLen /\ CallsIn(tx') = {k}
  BY <1>1, FrameUnits DEF FrameLen
<1>3. TypeOK'
  <2>1. kind' \in [Calls -> Kinds \cup {"none"}]
    BY <1>1 DEF TypeOK
  <2> QED BY <1>1, <1>2, <2>1 DEF TypeOK
<1>4. kind'[k] = q /\ q # "none" /\ \A j \in Calls \ {k} : kind'[j] = kind[j]
  BY <1>1, KindsAssumption DEF TypeOK
<1>5. Waiting = {} /\ Waiting' = {k} /\ Executed' = Executed /\ k \notin Executed
  <2>1. Waiting = {} /\ k \notin Executed /\ result[k] = "none"
    BY <1>1 DEF CallInv
  <2> QED BY <1>1, <1>4, <2>1, Frames DEF Waiting, Pending
<1>6. CallInv'
  BY <1>1, <1>4, <1>5 DEF CallInv
<1>7. FreshInv'
  BY <1>1 DEF FreshInv
<1>8. RequestInv' /\ ResponseInv'
  <2>1. CASE cConn
    <3>1. /\ c2s = <<>> /\ sbuf = <<>> /\ Read = <<>>
          /\ rx = <<>> /\ s2c = <<>> /\ tasks = <<>>
      BY <1>5, <2>1, QuietWhenIdle
    <3>2. Unsent' = tx' /\ Read' = <<>>
      BY <1>1, <2>1, <3>1, Frames DEF Unsent
    <3>3. CallsIn(<<>>) = {} /\ Len(<<>>) = 0
      BY DEF CallsIn
    <3>4. OnTheWay' = MetaLen + ContentLen /\ Requested' = {k}
      BY <1>1, <1>2, <3>1, <3>2, <3>3, RequestPrime, LenAssumption
    <3>5. RequestInv'
      BY <1>5, <3>4, LenAssumption DEF RequestInv
    <3>6. Reply' = <<>> /\ Answered' = 0
      BY <1>1, <3>1 DEF Reply, Answered
    <3>7. ResponseInv'
      BY <1>1, <3>1, <3>6 DEF ResponseInv, Piece
    <3> QED BY <3>5, <3>7
  <2>2. CASE ~cConn
    <3>1. ResponseInv'
      BY <1>1, <2>2 DEF ResponseInv
    <3>2. Unsent' = Unsent /\ Read' = Read
      BY <1>1, <2>2, Frames DEF Unsent
    <3>3. OnTheWay' = OnTheWay /\ Requested' = Requested
      BY <1>1, <3>2, RequestPrime DEF OnTheWay, Requested
    <3>4. RequestInv'
      BY <1>1, <2>2, <3>3, Lengths, RequestShrinks
    <3> QED BY <3>1, <3>4
  <2> QED BY <2>1, <2>2
<1>9. Service!Invoke(k, q)
  <2>1. \A j \in Calls : ~Service!Pending(j)
    BY <1>5 DEF Waiting, Pending, Service!Pending
  <2> QED BY <1>1, <2>1 DEF Service!Invoke
<1> QED BY <1>3, <1>6, <1>7, <1>8, <1>9

-----------------------------------------------------------------------------
(* The call that waits returns.                                            *)
Codes == {"RPC_SUCCESS", "RPC_FAIL", "RPC_NO_MATCH", "RPC_NO_METHOD"}

LEMMA ReturnEnds ==
    ASSUME IndInv, caller # "idle", NEW code \in Codes, Return(code),
           UNCHANGED <<netVars, serverVars>>, cConn' \in BOOLEAN
    PROVE  TypeOK' /\ CallInv' /\ FreshInv'
<1> USE DEF IndInv, netVars, serverVars
<1>1. /\ result' = [k \in Calls |-> IF Pending(k) THEN code ELSE result[k]]
      /\ caller' = "idle" /\ rx' = <<>> /\ tx' = <<>> /\ UNCHANGED <<kind, is_closed_>>
  BY DEF Return
<1>2. TypeOK'
  <2>1. result' \in [Calls -> {"none", "RPC_SUCCESS", "RPC_FAIL", "RPC_NO_MATCH",
                               "RPC_NO_METHOD", "RPC_CLOSED"}]
    BY <1>1 DEF TypeOK, Codes
  <2>2. <<>> \in Seq(Unit)
    OBVIOUS
  <2> QED BY <1>1, <2>1, <2>2 DEF TypeOK
<1>3. \A k \in Calls : ~(kind'[k] # "none" /\ result'[k] = "none")
  BY <1>1 DEF Pending, Codes
<1>4. Waiting' = {}
  BY <1>3 DEF Waiting, Pending
<1>5. CallInv'
  <2>1. \A k \in Calls : kind'[k] = "none" => result'[k] = "none"
    BY <1>1 DEF Pending, CallInv
  <2> QED BY <1>1, <1>4, <2>1, Frames DEF CallInv
<1>6. FreshInv'
  BY <1>1 DEF FreshInv
<1> QED BY <1>2, <1>5, <1>6

(* What it returns is a result that RpcService allows.                     *)
LEMMA ReturnIsTrue ==
    ASSUME IndInv, NEW code, Return(code), UNCHANGED executed,
           \A k \in Waiting : /\ code \in {Service!CodeOf(kind[k]), "RPC_FAIL"}
                              /\ code = "RPC_SUCCESS" => k \in Executed
    PROVE  Service!Next \/ UNCHANGED <<kind, executed, result>>
<1> USE DEF IndInv
<1>1. result' = [k \in Calls |-> IF Pending(k) THEN code ELSE result[k]] /\ UNCHANGED kind
  BY DEF Return
<1>2. CASE Waiting = {}
  BY <1>1, <1>2 DEF Waiting, TypeOK
<1>3. ASSUME NEW k \in Waiting PROVE Service!Return(k)
  <2>1. k \in Calls /\ Pending(k) /\ \A j \in Calls : Pending(j) => j = k
    BY <1>3 DEF Waiting, CallInv
  <2>2. result' = [result EXCEPT ![k] = code]
    BY <1>1, <2>1 DEF TypeOK
  <2>3. code = "RPC_SUCCESS" => Service!WasExecuted(k)
    BY <1>3 DEF Executed, Service!WasExecuted
  <2> QED BY <1>1, <1>3, <2>1, <2>2, <2>3 DEF Service!Return, Service!Pending, Pending
<1>4. CASE Waiting # {}
  <2>1. PICK k \in Waiting : TRUE
    BY <1>4
  <2>2. k \in Calls
    BY DEF Waiting
  <2> QED BY <1>3, <2>1, <2>2 DEF Service!Next
<1> QED BY <1>2, <1>4

(* A failure: the client never writes or reads on this connection again.   *)
LEMMA FailStep ==
    ASSUME IndInv, WriteRequestFails \/ ReadResponseFails
    PROVE  IndInv' /\ (Service!Next \/ UNCHANGED <<kind, executed, result>>)
<1> USE DEF IndInv
<1>1. /\ caller # "idle" /\ cConn' = FALSE /\ Return("RPC_FAIL") /\ UNCHANGED <<netVars, serverVars>>
  BY DEF WriteRequestFails, ReadResponseFails
<1>2. TypeOK' /\ CallInv' /\ FreshInv'
  BY <1>1, ReturnEnds DEF Codes
<1>3. ResponseInv'
  BY <1>1 DEF ResponseInv
<1>4. RequestInv'
  <2>1. UNCHANGED <<c2s, sbuf, executed>> /\ Read' = Read /\ Unsent' = <<>>
    BY <1>1, Frames DEF netVars, serverVars, Unsent
  <2>2. CallsIn(<<>>) = {} /\ Len(<<>>) = 0
    BY DEF CallsIn
  <2>3. Requested' \subseteq Requested
    BY <2>1, <2>2, RequestPrime DEF Requested
  <2>4. OnTheWay' \in 0 .. OnTheWay
    BY <2>1, <2>2, RequestPrime, Lengths DEF OnTheWay
  <2> QED BY <1>1, <2>1, <2>3, <2>4, RequestShrinks
<1>5. Service!Next \/ UNCHANGED <<kind, executed, result>>
  BY <1>1, ReturnIsTrue DEF serverVars
<1> QED BY <1>2, <1>3, <1>4, <1>5

LEMMA WriteRequestStep ==
    ASSUME IndInv, WriteRequest
    PROVE  IndInv'
<1> USE DEF IndInv, serverVars
<1>1. PICK n \in 1 .. Len(tx) :
        /\ c2s' = c2s \o Take(tx, n) /\ tx' = Drop(tx, n)
        /\ caller' = IF n = Len(tx) THEN "meta" ELSE "sending"
  BY DEF WriteRequest
<1>2. /\ cConn
      /\ UNCHANGED <<kind, result, is_closed_, cConn, rx, sbuf, s2c, cEof, sEof, lost, serverVars>>
  BY DEF WriteRequest
<1>3. tx \in Seq(Unit) /\ c2s \in Seq(Unit)
  BY DEF TypeOK
<1>4. /\ Take(tx, n) \in Seq(Unit) /\ Len(Take(tx, n)) = n
      /\ tx' \in Seq(Unit) /\ Len(tx') = Len(tx) - n
      /\ CallsIn(Take(tx, n)) \subseteq CallsIn(tx) /\ CallsIn(tx') \subseteq CallsIn(tx)
  BY <1>1, <1>3, SplitUnits
<1>5. /\ c2s' \in Seq(Unit) /\ Len(c2s') = Len(c2s) + n
      /\ CallsIn(c2s') \subseteq CallsIn(c2s) \cup CallsIn(tx)
  <2> DEFINE t == Take(tx, n)
  <2>1. t \in Seq(Unit) /\ Len(t) = n /\ CallsIn(t) \subseteq CallsIn(tx)
    BY <1>4
  <2>2. c2s \in Seq(Unit) /\ c2s' = c2s \o t
    BY <1>1, <1>3
  <2> HIDE DEF t
  <2>3. c2s \o t \in Seq(Unit) /\ Len(c2s \o t) = Len(c2s) + Len(t)
        /\ CallsIn(c2s \o t) \subseteq CallsIn(c2s) \cup CallsIn(t)
    BY <2>1, <2>2, JoinUnits, Zenon
  <2> QED BY <2>1, <2>2, <2>3, Zenon
<1>6. TypeOK'
  BY <1>1, <1>2, <1>4, <1>5 DEF TypeOK
<1>7. Unsent = tx /\ Unsent' = tx' /\ Read' = Read
  BY <1>2, Frames DEF Unsent
<1>8. Requested' \subseteq Requested
  BY <1>2, <1>4, <1>5, <1>7, RequestPrime DEF Requested
<1>9. OnTheWay' = OnTheWay
  <2>1. OnTheWay = Len(tx) + Len(c2s) + Len(sbuf) + Len(Read)
    BY <1>7 DEF OnTheWay
  <2>2. OnTheWay' = (Len(tx) - n) + (Len(c2s) + n) + Len(sbuf) + Len(Read)
    BY <1>2, <1>4, <1>5, <1>7, RequestPrime
  <2>3. Len(tx) \in Nat /\ Len(c2s) \in Nat /\ Len(sbuf) \in Nat /\ Len(Read) \in Nat
    BY <1>7, Lengths
  <2> QED BY <2>1, <2>2, <2>3
<1>10. RequestInv' /\ ResponseInv'
  BY <1>2, <1>8, <1>9, Lengths, RequestShrinks, ResponseFrame
<1>11. CallInv' /\ FreshInv'
  BY <1>1, <1>2, CallFrame DEF FreshInv
<1> QED BY <1>6, <1>10, <1>11

(* readFixSize goes on where it stopped.                                   *)
LEMMA ReadResponseStep ==
    ASSUME IndInv, ReadResponse
    PROVE  IndInv'
<1> USE DEF IndInv, serverVars
<1>1. PICK n \in 1 .. Len(s2c) : rx' = rx \o Take(s2c, n) /\ s2c' = Drop(s2c, n)
  BY DEF ReadResponse
<1>2. /\ cConn
      /\ UNCHANGED <<kind, result, caller, is_closed_, cConn, tx, c2s, sbuf, cEof, sEof, lost, serverVars>>
  BY DEF ReadResponse
<1>3. rx \in Seq(Unit) /\ s2c \in Seq(Unit)
  BY DEF TypeOK
<1>4. /\ Take(s2c, n) \in Seq(Unit) /\ Len(Take(s2c, n)) = n
      /\ \A i \in 1 .. n : Take(s2c, n)[i] = s2c[i]
      /\ s2c' \in Seq(Unit) /\ Len(s2c') = Len(s2c) - n
      /\ \A i \in 1 .. Len(s2c) - n : s2c'[i] = s2c[n + i]
  BY <1>1, <1>3, SplitUnits
<1>5. /\ rx' \in Seq(Unit) /\ Len(rx') = Len(rx) + n
      /\ \A i \in 1 .. Len(rx) : rx'[i] = rx[i]
      /\ \A i \in 1 .. Len(rx') :
            i \notin 1 .. Len(rx) => i - Len(rx) \in 1 .. n /\ rx'[i] = Take(s2c, n)[i - Len(rx)]
  <2> DEFINE t == Take(s2c, n)
  <2>1. t \in Seq(Unit) /\ Len(t) = n /\ rx' = rx \o t
    BY <1>1, <1>4
  <2> HIDE DEF t
  <2>2. /\ rx' \in Seq(Unit) /\ Len(rx') = Len(rx) + n
        /\ \A i \in 1 .. Len(rx) : rx'[i] = rx[i]
        /\ \A i \in 1 .. Len(rx') :
              i \notin 1 .. Len(rx) => i - Len(rx) \in 1 .. n /\ rx'[i] = t[i - Len(rx)]
    <3>1. rx \in Seq(Unit)
      BY <1>3
    <3>2. /\ rx \o t \in Seq(Unit) /\ Len(rx \o t) = Len(rx) + Len(t)
          /\ \A i \in 1 .. Len(rx) : (rx \o t)[i] = rx[i]
          /\ \A i \in 1 .. Len(rx \o t) :
                i \notin 1 .. Len(rx) =>
                  i - Len(rx) \in 1 .. Len(t) /\ (rx \o t)[i] = t[i - Len(rx)]
      BY <2>1, <3>1, JoinUnits, Zenon
    <3> QED BY <2>1, <3>2, Zenon
  <2> QED BY <2>2 DEF t
<1>6. TypeOK'
  BY <1>2, <1>4, <1>5 DEF TypeOK
<1>7. CallInv' /\ FreshInv'
  BY <1>2, CallFrame DEF FreshInv
<1>8. OnTheWay' = OnTheWay /\ Requested' = Requested /\ Waiting' = Waiting /\ Reply' = Reply /\ Executed' = Executed
  BY <1>2, Frames
<1>9. RequestInv'
  BY <1>2, <1>8, Lengths, RequestShrinks
<1>10. Len(rx) \in Nat /\ Len(s2c) \in Nat /\ Len(Reply) \in Nat
  BY Lengths
<1>11. Answered' = Answered /\ Len(rx') + Len(s2c') = Len(rx) + Len(s2c)
  BY <1>4, <1>5, <1>8, <1>10 DEF Answered
<1>12. Piece(rx, 0) /\ Piece(s2c, Len(rx)) /\ Piece(Reply, Len(rx) + Len(s2c))
  BY <1>2 DEF ResponseInv
<1>13. \A i \in 1 .. Len(rx') : rx'[i].call \in Waiting /\ rx'[i].pos = 0 + i
  <2> SUFFICES ASSUME NEW i \in 1 .. Len(rx') PROVE rx'[i].call \in Waiting /\ rx'[i].pos = 0 + i
    OBVIOUS
  <2>1. CASE i \in 1 .. Len(rx)
    BY <1>5, <1>12, <2>1 DEF Piece
  <2>2. CASE i \notin 1 .. Len(rx)
    <3>1. i - Len(rx) \in 1 .. n /\ rx'[i] = s2c[i - Len(rx)]
      BY <1>4, <1>5, <2>2
    <3>2. i - Len(rx) \in 1 .. Len(s2c)
      BY <1>10, <3>1
    <3>3. rx'[i].call \in Waiting /\ rx'[i].pos = Len(rx) + (i - Len(rx))
      BY <1>12, <3>1, <3>2 DEF Piece
    <3>4. Len(rx) + (i - Len(rx)) = 0 + i
      BY <1>10
    <3> QED BY <3>3, <3>4
  <2> QED BY <2>1, <2>2
<1>14. \A i \in 1 .. Len(s2c') : s2c'[i].call \in Waiting /\ s2c'[i].pos = Len(rx') + i
  <2> SUFFICES ASSUME NEW i \in 1 .. Len(s2c') PROVE s2c'[i].call \in Waiting /\ s2c'[i].pos = Len(rx') + i
    OBVIOUS
  <2>1. s2c'[i] = s2c[n + i] /\ n + i \in 1 .. Len(s2c)
    BY <1>4, <1>10
  <2>2. s2c'[i].call \in Waiting /\ s2c'[i].pos = Len(rx) + (n + i)
    BY <1>12, <2>1 DEF Piece
  <2>3. Len(rx) + (n + i) = Len(rx') + i
    BY <1>5, <1>10
  <2> QED BY <2>2, <2>3
<1>15. \A i \in 1 .. Len(Reply') : Reply'[i].call \in Waiting /\ Reply'[i].pos = Len(rx') + Len(s2c') + i
  BY <1>8, <1>11, <1>12 DEF Piece
<1>16. ResponseInv'
  <2>1. /\ Len(tasks') <= 1 /\ (tasks' # <<>> => Reply' # <<>>)
        /\ Answered' > 0 =>
             /\ OnTheWay' = 0
             /\ \A k \in Waiting' :
                  /\ kind'[k] # "throws"
                  /\ kind'[k] = "value" => k \in Executed'
                  /\ Answered' <= FrameLen(kind'[k] = "nomethod")
    BY <1>2, <1>8, <1>11 DEF ResponseInv, EmptyContent
  <2> QED BY <1>8, <1>13, <1>14, <1>15, <2>1 DEF ResponseInv, Piece, EmptyContent
<1> QED BY <1>6, <1>7, <1>9, <1>16

(* The frame that was read is the whole answer: nothing is left behind it. *)
LEMMA AnswerIsWhole ==
    ASSUME IndInv, rx # <<>>, \A k \in Waiting : Len(rx) >= FrameLen(EmptyContent(k))
    PROVE  /\ cConn /\ rx[1].call \in Waiting /\ rx[1].pos = 1
           /\ tx = <<>> /\ c2s = <<>> /\ sbuf = <<>> /\ Read = <<>> /\ s2c = <<>> /\ tasks = <<>>
<1> USE DEF IndInv
<1>1. cConn
  BY DEF FreshInv
<1>2. /\ Len(rx) \in Nat /\ Len(s2c) \in Nat /\ Len(Reply) \in Nat
      /\ Len(Unsent) \in Nat /\ Len(c2s) \in Nat /\ Len(sbuf) \in Nat /\ Len(Read) \in Nat
  BY Lengths
<1>3. Len(rx) > 0
  BY <1>2 DEF TypeOK
<1>4. rx[1].call \in Waiting /\ rx[1].pos = 1
  <2>1. 1 \in 1 .. Len(rx)
    BY <1>2, <1>3
  <2>2. rx[1].call \in Waiting /\ rx[1].pos = 0 + 1
    BY <1>1, <2>1 DEF ResponseInv, Piece
  <2> QED BY <2>2
<1>5. Answered = Len(rx) + Len(s2c) + Len(Reply) /\ Answered > 0
  BY <1>2, <1>3 DEF Answered
<1>6. OnTheWay = 0 /\ \A k \in Waiting : Answered <= FrameLen(EmptyContent(k))
  BY <1>1, <1>5 DEF ResponseInv
<1>7. Len(Unsent) = 0 /\ Len(c2s) = 0 /\ Len(sbuf) = 0 /\ Len(Read) = 0
  BY <1>2, <1>6 DEF OnTheWay
<1>8. Len(s2c) = 0 /\ Len(Reply) = 0
  <2> DEFINE k == rx[1].call
             L == FrameLen(EmptyContent(k))
  <2>1. L \in Nat
    BY LenAssumption DEF FrameLen
  <2>2. Len(rx) + Len(s2c) + Len(Reply) <= L /\ Len(rx) >= L
    BY <1>4, <1>5, <1>6
  <2> QED BY <1>2, <2>1, <2>2
<1>9. Unsent = <<>> /\ c2s = <<>> /\ sbuf = <<>> /\ Read = <<>> /\ s2c = <<>> /\ Reply = <<>>
  BY <1>7, <1>8, Lengths, EmptyUnits DEF TypeOK
<1>10. tx = <<>> /\ tasks = <<>>
  BY <1>1, <1>9 DEF Unsent, ResponseInv
<1> QED BY <1>1, <1>4, <1>9, <1>10

LEMMA DecodeReturns ==
    ASSUME IndInv, caller # "idle", rx # <<>>,
           \A k \in Waiting : Len(rx) >= FrameLen(EmptyContent(k)),
           NEW code \in Codes, Return(code), UNCHANGED <<cConn, netVars, serverVars>>
    PROVE  IndInv'
<1> USE DEF IndInv
<1>1. /\ cConn /\ c2s = <<>> /\ sbuf = <<>> /\ Read = <<>> /\ s2c = <<>> /\ tasks = <<>>
  BY AnswerIsWhole
<1>2. TypeOK' /\ CallInv' /\ FreshInv'
  <2>1. cConn' \in BOOLEAN
    BY DEF TypeOK
  <2> QED BY <2>1, ReturnEnds
<1>3. rx' = <<>> /\ tx' = <<>>
  BY DEF Return
<1>4. Unsent' = <<>> /\ Read' = <<>>
  BY <1>1, <1>3, Frames DEF Unsent, serverVars
<1>5. RequestInv' /\ ResponseInv'
  BY <1>1, <1>3, <1>4, NothingUnderWay DEF netVars, serverVars
<1> QED BY <1>2, <1>5

(* recvProtocol: the header is at the start of a frame, and the frame      *)
(* ends where the header says.                                             *)
LEMMA DecodeMetaStep ==
    ASSUME IndInv, DecodeMeta
    PROVE  IndInv' /\ (Service!Next \/ UNCHANGED <<kind, executed, result>>)
<1> USE DEF IndInv
<1> DEFINE k == rx[1].call
<1>1. caller = "meta" /\ Len(rx) = MetaLen /\ UNCHANGED <<cConn, netVars, serverVars>>
  BY DEF DecodeMeta
<1>2. rx # <<>> /\ 1 \in 1 .. Len(rx)
  BY <1>1, LenAssumption DEF TypeOK
<1>3. cConn /\ k \in Waiting /\ rx[1].pos = 1
  <2>1. cConn
    BY <1>2 DEF FreshInv
  <2>2. rx[1].call \in Waiting /\ rx[1].pos = 0 + 1
    BY <1>2, <2>1 DEF ResponseInv, Piece
  <2> QED BY <2>1, <2>2
<1>4. \A j \in Waiting : j = k
  BY <1>3 DEF CallInv
<1>5. CASE EmptyContent(k)
  <2>1. Return("RPC_NO_METHOD")
    BY <1>3, <1>5 DEF DecodeMeta
  <2>2. \A j \in Waiting : Len(rx) >= FrameLen(EmptyContent(j))
    BY <1>1, <1>4, <1>5, LenAssumption DEF FrameLen
  <2>3. IndInv'
    BY <1>1, <1>2, <2>1, <2>2, DecodeReturns DEF Codes
  <2>4. \A j \in Waiting : "RPC_NO_METHOD" = Service!CodeOf(kind[j])
    BY <1>4, <1>5 DEF EmptyContent, Service!CodeOf
  <2>5. Service!Next \/ UNCHANGED <<kind, executed, result>>
    BY <1>1, <2>1, <2>4, ReturnIsTrue DEF serverVars
  <2> QED BY <2>3, <2>5
<1>6. CASE ~EmptyContent(k)
  <2>1. caller' = "content" /\ UNCHANGED <<kind, result, is_closed_, tx, rx, cConn, netVars, serverVars>>
    BY <1>1, <1>3, <1>6 DEF DecodeMeta
  <2> USE DEF netVars, serverVars
  <2>2. TypeOK'
    BY <2>1 DEF TypeOK
  <2>3. CallInv' /\ FreshInv'
    BY <1>3, <2>1, CallFrame DEF FreshInv
  <2>4. OnTheWay' = OnTheWay /\ Requested' = Requested
    BY <2>1, Frames
  <2>5. RequestInv' /\ ResponseInv'
    BY <2>1, <2>4, Lengths, RequestShrinks, ResponseFrame
  <2> QED BY <2>1, <2>2, <2>3, <2>5
<1> QED BY <1>5, <1>6

LEMMA DecodeContentStep ==
    ASSUME IndInv, DecodeContent
    PROVE  IndInv' /\ (Service!Next \/ UNCHANGED <<kind, executed, result>>)
<1> USE DEF IndInv
<1> DEFINE k == rx[1].call
           code == IF kind[k] = "value" THEN "RPC_SUCCESS" ELSE "RPC_NO_MATCH"
<1>1. /\ caller = "content" /\ Len(rx) = MetaLen + ContentLen /\ Return(code)
      /\ UNCHANGED <<cConn, netVars, serverVars>>
  BY DEF DecodeContent
<1>2. rx # <<>>
  BY <1>1, LenAssumption
<1>3. \A j \in Waiting : Len(rx) >= FrameLen(EmptyContent(j))
  BY <1>1, LenAssumption DEF FrameLen
<1>4. cConn /\ k \in Waiting
  BY <1>2, <1>3, AnswerIsWhole
<1>5. code \in Codes
  BY DEF Codes
<1> HIDE DEF code
<1>6. IndInv'
  BY <1>1, <1>2, <1>3, <1>5, DecodeReturns
<1>7. \A j \in Waiting : j = k
  BY <1>4 DEF CallInv
<1>8. /\ kind[k] \notin {"none", "throws", "nomethod"} /\ kind[k] \in Kinds
      /\ kind[k] = "value" => k \in Executed
  <2>1. k \in Calls /\ kind[k] # "none" /\ kind[k] \in Kinds
    BY <1>4 DEF Waiting, Pending, TypeOK
  <2>2. Len(rx) \in Nat /\ Len(s2c) \in Nat /\ Len(Reply) \in Nat
    BY Lengths
  <2>3. Answered > 0 /\ Answered >= MetaLen + ContentLen
    BY <1>1, <2>2, LenAssumption DEF Answered
  <2>4. /\ kind[k] # "throws" /\ (kind[k] = "value" => k \in Executed)
        /\ Answered <= FrameLen(EmptyContent(k))
    BY <1>4, <2>3 DEF ResponseInv
  <2>5. ~EmptyContent(k)
    BY <2>2, <2>3, <2>4, LenAssumption DEF FrameLen, Answered
  <2> QED BY <2>1, <2>4, <2>5 DEF EmptyContent
<1>9. kind[k] \in {"value", "nomatch", "mistyped"}
  BY <1>8, KindsAssumption
<1>10. code = Service!CodeOf(kind[k]) /\ (code = "RPC_SUCCESS" => k \in Executed)
  BY <1>8, <1>9 DEF code, Service!CodeOf
<1>11. Service!Next \/ UNCHANGED <<kind, executed, result>>
  BY <1>1, <1>7, <1>10, ReturnIsTrue DEF serverVars
<1> QED BY <1>6, <1>11

-----------------------------------------------------------------------------
(* The network, and the receive task up to a complete message.             *)
LEMMA DeliverStep ==
    ASSUME IndInv, Deliver
    PROVE  IndInv'
<1> USE DEF IndInv, clientVars, serverVars
<1>1. PICK n \in 1 .. Len(c2s) : sbuf' = sbuf \o Take(c2s, n) /\ c2s' = Drop(c2s, n)
  BY DEF Deliver
<1>2. UNCHANGED <<clientVars, s2c, cEof, sEof, lost, serverVars>>
  BY DEF Deliver
<1>3. sbuf \in Seq(Unit) /\ c2s \in Seq(Unit)
  BY DEF TypeOK
<1>4. /\ Take(c2s, n) \in Seq(Unit) /\ Len(Take(c2s, n)) = n
      /\ c2s' \in Seq(Unit) /\ Len(c2s') = Len(c2s) - n
      /\ CallsIn(Take(c2s, n)) \subseteq CallsIn(c2s) /\ CallsIn(c2s') \subseteq CallsIn(c2s)
  BY <1>1, <1>3, SplitUnits
<1>5. /\ sbuf' \in Seq(Unit) /\ Len(sbuf') = Len(sbuf) + n
      /\ CallsIn(sbuf') \subseteq CallsIn(sbuf) \cup CallsIn(c2s)
  <2> DEFINE t == Take(c2s, n)
  <2>1. t \in Seq(Unit) /\ Len(t) = n /\ CallsIn(t) \subseteq CallsIn(c2s)
    BY <1>4
  <2>2. sbuf \in Seq(Unit) /\ sbuf' = sbuf \o t
    BY <1>1, <1>3
  <2> HIDE DEF t
  <2>3. sbuf \o t \in Seq(Unit) /\ Len(sbuf \o t) = Len(sbuf) + Len(t)
        /\ CallsIn(sbuf \o t) \subseteq CallsIn(sbuf) \cup CallsIn(t)
    BY <2>1, <2>2, JoinUnits, Zenon
  <2> QED BY <2>1, <2>2, <2>3, Zenon
<1>6. TypeOK'
  BY <1>2, <1>4, <1>5 DEF TypeOK
<1>7. Unsent' = Unsent /\ Read' = Read
  BY <1>2, Frames
<1>8. Requested' \subseteq Requested
  BY <1>4, <1>5, <1>7, RequestPrime DEF Requested
<1>9. OnTheWay' = OnTheWay
  <2>1. OnTheWay' = Len(Unsent) + (Len(c2s) - n) + (Len(sbuf) + n) + Len(Read)
    BY <1>4, <1>5, <1>7, RequestPrime
  <2>2. OnTheWay = Len(Unsent) + Len(c2s) + Len(sbuf) + Len(Read)
    BY DEF OnTheWay
  <2>3. Len(Unsent) \in Nat /\ Len(c2s) \in Nat /\ Len(sbuf) \in Nat /\ Len(Read) \in Nat
    BY Lengths
  <2> QED BY <2>1, <2>2, <2>3
<1>10. RequestInv' /\ ResponseInv'
  BY <1>2, <1>8, <1>9, Lengths, RequestShrinks, ResponseFrame
<1>11. CallInv' /\ FreshInv'
  <2>1. c2s # <<>>
    BY <1>3
  <2> QED BY <1>2, <2>1, CallFrame DEF FreshInv
<1> QED BY <1>6, <1>10, <1>11

LEMMA RecvDataStep ==
    ASSUME IndInv, RecvData
    PROVE  IndInv'
<1> USE DEF IndInv, clientVars
<1>1. /\ srv = "draining" /\ byte' = byte \o sbuf /\ sbuf' = <<>>
      /\ UNCHANGED <<clientVars, c2s, s2c, cEof, sEof, lost, srv, sConn, tasks, executed, dropped>>
  BY DEF RecvData
<1>2. byte \in Seq(Unit) /\ sbuf \in Seq(Unit)
  BY DEF TypeOK
<1>3. /\ byte' \in Seq(Unit) /\ Len(byte') = Len(byte) + Len(sbuf)
      /\ CallsIn(byte') \subseteq CallsIn(byte) \cup CallsIn(sbuf)
  BY <1>1, <1>2, JoinUnits
<1>4. Unsent' = Unsent /\ Read = byte /\ Read' = byte'
  BY <1>1, Frames DEF Read
<1>5. CallsIn(<<>>) = {} /\ Len(<<>>) = 0 /\ <<>> \in Seq(Unit)
  BY DEF CallsIn
<1>6. TypeOK'
  BY <1>1, <1>3, <1>5 DEF TypeOK
<1>7. Requested' \subseteq Requested
  BY <1>1, <1>3, <1>4, <1>5, RequestPrime DEF Requested
<1>8. OnTheWay' = OnTheWay
  <2>1. OnTheWay' = Len(Unsent) + Len(c2s) + 0 + (Len(byte) + Len(sbuf))
    BY <1>1, <1>3, <1>4, <1>5, RequestPrime
  <2>2. OnTheWay = Len(Unsent) + Len(c2s) + Len(sbuf) + Len(byte)
    BY <1>4 DEF OnTheWay
  <2>3. Len(Unsent) \in Nat /\ Len(c2s) \in Nat /\ Len(sbuf) \in Nat /\ Len(byte) \in Nat
    BY <1>4, Lengths
  <2> QED BY <2>1, <2>2, <2>3
<1>9. RequestInv' /\ ResponseInv'
  BY <1>1, <1>7, <1>8, Lengths, RequestShrinks, ResponseFrame
<1>10. CallInv' /\ FreshInv'
  BY <1>1, CallFrame DEF FreshInv
<1> QED BY <1>6, <1>9, <1>10

(* A receive task that starts has read nothing; one that ends has          *)
(* forgotten what it had read.                                             *)
LEMMA ReceiveTaskStep ==
    ASSUME IndInv, StartReceive \/ RecvEof \/ RecvDisconnected \/ DropMessage
    PROVE  IndInv'
<1> USE DEF IndInv, clientVars, netVars
<1>1. /\ UNCHANGED <<clientVars, netVars, tasks, executed>>
      /\ srv' \in {"armed", "draining", "disarmed"}
      /\ srv' = "draining" => byte' = <<>>
      /\ byte' \in {byte, <<>>}
      /\ sConn' \in {sConn, FALSE}
  BY DEF StartReceive, RecvEof, RecvDisconnected, DropMessage
<1>2. dropped' \in SUBSET Calls
  <2>1. \A i \in 1 .. Len(byte) : byte[i].call \in Calls
    <3>1. CallsIn(byte) \subseteq Calls
      BY EmptyUnits DEF TypeOK
    <3> QED BY <3>1 DEF CallsIn
  <2>2. dropped \in SUBSET Calls
    BY DEF TypeOK
  <2>3. \/ dropped' = dropped
        \/ dropped' = dropped \cup {byte[i].call : i \in 1 .. Len(byte)}
    BY DEF StartReceive, RecvEof, RecvDisconnected, DropMessage
  <2> QED BY <2>1, <2>2, <2>3
<1>3. ~(is_closed_ /\ ~cEof)
  BY DEF StartReceive, RecvEof, RecvDisconnected, DropMessage, Drained, AtEof, FreshInv
<1>4. CallsIn(<<>>) = {} /\ Len(<<>>) = 0 /\ <<>> \in Seq(Unit)
  BY DEF CallsIn
<1>5. TypeOK'
  BY <1>1, <1>2, <1>4 DEF TypeOK
<1>6. CallInv' /\ FreshInv'
  BY <1>1, <1>3, CallFrame DEF FreshInv
<1>7. Unsent' = Unsent /\ Read' = <<>>
  BY <1>1, Frames DEF Read
<1>8. Requested' \subseteq Requested
  BY <1>1, <1>4, <1>7, RequestPrime DEF Requested
<1>9. OnTheWay' \in 0 .. OnTheWay
  <2>1. OnTheWay' = Len(Unsent) + Len(c2s) + Len(sbuf) + 0
    BY <1>1, <1>4, <1>7, RequestPrime
  <2>2. OnTheWay = Len(Unsent) + Len(c2s) + Len(sbuf) + Len(Read)
    BY DEF OnTheWay
  <2>3. Len(Unsent) \in Nat /\ Len(c2s) \in Nat /\ Len(sbuf) \in Nat /\ Len(Read) \in Nat
    BY Lengths
  <2> QED BY <2>1, <2>2, <2>3
<1>10. RequestInv' /\ ResponseInv'
  BY <1>1, <1>8, <1>9, RequestShrinks, ResponseFrame
<1> QED BY <1>5, <1>6, <1>10

(* Steps that touch no piece.                                              *)
LEMMA FlagStep ==
    ASSUME IndInv, ConnectionBreaks \/ RemoveDeadClient
    PROVE  IndInv'
<1> USE DEF IndInv, clientVars, serverVars
<1>1. /\ UNCHANGED <<clientVars, c2s, sbuf, s2c, cEof, serverVars>>
      /\ lost' \in BOOLEAN /\ sEof' \in BOOLEAN /\ ~(is_closed_ /\ ~cEof)
  BY DEF ConnectionBreaks, RemoveDeadClient, FreshInv, TypeOK
<1>2. TypeOK'
  BY <1>1 DEF TypeOK
<1>3. CallInv' /\ FreshInv'
  BY <1>1, CallFrame DEF FreshInv
<1>4. OnTheWay' = OnTheWay /\ Requested' = Requested
  BY <1>1, Frames
<1>5. RequestInv' /\ ResponseInv'
  BY <1>1, <1>4, Lengths, RequestShrinks, ResponseFrame
<1> QED BY <1>2, <1>3, <1>5

-----------------------------------------------------------------------------
(* A message that decodes is a whole request: it is all there was, nobody  *)
(* has answered it, and it was not executed before.                        *)
LEMMA RequestIsWhole ==
    ASSUME IndInv, Drained, Decodes
    PROVE  /\ byte[1].call \in Calls /\ byte[1].call \notin Executed
           /\ Unsent = <<>> /\ c2s = <<>> /\ sbuf = <<>>
           /\ cConn => /\ byte[1].call \in Waiting
                       /\ rx = <<>> /\ s2c = <<>> /\ tasks = <<>>
<1> USE DEF IndInv
<1>1. Read = byte /\ byte \in Seq(Unit)
  BY DEF Drained, Read, TypeOK
<1>2. Len(byte) >= MetaLen + ContentLen
  BY DEF Decodes, FrameLen
<1>3. /\ Len(Unsent) \in Nat /\ Len(c2s) \in Nat /\ Len(sbuf) \in Nat /\ Len(byte) \in Nat
      /\ Len(rx) \in Nat /\ Len(s2c) \in Nat /\ Len(Reply) \in Nat
  BY <1>1, Lengths
<1>4. OnTheWay = Len(Unsent) + Len(c2s) + Len(sbuf) + Len(byte) /\ OnTheWay <= MetaLen + ContentLen
  BY <1>1 DEF OnTheWay, RequestInv
<1>5. Len(Unsent) = 0 /\ Len(c2s) = 0 /\ Len(sbuf) = 0 /\ OnTheWay # 0
  BY <1>2, <1>3, <1>4, LenAssumption
<1>6. Unsent = <<>> /\ c2s = <<>> /\ sbuf = <<>>
  BY <1>5, Lengths, EmptyUnits DEF TypeOK
<1>7. byte[1].call \in CallsIn(byte)
  <2>1. 1 \in 1 .. Len(byte)
    BY <1>2, <1>3, LenAssumption
  <2> QED BY <2>1 DEF CallsIn
<1>8. byte[1].call \in Calls /\ byte[1].call \in Requested
  BY <1>1, <1>7, EmptyUnits DEF Requested
<1>9. ASSUME cConn PROVE rx = <<>> /\ s2c = <<>> /\ tasks = <<>>
  <2>1. ~(Answered > 0)
    BY <1>5, <1>9 DEF ResponseInv
  <2>2. Len(rx) = 0 /\ Len(s2c) = 0 /\ Len(Reply) = 0
    BY <1>3, <2>1 DEF Answered
  <2>3. rx = <<>> /\ s2c = <<>> /\ Reply = <<>>
    BY <2>2, Lengths, EmptyUnits DEF TypeOK
  <2> QED BY <1>9, <2>3 DEF ResponseInv
<1> QED BY <1>6, <1>8, <1>9 DEF RequestInv

LEMMA ExecutedAppend ==
    ASSUME TypeOK, NEW k \in Calls, executed' = Append(executed, k)
    PROVE  executed' \in Seq(Calls) /\ Executed' = Executed \cup {k}
<1>1. /\ executed' \in Seq(Calls) /\ Len(executed) \in Nat /\ Len(executed') = Len(executed) + 1
      /\ \A i \in 1 .. Len(executed) : executed'[i] = executed[i]
      /\ executed'[Len(executed) + 1] = k
  BY DEF TypeOK
<1>2. Executed' = {executed'[i] : i \in 1 .. Len(executed')}
  BY DEF Executed
<1>3. \A i \in 1 .. Len(executed') : i \in 1 .. Len(executed) \/ i = Len(executed) + 1
  BY <1>1
<1>4. Len(executed) + 1 \in 1 .. Len(executed') /\ \A i \in 1 .. Len(executed) : i \in 1 .. Len(executed')
  BY <1>1
<1>5. Executed' \subseteq Executed \cup {k}
  BY <1>1, <1>2, <1>3 DEF Executed
<1>6. Executed \subseteq Executed' /\ k \in Executed'
  BY <1>1, <1>2, <1>4 DEF Executed
<1> QED BY <1>1, <1>5, <1>6

(* The receive task has used the request up.                               *)
LEMMA RequestUsedUp ==
    ASSUME Unsent' = <<>>, c2s' = <<>>, sbuf' = <<>>, Read' = <<>>
    PROVE  OnTheWay' = 0 /\ RequestInv'
<1>1. OnTheWay' = 0 /\ Requested' = {}
  BY RequestPrime DEF CallsIn
<1> QED BY <1>1, LenAssumption DEF RequestInv

(* A method is executed once for a call.                                   *)
LEMMA HandleStep ==
    ASSUME IndInv, HandleMethodCall
    PROVE  IndInv' /\ (Service!Next \/ UNCHANGED <<kind, executed, result>>)
<1> USE DEF IndInv, clientVars, netVars
<1> DEFINE k == byte[1].call
           f == Frame(k, EmptyContent(k))
           runs == kind[k] \in {"value", "mistyped"}
<1>1. /\ Drained /\ Decodes /\ kind[k] # "throws"
      /\ executed' = IF runs THEN Append(executed, k) ELSE executed
      /\ tasks' = Append(tasks, f) /\ srv' = "armed"
      /\ UNCHANGED <<clientVars, netVars, sConn, byte, dropped>>
  BY DEF HandleMethodCall
<1>2. /\ k \in Calls /\ k \notin Executed /\ Unsent = <<>> /\ c2s = <<>> /\ sbuf = <<>>
      /\ cConn => k \in Waiting /\ rx = <<>> /\ s2c = <<>> /\ tasks = <<>>
  BY <1>1, RequestIsWhole
<1>3. /\ f \in Seq(Unit) /\ f # <<>> /\ Len(f) = FrameLen(EmptyContent(k)) /\ Len(f) \in Nat
      /\ \A i \in 1 .. Len(f) : f[i].call = k /\ f[i].pos = i
  <2>1. EmptyContent(k) \in BOOLEAN
    BY DEF EmptyContent
  <2> QED BY <1>2, <2>1, FrameUnits, LenAssumption
<1> HIDE DEF f, k
<1>4. /\ executed' \in Seq(Calls)
      /\ Executed' = IF runs THEN Executed \cup {k} ELSE Executed
  <2>1. CASE runs
    BY <1>1, <1>2, <2>1, ExecutedAppend
  <2>2. CASE ~runs
    BY <1>1, <2>2, Frames DEF TypeOK
  <2> QED BY <2>1, <2>2
<1>5. TypeOK'
  <2>1. tasks' \in Seq(Seq(Unit))
    BY <1>1, <1>3 DEF TypeOK
  <2> QED BY <1>1, <1>4, <2>1 DEF TypeOK
<1>6. Waiting' = Waiting
  BY <1>1, Frames
<1>7. CallInv'
  BY <1>1, <1>2, <1>4, <1>6 DEF CallInv
<1>8. FreshInv'
  BY <1>1 DEF FreshInv, Drained
<1>9. OnTheWay' = 0 /\ RequestInv'
  <2>1. Unsent' = <<>> /\ Read' = <<>>
    BY <1>1, <1>2, Frames DEF Read
  <2> QED BY <1>1, <1>2, <2>1, RequestUsedUp
<1>10. ResponseInv'
  <2> SUFFICES ASSUME cConn PROVE ResponseInv'
    BY <1>1 DEF ResponseInv
  <2>1. rx = <<>> /\ s2c = <<>> /\ tasks = <<>> /\ \A j \in Waiting : j = k
    BY <1>2 DEF CallInv
  <2>2. tasks' = <<f>>
    BY <1>1, <2>1
  <2>3. Reply' = f /\ Len(tasks') = 1 /\ tasks' # <<>>
    BY <2>2 DEF Reply
  <2>4. Answered' = Len(f)
    BY <1>1, <1>3, <2>1, <2>3 DEF Answered
  <2>5. Len(rx') = 0 /\ Len(s2c') = 0 /\ rx' = <<>> /\ s2c' = <<>>
    BY <1>1, <2>1
  <2>6. \A i \in 1 .. Len(Reply') : Reply'[i].call \in Waiting' /\ Reply'[i].pos = Len(rx') + Len(s2c') + i
    BY <1>2, <1>3, <1>6, <2>3, <2>5
  <2>7. \A j \in Waiting' : /\ kind'[j] # "throws"
                            /\ kind'[j] = "value" => j \in Executed'
                            /\ Answered' <= FrameLen(kind'[j] = "nomethod")
    <3>1. FrameLen(EmptyContent(k)) \in Nat
      BY <1>3
    <3> QED BY <1>1, <1>3, <1>4, <1>6, <2>1, <2>4, <3>1 DEF EmptyContent
  <2> QED BY <1>3, <1>9, <2>3, <2>5, <2>6, <2>7 DEF ResponseInv, Piece, EmptyContent
<1>11. Service!Next \/ UNCHANGED <<kind, executed, result>>
  <2>1. CASE runs
    <3>1. Service!Execute(k)
      BY <1>1, <1>2, <2>1 DEF Service!Execute, Service!Executing, Service!WasExecuted, Executed
    <3> QED BY <1>2, <3>1 DEF Service!Next
  <2>2. CASE ~runs
    BY <1>1, <2>2
  <2> QED BY <2>1, <2>2
<1> QED BY <1>5, <1>7, <1>8, <1>9, <1>10, <1>11

(* ... also when it throws: then there is no response.                     *)
LEMMA ThrowStep ==
    ASSUME IndInv, MethodThrows
    PROVE  IndInv' /\ Service!Next
<1> USE DEF IndInv, clientVars, netVars
<1> DEFINE k == byte[1].call
<1>1. /\ Drained /\ Decodes /\ kind[k] = "throws"
      /\ executed' = Append(executed, k) /\ srv' = "disarmed"
      /\ UNCHANGED <<clientVars, netVars, sConn, byte, tasks, dropped>>
  BY DEF MethodThrows
<1>2. /\ k \in Calls /\ k \notin Executed /\ Unsent = <<>> /\ c2s = <<>> /\ sbuf = <<>>
      /\ cConn => k \in Waiting /\ rx = <<>> /\ s2c = <<>> /\ tasks = <<>>
  BY <1>1, RequestIsWhole
<1> HIDE DEF k
<1>3. executed' \in Seq(Calls) /\ Executed' = Executed \cup {k}
  BY <1>1, <1>2, ExecutedAppend
<1>4. TypeOK'
  BY <1>1, <1>3 DEF TypeOK
<1>5. CallInv'
  <2>1. Waiting' = Waiting
    BY <1>1, Frames
  <2> QED BY <1>1, <1>3, <2>1 DEF CallInv
<1>6. FreshInv'
  BY <1>1 DEF FreshInv, Drained
<1>7. Unsent' = <<>> /\ Read' = <<>>
  BY <1>1, <1>2, Frames DEF Read
<1>8. RequestInv'
  BY <1>1, <1>2, <1>7, RequestUsedUp
<1>9. ResponseInv'
  <2>1. CASE cConn
    BY <1>1, <1>2, <1>7, <2>1, NothingUnderWay
  <2>2. CASE ~cConn
    BY <1>1, <2>2 DEF ResponseInv
  <2> QED BY <2>1, <2>2
<1>10. Service!Execute(k)
  BY <1>1, <1>2 DEF Service!Execute, Service!Executing, Service!WasExecuted, Executed
<1>11. Service!Next
  BY <1>2, <1>10 DEF Service!Next
<1> QED BY <1>4, <1>5, <1>6, <1>8, <1>9, <1>11

-----------------------------------------------------------------------------
(* writeFixSize moves the front of the first response into the connection. *)
LEMMA WriteResponseStep ==
    ASSUME IndInv, WriteResponse
    PROVE  IndInv'
<1> USE DEF IndInv, clientVars
<1> DEFINE t == Head(tasks)
<1>1. PICK n \in 1 .. Len(t) :
        /\ s2c' = s2c \o Take(t, n)
        /\ tasks' = IF n = Len(t) THEN Tail(tasks) ELSE [tasks EXCEPT ![1] = Drop(@, n)]
  BY DEF WriteResponse
<1>2. /\ tasks # <<>> /\ sConn
      /\ UNCHANGED <<clientVars, c2s, sbuf, cEof, sEof, lost, srv, sConn, byte, executed, dropped>>
  BY DEF WriteResponse
<1>3. t \in Seq(Unit) /\ s2c \in Seq(Unit) /\ t = Reply /\ Len(t) \in Nat /\ t = tasks[1]
  BY <1>2 DEF TypeOK, Reply
<1> HIDE DEF t
<1>4. /\ Take(t, n) \in Seq(Unit) /\ Len(Take(t, n)) = n
      /\ \A i \in 1 .. n : Take(t, n)[i] = t[i]
      /\ Drop(t, n) \in Seq(Unit) /\ Len(Drop(t, n)) = Len(t) - n
      /\ \A i \in 1 .. Len(t) - n : Drop(t, n)[i] = t[n + i]
  BY <1>3, SplitUnits
<1>5. /\ s2c' \in Seq(Unit) /\ Len(s2c') = Len(s2c) + n
      /\ \A i \in 1 .. Len(s2c) : s2c'[i] = s2c[i]
      /\ \A i \in 1 .. Len(s2c') :
            i \notin 1 .. Len(s2c) => i - Len(s2c) \in 1 .. n /\ s2c'[i] = t[i - Len(s2c)]
  <2> DEFINE u == Take(t, n)
  <2>1. u \in Seq(Unit) /\ Len(u) = n /\ s2c' = s2c \o u
    BY <1>1, <1>4
  <2> HIDE DEF u
  <2>2. /\ s2c' \in Seq(Unit) /\ Len(s2c') = Len(s2c) + n
        /\ \A i \in 1 .. Len(s2c) : s2c'[i] = s2c[i]
        /\ \A i \in 1 .. Len(s2c') :
              i \notin 1 .. Len(s2c) => i - Len(s2c) \in 1 .. n /\ s2c'[i] = u[i - Len(s2c)]
    <3>1. s2c \in Seq(Unit)
      BY <1>3
    <3>2. /\ s2c \o u \in Seq(Unit) /\ Len(s2c \o u) = Len(s2c) + Len(u)
          /\ \A i \in 1 .. Len(s2c) : (s2c \o u)[i] = s2c[i]
          /\ \A i \in 1 .. Len(s2c \o u) :
                i \notin 1 .. Len(s2c) =>
                  i - Len(s2c) \in 1 .. Len(u) /\ (s2c \o u)[i] = u[i - Len(s2c)]
      BY <2>1, <3>1, JoinUnits, Zenon
    <3> QED BY <2>1, <3>2, Zenon
  <2> QED BY <1>4, <2>2 DEF u
<1>6. /\ tasks' \in Seq(Seq(Unit)) /\ Len(tasks') <= Len(tasks)
      /\ n = Len(t) => tasks' = Tail(tasks)
      /\ n # Len(t) => tasks' # <<>> /\ Head(tasks') = Drop(t, n)
  <2>1. tasks \in Seq(Seq(Unit)) /\ Len(tasks) \in Nat /\ Len(tasks) > 0
    BY <1>2 DEF TypeOK
  <2>2. CASE n = Len(t)
    BY <1>1, <2>1, <2>2
  <2>3. CASE n # Len(t)
    <3>1. tasks' = [tasks EXCEPT ![1] = Drop(t, n)]
      BY <1>1, <1>3, <2>3
    <3> DEFINE d == Drop(t, n)
    <3>2. d \in Seq(Unit)
      BY <1>4
    <3> HIDE DEF d
    <3>3. tasks' \in Seq(Seq(Unit)) /\ Len(tasks') = Len(tasks) /\ tasks'[1] = d
      BY <2>1, <3>1, <3>2 DEF d
    <3>4. tasks' # <<>> /\ Head(tasks') = d
      BY <2>1, <3>3
    <3> QED BY <2>1, <2>3, <3>3, <3>4 DEF d
  <2> QED BY <2>2, <2>3
<1>7. TypeOK'
  BY <1>2, <1>5, <1>6 DEF TypeOK
<1>8. CallInv' /\ FreshInv'
  BY <1>2, CallFrame DEF FreshInv
<1>9. OnTheWay' = OnTheWay /\ Requested' = Requested /\ Waiting' = Waiting /\ Executed' = Executed
  BY <1>2, Frames
<1>10. RequestInv'
  BY <1>2, <1>9, Lengths, RequestShrinks
<1>11. ResponseInv'
  <2> SUFFICES ASSUME cConn PROVE ResponseInv'
    BY <1>2 DEF ResponseInv
  <2>1. /\ Len(tasks) <= 1 /\ Piece(rx, 0) /\ Piece(s2c, Len(rx)) /\ Piece(t, Len(rx) + Len(s2c))
    BY <1>3 DEF ResponseInv
  <2>2. Len(rx) \in Nat /\ Len(s2c) \in Nat /\ Len(tasks) \in Nat /\ Len(tasks') \in Nat
    BY <1>6, Lengths
  <2>3. /\ Len(tasks') <= 1 /\ (tasks' # <<>> => Reply' # <<>>) /\ Len(Reply') = Len(t) - n
        /\ \A i \in 1 .. Len(Reply') : Reply'[i] = t[n + i]
    <3>1. CASE n = Len(t)
      <4>1. tasks' = <<>>
        BY <1>2, <1>6, <2>1, <2>2, <3>1 DEF TypeOK
      <4>2. Reply' = <<>>
        BY <4>1 DEF Reply
      <4> QED BY <1>3, <3>1, <4>1, <4>2
    <3>2. CASE n # Len(t)
      <4>1. Reply' = Drop(t, n)
        BY <1>6, <3>2 DEF Reply
      <4>2. Len(Drop(t, n)) > 0
        BY <1>3, <1>4, <3>2
      <4> QED BY <1>4, <1>6, <2>1, <2>2, <4>1, <4>2
    <3> QED BY <3>1, <3>2
  <2>4. Answered' = Answered
    <3>1. Answered = Len(rx) + Len(s2c) + Len(t)
      BY <1>3 DEF Answered
    <3>2. Answered' = Len(rx) + (Len(s2c) + n) + (Len(t) - n)
      BY <1>2, <1>5, <2>3 DEF Answered
    <3>3. n \in Nat /\ Len(t) \in Nat /\ Len(rx) \in Nat /\ Len(s2c) \in Nat
      BY <1>3, <2>2
    <3> QED BY <3>1, <3>2, <3>3
  <2>5. \A i \in 1 .. Len(s2c') : s2c'[i].call \in Waiting /\ s2c'[i].pos = Len(rx) + i
    <3> SUFFICES ASSUME NEW i \in 1 .. Len(s2c') PROVE s2c'[i].call \in Waiting /\ s2c'[i].pos = Len(rx) + i
      OBVIOUS
    <3>1. CASE i \in 1 .. Len(s2c)
      BY <1>5, <2>1, <3>1 DEF Piece
    <3>2. CASE i \notin 1 .. Len(s2c)
      <4>1. i - Len(s2c) \in 1 .. Len(t) /\ s2c'[i] = t[i - Len(s2c)]
        BY <1>3, <1>5, <2>2, <3>2
      <4>2. s2c'[i].call \in Waiting /\ s2c'[i].pos = Len(rx) + Len(s2c) + (i - Len(s2c))
        BY <2>1, <4>1 DEF Piece
      <4>3. Len(rx) + Len(s2c) + (i - Len(s2c)) = Len(rx) + i
        BY <2>2
      <4> QED BY <4>2, <4>3
    <3> QED BY <3>1, <3>2
  <2>6. \A i \in 1 .. Len(Reply') : /\ Reply'[i].call \in Waiting
                                    /\ Reply'[i].pos = Len(rx) + Len(s2c') + i
    <3> SUFFICES ASSUME NEW i \in 1 .. Len(Reply')
                 PROVE  Reply'[i].call \in Waiting /\ Reply'[i].pos = Len(rx) + Len(s2c') + i
      OBVIOUS
    <3>1. n + i \in 1 .. Len(t) /\ Reply'[i] = t[n + i]
      BY <1>3, <2>3
    <3>2. Reply'[i].call \in Waiting /\ Reply'[i].pos = Len(rx) + Len(s2c) + (n + i)
      BY <2>1, <3>1 DEF Piece
    <3>3. Len(rx) + Len(s2c) + (n + i) = Len(rx) + Len(s2c') + i
      BY <1>5, <2>2
    <3> QED BY <3>2, <3>3
  <2>7. Answered' > 0 =>
             /\ OnTheWay' = 0
             /\ \A k \in Waiting' :
                  /\ kind'[k] # "throws"
                  /\ kind'[k] = "value" => k \in Executed'
                  /\ Answered' <= FrameLen(kind'[k] = "nomethod")
    BY <1>2, <1>9, <2>4 DEF ResponseInv, EmptyContent
  <2> QED BY <1>2, <1>9, <2>1, <2>3, <2>5, <2>6, <2>7 DEF ResponseInv, Piece, EmptyContent
<1> QED BY <1>7, <1>8, <1>10, <1>11

(* The rest of a response that cannot be written is lost.                  *)
LEMMA WriteResponseFailsStep ==
    ASSUME IndInv, WriteResponseFails
    PROVE  IndInv'
<1> USE DEF IndInv, clientVars, netVars
<1>1. /\ tasks # <<>> /\ tasks' = Tail(tasks) /\ sConn' = FALSE
      /\ UNCHANGED <<clientVars, netVars, srv, byte, executed, dropped>>
  BY DEF WriteResponseFails
<1>2. tasks \in Seq(Seq(Unit)) /\ tasks' \in Seq(Seq(Unit)) /\ Len(tasks') = Len(tasks) - 1
  BY <1>1 DEF TypeOK
<1>3. TypeOK'
  BY <1>1, <1>2 DEF TypeOK
<1>4. CallInv' /\ FreshInv'
  BY <1>1, CallFrame DEF FreshInv
<1>5. OnTheWay' = OnTheWay /\ Requested' = Requested /\ Waiting' = Waiting /\ Executed' = Executed
  BY <1>1, Frames
<1>6. RequestInv'
  BY <1>1, <1>5, Lengths, RequestShrinks
<1>7. ResponseInv'
  <2> SUFFICES ASSUME cConn PROVE ResponseInv'
    BY <1>1 DEF ResponseInv
  <2>1. Len(tasks) <= 1 /\ Piece(rx, 0) /\ Piece(s2c, Len(rx))
    BY DEF ResponseInv
  <2>2. tasks' = <<>>
    BY <1>1, <1>2, <2>1
  <2>3. Reply' = <<>>
    BY <2>2 DEF Reply
  <2>4. Len(rx) \in Nat /\ Len(s2c) \in Nat /\ Len(Reply) \in Nat
    BY Lengths
  <2>5. Answered = Len(rx) + Len(s2c) + Len(Reply) /\ Answered' = Len(rx) + Len(s2c)
    BY <1>1, <2>3, <2>4 DEF Answered
  <2>6. Answered' > 0 =>
             /\ OnTheWay' = 0
             /\ \A k \in Waiting' :
                  /\ kind'[k] # "throws"
                  /\ kind'[k] = "value" => k \in Executed'
                  /\ Answered' <= FrameLen(kind'[k] = "nomethod")
    <3> SUFFICES ASSUME Answered' > 0
                 PROVE  /\ OnTheWay' = 0
                        /\ \A k \in Waiting' :
                             /\ kind'[k] # "throws"
                             /\ kind'[k] = "value" => k \in Executed'
                             /\ Answered' <= FrameLen(kind'[k] = "nomethod")
      OBVIOUS
    <3>1. Answered > 0 /\ Answered' <= Answered
      BY <2>4, <2>5
    <3>2. /\ OnTheWay = 0
          /\ \A k \in Waiting : /\ kind[k] # "throws"
                                /\ kind[k] = "value" => k \in Executed
                                /\ Answered <= FrameLen(kind[k] = "nomethod")
      BY <3>1 DEF ResponseInv, EmptyContent
    <3>3. ASSUME NEW k \in Waiting PROVE Answered' <= FrameLen(kind[k] = "nomethod")
      <4>1. FrameLen(kind[k] = "nomethod") \in Nat
        BY LenAssumption DEF FrameLen
      <4> QED BY <2>4, <2>5, <3>2, <4>1
    <3> QED BY <1>1, <1>5, <3>2, <3>3
  <2> QED BY <1>1, <1>5, <2>1, <2>2, <2>3, <2>6 DEF ResponseInv, Piece, EmptyContent
<1> QED BY <1>3, <1>4, <1>6, <1>7

LEMMA StutterStep ==
    ASSUME IndInv, UNCHANGED vars
    PROVE  IndInv'
<1> USE DEF IndInv, vars, clientVars, netVars, serverVars
<1>1. TypeOK' /\ FreshInv'
  BY DEF TypeOK, FreshInv
<1>2. CallInv'
  BY CallFrame
<1>3. OnTheWay' = OnTheWay /\ Requested' = Requested
  BY Frames
<1>4. RequestInv' /\ ResponseInv'
  BY <1>3, Lengths, RequestShrinks, ResponseFrame
<1> QED BY <1>1, <1>2, <1>4

-----------------------------------------------------------------------------
(* Every step keeps the exchange in step and is a step of RpcService, or   *)
(* changes nothing of it.                                                  *)
LEMMA NextStep ==
    ASSUME IndInv, [Next]_vars
    PROVE  IndInv' /\ (Service!Next \/ UNCHANGED <<kind, executed, result>>)
<1> DEFINE Goal == IndInv' /\ (Service!Next \/ UNCHANGED <<kind, executed, result>>)
<1> USE DEF clientVars, serverVars
<1>1. CASE ConnectServer
  BY <1>1, ConnectStep DEF ConnectServer
<1>c. CASE ConnectServerFails
  BY <1>c, ConnectFailsStep DEF ConnectServerFails
<1>2. ASSUME NEW k \in Calls, NEW q \in Kinds, Call(k, q) \/ CallClosed(k, q) PROVE Goal
  <2>1. CASE Call(k, q)
    BY <2>1, CallStep DEF Service!Next
  <2>2. CASE CallClosed(k, q)
    BY <2>2, CallClosedStep DEF Service!Next
  <2> QED BY <1>2, <2>1, <2>2
<1>3. CASE WriteRequest
  BY <1>3, WriteRequestStep DEF WriteRequest
<1>4. CASE WriteRequestFails \/ ReadResponseFails
  BY <1>4, FailStep
<1>5. CASE ReadResponse
  BY <1>5, ReadResponseStep DEF ReadResponse
<1>6. CASE DecodeMeta
  BY <1>6, DecodeMetaStep
<1>7. CASE DecodeContent
  BY <1>7, DecodeContentStep
<1>8. CASE CloseClient
  BY <1>8, CloseStep DEF CloseClient
<1>9. CASE Deliver
  BY <1>9, DeliverStep DEF Deliver
<1>10. CASE ConnectionBreaks \/ RemoveDeadClient
  BY <1>10, FlagStep DEF ConnectionBreaks, RemoveDeadClient
<1>11. CASE StartReceive \/ RecvEof \/ RecvDisconnected \/ DropMessage
  BY <1>11, ReceiveTaskStep DEF StartReceive, RecvEof, RecvDisconnected, DropMessage
<1>12. CASE RecvData
  BY <1>12, RecvDataStep DEF RecvData
<1>13. CASE HandleMethodCall
  BY <1>13, HandleStep
<1>14. CASE MethodThrows
  BY <1>14, ThrowStep
<1>15. CASE WriteResponse
  BY <1>15, WriteResponseStep DEF WriteResponse
<1>16. CASE WriteResponseFails
  BY <1>16, WriteResponseFailsStep DEF WriteResponseFails
<1>17. CASE UNCHANGED vars
  BY <1>17, StutterStep DEF vars
<1> HIDE DEF Goal
<1>18. Goal
  BY <1>1, <1>c, <1>2, <1>3, <1>4, <1>5, <1>6, <1>7, <1>8, <1>9, <1>10, <1>11, <1>12, <1>13, <1>14,
     <1>15, <1>16, <1>17 DEF Next, ClientStep, ServerStep, ResponseStep, Finished, Goal
<1> QED BY <1>18 DEF Goal

LEMMA Invariance == Spec => []IndInv
BY InitIndInv, NextStep, PTL DEF Spec

LEMMA InStep ==
    ASSUME IndInv
    PROVE  ExchangeInStep
<1> USE DEF IndInv
<1>1. ResponseBelongsToCall
  <2>1. CASE cConn
    <3>1. \A i \in 1 .. Len(rx) : rx[i].call \in Waiting /\ rx[i].pos = 0 + i
      BY <2>1 DEF ResponseInv, Piece
    <3> QED BY <3>1 DEF ResponseBelongsToCall, Waiting
  <2>2. CASE ~cConn
    BY <2>2 DEF FreshInv, ResponseBelongsToCall
  <2> QED BY <2>1, <2>2
<1>2. QuietBetweenCalls
  BY QuietWhenIdle DEF CallInv, QuietBetweenCalls
<1> QED BY <1>1, <1>2 DEF ExchangeInStep

(* RPCClient::call never takes for its answer what an earlier call left    *)
(* behind, although all requests carry the same sequence id: it reads at   *)
(* frame boundaries, from a frame that answers the call that waits, and    *)
(* between calls nothing is under way.                                     *)
THEOREM ExchangeSafety == Spec => []ExchangeInStep
BY Invariance, InStep, PTL

(* The exchange implements RpcService: a method is executed at most once   *)
(* for a call, and a call returns what the server found, or RPC_FAIL.      *)
THEOREM ServiceRefinement == Spec => ImplementsService
<1>1. Init => Service!Init
  BY DEF Init, Service!Init
<1>2. IndInv /\ [Next]_vars => [Service!Next]_(Service!serviceVars)
  BY NextStep DEF Service!serviceVars
<1> QED BY <1>1, <1>2, Invariance, PTL DEF Spec, ImplementsService, Service!Spec
=============================================================================
