--------------------------- MODULE TcpClientProofs ---------------------------
(***************************************************************************)
(* Proofs about TcpClient for any buffer size, any message sizes, any      *)
(* number of bytes and of calls of connect_server.  That a connection      *)
(* carries an interval of the application's bytes needs to know what       *)
(* buffer_ holds between two sends (BufferInv, StreamInv); what the        *)
(* receive thread does needs to know which connections there are when it   *)
(* starts and ends (FreshInv, ThreadInv, ConnInv).                         *)
(***************************************************************************)
EXTENDS TcpClient, SequenceTheorems, TLAPS

(* buffer_ holds the last bytes accepted.                                  *)
BufferInv ==
    /\ \A k \in 1 .. Len(buffer_) : buffer_[k] = accepted - Len(buffer_) + k
    /\ app = "sending" => sent_byte < Len(buffer_)

(* Nothing has happened to a socket that connect_server has not returned.  *)
FreshInv ==
    /\ app = "connecting" => sock_fd_ \in Socks /\ wire[sock_fd_] = <<>>
    /\ app = "connecting" => sock_fd_ \notin established
    /\ app = "connecting" /\ disciplined => reported[sock_fd_] = 0
    /\ \A i \in Socks : i > sock_fd_ =>
          /\ sk[i] = "none" /\ wire[i] = <<>>
          /\ i \notin established /\ reported[i] = 0

(* The connection in use, as long as it has not failed, has everything but *)
(* what send_msg has still to send.                                        *)
StreamInv ==
    /\ sock_fd_ \in established
    /\ sk[sock_fd_] \in {"open", "eof"}
    /\ wire[sock_fd_] # <<>>
    => /\ app = "sending" =>
            wire[sock_fd_][Len(wire[sock_fd_])] = accepted - (Len(buffer_) - sent_byte)
       /\ app # "sending" =>
            buffer_ = <<>> /\ wire[sock_fd_][Len(wire[sock_fd_])] = accepted

(* A receive thread belongs to a client that is not closed.                *)
ThreadInv ==
    /\ is_closed_ => worker = "none"
    /\ app \in {"closing", "gone"} => worker = "none"
    /\ app \in {"joining", "closing"} => ~is_closed_
    /\ disciplined /\ app = "connecting" => is_closed_
    /\ disciplined /\ ~is_closed_ => sock_fd_ \in established
    /\ disciplined /\ worker \in {"loop", "select", "recv"} => reported[sock_fd_] = 0

(* Of the connections there were only the newest may not be closed.        *)
ConnInv ==
    /\ \A i \in established : sk[i] \in {"open", "eof", "reset", "closed"}
    /\ disciplined => \A i \in established : i # sock_fd_ => sk[i] = "closed"

IndInv ==
    /\ TypeOK
    /\ BufferInv /\ FreshInv /\ StreamInv
    /\ ThreadInv /\ ConnInv
    /\ NoGapNoRepeat
    /\ CloseBeforeConnectIsSafe
    /\ ClosedHasNoConnection
    /\ LossReportedOnce

-----------------------------------------------------------------------------
LEMMA InitIndInv == Init => IndInv
<1> SUFFICES ASSUME Init PROVE IndInv
  OBVIOUS
<1>1. TypeOK
  <2>1. /\ sk \in [Socks -> {"none", "connecting", "open", "closed"} \cup Lost]
        /\ reported \in [Socks -> Nat]
        /\ sock_fd_ \in 0 .. MaxConns /\ watched \in 0 .. MaxConns
        /\ accepted \in 0 .. MaxBytes /\ sent_byte \in 0 .. BUFFER_SIZE
    BY BoundsAssumption, BufferAssumption DEF Init
  <2>2. /\ wire \in [Socks -> Seq(1 .. MaxBytes)]
        /\ buffer_ \in Seq(1 .. MaxBytes) /\ Len(buffer_) <= BUFFER_SIZE
    BY BufferAssumption DEF Init
  <2>3. inbox \in [Socks -> BOOLEAN]
    BY Zenon DEF Init
  <2>4. /\ is_connected_ \in BOOLEAN /\ is_closed_ \in BOOLEAN /\ dying \in BOOLEAN
        /\ subscribed \in BOOLEAN /\ disciplined \in BOOLEAN
    BY Zenon DEF Init
  <2> QED BY <2>1, <2>2, <2>3, <2>4 DEF Init, TypeOK
<1>2. BufferInv /\ FreshInv /\ StreamInv /\ NoGapNoRepeat
  BY BoundsAssumption DEF Init, BufferInv, FreshInv, StreamInv, NoGapNoRepeat, Socks
<1>3. ThreadInv /\ ConnInv /\ ClosedHasNoConnection
  BY DEF Init, ThreadInv, ConnInv, ClosedHasNoConnection
<1>4. CloseBeforeConnectIsSafe /\ LossReportedOnce
  BY DEF Init, CloseBeforeConnectIsSafe, LossReportedOnce
<1> QED BY <1>1, <1>2, <1>3, <1>4 DEF IndInv

(* Steps that send nothing leave the streams as they are.                  *)
LEMMA StreamFrame ==
    ASSUME IndInv,
           UNCHANGED <<wire, sock_fd_, sendVars, established>>,
           app' = "sending" <=> app = "sending",
           \A i \in established : sk'[i] \in {"open", "eof"} => sk[i] \in {"open", "eof"}
    PROVE  BufferInv' /\ StreamInv' /\ NoGapNoRepeat'
BY DEF IndInv, BufferInv, StreamInv, NoGapNoRepeat, Contiguous, sendVars

LEMMA NetworkIndInv ==
    ASSUME IndInv, Network
    PROVE  IndInv'
<1> USE DEF IndInv, Network, stateVars, sendVars, callVars, workerVars, restVars
<1>1. /\ sk' \in [Socks -> {"none", "connecting", "open", "closed"} \cup Lost]
      /\ inbox' \in [Socks -> BOOLEAN]
      /\ \A i \in Socks : \/ sk'[i] = sk[i]
                          \/ sk[i] = "connecting" /\ sk'[i] \in {"open", "refused"}
                          \/ sk[i] \in {"open", "eof"} /\ sk'[i] \in {"eof", "reset"}
  <2>1. ASSUME NEW i \in Socks, HandshakeEnds(i)
        PROVE  <1>1!1 /\ <1>1!2 /\ <1>1!3
    BY <2>1 DEF HandshakeEnds, SetSk, TypeOK, Lost
  <2>2. ASSUME NEW i \in Socks, PeerSends(i)
        PROVE  <1>1!1 /\ <1>1!2 /\ <1>1!3
    BY <2>2 DEF PeerSends, TypeOK
  <2>3. ASSUME NEW i \in Socks, PeerLeaves(i)
        PROVE  <1>1!1 /\ <1>1!2 /\ <1>1!3
    BY <2>3 DEF PeerLeaves, SetSk, TypeOK, Lost
  <2> QED BY <2>1, <2>2, <2>3
<1>2. TypeOK'
  BY <1>1 DEF TypeOK
<1>3. \A i \in established : sk'[i] = sk[i] \/ (sk[i] \in {"open", "eof"} /\ sk'[i] \in {"eof", "reset"})
  BY <1>1 DEF ConnInv, TypeOK
<1>4. BufferInv' /\ StreamInv' /\ NoGapNoRepeat'
  BY <1>3, StreamFrame
<1>5. FreshInv'
  BY <1>1 DEF FreshInv, TypeOK
<1>6. ThreadInv' /\ CloseBeforeConnectIsSafe'
  BY DEF ThreadInv, CloseBeforeConnectIsSafe
<1>7. ConnInv' /\ ClosedHasNoConnection'
  BY <1>3 DEF ConnInv, ClosedHasNoConnection
<1>8. LossReportedOnce'
  BY <1>1 DEF LossReportedOnce
<1> QED BY <1>2, <1>4, <1>5, <1>6, <1>7, <1>8

-----------------------------------------------------------------------------
(* connect_server.                                                         *)
LEMMA InitializeSocketIndInv ==
    ASSUME IndInv, initialize_socket
    PROVE  IndInv'
<1> USE DEF IndInv, initialize_socket, SetSk, sendVars, workerVars
<1>1. sock_fd_ + 1 \in Socks /\ sock_fd_' = sock_fd_ + 1 /\ sock_fd_ \in Nat
  BY BoundsAssumption DEF TypeOK, Socks
<1>2. TypeOK'
  BY <1>1 DEF TypeOK, Socks
<1>3. sock_fd_' \notin established
  BY <1>1 DEF FreshInv
<1>4. BufferInv' /\ StreamInv' /\ NoGapNoRepeat'
  BY <1>3 DEF BufferInv, StreamInv, NoGapNoRepeat, Contiguous
<1>5. FreshInv'
  <2>1. \A i \in Socks : i > sock_fd_ + 1 => i > sock_fd_ /\ sk'[i] = sk[i]
    BY <1>1 DEF TypeOK, Socks
  <2>2. wire[sock_fd_ + 1] = <<>> /\ reported[sock_fd_ + 1] = 0
    BY <1>1 DEF FreshInv
  <2> QED BY <1>1, <1>3, <2>1, <2>2 DEF FreshInv
<1>6. ThreadInv' /\ CloseBeforeConnectIsSafe'
  BY DEF ThreadInv, CloseBeforeConnectIsSafe, TypeOK
<1>7. ConnInv' /\ ClosedHasNoConnection'
  BY <1>1, <1>3 DEF ConnInv, ClosedHasNoConnection, TypeOK
<1>8. LossReportedOnce'
  BY <1>1 DEF LossReportedOnce, FreshInv, TypeOK
<1> QED BY <1>2, <1>4, <1>5, <1>6, <1>7, <1>8

LEMMA ConnectIndInv ==
    ASSUME IndInv, connect_server
    PROVE  IndInv'
<1> USE DEF IndInv, connect_server, SetSk, Return, sendVars
<1>1. sock_fd_ \in Socks /\ wire[sock_fd_] = <<>> /\ sock_fd_ \notin established
  BY DEF FreshInv
<1>2. /\ worker' \in {"none", "loop", "select", "recv", "returned"}
      /\ terminated' \in {"no", "joinable", "select"}
      /\ worker' # "none"
      /\ worker = "none" => worker' = "loop" /\ terminated' = terminated
  BY DEF start_worker, TypeOK
<1>3. TypeOK'
  <2>1. is_connected_' \in BOOLEAN /\ is_closed_' \in BOOLEAN
    BY Zenon
  <2> QED BY <1>1, <1>2, <2>1 DEF TypeOK
<1>4. BufferInv' /\ StreamInv' /\ NoGapNoRepeat'
  BY <1>1 DEF BufferInv, StreamInv, NoGapNoRepeat, Contiguous
<1>5. FreshInv'
  <2>1. \A i \in Socks : i > sock_fd_ => i # sock_fd_ /\ sk'[i] = sk[i]
    BY <1>1 DEF TypeOK, Socks
  <2> QED BY <2>1 DEF FreshInv
<1>6. ThreadInv' /\ CloseBeforeConnectIsSafe'
  BY <1>2 DEF ThreadInv, FreshInv, CloseBeforeConnectIsSafe
<1>7. ConnInv' /\ ClosedHasNoConnection'
  BY <1>1 DEF ConnInv, ThreadInv, ClosedHasNoConnection, TypeOK
<1>8. LossReportedOnce'
  BY <1>1 DEF LossReportedOnce, FreshInv, TypeOK
<1> QED BY <1>3, <1>4, <1>5, <1>6, <1>7, <1>8

LEMMA ConnectFailsIndInv ==
    ASSUME IndInv, ConnectFails
    PROVE  IndInv'
<1> USE DEF IndInv, ConnectFails, SetSk, Return, stateVars, sendVars, workerVars, restVars
<1>1. sock_fd_ \in Socks /\ sock_fd_ \notin established
  BY DEF FreshInv
<1>2. TypeOK'
  BY <1>1 DEF TypeOK, Lost
<1>3. \A i \in established : sk'[i] = sk[i]
  BY <1>1 DEF TypeOK
<1>4. BufferInv' /\ StreamInv' /\ NoGapNoRepeat'
  BY <1>3, StreamFrame
<1>5. FreshInv'
  <2>1. \A i \in Socks : i > sock_fd_ => i # sock_fd_ /\ sk'[i] = sk[i]
    BY <1>1 DEF TypeOK, Socks
  <2> QED BY <2>1 DEF FreshInv
<1>6. ThreadInv' /\ CloseBeforeConnectIsSafe'
  BY DEF ThreadInv, CloseBeforeConnectIsSafe
<1>7. ConnInv' /\ ClosedHasNoConnection'
  BY <1>3 DEF ConnInv, ClosedHasNoConnection
<1>8. LossReportedOnce'
  BY <1>1 DEF LossReportedOnce, FreshInv, TypeOK
<1> QED BY <1>2, <1>4, <1>5, <1>6, <1>7, <1>8

LEMMA SubscribeIndInv ==
    ASSUME IndInv, subscribe
    PROVE  IndInv'
<1> USE DEF IndInv, subscribe, kernelVars, stateVars, sendVars, callVars, workerVars
<1>1. TypeOK'
  <2>1. subscribed' \in BOOLEAN
    BY Zenon
  <2> QED BY <2>1 DEF TypeOK
<1>2. BufferInv' /\ StreamInv' /\ NoGapNoRepeat'
  BY StreamFrame
<1>3. FreshInv' /\ ThreadInv' /\ CloseBeforeConnectIsSafe'
  BY DEF FreshInv, ThreadInv, CloseBeforeConnectIsSafe
<1>4. ConnInv' /\ ClosedHasNoConnection' /\ LossReportedOnce'
  BY DEF ConnInv, ClosedHasNoConnection, LossReportedOnce
<1> QED BY <1>1, <1>2, <1>3, <1>4

-----------------------------------------------------------------------------
(* send_msg.  What is still to be sent are the last bytes accepted ...     *)
LEMMA UnsentFacts ==
    ASSUME TypeOK, BufferInv, app = "sending"
    PROVE  /\ Unsent \in Seq(1 .. MaxBytes)
           /\ Len(Unsent) = Len(buffer_) - sent_byte
           /\ \A k \in 1 .. Len(Unsent) : Unsent[k] = accepted - Len(Unsent) + k
<1>1. /\ sent_byte + 1 \in Int /\ Len(buffer_) \in Int
      /\ \A i \in sent_byte + 1 .. Len(buffer_) : buffer_[i] \in 1 .. MaxBytes
      /\ sent_byte < Len(buffer_) /\ sent_byte \in Nat /\ accepted \in Nat
  BY BufferAssumption, BoundsAssumption, ElementOfSeq DEF TypeOK, BufferInv
<1>2. /\ Unsent \in Seq(1 .. MaxBytes)
      /\ Len(Unsent) = Len(buffer_) - sent_byte
      /\ \A k \in 1 .. Len(Unsent) : Unsent[k] = buffer_[sent_byte + k]
  BY <1>1, SubSeqProperties DEF Unsent
<1> QED BY <1>1, <1>2 DEF BufferInv

(* ... and so are the bytes that one send() takes.                         *)
LEMMA TakenFacts ==
    ASSUME TypeOK, BufferInv, app = "sending", NEW n \in 1 .. Len(Unsent)
    PROVE  /\ Taken(n) \in Seq(1 .. MaxBytes)
           /\ Len(Taken(n)) = n
           /\ \A k \in 1 .. n : Taken(n)[k] = accepted - Len(Unsent) + k
<1>1. /\ n \in Int
      /\ \A i \in 1 .. n : Unsent[i] \in 1 .. MaxBytes
  <2>1. Unsent \in Seq(1 .. MaxBytes) /\ Len(Unsent) \in Nat
    BY UnsentFacts, LenProperties
  <2>2. ASSUME NEW i \in 1 .. n PROVE Unsent[i] \in 1 .. MaxBytes
    <3>1. i \in 1 .. Len(Unsent)
      BY <2>1
    <3> QED BY <2>1, <3>1, ElementOfSeq
  <2> QED BY <2>1, <2>2
<1>2. /\ Taken(n) \in Seq(1 .. MaxBytes)
      /\ Len(Taken(n)) = n
      /\ \A k \in 1 .. n : Taken(n)[k] = Unsent[k]
  BY <1>1, SubSeqProperties DEF Taken
<1> QED BY <1>2, UnsentFacts

(* An interval continued where it ends is an interval.                     *)
LEMMA ContiguousConcat ==
    ASSUME NEW s \in Seq(1 .. MaxBytes), NEW t \in Seq(1 .. MaxBytes), NEW a \in Int,
           Contiguous(s), s # <<>> => s[Len(s)] = a,
           \A k \in 1 .. Len(t) : t[k] = a + k, t # <<>>
    PROVE  /\ Contiguous(s \o t)
           /\ s \o t \in Seq(1 .. MaxBytes) /\ s \o t # <<>>
           /\ (s \o t)[Len(s \o t)] = a + Len(t)
<1>1. /\ s \o t \in Seq(1 .. MaxBytes)
      /\ Len(s \o t) = Len(s) + Len(t)
      /\ \A i \in 1 .. Len(s) + Len(t) :
            (s \o t)[i] = IF i <= Len(s) THEN s[i] ELSE t[i - Len(s)]
  BY ConcatProperties
<1>2. Len(s) \in Nat /\ Len(t) \in Nat /\ Len(t) > 0 /\ (s = <<>> <=> Len(s) = 0)
  BY EmptySeq, LenProperties
<1>3. Contiguous(s \o t)
  <2> SUFFICES ASSUME NEW k \in 1 .. Len(s) + Len(t) - 1
               PROVE  (s \o t)[k + 1] = (s \o t)[k] + 1
    BY <1>1 DEF Contiguous
  <2>1. CASE k < Len(s)
    BY <1>1, <1>2, <2>1 DEF Contiguous
  <2>2. CASE k = Len(s)
    BY <1>1, <1>2, <2>2
  <2>3. CASE k > Len(s)
    <3>1. /\ k - Len(s) \in 1 .. Len(t) /\ k + 1 - Len(s) \in 1 .. Len(t)
          /\ (s \o t)[k] = t[k - Len(s)] /\ (s \o t)[k + 1] = t[k + 1 - Len(s)]
      <4>1. /\ k \in 1 .. Len(s) + Len(t) /\ k + 1 \in 1 .. Len(s) + Len(t)
            /\ ~(k <= Len(s)) /\ ~(k + 1 <= Len(s))
            /\ k - Len(s) \in 1 .. Len(t) /\ k + 1 - Len(s) \in 1 .. Len(t)
        BY <1>2, <2>3
      <4>2. (s \o t)[k] = t[k - Len(s)] /\ (s \o t)[k + 1] = t[k + 1 - Len(s)]
        BY <1>1, <4>1
      <4> QED BY <4>1, <4>2
    <3>2. /\ t[k - Len(s)] = a + (k - Len(s)) /\ t[k + 1 - Len(s)] = a + (k + 1 - Len(s))
      BY <3>1
    <3>3. a + (k + 1 - Len(s)) = (a + (k - Len(s))) + 1
      BY <1>2
    <3> QED BY <3>1, <3>2, <3>3
  <2> QED BY <1>2, <2>1, <2>2, <2>3
<1> QED BY <1>1, <1>2, <1>3

(* What the steps of send_msg have in common.                              *)
LEMMA SendFrame ==
    ASSUME IndInv, app \in {"idle", "sending"}, app' \in {"idle", "sending"},
           UNCHANGED <<sk, inbox, stateVars, dying, workerVars, restVars>>,
           \A i \in Socks : i # sock_fd_ => wire'[i] = wire[i]
    PROVE  /\ FreshInv' /\ ThreadInv' /\ ConnInv'
           /\ CloseBeforeConnectIsSafe' /\ ClosedHasNoConnection' /\ LossReportedOnce'
<1> USE DEF IndInv, stateVars, workerVars, restVars
<1>1. FreshInv'
  <2>1. \A i \in Socks : i > sock_fd_ => i # sock_fd_
    BY DEF TypeOK, Socks
  <2> QED BY <2>1 DEF FreshInv
<1>2. ThreadInv' /\ CloseBeforeConnectIsSafe'
  BY DEF ThreadInv, CloseBeforeConnectIsSafe
<1>3. ConnInv' /\ ClosedHasNoConnection' /\ LossReportedOnce'
  BY DEF ConnInv, ClosedHasNoConnection, LossReportedOnce
<1> QED BY <1>1, <1>2, <1>3

LEMMA SendMsgIndInv ==
    ASSUME IndInv, NEW size \in MsgSizes, send_msg(size)
    PROVE  IndInv'
<1> USE DEF IndInv
<1>0. /\ UNCHANGED <<sk, inbox, wire, stateVars, dying, workerVars, restVars>>
      /\ size \in Nat /\ app = "idle" /\ app' \in {"idle", "sending"}
      /\ accepted + size <= MaxBytes /\ accepted \in Nat /\ Len(buffer_) \in Nat
  BY BufferAssumption, BoundsAssumption DEF send_msg, kernelVars, Return, TypeOK
<1>1. /\ FreshInv' /\ ThreadInv' /\ ConnInv'
      /\ CloseBeforeConnectIsSafe' /\ ClosedHasNoConnection' /\ LossReportedOnce'
  BY <1>0, SendFrame
<1>2. CASE app' = "idle"
  <2>1. /\ buffer_' \in {buffer_, <<>>} /\ result' = "FAILURE"
        /\ UNCHANGED <<sent_byte, accepted>>
    BY <1>0, <1>2 DEF send_msg, Return
  <2>2. TypeOK'
    <3>1. buffer_' \in Seq(1 .. MaxBytes) /\ Len(buffer_') <= BUFFER_SIZE
      <4>1. CASE buffer_' = buffer_
        BY <4>1 DEF TypeOK
      <4>2. CASE buffer_' = <<>>
        BY <4>2, BufferAssumption
      <4> QED BY <2>1, <4>1, <4>2
    <3> QED BY <1>0, <1>2, <2>1, <3>1 DEF TypeOK, stateVars, workerVars, restVars
  <2>3. BufferInv'
    BY <1>2, <2>1 DEF BufferInv
  <2>4. StreamInv' /\ NoGapNoRepeat'
    BY <1>0, <1>2, <2>1 DEF StreamInv, NoGapNoRepeat, Contiguous, stateVars, restVars
  <2> QED BY <1>1, <2>2, <2>3, <2>4
<1>3. CASE app' = "sending"
  <2> DEFINE new == [k \in 1 .. size |-> accepted + k]
  <2>1. /\ size > 0 /\ BUFFER_SIZE - Len(buffer_) >= size
        /\ buffer_' = buffer_ \o new
        /\ accepted' = accepted + size /\ sent_byte' = 0 /\ UNCHANGED result
    BY <1>0, <1>3 DEF send_msg, Return, Fits
  <2>2. new \in Seq(1 .. MaxBytes) /\ Len(new) = size
    <3>1. \A k \in 1 .. size : accepted + k \in 1 .. MaxBytes
      BY <1>0, BoundsAssumption
    <3> QED BY <1>0, <3>1
  <2> HIDE DEF new
  <2>3. /\ buffer_' \in Seq(1 .. MaxBytes)
        /\ Len(buffer_') = Len(buffer_) + size
        /\ \A i \in 1 .. Len(buffer_) + size :
              buffer_'[i] = IF i <= Len(buffer_) THEN buffer_[i] ELSE new[i - Len(buffer_)]
    BY <2>1, <2>2, ConcatProperties DEF TypeOK
  <2>4. TypeOK'
    BY <1>0, <1>3, <2>1, <2>3, BufferAssumption, BoundsAssumption
       DEF TypeOK, stateVars, workerVars, restVars
  <2>5. BufferInv'
    <3> SUFFICES ASSUME NEW k \in 1 .. Len(buffer_')
                 PROVE  buffer_'[k] = accepted' - Len(buffer_') + k
      BY <1>0, <2>1, <2>3 DEF BufferInv
    <3>1. CASE k <= Len(buffer_)
      BY <1>0, <2>1, <2>3, <3>1 DEF BufferInv
    <3>2. CASE k > Len(buffer_)
      <4>1. k - Len(buffer_) \in 1 .. size /\ buffer_'[k] = new[k - Len(buffer_)]
        BY <1>0, <2>3, <3>2
      <4>2. new[k - Len(buffer_)] = accepted + (k - Len(buffer_))
        BY <4>1 DEF new
      <4> QED BY <1>0, <2>1, <2>3, <4>1, <4>2
    <3> QED BY <1>0, <2>3, <3>1, <3>2
  <2>6. StreamInv'
    <3> SUFFICES ASSUME sock_fd_ \in established, sk[sock_fd_] \in {"open", "eof"},
                        wire[sock_fd_] # <<>>
                 PROVE  wire[sock_fd_][Len(wire[sock_fd_])]
                          = accepted' - (Len(buffer_') - sent_byte')
      BY <1>0, <1>3 DEF StreamInv, stateVars, restVars
    <3>1. buffer_ = <<>> /\ wire[sock_fd_][Len(wire[sock_fd_])] = accepted
      BY <1>0 DEF StreamInv
    <3>2. Len(buffer_) = 0
      BY <3>1
    <3> QED BY <1>0, <2>1, <2>3, <3>1, <3>2
  <2>7. NoGapNoRepeat'
    BY <1>0 DEF NoGapNoRepeat, Contiguous, restVars
  <2> QED BY <1>1, <2>4, <2>5, <2>6, <2>7
<1> QED BY <1>0, <1>2, <1>3

LEMMA SendSomeIndInv ==
    ASSUME IndInv, SendSome
    PROVE  IndInv'
<1> USE DEF IndInv
<1>1. PICK n \in 1 .. Len(Unsent) :
        /\ wire' = [wire EXCEPT ![sock_fd_] = @ \o Taken(n)]
        /\ \/ /\ AllSent(n)
              /\ buffer_' = <<>> /\ sent_byte' = 0 /\ Return("SUCCESS")
           \/ /\ ~AllSent(n)
              /\ sent_byte' = sent_byte + n /\ UNCHANGED <<buffer_, callVars>>
  BY DEF SendSome
<1>2. /\ app = "sending" /\ Current \in {"open", "eof"}
      /\ UNCHANGED <<sk, inbox, stateVars, accepted, workerVars, restVars, dying>>
      /\ app' \in {"idle", "sending"}
  BY <1>1 DEF SendSome, Return, callVars
<1>3. sock_fd_ \in Socks /\ sk[sock_fd_] \in {"open", "eof"}
  BY <1>2 DEF Current, TypeOK, Socks
<1>4. /\ Taken(n) \in Seq(1 .. MaxBytes) /\ Len(Taken(n)) = n
      /\ \A k \in 1 .. n : Taken(n)[k] = (accepted - Len(Unsent)) + k
      /\ Len(Unsent) = Len(buffer_) - sent_byte
      /\ n \in Nat /\ n > 0 /\ n <= Len(Unsent)
      /\ accepted \in Nat /\ Len(buffer_) \in Nat /\ sent_byte \in Nat
  <2>1. TypeOK /\ BufferInv /\ app = "sending"
    BY <1>2
  <2>2. /\ Taken(n) \in Seq(1 .. MaxBytes) /\ Len(Taken(n)) = n
        /\ \A k \in 1 .. n : Taken(n)[k] = accepted - Len(Unsent) + k
    BY <2>1, TakenFacts, Zenon
  <2>3. /\ Len(Unsent) = Len(buffer_) - sent_byte
        /\ accepted \in Nat /\ Len(buffer_) \in Nat /\ sent_byte \in Nat
    BY <2>1, UnsentFacts, BoundsAssumption, BufferAssumption DEF TypeOK
  <2>4. n \in Nat /\ n > 0 /\ n <= Len(Unsent)
    BY <2>3
  <2> QED BY <2>2, <2>3, <2>4, Zenon
<1>5. wire[sock_fd_] \in Seq(1 .. MaxBytes) /\ wire[sock_fd_] \o Taken(n) \in Seq(1 .. MaxBytes)
  <2> DEFINE x == wire[sock_fd_]
             y == Taken(n)
  <2>1. x \in Seq(1 .. MaxBytes) /\ y \in Seq(1 .. MaxBytes)
    BY <1>3, <1>4 DEF TypeOK
  <2> HIDE DEF x, y
  <2>2. x \o y \in Seq(1 .. MaxBytes)
    BY <2>1, ConcatProperties
  <2> QED BY <2>1, <2>2 DEF x, y
<1>6. /\ wire'[sock_fd_] = wire[sock_fd_] \o Taken(n)
      /\ \A i \in Socks : i # sock_fd_ => wire'[i] = wire[i]
      /\ wire' \in [Socks -> Seq(1 .. MaxBytes)]
  BY <1>1, <1>3, <1>5 DEF TypeOK
<1>7. /\ FreshInv' /\ ThreadInv' /\ ConnInv'
      /\ CloseBeforeConnectIsSafe' /\ ClosedHasNoConnection' /\ LossReportedOnce'
  BY <1>2, <1>6, SendFrame
<1>8. \/ /\ AllSent(n) /\ app' = "idle" /\ result' = "SUCCESS"
         /\ buffer_' = <<>> /\ sent_byte' = 0
      \/ /\ ~AllSent(n) /\ app' = "sending" /\ UNCHANGED <<buffer_, result>>
         /\ sent_byte' = sent_byte + n /\ sent_byte' < Len(buffer_)
  BY <1>1, <1>2, <1>4 DEF AllSent, Return, callVars
<1>9. TypeOK' /\ BufferInv'
  <2>1. /\ buffer_' \in Seq(1 .. MaxBytes) /\ Len(buffer_') <= BUFFER_SIZE
        /\ sent_byte' \in 0 .. BUFFER_SIZE
    <3>1. CASE AllSent(n)
      BY <1>8, <3>1, BufferAssumption
    <3>2. CASE ~AllSent(n)
      <4>1. buffer_' = buffer_ /\ sent_byte' = sent_byte + n /\ sent_byte' < Len(buffer_)
        BY <1>8, <3>2
      <4>2. buffer_ \in Seq(1 .. MaxBytes) /\ Len(buffer_) <= BUFFER_SIZE
        BY DEF TypeOK
      <4>3. sent_byte' \in 0 .. BUFFER_SIZE
        BY <1>4, <4>1, <4>2, BufferAssumption
      <4> QED BY <4>1, <4>2, <4>3
    <3> QED BY <3>1, <3>2
  <2>2. TypeOK'
    <3>1. UNCHANGED <<sk, inbox, sock_fd_, is_connected_, is_closed_, dying, worker, watched, reported,
                      accepted, subscribed, established, disciplined, terminated>>
      BY <1>2 DEF stateVars, workerVars, restVars
    <3>2. /\ app' \in {"idle", "connecting", "sending", "joining", "closing", "gone"}
          /\ result' \in {"SUCCESS", "FAILURE"}
      BY <1>8 DEF TypeOK
    <3>3. wire' \in [Socks -> Seq(1 .. MaxBytes)]
      BY <1>6
    <3> QED BY <2>1, <3>1, <3>2, <3>3 DEF TypeOK
  <2>3. BufferInv'
    BY <1>2, <1>8 DEF BufferInv
  <2> QED BY <2>2, <2>3
<1>10. ASSUME sock_fd_ \in established
       PROVE  /\ Contiguous(wire'[sock_fd_])
              /\ wire'[sock_fd_] # <<>>
              /\ wire'[sock_fd_][Len(wire'[sock_fd_])] = (accepted - Len(Unsent)) + n
  <2>1. wire[sock_fd_] # <<>> =>
          wire[sock_fd_][Len(wire[sock_fd_])] = accepted - Len(Unsent)
    BY <1>2, <1>3, <1>4, <1>10 DEF StreamInv
  <2>2. Contiguous(wire[sock_fd_]) /\ Taken(n) # <<>>
    BY <1>4, <1>10 DEF NoGapNoRepeat
  <2>3. accepted - Len(Unsent) \in Int
    BY <1>4
  <2> DEFINE s == wire[sock_fd_]
             t == Taken(n)
             a == accepted - Len(Unsent)
  <2>4. /\ s \in Seq(1 .. MaxBytes) /\ t \in Seq(1 .. MaxBytes) /\ a \in Int
        /\ Contiguous(s) /\ (s # <<>> => s[Len(s)] = a)
        /\ (\A k \in 1 .. Len(t) : t[k] = a + k) /\ t # <<>>
    BY <1>4, <1>5, <2>1, <2>2, <2>3
  <2> HIDE DEF s, t, a
  <2>5. Contiguous(s \o t) /\ s \o t # <<>> /\ (s \o t)[Len(s \o t)] = a + Len(t)
    BY <2>4, ContiguousConcat
  <2> QED BY <1>4, <1>6, <2>5 DEF s, t, a
<1>11. NoGapNoRepeat'
  <2>1. established \subseteq Socks
    BY DEF TypeOK
  <2> QED BY <1>2, <1>6, <1>10, <2>1 DEF NoGapNoRepeat, restVars
<1>12. StreamInv'
  <2> SUFFICES ASSUME sock_fd_ \in established
               PROVE  StreamInv'
    BY <1>2 DEF StreamInv, stateVars, restVars
  <2>1. CASE AllSent(n)
    <3>1. (accepted - Len(Unsent)) + n = accepted
      BY <1>4, <2>1 DEF AllSent
    <3> QED BY <1>2, <1>8, <1>10, <2>1, <3>1 DEF StreamInv, stateVars, restVars
  <2>2. CASE ~AllSent(n)
    <3>1. (accepted - Len(Unsent)) + n = accepted - (Len(buffer_) - (sent_byte + n))
      BY <1>4
    <3> QED BY <1>2, <1>8, <1>10, <2>2, <3>1 DEF StreamInv, stateVars, restVars
  <2> QED BY <2>1, <2>2
<1> QED BY <1>7, <1>9, <1>11, <1>12

LEMMA SendStopsIndInv ==
    ASSUME IndInv, SendStops
    PROVE  IndInv'
<1> USE DEF IndInv
<1>1. /\ app = "sending" /\ app' = "idle" /\ sent_byte' = 0
      /\ result' \in {"SUCCESS", "FAILURE"}
      /\ UNCHANGED <<sk, inbox, wire, stateVars, accepted, dying, workerVars, restVars>>
      /\ \/ sock_fd_ \notin established /\ buffer_' = Unsent
         \/ Current \in {"reset", "refused", "closed"} /\ UNCHANGED buffer_
  BY DEF SendStops, Return, kernelVars
<1>2. /\ FreshInv' /\ ThreadInv' /\ ConnInv'
      /\ CloseBeforeConnectIsSafe' /\ ClosedHasNoConnection' /\ LossReportedOnce'
  BY <1>1, SendFrame
<1>3. /\ buffer_' \in Seq(1 .. MaxBytes) /\ Len(buffer_') <= BUFFER_SIZE
      /\ \A k \in 1 .. Len(buffer_') : buffer_'[k] = accepted - Len(buffer_') + k
  <2>1. Len(Unsent) <= BUFFER_SIZE
    BY <1>1, UnsentFacts, BufferAssumption DEF TypeOK
  <2>2. CASE buffer_' = Unsent
    BY <1>1, <2>1, <2>2, UnsentFacts
  <2>3. CASE buffer_' = buffer_
    BY <2>3 DEF TypeOK, BufferInv
  <2> QED BY <1>1, <2>2, <2>3
<1>4. TypeOK'
  BY <1>1, <1>3, BufferAssumption DEF TypeOK, stateVars, workerVars, restVars
<1>5. BufferInv'
  BY <1>1, <1>3 DEF BufferInv
<1>6. NoGapNoRepeat'
  BY <1>1 DEF NoGapNoRepeat, Contiguous, restVars
<1>7. StreamInv'
  <2>1. sock_fd_ \in established => sk[sock_fd_] \notin {"open", "eof"}
    BY <1>1 DEF Current, TypeOK, Socks
  <2> QED BY <1>1, <2>1 DEF StreamInv, stateVars, restVars
<1> QED BY <1>2, <1>4, <1>5, <1>6, <1>7

-----------------------------------------------------------------------------
(* The receive thread touches no stream, closes no socket, and ends after  *)
(* it has reported a loss.                                                 *)
LEMMA ReceiveIndInv ==
    ASSUME IndInv, recv_server
    PROVE  IndInv'
<1> USE DEF IndInv
<1>1. /\ UNCHANGED <<sk, wire, sock_fd_, sendVars, app, dying, result, restVars>>
      /\ UNCHANGED is_closed_
      /\ worker \in {"loop", "select", "recv"}
      /\ worker' \in {"loop", "select", "recv", "returned"}
      /\ watched' \in 0 .. MaxConns
      /\ is_connected_' \in BOOLEAN
      /\ inbox' \in [Socks -> BOOLEAN]
  <2>1. CASE WhileConnected
    BY <2>1 DEF WhileConnected, recv_server, callVars, TypeOK
  <2>2. CASE wait_for_read
    BY <2>2 DEF wait_for_read, recv_server, callVars, TypeOK
  <2>3. CASE RecvData
    <3>1. inbox' \in [Socks -> BOOLEAN]
      BY <2>3, Zenon DEF RecvData, TypeOK
    <3> QED BY <2>3, <3>1 DEF RecvData, recv_server, callVars, TypeOK
  <2>4. CASE RecvLost
    <3>1. is_connected_' \in BOOLEAN
      BY <2>4, Zenon DEF RecvLost, Disconnected
    <3> QED BY <2>4, <3>1 DEF RecvLost, Disconnected, recv_server, callVars, TypeOK
  <2> QED BY <2>1, <2>2, <2>3, <2>4 DEF recv_server
<1>2. \/ reported' = reported
      \/ /\ worker = "recv" /\ worker' = "returned"
         /\ sk[sock_fd_] \in Lost \cup {"closed"} \/ sock_fd_ \notin established
         /\ reported' = [reported EXCEPT ![sock_fd_] = @ + 1]
  BY DEF recv_server, WhileConnected, wait_for_read, RecvData, RecvLost,
         Disconnected, publish_server_disconnected
<1>3. reported' \in [Socks -> Nat] /\ \A i \in Socks : i # sock_fd_ => reported'[i] = reported[i]
  BY <1>2 DEF TypeOK
<1>4. ~is_closed_
  BY <1>1 DEF ThreadInv
<1>5. TypeOK'
  BY <1>1, <1>3 DEF TypeOK, sendVars, restVars
<1>6. BufferInv' /\ StreamInv' /\ NoGapNoRepeat'
  BY <1>1, StreamFrame DEF restVars
<1>7. FreshInv'
  <2>1. \A i \in Socks : i > sock_fd_ => i # sock_fd_
    BY DEF TypeOK, Socks
  <2>2. disciplined => app # "connecting"
    BY <1>4 DEF ThreadInv
  <2> QED BY <1>1, <1>3, <2>1, <2>2 DEF FreshInv, restVars
<1>8. ThreadInv' /\ CloseBeforeConnectIsSafe'
  BY <1>1, <1>2, <1>4 DEF ThreadInv, CloseBeforeConnectIsSafe, restVars
<1>9. ConnInv' /\ ClosedHasNoConnection'
  BY <1>1 DEF ConnInv, ClosedHasNoConnection, restVars
<1>10. LossReportedOnce'
  <2> SUFFICES ASSUME disciplined, reported' # reported,
                      reported' = [reported EXCEPT ![sock_fd_] = @ + 1],
                      worker = "recv",
                      sk[sock_fd_] \in Lost \cup {"closed"} \/ sock_fd_ \notin established
               PROVE  \A i \in Socks : /\ reported'[i] <= 1
                                       /\ reported'[i] = 1 => sk[i] \in {"eof", "reset", "closed"}
    BY <1>1, <1>2 DEF LossReportedOnce, restVars
  <2>1. sock_fd_ \in established /\ reported[sock_fd_] = 0
    BY <1>4 DEF ThreadInv
  <2>2. sk[sock_fd_] \in {"eof", "reset", "closed"}
    BY <2>1 DEF ConnInv, Lost
  <2> QED BY <2>1, <2>2 DEF LossReportedOnce, TypeOK
<1> QED BY <1>5, <1>6, <1>7, <1>8, <1>9, <1>10

LEMMA SelectFailsIndInv ==
    ASSUME IndInv, SelectFails
    PROVE  IndInv'
<1> USE DEF IndInv, SelectFails, kernelVars, stateVars, sendVars, callVars, workerVars
<1>1. TypeOK'
  BY DEF TypeOK
<1>2. BufferInv' /\ StreamInv' /\ NoGapNoRepeat'
  BY StreamFrame
<1>3. FreshInv' /\ ThreadInv' /\ CloseBeforeConnectIsSafe'
  BY DEF FreshInv, ThreadInv, CloseBeforeConnectIsSafe
<1>4. ConnInv' /\ ClosedHasNoConnection' /\ LossReportedOnce'
  BY DEF ConnInv, ClosedHasNoConnection, LossReportedOnce
<1> QED BY <1>1, <1>2, <1>3, <1>4

-----------------------------------------------------------------------------
(* close() and the destructor.                                             *)
LEMMA CloseIndInv ==
    ASSUME IndInv, NEW destructor \in BOOLEAN, close(destructor)
    PROVE  IndInv'
<1> USE DEF IndInv
<1>1. /\ app = "idle"
      /\ UNCHANGED <<sk, inbox, wire, sock_fd_, is_closed_, sendVars, workerVars, restVars>>
      /\ app' \in {"idle", "gone", "closing", "joining"}
      /\ app' \in {"idle", "gone"} => is_closed_
      /\ app' \in {"closing", "joining"} => ~is_closed_
      /\ app' = "closing" => worker = "none"
      /\ result' \in {"SUCCESS", "FAILURE"}
  BY DEF close, Leave, terminate_worker, kernelVars, TypeOK
<1>2. dying' \in BOOLEAN /\ is_connected_' \in BOOLEAN
  <2>1. dying' \in BOOLEAN
    BY DEF close
  <2>2. is_connected_' \in {is_connected_, FALSE}
    BY DEF close, terminate_worker
  <2>3. is_connected_ \in BOOLEAN
    BY DEF TypeOK
  <2> QED BY <2>1, <2>2, <2>3, Zenon
<1>3. TypeOK'
  BY <1>1, <1>2 DEF TypeOK, sendVars, workerVars, restVars
<1>4. BufferInv' /\ StreamInv' /\ NoGapNoRepeat'
  BY <1>1, StreamFrame DEF restVars
<1>5. FreshInv'
  BY <1>1 DEF FreshInv, workerVars, restVars
<1>6. ThreadInv' /\ CloseBeforeConnectIsSafe'
  BY <1>1 DEF ThreadInv, CloseBeforeConnectIsSafe, workerVars, restVars
<1>7. ConnInv' /\ ClosedHasNoConnection' /\ LossReportedOnce'
  BY <1>1 DEF ConnInv, ClosedHasNoConnection, LossReportedOnce, workerVars, restVars
<1> QED BY <1>3, <1>4, <1>5, <1>6, <1>7

LEMMA JoinIndInv ==
    ASSUME IndInv, JoinWorker
    PROVE  IndInv'
<1> USE DEF IndInv, JoinWorker, ResetWorker, kernelVars, stateVars, sendVars, restVars
<1>1. TypeOK'
  BY DEF TypeOK
<1>2. BufferInv' /\ StreamInv' /\ NoGapNoRepeat'
  BY StreamFrame
<1>3. FreshInv' /\ ThreadInv' /\ CloseBeforeConnectIsSafe'
  BY DEF FreshInv, ThreadInv, CloseBeforeConnectIsSafe
<1>4. ConnInv' /\ ClosedHasNoConnection' /\ LossReportedOnce'
  BY DEF ConnInv, ClosedHasNoConnection, LossReportedOnce
<1> QED BY <1>1, <1>2, <1>3, <1>4

LEMMA CloseSocketIndInv ==
    ASSUME IndInv, CloseSocket
    PROVE  IndInv'
<1> USE DEF IndInv
<1>1. /\ app = "closing" /\ app' \in {"idle", "gone"}
      /\ sk' = [sk EXCEPT ![sock_fd_] = "closed"]
      /\ UNCHANGED <<inbox, wire, sock_fd_, is_connected_, dying, sendVars, workerVars, restVars>>
      /\ result' \in {"SUCCESS", "FAILURE"}
  BY DEF CloseSocket, SetSk, Leave
<1>2. is_closed_' \in BOOLEAN
  <2>1. is_closed_' \in {is_closed_, TRUE} /\ is_closed_ \in BOOLEAN
    BY DEF CloseSocket, TypeOK
  <2> QED BY <2>1, Zenon
<1>3. TypeOK'
  BY <1>1, <1>2 DEF TypeOK, sendVars, workerVars, restVars
<1>4. worker = "none" /\ ~is_closed_
  BY <1>1 DEF ThreadInv
<1>5. /\ \A i \in Socks : sk'[i] = IF i = sock_fd_ THEN "closed" ELSE sk[i]
      /\ established \subseteq Socks
  BY <1>1 DEF TypeOK
<1>6. BufferInv' /\ StreamInv' /\ NoGapNoRepeat'
  <2>1. \A i \in established : sk'[i] \in {"open", "eof"} => sk[i] \in {"open", "eof"}
    BY <1>5
  <2> QED BY <1>1, <2>1, StreamFrame DEF restVars
<1>7. FreshInv'
  <2>1. \A i \in Socks : i > sock_fd_ => i # sock_fd_
    BY DEF TypeOK, Socks
  <2> QED BY <1>1, <1>5, <2>1 DEF FreshInv, workerVars, restVars
<1>8. ThreadInv' /\ CloseBeforeConnectIsSafe'
  BY <1>1, <1>4 DEF ThreadInv, CloseBeforeConnectIsSafe, workerVars, restVars
<1>9. ConnInv' /\ ClosedHasNoConnection'
  BY <1>1, <1>5 DEF ConnInv, ClosedHasNoConnection, restVars
<1>10. LossReportedOnce'
  BY <1>1, <1>5 DEF LossReportedOnce, workerVars, restVars
<1> QED BY <1>3, <1>6, <1>7, <1>8, <1>9, <1>10

-----------------------------------------------------------------------------
LEMMA NextIndInv == IndInv /\ [Next]_vars => IndInv'
<1> SUFFICES ASSUME IndInv, [Next]_vars PROVE IndInv'
  OBVIOUS
<1>1. CASE UNCHANGED vars
  <2> USE <1>1 DEF IndInv, vars, kernelVars, stateVars, sendVars, callVars, workerVars, restVars
  <2>1. TypeOK'
    BY DEF TypeOK
  <2>2. BufferInv' /\ StreamInv' /\ NoGapNoRepeat'
    BY StreamFrame
  <2>3. FreshInv' /\ ThreadInv' /\ CloseBeforeConnectIsSafe'
    BY DEF FreshInv, ThreadInv, CloseBeforeConnectIsSafe
  <2>4. ConnInv' /\ ClosedHasNoConnection' /\ LossReportedOnce'
    BY DEF ConnInv, ClosedHasNoConnection, LossReportedOnce
  <2> QED BY <2>1, <2>2, <2>3, <2>4
<1>2. CASE Network
  BY <1>2, NetworkIndInv
<1>3. CASE Application
  BY <1>3, InitializeSocketIndInv, ConnectIndInv, ConnectFailsIndInv, SubscribeIndInv,
     SendMsgIndInv, SendSomeIndInv, SendStopsIndInv, CloseIndInv, JoinIndInv,
     CloseSocketIndInv DEF Application
<1>4. CASE recv_server \/ SelectFails
  BY <1>4, ReceiveIndInv, SelectFailsIndInv
<1> QED BY <1>1, <1>2, <1>3, <1>4 DEF Next, Over

LEMMA Invariance == Spec => []IndInv
BY InitIndInv, NextIndInv, PTL DEF Spec

(* However the kernel cuts the sends, and whatever buffer_ kept from an    *)
(* earlier connection, a connection carries an interval of the             *)
(* application's bytes, and one that works carries all of them to the      *)
(* last: for every buffer size and all message sizes.                      *)
THEOREM StreamSafety == Spec => []StreamIntact
<1>1. IndInv => StreamIntact
  BY DEF IndInv, StreamIntact, NothingHeldBack, StreamInv
<1> QED BY <1>1, Invariance, PTL

(* A client that is closed before each connect_server assigns no thread    *)
(* over a joinable one and keeps no connection open; a destroyed client    *)
(* has no receive thread, disciplined or not.                              *)
THEOREM ThreadSafety == Spec => []ThreadFollowsConnection
<1>1. IndInv => ThreadFollowsConnection
  BY DEF IndInv, ThreadFollowsConnection, DestroyedMeansQuiet, ThreadInv
<1> QED BY <1>1, Invariance, PTL

(* The loss of a connection is published at most once, and only when it    *)
(* was lost, over any number of connections.                               *)
THEOREM LossSafety == Spec => []LossReportedOnce
<1>1. IndInv => LossReportedOnce
  BY DEF IndInv
<1> QED BY <1>1, Invariance, PTL

=============================================================================
