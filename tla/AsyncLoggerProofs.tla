-------------------------- MODULE AsyncLoggerProofs --------------------------
(***************************************************************************)
(* Proofs about AsyncLogger for every buffer size, every set of message    *)
(* lengths and any number of messages.  That the asserts of                *)
(* append_log_file hold is a matter of counting buffers: a buffer that the *)
(* worker has given to the producers is replaced by one that came back     *)
(* full (PtrInv).  That no message is lost, duplicated or reordered rests  *)
(* on the spare buffers being empty (SpareInv) and on what size and        *)
(* Flatten compute when a buffer or a message is added: the functions they *)
(* are defined by exist and are unique, by induction on their domain.      *)
(* How LogStream writes a number (LogFormat) is exact for every width of   *)
(* the integers.                                                           *)
(***************************************************************************)
EXTENDS AsyncLogger, SequenceTheorems, WellFoundedInduction, TLAPS

(* Who has which buffer.  The producers have lost their spare buffer only  *)
(* if a full one waits in dirty_buffer_; outside of its write phase the    *)
(* worker has both of its own; while it writes it has one buffer to        *)
(* recycle for each one it gave away.                                      *)
PtrInv ==
    /\ owner = "none" => worker = "none"
    /\ cur_buffer_ # Null
    /\ next_buffer_ = Null => dirty_buffer_ # <<>>
    /\ worker \notin {"write", "exited"} =>
         to_file_buffer # Null /\ to_file_buffer_next # Null
    /\ worker = "write" =>
         /\ to_file_buffer = Null
         /\ Len(to_file_buffers) >= 1
         /\ to_file_buffer_next = Null => Len(to_file_buffers) >= 2

IndInv == TypeOK /\ PtrInv /\ AssertsHold

-----------------------------------------------------------------------------
(* A message never exceeds the buffer of its LogStream.                    *)
LEMMA StreamLenFits ==
    ASSUME NEW body \in Bodies
    PROVE  StreamLen(body) \in 0 .. SIZE
<1>1. body.len \in Nat
  BY BodyLensAssumption, NumberLensAssumption DEF Bodies
<1>2. \A n \in 0 .. SIZE, len \in Nat : Insert(n, len) \in 0 .. SIZE
  BY SIZEAssumption DEF Insert
<1>3. Insert(0, 1) \in 0 .. SIZE
  BY <1>2, SIZEAssumption
<1>4. InsertBody(Insert(0, 1), body) \in 0 .. SIZE
  BY <1>1, <1>2, <1>3 DEF InsertBody
<1> QED BY <1>2, <1>4 DEF StreamLen

(* Appending to a buffer leaves a buffer.                                  *)
LEMMA BufAppendType ==
    ASSUME NEW b \in Seq(Message), NEW m \in Message
    PROVE  BufAppend(b, m) \in Seq(Message)
BY DEF BufAppend

-----------------------------------------------------------------------------
LEMMA InitIndInv == Init => IndInv
<1> SUFFICES ASSUME Init PROVE IndInv
  OBVIOUS
<1>1. <<>> \in Seq(Message) /\ <<>> \in Seq(Seq(Message)) /\ <<>> # Null
  <2>1. <<>> \in Seq(Message) /\ <<>> \in Seq(Seq(Message))
    OBVIOUS
  <2> QED BY <2>1, NullAssumption
<1>2. TypeOK
  BY <1>1, FileOpensAssumption DEF Init, TypeOK, BufferPtr
<1>3. PtrInv
  BY <1>1 DEF Init, PtrInv
<1>4. AssertsHold
  BY DEF Init, AssertsHold
<1> QED BY <1>2, <1>3, <1>4 DEF IndInv

(* append: the producers keep a buffer, and one that is handed over is     *)
(* full of messages of the right type.                                     *)
LEMMA AppendStep ==
    ASSUME IndInv, ~aborted, NEW body \in Bodies, append(body)
    PROVE  IndInv'
<1> DEFINE m == [id |-> Len(logged) + 1, len |-> StreamLen(body)]
<1> USE DEF IndInv
<1>1. m \in Message
  BY StreamLenFits, MaxLoggedAssumption DEF append, TypeOK, Message
<1>2. cur_buffer_ \in Seq(Message)
  BY DEF TypeOK, PtrInv, BufferPtr
<1>3. logged' = Append(logged, m)
  BY DEF append
<1>4. UNCHANGED <<running_state, fp_ptr, to_file_buffers, to_file_buffer,
                  to_file_buffer_next, written, worker, owner, file, aborted>>
  BY DEF append, localVars
<1>5. CASE avail(cur_buffer_) > m.len
  <2>1. /\ cur_buffer_' = BufAppend(cur_buffer_, m)
        /\ UNCHANGED <<next_buffer_, dirty_buffer_>>
    BY <1>5 DEF append
  <2>2. cur_buffer_' \in Seq(Message) /\ cur_buffer_' # Null
    BY <1>1, <1>2, <2>1, BufAppendType, NullAssumption
  <2> HIDE DEF m
  <2>3. TypeOK'
    BY <1>1, <1>3, <1>4, <2>1, <2>2 DEF TypeOK, BufferPtr
  <2>4. PtrInv'
    BY <1>4, <2>1, <2>2 DEF PtrInv
  <2>5. AssertsHold'
    BY <1>4 DEF AssertsHold
  <2> QED BY <2>3, <2>4, <2>5
<1>6. CASE ~(avail(cur_buffer_) > m.len)
  <2> DEFINE fresh == IF next_buffer_ # Null THEN next_buffer_ ELSE <<>>
  <2>1. /\ dirty_buffer_' = Append(dirty_buffer_, cur_buffer_)
        /\ cur_buffer_' = BufAppend(fresh, m)
        /\ next_buffer_' = Null
    BY <1>6 DEF append
  <2>2. fresh \in Seq(Message)
    BY DEF TypeOK, BufferPtr
  <2> HIDE DEF fresh, m
  <2>3. cur_buffer_' \in Seq(Message) /\ cur_buffer_' # Null
    BY <1>1, <2>1, <2>2, BufAppendType, NullAssumption
  <2>4. dirty_buffer_ \in Seq(Seq(Message))
    BY DEF TypeOK
  <2>5. dirty_buffer_' \in Seq(Seq(Message)) /\ dirty_buffer_' # <<>>
    BY <1>2, <2>1, <2>4
  <2>6. TypeOK'
    BY <1>1, <1>3, <1>4, <2>1, <2>3, <2>5 DEF TypeOK, BufferPtr
  <2>7. PtrInv'
    BY <1>4, <2>1, <2>3, <2>5 DEF PtrInv
  <2>8. AssertsHold'
    BY <1>4 DEF AssertsHold
  <2> QED BY <2>6, <2>7, <2>8
<1> QED BY <1>5, <1>6

(* The worker takes the producers' buffers: a full one more than it gives. *)
LEMMA SwapStep ==
    ASSUME IndInv, ~aborted, Swap
    PROVE  IndInv'
<1> USE DEF IndInv
<1>1. cur_buffer_ \in Seq(Message) /\ dirty_buffer_ \in Seq(Seq(Message))
  BY DEF TypeOK, PtrInv, BufferPtr
<1>2. to_file_buffer # Null /\ to_file_buffer_next # Null
  BY DEF Swap, PtrInv
<1>3. to_file_buffer \in Seq(Message) /\ to_file_buffer_next \in Seq(Message)
  BY <1>2 DEF TypeOK, BufferPtr
<1>4. /\ to_file_buffers' = Append(dirty_buffer_, cur_buffer_)
      /\ dirty_buffer_' = <<>>
      /\ cur_buffer_' = to_file_buffer
      /\ to_file_buffer' = Null
      /\ written' = 0
      /\ worker' = "write"
      /\ aborted' = (~fp_ptr \/ cur_buffer_ = Null)
      /\ UNCHANGED <<running_state, fp_ptr, owner, file, logged>>
  BY DEF Swap, MoveBuffers
<1>5. /\ to_file_buffers' \in Seq(Seq(Message))
      /\ Len(to_file_buffers') = Len(dirty_buffer_) + 1
  BY <1>1, <1>4
<1>6. /\ next_buffer_' # Null
      /\ next_buffer_' \in BufferPtr /\ to_file_buffer_next' \in BufferPtr
      /\ to_file_buffer_next' = Null => Len(to_file_buffers') >= 2
  <2>1. CASE next_buffer_ = Null
    <3>1. next_buffer_' = to_file_buffer_next /\ to_file_buffer_next' = Null
      BY <2>1 DEF Swap, RefillNext
    <3>2. dirty_buffer_ # <<>>
      BY <2>1 DEF PtrInv
    <3>3. Len(dirty_buffer_) >= 1
      BY <1>1, <3>2
    <3> QED BY <1>1, <1>2, <1>3, <1>5, <3>1, <3>3 DEF BufferPtr
  <2>2. CASE next_buffer_ # Null
    BY <1>2, <2>2 DEF Swap, RefillNext, TypeOK
  <2> QED BY <2>1, <2>2
<1>7. TypeOK'
  BY <1>3, <1>4, <1>5, <1>6 DEF TypeOK, BufferPtr
<1>0. owner # "none"
  BY DEF Swap, PtrInv
<1>8. PtrInv'
  BY <1>0, <1>1, <1>2, <1>4, <1>5, <1>6 DEF PtrInv
<1>9. AssertsHold'
  BY <1>1, <1>4, NullAssumption DEF AssertsHold
<1> QED BY <1>7, <1>8, <1>9

LEMMA WriteBufferStep ==
    ASSUME IndInv, ~aborted, WriteBuffer
    PROVE  IndInv'
<1> USE DEF IndInv
<1>1. UNCHANGED <<cur_buffer_, next_buffer_, dirty_buffer_, running_state, fp_ptr,
                  to_file_buffers, to_file_buffer, to_file_buffer_next, worker,
                  owner, logged, aborted>>
  BY DEF WriteBuffer, sharedVars
<1>2. written' \in Nat
  BY DEF WriteBuffer, TypeOK
<1>3. file' \in Seq(Message)
  <2>1. to_file_buffers[written + 1] \in Seq(Message) /\ file \in Seq(Message)
    BY DEF WriteBuffer, TypeOK
  <2> QED BY <2>1 DEF WriteBuffer
<1>4. TypeOK'
  BY <1>1, <1>2, <1>3 DEF TypeOK
<1>5. PtrInv' /\ AssertsHold'
  BY <1>1 DEF PtrInv, AssertsHold
<1> QED BY <1>4, <1>5

(* There is a written buffer for each one that has to be replaced.         *)
LEMMA RecycleStep ==
    ASSUME IndInv, ~aborted, Recycle
    PROVE  IndInv'
<1> USE DEF IndInv
<1>1. /\ UNCHANGED <<cur_buffer_, next_buffer_, dirty_buffer_, running_state,
                     fp_ptr, owner, file, logged>>
      /\ to_file_buffers' = <<>> /\ written' = 0 /\ worker' = "loop"
      /\ to_file_buffer' = Recycled(to_file_buffer)
      /\ to_file_buffer_next' = Recycled(to_file_buffer_next)
      /\ aborted' = (Len(to_file_buffers) < NeededBuffers)
  BY DEF Recycle, sharedVars
<1>2. Len(to_file_buffers) \in Nat
  BY DEF TypeOK
<1>3. ~aborted'
  <2>1. ~(Len(to_file_buffers) < NeededBuffers)
    BY <1>2 DEF Recycle, PtrInv, NeededBuffers
  <2> QED BY <1>1, <2>1, Zenon
<1>4. /\ to_file_buffer' \in Seq(Message) /\ to_file_buffer' # Null
      /\ to_file_buffer_next' \in Seq(Message) /\ to_file_buffer_next' # Null
  <2>1. ASSUME NEW b \in BufferPtr
        PROVE  Recycled(b) \in Seq(Message)
    BY DEF Recycled, BufferPtr
  <2>2. Recycled(to_file_buffer) \in Seq(Message)
    BY <2>1 DEF TypeOK
  <2>3. Recycled(to_file_buffer_next) \in Seq(Message)
    BY <2>1 DEF TypeOK
  <2> QED BY <1>1, <2>2, <2>3, NullAssumption
<1>5. TypeOK'
  BY <1>1, <1>3, <1>4 DEF TypeOK, BufferPtr
<1>0. owner # "none"
  BY DEF Recycle, PtrInv
<1>6. PtrInv'
  BY <1>0, <1>1, <1>4 DEF PtrInv
<1>7. AssertsHold'
  BY <1>3 DEF AssertsHold
<1> QED BY <1>5, <1>6, <1>7

(* The steps that move no buffer.                                          *)
LEMMA ControlStep ==
    ASSUME IndInv, ~aborted,
           ThreadOnce \/ CheckRunning \/ Wait \/ Exit \/ Terminate \/ Join
    PROVE  IndInv'
<1> USE DEF IndInv, sharedVars, localVars
<1>1. UNCHANGED <<sharedVars, fp_ptr, localVars, file, logged, aborted>>
  BY DEF ThreadOnce, CheckRunning, Wait, Exit, Terminate, Join
<1>2. TypeOK'
  BY <1>1 DEF TypeOK, ThreadOnce, CheckRunning, Wait, Exit, Terminate, Join
<1>3. /\ worker' = "write" => worker = "write"
      /\ worker' \notin {"write", "exited"} => worker \notin {"write", "exited"}
      /\ owner' = "none" => worker' = "none"
  BY DEF PtrInv, ThreadOnce, CheckRunning, Wait, Exit, Terminate, Join
<1>4. PtrInv'
  BY <1>1, <1>3 DEF PtrInv
<1>5. AssertsHold'
  BY <1>1 DEF AssertsHold
<1> QED BY <1>2, <1>4, <1>5

LEMMA NextIndInv == IndInv /\ [Next]_vars => IndInv'
<1> SUFFICES ASSUME IndInv, [Next]_vars PROVE IndInv'
  OBVIOUS
<1>1. CASE UNCHANGED vars
  BY <1>1 DEF IndInv, TypeOK, PtrInv, AssertsHold, vars, sharedVars, localVars
<1>2. CASE ~aborted /\ \E body \in Bodies : append(body)
  BY <1>2, AppendStep
<1>3. CASE ~aborted /\ WorkerStep
  BY <1>3, SwapStep, WriteBufferStep, RecycleStep, ControlStep DEF WorkerStep
<1>4. CASE ~aborted /\ (ThreadOnce \/ Terminate \/ Join)
  BY <1>4, ControlStep
<1> QED BY <1>1, <1>2, <1>3, <1>4 DEF Next, Done

LEMMA Invariance == Spec => []IndInv
<1> QED BY InitIndInv, NextIndInv, PTL DEF Spec

(* Buffers, messages and the worker's position always have the types that  *)
(* AsyncLogger.h gives them; in particular no message is longer than a     *)
(* buffer.                                                                 *)
THEOREM TypeCorrect == Spec => []TypeOK
<1>1. IndInv => TypeOK
  BY DEF IndInv
<1> QED BY <1>1, Invariance, PTL

(* No assert of append_log_file fails if the log file could be opened,     *)
(* however many messages are appended while it writes.                     *)
THEOREM AssertSafety == Spec => []AssertsHold
<1>1. IndInv => AssertsHold
  BY DEF IndInv
<1> QED BY <1>1, Invariance, PTL

-----------------------------------------------------------------------------
(* Induction over the natural numbers, for a set instead of a predicate.   *)
LEMMA SetInduction ==
    ASSUME NEW T \in SUBSET Nat, 0 \in T, \A n \in T : n + 1 \in T
    PROVE  T = Nat
<1> DEFINE Less == {ss \in Nat \X Nat : ss[1] < ss[2]}
<1> SUFFICES ASSUME Nat \ T # {} PROVE FALSE
  OBVIOUS
<1>1. IsWellFoundedOn(Less, Nat)
  BY NatLessThanWellFounded DEF OpToRel
<1>2. PICK x \in Nat \ T : \A y \in Nat \ T : ~(<<y, x>> \in Less)
  <2>1. Nat \ T \subseteq Nat
    OBVIOUS
  <2> QED BY <1>1, <2>1, WFMin
<1>3. \A y \in Nat \ T : ~(y < x)
  BY <1>2
<1>4. x - 1 \in Nat /\ x - 1 < x /\ (x - 1) + 1 = x
  OBVIOUS
<1>5. x - 1 \in T
  BY <1>3, <1>4
<1> QED BY <1>4, <1>5

(* size: the function it is defined by exists, and is the only one.        *)
IsSum(f, b, n) == f = [i \in 0 .. n |-> IF i = 0 THEN 0 ELSE f[i - 1] + b[i].len]

LEMMA SumExists ==
    ASSUME NEW b \in Seq(Message)
    PROVE  \A n \in Nat : n <= Len(b) => \E f : IsSum(f, b, n)
<1> DEFINE T == {n \in Nat : n <= Len(b) => \E f : IsSum(f, b, n)}
<1>1. 0 \in T
  <2> DEFINE f == [i \in 0 .. 0 |-> 0]
  <2>1. IsSum(f, b, 0)
    BY DEF IsSum
  <2> QED BY <2>1
<1>2. ASSUME NEW n \in T PROVE n + 1 \in T
  <2> SUFFICES ASSUME n + 1 <= Len(b) PROVE \E f : IsSum(f, b, n + 1)
    OBVIOUS
  <2>1. n \in Nat /\ n <= Len(b)
    OBVIOUS
  <2>2. PICK f : IsSum(f, b, n)
    BY <2>1
  <2> DEFINE g == [i \in 0 .. n + 1 |-> IF i = n + 1 THEN f[n] + b[n + 1].len ELSE f[i]]
  <2>3. \A i \in 0 .. n : f[i] = IF i = 0 THEN 0 ELSE f[i - 1] + b[i].len
    BY <2>2 DEF IsSum
  <2>4. \A i \in 0 .. n + 1 : g[i] = IF i = 0 THEN 0 ELSE g[i - 1] + b[i].len
    BY <2>1, <2>3
  <2>5. IsSum(g, b, n + 1)
    BY <2>1, <2>4 DEF IsSum
  <2> QED BY <2>5
<1>3. T = Nat
  <2> HIDE DEF T
  <2>1. T \in SUBSET Nat
    BY DEF T
  <2> QED BY <1>1, <1>2, <2>1, SetInduction
<1> QED BY <1>3

LEMMA SizeIsSum ==
    ASSUME NEW b \in Seq(Message)
    PROVE  \E f : IsSum(f, b, Len(b)) /\ size(b) = f[Len(b)]
<1> DEFINE u == CHOOSE f : f = [i \in 0 .. Len(b) |-> IF i = 0 THEN 0 ELSE f[i - 1] + b[i].len]
<1>1. \E f : f = [i \in 0 .. Len(b) |-> IF i = 0 THEN 0 ELSE f[i - 1] + b[i].len]
  BY SumExists DEF IsSum
<1>2. u = [i \in 0 .. Len(b) |-> IF i = 0 THEN 0 ELSE u[i - 1] + b[i].len]
  BY <1>1
<1>3. size(b) = u[Len(b)]
  BY DEF size
<1> QED BY <1>2, <1>3 DEF IsSum

LEMMA SumsAgree ==
    ASSUME NEW b \in Seq(Message), NEW c \in Seq(Message), NEW n \in Nat, NEW m \in Nat,
           n <= Len(b), n <= m, m <= Len(c), \A i \in 1 .. n : b[i] = c[i],
           NEW f, NEW g, IsSum(f, b, n), IsSum(g, c, m)
    PROVE  f[n] = g[n] /\ f[n] \in Nat
<1> DEFINE T == {k \in Nat : k <= n => f[k] = g[k] /\ f[k] \in Nat}
<1>1. \A i \in 0 .. n : f[i] = IF i = 0 THEN 0 ELSE f[i - 1] + b[i].len
  BY DEF IsSum
<1>2. \A i \in 0 .. m : g[i] = IF i = 0 THEN 0 ELSE g[i - 1] + c[i].len
  BY DEF IsSum
<1>3. \A i \in 1 .. n : b[i].len \in Nat
  <2>1. \A x \in Message : x.len \in Nat
    BY SIZEAssumption DEF Message
  <2>2. \A i \in 1 .. n : b[i] \in Message
    OBVIOUS
  <2> QED BY <2>1, <2>2
<1>4. 0 \in T
  BY <1>1, <1>2
<1>5. ASSUME NEW k \in T PROVE k + 1 \in T
  <2> SUFFICES ASSUME k + 1 <= n PROVE f[k + 1] = g[k + 1] /\ f[k + 1] \in Nat
    OBVIOUS
  <2>1. k \in Nat /\ k <= n /\ k + 1 \in 1 .. n /\ k + 1 \in 0 .. n /\ k + 1 \in 0 .. m /\ (k + 1) - 1 = k
    OBVIOUS
  <2>2. f[k] = g[k] /\ f[k] \in Nat
    BY <2>1
  <2>3. f[k + 1] = f[k] + b[k + 1].len /\ g[k + 1] = g[k] + c[k + 1].len
    BY <1>1, <1>2, <2>1
  <2> QED BY <1>3, <2>1, <2>2, <2>3
<1>6. T = Nat
  <2> HIDE DEF T
  <2>1. T \in SUBSET Nat
    BY DEF T
  <2> QED BY <1>4, <1>5, <2>1, SetInduction
<1> QED BY <1>6

LEMMA SizeAppend ==
    ASSUME NEW b \in Seq(Message), NEW m \in Message
    PROVE  size(b) \in Nat /\ size(Append(b, m)) = size(b) + m.len
<1> DEFINE c == Append(b, m)
<1>1. /\ c \in Seq(Message) /\ Len(b) \in Nat /\ Len(c) = Len(b) + 1 /\ c[Len(b) + 1] = m
      /\ \A i \in 1 .. Len(b) : b[i] = c[i]
  OBVIOUS
<1> HIDE DEF c
<1>2. PICK f : IsSum(f, b, Len(b)) /\ size(b) = f[Len(b)]
  BY SizeIsSum
<1>3. PICK g : IsSum(g, c, Len(c)) /\ size(c) = g[Len(c)]
  BY <1>1, SizeIsSum
<1>4. f[Len(b)] = g[Len(b)] /\ f[Len(b)] \in Nat
  <2>1. Len(c) \in Nat /\ Len(b) <= Len(c) /\ Len(b) <= Len(b) /\ Len(c) <= Len(c)
    BY <1>1
  <2> QED BY <1>1, <1>2, <1>3, <2>1, SumsAgree
<1>5. g[Len(b) + 1] = g[Len(b)] + m.len
  <2>1. Len(b) + 1 \in 0 .. Len(c) /\ Len(b) + 1 # 0 /\ (Len(b) + 1) - 1 = Len(b)
    BY <1>1
  <2> QED BY <1>1, <1>3, <2>1 DEF IsSum
<1> QED BY <1>1, <1>2, <1>3, <1>4, <1>5 DEF c

LEMMA SizeEmpty == size(<<>>) = 0
<1>1. <<>> \in Seq(Message) /\ Len(<<>>) = 0
  OBVIOUS
<1>2. PICK f : IsSum(f, <<>>, 0) /\ size(<<>>) = f[0]
  BY <1>1, SizeIsSum
<1> QED BY <1>2 DEF IsSum

-----------------------------------------------------------------------------
LEMMA Regroup ==
    ASSUME NEW x \in Seq(Message), NEW y \in Seq(Message), NEW z \in Seq(Message)
    PROVE  (x \o y) \o z = x \o (y \o z)
BY ConcatAssociative

(* Flatten, in the same way.                                               *)
IsJoin(f, bs, n) == f = [i \in 0 .. n |-> IF i = 0 THEN <<>> ELSE f[i - 1] \o bs[i]]

LEMMA JoinExists ==
    ASSUME NEW bs \in Seq(Seq(Message))
    PROVE  \A n \in Nat : n <= Len(bs) => \E f : IsJoin(f, bs, n)
<1> DEFINE T == {n \in Nat : n <= Len(bs) => \E f : IsJoin(f, bs, n)}
<1>1. 0 \in T
  <2> DEFINE f == [i \in 0 .. 0 |-> <<>>]
  <2>1. IsJoin(f, bs, 0)
    BY DEF IsJoin
  <2> QED BY <2>1
<1>2. ASSUME NEW n \in T PROVE n + 1 \in T
  <2> SUFFICES ASSUME n + 1 <= Len(bs) PROVE \E f : IsJoin(f, bs, n + 1)
    OBVIOUS
  <2>1. n \in Nat /\ n <= Len(bs)
    OBVIOUS
  <2>2. PICK f : IsJoin(f, bs, n)
    BY <2>1
  <2> DEFINE g == [i \in 0 .. n + 1 |-> IF i = n + 1 THEN f[n] \o bs[n + 1] ELSE f[i]]
  <2>3. \A i \in 0 .. n : f[i] = IF i = 0 THEN <<>> ELSE f[i - 1] \o bs[i]
    BY <2>2 DEF IsJoin
  <2>4. \A i \in 0 .. n + 1 : g[i] = IF i = 0 THEN <<>> ELSE g[i - 1] \o bs[i]
    BY <2>1, <2>3
  <2>5. IsJoin(g, bs, n + 1)
    BY <2>1, <2>4 DEF IsJoin
  <2> QED BY <2>5
<1>3. T = Nat
  <2> HIDE DEF T
  <2>1. T \in SUBSET Nat
    BY DEF T
  <2> QED BY <1>1, <1>2, <2>1, SetInduction
<1> QED BY <1>3

LEMMA FlattenIsJoin ==
    ASSUME NEW bs \in Seq(Seq(Message))
    PROVE  \E f : IsJoin(f, bs, Len(bs)) /\ Flatten(bs) = f[Len(bs)]
<1> DEFINE u == CHOOSE f : f = [i \in 0 .. Len(bs) |-> IF i = 0 THEN <<>> ELSE f[i - 1] \o bs[i]]
<1>1. \E f : f = [i \in 0 .. Len(bs) |-> IF i = 0 THEN <<>> ELSE f[i - 1] \o bs[i]]
  <2>1. Len(bs) \in Nat /\ Len(bs) <= Len(bs)
    OBVIOUS
  <2>2. \E f : IsJoin(f, bs, Len(bs))
    BY <2>1, JoinExists
  <2> QED BY <2>2 DEF IsJoin
<1>2. u = [i \in 0 .. Len(bs) |-> IF i = 0 THEN <<>> ELSE u[i - 1] \o bs[i]]
  BY <1>1
<1>3. Flatten(bs) = u[Len(bs)]
  BY DEF Flatten
<1> QED BY <1>2, <1>3 DEF IsJoin

LEMMA JoinsAgree ==
    ASSUME NEW b \in Seq(Seq(Message)), NEW c \in Seq(Seq(Message)), NEW n \in Nat, NEW m \in Nat,
           n <= Len(b), n <= m, m <= Len(c), \A i \in 1 .. n : b[i] = c[i],
           NEW f, NEW g, IsJoin(f, b, n), IsJoin(g, c, m)
    PROVE  f[n] = g[n] /\ f[n] \in Seq(Message)
<1> DEFINE T == {k \in Nat : k <= n => f[k] = g[k] /\ f[k] \in Seq(Message)}
<1>1. \A i \in 0 .. n : f[i] = IF i = 0 THEN <<>> ELSE f[i - 1] \o b[i]
  BY DEF IsJoin
<1>2. \A i \in 0 .. m : g[i] = IF i = 0 THEN <<>> ELSE g[i - 1] \o c[i]
  BY DEF IsJoin
<1>3. \A i \in 1 .. n : b[i] \in Seq(Message)
  OBVIOUS
<1>4. 0 \in T
  <2>1. 0 \in 0 .. n /\ 0 \in 0 .. m /\ <<>> \in Seq(Message)
    OBVIOUS
  <2>2. f[0] = <<>> /\ g[0] = <<>>
    BY <1>1, <1>2, <2>1
  <2> QED BY <2>1, <2>2
<1>5. ASSUME NEW k \in T PROVE k + 1 \in T
  <2> SUFFICES ASSUME k + 1 <= n PROVE f[k + 1] = g[k + 1] /\ f[k + 1] \in Seq(Message)
    OBVIOUS
  <2>1. k \in Nat /\ k <= n /\ k + 1 \in 1 .. n /\ k + 1 \in 0 .. n /\ k + 1 \in 0 .. m /\ (k + 1) - 1 = k
    OBVIOUS
  <2>2. f[k] = g[k] /\ f[k] \in Seq(Message)
    BY <2>1
  <2>3. f[k + 1] = f[(k + 1) - 1] \o b[k + 1] /\ g[k + 1] = g[(k + 1) - 1] \o c[k + 1]
    <3>1. k + 1 # 0
      BY <2>1
    <3> QED BY <1>1, <1>2, <2>1, <3>1
  <2>4. b[k + 1] = c[k + 1] /\ b[k + 1] \in Seq(Message)
    BY <1>3, <2>1
  <2>5. f[k + 1] = f[k] \o b[k + 1] /\ g[k + 1] = f[k] \o b[k + 1]
    <3>1. f[(k + 1) - 1] = f[k] /\ g[(k + 1) - 1] = g[k]
      BY <2>1
    <3> QED BY <2>2, <2>3, <2>4, <3>1
  <2> DEFINE x == f[k]
             y == b[k + 1]
  <2>6. x \in Seq(Message) /\ y \in Seq(Message)
    BY <2>2, <2>4
  <2> HIDE DEF x, y, T
  <2>7. x \o y \in Seq(Message)
    BY <2>6, ConcatProperties
  <2> QED BY <2>5, <2>7 DEF x, y
<1>6. T = Nat
  <2> HIDE DEF T
  <2>1. T \in SUBSET Nat
    BY DEF T
  <2> QED BY <1>4, <1>5, <2>1, SetInduction
<1> HIDE DEF T
<1>7. n \in T /\ n <= n
  BY <1>6
<1> QED BY <1>7 DEF T

LEMMA FlattenAppend ==
    ASSUME NEW bs \in Seq(Seq(Message)), NEW b \in Seq(Message)
    PROVE  /\ Flatten(bs) \in Seq(Message)
           /\ Flatten(Append(bs, b)) = Flatten(bs) \o b
<1> DEFINE c == Append(bs, b)
<1>1. /\ c \in Seq(Seq(Message)) /\ Len(bs) \in Nat /\ Len(c) = Len(bs) + 1 /\ c[Len(bs) + 1] = b
      /\ \A i \in 1 .. Len(bs) : bs[i] = c[i]
  OBVIOUS
<1> HIDE DEF c
<1>2. PICK f : IsJoin(f, bs, Len(bs)) /\ Flatten(bs) = f[Len(bs)]
  BY FlattenIsJoin
<1>3. PICK g : IsJoin(g, c, Len(c)) /\ Flatten(c) = g[Len(c)]
  BY <1>1, FlattenIsJoin
<1>4. f[Len(bs)] = g[Len(bs)] /\ f[Len(bs)] \in Seq(Message)
  <2>1. Len(c) \in Nat /\ Len(bs) <= Len(c) /\ Len(bs) <= Len(bs) /\ Len(c) <= Len(c)
    BY <1>1
  <2> QED BY <1>1, <1>2, <1>3, <2>1, JoinsAgree
<1>5. g[Len(bs) + 1] = g[Len(bs)] \o b
  <2>1. Len(bs) + 1 \in 0 .. Len(c) /\ Len(bs) + 1 # 0 /\ (Len(bs) + 1) - 1 = Len(bs)
    BY <1>1
  <2> QED BY <1>1, <1>3, <2>1 DEF IsJoin
<1> QED BY <1>1, <1>2, <1>3, <1>4, <1>5 DEF c

LEMMA FlattenEmpty == Flatten(<<>>) = <<>>
<1>1. <<>> \in Seq(Seq(Message)) /\ Len(<<>>) = 0
  OBVIOUS
<1>2. PICK f : IsJoin(f, <<>>, 0) /\ Flatten(<<>>) = f[0]
  BY <1>1, FlattenIsJoin
<1> QED BY <1>2 DEF IsJoin

(* The first of the buffers still to be written comes first.               *)
Rest(bs, w) == SubSeq(bs, w + 1, Len(bs))

LEMMA FlattenFirst ==
    ASSUME NEW bs \in Seq(Seq(Message)), NEW w \in Nat, w < Len(bs)
    PROVE  /\ bs[w + 1] \in Seq(Message) /\ Flatten(Rest(bs, w + 1)) \in Seq(Message)
           /\ Flatten(Rest(bs, w)) = bs[w + 1] \o Flatten(Rest(bs, w + 1))
<1> DEFINE Part(v, k) == SubSeq(bs, v + 1, k)
           T == {k \in Nat : w + 1 + k <= Len(bs) =>
                    Flatten(Part(w, w + 1 + k)) = bs[w + 1] \o Flatten(Part(w + 1, w + 1 + k))}
<1>1. Len(bs) \in Nat /\ \A i \in 1 .. Len(bs) : bs[i] \in Seq(Message)
  OBVIOUS
<1>2. ASSUME NEW v \in Nat, NEW k \in Nat, v <= k, k <= Len(bs)
      PROVE  Part(v, k) \in Seq(Seq(Message)) /\ Flatten(Part(v, k)) \in Seq(Message)
  <2>1. v + 1 \in Int /\ k \in Int /\ \A i \in v + 1 .. k : bs[i] \in Seq(Message)
    BY <1>1, <1>2
  <2>2. Part(v, k) \in Seq(Seq(Message))
    BY <2>1, SubSeqProperties
  <2>3. <<>> \in Seq(Message)
    OBVIOUS
  <2> QED BY <2>2, <2>3, FlattenAppend
<1>3. ASSUME NEW v \in Nat, NEW k \in Nat, v <= k, k < Len(bs)
      PROVE  Flatten(Part(v, k + 1)) = Flatten(Part(v, k)) \o bs[k + 1]
  <2>1. v + 1 \in 1 .. Len(bs) /\ k + 1 \in v + 1 .. Len(bs) /\ (k + 1) - 1 = k /\ k + 1 \in 1 .. Len(bs)
    BY <1>1, <1>3
  <2>2. SubSeq(bs, v + 1, k + 1) = SubSeq(bs, v + 1, (k + 1) - 1) \o <<bs[k + 1]>>
    BY <2>1, SubSeqRecursiveSecond
  <2>3. Part(v, k) \in Seq(Seq(Message)) /\ bs[k + 1] \in Seq(Message)
    BY <1>1, <1>2, <1>3, <2>1
  <2>4. Part(v, k + 1) = Part(v, k) \o <<bs[k + 1]>>
    BY <2>1, <2>2
  <2> HIDE DEF Part
  <2>5. Part(v, k) \o <<bs[k + 1]>> = Append(Part(v, k), bs[k + 1])
    BY <2>3
  <2> QED BY <2>3, <2>4, <2>5, FlattenAppend
<1>4. ASSUME NEW v \in Nat PROVE Flatten(Part(v, v)) = <<>>
  <2>1. Part(v, v) = <<>>
    BY SubSeqEmpty
  <2> QED BY <2>1, FlattenEmpty
<1> HIDE DEF Part
<1>5. 0 \in T
  <2>1. Flatten(Part(w, w + 1)) = Flatten(Part(w, w)) \o bs[w + 1]
    BY <1>3
  <2>2. Flatten(Part(w, w)) = <<>> /\ Flatten(Part(w + 1, w + 1)) = <<>>
    BY <1>4
  <2>3. bs[w + 1] \in Seq(Message)
    BY <1>1
  <2>4. Flatten(Part(w, w + 1)) = bs[w + 1] \o Flatten(Part(w + 1, w + 1))
    BY <2>1, <2>2, <2>3, ConcatEmptySeq
  <2>5. w + 1 + 0 = w + 1
    OBVIOUS
  <2> QED BY <2>4, <2>5
<1>6. ASSUME NEW k \in T PROVE k + 1 \in T
  <2> DEFINE j == w + 1 + k
  <2> SUFFICES ASSUME j + 1 <= Len(bs)
               PROVE  Flatten(Part(w, j + 1)) = bs[w + 1] \o Flatten(Part(w + 1, j + 1))
    <3>1. k + 1 \in Nat /\ w + 1 + (k + 1) = j + 1
      OBVIOUS
    <3> QED BY <3>1
  <2>1. j \in Nat /\ w <= j /\ w + 1 <= j /\ j < Len(bs) /\ j <= Len(bs) /\ w + 1 \in Nat /\ k \in Nat
    BY <1>1
  <2>2. Flatten(Part(w, j)) = bs[w + 1] \o Flatten(Part(w + 1, j))
    BY <2>1
  <2> HIDE DEF j
  <2>3. Flatten(Part(w, j + 1)) = Flatten(Part(w, j)) \o bs[j + 1]
    BY <1>3, <2>1
  <2>4. Flatten(Part(w + 1, j + 1)) = Flatten(Part(w + 1, j)) \o bs[j + 1]
    BY <1>3, <2>1
  <2>5. bs[w + 1] \in Seq(Message) /\ bs[j + 1] \in Seq(Message) /\ Flatten(Part(w + 1, j)) \in Seq(Message)
    <3>1. w + 1 \in 1 .. Len(bs) /\ j + 1 \in 1 .. Len(bs)
      BY <1>1, <2>1
    <3> QED BY <1>1, <1>2, <2>1, <3>1
  <2>6. (bs[w + 1] \o Flatten(Part(w + 1, j))) \o bs[j + 1] = bs[w + 1] \o (Flatten(Part(w + 1, j)) \o bs[j + 1])
    <3> DEFINE x == bs[w + 1]
               y == Flatten(Part(w + 1, j))
               z == bs[j + 1]
    <3>1. x \in Seq(Message) /\ y \in Seq(Message) /\ z \in Seq(Message)
      BY <2>5
    <3> HIDE DEF x, y, z
    <3>2. (x \o y) \o z = x \o (y \o z)
      BY <3>1, Regroup
    <3> QED BY <3>2 DEF x, y, z
  <2> QED BY <2>2, <2>3, <2>4, <2>6
<1>7. T = Nat
  <2> HIDE DEF T
  <2>1. T \in SUBSET Nat
    BY DEF T
  <2> QED BY <1>5, <1>6, <2>1, SetInduction
<1>8. Flatten(Part(w, Len(bs))) = bs[w + 1] \o Flatten(Part(w + 1, Len(bs)))
  <2> DEFINE k == Len(bs) - (w + 1)
  <2>1. k \in Nat /\ w + 1 + k = Len(bs)
    BY <1>1
  <2> HIDE DEF k
  <2>2. k \in T
    BY <1>7, <2>1
  <2>3. Flatten(Part(w, w + 1 + k)) = bs[w + 1] \o Flatten(Part(w + 1, w + 1 + k))
    <3>1. w + 1 + k <= Len(bs)
      BY <1>1, <2>1
    <3> QED BY <2>2, <3>1
  <2> QED BY <2>1, <2>3
<1>9. bs[w + 1] \in Seq(Message) /\ Flatten(Part(w + 1, Len(bs))) \in Seq(Message)
  BY <1>1, <1>2
<1> QED BY <1>8, <1>9 DEF Rest, Part

-----------------------------------------------------------------------------
(* What the buffers hold.                                                  *)

(* The messages that the worker has taken and not written yet.             *)
Unwritten == Flatten(Rest(to_file_buffers, written))

(* A spare buffer is empty, and the worker has messages of its own only    *)
(* while it writes: what it took the last time is all in the file.         *)
SpareInv ==
    /\ next_buffer_ \in {<<>>, Null}
    /\ to_file_buffer \in {<<>>, Null} /\ to_file_buffer_next \in {<<>>, Null}
    /\ worker # "write" => to_file_buffers = <<>> /\ written = 0
    /\ written <= Len(to_file_buffers)

HoldInv == SpareInv /\ NothingLost /\ NoOverflow

(* NothingLost and NoOverflow, as functions of the values of the variables *)
(* before and after a step.                                                *)
Held(fl, u, d, c) == ((fl \o u) \o Flatten(d)) \o c

Inside(d, c) == size(c) <= SIZE /\ \A i \in 1 .. Len(d) : size(d[i]) <= SIZE

LEMMA HeldNow ==
    /\ NothingLost <=> (~aborted => logged = Held(file, Unwritten, dirty_buffer_, cur_buffer_))
    /\ NoOverflow <=> Inside(dirty_buffer_, cur_buffer_)
BY DEF NothingLost, NoOverflow, Held, Inside, Unwritten, Rest

LEMMA HeldNext ==
    /\ NothingLost' <=> (~aborted' => logged' = Held(file', Unwritten', dirty_buffer_', cur_buffer_'))
    /\ NoOverflow' <=> Inside(dirty_buffer_', cur_buffer_')
BY DEF NothingLost, NoOverflow, Held, Inside, Unwritten, Rest, Flatten, size

(* Buffer::append keeps a message that fits, and only that.                *)
LEMMA BufAppendFits ==
    ASSUME NEW b \in Seq(Message), NEW m \in Message, size(b) <= SIZE, m.len <= avail(b)
    PROVE  BufAppend(b, m) = Append(b, m) /\ size(Append(b, m)) <= SIZE
<1>1. m.len \in Nat /\ SIZE \in Nat
  BY SIZEAssumption DEF Message
<1>2. size(b) \in Nat /\ size(Append(b, m)) = size(b) + m.len
  BY SizeAppend
<1>3. m.len <= SIZE - size(b)
  BY DEF avail
<1>4. ~(m.len > avail(b))
  BY <1>1, <1>2, <1>3 DEF avail
<1> QED BY <1>1, <1>2, <1>3, <1>4 DEF BufAppend

LEMMA UnwrittenType ==
    ASSUME TypeOK, SpareInv
    PROVE  Unwritten \in Seq(Message)
<1>1. to_file_buffers \in Seq(Seq(Message)) /\ written \in Nat /\ written <= Len(to_file_buffers)
  BY DEF TypeOK, SpareInv
<1>2. Rest(to_file_buffers, written) \in Seq(Seq(Message))
  <2>1. written + 1 \in Int /\ Len(to_file_buffers) \in Int
        /\ \A i \in written + 1 .. Len(to_file_buffers) : to_file_buffers[i] \in Seq(Message)
    BY <1>1
  <2> QED BY <2>1, SubSeqProperties DEF Rest
<1>3. <<>> \in Seq(Message)
  OBVIOUS
<1> QED BY <1>2, <1>3, FlattenAppend DEF Unwritten

LEMMA AppendHolds ==
    ASSUME IndInv, HoldInv, ~aborted, NEW body \in Bodies, append(body)
    PROVE  HoldInv'
<1> DEFINE m == [id |-> Len(logged) + 1, len |-> StreamLen(body)]
           a == file
           b == Unwritten
           c == Flatten(dirty_buffer_)
           d == cur_buffer_
<1>1. m \in Message
  BY StreamLenFits, MaxLoggedAssumption DEF append, TypeOK, Message, IndInv
<1>2. m.len \in 0 .. SIZE
  BY <1>1 DEF Message
<1>3. dirty_buffer_ \in Seq(Seq(Message)) /\ d \in Seq(Message) /\ a \in Seq(Message)
  BY DEF TypeOK, PtrInv, BufferPtr, IndInv
<1>4. b \in Seq(Message) /\ c \in Seq(Message)
  BY <1>3, UnwrittenType, FlattenAppend DEF IndInv, HoldInv
<1>5. /\ logged' = Append(logged, m)
      /\ UNCHANGED <<to_file_buffers, to_file_buffer, to_file_buffer_next, written, worker, file, aborted>>
  BY DEF append, localVars
<1>6. Unwritten' = b
  BY <1>5 DEF Unwritten, Rest, Flatten
<1>7. logged = ((a \o b) \o c) \o d
  BY HeldNow DEF HoldInv, Held
<1>8. size(d) \in Nat /\ size(d) <= SIZE /\ \A i \in 1 .. Len(dirty_buffer_) : size(dirty_buffer_[i]) <= SIZE
  BY <1>1, <1>3, SizeAppend, HeldNow DEF HoldInv, Inside
<1>9. CASE avail(cur_buffer_) > m.len
  <2>1. cur_buffer_' = BufAppend(d, m) /\ UNCHANGED <<next_buffer_, dirty_buffer_>>
    BY <1>9 DEF append
  <2>2. SpareInv'
    BY <1>5, <2>1 DEF HoldInv, SpareInv
  <2>3. m.len <= avail(d)
    BY <1>2, <1>8, <1>9, SIZEAssumption DEF avail
  <2> HIDE DEF m, d
  <2>4. cur_buffer_' = Append(d, m) /\ size(Append(d, m)) <= SIZE
    BY <1>1, <1>3, <1>8, <2>1, <2>3, BufAppendFits
  <2> HIDE DEF a, b, c
  <2>5. Append(((a \o b) \o c) \o d, m) = ((a \o b) \o c) \o Append(d, m)
    <3> DEFINE x == (a \o b) \o c
    <3>1. x \in Seq(Message)
      BY <1>3, <1>4, ConcatProperties
    <3> HIDE DEF x
    <3>2. <<m>> \in Seq(Message) /\ x \o d \in Seq(Message)
      BY <1>1, <1>3, <3>1, ConcatProperties
    <3>3. Append(x \o d, m) = (x \o d) \o <<m>>
      BY <1>1, <3>2, AppendIsConcat
    <3>4. (x \o d) \o <<m>> = x \o (d \o <<m>>)
      BY <1>3, <3>1, <3>2, Regroup
    <3>5. d \o <<m>> = Append(d, m)
      BY <1>1, <1>3, AppendIsConcat
    <3> QED BY <3>3, <3>4, <3>5 DEF x
  <2>6. logged' = Held(file', Unwritten', dirty_buffer_', cur_buffer_')
    <3>1. logged' = ((a \o b) \o c) \o Append(d, m)
      BY <1>5, <1>7, <2>5
    <3>2. file' = a /\ Unwritten' = b /\ dirty_buffer_' = dirty_buffer_ /\ cur_buffer_' = Append(d, m)
      BY <1>5, <1>6, <2>1, <2>4 DEF a, b
    <3> QED BY <3>1, <3>2 DEF Held, c
  <2>7. Inside(dirty_buffer_', cur_buffer_')
    BY <1>8, <2>1, <2>4 DEF Inside
  <2> QED BY <2>2, <2>6, <2>7, HeldNext DEF HoldInv
<1>10. CASE ~(avail(cur_buffer_) > m.len)
  <2> DEFINE fresh == IF next_buffer_ # Null THEN next_buffer_ ELSE <<>>
  <2>1. /\ dirty_buffer_' = Append(dirty_buffer_, d)
        /\ cur_buffer_' = BufAppend(fresh, m)
        /\ next_buffer_' = Null
    BY <1>10 DEF append
  <2>2. fresh = <<>>
    BY DEF HoldInv, SpareInv
  <2>3. SpareInv'
    BY <1>5, <2>1 DEF HoldInv, SpareInv
  <2> HIDE DEF m, d, fresh
  <2>4. cur_buffer_' = <<m>> /\ size(<<m>>) <= SIZE
    <3>1. <<>> \in Seq(Message) /\ Append(<<>>, m) = <<m>>
      OBVIOUS
    <3>2. size(<<>>) <= SIZE /\ m.len <= avail(<<>>)
      BY <1>2, SizeEmpty, SIZEAssumption DEF avail
    <3>3. BufAppend(<<>>, m) = Append(<<>>, m) /\ size(Append(<<>>, m)) <= SIZE
      BY <1>1, <3>1, <3>2, BufAppendFits
    <3> QED BY <2>1, <2>2, <3>1, <3>3
  <2>5. Flatten(dirty_buffer_') = c \o d
    BY <1>3, <2>1, FlattenAppend
  <2> HIDE DEF a, b, c
  <2>6. Append(((a \o b) \o c) \o d, m) = ((a \o b) \o (c \o d)) \o <<m>>
    <3> DEFINE x == a \o b
    <3>1. x \in Seq(Message)
      BY <1>3, <1>4, ConcatProperties
    <3> HIDE DEF x
    <3>2. (x \o c) \o d = x \o (c \o d)
      <4>1. c \in Seq(Message) /\ d \in Seq(Message)
        BY <1>3, <1>4
      <4> QED BY <3>1, <4>1, Regroup
    <3>3. c \o d \in Seq(Message)
      BY <1>3, <1>4, ConcatProperties
    <3>4. x \o (c \o d) \in Seq(Message)
      BY <3>1, <3>3, ConcatProperties
    <3>5. Append(x \o (c \o d), m) = (x \o (c \o d)) \o <<m>>
      BY <1>1, <3>4, AppendIsConcat
    <3> QED BY <3>2, <3>5 DEF x
  <2>7. logged' = Held(file', Unwritten', dirty_buffer_', cur_buffer_')
    <3>1. logged' = ((a \o b) \o (c \o d)) \o <<m>>
      BY <1>5, <1>7, <2>6
    <3>2. file' = a /\ Unwritten' = b
      BY <1>5, <1>6 DEF a, b
    <3> QED BY <2>4, <2>5, <3>1, <3>2 DEF Held
  <2>8. Inside(dirty_buffer_', cur_buffer_')
    <3>1. /\ Len(Append(dirty_buffer_, d)) = Len(dirty_buffer_) + 1 /\ Len(dirty_buffer_) \in Nat
          /\ Append(dirty_buffer_, d)[Len(dirty_buffer_) + 1] = d
          /\ \A i \in 1 .. Len(dirty_buffer_) : Append(dirty_buffer_, d)[i] = dirty_buffer_[i]
      BY <1>3
    <3>2. \A i \in 1 .. Len(dirty_buffer_) + 1 : size(Append(dirty_buffer_, d)[i]) <= SIZE
      <4> TAKE i \in 1 .. Len(dirty_buffer_) + 1
      <4>1. CASE i = Len(dirty_buffer_) + 1
        BY <1>8, <3>1, <4>1
      <4>2. CASE i # Len(dirty_buffer_) + 1
        <5>1. i \in 1 .. Len(dirty_buffer_)
          BY <3>1, <4>2
        <5> QED BY <1>8, <3>1, <5>1
      <4> QED BY <4>1, <4>2
    <3> QED BY <2>1, <2>4, <3>1, <3>2 DEF Inside
  <2> QED BY <2>3, <2>7, <2>8, HeldNext DEF HoldInv
<1> QED BY <1>9, <1>10


(* The worker takes all that the producers have; it had nothing itself.    *)
LEMMA SwapHolds ==
    ASSUME IndInv, HoldInv, ~aborted, Swap
    PROVE  HoldInv'
<1> DEFINE a == file
           c == Flatten(dirty_buffer_)
           d == cur_buffer_
<1>1. dirty_buffer_ \in Seq(Seq(Message)) /\ d \in Seq(Message) /\ a \in Seq(Message)
  BY DEF TypeOK, PtrInv, BufferPtr, IndInv
<1>2. c \in Seq(Message) /\ Flatten(Append(dirty_buffer_, d)) = c \o d
  BY <1>1, FlattenAppend
<1>3. /\ to_file_buffers' = Append(dirty_buffer_, d) /\ written' = 0
      /\ dirty_buffer_' = <<>> /\ cur_buffer_' = to_file_buffer /\ to_file_buffer' = Null
      /\ worker' = "write" /\ UNCHANGED <<file, logged>>
  BY DEF Swap, MoveBuffers
<1>4. to_file_buffers = <<>> /\ written = 0 /\ to_file_buffer = <<>>
  BY DEF Swap, HoldInv, SpareInv, IndInv, PtrInv
<1>5. SpareInv'
  <2>1. next_buffer_' \in {<<>>, Null} /\ to_file_buffer_next' \in {<<>>, Null}
    BY DEF Swap, RefillNext, HoldInv, SpareInv
  <2>2. Len(to_file_buffers') >= 0
    BY <1>1, <1>3
  <2> QED BY <1>3, <2>1, <2>2 DEF SpareInv
<1>6. Unwritten = <<>>
  <2>1. Rest(<<>>, 0) = <<>>
    BY DEF Rest
  <2> QED BY <1>4, <2>1, FlattenEmpty DEF Unwritten
<1>7. Unwritten' = c \o d
  <2> DEFINE t == Append(dirty_buffer_, d)
  <2>1. t \in Seq(Seq(Message)) /\ Len(t) \in Nat
    BY <1>1
  <2>2. Rest(t, 0) = t
    <3> HIDE DEF t
    <3> QED BY <2>1, SubSeqFull DEF Rest
  <2>3. Flatten(Rest(t, 0)) = c \o d
    BY <1>2, <2>2
  <2>4. Unwritten' = Flatten(Rest(to_file_buffers', written'))
    BY DEF Unwritten, Rest, Flatten
  <2> QED BY <1>3, <2>3, <2>4
<1>8. ~aborted' => logged' = Held(file', Unwritten', dirty_buffer_', cur_buffer_')
  <2>1. logged = ((a \o <<>>) \o c) \o d
    BY <1>6, HeldNow DEF HoldInv, Held
  <2>2. cur_buffer_' = <<>>
    BY <1>3, <1>4
  <2>3. Held(file', Unwritten', dirty_buffer_', cur_buffer_') = ((a \o (c \o d)) \o <<>>) \o <<>>
    BY <1>3, <1>7, <2>2, FlattenEmpty DEF Held
  <2> HIDE DEF a, c, d
  <2>4. a \in Seq(Message) /\ c \in Seq(Message) /\ d \in Seq(Message)
    BY <1>1, <1>2
  <2>5. a \o <<>> = a
    BY <2>4, ConcatEmptySeq
  <2>6. (a \o c) \o d = a \o (c \o d)
    BY <2>4, Regroup
  <2>7. c \o d \in Seq(Message)
    BY <2>4, ConcatProperties
  <2>8. a \o (c \o d) \in Seq(Message)
    BY <2>4, <2>7, ConcatProperties
  <2>9. ((a \o (c \o d)) \o <<>>) \o <<>> = a \o (c \o d)
    BY <2>8, ConcatEmptySeq
  <2> QED BY <1>3, <2>1, <2>3, <2>5, <2>6, <2>9
<1>9. Inside(dirty_buffer_', cur_buffer_')
  <2>1. size(<<>>) <= SIZE
    BY SizeEmpty, SIZEAssumption
  <2> QED BY <1>3, <1>4, <2>1 DEF Inside
<1> QED BY <1>5, <1>8, <1>9, HeldNext DEF HoldInv

(* One fwrite moves the first unwritten buffer to the end of the file.     *)
LEMMA WriteBufferHolds ==
    ASSUME IndInv, HoldInv, ~aborted, WriteBuffer
    PROVE  HoldInv'
<1> DEFINE a == file
           x == to_file_buffers[written + 1]
           r == Flatten(Rest(to_file_buffers, written + 1))
           c == Flatten(dirty_buffer_)
           d == cur_buffer_
<1>1. /\ dirty_buffer_ \in Seq(Seq(Message)) /\ d \in Seq(Message) /\ a \in Seq(Message)
      /\ to_file_buffers \in Seq(Seq(Message)) /\ written \in Nat
  BY DEF TypeOK, PtrInv, BufferPtr, IndInv
<1>2. /\ written < Len(to_file_buffers) /\ worker = "write" /\ file' = a \o x /\ written' = written + 1
      /\ UNCHANGED <<cur_buffer_, next_buffer_, dirty_buffer_, to_file_buffers, to_file_buffer,
                     to_file_buffer_next, worker, logged, aborted>>
  BY DEF WriteBuffer, sharedVars
<1>3. SpareInv'
  <2>1. written' <= Len(to_file_buffers')
    BY <1>1, <1>2
  <2> QED BY <1>2, <2>1 DEF HoldInv, SpareInv
<1>4. x \in Seq(Message) /\ r \in Seq(Message) /\ Unwritten = x \o r
  BY <1>1, <1>2, FlattenFirst DEF Unwritten
<1>5. Unwritten' = r
  <2>1. Unwritten' = Flatten(Rest(to_file_buffers', written'))
    BY DEF Unwritten, Rest, Flatten
  <2> QED BY <1>2, <2>1
<1>6. logged' = Held(file', Unwritten', dirty_buffer_', cur_buffer_')
  <2>1. logged = ((a \o (x \o r)) \o c) \o d
    BY <1>4, HeldNow DEF HoldInv, Held
  <2>2. Held(file', Unwritten', dirty_buffer_', cur_buffer_') = (((a \o x) \o r) \o c) \o d
    BY <1>2, <1>5 DEF Held
  <2> HIDE DEF a, x, r, c, d
  <2>3. a \in Seq(Message) /\ x \in Seq(Message) /\ r \in Seq(Message)
    BY <1>1, <1>4
  <2>4. (a \o x) \o r = a \o (x \o r)
    BY <2>3, Regroup
  <2> QED BY <1>2, <2>1, <2>2, <2>4
<1>7. Inside(dirty_buffer_', cur_buffer_')
  BY <1>2, HeldNow DEF HoldInv
<1> QED BY <1>3, <1>6, <1>7, HeldNext DEF HoldInv

(* All is written: the buffers that are kept are cleared.                  *)
LEMMA RecycleHolds ==
    ASSUME IndInv, HoldInv, ~aborted, Recycle
    PROVE  HoldInv'
<1>1. /\ to_file_buffers \in Seq(Seq(Message)) /\ written = Len(to_file_buffers)
      /\ UNCHANGED <<cur_buffer_, next_buffer_, dirty_buffer_, file, logged>>
      /\ to_file_buffers' = <<>> /\ written' = 0 /\ worker' = "loop"
      /\ to_file_buffer' = Recycled(to_file_buffer)
      /\ to_file_buffer_next' = Recycled(to_file_buffer_next)
  BY DEF Recycle, sharedVars, IndInv, TypeOK
<1>2. SpareInv'
  <2>1. to_file_buffer' \in {<<>>, Null} /\ to_file_buffer_next' \in {<<>>, Null}
    BY <1>1 DEF HoldInv, SpareInv, Recycled
  <2> QED BY <1>1, <2>1 DEF HoldInv, SpareInv
<1>3. Unwritten = <<>>
  <2>1. Rest(to_file_buffers, written) = <<>>
    BY <1>1, SubSeqEmpty DEF Rest
  <2> QED BY <2>1, FlattenEmpty DEF Unwritten
<1>4. Unwritten' = <<>>
  <2>1. Unwritten' = Flatten(Rest(to_file_buffers', written'))
    BY DEF Unwritten, Rest, Flatten
  <2>2. Rest(<<>>, 0) = <<>>
    BY DEF Rest
  <2> QED BY <1>1, <2>1, <2>2, FlattenEmpty
<1>5. logged' = Held(file', Unwritten', dirty_buffer_', cur_buffer_')
  BY <1>1, <1>3, <1>4, HeldNow DEF HoldInv
<1>6. Inside(dirty_buffer_', cur_buffer_')
  BY <1>1, HeldNow DEF HoldInv
<1> QED BY <1>2, <1>5, <1>6, HeldNext DEF HoldInv

(* The steps that move no buffer, and a step that changes nothing.         *)
LEMMA ControlHolds ==
    ASSUME HoldInv, UNCHANGED <<sharedVars, localVars, file, logged, aborted>>,
           worker' # "write" => worker # "write"
    PROVE  HoldInv'
<1>1. UNCHANGED <<cur_buffer_, next_buffer_, dirty_buffer_, to_file_buffers, to_file_buffer,
                  to_file_buffer_next, written, file, logged, aborted>>
  BY DEF sharedVars, localVars
<1>2. SpareInv'
  BY <1>1 DEF HoldInv, SpareInv
<1>3. Unwritten' = Unwritten
  BY <1>1 DEF Unwritten, Rest, Flatten
<1>4. ~aborted' => logged' = Held(file', Unwritten', dirty_buffer_', cur_buffer_')
  BY <1>1, <1>3, HeldNow DEF HoldInv
<1>5. Inside(dirty_buffer_', cur_buffer_')
  BY <1>1, HeldNow DEF HoldInv
<1> QED BY <1>2, <1>4, <1>5, HeldNext DEF HoldInv

LEMMA InitHolds == Init => HoldInv
<1> SUFFICES ASSUME Init PROVE HoldInv
  OBVIOUS
<1>1. SpareInv
  BY DEF Init, SpareInv
<1>2. Unwritten = <<>>
  <2>1. Rest(<<>>, 0) = <<>>
    BY DEF Rest
  <2> QED BY <2>1, FlattenEmpty DEF Init, Unwritten
<1>3. Held(<<>>, <<>>, <<>>, <<>>) = <<>>
  BY FlattenEmpty DEF Held
<1>4. Inside(<<>>, <<>>)
  BY SizeEmpty, SIZEAssumption DEF Inside
<1> QED BY <1>1, <1>2, <1>3, <1>4, HeldNow DEF HoldInv, Init

LEMMA NextHolds == IndInv /\ HoldInv /\ [Next]_vars => HoldInv'
<1> SUFFICES ASSUME IndInv, HoldInv, [Next]_vars PROVE HoldInv'
  OBVIOUS
<1>1. CASE UNCHANGED vars
  <2>1. UNCHANGED <<sharedVars, localVars, file, logged, aborted>> /\ worker' = worker
    BY <1>1 DEF vars
  <2> QED BY <2>1, ControlHolds
<1>2. CASE ~aborted /\ \E body \in Bodies : append(body)
  BY <1>2, AppendHolds
<1>3. ASSUME ~aborted, ThreadOnce \/ CheckRunning \/ Wait \/ Exit \/ Terminate \/ Join
      PROVE  HoldInv'
  <2>1. UNCHANGED <<sharedVars, localVars, file, logged, aborted>>
    BY <1>3 DEF ThreadOnce, CheckRunning, Wait, Exit, Terminate, Join
  <2>2. worker' # "write" => worker # "write"
    BY <1>3 DEF ThreadOnce, CheckRunning, Wait, Exit, Terminate, Join, IndInv, PtrInv
  <2> QED BY <2>1, <2>2, ControlHolds
<1>4. CASE ~aborted /\ WorkerStep
  BY <1>3, <1>4, SwapHolds, WriteBufferHolds, RecycleHolds DEF WorkerStep
<1>5. CASE ~aborted /\ (ThreadOnce \/ Terminate \/ Join)
  BY <1>3, <1>5
<1> QED BY <1>1, <1>2, <1>4, <1>5 DEF Next, Done

LEMMA HoldInvariance == Spec => [](IndInv /\ HoldInv)
<1> QED BY InitIndInv, NextIndInv, InitHolds, NextHolds, PTL DEF Spec

(* Every message appended before an abort is in the file or in exactly one *)
(* buffer, in the order of the appends, and no buffer holds more than its  *)
(* SIZE bytes, whatever the sizes of the messages and however append,      *)
(* the swap and the writes interleave.                                     *)
THEOREM LogSafety == Spec => []BuffersHoldTheRest
<1>1. HoldInv => BuffersHoldTheRest
  BY DEF HoldInv, BuffersHoldTheRest
<1> QED BY <1>1, HoldInvariance, PTL

-----------------------------------------------------------------------------
(* A step of the logger is a step of LogSink.                              *)
LEMMA NextIsSink ==
    ASSUME IndInv, HoldInv, HoldInv', [Next]_vars
    PROVE  [Sink!Log \/ Sink!Write]_<<logged, file>>
<1>1. CASE UNCHANGED <<logged, file>>
  BY <1>1
<1>2. CASE ~aborted /\ \E body \in Bodies : append(body)
  <2>1. PICK body \in Bodies : append(body)
    BY <1>2
  <2> DEFINE m == [id |-> Len(logged) + 1, len |-> StreamLen(body)]
  <2>2. m \in Message
    BY <2>1, StreamLenFits, MaxLoggedAssumption DEF append, TypeOK, Message, IndInv
  <2>3. logged' = Append(logged, m) /\ UNCHANGED file
    BY <2>1 DEF append
  <2> HIDE DEF m
  <2> QED BY <2>2, <2>3 DEF Sink!Log
<1>3. CASE ~aborted /\ WriteBuffer
  <2> DEFINE x == to_file_buffers[written + 1]
             u == Unwritten'
             c == Flatten(dirty_buffer_')
             d == cur_buffer_'
             r == (u \o c) \o d
  <2>1. /\ file \in Seq(Message) /\ logged \in Seq(Message) /\ dirty_buffer_ \in Seq(Seq(Message))
        /\ cur_buffer_ \in Seq(Message) /\ x \in Seq(Message)
        /\ file' = file \o x /\ UNCHANGED <<logged, dirty_buffer_, cur_buffer_, aborted>>
    BY <1>3 DEF TypeOK, PtrInv, BufferPtr, IndInv, WriteBuffer, sharedVars
  <2>2. u \in Seq(Message)
    <3>1. /\ to_file_buffers \in Seq(Seq(Message)) /\ written \in Nat /\ written < Len(to_file_buffers)
          /\ to_file_buffers' = to_file_buffers /\ written' = written + 1
      BY <1>3 DEF WriteBuffer, IndInv, TypeOK
    <3>2. Unwritten' = Flatten(Rest(to_file_buffers', written'))
      BY DEF Unwritten, Rest, Flatten
    <3> QED BY <3>1, <3>2, FlattenFirst
  <2>3. c \in Seq(Message) /\ d \in Seq(Message)
    BY <2>1, FlattenAppend
  <2>4. logged = ((file' \o u) \o c) \o d
    BY <1>3, <2>1, HeldNext DEF HoldInv, Held
  <2> DEFINE a == file'
  <2>5. a \in Seq(Message)
    <3> HIDE DEF x
    <3> QED BY <2>1, ConcatProperties
  <2> HIDE DEF x, u, c, d, a
  <2>6. ((a \o u) \o c) \o d = a \o r
    <3>1. (a \o u) \o c = a \o (u \o c)
      BY <2>2, <2>3, <2>5, Regroup
    <3> DEFINE y == u \o c
    <3>2. y \in Seq(Message)
      BY <2>2, <2>3, ConcatProperties
    <3> HIDE DEF y
    <3>3. (a \o y) \o d = a \o (y \o d)
      BY <2>3, <2>5, <3>2, Regroup
    <3> QED BY <3>1, <3>3 DEF y
  <2>7. r \in Seq(Message)
    <3>1. u \o c \in Seq(Message)
      BY <2>2, <2>3, ConcatProperties
    <3> QED BY <2>3, <3>1, ConcatProperties
  <2> HIDE DEF r
  <2>8. logged = a \o r
    BY <2>4, <2>6 DEF a
  <2>9. Len(a) \in Nat /\ Len(r) \in Nat /\ Len(a) <= Len(logged)
    BY <2>5, <2>7, <2>8
  <2>10. SubSeq(logged, 1, Len(a)) = a
    <3>1. SubSeq(a \o r, 1, Len(a)) = SubSeq(a, 1, Len(a))
      BY <2>5, <2>7, <2>9
    <3>2. SubSeq(a, 1, Len(a)) = a
      BY <2>5, SubSeqFull
    <3> QED BY <2>8, <3>1, <3>2
  <2>11. Len(file) <= Len(a) /\ Len(file) \in Nat
    <3> HIDE DEF a
    <3>1. a = file \o x
      BY <2>1 DEF a
    <3>2. file \in Seq(Message) /\ x \in Seq(Message)
      BY <2>1
    <3> QED BY <3>1, <3>2
  <2>12. Len(a) \in Len(file) .. Len(logged)
    <3>1. Len(logged) \in Nat
      BY <2>1
    <3> QED BY <2>9, <2>11, <3>1
  <2> QED BY <2>1, <2>10, <2>12 DEF Sink!Write, a
<1>4. ~(UNCHANGED <<logged, file>>) =>
        (~aborted /\ \E body \in Bodies : append(body)) \/ (~aborted /\ WriteBuffer)
  BY DEF Next, WorkerStep, ThreadOnce, CheckRunning, Wait, Swap, MoveBuffers, Recycle, Exit,
         Terminate, Join, Done, vars
<1> QED BY <1>1, <1>2, <1>3, <1>4

(* The file is at any time a prefix of the log, message by message and in  *)
(* order, and grows at its end only: the logger implements LogSink.        *)
THEOREM SinkRefinement == Spec => ImplementsSink
<1>1. Init => Sink!Init
  BY DEF Init, Sink!Init
<1>2. IndInv /\ HoldInv /\ HoldInv' /\ [Next]_vars => [Sink!Log \/ Sink!Write]_<<logged, file>>
  BY NextIsSink
<1> QED BY <1>1, <1>2, HoldInvariance, PTL DEF Spec, ImplementsSink, Sink!Spec

-----------------------------------------------------------------------------
(* Recursive functions exist: H[x][f] is the right-hand side of the        *)
(* definition of f at x, and depends on f only at arguments of a smaller   *)
(* measure.                                                                *)
WellFounded(D, V, mu, H) ==
    /\ mu \in [D -> Nat]
    /\ H \in [D -> [[D -> V] -> V]]
    /\ \A x \in D : \A f, g \in [D -> V] :
          (\A y \in D : mu[y] < mu[x] => f[y] = g[y]) => H[x][f] = H[x][g]

Solves(D, V, H, f) == f \in [D -> V] /\ \A x \in D : f[x] = H[x][f]

LEMMA Recursion ==
    ASSUME NEW D, NEW V, V # {}, NEW mu, NEW H, WellFounded(D, V, mu, H)
    PROVE  \E f : Solves(D, V, H, f)
<1> PICK c \in V : TRUE
  OBVIOUS
<1> USE DEF WellFounded
<1> DEFINE Good(f, n) == \A x \in D : mu[x] < n => f[x] = H[x][f]
           E == {n \in Nat : \E f \in [D -> V] : Good(f, n)}
           U == {n \in Nat : \A f, g \in [D -> V] :
                    Good(f, n) /\ Good(g, n) => \A x \in D : mu[x] < n => f[x] = g[x]}
<1>1. E = Nat
  <2>1. 0 \in E
    <3>1. \A x \in D : ~(mu[x] < 0)
      OBVIOUS
    <3>2. [x \in D |-> c] \in [D -> V] /\ Good([x \in D |-> c], 0)
      BY <3>1
    <3> QED BY <3>2
  <2>2. ASSUME NEW n \in E PROVE n + 1 \in E
    <3>1. n \in Nat /\ n + 1 \in Nat
      OBVIOUS
    <3>2. PICK f \in [D -> V] : Good(f, n)
      OBVIOUS
    <3> DEFINE g == [x \in D |-> H[x][f]]
    <3>3. g \in [D -> V] /\ \A x \in D : g[x] = H[x][f]
      OBVIOUS
    <3> HIDE DEF g
    <3>4. ASSUME NEW x \in D, mu[x] < n + 1 PROVE g[x] = H[x][g]
      <4>1. ASSUME NEW y \in D, mu[y] < mu[x] PROVE f[y] = g[y]
        <5>1. mu[y] \in Nat /\ mu[x] \in Nat
          OBVIOUS
        <5>2. mu[y] < n
          BY <3>1, <3>4, <4>1, <5>1
        <5> QED BY <3>2, <3>3, <5>2
      <4>2. H[x][f] = H[x][g]
        BY <3>3, <4>1
      <4> QED BY <3>3, <4>2
    <3>5. Good(g, n + 1)
      BY <3>4
    <3> HIDE DEF Good
    <3> QED BY <3>1, <3>3, <3>5
  <2> HIDE DEF E
  <2>3. E \in SUBSET Nat
    BY DEF E
  <2> QED BY <2>1, <2>2, <2>3, SetInduction
<1>2. U = Nat
  <2>1. 0 \in U
    <3>1. \A x \in D : ~(mu[x] < 0)
      OBVIOUS
    <3> QED BY <3>1
  <2>2. ASSUME NEW n \in U PROVE n + 1 \in U
    <3>1. n \in Nat /\ n + 1 \in Nat
      OBVIOUS
    <3>2. ASSUME NEW f \in [D -> V], NEW g \in [D -> V], Good(f, n + 1), Good(g, n + 1),
                 NEW x \in D, mu[x] < n + 1
          PROVE  f[x] = g[x]
      <4>1. \A y \in D : mu[y] < n => mu[y] < n + 1
        BY <3>1
      <4>2. Good(f, n) /\ Good(g, n)
        BY <3>2, <4>1
      <4>3. ASSUME NEW y \in D, mu[y] < mu[x] PROVE f[y] = g[y]
        <5>1. mu[y] \in Nat /\ mu[x] \in Nat
          OBVIOUS
        <5>2. mu[y] < n
          BY <3>1, <3>2, <4>3, <5>1
        <5> HIDE DEF Good
        <5> QED BY <4>2, <5>2
      <4>4. H[x][f] = H[x][g]
        BY <4>3
      <4>5. f[x] = H[x][f] /\ g[x] = H[x][g]
        BY <3>2
      <4> QED BY <4>4, <4>5
    <3> HIDE DEF Good
    <3> QED BY <3>1, <3>2
  <2> HIDE DEF U
  <2>3. U \in SUBSET Nat
    BY DEF U
  <2> QED BY <2>1, <2>2, <2>3, SetInduction
<1>3. \A n \in Nat : \E f \in [D -> V] : Good(f, n)
  <2> HIDE DEF Good
  <2> QED BY <1>1
<1>4. ASSUME NEW n \in Nat, NEW f \in [D -> V], NEW g \in [D -> V], Good(f, n), Good(g, n),
             NEW x \in D, mu[x] < n
      PROVE  f[x] = g[x]
  <2> HIDE DEF Good
  <2> QED BY <1>2, <1>4
<1> DEFINE F(n) == CHOOSE f \in [D -> V] : Good(f, n)
           u == [x \in D |-> F(mu[x] + 1)[x]]
<1>5. \A n \in Nat : F(n) \in [D -> V] /\ Good(F(n), n)
  <2> HIDE DEF Good
  <2> QED BY <1>3
<1> HIDE DEF F
<1>6. u \in [D -> V] /\ \A x \in D : u[x] = F(mu[x] + 1)[x]
  <2>1. \A x \in D : mu[x] + 1 \in Nat
    OBVIOUS
  <2>2. \A x \in D : F(mu[x] + 1) \in [D -> V]
    BY <1>5, <2>1
  <2> QED BY <2>2
<1> HIDE DEF u
<1>7. ASSUME NEW x \in D PROVE u[x] = H[x][u]
  <2> DEFINE f == F(mu[x] + 1)
  <2>1. mu[x] \in Nat /\ mu[x] + 1 \in Nat /\ mu[x] < mu[x] + 1
    OBVIOUS
  <2>2. f \in [D -> V] /\ Good(f, mu[x] + 1)
    BY <1>5, <2>1
  <2> HIDE DEF f
  <2>3. ASSUME NEW y \in D, mu[y] < mu[x] PROVE f[y] = u[y]
    <3> DEFINE g == F(mu[y] + 1)
    <3>1. mu[y] \in Nat /\ mu[y] + 1 \in Nat /\ mu[y] < mu[y] + 1
      OBVIOUS
    <3>2. g \in [D -> V] /\ Good(g, mu[y] + 1) /\ u[y] = g[y]
      BY <1>5, <1>6, <3>1
    <3> HIDE DEF g
    <3>3. Good(f, mu[y] + 1)
      <4>1. \A z \in D : mu[z] < mu[y] + 1 => mu[z] < mu[x] + 1
        BY <2>1, <2>3, <3>1
      <4> QED BY <2>2, <4>1
    <3> HIDE DEF Good
    <3>4. f[y] = g[y]
      BY <1>4, <2>2, <3>1, <3>2, <3>3
    <3> QED BY <3>2, <3>4
  <2>4. H[x][f] = H[x][u]
    BY <1>6, <2>2, <2>3
  <2>5. f[x] = H[x][f]
    BY <2>1, <2>2
  <2> QED BY <1>6, <2>4, <2>5 DEF f
<1> QED BY <1>6, <1>7 DEF Solves

-----------------------------------------------------------------------------
(* How LogStream writes a number: the loops of convert and of operator<<   *)
(* of a pointer take the remainder and the quotient until the quotient is  *)
(* zero.  mu[x] is the absolute value of x, q[x] the quotient.             *)
LEMMA TenToDef ==
    /\ TenTo[0] = 1
    /\ \A n \in Nat : TenTo[n + 1] = 10 * TenTo[n]
<1> DEFINE H == [n \in Nat |-> [f \in [Nat -> Nat] |-> IF n = 0 THEN 1 ELSE 10 * f[n - 1]]]
           mu == [n \in Nat |-> n]
           u == CHOOSE f : f = [n \in Nat |-> IF n = 0 THEN 1 ELSE 10 * f[n - 1]]
<1>1. PICK f : Solves(Nat, Nat, H, f)
  <2>1. H \in [Nat -> [[Nat -> Nat] -> Nat]]
    <3>1. ASSUME NEW n \in Nat, NEW f \in [Nat -> Nat]
          PROVE  (IF n = 0 THEN 1 ELSE 10 * f[n - 1]) \in Nat
      <4>1. n # 0 => n - 1 \in Nat
        OBVIOUS
      <4>2. n # 0 => f[n - 1] \in Nat
        BY <4>1
      <4> QED BY <4>2
    <3> QED BY <3>1
  <2>2. ASSUME NEW n \in Nat, NEW f \in [Nat -> Nat], NEW g \in [Nat -> Nat],
               \A m \in Nat : mu[m] < mu[n] => f[m] = g[m]
        PROVE  H[n][f] = H[n][g]
    <3>1. n # 0 => n - 1 \in Nat /\ mu[n - 1] < mu[n]
      OBVIOUS
    <3> QED BY <2>2, <3>1
  <2>3. mu \in [Nat -> Nat] /\ Nat # {}
    OBVIOUS
  <2> HIDE DEF H, mu
  <2>4. WellFounded(Nat, Nat, mu, H)
    BY <2>1, <2>2, <2>3 DEF WellFounded
  <2> QED BY <2>3, <2>4, Recursion
<1>2. f = [n \in Nat |-> IF n = 0 THEN 1 ELSE 10 * f[n - 1]]
  <2>1. f \in [Nat -> Nat] /\ \A n \in Nat : f[n] = IF n = 0 THEN 1 ELSE 10 * f[n - 1]
    BY <1>1 DEF Solves
  <2> QED BY <2>1
<1>3. u = [n \in Nat |-> IF n = 0 THEN 1 ELSE 10 * u[n - 1]]
  BY <1>2
<1>4. TenTo = u
  BY DEF TenTo
<1> HIDE DEF u
<1>5. \A n \in Nat : TenTo[n] = IF n = 0 THEN 1 ELSE 10 * TenTo[n - 1]
  BY <1>3, <1>4
<1>6. ASSUME NEW n \in Nat PROVE TenTo[n + 1] = 10 * TenTo[n]
  <2>1. n + 1 \in Nat /\ n + 1 # 0 /\ (n + 1) - 1 = n
    OBVIOUS
  <2> QED BY <1>5, <2>1
<1> QED BY <1>5, <1>6

LEMMA TenToType ==
    ASSUME NEW n \in Nat
    PROVE  TenTo[n] \in Nat
<1> DEFINE E == {k \in Nat : TenTo[k] \in Nat}
<1>1. 0 \in E
  BY TenToDef
<1>2. ASSUME NEW k \in E PROVE k + 1 \in E
  <2>1. k \in Nat /\ k + 1 \in Nat /\ TenTo[k] \in Nat
    OBVIOUS
  <2>2. TenTo[k + 1] = 10 * TenTo[k]
    BY <2>1, TenToDef
  <2> QED BY <2>1, <2>2
<1>3. E \in SUBSET Nat
  OBVIOUS
<1> HIDE DEF E
<1>4. E = Nat
  BY <1>1, <1>2, <1>3, SetInduction
<1> QED BY <1>4 DEF E

LEMMA NextDigit ==
    ASSUME NEW base \in {10, 16}, NEW a \in Nat, NEW d \in Nat
    PROVE  a * base + d \in Nat
<1>1. CASE base = 10
  BY <1>1
<1>2. CASE base = 16
  BY <1>2
<1> QED BY <1>1, <1>2

(* The value of a text, digit by digit.                                    *)
LEMMA ValueUpTo ==
    ASSUME NEW base \in {10, 16}, NEW t \in Seq(Nat)
    PROVE  \E u \in [0 .. Len(t) -> Nat] :
             /\ u[0] = 0
             /\ \A i \in 1 .. Len(t) : u[i] = u[i - 1] * base + t[i]
             /\ Value(t, base) = u[Len(t)]
<1> DEFINE D == 0 .. Len(t)
           H == [i \in D |-> [f \in [D -> Nat] |-> IF i = 0 THEN 0 ELSE f[i - 1] * base + t[i]]]
           mu == [i \in D |-> i]
           u == CHOOSE f : f = [i \in D |-> IF i = 0 THEN 0 ELSE f[i - 1] * base + t[i]]
<1>0. Len(t) \in Nat
  OBVIOUS
<1>1. PICK f : Solves(D, Nat, H, f)
  <2>1. H \in [D -> [[D -> Nat] -> Nat]]
    <3>1. ASSUME NEW i \in D, NEW f \in [D -> Nat]
          PROVE  (IF i = 0 THEN 0 ELSE f[i - 1] * base + t[i]) \in Nat
      <4>1. CASE i = 0
        BY <4>1
      <4>2. CASE i # 0
        <5>1. i - 1 \in D /\ i \in 1 .. Len(t)
          BY <1>0, <4>2
        <5> HIDE DEF D, H, mu, u
        <5>2. f[i - 1] \in Nat /\ t[i] \in Nat
          <6>1. f[i - 1] \in Nat
            BY <5>1
          <6>2. t[i] \in Nat
            BY <5>1
          <6> QED BY <6>1, <6>2
        <5>3. f[i - 1] * base + t[i] \in Nat
          BY <5>2, NextDigit
        <5> QED BY <4>2, <5>3
      <4> QED BY <4>1, <4>2
    <3> QED BY <3>1
  <2>2. ASSUME NEW i \in D, NEW f \in [D -> Nat], NEW g \in [D -> Nat],
               \A j \in D : mu[j] < mu[i] => f[j] = g[j]
        PROVE  H[i][f] = H[i][g]
    <3>1. i # 0 => i - 1 \in D /\ mu[i - 1] < mu[i]
      BY <1>0
    <3> QED BY <2>2, <3>1
  <2>3. mu \in [D -> Nat] /\ Nat # {}
    <3>1. \A i \in D : i \in Nat
      BY <1>0
    <3> HIDE DEF D
    <3> QED BY <3>1
  <2> HIDE DEF H, mu, D
  <2>4. WellFounded(D, Nat, mu, H)
    BY <2>1, <2>2, <2>3 DEF WellFounded
  <2> QED BY <2>3, <2>4, Recursion
<1>2. f \in [D -> Nat] /\ \A i \in D : f[i] = IF i = 0 THEN 0 ELSE f[i - 1] * base + t[i]
  BY <1>1 DEF Solves
<1> DEFINE g(h) == [i \in D |-> IF i = 0 THEN 0 ELSE h[i - 1] * base + t[i]]
<1>3. f = g(f)
  BY <1>2
<1>4. u = g(u)
  BY <1>3
<1>5. Value(t, base) = u[Len(t)]
  BY DEF Value
<1> HIDE DEF u
<1>6. \A i \in D : u[i] = IF i = 0 THEN 0 ELSE u[i - 1] * base + t[i]
  BY <1>4
<1>7. u \in [D -> Nat]
  <2>1. DOMAIN u = D /\ u = [i \in D |-> u[i]]
    BY <1>4
  <2> DEFINE E == {n \in Nat : n \in D => u[n] \in Nat}
  <2>2. 0 \in E
    BY <1>6
  <2>3. ASSUME NEW n \in E PROVE n + 1 \in E
    <3> SUFFICES ASSUME n + 1 \in D PROVE u[n + 1] \in Nat
      OBVIOUS
    <3>1. n \in D /\ n + 1 # 0 /\ n + 1 \in 1 .. Len(t) /\ (n + 1) - 1 = n /\ u[n] \in Nat
      BY <1>0
    <3>2. u[n + 1] = u[n] * base + t[n + 1] /\ t[n + 1] \in Nat
      BY <1>6, <3>1
    <3> QED BY <3>1, <3>2
  <2>4. E \in SUBSET Nat
    OBVIOUS
  <2> HIDE DEF E
  <2>5. E = Nat
    BY <2>2, <2>3, <2>4, SetInduction
  <2>6. \A n \in D : u[n] \in Nat
    BY <1>0, <2>5 DEF E
  <2> QED BY <2>1, <2>6
<1>8. u[0] = 0
  BY <1>0, <1>6
<1>9. ASSUME NEW i \in 1 .. Len(t) PROVE u[i] = u[i - 1] * base + t[i]
  BY <1>0, <1>6
<1> QED BY <1>5, <1>7, <1>8, <1>9

LEMMA ValueOne ==
    ASSUME NEW base \in {10, 16}, NEW d \in Nat
    PROVE  Value(<<d>>, base) = d
<1>1. <<d>> \in Seq(Nat) /\ Len(<<d>>) = 1 /\ <<d>>[1] = d
  OBVIOUS
<1>2. PICK u \in [0 .. 1 -> Nat] :
        u[0] = 0 /\ (\A i \in 1 .. 1 : u[i] = u[i - 1] * base + <<d>>[i])
          /\ Value(<<d>>, base) = u[1]
  <2> DEFINE t == <<d>>
  <2>1. t \in Seq(Nat) /\ Len(t) = 1
    BY <1>1
  <2> HIDE DEF t
  <2>2. PICK u \in [0 .. Len(t) -> Nat] :
          u[0] = 0 /\ (\A i \in 1 .. Len(t) : u[i] = u[i - 1] * base + t[i])
            /\ Value(t, base) = u[Len(t)]
    BY <2>1, ValueUpTo
  <2> QED BY <2>1, <2>2 DEF t
<1>3. 1 \in 1 .. 1 /\ 1 - 1 = 0
  OBVIOUS
<1>4. u[1] = u[0] * base + d
  BY <1>1, <1>2, <1>3
<1> QED BY <1>2, <1>4

LEMMA ValueAppend ==
    ASSUME NEW base \in {10, 16}, NEW t \in Seq(Nat), NEW d \in Nat
    PROVE  Value(Append(t, d), base) = Value(t, base) * base + d
<1> DEFINE s == Append(t, d)
           n == Len(t)
<1>1. /\ s \in Seq(Nat) /\ Len(s) = n + 1 /\ n \in Nat
      /\ s[n + 1] = d /\ \A i \in 1 .. n : s[i] = t[i]
  OBVIOUS
<1>2. PICK u \in [0 .. n -> Nat] :
        /\ u[0] = 0
        /\ \A i \in 1 .. n : u[i] = u[i - 1] * base + t[i]
        /\ Value(t, base) = u[n]
  BY ValueUpTo
<1> HIDE DEF s, n
<1>3. PICK w \in [0 .. Len(s) -> Nat] :
        /\ w[0] = 0
        /\ \A i \in 1 .. Len(s) : w[i] = w[i - 1] * base + s[i]
        /\ Value(s, base) = w[Len(s)]
  BY <1>1, ValueUpTo
<1> DEFINE E == {k \in Nat : k <= n => u[k] = w[k]}
<1>4. 0 \in E
  BY <1>2, <1>3
<1>5. ASSUME NEW k \in E PROVE k + 1 \in E
  <2> SUFFICES ASSUME k + 1 <= n PROVE u[k + 1] = w[k + 1]
    OBVIOUS
  <2>1. k + 1 \in 1 .. n /\ k + 1 \in 1 .. Len(s) /\ (k + 1) - 1 = k /\ u[k] = w[k]
    BY <1>1
  <2>2. u[k + 1] = u[k] * base + t[k + 1] /\ w[k + 1] = w[k] * base + s[k + 1]
    BY <1>2, <1>3, <2>1
  <2> QED BY <1>1, <2>1, <2>2
<1>6. E \in SUBSET Nat
  OBVIOUS
<1> HIDE DEF E
<1>7. E = Nat
  BY <1>4, <1>5, <1>6, SetInduction
<1>8. u[n] = w[n]
  <2>1. n \in E /\ n <= n
    BY <1>1, <1>7
  <2> QED BY <2>1 DEF E
<1>9. n + 1 \in 1 .. Len(s) /\ (n + 1) - 1 = n
  BY <1>1
<1>10. w[n + 1] = w[n] * base + s[n + 1]
  BY <1>3, <1>9
<1> QED BY <1>1, <1>2, <1>3, <1>8, <1>10 DEF s

(* Reversing a sequence.                                                   *)
LEMMA ReverseType ==
    ASSUME NEW S, NEW s \in Seq(S)
    PROVE  /\ Reverse(s) \in Seq(S) /\ Len(Reverse(s)) = Len(s)
           /\ \A i \in 1 .. Len(s) : Reverse(s)[i] = s[Len(s) + 1 - i]
<1>1. Len(s) \in Nat
  OBVIOUS
<1>2. ASSUME NEW i \in 1 .. Len(s) PROVE s[Len(s) + 1 - i] \in S
  <2>1. Len(s) + 1 - i \in 1 .. Len(s)
    BY <1>1
  <2> QED BY <2>1
<1> QED BY <1>1, <1>2 DEF Reverse

LEMMA ReverseCons ==
    ASSUME NEW S, NEW s \in Seq(S), NEW d \in S
    PROVE  Reverse(<<d>> \o s) = Append(Reverse(s), d)
<1> DEFINE l == <<d>> \o s
           r == Append(Reverse(s), d)
           n == Len(s)
<1>1. n \in Nat /\ l \in Seq(S) /\ Len(l) = n + 1 /\ l[1] = d
  OBVIOUS
<1>2. \A i \in 1 .. n : l[i + 1] = s[i]
  <2>1. ASSUME NEW i \in 1 .. n PROVE l[i + 1] = s[i]
    <3>1. i + 1 \in 1 .. n + 1 /\ i + 1 > 1 /\ (i + 1) - 1 = i
      BY <1>1
    <3> QED BY <3>1
  <2> QED BY <2>1
<1>3. r \in Seq(S) /\ Len(r) = n + 1 /\ r[n + 1] = d
        /\ \A i \in 1 .. n : r[i] = s[n + 1 - i]
  BY <1>1, ReverseType
<1> HIDE DEF l, r, n
<1>4. Reverse(l) \in Seq(S) /\ Len(Reverse(l)) = n + 1
        /\ \A i \in 1 .. n + 1 : Reverse(l)[i] = l[n + 2 - i]
  <2>1. \A i \in 1 .. n + 1 : (n + 1) + 1 - i = n + 2 - i
    BY <1>1
  <2> QED BY <1>1, <2>1, ReverseType
<1>5. ASSUME NEW i \in 1 .. n + 1 PROVE Reverse(l)[i] = r[i]
  <2>1. CASE i = n + 1
    <3>1. n + 2 - i = 1
      BY <1>1, <2>1
    <3> QED BY <1>1, <1>3, <1>4, <2>1, <3>1
  <2>2. CASE i # n + 1
    <3>1. i \in 1 .. n /\ n + 1 - i \in 1 .. n /\ (n + 1 - i) + 1 = n + 2 - i
      BY <1>1, <2>2
    <3> QED BY <1>2, <1>3, <1>4, <3>1
  <2> QED BY <2>1, <2>2
<1>6. Reverse(l) = r
  BY <1>3, <1>4, <1>5, SeqEqual
<1> QED BY <1>6 DEF l, r

LEMMA ReverseSnoc ==
    ASSUME NEW S, NEW s \in Seq(S), NEW c \in S
    PROVE  /\ Reverse(s \o <<c>>)[1] = c
           /\ Tail(Reverse(s \o <<c>>)) = Reverse(s)
           /\ Len(Reverse(s \o <<c>>)) = Len(s) + 1
<1> DEFINE l == s \o <<c>>
           r == Reverse(l)
           n == Len(s)
<1>1. n \in Nat /\ l \in Seq(S) /\ Len(l) = n + 1 /\ l[n + 1] = c /\ \A i \in 1 .. n : l[i] = s[i]
  OBVIOUS
<1> HIDE DEF l
<1>2. r \in Seq(S) /\ Len(r) = n + 1 /\ \A i \in 1 .. n + 1 : r[i] = l[n + 2 - i]
  <2>1. \A i \in 1 .. n + 1 : (n + 1) + 1 - i = n + 2 - i
    BY <1>1
  <2> QED BY <1>1, <2>1, ReverseType
<1> HIDE DEF r
<1>3. r[1] = c
  <2>1. 1 \in 1 .. n + 1 /\ n + 2 - 1 = n + 1
    BY <1>1
  <2> QED BY <1>1, <1>2, <2>1
<1>4. r # <<>> /\ Tail(r) \in Seq(S) /\ Len(Tail(r)) = n /\ \A i \in 1 .. n : Tail(r)[i] = r[i + 1]
  BY <1>1, <1>2
<1>5. Reverse(s) \in Seq(S) /\ Len(Reverse(s)) = n /\ \A i \in 1 .. n : Reverse(s)[i] = s[n + 1 - i]
  BY ReverseType
<1> HIDE DEF n
<1>6. ASSUME NEW i \in 1 .. n PROVE Tail(r)[i] = Reverse(s)[i]
  <2>1. i + 1 \in 1 .. n + 1 /\ n + 2 - (i + 1) = n + 1 - i /\ n + 1 - i \in 1 .. n
    BY <1>1
  <2>2. Tail(r)[i] = l[n + 2 - (i + 1)]
    BY <1>2, <1>4, <2>1
  <2> QED BY <1>1, <1>5, <2>1, <2>2
<1>7. Tail(r) = Reverse(s)
  BY <1>4, <1>5, <1>6, SeqEqual
<1> QED BY <1>2, <1>3, <1>7 DEF l, r, n

(* s holds the digits of n, the last one first: n, without leading zeros.  *)
Spelled(s, n, base) ==
    /\ s \in Seq(0 .. base - 1) /\ Len(s) > 0
    /\ Value(Reverse(s), base) = n
    /\ n # 0 => s[Len(s)] # 0
    /\ n = 0 => Len(s) = 1

LEMMA SpelledOne ==
    ASSUME NEW base \in {10, 16}, NEW d \in 0 .. base - 1
    PROVE  Spelled(<<d>>, d, base)
<1>1. <<d>> \in Seq(0 .. base - 1) /\ Len(<<d>>) = 1 /\ <<d>>[1] = d /\ d \in Nat
  OBVIOUS
<1>2. Reverse(<<d>>) = <<d>>
  <2>1. Reverse(<<d>>) \in Seq(0 .. base - 1) /\ Len(Reverse(<<d>>)) = 1
          /\ Reverse(<<d>>)[1] = d
    <3> DEFINE s == <<d>>
    <3>1. s \in Seq(0 .. base - 1) /\ Len(s) = 1 /\ s[1] = d
      BY <1>1
    <3> HIDE DEF s
    <3>2. 1 \in 1 .. Len(s) /\ Len(s) + 1 - 1 = 1
      BY <3>1
    <3>3. Reverse(s) \in Seq(0 .. base - 1) /\ Len(Reverse(s)) = 1 /\ Reverse(s)[1] = d
      BY <3>1, <3>2, ReverseType
    <3> QED BY <3>3 DEF s
  <2> QED BY <2>1
<1>3. Value(<<d>>, base) = d
  BY <1>1, ValueOne
<1> QED BY <1>1, <1>2, <1>3 DEF Spelled

LEMMA SpelledMore ==
    ASSUME NEW base \in {10, 16}, NEW d \in 0 .. base - 1, NEW q \in Nat, q # 0,
           NEW s, Spelled(s, q, base)
    PROVE  Spelled(<<d>> \o s, q * base + d, base)
<1> DEFINE l == <<d>> \o s
           n == q * base + d
<1>1. s \in Seq(0 .. base - 1) /\ Len(s) \in Nat /\ Len(s) > 0 /\ s[Len(s)] # 0
        /\ Value(Reverse(s), base) = q
  BY DEF Spelled
<1>2. d \in Nat /\ n \in Nat /\ n # 0
  OBVIOUS
<1>3. l \in Seq(0 .. base - 1) /\ Len(l) = Len(s) + 1 /\ l[Len(s) + 1] = s[Len(s)]
  BY <1>1
<1>4. Reverse(l) = Append(Reverse(s), d)
  BY <1>1, ReverseCons
<1>5. Reverse(s) \in Seq(Nat)
  <2>1. Reverse(s) \in Seq(0 .. base - 1)
    BY <1>1, ReverseType
  <2>2. \A i \in 0 .. base - 1 : i \in Nat
    OBVIOUS
  <2> QED BY <2>1, <2>2
<1>6. Value(Reverse(l), base) = n
  BY <1>1, <1>2, <1>4, <1>5, ValueAppend
<1> HIDE DEF l, n
<1>7. Len(l) > 0 /\ l[Len(l)] # 0
  BY <1>1, <1>3
<1>8. Spelled(l, n, base)
  BY <1>2, <1>3, <1>6, <1>7 DEF Spelled
<1> QED BY <1>8 DEF l, n

(* A loop over D that takes a quotient q of the measure mu in each round.  *)
Dividing(D, mu, q, base) ==
    /\ mu \in [D -> Nat] /\ q \in [D -> D]
    /\ \A x \in D : mu[q[x]] = mu[x] \div base /\ (q[x] = 0 <=> mu[q[x]] = 0)

Round(D, mu, q, base, f) ==
    [x \in D |-> IF q[x] = 0 THEN <<mu[x] % base>> ELSE <<mu[x] % base>> \o f[q[x]]]

LEMMA Shrinks ==
    ASSUME NEW base \in {10, 16}, NEW n \in Nat
    PROVE  /\ n \div base \in Nat /\ n % base \in 0 .. base - 1
           /\ n = (n \div base) * base + (n % base)
           /\ n \div base # 0 => n \div base < n
<1>1. CASE base = 10
  BY <1>1
<1>2. CASE base = 16
  BY <1>2
<1> QED BY <1>1, <1>2

LEMMA RoundsExist ==
    ASSUME NEW base \in {10, 16}, NEW D, NEW mu, NEW q, Dividing(D, mu, q, base)
    PROVE  \E f : f = Round(D, mu, q, base, f)
<1> DEFINE V == Seq(Nat)
           R(x, f) == IF q[x] = 0 THEN <<mu[x] % base>> ELSE <<mu[x] % base>> \o f[q[x]]
           H == [x \in D |-> [f \in [D -> V] |-> R(x, f)]]
<1>1. V # {} /\ mu \in [D -> Nat]
  <2>1. <<>> \in V
    OBVIOUS
  <2>2. mu \in [D -> Nat]
    BY DEF Dividing
  <2> QED BY <2>1, <2>2
<1>2. ASSUME NEW x \in D
      PROVE  q[x] \in D /\ mu[x] % base \in Nat /\ (q[x] # 0 => mu[q[x]] < mu[x])
  <2>1. q[x] \in D /\ mu[x] \in Nat /\ mu[q[x]] = mu[x] \div base
          /\ (q[x] = 0 <=> mu[q[x]] = 0)
    BY DEF Dividing
  <2>2. mu[x] % base \in 0 .. base - 1 /\ (mu[x] \div base # 0 => mu[x] \div base < mu[x])
    BY <2>1, Shrinks
  <2> QED BY <2>1, <2>2
<1>3. ASSUME NEW x \in D, NEW f \in [D -> V] PROVE R(x, f) \in V
  <2>1. f[q[x]] \in V /\ <<mu[x] % base>> \in V
    BY <1>2
  <2> HIDE DEF V
  <2>2. <<mu[x] % base>> \o f[q[x]] \in V
    BY <2>1 DEF V
  <2> QED BY <2>1, <2>2
<1>4. ASSUME NEW x \in D, NEW f \in [D -> V], NEW g \in [D -> V],
             \A y \in D : mu[y] < mu[x] => f[y] = g[y]
      PROVE  R(x, f) = R(x, g)
  BY <1>2, <1>4
<1> HIDE DEF V, R
<1>5. H \in [D -> [[D -> V] -> V]]
  BY <1>3
<1>6. \A x \in D : \A f, g \in [D -> V] :
        (\A y \in D : mu[y] < mu[x] => f[y] = g[y]) => H[x][f] = H[x][g]
  BY <1>4
<1>7. \A x \in D : \A f \in [D -> V] : H[x][f] = R(x, f)
  OBVIOUS
<1> HIDE DEF H
<1>8. WellFounded(D, V, mu, H)
  BY <1>1, <1>5, <1>6 DEF WellFounded
<1>9. PICK f : Solves(D, V, H, f)
  BY <1>1, <1>8, Recursion
<1>10. f \in [D -> V] /\ \A x \in D : f[x] = R(x, f)
  BY <1>7, <1>9 DEF Solves
<1>11. f = [x \in D |-> R(x, f)]
  BY <1>10
<1>12. f = Round(D, mu, q, base, f)
  BY <1>11 DEF R, Round
<1> QED BY <1>12

LEMMA RoundsSpell ==
    ASSUME NEW base \in {10, 16}, NEW D, NEW mu, NEW q, Dividing(D, mu, q, base),
           NEW f, f = Round(D, mu, q, base, f), NEW x \in D
    PROVE  /\ Spelled(f[x], mu[x], base)
           /\ \A m \in Nat \ {0} : mu[x] < TenTo[m] => Len(f[x]) <= m
<1> DEFINE P(y) == /\ Spelled(f[y], mu[y], base)
                   /\ \A m \in Nat \ {0} : mu[y] < TenTo[m] => Len(f[y]) <= m
           E == {n \in Nat : \A y \in D : mu[y] < n => P(y)}
<1>1. \A y \in D : mu[y] \in Nat
  BY DEF Dividing
<1>2. 0 \in E
  <2>1. \A y \in D : ~(mu[y] < 0)
    BY <1>1
  <2> HIDE DEF P
  <2> QED BY <2>1
<1>3. ASSUME NEW n \in E PROVE n + 1 \in E
  <2>1. n \in Nat /\ n + 1 \in Nat /\ \A y \in D : mu[y] < n => P(y)
    <3> HIDE DEF P
    <3> QED OBVIOUS
  <2>2. ASSUME NEW y \in D, mu[y] < n + 1 PROVE P(y)
    <3> DEFINE k == mu[y] \div base
               d == mu[y] % base
    <3>1. q[y] \in D /\ mu[y] \in Nat /\ mu[q[y]] = k /\ (q[y] = 0 <=> k = 0)
      BY DEF Dividing
    <3>2. k \in Nat /\ d \in 0 .. base - 1 /\ mu[y] = k * base + d /\ (k # 0 => k < mu[y])
      BY <3>1, Shrinks
    <3>3. f[y] = IF k = 0 THEN <<d>> ELSE <<d>> \o f[q[y]]
      <4>1. f[y] = Round(D, mu, q, base, f)[y]
        OBVIOUS
      <4> QED BY <3>1, <4>1 DEF Round
    <3> HIDE DEF k, d
    <3>4. CASE k = 0
      <4>1. f[y] = <<d>> /\ mu[y] = d
        BY <3>2, <3>3, <3>4
      <4>2. Len(f[y]) = 1
        BY <4>1
      <4>3. Spelled(f[y], mu[y], base)
        BY <3>2, <4>1, SpelledOne
      <4>4. \A m \in Nat \ {0} : 1 <= m
        OBVIOUS
      <4> QED BY <4>2, <4>3, <4>4
    <3>5. CASE k # 0
      <4>1. mu[q[y]] < n
        BY <2>1, <2>2, <3>1, <3>2, <3>5
      <4>2. P(q[y])
        <5> HIDE DEF P
        <5> QED BY <2>1, <3>1, <4>1
      <4>3. Spelled(f[q[y]], k, base) /\ f[y] = <<d>> \o f[q[y]]
        BY <3>1, <3>3, <3>5, <4>2
      <4>4. Spelled(f[y], mu[y], base)
        BY <3>2, <3>5, <4>3, SpelledMore
      <4>5. f[q[y]] \in Seq(0 .. base - 1) /\ Len(f[q[y]]) \in Nat
        BY <4>3 DEF Spelled
      <4>6. Len(f[y]) = 1 + Len(f[q[y]])
        BY <4>3, <4>5
      <4>7. ASSUME NEW m \in Nat \ {0}, mu[y] < TenTo[m] PROVE Len(f[y]) <= m
        <5>1. m - 1 \in Nat /\ (m - 1) + 1 = m
          OBVIOUS
        <5>2. TenTo[m] = 10 * TenTo[m - 1] /\ TenTo[m - 1] \in Nat
          BY <5>1, TenToDef, TenToType
        <5>3. k * base >= k * 10 /\ k * base \in Nat
          BY <3>2
        <5>4. k < TenTo[m - 1]
          BY <3>2, <4>7, <5>2, <5>3
        <5>5. m - 1 # 0
          <6> SUFFICES ASSUME m - 1 = 0 PROVE FALSE
            OBVIOUS
          <6>1. TenTo[m - 1] = 1
            BY TenToDef
          <6> QED BY <3>2, <3>5, <5>4, <6>1
        <5>6. m - 1 \in Nat \ {0} /\ mu[q[y]] < TenTo[m - 1]
          BY <3>1, <5>1, <5>4, <5>5
        <5>7. Len(f[q[y]]) <= m - 1
          BY <4>2, <5>6
        <5> QED BY <4>5, <4>6, <5>7
      <4> QED BY <4>4, <4>7
    <3> QED BY <3>4, <3>5
  <2> HIDE DEF P
  <2> QED BY <2>1, <2>2
<1>4. E \in SUBSET Nat
  OBVIOUS
<1> HIDE DEF E, P
<1>5. E = Nat
  BY <1>2, <1>3, <1>4, SetInduction
<1>6. mu[x] + 1 \in E /\ mu[x] < mu[x] + 1
  BY <1>1, <1>5
<1>7. P(x)
  BY <1>6 DEF E
<1> QED BY <1>7 DEF P

Abs(i) == IF i < 0 THEN -i ELSE i

(* One round of convert: the digit of a negative remainder is that of its  *)
(* absolute value.                                                         *)
LEMMA DecimalRound ==
    ASSUME NEW i \in Int
    PROVE  /\ Quotient(i, 10) \in Int
           /\ Abs(i) \in Nat
           /\ Abs(Quotient(i, 10)) = Abs(i) \div 10
           /\ ZERO(Remainder(i, 10)) = Abs(i) % 10
<1> DEFINE a == Abs(i)
           k == a \div 10
           r == a % 10
<1>1. a \in Nat /\ k \in Nat /\ r \in 0 .. 9 /\ a = k * 10 + r
  BY DEF Abs
<1> HIDE DEF k, r
<1>2. Quotient(i, 10) = IF i < 0 THEN -k ELSE k
  BY DEF Quotient, k, Abs
<1>3. Abs(Quotient(i, 10)) = k
  BY <1>1, <1>2 DEF Abs
<1>4. Remainder(i, 10) = IF i < 0 THEN -r ELSE r
  BY <1>1, <1>2 DEF Remainder, Abs
<1>5. \A d \in 0 .. 9 : ZERO(d) = d /\ ZERO(-d) = d
  BY DEF ZERO, DIGITS
<1>6. ZERO(Remainder(i, 10)) = r
  BY <1>1, <1>4, <1>5
<1> QED BY <1>1, <1>2, <1>3, <1>6 DEF k, r

LEMMA DigitsSpell ==
    ASSUME NEW i \in Int
    PROVE  /\ Spelled(Digits[i], Abs(i), 10)
           /\ \A m \in Nat \ {0} : Abs(i) < TenTo[m] => Len(Digits[i]) <= m
<1> DEFINE mu == [j \in Int |-> Abs(j)]
           q == [j \in Int |-> Quotient(j, 10)]
           step(f) == [j \in Int |->
                         IF Quotient(j, 10) = 0 THEN <<ZERO(Remainder(j, 10))>>
                         ELSE <<ZERO(Remainder(j, 10))>> \o f[Quotient(j, 10)]]
<1>1. Dividing(Int, mu, q, 10)
  <2>1. mu \in [Int -> Nat] /\ q \in [Int -> Int]
    BY DecimalRound
  <2>2. ASSUME NEW j \in Int
        PROVE  mu[q[j]] = mu[j] \div 10 /\ (q[j] = 0 <=> mu[q[j]] = 0)
    <3>1. \A k \in Int : k = 0 <=> Abs(k) = 0
      BY DEF Abs
    <3> QED BY <3>1, DecimalRound
  <2> HIDE DEF mu, q
  <2> QED BY <2>1, <2>2 DEF Dividing
<1>2. \A f : step(f) = Round(Int, mu, q, 10, f)
  BY DecimalRound DEF Round
<1>3. \E f : f = Round(Int, mu, q, 10, f)
  <2> HIDE DEF mu, q
  <2> QED BY <1>1, RoundsExist
<1> HIDE DEF mu, q
<1>4. \E f : f = step(f)
  <2> HIDE DEF step
  <2> QED BY <1>2, <1>3
<1>5. Digits = CHOOSE f : f = step(f)
  BY DEF Digits
<1> HIDE DEF step
<1>6. Digits = step(Digits)
  BY <1>4, <1>5
<1>7. Digits = Round(Int, mu, q, 10, Digits)
  BY <1>2, <1>6
<1>8. Spelled(Digits[i], mu[i], 10)
        /\ \A m \in Nat \ {0} : mu[i] < TenTo[m] => Len(Digits[i]) <= m
  BY <1>1, <1>7, RoundsSpell
<1> QED BY <1>8 DEF mu

LEMMA HexDigitsSpell ==
    ASSUME NEW i \in Nat
    PROVE  /\ Spelled(HexDigits[i], i, 16)
           /\ \A m \in Nat \ {0} : i < TenTo[m] => Len(HexDigits[i]) <= m
<1> DEFINE mu == [j \in Nat |-> j]
           q == [j \in Nat |-> j \div 16]
           step(f) == [j \in Nat |->
                         IF j \div 16 = 0 THEN <<j % 16>> ELSE <<j % 16>> \o f[j \div 16]]
<1>1. Dividing(Nat, mu, q, 16)
  BY DEF Dividing
<1>2. \A f : step(f) = Round(Nat, mu, q, 16, f)
  BY DEF Round
<1>3. \E f : f = Round(Nat, mu, q, 16, f)
  <2> HIDE DEF mu, q
  <2> QED BY <1>1, RoundsExist
<1> HIDE DEF mu, q
<1>4. \E f : f = step(f)
  <2> HIDE DEF step
  <2> QED BY <1>2, <1>3
<1>5. HexDigits = CHOOSE f : f = step(f)
  BY DEF HexDigits
<1> HIDE DEF step
<1>6. HexDigits = step(HexDigits)
  BY <1>4, <1>5
<1>7. HexDigits = Round(Nat, mu, q, 16, HexDigits)
  BY <1>2, <1>6
<1>8. Spelled(HexDigits[i], mu[i], 16)
        /\ \A m \in Nat \ {0} : mu[i] < TenTo[m] => Len(HexDigits[i]) <= m
  BY <1>1, <1>7, RoundsSpell
<1> QED BY <1>8 DEF mu

(* What was spelled is a numeral once it is reversed.                      *)
LEMMA SpelledNumeral ==
    ASSUME NEW base \in {10, 16}, NEW n \in Nat, NEW s, Spelled(s, n, base)
    PROVE  IsNumeral(Reverse(s), base) /\ Value(Reverse(s), base) = n
             /\ Len(Reverse(s)) = Len(s)
<1>1. s \in Seq(0 .. base - 1) /\ Len(s) \in Nat /\ Len(s) > 0
        /\ Value(Reverse(s), base) = n /\ (n # 0 => s[Len(s)] # 0) /\ (n = 0 => Len(s) = 1)
  BY DEF Spelled
<1> DEFINE r == Reverse(s)
<1>2. r \in Seq(0 .. base - 1) /\ Len(r) = Len(s)
        /\ \A i \in 1 .. Len(s) : r[i] = s[Len(s) + 1 - i]
  BY <1>1, ReverseType
<1> HIDE DEF r
<1>3. 1 \in 1 .. Len(s) /\ Len(s) + 1 - 1 = Len(s)
  BY <1>1
<1>4. r[1] = s[Len(s)]
  BY <1>2, <1>3
<1>5. Len(r) > 1 => r[1] # 0
  <2>1. Len(s) > 1 => n # 0
    <3>1. \A m \in Nat : m > 1 => m # 1
      OBVIOUS
    <3> QED BY <1>1, <3>1, Zenon
  <2>2. n # 0 => r[1] # 0
    BY <1>1, <1>4
  <2> QED BY <1>2, <2>1, <2>2
<1>6. r # <<>> /\ \A i \in 1 .. Len(r) : r[i] \in 0 .. base - 1
  BY <1>1, <1>2
<1>7. IsNumeral(r, base)
  BY <1>5, <1>6 DEF IsNumeral
<1> QED BY <1>1, <1>2, <1>7 DEF r

(* SubSeq from the third on drops the two characters that precede s.       *)
LEMMA AfterTwo ==
    ASSUME NEW S, NEW s \in Seq(S), NEW a \in S, NEW b \in S
    PROVE  /\ Len(<<a, b>> \o s) = Len(s) + 2
           /\ SubSeq(<<a, b>> \o s, 3, Len(<<a, b>> \o s)) = s
<1> DEFINE l == <<a, b>> \o s
           r == SubSeq(l, 3, Len(l))
<1>1. l \in Seq(S) /\ Len(s) \in Nat /\ Len(l) = Len(s) + 2
  OBVIOUS
<1>2. ASSUME NEW i \in 1 .. Len(s) PROVE l[i + 2] = s[i]
  <2>1. i + 2 \in 1 .. Len(s) + 2 /\ i + 2 > 2 /\ (i + 2) - 2 = i
    BY <1>1
  <2> QED BY <2>1
<1> HIDE DEF l
<1>3. r = [i \in 1 .. Len(s) |-> l[i + 2]]
  <2>1. r = [i \in 1 .. (Len(l) - 3 + 1) |-> l[3 + i - 1]]
    BY <1>1
  <2>2. Len(l) - 3 + 1 = Len(s) /\ \A i \in 1 .. Len(s) : 3 + i - 1 = i + 2
    BY <1>1
  <2> QED BY <2>1, <2>2
<1>4. r = [i \in 1 .. Len(s) |-> s[i]]
  BY <1>2, <1>3
<1>5. s = [i \in 1 .. Len(s) |-> s[i]]
  OBVIOUS
<1> QED BY <1>1, <1>4, <1>5 DEF l

(* What LogStream writes for a number is exact for every width of the      *)
(* integers, as long as the local buffer has room for their digits: in     *)
(* particular for the smallest integer, which convert never negates.       *)
THEOREM NumbersRead == NumbersAreExact
<1> DEFINE K == K_MAXNUMERIC_SIZE
<1>1. /\ Ints \in SUBSET Int /\ Unsigneds \in SUBSET Nat
      /\ K \in Nat /\ K - 3 \in Nat \ {0}
      /\ \A v \in Ints \cup Unsigneds : Abs(v) < TenTo[K - 3]
  BY NumericSizeAssumption DEF Ints, Unsigneds, Abs
<1> HIDE DEF K
<1>2. ASSUME NEW v \in Ints \cup Unsigneds
      PROVE  LET text == convert(v)
                 digits == IF v < 0 THEN Tail(text) ELSE text
             IN /\ IsNumeral(digits, 10)
                /\ Value(digits, 10) = (IF v < 0 THEN -v ELSE v)
                /\ v < 0 => text[1] = Minus
                /\ Len(text) < K
  <2> DEFINE s == Digits[v]
             text == convert(v)
             digits == IF v < 0 THEN Tail(text) ELSE text
  <2>1. v \in Int /\ Abs(v) \in Nat /\ Abs(v) < TenTo[K - 3]
    BY <1>1 DEF Abs
  <2>2. Spelled(s, Abs(v), 10) /\ Len(s) <= K - 3
    BY <1>1, <2>1, DigitsSpell
  <2> HIDE DEF s
  <2>3. IsNumeral(Reverse(s), 10) /\ Value(Reverse(s), 10) = Abs(v) /\ Len(Reverse(s)) = Len(s)
    BY <2>1, <2>2, SpelledNumeral
  <2>4. s \in Seq(0 .. 16) /\ Len(s) \in Nat
    <3>1. s \in Seq(0 .. 10 - 1)
      BY <2>2 DEF Spelled
    <3>2. \A d \in 0 .. 10 - 1 : d \in 0 .. 16
      OBVIOUS
    <3> QED BY <3>1, <3>2
  <2>5. /\ digits = Reverse(s)
        /\ v < 0 => text[1] = Minus
        /\ Len(text) <= Len(s) + 1
    <3>1. CASE v < 0
      <4>1. text = Reverse(s \o <<Minus>>)
        BY <3>1 DEF convert, s
      <4>2. Minus \in 0 .. 16
        BY DEF Minus
      <4>3. Reverse(s \o <<Minus>>)[1] = Minus /\ Tail(Reverse(s \o <<Minus>>)) = Reverse(s)
              /\ Len(Reverse(s \o <<Minus>>)) = Len(s) + 1
        BY <2>4, <4>2, ReverseSnoc
      <4> HIDE DEF text
      <4> QED BY <2>4, <3>1, <4>1, <4>3
    <3>2. CASE ~(v < 0)
      <4>1. text = Reverse(s \o <<>>)
        BY <3>2 DEF convert, s
      <4>2. s \o <<>> = s
        BY <2>4
      <4> HIDE DEF text
      <4>3. text = Reverse(s)
        BY <4>1, <4>2
      <4> QED BY <2>3, <2>4, <3>2, <4>3
    <3> QED BY <3>1, <3>2
  <2> HIDE DEF digits, text
  <2>6. Abs(v) = IF v < 0 THEN -v ELSE v
    BY DEF Abs
  <2>7. Len(text) < K
    <3>1. Len(text) \in Nat
      <4>1. text \in Seq(0 .. 16)
        <5>1. \A l \in Seq(0 .. 16) : Reverse(l) \in Seq(0 .. 16)
          BY ReverseType
        <5>2. s \o (IF v < 0 THEN <<Minus>> ELSE <<>>) \in Seq(0 .. 16)
          <6>1. <<Minus>> \in Seq(0 .. 16) /\ <<>> \in Seq(0 .. 16)
            BY DEF Minus
          <6>2. (IF v < 0 THEN <<Minus>> ELSE <<>>) \in Seq(0 .. 16)
            BY <6>1
          <6>3. \A l, m \in Seq(0 .. 16) : l \o m \in Seq(0 .. 16)
            OBVIOUS
          <6> QED BY <2>4, <6>2, <6>3, Zenon
        <5> QED BY <5>1, <5>2 DEF text, convert, s
      <4> QED BY <4>1
    <3> QED BY <1>1, <2>2, <2>4, <2>5, <3>1
  <2>8. /\ IsNumeral(digits, 10)
        /\ Value(digits, 10) = (IF v < 0 THEN -v ELSE v)
        /\ v < 0 => text[1] = Minus
        /\ Len(text) < K
    BY <2>3, <2>5, <2>6, <2>7
  <2> QED BY <2>8 DEF digits, text
<1>3. ASSUME NEW v \in Unsigneds
      PROVE  LET text == FormatPointer(v)
                 digits == SubSeq(text, 3, Len(text))
             IN IsNumeral(digits, 16) /\ Value(digits, 16) = v /\ Len(text) < K
  <2> DEFINE s == HexDigits[v]
             text == FormatPointer(v)
             digits == SubSeq(text, 3, Len(text))
  <2>1. v \in Nat /\ v < TenTo[K - 3]
    BY <1>1 DEF Abs
  <2>2. Spelled(s, v, 16) /\ Len(s) <= K - 3
    BY <1>1, <2>1, HexDigitsSpell
  <2> HIDE DEF s
  <2>3. IsNumeral(Reverse(s), 16) /\ Value(Reverse(s), 16) = v /\ Len(Reverse(s)) = Len(s)
    BY <2>1, <2>2, SpelledNumeral
  <2>4. Reverse(s) \in Seq(0 .. 17) /\ Len(s) \in Nat
    <3>1. s \in Seq(0 .. 16 - 1)
      BY <2>2 DEF Spelled
    <3>2. \A d \in 0 .. 16 - 1 : d \in 0 .. 17
      OBVIOUS
    <3>3. s \in Seq(0 .. 17)
      BY <3>1, <3>2
    <3> QED BY <3>3, ReverseType
  <2>5. text = <<0, X>> \o Reverse(s)
    BY DEF FormatPointer, s
  <2>6. Len(text) = Len(s) + 2 /\ digits = Reverse(s)
    <3>1. 0 \in 0 .. 17 /\ X \in 0 .. 17
      BY DEF X
    <3> DEFINE r == Reverse(s)
    <3>2. r \in Seq(0 .. 17) /\ text = <<0, X>> \o r /\ Len(r) = Len(s)
      BY <2>3, <2>4, <2>5
    <3> HIDE DEF r
    <3>3. Len(<<0, X>> \o r) = Len(r) + 2 /\ SubSeq(<<0, X>> \o r, 3, Len(<<0, X>> \o r)) = r
      BY <3>1, <3>2, AfterTwo
    <3>4. digits = SubSeq(text, 3, Len(text))
      OBVIOUS
    <3> HIDE DEF text, digits
    <3>5. digits = r /\ Len(text) = Len(s) + 2
      BY <3>2, <3>3, <3>4
    <3> QED BY <3>5 DEF r
  <2> HIDE DEF digits, text
  <2>7. Len(text) < K
    BY <1>1, <2>2, <2>4, <2>6
  <2>8. IsNumeral(digits, 16) /\ Value(digits, 16) = v /\ Len(text) < K
    BY <2>3, <2>6, <2>7
  <2> QED BY <2>8 DEF digits, text
<1> QED BY <1>2, <1>3 DEF NumbersAreExact, K

=============================================================================
