--------------------------- MODULE ByteArrayProofs ---------------------------
(***************************************************************************)
(* Proofs about ByteArray for every block size, every set of byte values   *)
(* and operations of any length.  Consistent is inductive together with    *)
(* TypeOK: all the operations compute the block of the new position, each  *)
(* in its own way, and the lemmas below say that these ways agree.  With   *)
(* the copies starting at position_, the blocks one after the other are    *)
(* the flat array.  The loops are followed round by round, by induction    *)
(* with a set in place of a predicate.                                     *)
(*                                                                         *)
(* The second half is about the encodings: recursive functions exist,      *)
(* powers of two and division, then a varint, a number of a fixed width, a *)
(* string, a list and a struct, each of which is read back where it was    *)
(* written and read as something of its type from any other bytes, and at  *)
(* last the stream of Serializer.                                          *)
(***************************************************************************)
EXTENDS ByteArrayLoop, Codec, SequenceTheorems, WellFoundedInduction, TLAPS

IndInv == TypeOK /\ Consistent

(* A capacity: a positive number of whole blocks.                          *)
Whole(cap) == cap = (cap \div baseSize_) * baseSize_ /\ cap \div baseSize_ > 0

-----------------------------------------------------------------------------
(* Block numbers and offsets.                                              *)

LEMMA DivMod ==
    ASSUME NEW p \in Nat
    PROVE  /\ p \div baseSize_ \in Nat
           /\ p % baseSize_ \in Nat
           /\ (p \div baseSize_) * baseSize_ + (p % baseSize_) = p
<1>1. baseSize_ \in Nat \ {0}
  BY baseSizeAssumption
<1> QED BY <1>1, SMT

LEMMA BlockBelow ==
    ASSUME NEW p \in Nat, NEW cap \in Nat, Whole(cap), p <= cap
    PROVE  p \div baseSize_ < cap \div baseSize_ <=> p < cap
<1>1. baseSize_ \in Nat \ {0}
  BY baseSizeAssumption
<1> QED BY <1>1, SMT DEF Whole

(* A position below the capacity has a block, and the copy begins there.   *)
LEMMA StartAtPosition ==
    ASSUME NEW p \in Nat, NEW cap \in Nat, Whole(cap), p < cap
    PROVE  /\ Block(p \div baseSize_, cap) = p \div baseSize_
           /\ Block(p \div baseSize_, cap) # Null
           /\ Start(Block(p \div baseSize_, cap), p) = p
<1>1. p \div baseSize_ < cap \div baseSize_
  BY BlockBelow
<1>2. Block(p \div baseSize_, cap) = p \div baseSize_
  BY <1>1 DEF Block
<1>3. p \div baseSize_ \in Nat
  BY DivMod
<1>4. Start(p \div baseSize_, p) = p
  BY DivMod DEF Start
<1> QED BY <1>2, <1>3, <1>4 DEF Null

(* At the capacity there is none.                                          *)
LEMMA NullAtEnd ==
    ASSUME NEW cap \in Nat, Whole(cap)
    PROVE  Block(cap \div baseSize_, cap) = Null
BY DivMod DEF Block

LEMMA BlockType ==
    ASSUME NEW p \in Nat, NEW cap \in Nat
    PROVE  Block(p \div baseSize_, cap) \in Nat \cup {Null}
BY DivMod DEF Block

(* addCapacity(n): whole blocks, none taken away, and room for n bytes at  *)
(* the position.                                                           *)
LEMMA GrownFits ==
    ASSUME IndInv, NEW n \in Nat, n > 0
    PROVE  /\ Grown(n) \in Nat
           /\ Whole(Grown(n))
           /\ capacity_ <= Grown(n)
           /\ position_ + n <= Grown(n)
<1> DEFINE need == n - getCapacity
           count == (need + baseSize_ - 1) \div baseSize_
<1>1. baseSize_ \in Nat \ {0}
  BY baseSizeAssumption
<1>2. /\ position_ \in Nat /\ capacity_ \in Nat /\ position_ <= capacity_
      /\ Whole(capacity_)
  BY DEF IndInv, TypeOK, Consistent, Whole, Nodes
<1>3. getCapacity \in Nat /\ getCapacity = capacity_ - position_
  BY <1>2 DEF getCapacity
<1>4. CASE getCapacity >= n
  BY <1>2, <1>3, <1>4 DEF Grown
<1>5. CASE getCapacity < n
  <2>1. need \in Nat /\ need > 0 /\ need = n - getCapacity
    BY <1>3, <1>5
  <2>2. Grown(n) = capacity_ + baseSize_ * count
    BY <1>3, <1>5 DEF Grown
  <2> HIDE DEF need
  <2>3. count \in Nat /\ baseSize_ * count >= need
    <3>1. need + baseSize_ - 1 \in Nat
      BY <1>1, <2>1
    <3>2. count \in Nat
      BY <3>1, DivMod
    <3>3. /\ count * baseSize_ + ((need + baseSize_ - 1) % baseSize_)
               = need + baseSize_ - 1
          /\ (need + baseSize_ - 1) % baseSize_ \in 0 .. baseSize_ - 1
      BY <1>1, <3>1, DivMod, SMT
    <3> HIDE DEF count
    <3>4. count * baseSize_ = baseSize_ * count
      BY <1>1, <3>2, SMT
    <3> QED BY <1>1, <2>1, <3>2, <3>3, <3>4
  <2> HIDE DEF count
  <2>4. baseSize_ * count \in Nat
    BY <1>1, <2>3, SMT
  <2>5. Grown(n) \in Nat /\ capacity_ <= Grown(n)
    BY <1>2, <2>2, <2>4
  <2>6. position_ + n <= Grown(n)
    BY <1>2, <1>3, <2>1, <2>2, <2>3, <2>4
  <2>7. Whole(Grown(n))
    <3> DEFINE k == capacity_ \div baseSize_
    <3>1. k \in Nat /\ k > 0 /\ capacity_ = k * baseSize_
      BY <1>2, DivMod DEF Whole
    <3> HIDE DEF k
    <3>2. Grown(n) = (k + count) * baseSize_
      BY <1>1, <2>2, <2>3, <3>1, SMT
    <3>3. Grown(n) \div baseSize_ = k + count
      BY <1>1, <2>3, <3>1, <3>2, SMT
    <3> QED BY <2>3, <3>1, <3>2, <3>3 DEF Whole
  <2> QED BY <2>5, <2>6, <2>7
<1> QED BY <1>3, <1>4, <1>5

(* ... and cur_ after it is the block of the position.                     *)
LEMMA CurAfterGrowthIsBlock ==
    ASSUME IndInv, NEW n \in Nat, n > 0
    PROVE  /\ CurAfterGrowth(n) = Block(position_ \div baseSize_, Grown(n))
           /\ CurAfterGrowth(n) # Null
           /\ Start(CurAfterGrowth(n), position_) = position_
<1>1. /\ position_ \in Nat /\ capacity_ \in Nat /\ position_ <= capacity_
      /\ Whole(capacity_)
      /\ cur_ = Block(position_ \div baseSize_, capacity_)
  BY DEF IndInv, TypeOK, Consistent, Whole, Nodes
<1>2. Grown(n) \in Nat /\ Whole(Grown(n)) /\ position_ < Grown(n)
  BY <1>1, GrownFits
<1>3. Block(position_ \div baseSize_, Grown(n)) = position_ \div baseSize_
  BY <1>1, <1>2, StartAtPosition
<1>4. CurAfterGrowth(n) = position_ \div baseSize_
  <2>1. CASE getCapacity = 0
    <3>1. position_ = capacity_
      BY <1>1, <2>1 DEF getCapacity
    <3> QED BY <2>1, <3>1 DEF CurAfterGrowth, Nodes
  <2>2. CASE getCapacity # 0
    <3>1. position_ < capacity_
      BY <1>1, <2>2 DEF getCapacity
    <3>2. cur_ = position_ \div baseSize_
      BY <1>1, <3>1, StartAtPosition
    <3> QED BY <2>2, <3>2 DEF CurAfterGrowth
  <2> QED BY <2>1, <2>2
<1> QED BY <1>1, <1>2, <1>3, <1>4, StartAtPosition

-----------------------------------------------------------------------------
(* What Consistent says, in the form the steps use it.                     *)
LEMMA Shape ==
    ASSUME IndInv
    PROVE  /\ position_ \in Nat /\ size_ \in Nat /\ capacity_ \in Nat
           /\ position_ <= size_ /\ size_ <= capacity_
           /\ Whole(capacity_)
           /\ cur_ = Block(position_ \div baseSize_, capacity_)
           /\ mem \in [0 .. capacity_ - 1 -> Bytes]
BY DEF IndInv, TypeOK, Consistent, Whole, Nodes

(* cur_ is null exactly at the capacity, and else a copy begins at the     *)
(* position.                                                               *)
LEMMA CurIsStart ==
    ASSUME IndInv
    PROVE  /\ cur_ = Null <=> position_ = capacity_
           /\ cur_ # Null => Start(cur_, position_) = position_
<1>1. CASE position_ = capacity_
  BY <1>1, Shape, NullAtEnd
<1>2. CASE position_ # capacity_
  <2>1. position_ < capacity_
    BY <1>2, Shape
  <2> QED BY <1>2, <2>1, Shape, StartAtPosition
<1> QED BY <1>1, <1>2

(* Bytes copied out of memory.                                             *)
LEMMA SpanType ==
    ASSUME IndInv, NEW n \in Nat, position_ + n <= capacity_,
           n > 0 => Start(cur_, position_) = position_
    PROVE  Span(cur_, position_, n) \in Seq(Bytes)
<1>1. ASSUME NEW i \in 1 .. n
      PROVE  mem[Start(cur_, position_) + i - 1] \in Bytes
  <2>1. Start(cur_, position_) = position_
    OBVIOUS
  <2>2. position_ + i - 1 \in 0 .. capacity_ - 1
    BY Shape
  <2> QED BY <2>1, <2>2, Shape
<1>2. Span(cur_, position_, n) \in [1 .. n -> Bytes]
  BY <1>1 DEF Span
<1> QED BY <1>2, SeqDef

(* Bytes copied into memory.                                               *)
LEMMA StoredType ==
    ASSUME IndInv, NEW bs \in Seq(Values), NEW node, NEW cap \in Nat,
           Start(node, position_) = position_
    PROVE  Stored(node, bs, cap) \in [0 .. cap - 1 -> Bytes]
<1> SUFFICES ASSUME NEW i \in 0 .. cap - 1
             PROVE  (IF i >= position_ /\ i < position_ + Len(bs)
                     THEN bs[i - position_ + 1]
                     ELSE IF i < capacity_ THEN mem[i] ELSE Garbage) \in Bytes
  BY DEF Stored
<1>1. CASE i >= position_ /\ i < position_ + Len(bs)
  <2>1. i - position_ + 1 \in 1 .. Len(bs)
    BY <1>1, Shape
  <2>2. bs[i - position_ + 1] \in Values
    BY <2>1
  <2> QED BY <1>1, <2>2 DEF Bytes
<1>2. CASE ~(i >= position_ /\ i < position_ + Len(bs)) /\ i < capacity_
  <2>1. mem[i] \in Bytes
    BY <1>2, Shape
  <2> QED BY <1>2, <2>1
<1>3. CASE ~(i >= position_ /\ i < position_ + Len(bs)) /\ ~(i < capacity_)
  BY <1>3 DEF Bytes
<1> QED BY <1>1, <1>2, <1>3

(* To show IndInv' it is enough to know the five numbers and the types.    *)
LEMMA Rebuild ==
    ASSUME position_' \in Nat, size_' \in Nat, capacity_' \in Nat,
           position_' <= size_', size_' <= capacity_',
           Whole(capacity_'),
           cur_' = Block(position_' \div baseSize_, capacity_'),
           mem' \in [0 .. capacity_' - 1 -> Bytes],
           moved' \in Seq(Bytes), crashed' \in BOOLEAN
    PROVE  IndInv'
<1>1. cur_' \in Nat \cup {Null}
  BY BlockType
<1>2. TypeOK'
  BY <1>1 DEF TypeOK
<1>3. Consistent'
  BY DEF Consistent, Whole, Nodes
<1> QED BY <1>2, <1>3 DEF IndInv

LEMMA StringsAreSequences ==
    ASSUME NEW bs \in Strings
    PROVE  bs \in Seq(Values) /\ Len(bs) \in Nat
<1>1. bs \in Seq(Values)
  BY BoundAssumption, SeqDef DEF Strings
<1> QED BY <1>1

-----------------------------------------------------------------------------
LEMMA InitIndInv == Init => IndInv
<1> SUFFICES ASSUME Init PROVE IndInv
  OBVIOUS
<1>1. baseSize_ \in Nat \ {0}
  BY baseSizeAssumption
<1>2. baseSize_ \div baseSize_ = 1 /\ 0 \div baseSize_ = 0
  BY <1>1, SMT
<1>3. TypeOK
  <2>1. /\ position_ \in Nat /\ size_ \in Nat /\ capacity_ \in Nat
        /\ cur_ \in Nat \cup {Null}
    BY <1>1 DEF Init
  <2>2. mem \in [0 .. capacity_ - 1 -> Bytes]
    BY DEF Init, Bytes
  <2>3. moved \in Seq(Bytes)
    BY DEF Init
  <2>4. crashed \in BOOLEAN
    BY DEF Init
  <2> QED BY <2>1, <2>2, <2>3, <2>4 DEF TypeOK
<1>4. Consistent
  BY <1>1, <1>2 DEF Init, Consistent, Nodes, Block
<1> QED BY <1>3, <1>4 DEF IndInv

LEMMA WriteStep ==
    ASSUME IndInv, NEW bs \in Strings, write(bs)
    PROVE  IndInv'
<1> DEFINE n == Len(bs)
           node == CurAfterGrowth(n)
           cap == Grown(n)
<1>1. bs \in Seq(Values) /\ n \in Nat /\ n > 0
  <2>1. bs \in Seq(Values) /\ bs # <<>>
    BY StringsAreSequences DEF write
  <2> QED BY <2>1
<1>2. /\ mem' = Stored(node, bs, cap)
      /\ capacity_' = cap
      /\ cur_' = NodeAfter(node, position_, n, cap)
      /\ position_' = position_ + n
      /\ size_' = IF position_' > size_ THEN position_' ELSE size_
      /\ moved' = bs /\ UNCHANGED crashed
  BY DEF write
<1> HIDE DEF n
<1>3. /\ cap \in Nat /\ Whole(cap)
      /\ capacity_ <= cap /\ position_ + n <= cap
  BY <1>1, GrownFits
<1>4. Start(node, position_) = position_
  BY <1>1, CurAfterGrowthIsBlock
<1> HIDE DEF node, cap
<1>5. cur_' = Block(position_' \div baseSize_, capacity_')
  BY <1>2, <1>4 DEF NodeAfter
<1>6. mem' \in [0 .. capacity_' - 1 -> Bytes]
  BY <1>1, <1>2, <1>3, <1>4, StoredType
<1>7. /\ position_' \in Nat /\ size_' \in Nat /\ capacity_' \in Nat
      /\ position_' <= size_' /\ size_' <= capacity_'
  BY <1>1, <1>2, <1>3, Shape
<1>8. moved' \in Seq(Bytes) /\ crashed' \in BOOLEAN
  BY <1>1, <1>2 DEF IndInv, TypeOK, Bytes
<1> QED BY <1>2, <1>3, <1>5, <1>6, <1>7, <1>8, Rebuild

(* recv into the iovecs of getWriteBuffers: the capacity grows by what was *)
(* asked for, the position by what has come.                               *)
LEMMA ReceiveStep ==
    ASSUME IndInv, NEW len \in Nat, NEW bs \in Strings, Receive(len, bs)
    PROVE  IndInv'
<1> DEFINE n == Len(bs)
           node == CurAfterGrowth(len)
           cap == Grown(len)
<1>1. bs \in Seq(Values) /\ n \in Nat
  BY StringsAreSequences
<1>2. /\ len > 0 /\ n <= len
      /\ mem' = Stored(node, bs, cap)
      /\ capacity_' = cap
      /\ position_' = position_ + n
      /\ cur_' = IF bs = <<>> THEN node ELSE NodeOf(position_', cap)
      /\ size_' = IF position_' > size_ THEN position_' ELSE size_
      /\ moved' = bs /\ UNCHANGED crashed
  BY DEF Receive
<1>3. /\ cap \in Nat /\ Whole(cap)
      /\ capacity_ <= cap /\ position_ + len <= cap
  BY <1>2, GrownFits
<1>4. /\ node = Block(position_ \div baseSize_, cap)
      /\ Start(node, position_) = position_
  BY <1>2, CurAfterGrowthIsBlock
<1> HIDE DEF node, cap
<1>5. cur_' = Block(position_' \div baseSize_, capacity_')
  <2>1. CASE bs = <<>>
    <3>1. position_' = position_
      BY <1>2, <2>1, Shape
    <3> QED BY <1>2, <1>4, <2>1, <3>1
  <2>2. CASE bs # <<>>
    BY <1>2, <2>2 DEF NodeOf
  <2> QED BY <2>1, <2>2
<1> HIDE DEF n
<1>6. mem' \in [0 .. capacity_' - 1 -> Bytes]
  BY <1>1, <1>2, <1>3, <1>4, StoredType
<1>7. /\ position_' \in Nat /\ size_' \in Nat /\ capacity_' \in Nat
      /\ position_' <= size_' /\ size_' <= capacity_'
  BY <1>1, <1>2, <1>3, Shape
<1>8. moved' \in Seq(Bytes) /\ crashed' \in BOOLEAN
  BY <1>1, <1>2 DEF IndInv, TypeOK, Bytes
<1> QED BY <1>2, <1>3, <1>5, <1>6, <1>7, <1>8, Rebuild

(* read and Send move the position forward inside the data; one computes   *)
(* the new block with the copy loop, the other with setPosition.           *)
LEMMA ReadStep ==
    ASSUME IndInv, NEW n \in Nat, read(n) \/ Send(n)
    PROVE  IndInv'
<1>1. /\ n <= getReadSize
      /\ cur_ # Null
      /\ moved' = Span(cur_, position_, n)
      /\ position_' = position_ + n
      /\ UNCHANGED <<size_, capacity_, mem, crashed>>
  BY DEF read, Send, Inside
<1>2. position_ + n <= size_ /\ position_ + n <= capacity_
  BY <1>1, Shape DEF getReadSize
<1>3. Start(cur_, position_) = position_
  BY <1>1, CurIsStart
<1>4. cur_' = Block(position_' \div baseSize_, capacity_')
  BY <1>1, <1>3 DEF read, Send, NodeAfter, NodeOf
<1>5. moved' \in Seq(Bytes)
  BY <1>1, <1>2, <1>3, SpanType
<1>6. position_' \in Nat /\ position_' <= size_'
  BY <1>1, <1>2, Shape
<1>7. crashed' \in BOOLEAN
  BY <1>1 DEF IndInv, TypeOK
<1> QED BY <1>1, <1>4, <1>5, <1>6, <1>7, Shape, Rebuild

LEMMA ToStringStep ==
    ASSUME IndInv, toString
    PROVE  IndInv'
<1>1. /\ getReadSize > 0 => cur_ # Null
      /\ moved' = Span(cur_, position_, getReadSize)
      /\ UNCHANGED <<position_, size_, capacity_, cur_, mem, crashed>>
  BY DEF toString, ReadAt, Inside
<1>2. getReadSize \in Nat /\ position_ + getReadSize <= capacity_
  BY Shape DEF getReadSize
<1>3. getReadSize > 0 => Start(cur_, position_) = position_
  BY <1>1, CurIsStart
<1>4. moved' \in Seq(Bytes)
  BY <1>1, <1>2, <1>3, SpanType
<1>5. crashed' \in BOOLEAN
  BY <1>1 DEF IndInv, TypeOK
<1> QED BY <1>1, <1>4, <1>5, Shape, Rebuild

LEMMA SetPositionStep ==
    ASSUME IndInv, NEW v \in Nat, setPosition(v)
    PROVE  IndInv'
<1>1. /\ v <= capacity_
      /\ position_' = v
      /\ size_' = IF v > size_ THEN v ELSE size_
      /\ cur_' = Block(v \div baseSize_, capacity_)
      /\ UNCHANGED <<capacity_, mem, moved, crashed>>
  BY DEF setPosition, NodeOf
<1>2. /\ size_' \in Nat /\ position_' <= size_' /\ size_' <= capacity_'
  BY <1>1, Shape
<1>3. moved' \in Seq(Bytes) /\ crashed' \in BOOLEAN
  BY <1>1 DEF IndInv, TypeOK
<1> QED BY <1>1, <1>2, <1>3, Shape, Rebuild

LEMMA ClearStep ==
    ASSUME IndInv, clear
    PROVE  IndInv'
<1>1. baseSize_ \in Nat \ {0}
  BY baseSizeAssumption
<1>2. baseSize_ \div baseSize_ = 1 /\ 0 \div baseSize_ = 0
  BY <1>1, SMT
<1>3. Whole(baseSize_) /\ Block(0 \div baseSize_, baseSize_) = 0
  BY <1>1, <1>2 DEF Whole, Block
<1>4. baseSize_ <= capacity_
  <2>1. capacity_ \div baseSize_ \in Nat
    BY Shape, DivMod
  <2> DEFINE k == capacity_ \div baseSize_
  <2>2. k \in Nat /\ k > 0 /\ capacity_ = k * baseSize_
    BY <2>1, Shape DEF Whole
  <2> HIDE DEF k
  <2> QED BY <1>1, <2>2, SMT
<1>5. mem' \in [0 .. baseSize_ - 1 -> Bytes]
  BY <1>1, <1>4, Shape DEF clear
<1>6. moved' \in Seq(Bytes) /\ crashed' \in BOOLEAN
  BY DEF clear, IndInv, TypeOK
<1> QED BY <1>1, <1>3, <1>5, <1>6, Rebuild DEF clear

LEMMA NextIndInv == IndInv /\ [Next]_vars => IndInv'
<1> SUFFICES ASSUME IndInv, [Next]_vars PROVE IndInv'
  OBVIOUS
<1>1. CASE UNCHANGED vars
  BY <1>1 DEF vars, IndInv, TypeOK, Consistent, Nodes, Block
<1>2. CASE \E bs \in Strings : write(bs)
  BY <1>2, WriteStep
<1>3. CASE \E n \in 0 .. MaxLen : read(n)
  BY <1>3, ReadStep, BoundAssumption
<1>4. CASE toString
  BY <1>4, ToStringStep
<1>5. CASE \E v \in 0 .. capacity_ : setPosition(v)
  BY <1>5, SetPositionStep, Shape
<1>6. CASE clear
  BY <1>6, ClearStep
<1>7. CASE \E len \in 1 .. MaxLen, bs \in Strings : Receive(len, bs)
  BY <1>7, ReceiveStep, BoundAssumption
<1>8. CASE \E n \in 1 .. MaxLen : Send(n)
  BY <1>8, ReadStep, BoundAssumption
<1>9. CASE NullBlock
  BY <1>9 DEF NullBlock, IndInv, TypeOK, Consistent, Nodes, Block
<1> QED BY <1>1, <1>2, <1>3, <1>4, <1>5, <1>6, <1>7, <1>8, <1>9 DEF Next

LEMMA Invariance == Spec => []IndInv
<1> QED BY InitIndInv, NextIndInv, PTL DEF Spec

(* The blocks hold capacity_ bytes and reads return bytes, for every       *)
(* block size.                                                             *)
THEOREM TypeCorrect == Spec => []TypeOK
<1>1. IndInv => TypeOK
  BY DEF IndInv
<1> QED BY <1>1, Invariance, PTL

(* position_, size_, capacity_ and cur_ agree after any sequence of        *)
(* operations, for every block size: the copy loops, setPosition,          *)
(* addCapacity and clear all leave cur_ at the block of position_.         *)
THEOREM Consistency == Spec => []Consistent
<1>1. IndInv => Consistent
  BY DEF IndInv
<1> QED BY <1>1, Invariance, PTL

(* A write, receive, read or send of at least one byte never follows the   *)
(* null pointer behind the last block.                                     *)
THEOREM FaultSafety == Spec => []OnlyEmptyReadFaults
<1>1. IndInv => OnlyEmptyReadFaults
  <2> SUFFICES ASSUME IndInv PROVE OnlyEmptyReadFaults
    OBVIOUS
  <2>1. ASSUME NEW n \in 1 .. MaxLen
        PROVE  Inside(CurAfterGrowth(n), position_, n, Grown(n))
    <3>1. n \in Nat /\ n > 0
      BY BoundAssumption
    <3> QED BY <3>1, GrownFits, CurAfterGrowthIsBlock DEF Inside
  <2>2. ASSUME NEW n \in 1 .. getReadSize
        PROVE  Inside(cur_, position_, n, capacity_)
    <3>1. position_ < capacity_ /\ position_ + n <= capacity_
      BY Shape DEF getReadSize
    <3> QED BY <3>1, CurIsStart, Shape DEF Inside
  <2> QED BY <2>1, <2>2 DEF OnlyEmptyReadFaults
<1> QED BY <1>1, Invariance, PTL

-----------------------------------------------------------------------------
(* The blocks, seen as one array.                                          *)
Data == [i \in 1 .. size_ |-> mem[i - 1]]

LEMMA FirstBytes ==
    ASSUME NEW c \in Nat, NEW n \in Nat, n <= c, NEW m \in [0 .. c - 1 -> Bytes]
    PROVE  /\ [i \in 1 .. n |-> m[i - 1]] \in Seq(Bytes)
           /\ Len([i \in 1 .. n |-> m[i - 1]]) = n
           /\ \A i \in 1 .. n : [j \in 1 .. n |-> m[j - 1]][i] = m[i - 1]
<1> DEFINE d == [i \in 1 .. n |-> m[i - 1]]
<1>1. \A i \in 1 .. n : i - 1 \in 0 .. c - 1
  OBVIOUS
<1>2. d \in [1 .. n -> Bytes]
  BY <1>1
<1>3. d \in Seq(Bytes)
  BY <1>2, SeqDef
<1>4. Len(d) = n
  BY <1>2, <1>3, LenProperties
<1> QED BY <1>3, <1>4

LEMMA DataShape ==
    ASSUME IndInv
    PROVE  /\ Data \in Seq(Bytes) /\ Len(Data) = size_
           /\ \A i \in 1 .. size_ : Data[i] = mem[i - 1]
BY Shape, FirstBytes DEF Data

LEMMA DataShapeAfter ==
    ASSUME IndInv'
    PROVE  /\ Data' \in Seq(Bytes) /\ Len(Data') = size_'
           /\ \A i \in 1 .. size_' : Data'[i] = mem'[i - 1]
<1>1. /\ size_' \in Nat /\ capacity_' \in Nat /\ size_' <= capacity_'
      /\ mem' \in [0 .. capacity_' - 1 -> Bytes]
  BY DEF IndInv, TypeOK, Consistent
<1> QED BY <1>1, FirstBytes DEF Data

LEMMA Slice ==
    ASSUME NEW s \in Seq(Bytes), NEW p \in Nat, NEW n \in Nat, p + n <= Len(s)
    PROVE  /\ SubSeq(s, p + 1, p + n) \in Seq(Bytes)
           /\ Len(SubSeq(s, p + 1, p + n)) = n
           /\ \A i \in 1 .. n : SubSeq(s, p + 1, p + n)[i] = s[p + i]
<1>1. p + 1 \in Int /\ p + n \in Int /\ \A i \in p + 1 .. p + n : i \in 1 .. Len(s)
  OBVIOUS
<1>2. \A i \in p + 1 .. p + n : s[i] \in Bytes
  BY <1>1
<1>3. /\ SubSeq(s, p + 1, p + n) \in Seq(Bytes)
      /\ Len(SubSeq(s, p + 1, p + n)) = IF p + 1 <= p + n THEN (p + n) - (p + 1) + 1 ELSE 0
      /\ \A i \in 1 .. (p + n) - (p + 1) + 1 : SubSeq(s, p + 1, p + n)[i] = s[p + 1 + i - 1]
  BY <1>1, <1>2, SubSeqProperties
<1>4. (p + n) - (p + 1) + 1 = n /\ \A i \in 1 .. n : p + 1 + i - 1 = p + i
  OBVIOUS
<1> QED BY <1>3, <1>4

(* What a copy reads from the blocks is a piece of the array.              *)
LEMMA SpanIsSlice ==
    ASSUME IndInv, NEW n \in Nat, n <= getReadSize,
           n > 0 => Start(cur_, position_) = position_
    PROVE  Span(cur_, position_, n) = SubSeq(Data, position_ + 1, position_ + n)
<1> DEFINE s == Span(cur_, position_, n)
           t == SubSeq(Data, position_ + 1, position_ + n)
<1>1. position_ + n <= size_ /\ position_ + n <= capacity_
  BY Shape DEF getReadSize
<1>2. Data \in Seq(Bytes) /\ Len(Data) = size_ /\ \A i \in 1 .. size_ : Data[i] = mem[i - 1]
  BY DataShape
<1>3. position_ \in Nat /\ position_ + n <= Len(Data)
  BY <1>1, <1>2, Shape
<1>4. t \in Seq(Bytes) /\ Len(t) = n /\ \A i \in 1 .. n : t[i] = Data[position_ + i]
  BY <1>2, <1>3, Slice
<1>5. s \in Seq(Bytes)
  BY <1>1, SpanType
<1>6. Len(s) = n
  <2>1. DOMAIN s = 1 .. n
    BY DEF Span
  <2> QED BY <1>5, <2>1, LenProperties
<1>7. ASSUME NEW i \in 1 .. n PROVE s[i] = t[i]
  <2>1. s[i] = mem[position_ + i - 1]
    BY DEF Span
  <2>2. position_ + i \in 1 .. size_ /\ (position_ + i) - 1 = position_ + i - 1
    BY <1>1, Shape
  <2>3. t[i] = mem[(position_ + i) - 1]
    BY <1>2, <1>4, <2>2
  <2> QED BY <2>1, <2>2, <2>3
<1> HIDE DEF s, t
<1>8. s = t
  BY <1>4, <1>5, <1>6, <1>7, SeqEqual
<1> QED BY <1>8 DEF s, t

-----------------------------------------------------------------------------
(* Each operation on the blocks is one on the array.                       *)
LEMMA CopyOutIsRead ==
    ASSUME IndInv, NEW n \in Nat, n <= getReadSize,
           n > 0 => Start(cur_, position_) = position_,
           moved' = Span(cur_, position_, n), UNCHANGED <<size_, mem>>
    PROVE  /\ position_' = position_ + n => Flat!Read
           /\ position_' = position_ => Flat!Peek
<1>1. moved' = SubSeq(Data, position_ + 1, position_ + n)
  BY SpanIsSlice
<1>2. Len(Data) = size_ /\ n \in 0 .. size_ - position_
  BY DataShape, Shape DEF getReadSize
<1>3. Data' = Data
  BY DEF Data
<1>4. n \in 0 .. Len(Data) - position_
  BY <1>2
<1>5. position_' = position_ + n => Flat!Read
  BY <1>1, <1>3, <1>4 DEF Flat!Read, Data
<1>6. position_' = position_ => Flat!Peek
  BY <1>1, <1>3, <1>4 DEF Flat!Peek, Data
<1> QED BY <1>5, <1>6

(* Bytes stored from the position on, none of which gets lost.             *)
LEMMA CopyInIsWrite ==
    ASSUME IndInv, IndInv', NEW bs \in Seq(Bytes), bs # <<>>, NEW node, NEW cap \in Nat,
           Start(node, position_) = position_,
           mem' = Stored(node, bs, cap), capacity_ <= cap, position_ + Len(bs) <= cap,
           position_' = position_ + Len(bs), moved' = bs,
           size_' = IF position_' > size_ THEN position_' ELSE size_
    PROVE  Flat!Write
<1>1. Len(bs) \in Nat /\ Len(bs) > 0
  OBVIOUS
<1>2. Data \in Seq(Bytes) /\ Len(Data) = size_ /\ \A i \in 1 .. size_ : Data[i] = mem[i - 1]
  BY DataShape
<1>3. Data' \in Seq(Bytes) /\ Len(Data') = size_' /\ \A i \in 1 .. size_' : Data'[i] = mem'[i - 1]
  BY DataShapeAfter
<1>4. \A j \in 0 .. cap - 1 :
        mem'[j] = IF j >= position_ /\ j < position_ + Len(bs) THEN bs[j - position_ + 1]
                  ELSE IF j < capacity_ THEN mem[j] ELSE Garbage
  BY DEF Stored
<1>5. ASSUME NEW i \in 1 .. Len(Data), i <= position_ \/ i > position_'
      PROVE  Data'[i] = Data[i]
  <2>1. i \in 1 .. size_ /\ i \in 1 .. size_' /\ i - 1 \in 0 .. cap - 1 /\ i - 1 < capacity_
    BY <1>1, <1>2, Shape
  <2>2. ~(i - 1 >= position_ /\ i - 1 < position_ + Len(bs))
    BY <1>1, <1>5, <2>1, Shape
  <2>3. mem'[i - 1] = mem[i - 1]
    BY <1>4, <2>1, <2>2
  <2> QED BY <1>2, <1>3, <2>1, <2>3
<1>6. moved' = SubSeq(Data', position_ + 1, position_')
  <2> DEFINE t == SubSeq(Data', position_ + 1, position_ + Len(bs))
  <2>1. position_ \in Nat /\ position_ + Len(bs) <= Len(Data')
    BY <1>1, <1>3, Shape
  <2>2. /\ t \in Seq(Bytes) /\ Len(t) = Len(bs)
        /\ \A i \in 1 .. Len(bs) : t[i] = Data'[position_ + i]
    BY <1>1, <1>3, <2>1, Slice
  <2>3. ASSUME NEW i \in 1 .. Len(bs) PROVE t[i] = bs[i]
    <3>1. position_ \in Nat /\ size_ \in Nat /\ i \in Nat /\ Len(bs) \in Nat /\ i >= 1 /\ i <= Len(bs)
      BY <1>1, Shape
    <3>2. position_ + i \in 1 .. size_'
      BY <3>1
    <3>3. /\ (position_ + i) - 1 \in 0 .. cap - 1
          /\ (position_ + i) - 1 >= position_ /\ (position_ + i) - 1 < position_ + Len(bs)
          /\ (position_ + i) - 1 - position_ + 1 = i
      BY <3>1
    <3>4. Data'[position_ + i] = bs[(position_ + i) - 1 - position_ + 1]
      BY <1>3, <1>4, <3>2, <3>3
    <3> QED BY <2>2, <3>3, <3>4
  <2> HIDE DEF t
  <2>4. t = bs
    BY <2>2, <2>3, SeqEqual
  <2> QED BY <2>4 DEF t
<1>7. position_' > position_ /\ Len(Data') = IF position_' > Len(Data) THEN position_' ELSE Len(Data)
  BY <1>1, <1>2, <1>3, Shape
<1> QED BY <1>3, <1>5, <1>6, <1>7 DEF Flat!Write, Data

LEMMA SeekIsSeek ==
    ASSUME IndInv, NEW v \in Nat, setPosition(v), IndInv'
    PROVE  Flat!Seek
<1>1. /\ position_' = v /\ size_' = IF v > size_ THEN v ELSE size_
      /\ UNCHANGED <<capacity_, mem, moved>>
  BY DEF setPosition
<1>2. Data \in Seq(Bytes) /\ Len(Data) = size_ /\ \A i \in 1 .. size_ : Data[i] = mem[i - 1]
  BY DataShape
<1>3. Data' \in Seq(Bytes) /\ Len(Data') = size_' /\ \A i \in 1 .. size_' : Data'[i] = mem'[i - 1]
  BY DataShapeAfter
<1>4. size_ \in Nat /\ size_' \in Nat /\ size_ <= size_' /\ v <= size_' /\ (size_' > size_ => v = size_')
  BY <1>1, Shape
<1>5. SubSeq(Data', 1, Len(Data)) = Data
  <2> DEFINE t == SubSeq(Data', 0 + 1, 0 + size_)
  <2>1. t \in Seq(Bytes) /\ Len(t) = size_ /\ \A i \in 1 .. size_ : t[i] = Data'[0 + i]
    BY <1>3, <1>4, Slice
  <2>2. ASSUME NEW i \in 1 .. size_ PROVE t[i] = Data[i]
    <3>1. i \in 1 .. size_' /\ 0 + i = i
      BY <1>4
    <3> QED BY <1>1, <1>2, <1>3, <2>1, <3>1
  <2> HIDE DEF t
  <2>3. t = Data
    BY <1>2, <2>1, <2>2, SeqEqual
  <2>4. 0 + 1 = 1 /\ 0 + size_ = Len(Data)
    BY <1>2, <1>4
  <2> QED BY <2>3, <2>4 DEF t
<1>6. /\ Len(Data') >= Len(Data) /\ position_' <= Len(Data')
      /\ Len(Data') > Len(Data) => position_' = Len(Data')
  BY <1>1, <1>2, <1>3, <1>4
<1> QED BY <1>1, <1>5, <1>6 DEF Flat!Seek, Data

LEMMA NextIsFlat == IndInv /\ IndInv' /\ [Next]_vars => [Flat!Next]_(Flat!flatVars)
<1> SUFFICES ASSUME IndInv, IndInv', [Next]_vars PROVE [Flat!Next]_(Flat!flatVars)
  OBVIOUS
<1> DEFINE Goal == [Flat!Next]_(Flat!flatVars)
<1>1. CASE UNCHANGED <<position_, size_, mem, moved>>
  BY <1>1 DEF Flat!flatVars
<1>2. ASSUME NEW bs \in Strings, write(bs) PROVE Goal
  <2>1. bs \in Seq(Bytes) /\ bs # <<>> /\ Len(bs) \in Nat /\ Len(bs) > 0
    BY <1>2, StringsAreSequences DEF write, Bytes
  <2>2. /\ Grown(Len(bs)) \in Nat /\ capacity_ <= Grown(Len(bs))
        /\ position_ + Len(bs) <= Grown(Len(bs))
        /\ Start(CurAfterGrowth(Len(bs)), position_) = position_
    BY <2>1, GrownFits, CurAfterGrowthIsBlock
  <2>3. Flat!Write
    BY <1>2, <2>1, <2>2, CopyInIsWrite DEF write
  <2> QED BY <2>3 DEF Flat!Next
<1>3. ASSUME NEW n \in 0 .. MaxLen, read(n) PROVE Goal
  <2>1. n \in Nat /\ n <= getReadSize /\ Start(cur_, position_) = position_
    BY <1>3, CurIsStart, BoundAssumption DEF read, Inside
  <2>2. Flat!Read
    BY <1>3, <2>1, CopyOutIsRead DEF read
  <2> QED BY <2>2 DEF Flat!Next
<1>4. CASE toString
  <2>1. getReadSize \in Nat
    BY Shape DEF getReadSize
  <2>2. getReadSize > 0 => Start(cur_, position_) = position_
    BY <1>4, CurIsStart DEF toString, Inside
  <2>3. Flat!Peek
    BY <1>4, <2>1, <2>2, CopyOutIsRead DEF toString, ReadAt
  <2> QED BY <2>3 DEF Flat!Next
<1>5. ASSUME NEW v \in 0 .. capacity_, setPosition(v) PROVE Goal
  <2>1. Flat!Seek
    BY <1>5, Shape, SeekIsSeek
  <2> QED BY <2>1 DEF Flat!Next
<1>6. CASE clear
  <2>1. Data' = <<>>
    BY <1>6 DEF clear, Data
  <2>2. Flat!Clear
    BY <1>6, <2>1 DEF clear, Flat!Clear, Data
  <2> QED BY <2>2 DEF Flat!Next
<1>7. ASSUME NEW len \in 1 .. MaxLen, NEW bs \in Strings, Receive(len, bs) PROVE Goal
  <2>1. bs \in Seq(Bytes) /\ Len(bs) \in Nat /\ len \in Nat /\ len > 0 /\ Len(bs) <= len
    BY <1>7, StringsAreSequences, BoundAssumption DEF Receive, Bytes
  <2>2. /\ Grown(len) \in Nat /\ capacity_ <= Grown(len) /\ position_ + len <= Grown(len)
        /\ Start(CurAfterGrowth(len), position_) = position_
    BY <2>1, GrownFits, CurAfterGrowthIsBlock
  <2>3. CASE bs # <<>>
    <3>1. position_ + Len(bs) <= Grown(len)
      BY <2>1, <2>2, Shape
    <3>2. Flat!Write
      BY <1>7, <2>1, <2>2, <2>3, <3>1, CopyInIsWrite DEF Receive
    <3> QED BY <3>2 DEF Flat!Next
  <2>4. CASE bs = <<>>
    <3>1. /\ position_' = position_ /\ size_' = size_ /\ moved' = <<>>
          /\ mem' = Stored(CurAfterGrowth(len), <<>>, Grown(len))
      BY <1>7, <2>4, Shape DEF Receive
    <3>2. \A i \in 1 .. size_ : mem'[i - 1] = mem[i - 1]
      BY <2>2, <3>1, Shape DEF Stored
    <3>3. Data' = Data
      BY <3>1, <3>2 DEF Data
    <3>4. SubSeq(Data, position_ + 1, position_ + 0) = <<>>
      BY Shape, DataShape
    <3>5. 0 \in 0 .. Len(Data) - position_ /\ position_ + 0 = position_
      BY Shape, DataShape
    <3>6. Flat!Peek
      BY <3>1, <3>3, <3>4, <3>5 DEF Flat!Peek, Data
    <3> QED BY <3>6 DEF Flat!Next
  <2> QED BY <2>3, <2>4
<1>8. ASSUME NEW n \in 1 .. MaxLen, Send(n) PROVE Goal
  <2>1. n \in Nat /\ n <= getReadSize /\ Start(cur_, position_) = position_
    BY <1>8, CurIsStart, BoundAssumption DEF Send, Inside
  <2>2. Flat!Read
    BY <1>8, <2>1, CopyOutIsRead DEF Send
  <2> QED BY <2>2 DEF Flat!Next
<1>9. CASE UNCHANGED vars \/ NullBlock
  BY <1>1, <1>9 DEF vars, NullBlock
<1> QED BY <1>2, <1>3, <1>4, <1>5, <1>6, <1>7, <1>8, <1>9 DEF Next

(* A ByteArray implements the flat array: which bytes an operation reads   *)
(* or overwrites does not depend on where the blocks end, for every block  *)
(* size.                                                                   *)
THEOREM FlatRefinement == Spec => ImplementsFlat
<1>1. Init => Flat!Init
  BY DEF Init, Flat!Init
<1> QED BY <1>1, Invariance, NextIsFlat, PTL DEF Spec, ImplementsFlat, Flat!Spec

-----------------------------------------------------------------------------
(* The loops.                                                              *)

(* Induction over the natural numbers, for a set instead of a predicate.   *)
LEMMA SetInduction ==
    ASSUME NEW T \in SUBSET Nat, 0 \in T, \A n \in T : n + 1 \in T
    PROVE  T = Nat
<1> DEFINE Less == {ss \in Nat \X Nat : ss[1] < ss[2]}
<1> SUFFICES ASSUME Nat \ T # {} PROVE FALSE
  OBVIOUS
<1>1. IsWellFoundedOn(Less, Nat)
  BY NatLessThanWellFounded DEF OpToRel
<1>2. PICK x \in Nat \ T : \A y \in Nat \ T : ~(<<y, x>> \in Less)
  <2>1. Nat \ T \subseteq Nat
    OBVIOUS
  <2> QED BY <1>1, <2>1, WFMin
<1>3. \A y \in Nat \ T : ~(y < x)
  BY <1>2
<1>4. x - 1 \in Nat /\ x - 1 < x /\ (x - 1) + 1 = x
  OBVIOUS
<1>5. x - 1 \in T
  BY <1>3, <1>4
<1> QED BY <1>4, <1>5

(* The rounds of the two loops: f[k] are the variables after k of them.    *)
IsCopy(f, n, m) ==
    f = [k \in 0 .. m |-> IF k = 0 THEN CopyStart(n) ELSE CopyRound(f[k - 1])]

IsFile(f, m) ==
    f = [k \in 0 .. m |-> IF k = 0 THEN FileStart ELSE FileRound(f[k - 1])]

LEMMA CopyExists ==
    ASSUME NEW n
    PROVE  \A m \in Nat : \E f : IsCopy(f, n, m)
<1> DEFINE T == {m \in Nat : \E f : IsCopy(f, n, m)}
<1>1. 0 \in T
  <2> DEFINE f == [k \in 0 .. 0 |-> CopyStart(n)]
  <2>1. IsCopy(f, n, 0)
    BY DEF IsCopy
  <2> QED BY <2>1
<1>2. ASSUME NEW m \in T PROVE m + 1 \in T
  <2>1. m \in Nat
    OBVIOUS
  <2>2. PICK f : IsCopy(f, n, m)
    OBVIOUS
  <2> DEFINE g == [k \in 0 .. m + 1 |-> IF k = m + 1 THEN CopyRound(f[m]) ELSE f[k]]
  <2>3. \A k \in 0 .. m : f[k] = IF k = 0 THEN CopyStart(n) ELSE CopyRound(f[k - 1])
    BY <2>2 DEF IsCopy
  <2>4. \A k \in 0 .. m + 1 : g[k] = IF k = 0 THEN CopyStart(n) ELSE CopyRound(g[k - 1])
    BY <2>1, <2>3
  <2>5. IsCopy(g, n, m + 1)
    BY <2>1, <2>4 DEF IsCopy
  <2> QED BY <2>5
<1>3. T = Nat
  <2> HIDE DEF T
  <2>1. T \in SUBSET Nat
    BY DEF T
  <2> QED BY <1>1, <1>2, <2>1, SetInduction
<1> QED BY <1>3

LEMMA FileExists == \A m \in Nat : \E f : IsFile(f, m)
<1> DEFINE T == {m \in Nat : \E f : IsFile(f, m)}
<1>1. 0 \in T
  <2> DEFINE f == [k \in 0 .. 0 |-> FileStart]
  <2>1. IsFile(f, 0)
    BY DEF IsFile
  <2> QED BY <2>1
<1>2. ASSUME NEW m \in T PROVE m + 1 \in T
  <2>1. m \in Nat
    OBVIOUS
  <2>2. PICK f : IsFile(f, m)
    OBVIOUS
  <2> DEFINE g == [k \in 0 .. m + 1 |-> IF k = m + 1 THEN FileRound(f[m]) ELSE f[k]]
  <2>3. \A k \in 0 .. m : f[k] = IF k = 0 THEN FileStart ELSE FileRound(f[k - 1])
    BY <2>2 DEF IsFile
  <2>4. \A k \in 0 .. m + 1 : g[k] = IF k = 0 THEN FileStart ELSE FileRound(g[k - 1])
    BY <2>1, <2>3
  <2>5. IsFile(g, m + 1)
    BY <2>1, <2>4 DEF IsFile
  <2> QED BY <2>5
<1>3. T = Nat
  <2> HIDE DEF T
  <2>1. T \in SUBSET Nat
    BY DEF T
  <2> QED BY <1>1, <1>2, <2>1, SetInduction
<1> QED BY <1>3

LEMMA CopyLoopIs ==
    ASSUME NEW n, Rounds \in Nat
    PROVE  \E f : /\ CopyLoop(n) = f[Rounds]
                  /\ f[0] = CopyStart(n)
                  /\ \A k \in 0 .. Rounds - 1 : f[k + 1] = CopyRound(f[k])
<1> DEFINE u == CHOOSE f : f = [k \in 0 .. Rounds |-> IF k = 0 THEN CopyStart(n) ELSE CopyRound(f[k - 1])]
<1>1. \E f : f = [k \in 0 .. Rounds |-> IF k = 0 THEN CopyStart(n) ELSE CopyRound(f[k - 1])]
  BY CopyExists DEF IsCopy
<1>2. u = [k \in 0 .. Rounds |-> IF k = 0 THEN CopyStart(n) ELSE CopyRound(u[k - 1])]
  BY <1>1
<1>3. CopyLoop(n) = u[Rounds]
  BY DEF CopyLoop
<1> HIDE DEF u
<1>4. \A k \in 0 .. Rounds : u[k] = IF k = 0 THEN CopyStart(n) ELSE CopyRound(u[k - 1])
  BY <1>2
<1>5. u[0] = CopyStart(n)
  BY <1>4
<1>6. ASSUME NEW k \in 0 .. Rounds - 1 PROVE u[k + 1] = CopyRound(u[k])
  <2>1. k + 1 \in 0 .. Rounds /\ k + 1 # 0 /\ (k + 1) - 1 = k
    OBVIOUS
  <2> QED BY <1>4, <2>1
<1> QED BY <1>3, <1>5, <1>6

LEMMA FileLoopIs ==
    ASSUME Rounds \in Nat
    PROVE  \E f : /\ writeToFile = f[Rounds]
                  /\ f[0] = FileStart
                  /\ \A k \in 0 .. Rounds - 1 : f[k + 1] = FileRound(f[k])
<1> DEFINE u == CHOOSE f : f = [k \in 0 .. Rounds |-> IF k = 0 THEN FileStart ELSE FileRound(f[k - 1])]
<1>1. \E f : f = [k \in 0 .. Rounds |-> IF k = 0 THEN FileStart ELSE FileRound(f[k - 1])]
  BY FileExists DEF IsFile
<1>2. u = [k \in 0 .. Rounds |-> IF k = 0 THEN FileStart ELSE FileRound(u[k - 1])]
  BY <1>1
<1>3. writeToFile = u[Rounds]
  BY DEF writeToFile
<1> HIDE DEF u
<1>4. \A k \in 0 .. Rounds : u[k] = IF k = 0 THEN FileStart ELSE FileRound(u[k - 1])
  BY <1>2
<1>5. u[0] = FileStart
  BY <1>4
<1>6. ASSUME NEW k \in 0 .. Rounds - 1 PROVE u[k + 1] = FileRound(u[k])
  <2>1. k + 1 \in 0 .. Rounds /\ k + 1 # 0 /\ (k + 1) - 1 = k
    OBVIOUS
  <2> QED BY <1>4, <2>1
<1> QED BY <1>3, <1>5, <1>6

(* Consecutive addresses.                                                  *)
Stretch(from, n) == [i \in 1 .. n |-> from + i - 1]

LEMMA StretchOn ==
    ASSUME NEW from \in Nat, NEW m \in Nat, NEW n \in Nat
    PROVE  Stretch(from, m) \o Stretch(from + m, n) = Stretch(from, m + n)
<1> DEFINE s == Stretch(from, m)
           t == Stretch(from + m, n)
           u == Stretch(from, m + n)
<1>1. ASSUME NEW a \in Nat, NEW k \in Nat
      PROVE  /\ Stretch(a, k) \in Seq(Nat) /\ Len(Stretch(a, k)) = k
             /\ \A i \in 1 .. k : Stretch(a, k)[i] = a + i - 1
  <2>1. Stretch(a, k) \in [1 .. k -> Nat]
    BY DEF Stretch
  <2>2. Stretch(a, k) \in Seq(Nat)
    BY <2>1, SeqDef
  <2>3. Len(Stretch(a, k)) = k
    BY <2>1, <2>2, LenProperties
  <2> QED BY <2>2, <2>3 DEF Stretch
<1>2. /\ s \in Seq(Nat) /\ Len(s) = m /\ \A i \in 1 .. m : s[i] = from + i - 1
  BY <1>1
<1>3. /\ t \in Seq(Nat) /\ Len(t) = n /\ \A i \in 1 .. n : t[i] = (from + m) + i - 1
  <2>1. from + m \in Nat
    OBVIOUS
  <2> QED BY <1>1, <2>1
<1>4. /\ u \in Seq(Nat) /\ Len(u) = m + n /\ \A i \in 1 .. m + n : u[i] = from + i - 1
  <2>1. m + n \in Nat
    OBVIOUS
  <2> QED BY <1>1, <2>1
<1> HIDE DEF s, t, u
<1>5. /\ s \o t \in Seq(Nat) /\ Len(s \o t) = m + n
      /\ \A i \in 1 .. m + n : (s \o t)[i] = IF i <= m THEN s[i] ELSE t[i - m]
  <2>1. s \in Seq(Nat) /\ t \in Seq(Nat) /\ Len(s) = m /\ Len(t) = n
    BY <1>2, <1>3
  <2>2. /\ s \o t \in Seq(Nat) /\ Len(s \o t) = Len(s) + Len(t)
        /\ \A i \in 1 .. Len(s) + Len(t) :
              (s \o t)[i] = IF i <= Len(s) THEN s[i] ELSE t[i - Len(s)]
    BY <2>1, ConcatProperties, Zenon
  <2> QED BY <2>1, <2>2
<1>6. ASSUME NEW i \in 1 .. m + n PROVE (s \o t)[i] = u[i]
  <2>1. CASE i <= m
    <3>1. i \in 1 .. m
      BY <2>1
    <3> QED BY <1>2, <1>4, <1>5, <2>1, <3>1
  <2>2. CASE ~(i <= m)
    <3>1. i - m \in 1 .. n /\ (from + m) + (i - m) - 1 = from + i - 1
      BY <2>2
    <3>2. t[i - m] = (from + m) + (i - m) - 1
      BY <1>3, <3>1
    <3> QED BY <1>4, <1>5, <2>2, <3>1, <3>2
  <2> QED BY <2>1, <2>2
<1>7. s \o t = u
  BY <1>4, <1>5, <1>6, SeqEqual
<1> QED BY <1>7 DEF s, t, u

LEMMA BlockNumber ==
    ASSUME NEW q \in Nat, NEW r \in Nat, r < baseSize_
    PROVE  /\ q * baseSize_ \in Nat
           /\ (q * baseSize_ + r) \div baseSize_ = q /\ (q * baseSize_ + r) % baseSize_ = r
           /\ (q + 1) * baseSize_ = q * baseSize_ + baseSize_
<1>1. baseSize_ \in Nat \ {0}
  BY baseSizeAssumption
<1> QED BY <1>1, SMT

LEMMA BlockEnds ==
    ASSUME NEW q \in Nat, NEW c \in Nat, q < c
    PROVE  (q + 1) * baseSize_ <= c * baseSize_
<1>1. baseSize_ \in Nat \ {0}
  BY baseSizeAssumption
<1> QED BY <1>1, SMT

-----------------------------------------------------------------------------
(* The copy loop: after k rounds it goes on behind what it has copied, is  *)
(* done, or has met the end of the last block.                             *)
From == Start(cur_, position_)

CopyRuns(s, n, k) ==
    /\ cur_ # Null
    /\ s.ok /\ s.left \in 1 .. n
    /\ s.node \in k .. Nodes - 1 /\ s.npos \in 0 .. baseSize_ - 1
    /\ s.node * baseSize_ + s.npos = From + (n - s.left)
    /\ s.at = Stretch(From, n - s.left)

CopyDone(s, n) ==
    /\ s.ok /\ s.left = 0
    /\ s.at = Stretch(From, n)
    /\ s.node = NodeAfter(cur_, position_, n, capacity_)
    /\ Inside(cur_, position_, n, capacity_)

CopyFails(s, n) == ~s.ok /\ ~Inside(cur_, position_, n, capacity_)

(* The blocks there are.                                                   *)
LEMMA Blocks ==
    ASSUME IndInv
    PROVE  /\ Nodes \in Nat /\ Nodes > 0 /\ capacity_ \in Nat /\ position_ \in Nat
           /\ capacity_ = Nodes * baseSize_ /\ baseSize_ \in Nat /\ baseSize_ > 0
           /\ cur_ # Null => /\ cur_ \in 0 .. Nodes - 1
                             /\ position_ % baseSize_ \in 0 .. baseSize_ - 1
                             /\ From = cur_ * baseSize_ + (position_ % baseSize_)
                             /\ From \in Nat /\ From = position_ /\ position_ < capacity_
<1>1. /\ capacity_ \in Nat /\ position_ \in Nat /\ position_ <= capacity_
      /\ baseSize_ \in Nat /\ baseSize_ > 0
  BY Shape, baseSizeAssumption
<1>2. Nodes \in Nat /\ Nodes > 0 /\ capacity_ = Nodes * baseSize_
  BY <1>1, DivMod DEF IndInv, Consistent, Nodes
<1>3. ASSUME cur_ # Null
      PROVE  /\ cur_ \in 0 .. Nodes - 1 /\ position_ % baseSize_ \in 0 .. baseSize_ - 1
             /\ From = position_ /\ position_ < capacity_
  <2>1. From = position_ /\ position_ < capacity_
    BY <1>1, <1>3, CurIsStart DEF From
  <2>2. cur_ = position_ \div baseSize_ /\ cur_ \in Nat /\ cur_ < Nodes
    BY <1>1, <1>3, Shape, DivMod DEF Block, Nodes
  <2>3. position_ % baseSize_ \in 0 .. baseSize_ - 1
    BY <1>1, SMT
  <2> QED BY <1>2, <2>1, <2>2, <2>3
<1> QED BY <1>1, <1>2, <1>3 DEF From, Start

LEMMA CopyBegins ==
    ASSUME IndInv, NEW n \in Nat
    PROVE  LET s == CopyStart(n) IN CopyRuns(s, n, 0) \/ CopyDone(s, n) \/ CopyFails(s, n)
<1> DEFINE s == CopyStart(n)
<1>1. /\ s.node = cur_ /\ s.npos = position_ % baseSize_ /\ s.left = n /\ s.at = <<>>
      /\ s.ok = (cur_ # Null)
  BY DEF CopyStart
<1>2. Stretch(From, 0) = <<>>
  BY DEF Stretch
<1> HIDE DEF s
<1>3. CASE cur_ = Null
  <2>1. ~s.ok
    BY <1>1, <1>3, Zenon
  <2> QED BY <1>3, <2>1 DEF CopyFails, Inside, s
<1>4. CASE cur_ # Null
  <2>1. s.ok
    BY <1>1, <1>4, Zenon
  <2>2. CASE n = 0
    <3>1. NodeAfter(cur_, position_, 0, capacity_) = cur_
      <4>1. (From + 0) \div baseSize_ = cur_
        BY <1>4, Blocks, BlockNumber
      <4> QED BY <1>4, <4>1, Blocks DEF NodeAfter, Block, From, Nodes
    <3>2. Inside(cur_, position_, 0, capacity_)
      BY <1>4, Blocks DEF Inside, From
    <3>3. s.left = 0 /\ s.at = Stretch(From, n) /\ s.node = NodeAfter(cur_, position_, n, capacity_)
      BY <1>1, <1>2, <2>2, <3>1
    <3> QED BY <2>1, <2>2, <3>2, <3>3 DEF CopyDone, s
  <2>3. CASE n > 0
    <3>1. s.left \in 1 .. n /\ n - s.left = 0
      BY <1>1, <2>3
    <3>2. /\ s.node \in 0 .. Nodes - 1 /\ s.npos \in 0 .. baseSize_ - 1
          /\ s.node * baseSize_ + s.npos = From + (n - s.left)
      BY <1>1, <1>4, <3>1, Blocks
    <3>3. s.at = Stretch(From, n - s.left)
      BY <1>1, <1>2, <3>1
    <3> QED BY <1>4, <2>1, <3>1, <3>2, <3>3 DEF CopyRuns, s
  <2> QED BY <2>2, <2>3
<1> QED BY <1>3, <1>4

LEMMA CopyGoesOn ==
    ASSUME IndInv, NEW n \in Nat, NEW k \in Nat, NEW s, CopyRuns(s, n, k)
    PROVE  \/ CopyRuns(CopyRound(s), n, k + 1)
           \/ CopyDone(CopyRound(s), n) \/ CopyFails(CopyRound(s), n)
<1> DEFINE ncap == baseSize_ - s.npos
           c == n - s.left
           t == CopyRound(s)
<1>1. /\ s.ok /\ s.left \in Nat /\ s.left > 0 /\ s.left <= n
      /\ s.node \in Nat /\ s.node >= k /\ s.node < Nodes
      /\ s.npos \in Nat /\ s.npos < baseSize_
      /\ s.node * baseSize_ + s.npos = From + c /\ s.at = Stretch(From, c)
  BY Blocks DEF CopyRuns
<1>2. t = CopyBody(s)
  BY <1>1 DEF CopyRound
<1>3. c \in Nat /\ c + s.left = n /\ ncap \in Nat /\ ncap > 0
  BY <1>1, Blocks
<1>4. /\ cur_ # Null /\ From \in Nat
      /\ Inside(cur_, position_, n, capacity_) <=> From + n <= Nodes * baseSize_
  BY Blocks DEF CopyRuns, Inside, From
<1>5. /\ s.node * baseSize_ \in Nat /\ (s.node + 1) * baseSize_ = s.node * baseSize_ + baseSize_
      /\ (s.node + 1) * baseSize_ <= Nodes * baseSize_
  BY <1>1, Blocks, BlockNumber, BlockEnds
<1>6. ASSUME NEW l \in Nat
      PROVE  s.at \o Addresses(s.node, s.npos, l) = Stretch(From, c + l)
  <2>1. Addresses(s.node, s.npos, l) = Stretch(From + c, l)
    <3>1. \A i \in 1 .. l : s.node * baseSize_ + s.npos + i - 1 = From + c + i - 1
      BY <1>1
    <3> QED BY <3>1 DEF Addresses, Stretch
  <2> HIDE DEF c
  <2>2. Stretch(From, c) \o Stretch(From + c, l) = Stretch(From, c + l)
    <3>1. From \in Nat /\ c \in Nat
      BY <1>3, <1>4
    <3> QED BY <3>1, StretchOn, Zenon
  <2> QED BY <1>1, <2>1, <2>2
<1>7. CASE ncap >= s.left
  <2>1. /\ t.node = IF s.npos + s.left = baseSize_ THEN next(s.node) ELSE s.node
        /\ t.left = 0 /\ t.ok
        /\ t.at = s.at \o Addresses(s.node, s.npos, s.left)
    <3>1. t = [node |-> IF s.npos + s.left = baseSize_ THEN next(s.node) ELSE s.node,
               npos |-> s.npos, left |-> 0,
               at |-> s.at \o Addresses(s.node, s.npos, s.left), ok |-> TRUE]
      BY <1>2, <1>7, Zenon DEF CopyBody
    <3> HIDE DEF t
    <3> QED BY <3>1
  <2>2. t.at = Stretch(From, n)
    BY <1>1, <1>3, <1>6, <2>1
  <2>3. From + n = s.node * baseSize_ + (s.npos + s.left) /\ s.npos + s.left <= baseSize_
    BY <1>1, <1>3, <1>4, <1>5, <1>7, Blocks
  <2>4. Inside(cur_, position_, n, capacity_)
    <3>1. Nodes * baseSize_ \in Nat
      BY Blocks
    <3> QED BY <1>1, <1>4, <1>5, <2>3, <3>1, Blocks
  <2>5. t.node = Block((From + n) \div baseSize_, capacity_)
    <3>1. CASE s.npos + s.left = baseSize_
      <4>1. From + n = (s.node + 1) * baseSize_ + 0
        BY <1>1, <1>5, <2>3, <3>1, Blocks
      <4>2. (From + n) \div baseSize_ = s.node + 1
        <5>1. s.node + 1 \in Nat /\ 0 \in Nat /\ 0 < baseSize_
          BY <1>1, Blocks
        <5> QED BY <4>1, <5>1, BlockNumber
      <4> QED BY <2>1, <3>1, <4>2 DEF next, Block, Nodes
    <3>2. CASE s.npos + s.left # baseSize_
      <4>1. s.npos + s.left \in Nat /\ s.npos + s.left < baseSize_
        BY <1>1, <2>3, <3>2, Blocks
      <4>2. (From + n) \div baseSize_ = s.node
        BY <1>1, <2>3, <4>1, BlockNumber
      <4> QED BY <1>1, <2>1, <3>2, <4>2 DEF Block, Nodes
    <3> QED BY <3>1, <3>2
  <2> HIDE DEF t
  <2>6. CopyDone(t, n)
    BY <2>1, <2>2, <2>4, <2>5 DEF CopyDone, NodeAfter, From
  <2> QED BY <2>6 DEF t
<1>8. CASE ~(ncap >= s.left)
  <2>1. /\ t.node = next(s.node) /\ t.npos = 0 /\ t.left = s.left - ncap
        /\ t.at = s.at \o Addresses(s.node, s.npos, ncap)
        /\ t.ok = (next(s.node) # Null)
    <3>1. t = [node |-> next(s.node), npos |-> 0, left |-> s.left - ncap,
               at |-> s.at \o Addresses(s.node, s.npos, ncap), ok |-> next(s.node) # Null]
      BY <1>2, <1>8, Zenon DEF CopyBody
    <3> HIDE DEF t, ncap
    <3> QED BY <3>1
  <2> HIDE DEF t
  <2>2. t.left \in 1 .. n /\ n - t.left = c + ncap
    <3> HIDE DEF ncap
    <3>1. ~(ncap >= s.left) /\ t.left = s.left - ncap
      BY <1>8, <2>1
    <3> QED BY <1>1, <1>3, <3>1
  <2>3. t.at = Stretch(From, n - t.left)
    BY <1>3, <1>6, <2>1, <2>2
  <2>4. From + (n - t.left) = (s.node + 1) * baseSize_
    <3>1. From + (n - t.left) = (From + c) + (baseSize_ - s.npos)
      BY <1>3, <1>4, <2>2
    <3> HIDE DEF c
    <3> QED BY <1>1, <1>3, <1>4, <1>5, <3>1, Blocks
  <2>5. CASE s.node + 1 < Nodes
    <3>1. t.node = s.node + 1 /\ t.node # Null
      BY <1>1, <2>1, <2>5 DEF next, Null
    <3>2. t.ok
      BY <2>1, <3>1, Zenon
    <3>3. t.node \in k + 1 .. Nodes - 1 /\ t.npos \in 0 .. baseSize_ - 1
      <4>1. t.node >= k + 1 /\ t.node <= Nodes - 1 /\ t.node \in Nat
        <5>1. s.node \in Nat /\ s.node >= k /\ Nodes \in Nat
          BY <1>1, Blocks
        <5> QED BY <2>5, <3>1, <5>1
      <4>2. t.npos = 0 /\ baseSize_ \in Nat /\ baseSize_ > 0 /\ Nodes \in Nat
        BY <2>1, Blocks
      <4> QED BY <4>1, <4>2
    <3>4. t.node * baseSize_ + t.npos = From + (n - t.left)
      BY <1>1, <1>5, <2>1, <2>4, <3>1, Blocks
    <3>5. CopyRuns(t, n, k + 1)
      BY <1>4, <2>2, <2>3, <3>2, <3>3, <3>4 DEF CopyRuns
    <3> QED BY <3>5 DEF t
  <2>6. CASE ~(s.node + 1 < Nodes)
    <3>1. next(s.node) = Null
      BY <2>6 DEF next
    <3>2. ~t.ok
      BY <2>1, <3>1, Zenon
    <3>3. s.node + 1 = Nodes
      BY <1>1, <2>6, Blocks
    <3>4. ~(From + n <= Nodes * baseSize_)
      BY <1>3, <1>4, <1>5, <2>2, <2>4, <3>3, Blocks
    <3>5. CopyFails(t, n)
      BY <1>4, <3>2, <3>4 DEF CopyFails
    <3> QED BY <3>5 DEF t
  <2> QED BY <2>5, <2>6
<1> QED BY <1>7, <1>8

LEMMA CopyStops ==
    ASSUME NEW n, NEW s, CopyDone(s, n) \/ CopyFails(s, n)
    PROVE  CopyRound(s) = s
<1>1. ~(s.ok /\ s.left > 0)
  BY DEF CopyDone, CopyFails
<1> QED BY <1>1 DEF CopyRound

LEMMA CopyEnds ==
    ASSUME IndInv, NEW n \in Nat
    PROVE  CopyDone(CopyLoop(n), n) \/ CopyFails(CopyLoop(n), n)
<1>1. Rounds \in Nat /\ Nodes \in Nat /\ Rounds = Nodes + 1
  BY Blocks DEF Rounds
<1>2. PICK f : /\ CopyLoop(n) = f[Rounds] /\ f[0] = CopyStart(n)
               /\ \A k \in 0 .. Rounds - 1 : f[k + 1] = CopyRound(f[k])
  BY <1>1, CopyLoopIs
<1> DEFINE P(k) == CopyRuns(f[k], n, k) \/ CopyDone(f[k], n) \/ CopyFails(f[k], n)
           T == {k \in Nat : k <= Rounds => P(k)}
<1>3. P(0)
  BY <1>2, CopyBegins
<1>4. ASSUME NEW k \in Nat, k + 1 <= Rounds, P(k) PROVE P(k + 1)
  <2>1. f[k + 1] = CopyRound(f[k])
    <3>1. k \in 0 .. Rounds - 1
      BY <1>1, <1>4
    <3> QED BY <1>2, <3>1
  <2>2. CASE CopyRuns(f[k], n, k)
    BY <2>1, <2>2, CopyGoesOn
  <2>3. CASE CopyDone(f[k], n) \/ CopyFails(f[k], n)
    <3>1. f[k + 1] = f[k]
      BY <2>1, <2>3, CopyStops
    <3> QED BY <2>3, <3>1
  <2> QED BY <1>4, <2>2, <2>3
<1> HIDE DEF P
<1>5. 0 \in T
  BY <1>3
<1>6. ASSUME NEW k \in T PROVE k + 1 \in T
  <2>1. k \in Nat /\ (k + 1 <= Rounds => k <= Rounds)
    BY <1>1
  <2> QED BY <1>4, <2>1
<1>7. T = Nat
  <2> HIDE DEF T
  <2>1. T \in SUBSET Nat
    BY DEF T
  <2> QED BY <1>5, <1>6, <2>1, SetInduction
<1>8. P(Rounds)
  <2>1. Rounds \in T /\ Rounds <= Rounds
    BY <1>1, <1>7
  <2> QED BY <2>1
<1>9. ~CopyRuns(f[Rounds], n, Rounds)
  BY <1>1 DEF CopyRuns
<1> QED BY <1>2, <1>8, <1>9 DEF P

LEMMA CopyIsSpan == IndInv => LoopIsSpan
<1> SUFFICES ASSUME IndInv, NEW n \in 0 .. MaxLen
             PROVE  LET copy == CopyLoop(n)
                    IN /\ copy.ok <=> Inside(cur_, position_, n, capacity_)
                       /\ copy.ok =>
                            /\ copy.left = 0
                            /\ copy.at = [i \in 1 .. n |-> Start(cur_, position_) + i - 1]
                            /\ copy.node = NodeAfter(cur_, position_, n, capacity_)
  BY DEF LoopIsSpan
<1>1. n \in Nat
  BY BoundAssumption
<1>2. CopyDone(CopyLoop(n), n) \/ CopyFails(CopyLoop(n), n)
  BY <1>1, CopyEnds
<1> QED BY <1>2 DEF CopyDone, CopyFails, Stretch, From

-----------------------------------------------------------------------------
(* The loop of writeToFile.  Where the first piece is whole, it goes on    *)
(* behind what it has written, in the block of pos, or is done.            *)
FileRuns(s, k) ==
    /\ s.ok /\ s.left \in 1 .. getReadSize
    /\ s.pos = position_ + (getReadSize - s.left)
    /\ s.node \in k .. Nodes - 1 /\ s.node = s.pos \div baseSize_
    /\ (s.pos % baseSize_ = 0 \/ s.left >= baseSize_)
    /\ s.at = Stretch(position_, getReadSize - s.left)

FileDone(s) == s.ok /\ s.left = 0 /\ s.at = Stretch(position_, getReadSize)

(* Otherwise, after a first piece that is too short, it has as many bytes  *)
(* left as were skipped in the first block, and writes no more.            *)
FileStuck(s) ==
    \/ ~s.ok
    \/ /\ s.left = position_ % baseSize_
       /\ s.pos % baseSize_ = getReadSize /\ s.pos \in Nat
       /\ s.left <= getReadSize

WholePieces ==
    getReadSize = 0 \/ getReadSize >= baseSize_ \/ position_ % baseSize_ = 0

LEMMA FileBegins ==
    ASSUME IndInv, WholePieces
    PROVE  FileRuns(FileStart, 0) \/ FileDone(FileStart)
<1> DEFINE s == FileStart
           R == getReadSize
<1>1. s.node = cur_ /\ s.pos = position_ /\ s.left = R /\ s.at = <<>> /\ s.ok
  BY DEF FileStart
<1>2. Stretch(position_, 0) = <<>>
  BY DEF Stretch
<1>3. R \in Nat /\ position_ + R = size_
  BY Shape DEF getReadSize
<1> HIDE DEF s, R
<1>4. CASE R = 0
  <2>1. s.left = 0 /\ s.at = Stretch(position_, R)
    BY <1>1, <1>2, <1>4
  <2> QED BY <1>1, <2>1 DEF FileDone, s, R
<1>5. CASE R > 0
  <2>1. position_ < capacity_
    BY <1>3, <1>5, Shape
  <2>2. cur_ \in 0 .. Nodes - 1 /\ cur_ = position_ \div baseSize_
    <3>1. cur_ # Null
      BY <2>1, Shape, CurIsStart
    <3>2. cur_ = position_ \div baseSize_
      BY <2>1, Shape, StartAtPosition
    <3> QED BY <3>1, <3>2, Blocks
  <2>3. R \in 1 .. R /\ R - s.left = 0 /\ s.pos = position_ + (R - s.left)
    BY <1>1, <1>3, <1>5, Shape
  <2>4. s.at = Stretch(position_, R - s.left)
    BY <1>1, <1>2, <2>3
  <2>5. s.pos % baseSize_ = 0 \/ s.left >= baseSize_
    BY <1>1, <1>5 DEF WholePieces, R
  <2>6. s.left \in 1 .. R /\ s.node \in 0 .. Nodes - 1 /\ s.node = s.pos \div baseSize_
    BY <1>1, <2>2, <2>3
  <2> QED BY <1>1, <2>3, <2>4, <2>5, <2>6 DEF FileRuns, s, R
<1> QED BY <1>3, <1>4, <1>5

LEMMA FileGoesOn ==
    ASSUME IndInv, NEW k \in Nat, NEW s, FileRuns(s, k)
    PROVE  FileRuns(FileRound(s), k + 1) \/ FileDone(FileRound(s))
<1> DEFINE R == getReadSize
           c == R - s.left
           r == s.pos % baseSize_
           len == (IF s.left > baseSize_ THEN baseSize_ ELSE s.left) - r
           t == FileRound(s)
<1>1. R \in Nat /\ position_ \in Nat /\ position_ + R <= Nodes * baseSize_
  BY Shape, Blocks DEF getReadSize
<1>2. /\ s.ok /\ s.left \in Nat /\ s.left > 0 /\ s.left <= R
      /\ s.node \in Nat /\ s.node >= k /\ s.node < Nodes
      /\ s.pos = position_ + c /\ s.at = Stretch(position_, c)
      /\ (r = 0 \/ s.left >= baseSize_)
      /\ s.node = s.pos \div baseSize_
  BY <1>1, Blocks DEF FileRuns
<1>3. c \in Nat /\ c + s.left = R
  BY <1>1, <1>2
<1>4. r \in Nat /\ r < baseSize_ /\ s.node * baseSize_ + r = position_ + c
  <2>1. s.pos \in Nat
    BY <1>1, <1>2, <1>3
  <2>2. r < baseSize_
    BY <2>1, Blocks, SMT
  <2> QED BY <1>2, <2>1, <2>2, DivMod
<1>5. r = 0 \/ s.left >= baseSize_
  BY <1>2
<1>6. /\ s.node * baseSize_ \in Nat
      /\ (s.node + 1) * baseSize_ = s.node * baseSize_ + baseSize_
  BY <1>2, <1>4, BlockNumber
<1>7. len \in Nat /\ len > 0 /\ len <= s.left
  <2> HIDE DEF r
  <2> QED BY <1>2, <1>4, <1>5, Blocks
<1>8. s.left - len = 0 \/ len = baseSize_ - r
  <2> HIDE DEF r
  <2> QED BY <1>2, <1>4, <1>5, Blocks
<1>9. s.node # Null /\ ~(len < 0)
  <2> HIDE DEF len
  <2> QED BY <1>2, <1>7 DEF Null
<1>10. t = [node |-> next(s.node), pos |-> s.pos + len, left |-> s.left - len,
            at |-> s.at \o Addresses(s.node, r, len), ok |-> TRUE]
  <2>1. t = FileBody(s)
    BY <1>2 DEF FileRound
  <2> QED BY <1>9, <2>1, Zenon DEF FileBody
<1> HIDE DEF t, len, r
<1>11. /\ t.node = next(s.node) /\ t.pos = s.pos + len /\ t.left = s.left - len
       /\ t.at = s.at \o Addresses(s.node, r, len) /\ t.ok
  BY <1>10
<1>12. t.at = Stretch(position_, c + len)
  <2>1. Addresses(s.node, r, len) = Stretch(position_ + c, len)
    <3>1. \A i \in 1 .. len : s.node * baseSize_ + r + i - 1 = position_ + c + i - 1
      BY <1>4
    <3> QED BY <3>1 DEF Addresses, Stretch
  <2> HIDE DEF c
  <2>2. Stretch(position_, c) \o Stretch(position_ + c, len) = Stretch(position_, c + len)
    <3>1. position_ \in Nat /\ c \in Nat /\ len \in Nat
      BY <1>1, <1>3, <1>7
    <3> QED BY <3>1, StretchOn, Zenon
  <2> QED BY <1>2, <1>11, <2>1, <2>2
<1>13. t.left \in Nat /\ t.left <= R /\ R - t.left = c + len
  <2>1. R \in Nat /\ s.left \in Nat /\ s.left <= R
    BY <1>1, <1>2
  <2>2. len \in Nat /\ len <= s.left /\ t.left = s.left - len
    BY <1>7, <1>11
  <2> HIDE DEF R
  <2> QED BY <2>1, <2>2
<1> HIDE DEF c, R
<1>14. CASE t.left = 0
  <2>1. c + len = R
    BY <1>1, <1>3, <1>7, <1>13, <1>14
  <2> QED BY <1>11, <1>12, <1>14, <2>1 DEF FileDone, t, R
<1>15. CASE t.left > 0
  <2>1. len = baseSize_ - r
    BY <1>8, <1>11, <1>15
  <2>2. t.pos = (s.node + 1) * baseSize_ + 0
    <3> DEFINE x == s.node * baseSize_
    <3>1. x \in Nat /\ (s.node + 1) * baseSize_ = x + baseSize_ /\ x + r = position_ + c
      BY <1>4, <1>6
    <3>2. t.pos = (position_ + c) + (baseSize_ - r)
      BY <1>2, <1>11, <2>1
    <3>3. r \in Nat /\ baseSize_ \in Nat /\ position_ \in Nat /\ c \in Nat
      BY <1>1, <1>3, <1>4, Blocks
    <3> HIDE DEF x
    <3>4. (position_ + c) + (baseSize_ - r) = x + baseSize_
      BY <3>1, <3>3
    <3> QED BY <3>1, <3>2, <3>3, <3>4
  <2>3. s.node + 1 \in Nat /\ t.pos \div baseSize_ = s.node + 1 /\ t.pos % baseSize_ = 0
    <3>1. s.node + 1 \in Nat /\ 0 \in Nat /\ 0 < baseSize_
      BY <1>2, Blocks
    <3> QED BY <2>2, <3>1, BlockNumber
  <2>4. t.pos = position_ + (R - t.left)
    BY <1>1, <1>2, <1>3, <1>7, <1>11, <1>13
  <2>5. s.node + 1 < Nodes
    <3>1. (s.node + 1) * baseSize_ < Nodes * baseSize_
      BY <1>1, <1>6, <1>13, <1>15, <2>2, <2>4, Blocks
    <3>2. s.node + 1 = Nodes => FALSE
      BY <3>1, Blocks
    <3> QED BY <1>2, <3>2, Blocks
  <2>6. t.node = s.node + 1
    BY <1>11, <2>5 DEF next
  <2>7. t.left \in 1 .. R /\ t.node \in k + 1 .. Nodes - 1
    BY <1>1, <1>2, <1>13, <1>15, <2>5, <2>6, Blocks
  <2>8. t.at = Stretch(position_, R - t.left)
    BY <1>12, <1>13
  <2>9. FileRuns(t, k + 1)
    BY <1>11, <2>3, <2>4, <2>6, <2>7, <2>8 DEF FileRuns, R
  <2> QED BY <2>9 DEF t
<1> QED BY <1>13, <1>14, <1>15

LEMMA FileStops ==
    ASSUME NEW s, FileDone(s)
    PROVE  FileRound(s) = s
<1>1. ~(s.ok /\ s.left > 0)
  BY DEF FileDone
<1> QED BY <1>1 DEF FileRound

LEMMA FileEnds ==
    ASSUME IndInv, WholePieces
    PROVE  FileDone(writeToFile)
<1>1. Rounds \in Nat /\ Nodes \in Nat /\ Rounds = Nodes + 1
  BY Blocks DEF Rounds
<1>2. PICK f : /\ writeToFile = f[Rounds] /\ f[0] = FileStart
               /\ \A k \in 0 .. Rounds - 1 : f[k + 1] = FileRound(f[k])
  BY <1>1, FileLoopIs
<1> DEFINE P(k) == FileRuns(f[k], k) \/ FileDone(f[k])
           T == {k \in Nat : k <= Rounds => P(k)}
<1>3. P(0)
  BY <1>2, FileBegins
<1>4. ASSUME NEW k \in Nat, k + 1 <= Rounds, P(k) PROVE P(k + 1)
  <2>1. f[k + 1] = FileRound(f[k])
    <3>1. k \in 0 .. Rounds - 1
      BY <1>1, <1>4
    <3> QED BY <1>2, <3>1
  <2>2. CASE FileRuns(f[k], k)
    BY <2>1, <2>2, FileGoesOn
  <2>3. CASE FileDone(f[k])
    <3>1. f[k + 1] = f[k]
      BY <2>1, <2>3, FileStops
    <3> QED BY <2>3, <3>1
  <2> QED BY <1>4, <2>2, <2>3
<1> HIDE DEF P
<1>5. 0 \in T
  BY <1>3
<1>6. ASSUME NEW k \in T PROVE k + 1 \in T
  <2>1. k \in Nat /\ (k + 1 <= Rounds => k <= Rounds)
    BY <1>1
  <2> QED BY <1>4, <2>1
<1>7. T = Nat
  <2> HIDE DEF T
  <2>1. T \in SUBSET Nat
    BY DEF T
  <2> QED BY <1>5, <1>6, <2>1, SetInduction
<1>8. P(Rounds)
  <2>1. Rounds \in T /\ Rounds <= Rounds
    BY <1>1, <1>7
  <2> QED BY <2>1
<1>9. ~FileRuns(f[Rounds], Rounds)
  BY <1>1 DEF FileRuns
<1> QED BY <1>2, <1>8, <1>9 DEF P

LEMMA LessThanABlock ==
    ASSUME IndInv, ~WholePieces
    PROVE  LET R == getReadSize
               d == position_ % baseSize_
           IN /\ R \in Nat /\ R > 0 /\ R < baseSize_
              /\ d \in Nat /\ d > 0 /\ d < baseSize_
              /\ position_ \in Nat /\ baseSize_ \in Nat
<1> DEFINE R == getReadSize
           d == position_ % baseSize_
<1>1. R \in Nat /\ position_ \in Nat /\ baseSize_ \in Nat /\ baseSize_ > 0
  BY Shape, Blocks DEF getReadSize
<1>2. d \in Nat
  BY <1>1, DivMod
<1>3. d < baseSize_
  BY <1>1, SMT
<1>4. R # 0 /\ ~(R >= baseSize_) /\ d # 0
  BY DEF WholePieces
<1> HIDE DEF R, d
<1>5. R > 0 /\ R < baseSize_ /\ d > 0
  BY <1>1, <1>2, <1>4
<1> QED BY <1>1, <1>2, <1>3, <1>5 DEF R, d

(* The first piece is too short, ...                                       *)
LEMMA FileCutShort ==
    ASSUME IndInv, ~WholePieces
    PROVE  FileStuck(FileRound(FileStart))
<1> DEFINE s == FileStart
           R == getReadSize
           d == position_ % baseSize_
           t == FileRound(FileStart)
<1>1. /\ R \in Nat /\ R > 0 /\ R < baseSize_ /\ d \in Nat /\ d > 0 /\ d < baseSize_
      /\ position_ \in Nat /\ baseSize_ \in Nat
  BY LessThanABlock
<1>2. s.node = cur_ /\ s.pos = position_ /\ s.left = R /\ s.at = <<>> /\ s.ok
  BY DEF FileStart
<1>3. t = FileBody(s)
  <2> HIDE DEF s, R
  <2>1. s.ok /\ s.left > 0
    BY <1>1, <1>2
  <2> QED BY <2>1 DEF FileRound, s
<1> DEFINE len == (IF s.left > baseSize_ THEN baseSize_ ELSE s.left) - (s.pos % baseSize_)
<1> HIDE DEF s, t, R, d
<1>4. len = R - d
  <2>1. ~(s.left > baseSize_) /\ s.pos % baseSize_ = d /\ s.left = R
    BY <1>1, <1>2 DEF d
  <2> QED BY <2>1
<1>5. CASE s.node = Null \/ len < 0
  <2>1. t = [node |-> s.node, pos |-> s.pos, left |-> s.left, at |-> s.at, ok |-> FALSE]
    BY <1>3, <1>5, Zenon DEF FileBody
  <2>2. ~t.ok
    BY <2>1
  <2> QED BY <2>2 DEF FileStuck, t
<1>6. CASE ~(s.node = Null \/ len < 0)
  <2>1. t = [node |-> next(s.node), pos |-> s.pos + len, left |-> s.left - len,
             at |-> s.at \o Addresses(s.node, s.pos % baseSize_, len), ok |-> TRUE]
    BY <1>3, <1>6, Zenon DEF FileBody
  <2>2. t.pos = s.pos + len /\ t.left = s.left - len
    <3> HIDE DEF len
    <3> QED BY <2>1
  <2>3. d <= R
    BY <1>1, <1>4, <1>6
  <2> HIDE DEF len
  <2>4. t.left = d /\ t.pos = position_ + (R - d)
    BY <1>1, <1>2, <1>4, <2>2
  <2>5. t.pos \in Nat /\ t.pos % baseSize_ = R
    <3>1. position_ \div baseSize_ \in Nat /\ (position_ \div baseSize_) * baseSize_ + d = position_
      BY <1>1, DivMod DEF d
    <3>2. (position_ \div baseSize_) * baseSize_ \in Nat
      BY <1>1, <3>1
    <3>3. t.pos = (position_ \div baseSize_) * baseSize_ + R
      BY <1>1, <2>4, <3>1, <3>2
    <3>4. ((position_ \div baseSize_) * baseSize_ + R) % baseSize_ = R
      BY <1>1, <3>1, BlockNumber
    <3>5. t.pos \in Nat
      BY <1>1, <3>2, <3>3
    <3> QED BY <3>3, <3>4, <3>5
  <2> QED BY <2>3, <2>4, <2>5 DEF FileStuck, t, d, R
<1> QED BY <1>5, <1>6

(* ... and nothing after it gets the loop to its end.                      *)
LEMMA FileStaysStuck ==
    ASSUME IndInv, ~WholePieces, NEW s, FileStuck(s)
    PROVE  FileStuck(FileRound(s))
<1> DEFINE R == getReadSize
           d == position_ % baseSize_
           t == FileRound(s)
           len == (IF s.left > baseSize_ THEN baseSize_ ELSE s.left) - (s.pos % baseSize_)
<1>1. /\ R \in Nat /\ R > 0 /\ R < baseSize_ /\ d \in Nat /\ d > 0 /\ d < baseSize_
      /\ position_ \in Nat /\ baseSize_ \in Nat
  BY LessThanABlock
<1>2. CASE ~s.ok
  <2>1. FileRound(s) = s
    BY <1>2 DEF FileRound
  <2> QED BY <2>1
<1>3. CASE s.ok
  <2>1. /\ s.left = d /\ s.pos % baseSize_ = R /\ s.pos \in Nat /\ d <= R
    BY <1>3 DEF FileStuck
  <2> HIDE DEF R, d, t
  <2>2. t = FileBody(s)
    BY <1>1, <1>3, <2>1 DEF FileRound, t
  <2>3. len = d - R
    BY <1>1, <2>1
  <2>4. CASE s.node = Null \/ len < 0
    <3>1. t = [node |-> s.node, pos |-> s.pos, left |-> s.left, at |-> s.at, ok |-> FALSE]
      BY <2>2, <2>4, Zenon DEF FileBody
    <3>2. ~t.ok
      BY <3>1
    <3> QED BY <3>2 DEF FileStuck, t
  <2>5. CASE ~(s.node = Null \/ len < 0)
    <3>1. t = [node |-> next(s.node), pos |-> s.pos + len, left |-> s.left - len,
               at |-> s.at \o Addresses(s.node, s.pos % baseSize_, len), ok |-> TRUE]
      BY <2>2, <2>5, Zenon DEF FileBody
    <3>2. t.pos = s.pos + len /\ t.left = s.left - len
      <4> HIDE DEF len
      <4> QED BY <3>1
    <3>3. len = 0
      BY <1>1, <2>1, <2>3, <2>5
    <3> HIDE DEF len
    <3>4. t.pos = s.pos /\ t.left = d
      BY <1>1, <2>1, <3>2, <3>3
    <3> QED BY <2>1, <3>4 DEF FileStuck, t, R, d
  <2> QED BY <2>4, <2>5
<1> QED BY <1>2, <1>3

LEMMA FileNeverEnds ==
    ASSUME IndInv, ~WholePieces
    PROVE  FileStuck(writeToFile)
<1>1. Rounds \in Nat /\ Rounds >= 1
  BY Blocks DEF Rounds
<1>2. PICK f : /\ writeToFile = f[Rounds] /\ f[0] = FileStart
               /\ \A k \in 0 .. Rounds - 1 : f[k + 1] = FileRound(f[k])
  BY <1>1, FileLoopIs
<1> DEFINE T == {k \in Nat : k + 1 <= Rounds => FileStuck(f[k + 1])}
<1>3. 0 \in T
  <2>1. 0 \in 0 .. Rounds - 1 /\ 0 + 1 = 1
    BY <1>1
  <2>2. f[0 + 1] = FileRound(f[0])
    BY <1>2, <2>1
  <2>3. FileStuck(f[0 + 1])
    BY <1>2, <2>2, FileCutShort
  <2> QED BY <2>3
<1>4. ASSUME NEW k \in T PROVE k + 1 \in T
  <2>1. k \in Nat /\ k + 1 \in Nat
    OBVIOUS
  <2>2. ASSUME (k + 1) + 1 <= Rounds PROVE FileStuck(f[(k + 1) + 1])
    <3>1. k + 1 <= Rounds /\ k + 1 \in 0 .. Rounds - 1
      BY <1>1, <2>1, <2>2
    <3>2. FileStuck(f[k + 1])
      BY <1>4, <3>1
    <3>3. f[(k + 1) + 1] = FileRound(f[k + 1])
      BY <1>2, <3>1
    <3> QED BY <3>2, <3>3, FileStaysStuck
  <2> QED BY <2>1, <2>2
<1>5. T = Nat
  <2> HIDE DEF T
  <2>1. T \in SUBSET Nat
    BY DEF T
  <2> QED BY <1>3, <1>4, <2>1, SetInduction
<1>6. Rounds - 1 \in Nat /\ (Rounds - 1) + 1 = Rounds /\ Rounds <= Rounds
  BY <1>1
<1>7. Rounds - 1 \in T
  <2> HIDE DEF T
  <2> QED BY <1>5, <1>6
<1> QED BY <1>2, <1>6, <1>7

LEMMA LoopsHold == IndInv => LoopsAreExact
<1> SUFFICES ASSUME IndInv PROVE LoopsAreExact
  OBVIOUS
<1>1. LoopIsSpan
  BY CopyIsSpan
<1>2. FileHoldsWholeBlocks
  <2>1. CASE WholePieces
    <3>1. FileDone(writeToFile)
      BY <2>1, FileEnds
    <3> QED BY <2>1, <3>1 DEF FileHoldsWholeBlocks, FileHoldsTheRest, FileDone, WholePieces, Stretch
  <2>2. CASE ~WholePieces
    <3>1. FileStuck(writeToFile)
      BY <2>2, FileNeverEnds
    <3>2. ~(writeToFile.ok /\ writeToFile.left = 0)
      BY <2>2, <3>1 DEF FileStuck, WholePieces
    <3> QED BY <2>2, <3>2 DEF FileHoldsWholeBlocks, FileHoldsTheRest, WholePieces
  <2> QED BY <2>1, <2>2
<1> QED BY <1>1, <1>2 DEF LoopsAreExact

(* The loop of write, read, getReadBuffers and getWriteBuffers, round by   *)
(* round, touches the bytes and leaves the block that write, read, Receive *)
(* and Send say, from every reachable state, for every block size and      *)
(* length; writeToFile writes what is left exactly when it is at least a   *)
(* block or starts at one.                                                 *)
THEOREM LoopSafety == Spec => []LoopsAreExact
BY Invariance, LoopsHold, PTL

-----------------------------------------------------------------------------
(* Recursive functions exist: H[x][f] is the right-hand side of the        *)
(* definition of f at x, and depends on f only at arguments of a smaller   *)
(* measure.                                                                *)
WellFounded(D, V, mu, H) ==
    /\ mu \in [D -> Nat]
    /\ H \in [D -> [[D -> V] -> V]]
    /\ \A x \in D : \A f, g \in [D -> V] :
          (\A y \in D : mu[y] < mu[x] => f[y] = g[y]) => H[x][f] = H[x][g]

Solves(D, V, H, f) == f \in [D -> V] /\ \A x \in D : f[x] = H[x][f]

LEMMA Recursion ==
    ASSUME NEW D, NEW V, V # {}, NEW mu, NEW H, WellFounded(D, V, mu, H)
    PROVE  \E f : Solves(D, V, H, f)
<1> PICK c \in V : TRUE
  OBVIOUS
<1> USE DEF WellFounded
<1> DEFINE Good(f, n) == \A x \in D : mu[x] < n => f[x] = H[x][f]
           E == {n \in Nat : \E f \in [D -> V] : Good(f, n)}
           U == {n \in Nat : \A f, g \in [D -> V] :
                    Good(f, n) /\ Good(g, n) => \A x \in D : mu[x] < n => f[x] = g[x]}
<1>1. E = Nat
  <2>1. 0 \in E
    <3>1. \A x \in D : ~(mu[x] < 0)
      OBVIOUS
    <3>2. [x \in D |-> c] \in [D -> V] /\ Good([x \in D |-> c], 0)
      BY <3>1
    <3> QED BY <3>2
  <2>2. ASSUME NEW n \in E PROVE n + 1 \in E
    <3>1. n \in Nat /\ n + 1 \in Nat
      OBVIOUS
    <3>2. PICK f \in [D -> V] : Good(f, n)
      OBVIOUS
    <3> DEFINE g == [x \in D |-> H[x][f]]
    <3>3. g \in [D -> V] /\ \A x \in D : g[x] = H[x][f]
      OBVIOUS
    <3> HIDE DEF g
    <3>4. ASSUME NEW x \in D, mu[x] < n + 1 PROVE g[x] = H[x][g]
      <4>1. ASSUME NEW y \in D, mu[y] < mu[x] PROVE f[y] = g[y]
        <5>1. mu[y] \in Nat /\ mu[x] \in Nat
          OBVIOUS
        <5>2. mu[y] < n
          BY <3>1, <3>4, <4>1, <5>1
        <5> QED BY <3>2, <3>3, <5>2
      <4>2. H[x][f] = H[x][g]
        BY <3>3, <4>1
      <4> QED BY <3>3, <4>2
    <3>5. Good(g, n + 1)
      BY <3>4
    <3> HIDE DEF Good
    <3> QED BY <3>1, <3>3, <3>5
  <2> HIDE DEF E
  <2>3. E \in SUBSET Nat
    BY DEF E
  <2> QED BY <2>1, <2>2, <2>3, SetInduction
<1>2. U = Nat
  <2>1. 0 \in U
    <3>1. \A x \in D : ~(mu[x] < 0)
      OBVIOUS
    <3> QED BY <3>1
  <2>2. ASSUME NEW n \in U PROVE n + 1 \in U
    <3>1. n \in Nat /\ n + 1 \in Nat
      OBVIOUS
    <3>2. ASSUME NEW f \in [D -> V], NEW g \in [D -> V], Good(f, n + 1), Good(g, n + 1),
                 NEW x \in D, mu[x] < n + 1
          PROVE  f[x] = g[x]
      <4>1. \A y \in D : mu[y] < n => mu[y] < n + 1
        BY <3>1
      <4>2. Good(f, n) /\ Good(g, n)
        BY <3>2, <4>1
      <4>3. ASSUME NEW y \in D, mu[y] < mu[x] PROVE f[y] = g[y]
        <5>1. mu[y] \in Nat /\ mu[x] \in Nat
          OBVIOUS
        <5>2. mu[y] < n
          BY <3>1, <3>2, <4>3, <5>1
        <5> HIDE DEF Good
        <5> QED BY <4>2, <5>2
      <4>4. H[x][f] = H[x][g]
        BY <4>3
      <4>5. f[x] = H[x][f] /\ g[x] = H[x][g]
        BY <3>2
      <4> QED BY <4>4, <4>5
    <3> HIDE DEF Good
    <3> QED BY <3>1, <3>2
  <2> HIDE DEF U
  <2>3. U \in SUBSET Nat
    BY DEF U
  <2> QED BY <2>1, <2>2, <2>3, SetInduction
<1>3. \A n \in Nat : \E f \in [D -> V] : Good(f, n)
  <2> HIDE DEF Good
  <2> QED BY <1>1
<1>4. ASSUME NEW n \in Nat, NEW f \in [D -> V], NEW g \in [D -> V], Good(f, n), Good(g, n),
             NEW x \in D, mu[x] < n
      PROVE  f[x] = g[x]
  <2> HIDE DEF Good
  <2> QED BY <1>2, <1>4
<1> DEFINE F(n) == CHOOSE f \in [D -> V] : Good(f, n)
           u == [x \in D |-> F(mu[x] + 1)[x]]
<1>5. \A n \in Nat : F(n) \in [D -> V] /\ Good(F(n), n)
  <2> HIDE DEF Good
  <2> QED BY <1>3
<1> HIDE DEF F
<1>6. u \in [D -> V] /\ \A x \in D : u[x] = F(mu[x] + 1)[x]
  <2>1. \A x \in D : mu[x] + 1 \in Nat
    OBVIOUS
  <2>2. \A x \in D : F(mu[x] + 1) \in [D -> V]
    BY <1>5, <2>1
  <2> QED BY <2>2
<1> HIDE DEF u
<1>7. ASSUME NEW x \in D PROVE u[x] = H[x][u]
  <2> DEFINE f == F(mu[x] + 1)
  <2>1. mu[x] \in Nat /\ mu[x] + 1 \in Nat /\ mu[x] < mu[x] + 1
    OBVIOUS
  <2>2. f \in [D -> V] /\ Good(f, mu[x] + 1)
    BY <1>5, <2>1
  <2> HIDE DEF f
  <2>3. ASSUME NEW y \in D, mu[y] < mu[x] PROVE f[y] = u[y]
    <3> DEFINE g == F(mu[y] + 1)
    <3>1. mu[y] \in Nat /\ mu[y] + 1 \in Nat /\ mu[y] < mu[y] + 1
      OBVIOUS
    <3>2. g \in [D -> V] /\ Good(g, mu[y] + 1) /\ u[y] = g[y]
      BY <1>5, <1>6, <3>1
    <3> HIDE DEF g
    <3>3. Good(f, mu[y] + 1)
      <4>1. \A z \in D : mu[z] < mu[y] + 1 => mu[z] < mu[x] + 1
        BY <2>1, <2>3, <3>1
      <4> QED BY <2>2, <4>1
    <3> HIDE DEF Good
    <3>4. f[y] = g[y]
      BY <1>4, <2>2, <3>1, <3>2, <3>3
    <3> QED BY <3>2, <3>4
  <2>4. H[x][f] = H[x][u]
    BY <1>6, <2>2, <2>3
  <2>5. f[x] = H[x][f]
    BY <2>1, <2>2
  <2> QED BY <1>6, <2>4, <2>5 DEF f
<1> QED BY <1>6, <1>7 DEF Solves

-----------------------------------------------------------------------------
(* Powers of two.                                                          *)
LEMMA Pow2Def ==
    /\ Pow2[0] = 1
    /\ \A n \in Nat : Pow2[n + 1] = 2 * Pow2[n]
<1> DEFINE H == [n \in Nat |-> [f \in [Nat -> Nat] |-> IF n = 0 THEN 1 ELSE 2 * f[n - 1]]]
           mu == [n \in Nat |-> n]
           u == CHOOSE f : f = [n \in Nat |-> IF n = 0 THEN 1 ELSE 2 * f[n - 1]]
<1>1. PICK f : Solves(Nat, Nat, H, f)
  <2>1. H \in [Nat -> [[Nat -> Nat] -> Nat]]
    <3>1. ASSUME NEW n \in Nat, NEW f \in [Nat -> Nat]
          PROVE  (IF n = 0 THEN 1 ELSE 2 * f[n - 1]) \in Nat
      <4>1. CASE n = 0
        BY <4>1
      <4>2. CASE n # 0
        <5>1. n - 1 \in Nat
          BY <4>2
        <5>2. f[n - 1] \in Nat
          BY <5>1
        <5> QED BY <4>2, <5>2
      <4> QED BY <4>1, <4>2
    <3> QED BY <3>1
  <2>2. ASSUME NEW n \in Nat, NEW f \in [Nat -> Nat], NEW g \in [Nat -> Nat],
               \A m \in Nat : mu[m] < mu[n] => f[m] = g[m]
        PROVE  H[n][f] = H[n][g]
    <3>1. n # 0 => n - 1 \in Nat /\ mu[n - 1] < mu[n]
      OBVIOUS
    <3> QED BY <2>2, <3>1
  <2>3. mu \in [Nat -> Nat] /\ Nat # {}
    OBVIOUS
  <2> HIDE DEF H, mu
  <2>4. WellFounded(Nat, Nat, mu, H)
    BY <2>1, <2>2, <2>3 DEF WellFounded
  <2> QED BY <2>3, <2>4, Recursion
<1>2. f = [n \in Nat |-> IF n = 0 THEN 1 ELSE 2 * f[n - 1]]
  <2>1. f \in [Nat -> Nat] /\ \A n \in Nat : f[n] = IF n = 0 THEN 1 ELSE 2 * f[n - 1]
    BY <1>1 DEF Solves
  <2> QED BY <2>1
<1>3. u = [n \in Nat |-> IF n = 0 THEN 1 ELSE 2 * u[n - 1]]
  BY <1>2
<1>4. Pow2 = u
  BY DEF Pow2
<1> HIDE DEF u
<1>5. \A n \in Nat : Pow2[n] = IF n = 0 THEN 1 ELSE 2 * Pow2[n - 1]
  BY <1>3, <1>4
<1>6. ASSUME NEW n \in Nat PROVE Pow2[n + 1] = 2 * Pow2[n]
  <2>1. n + 1 \in Nat /\ n + 1 # 0 /\ (n + 1) - 1 = n
    OBVIOUS
  <2> QED BY <1>5, <2>1
<1> QED BY <1>5, <1>6

LEMMA Pow2Type ==
    ASSUME NEW n \in Nat
    PROVE  Pow2[n] \in Nat /\ Pow2[n] > 0
<1> DEFINE T == {m \in Nat : Pow2[m] \in Nat /\ Pow2[m] > 0}
<1>1. 0 \in T
  BY Pow2Def
<1>2. ASSUME NEW m \in T PROVE m + 1 \in T
  <2>1. Pow2[m + 1] = 2 * Pow2[m] /\ Pow2[m] \in Nat /\ Pow2[m] > 0
    BY Pow2Def
  <2> QED BY <2>1
<1>3. T = Nat
  <2> HIDE DEF T
  <2>1. T \in SUBSET Nat
    BY DEF T
  <2> QED BY <1>1, <1>2, <2>1, SetInduction
<1> QED BY <1>3

LEMMA Pow2Sum ==
    ASSUME NEW m \in Nat, NEW n \in Nat
    PROVE  Pow2[m + n] = Pow2[m] * Pow2[n]
<1> DEFINE T == {k \in Nat : Pow2[m + k] = Pow2[m] * Pow2[k]}
<1>1. 0 \in T
  <2>1. m + 0 = m /\ Pow2[0] = 1 /\ Pow2[m] \in Nat
    BY Pow2Def, Pow2Type
  <2> QED BY <2>1
<1>2. ASSUME NEW k \in T PROVE k + 1 \in T
  <2>1. k \in Nat /\ m + k \in Nat /\ m + (k + 1) = (m + k) + 1
    OBVIOUS
  <2>2. Pow2[m + (k + 1)] = 2 * Pow2[m + k] /\ Pow2[k + 1] = 2 * Pow2[k]
    BY <2>1, Pow2Def
  <2>3. Pow2[m] \in Nat /\ Pow2[k] \in Nat /\ Pow2[m + k] = Pow2[m] * Pow2[k]
    BY <2>1, Pow2Type
  <2>4. 2 * (Pow2[m] * Pow2[k]) = Pow2[m] * (2 * Pow2[k])
    BY <2>3, SMT
  <2>5. Pow2[m + (k + 1)] = Pow2[m] * Pow2[k + 1]
    BY <2>2, <2>3, <2>4
  <2> QED BY <2>1, <2>5
<1>3. T = Nat
  <2> HIDE DEF T
  <2>1. T \in SUBSET Nat
    BY DEF T
  <2> QED BY <1>1, <1>2, <2>1, SetInduction
<1> QED BY <1>3

LEMMA Pow2Grows ==
    ASSUME NEW m \in Nat, NEW n \in Nat, m <= n
    PROVE  Pow2[m] <= Pow2[n]
<1>1. n - m \in Nat /\ m + (n - m) = n
  OBVIOUS
<1>2. Pow2[n] = Pow2[m] * Pow2[n - m]
  BY <1>1, Pow2Sum
<1>3. Pow2[m] \in Nat /\ Pow2[n - m] \in Nat /\ Pow2[n - m] >= 1
  BY <1>1, Pow2Type
<1>4. Pow2[m] * 1 <= Pow2[m] * Pow2[n - m]
  BY <1>3, SMT
<1> QED BY <1>2, <1>3, <1>4

(* The integers, the groups of bits and the bytes.                         *)
LEMMA Sizes ==
    /\ Half \in Nat /\ Half > 0 /\ 2 * Half = Pow2[Width]
    /\ Base \in Nat /\ Base >= 2 /\ Byte \in Nat /\ Byte = 2 * Base /\ Byte = Pow2[Group + 1]
    /\ Width \in Nat /\ Width > 0 /\ Group \in Nat /\ Group > 0
<1>1. Width \in Nat /\ Width > 0 /\ Group \in Nat /\ Group > 0
  BY WidthAssumption, GroupAssumption
<1>2. Width - 1 \in Nat /\ (Width - 1) + 1 = Width /\ Group - 1 \in Nat /\ (Group - 1) + 1 = Group
  BY <1>1
<1>3. Half \in Nat /\ Half > 0
  BY <1>2, Pow2Type DEF Half
<1>4. 2 * Half = Pow2[Width]
  BY <1>2, Pow2Def DEF Half
<1>5. Pow2[Group] = 2 * Pow2[Group - 1] /\ Pow2[Group - 1] \in Nat /\ Pow2[Group - 1] > 0
  BY <1>2, Pow2Def, Pow2Type
<1>6. Base \in Nat /\ Base >= 2
  BY <1>5 DEF Base
<1>7. Byte = Pow2[Group + 1]
  BY <1>1, Pow2Def DEF Byte, Base
<1> QED BY <1>1, <1>3, <1>4, <1>6, <1>7 DEF Byte

LEMMA ByteRanges ==
    /\ ByteRange(0) = 1
    /\ \A n \in Nat : /\ ByteRange(n) \in Nat /\ ByteRange(n) > 0
                      /\ ByteRange(n + 1) = ByteRange(n) * Byte
<1>1. Group + 1 \in Nat /\ (Group + 1) * 0 = 0
  BY Sizes
<1>2. ASSUME NEW n \in Nat
      PROVE  /\ ByteRange(n) \in Nat /\ ByteRange(n) > 0
             /\ ByteRange(n + 1) = ByteRange(n) * Byte
  <2>1. (Group + 1) * n \in Nat /\ (Group + 1) * (n + 1) = (Group + 1) * n + (Group + 1)
    BY <1>1, SMT
  <2> DEFINE w == (Group + 1) * n
  <2>2. Pow2[w] \in Nat /\ Pow2[w] > 0
    BY <2>1, Pow2Type
  <2>3. w \in Nat /\ (Group + 1) * (n + 1) = w + (Group + 1)
    BY <2>1
  <2> HIDE DEF w
  <2>4. Pow2[w + (Group + 1)] = Pow2[w] * Pow2[Group + 1]
    BY <1>1, <2>3, Pow2Sum
  <2> QED BY <2>2, <2>3, <2>4, Sizes DEF ByteRange, w
<1>3. ByteRange(0) = 1
  BY <1>1, Pow2Def DEF ByteRange
<1> QED BY <1>2, <1>3

-----------------------------------------------------------------------------
(* Quotient and remainder.                                                 *)
LEMMA Division ==
    ASSUME NEW a \in Int, NEW b \in Nat, b > 0
    PROVE  /\ a \div b \in Int /\ a % b \in Nat /\ a % b < b
           /\ a = (a \div b) * b + (a % b)
           /\ a >= 0 => a \div b \in Nat
BY SMT

LEMMA ProductBelow ==
    ASSUME NEW p \in Int, NEW q \in Int, NEW b \in Nat, b > 0
    PROVE  /\ p * b \in Int
           /\ p * b < q * b => p < q
           /\ p < q => (p + 1) * b <= q * b
           /\ (p + 1) * b = p * b + b
BY SMT

LEMMA DivisionUnique ==
    ASSUME NEW a \in Int, NEW b \in Nat, b > 0, NEW q \in Int, NEW r \in Nat, r < b,
           a = q * b + r
    PROVE  a \div b = q /\ a % b = r
<1> DEFINE s == a \div b
           m == a % b
<1>1. s \in Int /\ m \in Nat /\ m < b /\ a = s * b + m
  BY Division
<1> HIDE DEF s, m
<1>2. ~(s < q)
  <2> SUFFICES ASSUME s < q PROVE FALSE
    OBVIOUS
  <2>1. (s + 1) * b <= q * b /\ (s + 1) * b = s * b + b /\ s * b \in Int /\ q * b \in Int
    BY <1>1, ProductBelow
  <2> QED BY <1>1, <2>1
<1>3. ~(q < s)
  <2> SUFFICES ASSUME q < s PROVE FALSE
    OBVIOUS
  <2>1. (q + 1) * b <= s * b /\ (q + 1) * b = q * b + b /\ s * b \in Int /\ q * b \in Int
    BY <1>1, ProductBelow
  <2> QED BY <1>1, <2>1
<1>4. s = q
  BY <1>1, <1>2, <1>3
<1>5. m = r
  <2>1. s * b = q * b /\ q * b \in Int
    BY <1>4, ProductBelow
  <2> QED BY <1>1, <2>1
<1> QED BY <1>4, <1>5 DEF s, m

LEMMA QuotientBelow ==
    ASSUME NEW a \in Nat, NEW b \in Nat, b > 0, NEW p \in Nat, a < p * b
    PROVE  a \div b < p
<1>1. a \div b \in Int /\ a % b \in Nat /\ a = (a \div b) * b + (a % b)
  BY Division
<1> DEFINE q == a \div b
<1> HIDE DEF q
<1>2. q \in Int /\ q * b \in Int /\ p * b \in Int /\ (q * b < p * b => q < p)
  BY <1>1, ProductBelow DEF q
<1>3. q * b <= a
  BY <1>1, <1>2 DEF q
<1> QED BY <1>2, <1>3 DEF q

(* Division by n bytes more is division by n bytes, then by the rest.      *)
LEMMA QuotientTwice ==
    ASSUME NEW a \in Int, NEW b \in Nat, b > 0, NEW c \in Nat, c > 0
    PROVE  /\ b * c \in Nat /\ b * c > 0
           /\ a \div (b * c) = (a \div b) \div c
           /\ a % (b * c) = ((a \div b) % c) * b + (a % b)
<1> DEFINE q == a \div b
           r == a % b
           t == q \div c
           u == q % c
<1>1. q \in Int /\ r \in Nat /\ r < b /\ a = q * b + r
  BY Division
<1> HIDE DEF q, r
<1>2. t \in Int /\ u \in Nat /\ u < c /\ q = t * c + u
  BY <1>1, Division
<1> HIDE DEF t, u
<1>3. b * c \in Nat /\ b * c > 0
  BY SMT
<1>4. (u + 1) * b <= c * b /\ (u + 1) * b = u * b + b /\ u * b \in Nat
  <2>1. u * b \in Nat
    BY <1>2, SMT
  <2> QED BY <1>2, <2>1, ProductBelow
<1>5. c * b = b * c
  OBVIOUS
<1>6. u * b + r \in Nat /\ u * b + r < b * c
  BY <1>1, <1>3, <1>4, <1>5
<1>7. a = t * (b * c) + (u * b + r)
  <2>1. q * b = (t * c + u) * b
    BY <1>2
  <2>2. (t * c + u) * b = t * (b * c) + u * b
    BY <1>2, SMT
  <2>3. t * (b * c) \in Int
    BY <1>2, <1>3
  <2> DEFINE x == q * b
             y == t * (b * c)
             z == u * b
  <2>4. a = x + r /\ x = y + z /\ y \in Int /\ z \in Nat
    BY <1>1, <1>4, <2>1, <2>2, <2>3
  <2> HIDE DEF x, y, z
  <2>5. a = y + (z + r)
    BY <1>1, <2>4
  <2> QED BY <2>5 DEF y, z
<1>8. a \div (b * c) = t /\ a % (b * c) = u * b + r
  <2> DEFINE bc == b * c
             ur == u * b + r
  <2>1. bc \in Nat /\ bc > 0 /\ ur \in Nat /\ ur < bc /\ a = t * bc + ur
    BY <1>3, <1>6, <1>7
  <2> HIDE DEF bc, ur
  <2>2. a \div bc = t /\ a % bc = ur
    BY <1>2, <2>1, DivisionUnique
  <2> QED BY <2>2 DEF bc, ur
<1> QED BY <1>3, <1>8 DEF q, r, t, u

-----------------------------------------------------------------------------
(* The stream has s from byte p on.                                        *)
Holds(p, s) == \A i \in 1 .. Len(s) : p + i - 1 \in 1 .. Len(bytes) /\ bytes[p + i - 1] = s[i]

ByteSeq == Seq(0 .. Byte - 1)

LEMMA HoldsParts ==
    ASSUME NEW p \in Nat, NEW s \in ByteSeq, NEW t \in ByteSeq, Holds(p, s \o t)
    PROVE  /\ s \o t \in ByteSeq /\ Len(s \o t) = Len(s) + Len(t)
           /\ Len(s) \in Nat /\ Len(t) \in Nat
           /\ Holds(p, s) /\ Holds(p + Len(s), t)
<1>1. Len(s) \in Nat /\ Len(t) \in Nat
  BY DEF ByteSeq
<1>2. /\ s \o t \in ByteSeq /\ Len(s \o t) = Len(s) + Len(t)
      /\ \A i \in 1 .. Len(s) + Len(t) : (s \o t)[i] = IF i <= Len(s) THEN s[i] ELSE t[i - Len(s)]
  BY ConcatProperties DEF ByteSeq
<1>3. ASSUME NEW i \in 1 .. Len(s) + Len(t)
      PROVE  p + i - 1 \in 1 .. Len(bytes) /\ bytes[p + i - 1] = (s \o t)[i]
  BY <1>2 DEF Holds
<1>4. ASSUME NEW i \in 1 .. Len(s)
      PROVE  p + i - 1 \in 1 .. Len(bytes) /\ bytes[p + i - 1] = s[i]
  <2>1. i \in 1 .. Len(s) + Len(t) /\ i <= Len(s)
    BY <1>1
  <2> QED BY <1>2, <1>3, <2>1
<1>5. ASSUME NEW i \in 1 .. Len(t)
      PROVE  (p + Len(s)) + i - 1 \in 1 .. Len(bytes) /\ bytes[(p + Len(s)) + i - 1] = t[i]
  <2>1. /\ Len(s) + i \in 1 .. Len(s) + Len(t) /\ ~(Len(s) + i <= Len(s))
        /\ (Len(s) + i) - Len(s) = i /\ p + (Len(s) + i) - 1 = (p + Len(s)) + i - 1
    BY <1>1
  <2>2. (s \o t)[Len(s) + i] = t[i]
    BY <1>2, <2>1
  <2> QED BY <1>3, <2>1, <2>2
<1> QED BY <1>1, <1>2, <1>4, <1>5 DEF Holds

(* Where something is, there is room for it.                               *)
LEMMA HoldsInside ==
    ASSUME bytes \in ByteSeq, NEW p \in Nat, p > 0, NEW s \in ByteSeq, Holds(p, s), Len(s) > 0
    PROVE  p + Len(s) <= Len(bytes) + 1
<1>1. Len(s) \in Nat /\ Len(bytes) \in Nat
  BY DEF ByteSeq
<1>2. Len(s) \in 1 .. Len(s)
  BY <1>1
<1>3. p + Len(s) - 1 \in 1 .. Len(bytes)
  BY <1>2 DEF Holds
<1> QED BY <1>1, <1>3

-----------------------------------------------------------------------------
(* The loop of writeUint32/64.                                             *)
LEMMA VarintDef ==
    ASSUME NEW v \in Nat
    PROVE  /\ Varint[v] = IF Continues(v) THEN <<(v % Base) + Base>> \o Varint[v \div Base]
                                          ELSE <<v>>
           /\ Varint[v] \in ByteSeq
<1> DEFINE H == [n \in Nat |-> [f \in [Nat -> ByteSeq] |->
                   IF Continues(n) THEN <<(n % Base) + Base>> \o f[n \div Base] ELSE <<n>>]]
           mu == [n \in Nat |-> n]
           u == CHOOSE f : f = [n \in Nat |->
                   IF Continues(n) THEN <<(n % Base) + Base>> \o f[n \div Base] ELSE <<n>>]
<1>0. Base \in Nat /\ Base >= 2 /\ Base > 0 /\ Byte = 2 * Base
  BY Sizes
<1>1. ASSUME NEW n \in Nat, Continues(n)
      PROVE  n \div Base \in Nat /\ n \div Base < n /\ (n % Base) + Base \in 0 .. Byte - 1
  <2>1. n >= Base
    BY <1>1 DEF Continues
  <2>2. n \div Base \in Nat /\ n % Base \in Nat /\ n % Base < Base
    BY <1>0, Division
  <2>3. n < n * Base
    BY <1>0, <2>1, SMT
  <2>4. n \div Base < n
    BY <1>0, <2>3, QuotientBelow
  <2> QED BY <1>0, <2>2, <2>4
<1>2. PICK f : Solves(Nat, ByteSeq, H, f)
  <2>1. H \in [Nat -> [[Nat -> ByteSeq] -> ByteSeq]]
    <3>1. ASSUME NEW n \in Nat, NEW f \in [Nat -> ByteSeq]
          PROVE  (IF Continues(n) THEN <<(n % Base) + Base>> \o f[n \div Base] ELSE <<n>>) \in ByteSeq
      <4>1. CASE Continues(n)
        <5>1. f[n \div Base] \in ByteSeq
          BY <1>1, <4>1
        <5>2. <<(n % Base) + Base>> \in ByteSeq
          BY <1>1, <4>1 DEF ByteSeq
        <5>3. <<(n % Base) + Base>> \o f[n \div Base] \in ByteSeq
          BY <5>1, <5>2, ConcatProperties DEF ByteSeq
        <5> QED BY <4>1, <5>3
      <4>2. CASE ~Continues(n)
        <5>1. n \in 0 .. Byte - 1
          BY <1>0, <4>2 DEF Continues
        <5> QED BY <4>2, <5>1 DEF ByteSeq
      <4> QED BY <4>1, <4>2
    <3> QED BY <3>1
  <2>2. ASSUME NEW n \in Nat, NEW f \in [Nat -> ByteSeq], NEW g \in [Nat -> ByteSeq],
               \A m \in Nat : mu[m] < mu[n] => f[m] = g[m]
        PROVE  H[n][f] = H[n][g]
    <3>1. Continues(n) => n \div Base \in Nat /\ mu[n \div Base] < mu[n]
      BY <1>1
    <3>2. Continues(n) => f[n \div Base] = g[n \div Base]
      BY <2>2, <3>1
    <3> QED BY <3>2
  <2>3. mu \in [Nat -> Nat] /\ ByteSeq # {}
    <3>1. <<>> \in ByteSeq
      BY DEF ByteSeq
    <3> QED BY <3>1
  <2> HIDE DEF H, mu
  <2>4. WellFounded(Nat, ByteSeq, mu, H)
    BY <2>1, <2>2, <2>3 DEF WellFounded
  <2> QED BY <2>3, <2>4, Recursion
<1>3. f \in [Nat -> ByteSeq] /\ f = [n \in Nat |->
          IF Continues(n) THEN <<(n % Base) + Base>> \o f[n \div Base] ELSE <<n>>]
  <2>1. f \in [Nat -> ByteSeq] /\ \A n \in Nat : f[n] =
          IF Continues(n) THEN <<(n % Base) + Base>> \o f[n \div Base] ELSE <<n>>
    BY <1>2 DEF Solves
  <2> QED BY <2>1
<1>4. u = [n \in Nat |-> IF Continues(n) THEN <<(n % Base) + Base>> \o u[n \div Base] ELSE <<n>>]
  BY <1>3
<1>5. Varint = u
  BY DEF Varint
<1> HIDE DEF u
<1>6. \A n \in Nat : Varint[n] =
         IF Continues(n) THEN <<(n % Base) + Base>> \o Varint[n \div Base] ELSE <<n>>
  BY <1>4, <1>5
<1> DEFINE T == {k \in Nat : \A n \in Nat : n < k => Varint[n] \in ByteSeq}
<1>7. 0 \in T
  OBVIOUS
<1>8. ASSUME NEW k \in T PROVE k + 1 \in T
  <2>1. ASSUME NEW n \in Nat, n < k + 1 PROVE Varint[n] \in ByteSeq
    <3>1. CASE Continues(n)
      <4>1. n \div Base \in Nat /\ n \div Base < k /\ (n % Base) + Base \in 0 .. Byte - 1
        BY <1>1, <2>1, <3>1
      <4>2. Varint[n \div Base] \in ByteSeq
        BY <4>1
      <4>3. <<(n % Base) + Base>> \in ByteSeq
        BY <4>1 DEF ByteSeq
      <4>4. <<(n % Base) + Base>> \o Varint[n \div Base] \in ByteSeq
        BY <4>2, <4>3, ConcatProperties DEF ByteSeq
      <4> QED BY <1>6, <3>1, <4>4
    <3>2. CASE ~Continues(n)
      <4>1. n \in 0 .. Byte - 1
        BY <1>0, <3>2 DEF Continues
      <4>2. Varint[n] = <<n>>
        BY <1>6, <3>2
      <4> QED BY <4>1, <4>2 DEF ByteSeq
    <3> QED BY <3>1, <3>2
  <2> QED BY <2>1
<1>9. T = Nat
  <2> HIDE DEF T
  <2>1. T \in SUBSET Nat
    BY DEF T
  <2> QED BY <1>7, <1>8, <2>1, SetInduction
<1>10. Varint[v] \in ByteSeq
  <2>1. v + 1 \in Nat /\ v < v + 1
    OBVIOUS
  <2>2. v + 1 \in T
    <3> HIDE DEF T
    <3> QED BY <1>9, <2>1
  <2> QED BY <2>1, <2>2
<1> QED BY <1>6, <1>10

LEMMA VarintLength ==
    ASSUME NEW n \in Nat
    PROVE  \A v \in Nat : v < Pow2[Group * (n + 1)] => Len(Varint[v]) \in 1 .. n + 1
<1> DEFINE Short(m) == \A v \in Nat : v < Pow2[Group * (m + 1)] => Len(Varint[v]) \in 1 .. m + 1
           T == {m \in Nat : Short(m)}
<1>1. Base \in Nat /\ Base > 0 /\ Group \in Nat
  BY Sizes
<1>2. ASSUME NEW v \in Nat, ~Continues(v) PROVE Len(Varint[v]) = 1
  <2>1. Varint[v] = <<v>>
    BY <1>2, VarintDef
  <2> QED BY <2>1
<1>3. 0 \in T
  <2>1. Group * (0 + 1) = Group
    BY <1>1
  <2>2. ASSUME NEW v \in Nat, v < Pow2[Group * (0 + 1)] PROVE Len(Varint[v]) \in 1 .. 0 + 1
    <3>1. v < Base
      BY <2>1, <2>2 DEF Base
    <3>2. ~Continues(v)
      BY <1>1, <3>1 DEF Continues
    <3> QED BY <1>2, <3>2
  <2> QED BY <2>2
<1>4. ASSUME NEW m \in T PROVE m + 1 \in T
  <2>1. m \in Nat /\ Short(m)
    OBVIOUS
  <2>2. Pow2[Group * ((m + 1) + 1)] = Pow2[Group * (m + 1)] * Base /\ Pow2[Group * (m + 1)] \in Nat
    <3> DEFINE w == Group * (m + 1)
    <3>1. w \in Nat /\ Group * ((m + 1) + 1) = w + Group
      BY <1>1, <2>1, SMT
    <3> HIDE DEF w
    <3>2. Pow2[w + Group] = Pow2[w] * Pow2[Group] /\ Pow2[w] \in Nat
      BY <1>1, <3>1, Pow2Sum, Pow2Type
    <3> QED BY <3>1, <3>2 DEF w, Base
  <2>3. ASSUME NEW v \in Nat, v < Pow2[Group * ((m + 1) + 1)]
        PROVE  Len(Varint[v]) \in 1 .. (m + 1) + 1
    <3>1. CASE Continues(v)
      <4>1. v \div Base \in Nat /\ v \div Base < Pow2[Group * (m + 1)]
        <5> DEFINE P == Pow2[Group * (m + 1)]
        <5>1. P \in Nat /\ v < P * Base
          BY <2>2, <2>3
        <5> HIDE DEF P
        <5>2. v \div Base < P
          BY <1>1, <5>1, QuotientBelow
        <5>3. v \div Base \in Nat
          BY <1>1, Division
        <5> QED BY <5>2, <5>3 DEF P
      <4>2. Len(Varint[v \div Base]) \in 1 .. m + 1
        BY <2>1, <4>1
      <4>3. Varint[v] = <<(v % Base) + Base>> \o Varint[v \div Base]
        BY <3>1, VarintDef
      <4>4. Len(Varint[v]) = 1 + Len(Varint[v \div Base])
        <5>1. Varint[v \div Base] \in Seq(0 .. Byte - 1)
          BY <4>1, VarintDef DEF ByteSeq
        <5>2. Len(<<(v % Base) + Base>>) = 1
          OBVIOUS
        <5> QED BY <4>3, <5>1, <5>2
      <4> QED BY <2>1, <4>2, <4>4
    <3>2. CASE ~Continues(v)
      <4>1. Len(Varint[v]) = 1
        BY <1>2, <3>2
      <4> QED BY <2>1, <4>1
    <3> QED BY <3>1, <3>2
  <2> QED BY <2>1, <2>3
<1>5. T = Nat
  <2> HIDE DEF T
  <2>1. T \in SUBSET Nat
    BY DEF T
  <2> QED BY <1>3, <1>4, <2>1, SetInduction
<1> QED BY <1>5

(* No integer needs more bytes than writeUint32/64 have room for.          *)
LEMMA VarintFits ==
    ASSUME NEW v \in Unsigned
    PROVE  Len(Varint[v]) \in 1 .. (Width + Group - 1) \div Group
<1> DEFINE n == (Width + Group - 1) \div Group
<1>1. Width \in Nat /\ Width > 0 /\ Group \in Nat /\ Group > 0 /\ Width + Group - 1 \in Nat
  BY Sizes
<1>2. /\ n \in Nat /\ (Width + Group - 1) % Group \in Nat /\ (Width + Group - 1) % Group < Group
      /\ Width + Group - 1 = n * Group + ((Width + Group - 1) % Group)
  BY <1>1, Division
<1> HIDE DEF n
<1>3. n * Group \in Nat /\ Width <= n * Group
  BY <1>1, <1>2
<1>4. n > 0
  <2>1. n # 0
    BY <1>1, <1>3
  <2> QED BY <1>2, <2>1
<1>5. n - 1 \in Nat /\ (n - 1) + 1 = n /\ n * Group = Group * n
  BY <1>1, <1>2, <1>4
<1>6. Pow2[Width] <= Pow2[Group * n] /\ Pow2[Width] \in Nat /\ Pow2[Group * n] \in Nat
  BY <1>1, <1>3, <1>5, Pow2Grows, Pow2Type
<1>7. v \in Nat /\ v < Pow2[Width]
  BY Sizes DEF Unsigned
<1>8. v < Pow2[Group * ((n - 1) + 1)]
  BY <1>5, <1>6, <1>7
<1>9. Len(Varint[v]) \in 1 .. (n - 1) + 1
  BY <1>5, <1>7, <1>8, VarintLength
<1> QED BY <1>5, <1>9 DEF n

-----------------------------------------------------------------------------
(* The loop of readUint32/64: the byte at p + k, and what those behind it  *)
(* give.                                                                   *)
VarintFrom(p, k, rest) ==
    IF ~MoreBits(k * Group) THEN [val |-> 0, next |-> p + k]
    ELSE IF p + k > Len(bytes) THEN [val |-> 0, next |-> 0]
    ELSE IF bytes[p + k] < Base
         THEN [val |-> (bytes[p + k] * Pow2[k * Group]) % (2 * Half), next |-> p + k + 1]
         ELSE [val |-> (((bytes[p + k] - Base) * Pow2[k * Group]) % (2 * Half)) + rest.val,
               next |-> rest.next]

Result == [val : Nat, next : Nat]

LEMMA ByteType ==
    ASSUME bytes \in ByteSeq, NEW i \in 1 .. Len(bytes)
    PROVE  bytes[i] \in Nat /\ bytes[i] < Byte
<1>1. bytes[i] \in 0 .. Byte - 1
  BY ElementOfSeq DEF ByteSeq
<1> QED BY <1>1, Sizes

LEMMA VarintFromType ==
    ASSUME bytes \in ByteSeq, NEW p \in Nat, p > 0, NEW k \in Nat, NEW rest \in Result
    PROVE  VarintFrom(p, k, rest) \in Result
<1>1. 2 * Half \in Nat /\ 2 * Half > 0 /\ Base \in Nat /\ Len(bytes) \in Nat /\ Group \in Nat
  BY Sizes DEF ByteSeq
<1>2. k * Group \in Nat
  BY <1>1
<1>3. Pow2[k * Group] \in Nat
  BY <1>2, Pow2Type
<1>4. CASE ~MoreBits(k * Group) \/ p + k > Len(bytes)
  BY <1>4 DEF VarintFrom, Result
<1>5. CASE MoreBits(k * Group) /\ ~(p + k > Len(bytes))
  <2> DEFINE b == bytes[p + k]
             P == Pow2[k * Group]
  <2>1. p + k \in 1 .. Len(bytes)
    BY <1>1, <1>5
  <2>2. b \in Nat
    BY <2>1, ByteType
  <2> HIDE DEF b, P
  <2>3. CASE b < Base
    <3>1. b * P \in Int
      BY <1>3, <2>2 DEF P
    <3>2. (b * P) % (2 * Half) \in Nat
      BY <1>1, <3>1, Division
    <3>3. VarintFrom(p, k, rest) = [val |-> (b * P) % (2 * Half), next |-> p + k + 1]
      BY <1>5, <2>3 DEF VarintFrom, b, P
    <3> QED BY <3>2, <3>3 DEF Result
  <2>4. CASE ~(b < Base)
    <3>1. (b - Base) * P \in Int
      BY <1>1, <1>3, <2>2 DEF P
    <3>2. ((b - Base) * P) % (2 * Half) \in Nat
      BY <1>1, <3>1, Division
    <3>3. VarintFrom(p, k, rest) = [val |-> (((b - Base) * P) % (2 * Half)) + rest.val,
                                    next |-> rest.next]
      BY <1>5, <2>4 DEF VarintFrom, b, P
    <3>4. rest.val \in Nat /\ rest.next \in Nat
      BY DEF Result
    <3> QED BY <3>2, <3>3, <3>4 DEF Result
  <2> QED BY <2>3, <2>4
<1> QED BY <1>4, <1>5

(* There are at most Width rounds.                                         *)
LEMMA RoundsLeft ==
    ASSUME NEW k \in Nat, MoreBits(k * Group)
    PROVE  k < Width
<1>1. Group \in Nat /\ Group > 0 /\ Width \in Nat
  BY Sizes
<1>2. k <= k * Group
  BY <1>1, SMT
<1>3. k * Group \in Nat /\ k * Group < Width
  BY <1>1 DEF MoreBits
<1> QED BY <1>1, <1>2, <1>3

LEMMA ReadVarintDef ==
    ASSUME bytes \in ByteSeq, NEW p \in Nat, p > 0
    PROVE  \E f : /\ ReadVarint(p) = f[0]
                  /\ \A k \in Nat : f[k] = VarintFrom(p, k, f[k + 1])
<1> DEFINE H == [k \in Nat |-> [f \in [Nat -> Result] |-> VarintFrom(p, k, f[k + 1])]]
           mu == [k \in Nat |-> IF k < Width THEN Width - k ELSE 0]
           u == CHOOSE f : f = [k \in Nat |-> VarintFrom(p, k, f[k + 1])]
<1>1. PICK f : Solves(Nat, Result, H, f)
  <2>1. H \in [Nat -> [[Nat -> Result] -> Result]]
    <3>1. ASSUME NEW k \in Nat, NEW f \in [Nat -> Result]
          PROVE  VarintFrom(p, k, f[k + 1]) \in Result
      <4>1. f[k + 1] \in Result
        OBVIOUS
      <4> QED BY <4>1, VarintFromType
    <3> QED BY <3>1
  <2>2. ASSUME NEW k \in Nat, NEW f \in [Nat -> Result], NEW g \in [Nat -> Result],
               \A m \in Nat : mu[m] < mu[k] => f[m] = g[m]
        PROVE  H[k][f] = H[k][g]
    <3>1. VarintFrom(p, k, f[k + 1]) = VarintFrom(p, k, g[k + 1])
      <4>1. CASE MoreBits(k * Group)
        <5>1. k < Width /\ Width \in Nat
          BY <4>1, RoundsLeft, Sizes
        <5>2. mu[k + 1] < mu[k] /\ k + 1 \in Nat
          BY <5>1
        <5>3. f[k + 1] = g[k + 1]
          BY <2>2, <5>2
        <5> QED BY <5>3
      <4>2. CASE ~MoreBits(k * Group)
        BY <4>2 DEF VarintFrom
      <4> QED BY <4>1, <4>2
    <3> QED BY <3>1
  <2>3. mu \in [Nat -> Nat]
    BY Sizes
  <2>4. Result # {}
    <3>1. [val |-> 0, next |-> 0] \in Result
      BY DEF Result
    <3> QED BY <3>1
  <2> HIDE DEF H, mu
  <2>5. WellFounded(Nat, Result, mu, H)
    BY <2>1, <2>2, <2>3 DEF WellFounded
  <2> QED BY <2>4, <2>5, Recursion
<1>2. f = [k \in Nat |-> VarintFrom(p, k, f[k + 1])]
  <2>1. f \in [Nat -> Result] /\ \A k \in Nat : f[k] = VarintFrom(p, k, f[k + 1])
    BY <1>1 DEF Solves
  <2> QED BY <2>1
<1>3. u = [k \in Nat |-> VarintFrom(p, k, u[k + 1])]
  BY <1>2
<1>4. ReadVarint(p) = u[0]
  BY DEF ReadVarint, VarintFrom
<1> HIDE DEF u
<1>5. \A k \in Nat : u[k] = VarintFrom(p, k, u[k + 1])
  BY <1>3
<1> QED BY <1>4, <1>5

(* A group of bits at bit w.                                               *)
LEMMA ShiftGroup ==
    ASSUME NEW c \in Nat, NEW w \in Nat, w < Width
    PROVE  /\ \E m \in Nat : (c * Pow2[w]) % (2 * Half) = m * Pow2[w]
           /\ (c * Pow2[w]) % (2 * Half) \in Nat /\ (c * Pow2[w]) % (2 * Half) < 2 * Half
<1> DEFINE P == Pow2[w]
           Q == Pow2[Width - w]
<1>1. Width - w \in Nat /\ w + (Width - w) = Width
  BY Sizes
<1>2. P \in Nat /\ P > 0 /\ Q \in Nat /\ Q > 0 /\ 2 * Half = P * Q
  <2>1. Pow2[w + (Width - w)] = P * Q
    BY <1>1, Pow2Sum
  <2> QED BY <1>1, <2>1, Pow2Type, Sizes
<1> HIDE DEF P, Q
<1>3. c * P \in Nat /\ c * P = c * P + 0 /\ 0 < P
  BY <1>2
<1>4. (c * P) \div P = c /\ (c * P) % P = 0
  BY <1>2, <1>3, DivisionUnique
<1>5. (c * P) % (P * Q) = (c % Q) * P + 0
  <2> DEFINE a == c * P
  <2>1. a \in Int /\ a \div P = c /\ a % P = 0
    BY <1>3, <1>4
  <2> HIDE DEF a
  <2>2. a % (P * Q) = ((a \div P) % Q) * P + (a % P)
    BY <1>2, <2>1, QuotientTwice
  <2> QED BY <2>1, <2>2 DEF a
<1>6. c % Q \in Nat
  BY <1>2, Division
<1>7. (c * P) % (2 * Half) = (c % Q) * P
  <2>1. (c % Q) * P \in Int
    BY <1>2, <1>6
  <2> QED BY <1>2, <1>5, <2>1
<1>8. (c * P) % (2 * Half) \in Nat /\ (c * P) % (2 * Half) < 2 * Half
  <2>1. 2 * Half \in Nat /\ 2 * Half > 0 /\ c * P \in Int
    BY <1>3, Sizes
  <2> QED BY <2>1, Division
<1> QED BY <1>6, <1>7, <1>8 DEF P

(* A group at bit w in front of groups from bit w + Group on.              *)
LEMMA AddGroup ==
    ASSUME NEW c \in Nat, c < Base, NEW w \in Nat, w + Group < Width,
           NEW m \in Nat, m * Pow2[w + Group] < 2 * Half
    PROVE  /\ (c * Pow2[w]) % (2 * Half) = c * Pow2[w]
           /\ c * Pow2[w] + m * Pow2[w + Group] = (c + m * Base) * Pow2[w]
           /\ c * Pow2[w] + m * Pow2[w + Group] < 2 * Half
<1> DEFINE P == Pow2[w]
           Q == Pow2[Width - (w + Group)]
<1>1. /\ Width - (w + Group) \in Nat /\ w + Group \in Nat /\ Group \in Nat
      /\ (w + Group) + (Width - (w + Group)) = Width
  BY Sizes
<1>2. P \in Nat /\ P > 0 /\ Q \in Nat /\ Q > 0 /\ Base \in Nat /\ Base > 0
  BY <1>1, Pow2Type, Sizes
<1>3. Pow2[w + Group] = P * Base
  BY <1>1, Pow2Sum DEF Base
<1>4. 2 * Half = (P * Base) * Q
  <2>1. Pow2[(w + Group) + (Width - (w + Group))] = Pow2[w + Group] * Q
    BY <1>1, Pow2Sum
  <2> QED BY <1>1, <1>3, <2>1, Sizes
<1> HIDE DEF P, Q
<1> DEFINE R == P * Base
<1>5. R \in Nat /\ R > 0
  BY <1>2, SMT
<1>6. c * P \in Nat /\ c * P + P <= R
  <2>1. (c + 1) * P <= Base * P /\ (c + 1) * P = c * P + P
    BY <1>2, ProductBelow
  <2>2. c * P \in Nat /\ Base * P = P * Base
    BY <1>2
  <2> QED BY <2>1, <2>2
<1> HIDE DEF R
<1>7. m * R + R <= Q * R /\ m * R \in Nat
  <2>1. Q * R = R * Q /\ m * R \in Nat
    BY <1>2, <1>5
  <2>2. m * R < Q * R
    BY <1>3, <1>4, <2>1 DEF R
  <2>3. m < Q
    BY <1>2, <1>5, <2>2, ProductBelow
  <2>4. (m + 1) * R <= Q * R /\ (m + 1) * R = m * R + R
    BY <1>2, <1>5, <2>3, ProductBelow
  <2> QED BY <2>1, <2>4
<1>8. 2 * Half = Q * R /\ 2 * Half \in Nat
  <2>1. Q * R = R * Q
    BY <1>2, <1>5
  <2> QED BY <1>4, <2>1, Sizes DEF R
<1>9. c * P + m * R < 2 * Half /\ c * P < 2 * Half
  BY <1>2, <1>5, <1>6, <1>7, <1>8
<1>10. (c * P) % (2 * Half) = c * P
  <2>1. c * P = 0 * (2 * Half) + c * P
    BY <1>6, <1>8
  <2> QED BY <1>6, <1>8, <1>9, <2>1, DivisionUnique
<1>11. c * P + m * R = (c + m * Base) * P
  BY <1>2, SMT DEF R
<1> QED BY <1>3, <1>9, <1>10, <1>11 DEF P, R

-----------------------------------------------------------------------------
(* readUint32/64 of what writeUint32/64 wrote: the groups from the k-th    *)
(* on give the rest of the number.                                         *)
RestWritten(p, v, k) ==
    /\ v > 0 \/ k = 0
    /\ v * Pow2[k * Group] < 2 * Half
    /\ Holds(p + k, Varint[v])

RestRead(p, v, k, f) ==
    f[k] = [val |-> v * Pow2[k * Group], next |-> p + k + Len(Varint[v])]

LEMMA VarintRest ==
    ASSUME bytes \in ByteSeq, NEW p \in Nat, p > 0, NEW f,
           \A k \in Nat : f[k] = VarintFrom(p, k, f[k + 1]), NEW n \in Nat
    PROVE  \A v, k \in Nat : v < n /\ RestWritten(p, v, k) => RestRead(p, v, k, f)
<1> DEFINE Pre(v, k) == RestWritten(p, v, k)
           Read(v, k) == RestRead(p, v, k, f)
           T == {m \in Nat : \A v, k \in Nat : v < m /\ Pre(v, k) => Read(v, k)}
<1> USE DEF RestWritten, RestRead
<1>1. 0 \in T
  <2>1. \A v \in Nat : ~(v < 0)
    OBVIOUS
  <2> HIDE DEF Pre, Read
  <2> QED BY <2>1
<1>2. /\ Base \in Nat /\ Base >= 2 /\ Group \in Nat /\ Group > 0 /\ Width \in Nat /\ Width > 0
      /\ 2 * Half \in Nat /\ 2 * Half > 0 /\ 2 * Half = Pow2[Width] /\ Len(bytes) \in Nat
  BY Sizes DEF ByteSeq
<1>3. ASSUME NEW m \in T PROVE m + 1 \in T
  <2>0. m \in Nat /\ \A v, k \in Nat : v < m /\ Pre(v, k) => Read(v, k)
    OBVIOUS
  <2> HIDE DEF T
  <2>1. ASSUME NEW v \in Nat, NEW k \in Nat, v < m + 1, Pre(v, k) PROVE Read(v, k)
    <3> DEFINE w == k * Group
               P == Pow2[w]
               b == bytes[p + k]
    <3>1. w \in Nat /\ P \in Nat /\ P > 0
      BY <1>2, Pow2Type
    <3>2. MoreBits(w)
      <4>1. CASE k = 0
        <5>1. w = 0
          BY <1>2, <4>1
        <5> QED BY <1>2, <5>1 DEF MoreBits
      <4>2. CASE v > 0
        <5>1. P <= v * P /\ v * P \in Nat
          <6> HIDE DEF P, w
          <6> QED BY <3>1, <4>2, SMT
        <5> DEFINE a == v * P
                   M == Pow2[Width]
        <5>2. a < M /\ P <= a /\ a \in Nat /\ M \in Nat
          BY <1>2, <2>1, <5>1
        <5> HIDE DEF a, P, w
        <5>3. P < M
          BY <3>1, <5>2
        <5>4. ~(Width <= w)
          <6> SUFFICES ASSUME Width <= w PROVE FALSE
            OBVIOUS
          <6>1. M <= P
            BY <1>2, <3>1, Pow2Grows DEF P
          <6> HIDE DEF M
          <6> QED BY <3>1, <5>2, <5>3, <6>1
        <5> QED BY <1>2, <3>1, <5>4 DEF MoreBits
      <4> QED BY <2>1, <4>1, <4>2
    <3>3. Varint[v] \in ByteSeq /\ Varint[v] = IF Continues(v) THEN <<(v % Base) + Base>> \o Varint[v \div Base] ELSE <<v>>
      BY VarintDef
    <3>4. CASE ~Continues(v)
      <4>1. v < Base /\ Varint[v] = <<v>> /\ Len(Varint[v]) = 1
        BY <1>2, <3>3, <3>4 DEF Continues
      <4>2. p + k \in 1 .. Len(bytes) /\ b = v
        <5>1. 1 \in 1 .. Len(Varint[v]) /\ (p + k) + 1 - 1 = p + k /\ Varint[v][1] = v
          BY <4>1
        <5> QED BY <2>1, <5>1 DEF Holds
      <4>3. f[k] = [val |-> (b * P) % (2 * Half), next |-> p + k + 1]
        <5>1. ~(p + k > Len(bytes))
          BY <1>2, <4>2
        <5>2. b < Base
          BY <4>1, <4>2
        <5> QED BY <3>2, <5>1, <5>2 DEF VarintFrom
      <4>4. (v * P) % (2 * Half) = v * P
        <5> DEFINE a == v * P
                   M == 2 * Half
        <5>0. a < M
          BY <2>1
        <5>1. a \in Nat /\ M \in Nat /\ M > 0 /\ a < M
          <6> HIDE DEF P
          <6> QED BY <1>2, <3>1, <5>0
        <5> HIDE DEF a, M
        <5>2. a = 0 * M + a
          BY <5>1
        <5>3. a % M = a
          BY <5>1, <5>2, DivisionUnique
        <5> QED BY <5>3 DEF a, M
      <4>5. f[k] = [val |-> v * P, next |-> p + k + 1]
        BY <4>2, <4>3, <4>4
      <4> QED BY <4>1, <4>5
    <3>5. CASE Continues(v)
      <4> DEFINE q == v \div Base
                 r == v % Base
                 rest == f[k + 1]
      <4>1. q \in Nat /\ r \in Nat /\ r < Base /\ v = q * Base + r
        BY <1>2, Division
      <4>2. q < v /\ q > 0
        <5>1. v >= Base
          BY <3>5 DEF Continues
        <5> HIDE DEF q, r
        <5>2. q # 0
          <6> SUFFICES ASSUME q = 0 PROVE FALSE
            OBVIOUS
          <6>1. q * Base = 0
            BY <1>2
          <6> QED BY <1>2, <4>1, <5>1, <6>1
        <5>3. q * 2 <= q * Base
          BY <1>2, <4>1, SMT
        <5>4. q * Base \in Nat
          BY <1>2, <4>1
        <5> DEFINE a == q * Base
        <5>5. a \in Nat /\ v = a + r /\ q * 2 <= a
          BY <4>1, <5>3, <5>4
        <5> HIDE DEF a
        <5> QED BY <4>1, <5>2, <5>5
      <4>3. /\ Varint[v] = <<r + Base>> \o Varint[q] /\ Varint[q] \in ByteSeq
            /\ <<r + Base>> \in ByteSeq /\ Len(<<r + Base>>) = 1
        <5>1. Varint[v] = <<r + Base>> \o Varint[q] /\ Varint[q] \in ByteSeq
          BY <3>3, <3>5, <4>1, VarintDef
        <5>2. r + Base \in 0 .. Byte - 1
          BY <1>2, <4>1, Sizes
        <5> QED BY <5>1, <5>2 DEF ByteSeq
      <4> HIDE DEF q, r, rest, P, w, b
      <4>4. /\ Holds(p + k, <<r + Base>>) /\ Holds((p + k) + 1, Varint[q])
            /\ Len(Varint[v]) = 1 + Len(Varint[q]) /\ Len(Varint[q]) \in Nat
        <5>1. p + k \in Nat
          OBVIOUS
        <5>2. Holds(p + k, <<r + Base>> \o Varint[q])
          BY <2>1, <4>3
        <5> HIDE DEF Pre
        <5>3. /\ Len(<<r + Base>> \o Varint[q]) = Len(<<r + Base>>) + Len(Varint[q])
              /\ Len(Varint[q]) \in Nat /\ Holds(p + k, <<r + Base>>)
              /\ Holds((p + k) + Len(<<r + Base>>), Varint[q])
          <6> DEFINE x == p + k
                     s == <<r + Base>>
                     t == Varint[q]
          <6>1. x \in Nat /\ s \in ByteSeq /\ t \in ByteSeq /\ Holds(x, s \o t)
            BY <4>3, <5>1, <5>2
          <6> HIDE DEF x, s, t
          <6>2. /\ Len(s \o t) = Len(s) + Len(t) /\ Len(t) \in Nat
                /\ Holds(x, s) /\ Holds(x + Len(s), t)
            BY <6>1, HoldsParts
          <6> QED BY <6>2 DEF x, s, t
        <5> QED BY <4>3, <5>3
      <4>5. p + k \in 1 .. Len(bytes) /\ b = r + Base
        <5>1. 1 \in 1 .. Len(<<r + Base>>) /\ (p + k) + 1 - 1 = p + k /\ <<r + Base>>[1] = r + Base
          BY <4>3
        <5> QED BY <4>4, <5>1 DEF Holds, b
      <4>6. f[k] = [val |-> ((r * P) % (2 * Half)) + rest.val, next |-> rest.next]
        <5>1. ~(p + k > Len(bytes)) /\ ~(b < Base) /\ b - Base = r
          BY <1>2, <4>1, <4>5
        <5>2. f[k] = [val |-> (((b - Base) * P) % (2 * Half)) + rest.val, next |-> rest.next]
          BY <3>2, <5>1 DEF VarintFrom, b, P, w, rest
        <5> QED BY <5>1, <5>2
      <4>7. /\ k + 1 \in Nat /\ (k + 1) * Group = w + Group /\ w + Group \in Nat
            /\ Pow2[w + Group] = P * Base /\ p + (k + 1) = (p + k) + 1
        <5>1. (k + 1) * Group = w + Group
          BY <1>2, SMT DEF w
        <5>2. Pow2[w + Group] = P * Base
          BY <1>2, <3>1, Pow2Sum DEF P, Base
        <5> QED BY <1>2, <3>1, <5>1, <5>2
      <4>8. q * (P * Base) \in Nat /\ q * (P * Base) <= v * P /\ v * P \in Nat /\ v * P < 2 * Half
        <5>1. v * P = q * (P * Base) + r * P
          <6>1. v * P = (q * Base + r) * P
            BY <4>1
          <6>2. (q * Base + r) * P = q * (P * Base) + r * P
            BY <1>2, <3>1, <4>1, SMT
          <6> QED BY <6>1, <6>2
        <5>2. q * (P * Base) \in Nat /\ r * P \in Nat /\ v * P \in Nat
          BY <1>2, <3>1, <4>1
        <5>3. v * P < 2 * Half
          BY <2>1 DEF P, w
        <5> QED BY <5>1, <5>2, <5>3
      <4>9. Pre(q, k + 1)
        <5>1. q * Pow2[(k + 1) * Group] = q * (P * Base)
          BY <4>7
        <5>2. q * Pow2[(k + 1) * Group] < 2 * Half
          <6> DEFINE a == q * (P * Base)
                     c == v * P
                     M == 2 * Half
          <6>1. a \in Nat /\ a <= c /\ c \in Nat /\ c < M /\ M \in Nat
            BY <1>2, <4>8
          <6> HIDE DEF a, c, M
          <6>2. a < M
            BY <6>1
          <6> QED BY <5>1, <6>2 DEF a, M
        <5>3. Holds(p + (k + 1), Varint[q])
          BY <4>4, <4>7
        <5> QED BY <4>2, <5>2, <5>3
      <4>10. rest = [val |-> q * (P * Base), next |-> ((p + k) + 1) + Len(Varint[q])]
        <5>1. q < m
          BY <2>0, <2>1, <4>1, <4>2
        <5>2. Read(q, k + 1)
          BY <2>0, <4>1, <4>7, <4>9, <5>1
        <5> QED BY <4>7, <5>2 DEF rest
      <4>11. w + Group < Width
        <5>1. P * Base <= q * (P * Base) /\ P * Base \in Nat
          <6> DEFINE R == P * Base
          <6>1. R \in Nat
            BY <1>2, <3>1
          <6> HIDE DEF R
          <6>2. R <= q * R
            BY <4>1, <4>2, <6>1, SMT
          <6> QED BY <6>1, <6>2 DEF R
        <5> DEFINE R == P * Base
                   a == q * R
                   c == v * P
                   M == Pow2[Width]
        <5>2. a \in Nat /\ a <= c /\ c \in Nat /\ c < M /\ M \in Nat /\ R <= a /\ R \in Nat
          BY <1>2, <4>8, <5>1
        <5>3. ~(Width <= w + Group)
          <6> SUFFICES ASSUME Width <= w + Group PROVE FALSE
            OBVIOUS
          <6>1. M <= Pow2[w + Group]
            BY <1>2, <4>7, Pow2Grows
          <6>2. M <= R
            BY <4>7, <6>1
          <6> HIDE DEF M, R, a, c
          <6> QED BY <5>2, <6>2
        <5> QED BY <1>2, <4>7, <5>3
      <4>12. (r * P) % (2 * Half) = r * P /\ r * P + q * (P * Base) = (r + q * Base) * P
        <5>1. q * Pow2[w + Group] < 2 * Half
          BY <4>7, <4>9
        <5>2. /\ (r * Pow2[w]) % (2 * Half) = r * Pow2[w]
              /\ r * Pow2[w] + q * Pow2[w + Group] = (r + q * Base) * Pow2[w]
          BY <3>1, <4>1, <4>11, <5>1, AddGroup
        <5> QED BY <4>7, <5>2 DEF P
      <4>13. r + q * Base = v
        <5>1. q * Base \in Nat
          BY <1>2, <4>1
        <5> QED BY <4>1, <5>1
      <4>14. rest.val = q * (P * Base) /\ rest.next = ((p + k) + 1) + Len(Varint[q])
        BY <4>10
      <4>15. f[k] = [val |-> v * P, next |-> ((p + k) + 1) + Len(Varint[q])]
        BY <4>6, <4>12, <4>13, <4>14
      <4>16. ((p + k) + 1) + Len(Varint[q]) = p + k + Len(Varint[v])
        <5> HIDE DEF Pre
        <5> DEFINE l == Len(Varint[q])
        <5>1. l \in Nat /\ Len(Varint[v]) = 1 + l
          BY <4>4
        <5> HIDE DEF l
        <5>2. ((p + k) + 1) + l = p + k + (1 + l)
          BY <5>1
        <5> QED BY <5>1, <5>2 DEF l
      <4> QED BY <4>15, <4>16 DEF P, w
    <3> QED BY <3>4, <3>5
  <2>2. \A v, k \in Nat : v < m + 1 /\ Pre(v, k) => Read(v, k)
    BY <2>1
  <2> HIDE DEF Pre, Read
  <2> QED BY <2>0, <2>2 DEF T
<1>4. T = Nat
  <2> HIDE DEF T
  <2>1. T \in SUBSET Nat
    BY DEF T
  <2> QED BY <1>1, <1>3, <2>1, SetInduction
<1>5. n \in T
  <2> HIDE DEF T
  <2> QED BY <1>4
<1>6. \A v, k \in Nat : v < n /\ Pre(v, k) => Read(v, k)
  BY <1>5
<1> QED BY <1>6

LEMMA VarintRead ==
    ASSUME bytes \in ByteSeq, NEW p \in Nat, p > 0, NEW v \in Unsigned, Holds(p, Varint[v])
    PROVE  ReadVarint(p) = [val |-> v, next |-> p + Len(Varint[v])]
<1>1. PICK f : ReadVarint(p) = f[0] /\ \A k \in Nat : f[k] = VarintFrom(p, k, f[k + 1])
  BY ReadVarintDef
<1>2. v \in Nat /\ v < 2 * Half /\ v + 1 \in Nat /\ v < v + 1 /\ Group \in Nat
  BY Sizes DEF Unsigned
<1>3. 0 * Group = 0 /\ Pow2[0] = 1 /\ v * 1 = v /\ p + 0 = p
  BY <1>2, Pow2Def
<1>4. v * Pow2[0 * Group] < 2 * Half /\ Holds(p + 0, Varint[v])
  BY <1>2, <1>3
<1>5. f[0] = [val |-> v * Pow2[0 * Group], next |-> p + 0 + Len(Varint[v])]
  <2>1. 0 \in Nat /\ (v > 0 \/ 0 = 0)
    OBVIOUS
  <2>2. \A k \in Nat : f[k] = VarintFrom(p, k, f[k + 1])
    BY <1>1
  <2>3. RestWritten(p, v, 0)
    BY <1>4, <2>1 DEF RestWritten
  <2> DEFINE n == v + 1
  <2>4. n \in Nat /\ v < n /\ v \in Nat
    BY <1>2
  <2> HIDE DEF n
  <2>5. \A x, k \in Nat : x < n /\ RestWritten(p, x, k) => RestRead(p, x, k, f)
    BY <2>2, <2>4, VarintRest
  <2>6. RestRead(p, v, 0, f)
    BY <2>1, <2>3, <2>4, <2>5
  <2> QED BY <2>6 DEF RestRead
<1> QED BY <1>1, <1>3, <1>5

-----------------------------------------------------------------------------
(* What readUint32/64 return for any bytes: an unsigned integer, and a     *)
(* place in the stream.                                                    *)
Readings(V) == [val : V, next : 0 .. Len(bytes) + 1]

GroupsFrom(k, r) == r \in Readings(Unsigned) /\ \E m \in Nat : r.val = m * Pow2[k * Group]

LEMMA LastGroups ==
    ASSUME bytes \in ByteSeq, NEW p \in Nat, p > 0, NEW k \in Nat, NEW rest,
           ~MoreBits(k * Group) \/ p + k > Len(bytes), p + k <= Len(bytes) + 1
    PROVE  GroupsFrom(k, VarintFrom(p, k, rest)) /\ VarintFrom(p, k, rest).val = 0
<1>1. Group \in Nat /\ 2 * Half \in Nat /\ 2 * Half > 0 /\ Len(bytes) \in Nat
  BY Sizes DEF ByteSeq
<1>2. k * Group \in Nat
  BY <1>1
<1>3. Pow2[k * Group] \in Nat
  BY <1>2, Pow2Type
<1>4. 0 * Pow2[k * Group] = 0
  BY <1>3
<1>5. 0 \in Unsigned
  BY <1>1 DEF Unsigned
<1>6. PICK e \in 0 .. Len(bytes) + 1 : VarintFrom(p, k, rest) = [val |-> 0, next |-> e]
  <2>1. p + k \in 0 .. Len(bytes) + 1 /\ 0 \in 0 .. Len(bytes) + 1
    BY <1>1
  <2> QED BY <2>1 DEF VarintFrom
<1> DEFINE r == VarintFrom(p, k, rest)
<1>7. r \in Readings(Unsigned) /\ r.val = 0
  BY <1>5, <1>6 DEF Readings
<1> QED BY <1>4, <1>7 DEF GroupsFrom

LEMMA NextGroup ==
    ASSUME bytes \in ByteSeq, NEW p \in Nat, p > 0, NEW k \in Nat, NEW rest,
           GroupsFrom(k + 1, rest), ~MoreBits((k + 1) * Group) => rest.val = 0,
           MoreBits(k * Group), p + k <= Len(bytes)
    PROVE  GroupsFrom(k, VarintFrom(p, k, rest))
<1> DEFINE w == k * Group
           P == Pow2[w]
           b == bytes[p + k]
           r == VarintFrom(p, k, rest)
<1>1. /\ Group \in Nat /\ Width \in Nat /\ Base \in Nat /\ Len(bytes) \in Nat
      /\ Byte = 2 * Base /\ 2 * Half \in Nat /\ 2 * Half > 0
  BY Sizes DEF ByteSeq
<1>2. w \in Nat /\ w < Width /\ (k + 1) * Group = w + Group /\ w + Group \in Nat
  <2>1. w \in Nat /\ (k + 1) * Group = w + Group
    BY <1>1, SMT
  <2> QED BY <1>1, <2>1 DEF MoreBits
<1>3. b \in Nat /\ b < Byte
  <2>1. p + k \in 1 .. Len(bytes)
    BY <1>1
  <2> QED BY <2>1, ByteType
<1>4. rest.val \in Unsigned /\ rest.next \in 0 .. Len(bytes) + 1
  BY DEF GroupsFrom, Readings
<1>5. \A x \in Nat : x < 2 * Half => x \in Unsigned
  BY <1>1 DEF Unsigned
<1>6. ASSUME b < Base PROVE r = [val |-> (b * P) % (2 * Half), next |-> p + k + 1]
  <2>1. ~(p + k > Len(bytes))
    BY <1>1
  <2> QED BY <1>6, <2>1 DEF VarintFrom
<1>7. ASSUME ~(b < Base)
      PROVE  r = [val |-> (((b - Base) * P) % (2 * Half)) + rest.val, next |-> rest.next]
  <2>1. ~(p + k > Len(bytes))
    BY <1>1
  <2> QED BY <1>7, <2>1 DEF VarintFrom
<1> HIDE DEF b, r, w
<1>8. CASE b < Base
  <2>1. PICK m \in Nat : (b * P) % (2 * Half) = m * P
    BY <1>2, <1>3, ShiftGroup
  <2>2. (b * P) % (2 * Half) \in Unsigned
    BY <1>2, <1>3, <1>5, ShiftGroup
  <2>3. p + k + 1 \in 0 .. Len(bytes) + 1
    BY <1>1
  <2> DEFINE x == (b * P) % (2 * Half)
  <2>4. x = m * P /\ x \in Unsigned /\ r = [val |-> x, next |-> p + k + 1]
    BY <1>6, <1>8, <2>1, <2>2
  <2> HIDE DEF x
  <2>5. r \in Readings(Unsigned) /\ r.val = m * P
    BY <2>3, <2>4 DEF Readings
  <2> QED BY <2>5 DEF GroupsFrom, r, w
<1>9. CASE ~(b < Base)
  <2> DEFINE c == b - Base
             x == (c * P) % (2 * Half)
             y == rest.val
  <2>1. c \in Nat /\ c < Base
    BY <1>1, <1>3, <1>9
  <2> HIDE DEF c
  <2>2. r = [val |-> x + y, next |-> rest.next]
    BY <1>7, <1>9 DEF c
  <2>3. CASE ~MoreBits((k + 1) * Group)
    <3>1. y = 0
      BY <2>3
    <3>2. PICK m \in Nat : x = m * P
      BY <1>2, <2>1, ShiftGroup
    <3>3. x \in Nat /\ x \in Unsigned
      BY <1>2, <1>5, <2>1, ShiftGroup
    <3> HIDE DEF x, y
    <3>4. x + y = x
      BY <3>1, <3>3
    <3>5. r = [val |-> x, next |-> rest.next]
      BY <2>2, <3>4
    <3>6. r \in Readings(Unsigned) /\ r.val = m * P
      BY <1>4, <3>2, <3>3, <3>5 DEF Readings
    <3> QED BY <3>6 DEF GroupsFrom, r, w
  <2>4. CASE MoreBits((k + 1) * Group)
    <3>1. w + Group < Width
      BY <1>2, <2>4 DEF MoreBits
    <3>2. PICK m \in Nat : y = m * Pow2[w + Group]
      BY <1>2 DEF GroupsFrom
    <3>3. y \in Nat /\ y < 2 * Half
      BY <1>1, <1>4 DEF Unsigned
    <3>4. m * Pow2[w + Group] < 2 * Half
      BY <3>2, <3>3
    <3>5. /\ x = c * P
          /\ c * P + m * Pow2[w + Group] = (c + m * Base) * P
          /\ c * P + m * Pow2[w + Group] < 2 * Half
      BY <1>2, <2>1, <3>1, <3>4, AddGroup
    <3>6. x \in Nat
      BY <1>2, <2>1, ShiftGroup
    <3>7. c + m * Base \in Nat
      BY <1>1, <2>1
    <3> DEFINE z == (c + m * Base) * P
    <3>8. x + y = z /\ x + y < 2 * Half
      BY <3>2, <3>5
    <3> HIDE DEF x, y, z
    <3>9. x + y \in Unsigned
      BY <1>5, <3>3, <3>6, <3>8
    <3>10. r \in Readings(Unsigned) /\ r.val = z
      BY <1>4, <2>2, <3>8, <3>9 DEF Readings
    <3> QED BY <3>7, <3>10 DEF GroupsFrom, r, w, z
  <2> QED BY <2>3, <2>4
<1> QED BY <1>8, <1>9 DEF r

LEMMA VarintTyped ==
    ASSUME bytes \in ByteSeq, NEW p \in 1 .. Len(bytes) + 1
    PROVE  /\ ReadVarint(p) \in Readings(Unsigned)
           /\ p = Len(bytes) + 1 => ReadVarint(p).next = 0
<1>0. Len(bytes) \in Nat /\ p \in Nat /\ p > 0 /\ Width \in Nat /\ Width > 0 /\ Group \in Nat
  BY Sizes DEF ByteSeq
<1>1. PICK f : ReadVarint(p) = f[0] /\ \A k \in Nat : f[k] = VarintFrom(p, k, f[k + 1])
  BY <1>0, ReadVarintDef
<1> DEFINE T == {j \in Nat : \A k \in Nat : Width <= k + j /\ p + k <= Len(bytes) + 1
                                              => GroupsFrom(k, f[k])}
<1>2. 0 \in T
  <2>1. ASSUME NEW k \in Nat, Width <= k + 0, p + k <= Len(bytes) + 1 PROVE GroupsFrom(k, f[k])
    <3>1. ~(k < Width)
      BY <1>0, <2>1
    <3>2. ~MoreBits(k * Group)
      BY <3>1, RoundsLeft
    <3>3. GroupsFrom(k, VarintFrom(p, k, f[k + 1]))
      BY <1>0, <2>1, <3>2, LastGroups
    <3> QED BY <1>1, <3>3
  <2> QED BY <2>1
<1>3. ASSUME NEW j \in T PROVE j + 1 \in T
  <2>0. j \in Nat /\ \A k \in Nat : Width <= k + j /\ p + k <= Len(bytes) + 1 => GroupsFrom(k, f[k])
    OBVIOUS
  <2>1. ASSUME NEW k \in Nat, Width <= k + (j + 1), p + k <= Len(bytes) + 1
        PROVE  GroupsFrom(k, f[k])
    <3>1. CASE ~MoreBits(k * Group) \/ p + k > Len(bytes)
      <4>1. GroupsFrom(k, VarintFrom(p, k, f[k + 1]))
        BY <1>0, <2>1, <3>1, LastGroups
      <4> QED BY <1>1, <4>1
    <3>2. CASE MoreBits(k * Group) /\ p + k <= Len(bytes)
      <4>1. k + 1 \in Nat /\ Width <= (k + 1) + j /\ p + (k + 1) <= Len(bytes) + 1
        BY <1>0, <2>0, <2>1, <3>2
      <4>2. GroupsFrom(k + 1, f[k + 1])
        BY <2>0, <4>1
      <4>3. ~MoreBits((k + 1) * Group) => f[k + 1].val = 0
        <5>1. f[k + 1] = VarintFrom(p, k + 1, f[(k + 1) + 1])
          BY <1>1, <4>1
        <5> DEFINE h == k + 1
        <5> HIDE DEF h
        <5>2. ~MoreBits(h * Group) => VarintFrom(p, h, f[h + 1]).val = 0
          BY <1>0, <4>1, LastGroups DEF h
        <5> QED BY <5>1, <5>2 DEF h
      <4>4. GroupsFrom(k, VarintFrom(p, k, f[k + 1]))
        <5> DEFINE rest == f[k + 1]
        <5> HIDE DEF rest
        <5>1. GroupsFrom(k + 1, rest) /\ (~MoreBits((k + 1) * Group) => rest.val = 0)
          BY <4>2, <4>3 DEF rest
        <5>2. GroupsFrom(k, VarintFrom(p, k, rest))
          BY <1>0, <3>2, <5>1, NextGroup
        <5> QED BY <5>2 DEF rest
      <4> QED BY <1>1, <4>4
    <3> QED BY <1>0, <3>1, <3>2
  <2> QED BY <2>0, <2>1
<1>4. T = Nat
  <2> HIDE DEF T
  <2>1. T \in SUBSET Nat
    BY DEF T
  <2> QED BY <1>2, <1>3, <2>1, SetInduction
<1>5. GroupsFrom(0, f[0])
  <2>1. Width \in T
    <3> HIDE DEF T
    <3> QED BY <1>0, <1>4
  <2>2. Width <= 0 + Width /\ p + 0 <= Len(bytes) + 1
    BY <1>0
  <2> QED BY <2>1, <2>2
<1>6. ASSUME p = Len(bytes) + 1 PROVE f[0].next = 0
  <2>1. MoreBits(0 * Group)
    BY <1>0 DEF MoreBits
  <2>2. p + 0 > Len(bytes)
    BY <1>0, <1>6
  <2>3. f[0] = [val |-> 0, next |-> 0]
    BY <1>1, <2>1, <2>2 DEF VarintFrom
  <2> QED BY <2>3
<1> QED BY <1>1, <1>5, <1>6 DEF GroupsFrom

-----------------------------------------------------------------------------
(* Numbers of a fixed width.                                               *)
LEMMA FixedBytesType ==
    ASSUME NEW v \in Int, NEW n \in Nat
    PROVE  FixedBytes(v, n) \in ByteSeq /\ Len(FixedBytes(v, n)) = n
<1>1. Byte \in Nat /\ Byte > 0
  BY Sizes
<1>2. ASSUME NEW i \in 1 .. n PROVE (v \div ByteRange(n - i)) % Byte \in 0 .. Byte - 1
  <2> DEFINE a == v \div ByteRange(n - i)
  <2>1. n - i \in Nat
    OBVIOUS
  <2>2. a \in Int
    BY <2>1, ByteRanges, Division
  <2> HIDE DEF a
  <2>3. a % Byte \in Nat /\ a % Byte < Byte
    BY <1>1, <2>2, Division
  <2>4. a % Byte \in 0 .. Byte - 1
    BY <1>1, <2>3
  <2> QED BY <2>4 DEF a
<1>3. FixedBytes(v, n) \in [1 .. n -> 0 .. Byte - 1]
  BY <1>2 DEF FixedBytes
<1> DEFINE f == FixedBytes(v, n)
<1>4. f \in [1 .. n -> 0 .. Byte - 1]
  BY <1>3
<1> HIDE DEF f
<1>5. f \in Seq(0 .. Byte - 1)
  BY <1>4, SeqDef
<1>6. Len(f) = n
  BY <1>4, <1>5, LenProperties
<1> QED BY <1>5, <1>6 DEF ByteSeq, f

FixedLoop(p, n, f) ==
    /\ FixedValue(p, n) = f[n] /\ f[0] = 0
    /\ \A k \in 0 .. n - 1 : f[k + 1] = f[k] * Byte + bytes[p + k]

LEMMA FixedValueDef ==
    ASSUME bytes \in ByteSeq, NEW p \in Nat, p > 0, NEW n \in Nat, p + n <= Len(bytes) + 1
    PROVE  \E f : FixedLoop(p, n, f)
<1> DEFINE D == 0 .. n
           H == [k \in D |-> [f \in [D -> Nat] |->
                    IF k = 0 THEN 0 ELSE f[k - 1] * Byte + bytes[p + k - 1]]]
           mu == [k \in D |-> k]
           u == CHOOSE f : f = [k \in D |-> IF k = 0 THEN 0 ELSE f[k - 1] * Byte + bytes[p + k - 1]]
<1>0. Byte \in Nat /\ Len(bytes) \in Nat
  BY Sizes DEF ByteSeq
<1>1. PICK f : Solves(D, Nat, H, f)
  <2>1. H \in [D -> [[D -> Nat] -> Nat]]
    <3>1. ASSUME NEW k \in D, NEW f \in [D -> Nat]
          PROVE  (IF k = 0 THEN 0 ELSE f[k - 1] * Byte + bytes[p + k - 1]) \in Nat
      <4>1. CASE k = 0
        BY <4>1
      <4>2. CASE k # 0
        <5>1. k - 1 \in D /\ p + k - 1 \in 1 .. Len(bytes)
          BY <1>0, <4>2
        <5>2. f[k - 1] \in Nat /\ bytes[p + k - 1] \in Nat
          BY <5>1, ByteType
        <5>3. f[k - 1] * Byte \in Nat
          BY <1>0, <5>2
        <5> QED BY <4>2, <5>2, <5>3
      <4> QED BY <4>1, <4>2
    <3> QED BY <3>1
  <2>2. ASSUME NEW k \in D, NEW f \in [D -> Nat], NEW g \in [D -> Nat],
               \A m \in D : mu[m] < mu[k] => f[m] = g[m]
        PROVE  H[k][f] = H[k][g]
    <3>1. k # 0 => k - 1 \in D /\ mu[k - 1] < mu[k]
      OBVIOUS
    <3>2. k # 0 => f[k - 1] = g[k - 1]
      BY <2>2, <3>1
    <3> QED BY <3>2
  <2>3. mu \in [D -> Nat] /\ Nat # {}
    OBVIOUS
  <2> HIDE DEF H, mu, D
  <2>4. WellFounded(D, Nat, mu, H)
    BY <2>1, <2>2, <2>3 DEF WellFounded
  <2> QED BY <2>3, <2>4, Recursion
<1>2. f = [k \in D |-> IF k = 0 THEN 0 ELSE f[k - 1] * Byte + bytes[p + k - 1]]
  <2>1. f \in [D -> Nat] /\ \A k \in D : f[k] = IF k = 0 THEN 0 ELSE f[k - 1] * Byte + bytes[p + k - 1]
    BY <1>1 DEF Solves
  <2> QED BY <2>1
<1>3. u = [k \in D |-> IF k = 0 THEN 0 ELSE u[k - 1] * Byte + bytes[p + k - 1]]
  BY <1>2
<1>4. FixedValue(p, n) = u[n]
  BY DEF FixedValue
<1> HIDE DEF u
<1>5. \A k \in D : u[k] = IF k = 0 THEN 0 ELSE u[k - 1] * Byte + bytes[p + k - 1]
  BY <1>3
<1>6. u[0] = 0
  BY <1>5
<1>7. ASSUME NEW k \in 0 .. n - 1 PROVE u[k + 1] = u[k] * Byte + bytes[p + k]
  <2>1. k + 1 \in D /\ k + 1 # 0 /\ (k + 1) - 1 = k /\ p + (k + 1) - 1 = p + k
    OBVIOUS
  <2> HIDE DEF D
  <2> QED BY <1>5, <2>1
<1> QED BY <1>4, <1>6, <1>7 DEF FixedLoop

LEMMA FixedTyped ==
    ASSUME bytes \in ByteSeq, NEW p \in Nat, p > 0, NEW n \in Nat, p + n <= Len(bytes) + 1
    PROVE  FixedValue(p, n) \in 0 .. ByteRange(n) - 1
<1>0. Byte \in Nat /\ Byte > 0 /\ Len(bytes) \in Nat
  BY Sizes DEF ByteSeq
<1>c. PICK f : FixedLoop(p, n, f)
  BY FixedValueDef
<1>1. /\ FixedValue(p, n) = f[n] /\ f[0] = 0
      /\ \A k \in 0 .. n - 1 : f[k + 1] = f[k] * Byte + bytes[p + k]
  BY <1>c DEF FixedLoop
<1>a. ByteRange(n) \in Nat /\ ByteRange(n) > 0 /\ ByteRange(0) = 1
  BY ByteRanges, Zenon
<1> DEFINE T == {k \in Nat : k <= n => f[k] \in Nat /\ f[k] < ByteRange(k)}
<1>2. 0 \in T
  BY <1>1, <1>a
<1>3. ASSUME NEW k \in T PROVE k + 1 \in T
  <2>0. k \in Nat /\ (k <= n => f[k] \in Nat /\ f[k] < ByteRange(k))
    OBVIOUS
  <2>1. ASSUME k + 1 <= n PROVE f[k + 1] \in Nat /\ f[k + 1] < ByteRange(k + 1)
    <3> DEFINE a == f[k]
               b == bytes[p + k]
               R == ByteRange(k)
    <3>1. k \in 0 .. n - 1 /\ p + k \in 1 .. Len(bytes)
      BY <1>0, <2>0, <2>1
    <3>2. a \in Nat /\ a < R /\ b \in Nat /\ b < Byte /\ R \in Nat
      <4>1. R \in Nat
        BY <2>0, ByteRanges, Zenon
      <4>2. b \in Nat /\ b < Byte
        BY <3>1, ByteType
      <4>3. k <= n
        BY <3>1
      <4> QED BY <2>0, <4>1, <4>2, <4>3
    <3>3. f[k + 1] = a * Byte + b /\ ByteRange(k + 1) = R * Byte
      BY <1>1, <2>0, <3>1, ByteRanges
    <3> HIDE DEF a, b, R
    <3>4. (a + 1) * Byte <= R * Byte /\ (a + 1) * Byte = a * Byte + Byte
      BY <1>0, <3>2, ProductBelow
    <3>5. a * Byte \in Nat /\ R * Byte \in Nat
      BY <1>0, <3>2
    <3> DEFINE x == a * Byte
               y == R * Byte
    <3>6. x \in Nat /\ y \in Nat /\ x + Byte <= y
      BY <3>4, <3>5
    <3> HIDE DEF x, y
    <3>7. x + b \in Nat /\ x + b < y
      BY <1>0, <3>2, <3>6
    <3> QED BY <3>3, <3>7 DEF x, y
  <2> QED BY <2>0, <2>1
<1>4. T = Nat
  <2> HIDE DEF T
  <2>1. T \in SUBSET Nat
    BY DEF T
  <2> QED BY <1>2, <1>3, <2>1, SetInduction
<1>5. f[n] \in Nat /\ f[n] < ByteRange(n)
  <2>1. n \in T
    <3> HIDE DEF T
    <3> QED BY <1>4
  <2> QED BY <2>1
<1> QED BY <1>1, <1>5, <1>a

(* Most significant byte first, both ways: what does not fit is cut off.   *)
LEMMA FixedRead ==
    ASSUME bytes \in ByteSeq, NEW p \in Nat, p > 0, NEW n \in Nat, n > 0, NEW v \in Int,
           Holds(p, FixedBytes(v, n))
    PROVE  ReadFixed(p, n) = [val |-> v % ByteRange(n), next |-> p + n]
<1>0. Byte \in Nat /\ Byte > 0 /\ Len(bytes) \in Nat
  BY Sizes DEF ByteSeq
<1>1. ASSUME NEW i \in 1 .. n
      PROVE  p + i - 1 \in 1 .. Len(bytes) /\ bytes[p + i - 1] = (v \div ByteRange(n - i)) % Byte
  <2>1. Len(FixedBytes(v, n)) = n
    BY FixedBytesType
  <2>2. FixedBytes(v, n)[i] = (v \div ByteRange(n - i)) % Byte
    BY DEF FixedBytes
  <2> QED BY <2>1, <2>2 DEF Holds
<1>2. p + n <= Len(bytes) + 1
  <2>1. n \in 1 .. n
    OBVIOUS
  <2>2. p + n - 1 \in 1 .. Len(bytes)
    BY <1>1, <2>1
  <2> QED BY <1>0, <2>2
<1>c. PICK f : FixedLoop(p, n, f)
  BY <1>2, FixedValueDef
<1>3. /\ FixedValue(p, n) = f[n] /\ f[0] = 0
      /\ \A k \in 0 .. n - 1 : f[k + 1] = f[k] * Byte + bytes[p + k]
  BY <1>c DEF FixedLoop
<1> DEFINE T == {k \in Nat : k <= n => f[k] = (v \div ByteRange(n - k)) % ByteRange(k)}
<1>4. 0 \in T
  <2> DEFINE a == v \div ByteRange(n - 0)
  <2>1. n - 0 \in Nat
    OBVIOUS
  <2>2. a \in Int
    BY <2>1, ByteRanges, Division
  <2> HIDE DEF a
  <2>3. a % 1 = 0
    BY <2>2
  <2> QED BY <1>3, <2>3, ByteRanges DEF a
<1>5. ASSUME NEW k \in T PROVE k + 1 \in T
  <2>0. k \in Nat /\ (k <= n => f[k] = (v \div ByteRange(n - k)) % ByteRange(k))
    OBVIOUS
  <2>1. ASSUME k + 1 <= n PROVE f[k + 1] = (v \div ByteRange(n - (k + 1))) % ByteRange(k + 1)
    <3> DEFINE j == n - (k + 1)
               S == ByteRange(j)
               R == ByteRange(k)
               a == v \div S
    <3>1. j \in Nat /\ j + 1 = n - k /\ k \in 0 .. n - 1 /\ k + 1 \in 1 .. n /\ p + (k + 1) - 1 = p + k
      BY <2>0, <2>1
    <3>2. bytes[p + k] = a % Byte
      BY <1>1, <3>1
    <3>3. f[k + 1] = f[k] * Byte + bytes[p + k]
      BY <1>3, <3>1
    <3>4. f[k] = (v \div ByteRange(j + 1)) % R
      BY <2>0, <2>1, <3>1
    <3>5. /\ S \in Nat /\ S > 0 /\ ByteRange(j + 1) = S * Byte
          /\ R \in Nat /\ R > 0 /\ ByteRange(k + 1) = R * Byte
      <4> HIDE DEF j
      <4> QED BY <2>0, <3>1, ByteRanges
    <3> HIDE DEF j, S, R
    <3>6. a \in Int
      BY <3>5, Division
    <3>7. v \div (S * Byte) = a \div Byte
      BY <1>0, <3>5, QuotientTwice
    <3> HIDE DEF a
    <3>8. a % (Byte * R) = ((a \div Byte) % R) * Byte + (a % Byte)
      BY <1>0, <3>5, <3>6, QuotientTwice
    <3>9. Byte * R = R * Byte
      BY <1>0, <3>5
    <3>10. f[k + 1] = a % ByteRange(k + 1)
      BY <3>2, <3>3, <3>4, <3>5, <3>7, <3>8, <3>9
    <3> QED BY <3>10 DEF a, S, j
  <2> QED BY <2>0, <2>1
<1>6. T = Nat
  <2> HIDE DEF T
  <2>1. T \in SUBSET Nat
    BY DEF T
  <2> QED BY <1>4, <1>5, <2>1, SetInduction
<1>7. f[n] = (v \div ByteRange(n - n)) % ByteRange(n)
  <2>1. n \in T
    <3> HIDE DEF T
    <3> QED BY <1>6
  <2> QED BY <2>1
<1>8. n - n = 0 /\ v \div ByteRange(0) = v
  BY ByteRanges
<1>9. ~(p + n > Len(bytes) + 1)
  BY <1>0, <1>2
<1> QED BY <1>3, <1>7, <1>8, <1>9 DEF ReadFixed

LEMMA ReadFixedTyped ==
    ASSUME bytes \in ByteSeq, NEW p \in 1 .. Len(bytes) + 1, NEW n \in Nat, n > 0
    PROVE  /\ ReadFixed(p, n) \in Readings(0 .. ByteRange(n) - 1)
           /\ p = Len(bytes) + 1 => ReadFixed(p, n).next = 0
<1>a. ByteRange(n) \in Nat /\ ByteRange(n) > 0
  BY ByteRanges, Zenon
<1>b. Len(bytes) \in Nat
  BY DEF ByteSeq
<1>0. Len(bytes) \in Nat /\ p \in Nat /\ p > 0 /\ ByteRange(n) \in Nat /\ ByteRange(n) > 0
  BY <1>a, <1>b
<1>1. CASE p + n > Len(bytes) + 1
  BY <1>0, <1>1 DEF ReadFixed, Readings
<1>2. CASE ~(p + n > Len(bytes) + 1)
  <2>1. FixedValue(p, n) \in 0 .. ByteRange(n) - 1
    BY <1>0, <1>2, FixedTyped
  <2>2. p + n \in 0 .. Len(bytes) + 1 /\ p # Len(bytes) + 1
    BY <1>0, <1>2
  <2> QED BY <1>2, <2>1, <2>2 DEF ReadFixed, Readings
<1> QED BY <1>1, <1>2

-----------------------------------------------------------------------------
(* DecodeZigzag undoes EncodeZigzag for every signed integer, the smallest *)
(* one included, for which -v overflows in EncodeZigzag32 and              *)
(* EncodeZigzag64; and the code is an unsigned integer of the same width.  *)
THEOREM ZigzagRoundTrip ==
    \A v \in Signed : /\ EncodeZigzag(v) \in Unsigned
                      /\ DecodeZigzag(EncodeZigzag(v)) = v
<1>1. Half \in Nat /\ Half > 0
  BY Sizes
<1> QED BY <1>1 DEF Signed, Unsigned, EncodeZigzag, DecodeZigzag, ToSigned

LEMMA ZigzagType ==
    ASSUME NEW u \in Unsigned
    PROVE  DecodeZigzag(u) \in Signed
<1>1. Half \in Nat /\ Half > 0
  BY Sizes
<1> QED BY <1>1 DEF Signed, Unsigned, DecodeZigzag, ToSigned

(* The numbers of a fixed width are an even number, and their cut to it.   *)
(* The cast of an enum: a signed integer, the same if it was one.          *)
LEMMA TruncatedType ==
    ASSUME NEW v \in Wide
    PROVE  Truncated(v) \in Signed /\ (v \in Signed => Truncated(v) = v)
<1>1. Half \in Nat /\ Half > 0
  BY Sizes
<1>2. v \in Int /\ -(2 * Half) <= v /\ v < 2 * Half
  BY <1>1 DEF Wide
<1>3. v % (2 * Half) = IF v < 0 THEN v + 2 * Half ELSE v
  <2>1. CASE v < 0
    <3>1. v = (-1) * (2 * Half) + (v + 2 * Half) /\ v + 2 * Half \in 0 .. 2 * Half - 1
      BY <1>1, <1>2, <2>1
    <3> QED BY <1>1, <1>2, <2>1, <3>1, DivisionUnique
  <2>2. CASE v >= 0
    <3>1. v = 0 * (2 * Half) + v /\ v \in 0 .. 2 * Half - 1
      BY <1>1, <1>2, <2>2
    <3> QED BY <1>1, <1>2, <2>2, <3>1, DivisionUnique
  <2> QED BY <1>2, <2>1, <2>2
<1> QED BY <1>1, <1>2, <1>3 DEF Truncated, ToSigned, Signed

LEMMA FixedNumbers ==
    /\ FixedRange \in Nat /\ FixedRange > 0 /\ FixedRange = 2 * (FixedRange \div 2)
    /\ FixedRange \div 2 \in Nat
    /\ ByteRange(PrefixLen) \in Nat /\ ByteRange(PrefixLen) > 0
<1>1. FixedLen - 1 \in Nat /\ (FixedLen - 1) + 1 = FixedLen /\ FixedLen \in Nat /\ PrefixLen \in Nat
  BY FixedAssumption
<1> DEFINE R == ByteRange(FixedLen - 1)
<1>2. R \in Nat /\ R > 0 /\ ByteRange((FixedLen - 1) + 1) = R * Byte
  BY <1>1, ByteRanges, Zenon
<1>3. ByteRange(FixedLen) \in Nat /\ ByteRange(FixedLen) > 0
  BY <1>1, ByteRanges, Zenon
<1>4. ByteRange(PrefixLen) \in Nat /\ ByteRange(PrefixLen) > 0
  BY <1>1, ByteRanges, Zenon
<1>5. FixedRange = R * Byte /\ FixedRange \in Nat /\ FixedRange > 0
  BY <1>1, <1>2, <1>3 DEF FixedRange
<1> HIDE DEF R
<1>6. Base \in Nat /\ Byte = 2 * Base
  BY Sizes
<1>7. R * Base \in Nat /\ FixedRange = 2 * (R * Base)
  <2>1. R * (2 * Base) = 2 * (R * Base)
    BY <1>2, <1>6, SMT
  <2>2. R * Base \in Nat
    BY <1>2, <1>6
  <2> QED BY <1>5, <1>6, <2>1, <2>2
<1> DEFINE h == R * Base
<1>8. h \in Nat /\ FixedRange = 2 * h
  BY <1>7
<1> HIDE DEF h
<1>9. FixedRange \div 2 = h
  BY <1>8
<1> QED BY <1>4, <1>5, <1>8, <1>9

LEMMA FixedSigned ==
    /\ \A v \in -(FixedRange \div 2) .. (FixedRange \div 2) - 1 : ToFixedSigned(v % FixedRange) = v
    /\ \A v \in 0 .. FixedRange - 1 :
          /\ v % FixedRange = v
          /\ ToFixedSigned(v) \in -(FixedRange \div 2) .. (FixedRange \div 2) - 1
<1> DEFINE h == FixedRange \div 2
<1>1. h \in Nat /\ FixedRange = 2 * h /\ h > 0
  BY FixedNumbers
<1> HIDE DEF h
<1>2. ASSUME NEW v \in -h .. h - 1 PROVE ToFixedSigned(v % FixedRange) = v
  <2>1. CASE v >= 0
    <3>1. v \in Nat /\ v < FixedRange /\ v = 0 * FixedRange + v /\ FixedRange \in Nat /\ FixedRange > 0
      BY <1>1, <2>1
    <3>2. v % FixedRange = v
      BY <3>1, DivisionUnique
    <3> QED BY <1>1, <3>2 DEF ToFixedSigned, h
  <2>2. CASE v < 0
    <3> DEFINE r == v + FixedRange
    <3>1. /\ r \in Nat /\ r < FixedRange /\ v = (-1) * FixedRange + r
          /\ FixedRange \in Nat /\ FixedRange > 0 /\ -1 \in Int /\ r >= h
      BY <1>1, <2>2
    <3> HIDE DEF r
    <3>2. v % FixedRange = r
      BY <3>1, DivisionUnique
    <3>3. r - FixedRange = v
      BY <3>1 DEF r
    <3> QED BY <3>1, <3>2, <3>3 DEF ToFixedSigned, h
  <2> QED BY <2>1, <2>2
<1>3. ASSUME NEW v \in 0 .. FixedRange - 1
      PROVE  v % FixedRange = v /\ ToFixedSigned(v) \in -h .. h - 1
  <2>1. v \in Nat /\ v < FixedRange /\ v = 0 * FixedRange + v /\ FixedRange \in Nat /\ FixedRange > 0
    BY <1>1
  <2>2. v % FixedRange = v
    BY <2>1, DivisionUnique
  <2>3. ToFixedSigned(v) = IF v >= h THEN v - FixedRange ELSE v
    BY DEF ToFixedSigned, h
  <2> QED BY <1>1, <2>2, <2>3
<1> QED BY <1>2, <1>3 DEF h

LEMMA BasicForm ==
    ASSUME NEW lengths, NEW item \in Basics(lengths)
    PROVE  /\ item = [type |-> item.type, val |-> item.val]
           /\ item.type \in BasicTypes
           /\ item.type = "int" => item.val \in Signed
           /\ item.type = "uint" => item.val \in Unsigned
           /\ item.type = "enum" => item.val \in Wide
           /\ item.type = "fint" => item.val \in -(FixedRange \div 2) .. (FixedRange \div 2) - 1
           /\ item.type = "fuint" => item.val \in 0 .. FixedRange - 1
           /\ item.type \in {"string", "fstring"} => item.val \in lengths
<1> DEFINE Fixed == -(FixedRange \div 2) .. (FixedRange \div 2) - 1
           Free == 0 .. FixedRange - 1
<1> HIDE DEF Fixed, Free
<1>1. item \in [type : {"int"}, val : Signed]
         \cup [type : {"uint"}, val : Unsigned]
         \cup [type : {"enum"}, val : Wide]
         \cup [type : {"fint"}, val : Fixed]
         \cup [type : {"fuint"}, val : Free]
         \cup [type : {"string", "fstring"}, val : lengths]
  BY DEF Basics, Fixed, Free
<1>2. /\ item = [type |-> item.type, val |-> item.val]
      /\ item.type \in BasicTypes
      /\ item.type = "int" => item.val \in Signed
      /\ item.type = "uint" => item.val \in Unsigned
      /\ item.type = "enum" => item.val \in Wide
      /\ item.type = "fint" => item.val \in Fixed
      /\ item.type = "fuint" => item.val \in Free
      /\ item.type \in {"string", "fstring"} => item.val \in lengths
  BY <1>1 DEF BasicTypes
<1> QED BY <1>2 DEF Fixed, Free

LEMMA BasicMade ==
    ASSUME NEW lengths, NEW t \in BasicTypes, NEW v,
           t = "int" => v \in Signed,
           t = "uint" => v \in Unsigned,
           t = "enum" => v \in Wide,
           t = "fint" => v \in -(FixedRange \div 2) .. (FixedRange \div 2) - 1,
           t = "fuint" => v \in 0 .. FixedRange - 1,
           t \in {"string", "fstring"} => v \in lengths
    PROVE  [type |-> t, val |-> v] \in Basics(lengths)
<1> DEFINE Fixed == -(FixedRange \div 2) .. (FixedRange \div 2) - 1
           Free == 0 .. FixedRange - 1
<1>1. (t = "fint" => v \in Fixed) /\ (t = "fuint" => v \in Free)
  OBVIOUS
<1> HIDE DEF Fixed, Free
<1>2. [type |-> t, val |-> v] \in [type : {"int"}, val : Signed]
         \cup [type : {"uint"}, val : Unsigned]
         \cup [type : {"enum"}, val : Wide]
         \cup [type : {"fint"}, val : Fixed]
         \cup [type : {"fuint"}, val : Free]
         \cup [type : {"string", "fstring"}, val : lengths]
  BY <1>1 DEF BasicTypes
<1> QED BY <1>2 DEF Basics, Fixed, Free

LEMMA CharactersType ==
    ASSUME NEW n \in Nat
    PROVE  Characters(n) \in ByteSeq /\ Len(Characters(n)) = n
<1>1. 0 \in 0 .. Byte - 1
  BY Sizes
<1> DEFINE f == Characters(n)
<1>2. f \in [1 .. n -> 0 .. Byte - 1]
  BY <1>1 DEF Characters
<1> HIDE DEF f
<1>3. f \in Seq(0 .. Byte - 1)
  BY <1>2, SeqDef
<1>4. Len(f) = n
  BY <1>2, <1>3, LenProperties
<1> QED BY <1>3, <1>4 DEF ByteSeq, f

LEMMA Concatenated ==
    ASSUME NEW s \in ByteSeq, NEW t \in ByteSeq
    PROVE  s \o t \in ByteSeq /\ Len(s \o t) = Len(s) + Len(t) /\ Len(s) \in Nat /\ Len(t) \in Nat
BY ConcatProperties, LenProperties DEF ByteSeq

-----------------------------------------------------------------------------
(* The basic types: bytes are written, and at least one.                   *)
LEMMA EncodeBasicType ==
    ASSUME NEW item \in Basic
    PROVE  /\ EncodeBasic(item) \in ByteSeq /\ Len(EncodeBasic(item)) > 0
           /\ item.type \in {"int", "uint", "enum"} =>
                 Len(EncodeBasic(item)) <= (Width + Group - 1) \div Group
<1> DEFINE Fine(s) == s \in ByteSeq /\ Len(s) > 0
<1>1. /\ item.type \in BasicTypes
      /\ item.type = "int" => item.val \in Signed
      /\ item.type = "uint" => item.val \in Unsigned
      /\ item.type = "enum" => item.val \in Wide
      /\ item.type = "fint" => item.val \in -(FixedRange \div 2) .. (FixedRange \div 2) - 1
      /\ item.type = "fuint" => item.val \in 0 .. FixedRange - 1
      /\ item.type \in {"string", "fstring"} => item.val \in 0 .. MaxString
  BY BasicForm DEF Basic
<1>2. ASSUME NEW v \in Unsigned
      PROVE  Fine(Varint[v]) /\ Len(Varint[v]) <= (Width + Group - 1) \div Group /\ v \in Nat
  <2>1. v \in Nat
    BY Sizes DEF Unsigned
  <2>2. Varint[v] \in ByteSeq
    BY <2>1, VarintDef
  <2>3. Len(Varint[v]) \in 1 .. (Width + Group - 1) \div Group
    BY VarintFits
  <2>4. (Width + Group - 1) \div Group \in Int
    <3>1. Width + Group - 1 \in Int /\ Group \in Nat /\ Group > 0
      BY Sizes
    <3> QED BY <3>1, Division
  <2> QED BY <2>1, <2>2, <2>3, <2>4
<1>3. ASSUME NEW n \in 0 .. MaxString PROVE n \in Unsigned /\ n \in Nat
  <2>1. MaxString \in Nat /\ MaxString < 2 * Half /\ Half \in Nat
    BY Sizes, LengthAssumption DEF Unsigned
  <2> QED BY <2>1 DEF Unsigned
<1>4. ASSUME NEW v \in Int, NEW n \in Nat, n > 0 PROVE Fine(FixedBytes(v, n))
  BY <1>4, FixedBytesType
<1>5. ASSUME NEW s, Fine(s), NEW n \in Nat PROVE Fine(s \o Characters(n))
  <2> DEFINE t == Characters(n)
  <2>1. t \in ByteSeq /\ Len(t) = n
    BY CharactersType
  <2> HIDE DEF t
  <2>2. s \o t \in ByteSeq /\ Len(s \o t) = Len(s) + Len(t) /\ Len(s) \in Nat /\ Len(t) \in Nat
    BY <1>5, <2>1, Concatenated
  <2>3. Len(s) + Len(t) > 0
    BY <1>5, <2>2
  <2> QED BY <2>2, <2>3 DEF t
<1>6. FixedLen \in Nat /\ FixedLen > 0 /\ PrefixLen \in Nat /\ PrefixLen > 0
  BY FixedAssumption
<1>7. CASE item.type = "int"
  <2>1. EncodeZigzag(item.val) \in Unsigned
    BY <1>1, <1>7, ZigzagRoundTrip
  <2>2. EncodeBasic(item) = Varint[EncodeZigzag(item.val)]
    BY <1>7 DEF EncodeBasic
  <2> QED BY <1>2, <2>1, <2>2
<1>e. CASE item.type = "enum"
  <2>1. EncodeZigzag(Truncated(item.val)) \in Unsigned
    BY <1>1, <1>e, TruncatedType, ZigzagRoundTrip
  <2>2. EncodeBasic(item) = Varint[EncodeZigzag(Truncated(item.val))]
    BY <1>e DEF EncodeBasic
  <2> QED BY <1>2, <2>1, <2>2
<1>8. CASE item.type = "uint"
  <2>1. EncodeBasic(item) = Varint[item.val]
    BY <1>8 DEF EncodeBasic
  <2> QED BY <1>1, <1>2, <1>8, <2>1
<1>9. CASE item.type \in {"fint", "fuint"}
  <2>1. EncodeBasic(item) = FixedBytes(item.val, FixedLen)
    BY <1>9 DEF EncodeBasic
  <2>2. item.val \in Int
    BY <1>1, <1>9, FixedNumbers
  <2>3. item.type \notin {"int", "uint", "enum"}
    BY <1>9
  <2> HIDE DEF Fine
  <2>4. Fine(EncodeBasic(item))
    BY <1>4, <1>6, <2>1, <2>2
  <2> QED BY <2>3, <2>4 DEF Fine
<1>10. CASE item.type = "string"
  <2>1. EncodeBasic(item) = Varint[item.val] \o Characters(item.val)
    BY <1>10 DEF EncodeBasic
  <2>2. item.val \in Unsigned /\ item.val \in Nat
    BY <1>1, <1>3, <1>10
  <2>3. item.type \notin {"int", "uint", "enum"}
    BY <1>10
  <2> HIDE DEF Fine
  <2>4. Fine(EncodeBasic(item))
    BY <1>2, <1>5, <2>1, <2>2
  <2> QED BY <2>3, <2>4 DEF Fine
<1>11. CASE item.type = "fstring"
  <2>1. EncodeBasic(item) = FixedBytes(item.val, PrefixLen) \o Characters(item.val)
    BY <1>11 DEF EncodeBasic
  <2>2. item.val \in Int /\ item.val \in Nat
    BY <1>1, <1>3, <1>11
  <2>3. item.type \notin {"int", "uint", "enum"}
    BY <1>11
  <2> HIDE DEF Fine
  <2>4. Fine(FixedBytes(item.val, PrefixLen))
    BY <1>4, <1>6, <2>2
  <2>5. Fine(EncodeBasic(item))
    BY <1>5, <2>1, <2>2, <2>4
  <2> QED BY <2>3, <2>5 DEF Fine
<1> QED BY <1>1, <1>e, <1>7, <1>8, <1>9, <1>10, <1>11 DEF BasicTypes

(* What is behind a length that was read: its characters.                  *)
LEMMA StringRead ==
    ASSUME bytes \in ByteSeq, NEW p \in Nat, p > 0, NEW n \in Nat, NEW s \in ByteSeq, Len(s) > 0,
           Holds(p, s \o Characters(n))
    PROVE  /\ ReadString([val |-> n, next |-> p + Len(s)])
                 = [val |-> n, next |-> p + Len(s \o Characters(n))]
           /\ Holds(p, s)
<1> DEFINE t == Characters(n)
           e == (p + Len(s)) + n
<1>1. t \in ByteSeq /\ Len(t) = n
  BY CharactersType
<1>2. Holds(p, s \o t)
  OBVIOUS
<1> HIDE DEF t
<1>3. s \o t \in ByteSeq /\ Len(s \o t) = Len(s) + Len(t) /\ Holds(p, s) /\ Len(s) \in Nat
  <2> DEFINE st == s \o t
  <2>1. st \in ByteSeq /\ Len(st) = Len(s) + Len(t) /\ Len(s) \in Nat
    BY <1>1, Concatenated
  <2>2. Holds(p, s)
    BY <1>1, <1>2, HoldsParts, Zenon
  <2> QED BY <2>1, <2>2
<1>4. Len(s \o t) \in Nat /\ Len(s \o t) > 0 /\ e = p + Len(s \o t)
  BY <1>1, <1>3
<1>5. p + Len(s \o t) <= Len(bytes) + 1
  BY <1>2, <1>3, <1>4, HoldsInside
<1>6. Len(bytes) \in Nat
  BY DEF ByteSeq
<1> DEFINE l == [val |-> n, next |-> p + Len(s)]
<1>7. l.next = p + Len(s) /\ l.val = n /\ l.next # 0 /\ ~(l.next + l.val > Len(bytes) + 1)
  BY <1>3, <1>4, <1>5, <1>6
<1> HIDE DEF l
<1>8. ReadString(l) = [val |-> n, next |-> e]
  BY <1>7 DEF ReadString
<1> QED BY <1>3, <1>4, <1>8 DEF l, t

LEMMA DecodeBasicRead ==
    ASSUME bytes \in ByteSeq, NEW p \in Nat, p > 0, NEW item \in Basic, FitsField(item),
           Holds(p, EncodeBasic(item))
    PROVE  DecodeBasic(item.type, p) = [val |-> item.val, next |-> p + Len(EncodeBasic(item))]
<1>1. /\ item.type \in BasicTypes
      /\ item.type = "int" => item.val \in Signed
      /\ item.type = "uint" => item.val \in Unsigned
      /\ item.type = "enum" => item.val \in Wide
      /\ item.type = "fint" => item.val \in -(FixedRange \div 2) .. (FixedRange \div 2) - 1
      /\ item.type = "fuint" => item.val \in 0 .. FixedRange - 1
      /\ item.type \in {"string", "fstring"} => item.val \in 0 .. MaxString
  BY BasicForm DEF Basic
<1>2. ASSUME NEW n \in 0 .. MaxString PROVE n \in Unsigned /\ n \in Nat
  <2>1. MaxString \in Nat /\ MaxString < 2 * Half /\ Half \in Nat
    BY Sizes, LengthAssumption DEF Unsigned
  <2> QED BY <2>1 DEF Unsigned
<1>3. FixedLen \in Nat /\ FixedLen > 0 /\ PrefixLen \in Nat /\ PrefixLen > 0
  BY FixedAssumption
<1>4. CASE item.type = "int"
  <2> DEFINE u == EncodeZigzag(item.val)
  <2>1. u \in Unsigned /\ DecodeZigzag(u) = item.val
    BY <1>1, <1>4, ZigzagRoundTrip
  <2>2. EncodeBasic(item) = Varint[u]
    BY <1>4 DEF EncodeBasic
  <2> HIDE DEF u
  <2>3. ReadVarint(p) = [val |-> u, next |-> p + Len(Varint[u])]
    BY <2>1, <2>2, VarintRead
  <2>4. DecodeBasic(item.type, p) = [ReadVarint(p) EXCEPT !.val = DecodeZigzag(@)]
    BY <1>4 DEF DecodeBasic
  <2> QED BY <2>1, <2>2, <2>3, <2>4
<1>e. CASE item.type = "enum"
  <2> DEFINE u == EncodeZigzag(item.val)
  <2>0. item.val \in Signed /\ Truncated(item.val) = item.val
    BY <1>1, <1>e, TruncatedType DEF FitsField
  <2>1. u \in Unsigned /\ DecodeZigzag(u) = item.val
    BY <2>0, ZigzagRoundTrip
  <2>2. EncodeBasic(item) = Varint[u]
    BY <1>e, <2>0 DEF EncodeBasic
  <2> HIDE DEF u
  <2>3. ReadVarint(p) = [val |-> u, next |-> p + Len(Varint[u])]
    BY <2>1, <2>2, VarintRead
  <2>4. DecodeBasic(item.type, p) = [ReadVarint(p) EXCEPT !.val = DecodeZigzag(@)]
    BY <1>e DEF DecodeBasic
  <2> QED BY <2>1, <2>2, <2>3, <2>4
<1>5. CASE item.type = "uint"
  <2>1. EncodeBasic(item) = Varint[item.val]
    BY <1>5 DEF EncodeBasic
  <2>2. ReadVarint(p) = [val |-> item.val, next |-> p + Len(Varint[item.val])]
    BY <1>1, <1>5, <2>1, VarintRead
  <2>3. DecodeBasic(item.type, p) = ReadVarint(p)
    BY <1>5 DEF DecodeBasic
  <2> QED BY <2>1, <2>2, <2>3
<1>6. ASSUME item.type \in {"fint", "fuint"}
      PROVE  /\ ReadFixed(p, FixedLen) = [val |-> item.val % FixedRange,
                                          next |-> p + Len(EncodeBasic(item))]
  <2>1. EncodeBasic(item) = FixedBytes(item.val, FixedLen)
    BY <1>6 DEF EncodeBasic
  <2>2. item.val \in Int
    BY <1>1, <1>6, FixedNumbers
  <2>3. Len(FixedBytes(item.val, FixedLen)) = FixedLen
    BY <1>3, <2>2, FixedBytesType
  <2>4. ReadFixed(p, FixedLen) = [val |-> item.val % FixedRange, next |-> p + FixedLen]
    BY <1>3, <2>1, <2>2, FixedRead DEF FixedRange
  <2> QED BY <2>1, <2>3, <2>4
<1>7. CASE item.type = "fint"
  <2>1. ToFixedSigned(item.val % FixedRange) = item.val
    BY <1>1, <1>7, FixedSigned
  <2>2. DecodeBasic(item.type, p) = [ReadFixed(p, FixedLen) EXCEPT !.val = ToFixedSigned(@)]
    BY <1>7 DEF DecodeBasic
  <2> QED BY <1>6, <1>7, <2>1, <2>2
<1>8. CASE item.type = "fuint"
  <2>1. item.val % FixedRange = item.val
    BY <1>1, <1>8, FixedSigned
  <2>2. DecodeBasic(item.type, p) = ReadFixed(p, FixedLen)
    BY <1>8 DEF DecodeBasic
  <2> QED BY <1>6, <1>8, <2>1, <2>2
<1>9. CASE item.type = "string"
  <2> DEFINE n == item.val
             s == Varint[n]
  <2>1. n \in Unsigned /\ n \in Nat
    BY <1>1, <1>2, <1>9
  <2>2. EncodeBasic(item) = s \o Characters(n)
    BY <1>9 DEF EncodeBasic
  <2>3. s \in ByteSeq /\ Len(s) > 0
    <3>1. s \in ByteSeq
      BY <2>1, VarintDef
    <3>2. Len(s) \in 1 .. (Width + Group - 1) \div Group
      BY <2>1, VarintFits
    <3> DEFINE z == (Width + Group - 1) \div Group
    <3> HIDE DEF z
    <3>3. Len(s) \in 1 .. z
      BY <3>2 DEF z
    <3>4. Len(s) > 0
      <4> HIDE DEF s
      <4> QED BY <3>3
    <3> QED BY <3>1, <3>4
  <2> HIDE DEF n, s
  <2>4. /\ ReadString([val |-> n, next |-> p + Len(s)])
              = [val |-> n, next |-> p + Len(s \o Characters(n))]
        /\ Holds(p, s)
    BY <2>1, <2>2, <2>3, StringRead
  <2>5. ReadVarint(p) = [val |-> n, next |-> p + Len(s)]
    BY <2>1, <2>4, VarintRead DEF s
  <2>6. DecodeBasic(item.type, p) = ReadString(ReadVarint(p))
    BY <1>9 DEF DecodeBasic
  <2> QED BY <2>2, <2>4, <2>5, <2>6 DEF n
<1>10. CASE item.type = "fstring"
  <2> DEFINE n == item.val
             s == FixedBytes(n, PrefixLen)
             R == ByteRange(PrefixLen)
  <2>1. n \in Int /\ n \in Nat
    BY <1>1, <1>2, <1>10
  <2>2. EncodeBasic(item) = s \o Characters(n)
    BY <1>10 DEF EncodeBasic
  <2>3. s \in ByteSeq /\ Len(s) = PrefixLen /\ Len(s) > 0
    BY <1>3, <2>1, FixedBytesType
  <2>4. n < R /\ R \in Nat /\ R > 0
    BY <1>10, FixedNumbers DEF FitsField
  <2> HIDE DEF n, s, R
  <2>5. /\ ReadString([val |-> n, next |-> p + Len(s)])
              = [val |-> n, next |-> p + Len(s \o Characters(n))]
        /\ Holds(p, s)
    BY <2>1, <2>2, <2>3, StringRead
  <2>6. n % R = n
    <3>1. n = 0 * R + n
      BY <2>1, <2>4
    <3> QED BY <2>1, <2>4, <3>1, DivisionUnique
  <2>7. ReadFixed(p, PrefixLen) = [val |-> n, next |-> p + Len(s)]
    <3>1. ReadFixed(p, PrefixLen) = [val |-> n % ByteRange(PrefixLen), next |-> p + PrefixLen]
      BY <1>3, <2>1, <2>5, FixedRead DEF s
    <3> QED BY <2>3, <2>6, <3>1 DEF R
  <2>8. DecodeBasic(item.type, p) = ReadString(ReadFixed(p, PrefixLen))
    BY <1>10 DEF DecodeBasic
  <2> QED BY <2>2, <2>5, <2>7, <2>8 DEF n
<1> QED BY <1>1, <1>e, <1>4, <1>5, <1>7, <1>8, <1>9, <1>10 DEF BasicTypes

LEMMA ReadStringTyped ==
    ASSUME bytes \in ByteSeq, NEW len \in Readings(Nat)
    PROVE  ReadString(len) \in Readings(Nat) /\ (len.next = 0 => ReadString(len).next = 0)
<1>1. Len(bytes) \in Nat
  BY DEF ByteSeq
<1>2. len.val \in Nat /\ len.next \in 0 .. Len(bytes) + 1
  BY DEF Readings
<1> DEFINE e == IF len.next = 0 \/ len.next + len.val > Len(bytes) + 1 THEN 0 ELSE len.next + len.val
<1>3. e \in 0 .. Len(bytes) + 1 /\ (len.next = 0 => e = 0)
  BY <1>1, <1>2
<1>4. ReadString(len) = [val |-> len.val, next |-> e]
  BY DEF ReadString
<1> HIDE DEF e
<1> QED BY <1>2, <1>3, <1>4 DEF Readings

(* Whatever the bytes are, a value of the type is read, or it throws; and  *)
(* it always throws behind the last byte.                                  *)
LEMMA DecodeBasicTyped ==
    ASSUME bytes \in ByteSeq, NEW p \in 1 .. Len(bytes) + 1, NEW t \in BasicTypes
    PROVE  /\ DecodeBasic(t, p) \in Readings(Int)
           /\ [type |-> t, val |-> DecodeBasic(t, p).val] \in Basics(Nat)
           /\ p = Len(bytes) + 1 => DecodeBasic(t, p).next = 0
<1> DEFINE d == DecodeBasic(t, p)
           v == ReadVarint(p)
           x == ReadFixed(p, FixedLen)
           y == ReadFixed(p, PrefixLen)
           End == p = Len(bytes) + 1
<1>1. FixedLen \in Nat /\ FixedLen > 0 /\ PrefixLen \in Nat /\ PrefixLen > 0
  BY FixedAssumption
<1>2. v \in Readings(Unsigned) /\ (End => v.next = 0)
  BY VarintTyped
<1>3. x \in Readings(0 .. FixedRange - 1) /\ (End => x.next = 0)
  BY <1>1, ReadFixedTyped DEF FixedRange
<1>4. y \in Readings(0 .. ByteRange(PrefixLen) - 1) /\ (End => y.next = 0)
  BY <1>1, ReadFixedTyped
<1>5. ASSUME NEW V, NEW r \in Readings(V), NEW w, V \subseteq Int, w \in Int
      PROVE  /\ r \in Readings(Int) /\ r.val \in V
             /\ [r EXCEPT !.val = w] \in Readings(Int) /\ [r EXCEPT !.val = w].val = w
             /\ [r EXCEPT !.val = w].next = r.next
  BY <1>5 DEF Readings
<1>6. Unsigned \subseteq Nat /\ Signed \subseteq Int /\ 0 .. FixedRange - 1 \subseteq Nat
  BY Sizes, FixedNumbers DEF Unsigned, Signed
<1>7. d \in Readings(Int)
      /\ (t = "int" => d.val \in Signed)
      /\ (t = "uint" => d.val \in Unsigned)
      /\ (t = "enum" => d.val \in Signed)
      /\ (t = "fint" => d.val \in -(FixedRange \div 2) .. (FixedRange \div 2) - 1)
      /\ (t = "fuint" => d.val \in 0 .. FixedRange - 1)
      /\ (t \in {"string", "fstring"} => d.val \in Nat)
      /\ (End => d.next = 0)
  <2> HIDE DEF v, x, y, End
  <2>1. CASE t \in {"int", "enum"}
    <3>1. d = [v EXCEPT !.val = DecodeZigzag(v.val)]
      BY <2>1 DEF DecodeBasic, v
    <3>2. v.val \in Unsigned
      BY <1>2 DEF Readings
    <3>3. DecodeZigzag(v.val) \in Signed
      BY <3>2, ZigzagType
    <3> HIDE DEF d
    <3>4. d \in Readings(Int) /\ d.val = DecodeZigzag(v.val) /\ d.next = v.next
      BY <1>2, <1>5, <1>6, <3>1, <3>3
    <3> QED BY <1>2, <2>1, <3>3, <3>4
  <2>2. CASE t = "uint"
    <3>1. d = v
      BY <2>2 DEF DecodeBasic, v
    <3> HIDE DEF d
    <3>2. v \in Readings(Int) /\ v.val \in Unsigned
      <4>1. Unsigned \subseteq Int
        BY <1>6
      <4> QED BY <1>2, <4>1 DEF Readings
    <3> QED BY <1>2, <2>2, <3>1, <3>2
  <2>3. CASE t = "fint"
    <3> DEFINE h == FixedRange \div 2
    <3>0. h \in Nat
      BY FixedNumbers
    <3>1. d = [x EXCEPT !.val = ToFixedSigned(x.val)]
      BY <2>3 DEF DecodeBasic, x
    <3>2. x.val \in 0 .. FixedRange - 1
      BY <1>3 DEF Readings
    <3>3. ToFixedSigned(x.val) \in -h .. h - 1
      BY <3>2, FixedSigned
    <3> HIDE DEF d, h
    <3>4. ToFixedSigned(x.val) \in Int
      BY <3>0, <3>3
    <3>5. d \in Readings(Int) /\ d.val = ToFixedSigned(x.val) /\ d.next = x.next
      <4> DEFINE V == 0 .. FixedRange - 1
                 w == ToFixedSigned(x.val)
      <4>1. x \in Readings(V) /\ V \subseteq Int /\ w \in Int /\ d = [x EXCEPT !.val = w]
        BY <1>3, <1>6, <3>1, <3>4
      <4> HIDE DEF V, w
      <4>2. d \in Readings(Int) /\ d.val = w /\ d.next = x.next
        BY <1>5, <4>1
      <4> QED BY <4>2 DEF w
    <3>6. d.val \in -h .. h - 1
      BY <3>3, <3>5
    <3> QED BY <1>3, <2>3, <3>5, <3>6 DEF h
  <2>4. CASE t = "fuint"
    <3>1. d = x
      BY <2>4 DEF DecodeBasic, x
    <3> HIDE DEF d
    <3>2. x \in Readings(Int) /\ x.val \in 0 .. FixedRange - 1
      BY <1>3, <1>6 DEF Readings
    <3> QED BY <1>3, <2>4, <3>1, <3>2
  <2>5. CASE t = "string"
    <3>1. d = ReadString(v)
      BY <2>5 DEF DecodeBasic, v
    <3>2. v \in Readings(Nat)
      BY <1>2, <1>6 DEF Readings
    <3>3. ReadString(v) \in Readings(Nat) /\ (v.next = 0 => ReadString(v).next = 0)
      BY <3>2, ReadStringTyped
    <3> HIDE DEF d
    <3>4. d \in Readings(Int) /\ d.val \in Nat
      BY <3>1, <3>3 DEF Readings
    <3> QED BY <1>2, <2>5, <3>1, <3>3, <3>4
  <2>6. CASE t = "fstring"
    <3>1. d = ReadString(y)
      BY <2>6 DEF DecodeBasic, y
    <3>2. y \in Readings(Nat)
      BY <1>4, FixedNumbers DEF Readings
    <3>3. ReadString(y) \in Readings(Nat) /\ (y.next = 0 => ReadString(y).next = 0)
      BY <3>2, ReadStringTyped
    <3> HIDE DEF d
    <3>4. d \in Readings(Int) /\ d.val \in Nat
      BY <3>1, <3>3 DEF Readings
    <3> QED BY <1>4, <2>6, <3>1, <3>3, <3>4
  <2> QED BY <2>1, <2>2, <2>3, <2>4, <2>5, <2>6 DEF BasicTypes
<1> HIDE DEF d
<1>8. [type |-> t, val |-> d.val] \in Basics(Nat)
  <2>1. Signed \subseteq Wide
    BY Sizes DEF Signed, Wide
  <2> QED BY <1>7, <2>1, BasicMade
<1> QED BY <1>7, <1>8 DEF d

-----------------------------------------------------------------------------
(* VisitMembers: the members are written one after another.                *)
LEMMA GrowPrefix ==
    ASSUME NEW S, NEW s \in Seq(S), NEW k \in 0 .. Len(s) - 1
    PROVE  /\ SubSeq(s, 1, k) \in Seq(S)
           /\ Append(SubSeq(s, 1, k), s[k + 1]) = SubSeq(s, 1, k + 1)
<1>1. Len(s) \in Nat /\ 1 \in 1 .. Len(s) /\ k + 1 \in 1 .. Len(s) /\ (k + 1) - 1 = k
  BY LenProperties
<1>2. SubSeq(s, 1, k + 1) = SubSeq(s, 1, k) \o <<s[k + 1]>>
  BY <1>1, SubSeqRecursiveSecond
<1>3. \A i \in 1 .. k : s[i] \in S
  BY <1>1, ElementOfSeq
<1>4. SubSeq(s, 1, k) \in Seq(S)
  BY <1>3, SubSeqProperties
<1>5. s[k + 1] \in S
  BY <1>1, ElementOfSeq
<1> QED BY <1>2, <1>4, <1>5, AppendIsConcat

WriteLoop(items, f) ==
    /\ f[0] = <<>>
    /\ \A k \in 1 .. Len(items) : f[k] = f[k - 1] \o EncodeBasic(items[k])
    /\ \A k \in 0 .. Len(items) : f[k] \in ByteSeq
    /\ VisitToWrite(items) = f[Len(items)]

LEMMA VisitToWriteDef ==
    ASSUME NEW items \in Seq(Basic)
    PROVE  \E f : WriteLoop(items, f)
<1> DEFINE n == Len(items)
           D == 0 .. n
           R(k, f) == IF k = 0 THEN <<>> ELSE f[k - 1] \o EncodeBasic(items[k])
           H == [k \in D |-> [f \in [D -> ByteSeq] |-> R(k, f)]]
           mu == [k \in D |-> k]
           u == CHOOSE f : f = [k \in D |-> R(k, f)]
<1>0. n \in Nat
  BY LenProperties
<1>1. PICK f : Solves(D, ByteSeq, H, f)
  <2> HIDE DEF n
  <2>1. H \in [D -> [[D -> ByteSeq] -> ByteSeq]]
    <3>1. ASSUME NEW k \in D, NEW f \in [D -> ByteSeq]
          PROVE  R(k, f) \in ByteSeq
      <4>1. CASE k = 0
        BY <4>1 DEF ByteSeq
      <4>2. CASE k # 0
        <5>1. k - 1 \in D /\ k \in 1 .. n
          BY <1>0, <4>2
        <5>2. f[k - 1] \in ByteSeq
          BY <5>1
        <5>3. items[k] \in Basic
          BY <5>1, ElementOfSeq DEF n
        <5>4. EncodeBasic(items[k]) \in ByteSeq
          BY <5>3, EncodeBasicType
        <5>5. f[k - 1] \o EncodeBasic(items[k]) \in ByteSeq
          BY <5>2, <5>4, Concatenated
        <5> QED BY <4>2, <5>5
      <4> QED BY <4>1, <4>2
    <3> HIDE DEF R, D
    <3> QED BY <3>1
  <2>2. ASSUME NEW k \in D, NEW f \in [D -> ByteSeq], NEW g \in [D -> ByteSeq],
               \A m \in D : mu[m] < mu[k] => f[m] = g[m]
        PROVE  H[k][f] = H[k][g]
    <3>1. k # 0 => k - 1 \in D /\ mu[k - 1] < mu[k]
      BY <1>0
    <3>2. k # 0 => f[k - 1] = g[k - 1]
      BY <2>2, <3>1
    <3>3. R(k, f) = R(k, g)
      BY <3>2
    <3> HIDE DEF R, D
    <3> QED BY <3>3
  <2>3. mu \in [D -> Nat] /\ ByteSeq # {}
    <3>1. <<>> \in ByteSeq
      BY DEF ByteSeq
    <3> QED BY <1>0, <3>1
  <2> HIDE DEF H, mu, D
  <2>4. WellFounded(D, ByteSeq, mu, H)
    BY <2>1, <2>2, <2>3 DEF WellFounded
  <2> QED BY <2>3, <2>4, Recursion
<1>2. f \in [D -> ByteSeq] /\ f = [k \in D |-> R(k, f)]
  <2> HIDE DEF R, D
  <2>1. f \in [D -> ByteSeq] /\ \A k \in D : f[k] = R(k, f)
    BY <1>1 DEF Solves
  <2> QED BY <2>1
<1>3. u = [k \in D |-> R(k, u)]
  <2> HIDE DEF R, D
  <2> QED BY <1>2
<1>4. VisitToWrite(items) = u[n]
  BY DEF VisitToWrite
<1> HIDE DEF u, n
<1>5. \A k \in D : u[k] = R(k, u)
  <2> HIDE DEF R, D
  <2> QED BY <1>3
<1>6. u[0] = <<>>
  BY <1>0, <1>5
<1>7. ASSUME NEW k \in 1 .. n PROVE u[k] = u[k - 1] \o EncodeBasic(items[k])
  <2>1. k \in D /\ k # 0
    BY <1>0
  <2> HIDE DEF D
  <2> QED BY <1>5, <2>1
<1> DEFINE T == {k \in Nat : k <= n => u[k] \in ByteSeq}
<1>8. 0 \in T
  <2>1. u[0] \in ByteSeq
    BY <1>6, EmptySeq DEF ByteSeq
  <2> QED BY <2>1
<1>9. ASSUME NEW k \in T PROVE k + 1 \in T
  <2>0. k \in Nat /\ (k <= n => u[k] \in ByteSeq)
    OBVIOUS
  <2>1. ASSUME k + 1 <= n PROVE u[k + 1] \in ByteSeq
    <3>1. k + 1 \in 1 .. n /\ (k + 1) - 1 = k /\ k <= n
      BY <1>0, <2>0, <2>1
    <3>2. items[k + 1] \in Basic
      BY <3>1, ElementOfSeq DEF n
    <3>3. EncodeBasic(items[k + 1]) \in ByteSeq
      BY <3>2, EncodeBasicType
    <3>4. u[k + 1] = u[k] \o EncodeBasic(items[k + 1])
      BY <1>7, <3>1
    <3> QED BY <2>0, <3>1, <3>3, <3>4, Concatenated
  <2> QED BY <2>0, <2>1
<1>10. T = Nat
  <2> HIDE DEF T
  <2>1. T \in SUBSET Nat
    BY DEF T
  <2> QED BY <1>8, <1>9, <2>1, SetInduction
<1>11. ASSUME NEW k \in 0 .. n PROVE u[k] \in ByteSeq
  <2>1. k \in T /\ k <= n
    <3> HIDE DEF T
    <3> QED BY <1>0, <1>10
  <2> QED BY <2>1
<1> QED BY <1>4, <1>6, <1>7, <1>11 DEF WriteLoop, n

(* They are read one after another, until one throws.                      *)
Visited == Readings(Seq(Basics(Nat)))

LEMMA ReadNextTyped ==
    ASSUME bytes \in ByteSeq, NEW sofar \in Visited, NEW t \in BasicTypes
    PROVE  /\ ReadNext(sofar, t) \in Visited
           /\ sofar.next \in {0, Len(bytes) + 1} => ReadNext(sofar, t).next = 0
<1> DEFINE p == sofar.next
           d == DecodeBasic(t, p)
<1>0. Len(bytes) \in Nat
  BY DEF ByteSeq
<1>1. p \in 0 .. Len(bytes) + 1 /\ sofar.val \in Seq(Basics(Nat))
  BY DEF Visited, Readings
<1>2. CASE p = 0
  <2>1. ReadNext(sofar, t) = sofar
    BY <1>2 DEF ReadNext
  <2> QED BY <1>2, <2>1
<1>3. CASE p # 0
  <2>1. ReadNext(sofar, t)
          = [val |-> Append(sofar.val, [type |-> t, val |-> d.val]), next |-> d.next]
    BY <1>3 DEF ReadNext
  <2>2. p \in 1 .. Len(bytes) + 1
    BY <1>0, <1>1, <1>3
  <2> HIDE DEF p
  <2>3. /\ d \in Readings(Int) /\ [type |-> t, val |-> d.val] \in Basics(Nat)
        /\ p = Len(bytes) + 1 => d.next = 0
    BY <2>2, DecodeBasicTyped
  <2> DEFINE x == [type |-> t, val |-> d.val]
  <2>4. d.next \in 0 .. Len(bytes) + 1
    BY <2>3 DEF Readings
  <2> HIDE DEF d, x
  <2>5. Append(sofar.val, x) \in Seq(Basics(Nat))
    BY <1>1, <2>3, AppendProperties DEF x
  <2>6. ReadNext(sofar, t) = [val |-> Append(sofar.val, x), next |-> d.next]
    BY <2>1 DEF x
  <2> QED BY <1>3, <2>3, <2>4, <2>5, <2>6 DEF Visited, Readings, p
<1> QED BY <1>2, <1>3

ReadLoop(p, types, f) ==
    /\ f[0] = [val |-> <<>>, next |-> p]
    /\ \A k \in 1 .. Len(types) : f[k] = ReadNext(f[k - 1], types[k])
    /\ VisitToRead(p, types) = f[Len(types)]

LEMMA VisitToReadDef ==
    ASSUME bytes \in ByteSeq, NEW p \in 0 .. Len(bytes) + 1, NEW types \in Seq(BasicTypes)
    PROVE  \E f : ReadLoop(p, types, f)
<1> DEFINE n == Len(types)
           D == 0 .. n
           R(k, f) == IF k = 0 THEN [val |-> <<>>, next |-> p] ELSE ReadNext(f[k - 1], types[k])
           H == [k \in D |-> [f \in [D -> Visited] |-> R(k, f)]]
           mu == [k \in D |-> k]
           u == CHOOSE f : f = [k \in D |-> R(k, f)]
<1>0. n \in Nat
  BY LenProperties
<1>a. [val |-> <<>>, next |-> p] \in Visited
  <2>1. <<>> \in Seq(Basics(Nat))
    BY EmptySeq
  <2> QED BY <2>1 DEF Visited, Readings
<1>1. PICK f : Solves(D, Visited, H, f)
  <2> HIDE DEF n
  <2>1. H \in [D -> [[D -> Visited] -> Visited]]
    <3>1. ASSUME NEW k \in D, NEW f \in [D -> Visited]
          PROVE  R(k, f) \in Visited
      <4>1. CASE k = 0
        BY <1>a, <4>1
      <4>2. CASE k # 0
        <5>1. k - 1 \in D /\ k \in 1 .. n
          BY <1>0, <4>2
        <5>2. f[k - 1] \in Visited
          BY <5>1
        <5>3. types[k] \in BasicTypes
          BY <5>1, ElementOfSeq DEF n
        <5>4. ReadNext(f[k - 1], types[k]) \in Visited
          BY <5>2, <5>3, ReadNextTyped
        <5> QED BY <4>2, <5>4
      <4> QED BY <4>1, <4>2
    <3> HIDE DEF R, D
    <3> QED BY <3>1
  <2>2. ASSUME NEW k \in D, NEW f \in [D -> Visited], NEW g \in [D -> Visited],
               \A m \in D : mu[m] < mu[k] => f[m] = g[m]
        PROVE  H[k][f] = H[k][g]
    <3>1. k # 0 => k - 1 \in D /\ mu[k - 1] < mu[k]
      BY <1>0
    <3>2. k # 0 => f[k - 1] = g[k - 1]
      BY <2>2, <3>1
    <3>3. R(k, f) = R(k, g)
      BY <3>2
    <3> HIDE DEF R, D
    <3> QED BY <3>3
  <2>3. mu \in [D -> Nat] /\ Visited # {}
    BY <1>0, <1>a
  <2> HIDE DEF H, mu, D
  <2>4. WellFounded(D, Visited, mu, H)
    BY <2>1, <2>2, <2>3 DEF WellFounded
  <2> QED BY <2>3, <2>4, Recursion
<1>2. f \in [D -> Visited] /\ f = [k \in D |-> R(k, f)]
  <2> HIDE DEF R, D
  <2>1. f \in [D -> Visited] /\ \A k \in D : f[k] = R(k, f)
    BY <1>1 DEF Solves
  <2> QED BY <2>1
<1>3. u = [k \in D |-> R(k, u)]
  <2> HIDE DEF R, D
  <2> QED BY <1>2
<1>4. VisitToRead(p, types) = u[n]
  BY DEF VisitToRead
<1> HIDE DEF u, n
<1>5. \A k \in D : u[k] = R(k, u)
  <2> HIDE DEF R, D
  <2> QED BY <1>3
<1>6. u[0] = [val |-> <<>>, next |-> p]
  <2>1. 0 \in D
    BY <1>0
  <2> HIDE DEF D
  <2>2. u[0] = R(0, u)
    <3> HIDE DEF R
    <3> QED BY <1>5, <2>1
  <2> QED BY <2>2
<1>7. ASSUME NEW k \in 1 .. n PROVE u[k] = ReadNext(u[k - 1], types[k])
  <2>1. k \in D /\ k # 0
    BY <1>0
  <2> HIDE DEF D
  <2> QED BY <1>5, <2>1
<1> QED BY <1>4, <1>6, <1>7 DEF ReadLoop, n

LEMMA VisitTyped ==
    ASSUME bytes \in ByteSeq, NEW p \in 0 .. Len(bytes) + 1, NEW types \in Seq(BasicTypes)
    PROVE  /\ VisitToRead(p, types) \in Visited
           /\ p = 0 => VisitToRead(p, types).next = 0
           /\ p = Len(bytes) + 1 /\ Len(types) > 0 => VisitToRead(p, types).next = 0
<1> DEFINE n == Len(types)
<1>0. n \in Nat /\ Len(bytes) \in Nat
  BY LenProperties DEF ByteSeq
<1>a. PICK f : ReadLoop(p, types, f)
  BY VisitToReadDef
<1>1. /\ f[0] = [val |-> <<>>, next |-> p] /\ VisitToRead(p, types) = f[n]
      /\ \A k \in 1 .. n : f[k] = ReadNext(f[k - 1], types[k])
  BY <1>a DEF ReadLoop
<1> HIDE DEF n
<1>b. \A k \in 1 .. n : types[k] \in BasicTypes
  BY ElementOfSeq DEF n
<1> DEFINE Over(k) == /\ f[k] \in Visited
                      /\ p = 0 => f[k].next = 0
                      /\ p = Len(bytes) + 1 /\ k > 0 => f[k].next = 0
           T == {k \in Nat : k <= n => Over(k)}
<1>2. 0 \in T
  <2>1. <<>> \in Seq(Basics(Nat))
    BY EmptySeq
  <2>2. f[0] \in Visited /\ f[0].next = p
    BY <1>1, <2>1 DEF Visited, Readings
  <2> QED BY <2>2
<1>3. ASSUME NEW k \in T PROVE k + 1 \in T
  <2>0. k \in Nat /\ (k <= n => Over(k))
    OBVIOUS
  <2>1. ASSUME k + 1 <= n PROVE Over(k + 1)
    <3>1. k + 1 \in 1 .. n /\ (k + 1) - 1 = k /\ k <= n
      BY <1>0, <2>0, <2>1
    <3>2. f[k + 1] = ReadNext(f[k], types[k + 1]) /\ types[k + 1] \in BasicTypes
      BY <1>1, <1>b, <3>1
    <3>3. Over(k)
      BY <2>0, <3>1
    <3> DEFINE r == f[k]
               t == types[k + 1]
    <3>4. /\ ReadNext(r, t) \in Visited
          /\ r.next \in {0, Len(bytes) + 1} => ReadNext(r, t).next = 0
      <4>1. r \in Visited /\ t \in BasicTypes
        BY <3>2, <3>3
      <4> HIDE DEF r, t
      <4> QED BY <4>1, ReadNextTyped
    <3>5. p = Len(bytes) + 1 => f[k].next \in {0, Len(bytes) + 1}
      <4>1. CASE k = 0
        BY <1>1, <4>1
      <4>2. CASE k # 0
        BY <2>0, <3>3, <4>2
      <4> QED BY <4>1, <4>2
    <3> QED BY <3>2, <3>3, <3>4, <3>5
  <2> HIDE DEF Over
  <2> QED BY <2>0, <2>1
<1>4. T = Nat
  <2> HIDE DEF T
  <2>1. T \in SUBSET Nat
    BY DEF T
  <2> QED BY <1>2, <1>3, <2>1, SetInduction
<1>5. Over(n)
  <2> HIDE DEF Over
  <2>1. n \in T
    <3> HIDE DEF T
    <3> QED BY <1>0, <1>4
  <2> QED BY <1>0, <2>1
<1> QED BY <1>0, <1>1, <1>5 DEF n

-----------------------------------------------------------------------------
(* VisitMembers reads what VisitMembers wrote.                             *)
LEMMA TypesOfType ==
    ASSUME NEW items \in Seq(Basic)
    PROVE  TypesOf(items) \in Seq(BasicTypes) /\ Len(TypesOf(items)) = Len(items)
<1> DEFINE n == Len(items)
           f == TypesOf(items)
<1>1. n \in Nat
  BY LenProperties
<1>2. ASSUME NEW i \in 1 .. n PROVE items[i].type \in BasicTypes
  <2>1. items[i] \in Basic
    BY ElementOfSeq
  <2> QED BY <2>1, BasicForm DEF Basic
<1>3. f \in [1 .. n -> BasicTypes]
  BY <1>2 DEF TypesOf
<1> HIDE DEF f, n
<1>4. f \in Seq(BasicTypes)
  BY <1>1, <1>3, SeqDef
<1>5. Len(f) = n
  BY <1>1, <1>3, <1>4, LenProperties
<1> QED BY <1>4, <1>5 DEF f, n

LEMMA VisitRead ==
    ASSUME bytes \in ByteSeq, NEW p \in 1 .. Len(bytes) + 1, NEW items \in Seq(Basic),
           \A i \in 1 .. Len(items) : FitsField(items[i]), Holds(p, VisitToWrite(items))
    PROVE  VisitToRead(p, TypesOf(items)) = [val |-> items, next |-> p + Len(VisitToWrite(items))]
<1> DEFINE n == Len(items)
           types == TypesOf(items)
<1>0. n \in Nat /\ Len(bytes) \in Nat /\ p \in Nat /\ p > 0 /\ p \in 0 .. Len(bytes) + 1
  BY LenProperties DEF ByteSeq
<1>1. types \in Seq(BasicTypes) /\ Len(types) = n
  BY TypesOfType
<1>2. \A k \in 1 .. n : types[k] = items[k].type
  BY DEF TypesOf
<1> HIDE DEF types
<1>a. PICK w : WriteLoop(items, w)
  BY VisitToWriteDef
<1>b. PICK f : ReadLoop(p, types, f)
  BY <1>0, <1>1, VisitToReadDef
<1>3. /\ w[0] = <<>> /\ VisitToWrite(items) = w[n]
      /\ \A k \in 1 .. n : w[k] = w[k - 1] \o EncodeBasic(items[k])
      /\ \A k \in 0 .. n : w[k] \in ByteSeq
  BY <1>a DEF WriteLoop
<1>4. /\ f[0] = [val |-> <<>>, next |-> p] /\ VisitToRead(p, types) = f[n]
      /\ \A k \in 1 .. n : f[k] = ReadNext(f[k - 1], types[k])
  BY <1>1, <1>b DEF ReadLoop
<1>5. \A k \in 1 .. n : items[k] \in Basic /\ FitsField(items[k])
  BY ElementOfSeq
<1> DEFINE Same(k) == Holds(p, w[k]) => f[k] = [val |-> SubSeq(items, 1, k), next |-> p + Len(w[k])]
           T == {k \in Nat : k <= n => Same(k)}
<1>6. 0 \in T
  <2>1. SubSeq(items, 1, 0) = <<>>
    BY SubSeqEmpty
  <2>2. p + Len(w[0]) = p
    BY <1>0, <1>3
  <2> QED BY <1>4, <2>1, <2>2
<1>7. ASSUME NEW k \in T PROVE k + 1 \in T
  <2>0. k \in Nat /\ (k <= n => Same(k))
    OBVIOUS
  <2>1. ASSUME k + 1 <= n, Holds(p, w[k + 1])
        PROVE  f[k + 1] = [val |-> SubSeq(items, 1, k + 1), next |-> p + Len(w[k + 1])]
    <3> DEFINE item == items[k + 1]
               s == w[k]
               e == EncodeBasic(item)
               q == p + Len(s)
    <3>1. /\ k + 1 \in 1 .. n /\ (k + 1) - 1 = k /\ k <= n /\ k \in 0 .. n /\ k \in 0 .. n - 1
          /\ k + 1 \in 0 .. n
      BY <1>0, <2>0, <2>1
    <3>2. item \in Basic /\ FitsField(item) /\ types[k + 1] = item.type
      BY <1>2, <1>5, <3>1
    <3>3. w[k + 1] = s \o e /\ s \in ByteSeq /\ f[k + 1] = ReadNext(f[k], types[k + 1])
      BY <1>3, <1>4, <3>1
    <3>4. e \in ByteSeq
      BY <3>2, EncodeBasicType
    <3>x. Append(SubSeq(items, 1, k), item) = SubSeq(items, 1, k + 1)
      BY <3>1, GrowPrefix
    <3>y. Same(k)
      BY <2>0, <3>1
    <3> HIDE DEF item, s, e
    <3>5. /\ Len(s \o e) = Len(s) + Len(e) /\ Len(s) \in Nat /\ Len(e) \in Nat
          /\ Holds(p, s) /\ Holds(p + Len(s), e)
      <4>1. Holds(p, s \o e)
        BY <2>1, <3>3
      <4> HIDE DEF Same, T
      <4> QED BY <1>0, <3>3, <3>4, <4>1, HoldsParts
    <3>6. f[k] = [val |-> SubSeq(items, 1, k), next |-> q]
      BY <3>5, <3>y DEF s
    <3>7. q \in Nat /\ q > 0 /\ q + Len(e) = p + Len(s \o e)
      BY <1>0, <3>5
    <3>8. DecodeBasic(item.type, q) = [val |-> item.val, next |-> q + Len(e)]
      <4> HIDE DEF q
      <4>1. Holds(q, EncodeBasic(item))
        BY <3>5 DEF q, e
      <4> QED BY <3>2, <3>7, <4>1, DecodeBasicRead DEF e
    <3>9. [type |-> item.type, val |-> item.val] = item
      BY <3>2, BasicForm DEF Basic
    <3> HIDE DEF q
    <3> DEFINE d == DecodeBasic(item.type, q)
               sofar == f[k]
    <3>10. sofar.next = q /\ sofar.val = SubSeq(items, 1, k) /\ q # 0
           /\ d.val = item.val /\ d.next = q + Len(e)
      BY <3>6, <3>7, <3>8
    <3> HIDE DEF sofar
    <3>11. ReadNext(sofar, item.type)
             = [val |-> Append(sofar.val, [type |-> item.type, val |-> d.val]), next |-> d.next]
      BY <3>10 DEF ReadNext
    <3> HIDE DEF d
    <3>12. ReadNext(sofar, item.type) = [val |-> SubSeq(items, 1, k + 1), next |-> p + Len(s \o e)]
      BY <3>7, <3>9, <3>10, <3>11, <3>x
    <3> QED BY <3>2, <3>3, <3>12 DEF sofar
  <2> QED BY <2>0, <2>1
<1>8. T = Nat
  <2> HIDE DEF T
  <2>1. T \in SUBSET Nat
    BY DEF T
  <2> QED BY <1>6, <1>7, <2>1, SetInduction
<1>9. Same(n)
  <2> HIDE DEF Same
  <2>1. n \in T
    <3> HIDE DEF T
    <3> QED BY <1>0, <1>8
  <2> QED BY <1>0, <2>1
<1>10. SubSeq(items, 1, n) = items
  BY SubSeqFull
<1> QED BY <1>3, <1>4, <1>9, <1>10 DEF types

LEMMA VisitToWriteType ==
    ASSUME NEW items \in Seq(Basic)
    PROVE  VisitToWrite(items) \in ByteSeq
<1>1. PICK f : WriteLoop(items, f)
  BY VisitToWriteDef
<1>2. Len(items) \in 0 .. Len(items)
  BY LenProperties
<1> QED BY <1>1, <1>2 DEF WriteLoop
-----------------------------------------------------------------------------
(* Items.                                                                  *)
LEMMA ListForm ==
    ASSUME NEW items \in Lists
    PROVE  /\ items \in Seq(Basic) /\ Len(items) \in Unsigned
           /\ \A i \in 1 .. Len(items) : items[i].type = ElementType
<1>1. PICK n \in 0 .. MaxList : items \in [1 .. n -> Elements]
  BY DEF Lists
<1>2. n \in Nat /\ n \in Unsigned
  <2>1. MaxList \in Nat /\ MaxList < 2 * Half /\ Half \in Nat
    BY Sizes, LengthAssumption DEF Unsigned
  <2> QED BY <2>1 DEF Unsigned
<1>3. Elements \subseteq Basic /\ \A e \in Elements : e.type = ElementType
  BY ElementsAssumption
<1>4. items \in [1 .. n -> Basic]
  BY <1>1, <1>3
<1>5. items \in Seq(Basic)
  BY <1>2, <1>4, SeqDef
<1>6. Len(items) = n
  BY <1>2, <1>4, <1>5, LenProperties
<1> QED BY <1>1, <1>2, <1>3, <1>5, <1>6

LEMMA StructForm ==
    ASSUME NEW items \in Structs
    PROVE  items \in Seq(Basic) /\ Len(items) > 0
<1>1. PICK n \in 1 .. MaxMembers : items \in [1 .. n -> Members]
  BY DEF Structs
<1>2. n \in Nat /\ n > 0
  BY BoundsAssumption
<1>3. items \in [1 .. n -> Basic]
  BY <1>1, MembersAssumption
<1>4. items \in Seq(Basic)
  BY <1>2, <1>3, SeqDef
<1>5. Len(items) = n
  BY <1>2, <1>3, <1>4, LenProperties
<1> QED BY <1>2, <1>4, <1>5

LEMMA ItemForm ==
    ASSUME NEW item \in Item
    PROVE  /\ item = [type |-> item.type, val |-> item.val]
           /\ \/ item \in Basic /\ item.type \in BasicTypes
              \/ item.type = "list" /\ item.val \in Lists
              \/ item.type = "struct" /\ item.val \in Structs
<1>1. CASE item \in Basic
  BY <1>1, BasicForm DEF Basic
<1>2. CASE item \in [type : {"list"}, val : Lists] \cup [type : {"struct"}, val : Structs]
  BY <1>2
<1> QED BY <1>1, <1>2 DEF Item, Items

LEMMA EncodeType ==
    ASSUME NEW item \in Item
    PROVE  /\ Encode(item) \in ByteSeq
           /\ item.type \in {"int", "uint", "enum"} =>
                 Len(Encode(item)) <= (Width + Group - 1) \div Group
<1>1. CASE item \in Basic /\ item.type \in BasicTypes
  <2>1. Encode(item) = EncodeBasic(item)
    BY <1>1 DEF Encode, BasicTypes
  <2> QED BY <1>1, <2>1, EncodeBasicType
<1>2. CASE item.type = "list" /\ item.val \in Lists
  <2> DEFINE items == item.val
             s == Varint[Len(items)]
             t == VisitToWrite(items)
  <2>1. Encode(item) = s \o t
    BY <1>2 DEF Encode, WriteElements
  <2>2. items \in Seq(Basic) /\ Len(items) \in Nat
    BY <1>2, ListForm, LenProperties
  <2>3. s \in ByteSeq /\ t \in ByteSeq
    BY <2>2, VarintDef, VisitToWriteType
  <2> HIDE DEF s, t
  <2>4. s \o t \in ByteSeq
    BY <2>3, Concatenated
  <2> QED BY <1>2, <2>1, <2>4
<1>3. CASE item.type = "struct" /\ item.val \in Structs
  <2>1. Encode(item) = VisitToWrite(item.val)
    BY <1>3 DEF Encode
  <2>2. item.val \in Seq(Basic)
    BY <1>3, StructForm
  <2> QED BY <1>3, <2>1, <2>2, VisitToWriteType
<1> QED BY <1>1, <1>2, <1>3, ItemForm

(* An item whose strings fit is read back where it was written.            *)
LEMMA DecodeRead ==
    ASSUME bytes \in ByteSeq, offset \in 0 .. Len(bytes), NEW item \in Item, Fits(item),
           Holds(offset + 1, Encode(item))
    PROVE  Decode(ShapeOf(item)) = [val |-> item.val, next |-> offset + 1 + Len(Encode(item))]
<1> DEFINE p == offset + 1
           shape == ShapeOf(item)
<1>0. Len(bytes) \in Nat /\ p \in Nat /\ p > 0 /\ p \in 1 .. Len(bytes) + 1
  BY DEF ByteSeq
<1>a. shape.type = item.type
  BY DEF ShapeOf
<1>1. CASE item \in Basic /\ item.type \in BasicTypes
  <2>1. Encode(item) = EncodeBasic(item)
    BY <1>1 DEF Encode, BasicTypes
  <2>2. item.type \notin {"list", "struct"}
    BY <1>1 DEF BasicTypes
  <2>3. FitsField(item)
    BY <2>2 DEF Fits
  <2>4. Decode(shape) = DecodeBasic(item.type, p)
    <3> HIDE DEF shape
    <3> QED BY <1>a, <2>2 DEF Decode
  <2>5. Holds(p, EncodeBasic(item))
    BY <2>1
  <2> HIDE DEF p
  <2>6. DecodeBasic(item.type, p) = [val |-> item.val, next |-> p + Len(EncodeBasic(item))]
    BY <1>0, <1>1, <2>3, <2>5, DecodeBasicRead
  <2> QED BY <2>1, <2>4, <2>6 DEF p
<1>2. CASE item.type = "list" /\ item.val \in Lists
  <2> DEFINE items == item.val
             s == Varint[Len(items)]
             t == VisitToWrite(items)
             q == p + Len(s)
  <2>1. Encode(item) = s \o t
    BY <1>2 DEF Encode, WriteElements
  <2>2. /\ items \in Seq(Basic) /\ Len(items) \in Nat /\ Len(items) \in Unsigned
        /\ \A i \in 1 .. Len(items) : items[i].type = ElementType
    BY <1>2, ListForm, LenProperties
  <2>3. s \in ByteSeq /\ t \in ByteSeq /\ Len(s) \in 1 .. (Width + Group - 1) \div Group
    BY <2>2, VarintDef, VarintFits, VisitToWriteType
  <2>4. \A i \in 1 .. Len(items) : FitsField(items[i])
    <3>1. \A i \in DOMAIN items : FitsField(items[i])
      BY <1>2 DEF Fits
    <3>2. DOMAIN items = 1 .. Len(items)
      BY <2>2, LenProperties
    <3> QED BY <3>1, <3>2
  <2>5. Decode(shape) = ReadElements(p)
    <3> HIDE DEF shape
    <3> QED BY <1>2, <1>a DEF Decode
  <2>6. Holds(p, s \o t)
    BY <2>1
  <2> HIDE DEF p, s, t, items
  <2>7. /\ Len(s \o t) = Len(s) + Len(t) /\ Len(s) \in Nat /\ Len(t) \in Nat
        /\ Holds(p, s) /\ Holds(p + Len(s), t)
    BY <1>0, <2>3, <2>6, HoldsParts
  <2>8. ReadVarint(p) = [val |-> Len(items), next |-> q]
    BY <1>0, <2>2, <2>7, VarintRead DEF s
  <2>9. q \in 1 .. Len(bytes) + 1
    <3>1. Len(s) > 0
      <4> DEFINE z == (Width + Group - 1) \div Group
      <4> HIDE DEF z
      <4>1. Len(s) \in 1 .. z
        BY <2>3 DEF z
      <4> QED BY <4>1
    <3>2. p + Len(s) <= Len(bytes) + 1
      BY <1>0, <2>3, <2>7, <3>1, HoldsInside
    <3> QED BY <1>0, <2>7, <3>2
  <2>10. [i \in 1 .. Len(items) |-> ElementType] = TypesOf(items)
    BY <2>2 DEF TypesOf
  <2>11. ReadElements(p) = VisitToRead(q, TypesOf(items))
    BY <2>8, <2>10 DEF ReadElements
  <2> HIDE DEF q
  <2>12. VisitToRead(q, TypesOf(items)) = [val |-> items, next |-> q + Len(t)]
    <3>1. Holds(q, VisitToWrite(items))
      BY <2>7 DEF q, t
    <3> QED BY <2>2, <2>4, <2>9, <3>1, VisitRead DEF t
  <2>13. q + Len(t) = p + Len(s \o t)
    BY <1>0, <2>7 DEF q
  <2> QED BY <2>1, <2>5, <2>11, <2>12, <2>13 DEF items, p
<1>3. CASE item.type = "struct" /\ item.val \in Structs
  <2> DEFINE items == item.val
  <2>1. Encode(item) = VisitToWrite(items)
    BY <1>3 DEF Encode
  <2>2. items \in Seq(Basic)
    BY <1>3, StructForm
  <2>3. \A i \in 1 .. Len(items) : FitsField(items[i])
    <3>1. \A i \in DOMAIN items : FitsField(items[i])
      BY <1>3 DEF Fits
    <3>2. DOMAIN items = 1 .. Len(items)
      BY <2>2, LenProperties
    <3> QED BY <3>1, <3>2
  <2>4. shape.members = TypesOf(items)
    BY <1>3 DEF ShapeOf
  <2>5. Decode(shape) = VisitToRead(p, TypesOf(items))
    <3> HIDE DEF shape
    <3> QED BY <1>3, <1>a, <2>4 DEF Decode
  <2>6. Holds(p, VisitToWrite(items))
    BY <2>1
  <2> HIDE DEF p, items
  <2>7. VisitToRead(p, TypesOf(items)) = [val |-> items, next |-> p + Len(VisitToWrite(items))]
    BY <1>0, <2>2, <2>3, <2>6, VisitRead
  <2> QED BY <2>1, <2>5, <2>7 DEF items, p
<1> QED BY <1>1, <1>2, <1>3, ItemForm

ReceivedItem == Items(Basics(Nat), Seq(Basics(Nat)), Seq(Basics(Nat)))

(* Whatever the bytes are, an item of the type is read, or it throws.      *)
LEMMA DecodeTyped ==
    ASSUME bytes \in ByteSeq, offset \in 0 .. Len(bytes), NEW shape \in Shapes
    PROVE  /\ Decode(shape).next \in 0 .. Len(bytes) + 1
           /\ [type |-> shape.type, val |-> Decode(shape).val] \in ReceivedItem
           /\ offset = Len(bytes) => Decode(shape).next = 0
<1> DEFINE p == offset + 1
           d == Decode(shape)
           End == p = Len(bytes) + 1
<1>0. /\ Len(bytes) \in Nat /\ p \in 1 .. Len(bytes) + 1 /\ p \in 0 .. Len(bytes) + 1
      /\ offset = Len(bytes) => End
  BY DEF ByteSeq
<1>1. CASE shape.type \in BasicTypes
  <2>1. d = DecodeBasic(shape.type, p)
    BY <1>1 DEF Decode, BasicTypes
  <2> HIDE DEF p, d
  <2>2. /\ d \in Readings(Int) /\ [type |-> shape.type, val |-> d.val] \in Basics(Nat)
        /\ End => d.next = 0
    BY <1>0, <1>1, <2>1, DecodeBasicTyped
  <2> HIDE DEF End
  <2>3. d.next \in 0 .. Len(bytes) + 1
    BY <2>2 DEF Readings
  <2> QED BY <1>0, <2>2, <2>3 DEF ReceivedItem, Items, d
<1>2. ASSUME NEW items \in Visited, d = items, shape.type \in {"list", "struct"}, End => d.next = 0
      PROVE  /\ d.next \in 0 .. Len(bytes) + 1
             /\ [type |-> shape.type, val |-> d.val] \in ReceivedItem
             /\ offset = Len(bytes) => d.next = 0
  <2> HIDE DEF d, End
  <2>1. d.next \in 0 .. Len(bytes) + 1 /\ d.val \in Seq(Basics(Nat))
    BY <1>2 DEF Visited, Readings
  <2> QED BY <1>0, <1>2, <2>1 DEF ReceivedItem, Items
<1>3. CASE shape.type = "list"
  <2> DEFINE count == ReadVarint(p)
             n == count.val
             q == count.next
             types == [i \in 1 .. n |-> ElementType]
  <2>1. d = VisitToRead(q, types)
    BY <1>3 DEF Decode, ReadElements
  <2> HIDE DEF p
  <2>2. count \in Readings(Unsigned) /\ (End => count.next = 0)
    BY <1>0, VarintTyped
  <2> HIDE DEF count
  <2>3. n \in Nat /\ q \in 0 .. Len(bytes) + 1
    <3>1. Unsigned \subseteq Nat
      BY Sizes DEF Unsigned
    <3> QED BY <2>2, <3>1 DEF Readings
  <2>4. types \in Seq(BasicTypes)
    <3>1. types \in [1 .. n -> BasicTypes]
      BY ElementsAssumption
    <3> HIDE DEF types, n
    <3> QED BY <2>3, <3>1, SeqDef
  <2> HIDE DEF q, types
  <2>5. VisitToRead(q, types) \in Visited /\ (q = 0 => VisitToRead(q, types).next = 0)
    BY <2>3, <2>4, VisitTyped
  <2> HIDE DEF d
  <2>6. End => d.next = 0
    BY <2>1, <2>2, <2>5 DEF q
  <2> QED BY <1>2, <1>3, <2>1, <2>5, <2>6 DEF d
<1>4. CASE shape.type = "struct" /\ \E s \in Structs : shape.members = TypesOf(s)
  <2>1. PICK s \in Structs : shape.members = TypesOf(s)
    BY <1>4
  <2>2. d = VisitToRead(p, shape.members)
    BY <1>4 DEF Decode
  <2>3. shape.members \in Seq(BasicTypes) /\ Len(shape.members) > 0
    BY <2>1, StructForm, TypesOfType
  <2> HIDE DEF p
  <2>4. /\ VisitToRead(p, shape.members) \in Visited
        /\ End => VisitToRead(p, shape.members).next = 0
    BY <1>0, <2>3, VisitTyped
  <2> HIDE DEF d
  <2> QED BY <1>2, <1>4, <2>2, <2>4 DEF d
<1>5. \/ shape.type \in BasicTypes
      \/ shape.type = "list"
      \/ shape.type = "struct" /\ \E s \in Structs : shape.members = TypesOf(s)
  BY DEF Shapes
<1> QED BY <1>1, <1>3, <1>4, <1>5

-----------------------------------------------------------------------------
(* The stream b is the encodings of the items w, of which the k-th ends    *)
(* with byte at[k].                                                        *)
Laid(b, w, at) ==
    /\ at \in [0 .. Len(w) -> Nat] /\ at[0] = 0 /\ at[Len(w)] = Len(b)
    /\ \A k \in 1 .. Len(w) :
          /\ at[k] = at[k - 1] + Len(Encode(w[k]))
          /\ \A i \in 1 .. Len(Encode(w[k])) :
                at[k - 1] + i \in 1 .. Len(b) /\ b[at[k - 1] + i] = Encode(w[k])[i]

LEMMA LaidGrows ==
    ASSUME NEW b \in ByteSeq, NEW w \in Seq(Item), NEW item \in Item, NEW at, Laid(b, w, at)
    PROVE  \E mark : Laid(b \o Encode(item), Append(w, item), mark)
<1> DEFINE e == Encode(item)
           c == b \o e
           x == Append(w, item)
           n == Len(w)
           mark == [k \in 0 .. n + 1 |-> IF k <= n THEN at[k] ELSE Len(b) + Len(e)]
<1>1. e \in ByteSeq
  BY EncodeType
<1>2. n \in Nat /\ x \in Seq(Item) /\ Len(x) = n + 1 /\ x[n + 1] = item /\ \A i \in 1 .. n : x[i] = w[i]
  BY AppendProperties, LenProperties
<1>w. /\ at \in [0 .. n -> Nat] /\ at[0] = 0 /\ at[n] = Len(b)
      /\ \A k \in 1 .. n :
            /\ at[k] = at[k - 1] + Len(Encode(w[k]))
            /\ \A i \in 1 .. Len(Encode(w[k])) :
                  at[k - 1] + i \in 1 .. Len(b) /\ b[at[k - 1] + i] = Encode(w[k])[i]
  BY DEF Laid
<1> HIDE DEF x, n
<1>a. e = Encode(item)
  OBVIOUS
<1> HIDE DEF e
<1>3. /\ c \in ByteSeq /\ Len(c) = Len(b) + Len(e) /\ Len(b) \in Nat /\ Len(e) \in Nat
      /\ \A i \in 1 .. Len(b) + Len(e) : c[i] = IF i <= Len(b) THEN b[i] ELSE e[i - Len(b)]
  BY <1>1, ConcatProperties, LenProperties DEF ByteSeq
<1> HIDE DEF c
<1>4. /\ mark \in [0 .. n + 1 -> Nat]
      /\ \A k \in 0 .. n : mark[k] = at[k]
      /\ mark[n + 1] = Len(b) + Len(e)
  <2>1. ASSUME NEW k \in 0 .. n + 1
        PROVE  (IF k <= n THEN at[k] ELSE Len(b) + Len(e)) \in Nat
    <3>1. CASE k <= n
      <4>1. k \in 0 .. n
        BY <1>2, <3>1
      <4> QED BY <1>w, <3>1, <4>1
    <3>2. CASE ~(k <= n)
      BY <1>3, <3>2
    <3> QED BY <3>1, <3>2
  <2>2. \A k \in 0 .. n : k \in 0 .. n + 1 /\ k <= n
    BY <1>2
  <2>3. n + 1 \in 0 .. n + 1 /\ ~(n + 1 <= n)
    BY <1>2
  <2> QED BY <2>1, <2>2, <2>3
<1> HIDE DEF mark
<1>5. mark[0] = 0 /\ mark[n + 1] = Len(c)
  <2>1. 0 \in 0 .. n
    BY <1>2
  <2> QED BY <1>w, <1>3, <1>4, <2>1
<1>6. ASSUME NEW k \in 1 .. n + 1
      PROVE  /\ mark[k] = mark[k - 1] + Len(Encode(x[k]))
             /\ \A i \in 1 .. Len(Encode(x[k])) :
                   mark[k - 1] + i \in 1 .. Len(c) /\ c[mark[k - 1] + i] = Encode(x[k])[i]
  <2>1. CASE k <= n
    <3> DEFINE y == Encode(w[k])
               m == at[k - 1]
    <3>1. k \in 0 .. n /\ k - 1 \in 0 .. n /\ k \in 1 .. n
      BY <1>2, <2>1
    <3>2. mark[k] = at[k] /\ mark[k - 1] = m /\ x[k] = w[k]
      BY <1>2, <1>4, <3>1
    <3>3. at[k] = m + Len(y) /\ \A i \in 1 .. Len(y) : m + i \in 1 .. Len(b) /\ b[m + i] = y[i]
      BY <1>w, <3>1
    <3> HIDE DEF y, m
    <3>4. ASSUME NEW i \in 1 .. Len(y) PROVE m + i \in 1 .. Len(c) /\ c[m + i] = y[i]
      <4> DEFINE j == m + i
      <4>1. j \in 1 .. Len(b) /\ b[j] = y[i]
        BY <3>3
      <4> HIDE DEF j
      <4>2. j \in 1 .. Len(b) + Len(e) /\ j <= Len(b)
        BY <1>3, <4>1
      <4>3. j \in 1 .. Len(c) /\ c[j] = y[i]
        BY <1>3, <4>1, <4>2
      <4> QED BY <4>3 DEF j
    <3> QED BY <3>2, <3>3, <3>4 DEF y
  <2>2. CASE ~(k <= n)
    <3>1. k = n + 1 /\ k - 1 = n /\ n \in 0 .. n
      BY <1>2, <2>2
    <3>2. mark[k] = Len(b) + Len(e) /\ mark[k - 1] = Len(b) /\ Encode(x[k]) = e
      BY <1>2, <1>4, <1>a, <1>w, <3>1
    <3>3. ASSUME NEW i \in 1 .. Len(e) PROVE Len(b) + i \in 1 .. Len(c) /\ c[Len(b) + i] = e[i]
      <4> DEFINE j == Len(b) + i
      <4>1. j \in 1 .. Len(b) + Len(e) /\ ~(j <= Len(b)) /\ j - Len(b) = i
        BY <1>3
      <4> HIDE DEF j
      <4>2. j \in 1 .. Len(c) /\ c[j] = e[i]
        BY <1>3, <4>1
      <4> QED BY <4>2 DEF j
    <3> QED BY <3>2, <3>3
  <2> QED BY <2>1, <2>2
<1>7. Laid(c, x, mark)
  BY <1>2, <1>4, <1>5, <1>6 DEF Laid
<1> QED BY <1>7 DEF c, x, e

LEMMA LaidHolds ==
    ASSUME bytes \in ByteSeq, written \in Seq(Item), NEW at, Laid(bytes, written, at),
           NEW k \in 1 .. Len(written)
    PROVE  /\ at[k - 1] \in Nat /\ at[k] = at[k - 1] + Len(Encode(written[k]))
           /\ Holds(at[k - 1] + 1, Encode(written[k])) /\ Len(Encode(written[k])) \in Nat
<1> DEFINE e == Encode(written[k])
           m == at[k - 1]
<1>1. written[k] \in Item
  BY ElementOfSeq
<1>2. e \in ByteSeq
  BY <1>1, EncodeType
<1>3. Len(e) \in Nat /\ Len(written) \in Nat
  BY <1>2, LenProperties DEF ByteSeq
<1>4. m \in Nat
  <2>1. k - 1 \in 0 .. Len(written)
    BY <1>3
  <2> QED BY <2>1 DEF Laid
<1>5. at[k] = m + Len(e) /\ \A i \in 1 .. Len(e) : m + i \in 1 .. Len(bytes) /\ bytes[m + i] = e[i]
  BY DEF Laid
<1> HIDE DEF e, m
<1>6. ASSUME NEW i \in 1 .. Len(e)
      PROVE  (m + 1) + i - 1 \in 1 .. Len(bytes) /\ bytes[(m + 1) + i - 1] = e[i]
  <2>1. (m + 1) + i - 1 = m + i
    BY <1>3, <1>4
  <2> QED BY <1>5, <2>1
<1>7. Holds(m + 1, e)
  BY <1>6 DEF Holds
<1> QED BY <1>3, <1>4, <1>5, <1>7 DEF e, m

(* Up to the first item that does not fit in its prefix, the reader is     *)
(* behind as many items as it has, and they are the ones written.          *)
Matches(w, r, o, ph, at) ==
    (\A i \in 1 .. Len(r) + 1 : i <= Len(w) => Fits(w[i])) =>
        /\ Len(r) <= Len(w) /\ r = SubSeq(w, 1, Len(r))
        /\ o = at[Len(r)]
        /\ ph = "thrown" => Len(r) = Len(w)

StreamInv ==
    /\ StreamTypeOK
    /\ TmpFits
    /\ phase = "writing" => offset = 0 /\ received = <<>>
    /\ \E at : Laid(bytes, written, at) /\ Matches(written, received, offset, phase, at)

LEMMA StreamStarts == SerializerInit => StreamInv
<1> SUFFICES ASSUME SerializerInit PROVE StreamInv
  OBVIOUS
<1>1. /\ bytes = <<>> /\ offset = 0 /\ phase = "writing" /\ written = <<>> /\ received = <<>>
  BY DEF SerializerInit
<1>2. StreamTypeOK
  BY <1>1, EmptySeq DEF StreamTypeOK
<1>3. TmpFits
  BY <1>1 DEF TmpFits
<1> DEFINE at == [k \in 0 .. 0 |-> 0]
<1>4. Len(<<>>) = 0 /\ at \in [0 .. 0 -> Nat] /\ at[0] = 0
  OBVIOUS
<1> HIDE DEF at
<1>5. Laid(bytes, written, at)
  <2>1. \A k \in 1 .. Len(written) : FALSE
    BY <1>1, <1>4
  <2> QED BY <1>1, <1>4, <2>1 DEF Laid
<1>6. Matches(written, received, offset, phase, at)
  <2>1. SubSeq(<<>>, 1, 0) = <<>>
    BY SubSeqEmpty
  <2> QED BY <1>1, <1>4, <2>1 DEF Matches
<1> QED BY <1>1, <1>2, <1>3, <1>5, <1>6 DEF StreamInv

LEMMA WriteItemKeeps ==
    ASSUME StreamInv, NEW item \in Item, WriteItem(item)
    PROVE  StreamInv'
<1>1. /\ phase = "writing" /\ bytes' = bytes \o Encode(item) /\ written' = Append(written, item)
      /\ offset' = offset /\ phase' = phase /\ received' = received
  BY DEF WriteItem
<1>2. /\ bytes \in ByteSeq /\ written \in Seq(Item) /\ received \in Seq(ReceivedItem)
      /\ offset = 0 /\ received = <<>>
  BY <1>1 DEF StreamInv, StreamTypeOK, ByteSeq, ReceivedItem
<1>3. bytes' \in ByteSeq /\ Len(bytes') \in Nat
  <2>1. Encode(item) \in ByteSeq
    BY EncodeType
  <2>2. bytes' \in ByteSeq
    BY <1>1, <1>2, <2>1, Concatenated
  <2> QED BY <2>2 DEF ByteSeq
<1>4. /\ written' \in Seq(Item) /\ Len(written') = Len(written) + 1 /\ Len(written) \in Nat
      /\ written'[Len(written) + 1] = item /\ \A i \in 1 .. Len(written) : written'[i] = written[i]
  BY <1>1, <1>2, AppendProperties, LenProperties
<1>5. StreamTypeOK'
  <2>1. offset' \in 0 .. Len(bytes')
    BY <1>1, <1>2, <1>3
  <2> QED BY <1>1, <1>2, <1>3, <1>4, <2>1 DEF StreamTypeOK, ByteSeq, ReceivedItem
<1>6. TmpFits'
  <2>1. ASSUME NEW i \in 1 .. Len(written'), written'[i].type \in {"int", "uint", "enum"}
        PROVE  Len(Encode(written'[i])) <= (Width + Group - 1) \div Group
    <3>1. written'[i] \in Item
      BY <1>4, ElementOfSeq
    <3> QED BY <2>1, <3>1, EncodeType
  <2> QED BY <2>1 DEF TmpFits
<1>7. PICK at : Laid(bytes, written, at)
  BY DEF StreamInv
<1>8. PICK mark : Laid(bytes', written', mark)
  BY <1>1, <1>2, <1>7, LaidGrows
<1>9. Matches(written', received', offset', phase', mark)
  <2>1. SubSeq(written', 1, 0) = <<>> /\ Len(<<>>) = 0
    BY SubSeqEmpty
  <2>2. mark[0] = 0
    BY <1>8 DEF Laid
  <2>3. received' = <<>> /\ offset' = 0 /\ phase' # "thrown" /\ 0 <= Len(written')
    BY <1>1, <1>2, <1>4
  <2> QED BY <2>1, <2>2, <2>3 DEF Matches
<1> QED BY <1>1, <1>2, <1>5, <1>6, <1>8, <1>9 DEF StreamInv

LEMMA ReadItemKeeps ==
    ASSUME StreamInv, NEW shape \in Shapes, ReadItem(shape)
    PROVE  StreamInv'
<1> DEFINE d == Decode(shape)
           n == Len(received)
           got == [type |-> shape.type, val |-> d.val]
<1>1. /\ phase = "reading" /\ n <= Len(written) /\ bytes' = bytes /\ written' = written
      /\ n < Len(written) => shape = ShapeOf(written[n + 1])
      /\ IF d.next = 0 THEN phase' = "thrown" /\ offset' = offset /\ received' = received
                       ELSE /\ offset' = d.next - 1 /\ received' = Append(received, got)
                            /\ phase' = phase
  BY DEF ReadItem
<1>2. /\ bytes \in ByteSeq /\ written \in Seq(Item) /\ received \in Seq(ReceivedItem)
      /\ offset \in 0 .. Len(bytes) /\ Len(bytes) \in Nat /\ Len(written) \in Nat /\ n \in Nat
  BY LenProperties DEF StreamInv, StreamTypeOK, ByteSeq, ReceivedItem
<1>3. d.next \in 0 .. Len(bytes) + 1 /\ got \in ReceivedItem /\ (offset = Len(bytes) => d.next = 0)
  BY <1>2, DecodeTyped
<1>4. PICK at : Laid(bytes, written, at) /\ Matches(written, received, offset, phase, at)
  BY DEF StreamInv
<1>5. phase' # "writing" /\ Laid(bytes', written', at) /\ TmpFits'
  <2>1. TmpFits'
    BY <1>1 DEF StreamInv, TmpFits
  <2> QED BY <1>1, <1>4, <2>1
<1>6. ASSUME \A i \in 1 .. n + 1 : i <= Len(written) => Fits(written[i]), n < Len(written)
      PROVE  d.next = at[n + 1] + 1 /\ got = written[n + 1] /\ d.next # 0
  <2> DEFINE item == written[n + 1]
             e == Encode(item)
  <2>1. n + 1 \in 1 .. Len(written) /\ n + 1 \in 1 .. n + 1 /\ (n + 1) - 1 = n
    BY <1>2, <1>6
  <2>2. item \in Item /\ Fits(item) /\ shape = ShapeOf(item)
    BY <1>1, <1>2, <1>6, <2>1, ElementOfSeq
  <2>3. offset = at[n]
    BY <1>4, <1>6 DEF Matches
  <2>4. at[n] \in Nat /\ at[n + 1] = at[n] + Len(e) /\ Holds(at[n] + 1, e) /\ Len(e) \in Nat
    BY <1>2, <1>4, <2>1, LaidHolds
  <2> HIDE DEF item
  <2>5. Holds(offset + 1, Encode(item))
    BY <2>3, <2>4
  <2>6. Decode(ShapeOf(item)) = [val |-> item.val, next |-> offset + 1 + Len(Encode(item))]
    BY <1>2, <2>2, <2>5, DecodeRead
  <2>7. d = [val |-> item.val, next |-> offset + 1 + Len(e)]
    BY <2>2, <2>6
  <2> HIDE DEF d, e
  <2>8. d.next = offset + 1 + Len(e) /\ d.val = item.val
    BY <2>7
  <2>9. d.next = at[n + 1] + 1 /\ d.next # 0
    BY <2>3, <2>4, <2>8
  <2>10. shape.type = item.type
    BY <2>2 DEF ShapeOf
  <2>11. item = [type |-> item.type, val |-> item.val]
    BY <2>2, ItemForm
  <2> QED BY <2>8, <2>9, <2>10, <2>11 DEF item
<1> HIDE DEF d, n, got
<1>7. CASE d.next = 0
  <2>1. phase' = "thrown" /\ offset' = offset /\ received' = received
    BY <1>1, <1>7
  <2>2. StreamTypeOK'
    BY <1>1, <2>1 DEF StreamInv, StreamTypeOK
  <2>3. Matches(written', received', offset', phase', at)
    <3> SUFFICES ASSUME \A i \in 1 .. n + 1 : i <= Len(written) => Fits(written[i])
                 PROVE  /\ n <= Len(written) /\ received = SubSeq(written, 1, n)
                        /\ offset = at[n] /\ n = Len(written)
      BY <1>1, <2>1 DEF Matches, n
    <3>1. n <= Len(written) /\ received = SubSeq(written, 1, n) /\ offset = at[n]
      BY <1>4 DEF Matches, n
    <3>2. ~(n < Len(written))
      BY <1>6, <1>7
    <3> QED BY <1>2, <3>1, <3>2
  <2> QED BY <1>5, <2>2, <2>3 DEF StreamInv
<1>8. CASE d.next # 0
  <2>1. phase' = phase /\ offset' = d.next - 1 /\ received' = Append(received, got)
    BY <1>1, <1>8
  <2>2. received' \in Seq(ReceivedItem) /\ Len(received') = n + 1
    BY <1>2, <1>3, <2>1, AppendProperties DEF n
  <2>3. StreamTypeOK'
    <3>1. offset' \in 0 .. Len(bytes')
      BY <1>1, <1>2, <1>3, <1>8, <2>1
    <3> QED BY <1>1, <1>2, <2>1, <2>2, <3>1 DEF StreamTypeOK, ByteSeq, ReceivedItem
  <2>4. Matches(written', received', offset', phase', at)
    <3> SUFFICES ASSUME \A i \in 1 .. (n + 1) + 1 : i <= Len(written) => Fits(written[i])
                 PROVE  /\ n + 1 <= Len(written) /\ received' = SubSeq(written, 1, n + 1)
                        /\ offset' = at[n + 1] /\ phase' # "thrown"
      BY <1>1, <2>1, <2>2 DEF Matches
    <3>1. \A i \in 1 .. n + 1 : i <= Len(written) => Fits(written[i])
      <4>1. \A i \in 1 .. n + 1 : i \in 1 .. (n + 1) + 1
        BY <1>2
      <4> QED BY <4>1
    <3>2. n <= Len(written) /\ received = SubSeq(written, 1, n) /\ offset = at[n]
      BY <1>4, <3>1 DEF Matches, n
    <3>3. n # Len(written)
      <4> SUFFICES ASSUME n = Len(written) PROVE FALSE
        OBVIOUS
      <4>1. at[Len(written)] = Len(bytes)
        BY <1>4 DEF Laid
      <4> QED BY <1>3, <1>8, <3>2, <4>1
    <3>4. n < Len(written)
      BY <1>2, <3>2, <3>3
    <3>5. d.next = at[n + 1] + 1 /\ got = written[n + 1]
      BY <1>6, <3>1, <3>4
    <3>6. at[n + 1] \in Nat
      <4>1. n + 1 \in 0 .. Len(written)
        BY <1>2, <3>4
      <4> QED BY <1>4, <4>1 DEF Laid
    <3>7. offset' = at[n + 1] /\ n + 1 <= Len(written)
      BY <1>2, <2>1, <3>4, <3>5, <3>6
    <3>8. received' = SubSeq(written, 1, n + 1)
      <4>1. n \in 0 .. Len(written) - 1
        BY <1>2, <3>4
      <4>2. Append(SubSeq(written, 1, n), written[n + 1]) = SubSeq(written, 1, n + 1)
        BY <1>2, <4>1, GrowPrefix
      <4> QED BY <2>1, <3>2, <3>5, <4>2
    <3> QED BY <1>1, <2>1, <3>7, <3>8
  <2> QED BY <1>5, <2>3, <2>4 DEF StreamInv
<1> QED BY <1>7, <1>8

LEMMA StreamKeeps == StreamInv /\ [SerializerNext]_streamVars => StreamInv'
<1> SUFFICES ASSUME StreamInv, [SerializerNext]_streamVars PROVE StreamInv'
  OBVIOUS
<1>1. ASSUME NEW item \in Item, WriteItem(item) PROVE StreamInv'
  BY <1>1, WriteItemKeeps
<1>2. CASE reset
  <2>1. /\ bytes' = bytes /\ offset' = offset /\ written' = written /\ received' = received
        /\ phase' = "reading"
    BY <1>2 DEF reset
  <2>2. StreamTypeOK' /\ TmpFits'
    BY <2>1 DEF StreamInv, StreamTypeOK, TmpFits
  <2>3. PICK at : Laid(bytes, written, at) /\ Matches(written, received, offset, phase, at)
    BY DEF StreamInv
  <2>4. Laid(bytes', written', at) /\ Matches(written', received', offset', phase', at)
    BY <2>1, <2>3 DEF Matches
  <2> QED BY <2>1, <2>2, <2>4 DEF StreamInv
<1>3. ASSUME NEW shape \in Shapes, ReadItem(shape) PROVE StreamInv'
  BY <1>3, ReadItemKeeps
<1>4. CASE UNCHANGED streamVars
  <2>1. /\ bytes' = bytes /\ offset' = offset /\ written' = written /\ received' = received
        /\ phase' = phase
    BY <1>4 DEF streamVars
  <2> QED BY <2>1 DEF StreamInv, StreamTypeOK, TmpFits
<1> QED BY <1>1, <1>2, <1>3, <1>4 DEF SerializerNext

LEMMA StreamInvariance == SerializerSpec => []StreamInv
BY StreamStarts, StreamKeeps, PTL DEF SerializerSpec

(* Every byte of the stream is one, what is read is of the type that was   *)
(* asked for whatever the bytes are, and no integer overruns tmp[].        *)
THEOREM StreamStaysSound == SerializerSpec => []StreamIsSound
<1>1. StreamInv => StreamIsSound
  BY DEF StreamInv, StreamIsSound
<1> QED BY <1>1, StreamInvariance, PTL

(* What Serializer reads back is what it was given, item for item, for     *)
(* integers, bytes, lists and structs of every size, up to the first       *)
(* string that writeStringF16, F32 or F64 has cut the length of.           *)
THEOREM SerializerRoundTrip == SerializerSpec => []RoundTrip
<1>1. StreamInv => RoundTrip
  <2> SUFFICES ASSUME StreamInv,
                      ~\E i \in 1 .. Len(received) + 1 : i <= Len(written) /\ ~Fits(written[i])
               PROVE  /\ Len(received) <= Len(written)
                      /\ received = SubSeq(written, 1, Len(received))
                      /\ phase = "thrown" => Len(received) = Len(written)
    BY DEF RoundTrip
  <2>1. PICK at : Matches(written, received, offset, phase, at)
    BY DEF StreamInv
  <2> QED BY <2>1 DEF Matches
<1> QED BY <1>1, StreamInvariance, PTL

=============================================================================
