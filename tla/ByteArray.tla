------------------------------ MODULE ByteArray ------------------------------
(***************************************************************************)
(* ByteArray: bytes in a linked list of blocks of baseSize_ bytes, with    *)
(* the position, the size, the capacity and a pointer to the block of the  *)
(* position kept side by side (src/base/ByteArray.cpp).                    *)
(*                                                                         *)
(* Blocks are numbered in list order; cur_ is the number of a block, or    *)
(* Null behind the last one.                                               *)
(* Memory is indexed by block number * baseSize_ + offset.  The copy loops *)
(* of write, read and the iovec functions go through memory from block     *)
(* cur_, offset position_ % baseSize_, block by block: Span and NodeAfter  *)
(* say which bytes they touch and where they leave the pointer.  Module     *)
(* ByteArrayLoop has the loop itself and compares the two.                 *)
(***************************************************************************)
EXTENDS Integers, Sequences

CONSTANTS baseSize_,      \* bytes in a block
          Values,         \* values of initialised bytes
          Garbage,        \* an uninitialised byte
          MaxLen,         \* bound: bytes in one operation
          MaxCapacity     \* bound: bytes in a ByteArray

ASSUME baseSizeAssumption == baseSize_ \in Nat \ {0}
ASSUME GarbageAssumption == Garbage \notin Values
ASSUME BoundAssumption == MaxLen \in Nat /\ MaxCapacity \in Nat

VARIABLES position_, size_, capacity_, cur_,
          mem,            \* the contents of the blocks
          moved,          \* history: the bytes last put in or taken out
          crashed         \* a null or foreign pointer was used

vars == <<position_, size_, capacity_, cur_, mem, moved, crashed>>

Bytes == Values \cup {Garbage}

Strings == UNION {[1 .. n -> Values] : n \in 0 .. MaxLen}

Null == -1

Nodes == capacity_ \div baseSize_

TypeOK ==
    /\ position_ \in Nat /\ size_ \in Nat /\ capacity_ \in Nat
    /\ cur_ \in Nat \cup {Null}
    /\ mem \in [0 .. capacity_ - 1 -> Bytes]
    /\ moved \in Seq(Bytes)
    /\ crashed \in BOOLEAN

Init ==
    /\ position_ = 0 /\ size_ = 0 /\ capacity_ = baseSize_ /\ cur_ = 0
    /\ mem = [i \in 0 .. baseSize_ - 1 |-> Garbage]
    /\ moved = <<>>
    /\ crashed = FALSE

-----------------------------------------------------------------------------
getReadSize == size_ - position_
getCapacity == capacity_ - position_

(* Where a copy of n bytes from block `node' begins in memory, ...         *)
Start(node, p) == node * baseSize_ + (p % baseSize_)

(* The block with number i when there is room for cap bytes.               *)
Block(i, cap) == IF i < cap \div baseSize_ THEN i ELSE Null

(* Where such a copy leaves the pointer: at the next block if it used up   *)
(* the one it ended in.                                                    *)
NodeAfterLast(node, p, n, cap) ==
    Block((Start(node, p) + (IF n > 0 THEN n - 1 ELSE 0)) \div baseSize_, cap)

NodeAfter(node, p, n, cap) == Block((Start(node, p) + n) \div baseSize_, cap)

(* The copy follows no null pointer.                                       *)
Inside(node, p, n, cap) ==
    /\ node # Null
    /\ Start(node, p) + n <= cap

Span(node, p, n) == [i \in 1 .. n |-> mem[Start(node, p) + i - 1]]

(* addCapacity: the capacity after it, and cur_ when there was no room.    *)
Grown(n) ==
    IF getCapacity >= n THEN capacity_
    ELSE capacity_ + baseSize_ *
           ((n - getCapacity + baseSize_ - 1) \div baseSize_)

CurAfterGrowthStale(n) == cur_

CurAfterGrowth(n) ==
    IF getCapacity = 0 /\ n > 0 THEN Nodes ELSE cur_

(* Memory after storing bs from block `node' on.                           *)
Stored(node, bs, cap) ==
    [i \in 0 .. cap - 1 |->
        LET from == Start(node, position_)
        IN IF i >= from /\ i < from + Len(bs) THEN bs[i - from + 1]
           ELSE IF i < capacity_ THEN mem[i] ELSE Garbage]

(* write, and with it every writeXxx; writing nothing returns at once.     *)
write(bs) ==
    /\ ~crashed
    /\ bs # <<>>
    /\ Grown(Len(bs)) <= MaxCapacity
    /\ LET node == CurAfterGrowth(Len(bs))
           cap == Grown(Len(bs))
       IN /\ Inside(node, position_, Len(bs), cap)
          /\ mem' = Stored(node, bs, cap)
          /\ capacity_' = cap
          /\ cur_' = NodeAfter(node, position_, Len(bs), cap)
          /\ position_' = position_ + Len(bs)
          /\ size_' = IF position_' > size_ THEN position_' ELSE size_
          /\ moved' = bs
          /\ UNCHANGED crashed

(* read, and with it every readXxx.  Asking for too much throws.           *)
ReadUnchecked(n) ==
    /\ ~crashed
    /\ position_ + n <= capacity_
    /\ moved' = [i \in 1 .. n |-> mem[position_ + i - 1]]
    /\ cur_' = NodeAfter(cur_, position_, n, capacity_)
    /\ position_' = position_ + n
    /\ UNCHANGED <<size_, capacity_, mem, crashed>>

read(n) ==
    /\ ~crashed
    /\ n <= getReadSize
    /\ Inside(cur_, position_, n, capacity_)
    /\ moved' = Span(cur_, position_, n)
    /\ cur_' = NodeAfter(cur_, position_, n, capacity_)
    /\ position_' = position_ + n
    /\ UNCHANGED <<size_, capacity_, mem, crashed>>

(* read(buf, size, position): starts in block cur_ whatever the position,  *)
(* so that only a position in that block is read right, as toString's is.  *)
ReadAt(n, p) == Span(cur_, p, n)

(* toString and toHexString: what is left, without moving.  With nothing   *)
(* left they do not look at the block.                                     *)
toString ==
    /\ ~crashed
    /\ getReadSize > 0 => Inside(cur_, position_, getReadSize, capacity_)
    /\ moved' = ReadAt(getReadSize, position_)
    /\ UNCHANGED <<position_, size_, capacity_, cur_, mem, crashed>>

(* The walk of setPosition from root_: a position at the end of a block    *)
(* belongs to the next one.                                                *)
NodeOfLast(v, cap) == IF v = 0 THEN 0 ELSE Block((v - 1) \div baseSize_, cap)

NodeOf(v, cap) == Block(v \div baseSize_, cap)

(* setPosition; a position beyond the capacity throws.                     *)
setPosition(v) ==
    /\ ~crashed
    /\ v <= capacity_
    /\ position_' = v
    /\ size_' = IF v > size_ THEN v ELSE size_
    /\ cur_' = NodeOf(v, capacity_)
    /\ UNCHANGED <<capacity_, mem, moved, crashed>>

clear ==
    /\ ~crashed
    /\ position_' = 0 /\ size_' = 0
    /\ capacity_' = baseSize_
    /\ mem' = [i \in 0 .. baseSize_ - 1 |-> mem[i]]
    /\ cur_' = 0
    /\ UNCHANGED <<moved, crashed>>

(* RPCSession::read(ByteArray): getWriteBuffers(len), recv of part of it   *)
(* or of nothing, setPosition behind what was received.                    *)
Receive(len, bs) ==
    /\ ~crashed
    /\ len > 0 /\ Len(bs) <= len
    /\ Grown(len) <= MaxCapacity
    /\ LET node == CurAfterGrowth(len)
           cap == Grown(len)
       IN /\ Inside(node, position_, len, cap)
          /\ mem' = Stored(node, bs, cap)
          /\ capacity_' = cap
          /\ position_' = position_ + Len(bs)
          /\ cur_' = IF bs = <<>> THEN node ELSE NodeOf(position_', cap)
          /\ size_' = IF position_' > size_ THEN position_' ELSE size_
          /\ moved' = bs
          /\ UNCHANGED crashed

(* RPCSession::write(ByteArray): getReadBuffers, send of part of it,       *)
(* setPosition behind what was sent.                                       *)
Send(n) ==
    /\ ~crashed
    /\ n > 0 /\ n <= getReadSize
    /\ Inside(cur_, position_, getReadSize, capacity_)
    /\ moved' = Span(cur_, position_, n)
    /\ position_' = position_ + n
    /\ cur_' = NodeOf(position_', capacity_)
    /\ UNCHANGED <<size_, capacity_, mem, crashed>>

(* Any of the above whose copy leaves the blocks: `cur_->size_' is read    *)
(* before the loop of write, read, getReadBuffers and getWriteBuffers, and *)
(* again after every block.  Asked for nothing, the others return before   *)
(* that; read does not.                                                    *)
FollowsNull ==
    \/ \E n \in 1 .. MaxLen : ~Inside(CurAfterGrowth(n), position_, n, Grown(n))
    \/ \E n \in 0 .. getReadSize : ~Inside(cur_, position_, n, capacity_)

NullBlock ==
    /\ ~crashed
    /\ FollowsNull
    /\ crashed' = TRUE
    /\ UNCHANGED <<position_, size_, capacity_, cur_, mem, moved>>

Next ==
    \/ \E bs \in Strings : write(bs)
    \/ \E n \in 0 .. MaxLen : read(n)
    \/ toString
    \/ \E v \in 0 .. capacity_ : setPosition(v)
    \/ clear
    \/ \E len \in 1 .. MaxLen, bs \in Strings : Receive(len, bs)
    \/ \E n \in 1 .. MaxLen : Send(n)
    \/ NullBlock

Spec == Init /\ [][Next]_vars

-----------------------------------------------------------------------------
(* The four numbers of a ByteArray agree: cur_ is the block of position_,  *)
(* null exactly at the end of the last block.                              *)
Consistent ==
    /\ position_ <= size_ /\ size_ <= capacity_
    /\ capacity_ = Nodes * baseSize_ /\ Nodes > 0
    /\ cur_ = Block(position_ \div baseSize_, capacity_)

(* Whatever came before, a write, receive, read or send of at least one    *)
(* byte finds every block it needs: only a read of nothing, at the end of  *)
(* the last block, can follow the null pointer.                            *)
OnlyEmptyReadFaults ==
    /\ \A n \in 1 .. MaxLen : Inside(CurAfterGrowth(n), position_, n, Grown(n))
    /\ \A n \in 1 .. getReadSize : Inside(cur_, position_, n, capacity_)

(* Blocks do not show: a ByteArray is a flat array with a position.        *)
Flat == INSTANCE FlatBuffer
            WITH data <- [i \in 1 .. size_ |-> mem[i - 1]],
                 pos <- position_

ImplementsFlat == Flat!Spec

=============================================================================
