---------------------------- MODULE ByteArrayLoop ----------------------------
(***************************************************************************)
(* The loops of ByteArray.cpp over the list of blocks, block by block.     *)
(* ByteArray states what the copy loop does; here it is as written, and    *)
(* with it the loop of writeToFile, which is different.                    *)
(*                                                                         *)
(* A loop is its variables before the first round, what a round makes of   *)
(* them, and the condition for another one.  Of the bytes only the         *)
(* addresses are kept (`at'); ok is FALSE once the loop has gone wrong.    *)
(***************************************************************************)
EXTENDS ByteArray

Addresses(node, npos, n) ==
    [i \in 1 .. n |-> node * baseSize_ + npos + i - 1]

(* The next_ of a block.                                                   *)
next(node) == IF node + 1 < Nodes THEN node + 1 ELSE Null

(* Every round goes on to another block or is the last.                    *)
Rounds == Nodes + 1

(* The copy loop of write, read, getReadBuffers and getWriteBuffers, for n *)
(* bytes (none at all only in read).  cur_->size_ is read before it, and   *)
(* after each block.                                                       *)
CopyStart(n) ==
    [node |-> cur_, npos |-> position_ % baseSize_, left |-> n, at |-> <<>>, ok |-> cur_ # Null]

CopyBody(s) ==
    LET ncap == baseSize_ - s.npos
    IN IF ncap >= s.left
       THEN [node |-> IF s.npos + s.left = baseSize_ THEN next(s.node) ELSE s.node,
             npos |-> s.npos,
             left |-> 0,
             at   |-> s.at \o Addresses(s.node, s.npos, s.left),
             ok   |-> TRUE]
       ELSE [node |-> next(s.node),
             npos |-> 0,
             left |-> s.left - ncap,
             at   |-> s.at \o Addresses(s.node, s.npos, ncap),
             ok   |-> next(s.node) # Null]

CopyRound(s) == IF s.ok /\ s.left > 0 THEN CopyBody(s) ELSE s

CopyLoop(n) ==
    LET after[k \in 0 .. Rounds] == IF k = 0 THEN CopyStart(n) ELSE CopyRound(after[k - 1])
    IN after[Rounds]

(* The loop of writeToFile.  A negative length and a null block have no    *)
(* defined outcome.                                                        *)
FileStart == [node |-> cur_, pos |-> position_, left |-> getReadSize, at |-> <<>>, ok |-> TRUE]

FileBody(s) ==
    LET diff == s.pos % baseSize_
        len == (IF s.left > baseSize_ THEN baseSize_ ELSE s.left) - diff
    IN IF s.node = Null \/ len < 0
       THEN [node |-> s.node, pos |-> s.pos, left |-> s.left, at |-> s.at, ok |-> FALSE]
       ELSE [node |-> next(s.node),
             pos  |-> s.pos + len,
             left |-> s.left - len,
             at   |-> s.at \o Addresses(s.node, diff, len),
             ok   |-> TRUE]

FileRound(s) == IF s.ok /\ s.left > 0 THEN FileBody(s) ELSE s

writeToFile ==
    LET after[k \in 0 .. Rounds] == IF k = 0 THEN FileStart ELSE FileRound(after[k - 1])
    IN after[Rounds]

-----------------------------------------------------------------------------
(* From every reachable state, a copy of any length by the loop of write,  *)
(* read, getReadBuffers and getWriteBuffers meets a null block exactly     *)
(* when the bytes do not fit; otherwise it ends, having touched the Span,  *)
(* and leaves cur_ at NodeAfter, whatever the block boundaries in between. *)
LoopIsSpan ==
    \A n \in 0 .. MaxLen :
        LET copy == CopyLoop(n)
        IN /\ copy.ok <=> Inside(cur_, position_, n, capacity_)
           /\ copy.ok =>
                /\ copy.left = 0
                /\ copy.at = [i \in 1 .. n |-> Start(cur_, position_) + i - 1]
                /\ copy.node = NodeAfter(cur_, position_, n, capacity_)

(* "Writes the data of the ByteArray to a file" (the comment on            *)
(* writeToFile): from any position it ends with the bytes up to size_, the *)
(* same that toString returns, in the file.                                *)
FileHoldsTheRest ==
    /\ writeToFile.ok /\ writeToFile.left = 0
    /\ writeToFile.at = [i \in 1 .. getReadSize |-> position_ + i - 1]

(* It does so exactly when there is at least a block of them or they start *)
(* at the beginning of a block; otherwise its one piece is cut short by    *)
(* the offset in the block.                                                *)
FileHoldsWholeBlocks ==
    FileHoldsTheRest
      <=> \/ getReadSize = 0 \/ getReadSize >= baseSize_
          \/ position_ % baseSize_ = 0

(* Both loops over the list of blocks do what is said of them.             *)
LoopsAreExact == LoopIsSpan /\ FileHoldsWholeBlocks

=============================================================================
