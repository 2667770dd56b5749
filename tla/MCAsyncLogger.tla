--------------------------- MODULE MCAsyncLogger ---------------------------
(* Buffers of six bytes and messages of two to five: messages may fill a   *)
(* buffer exactly, and four messages use up both spare buffers.  Integers  *)
(* and pointers have five bits, so that the longest text is "0x1F" and     *)
(* needs all of the local buffer.                                          *)
EXTENDS AsyncLogger

(* TLC evaluates this before it explores: it is about no state.            *)
ASSUME ConversionsAreExact == NumbersAreExact

ConvertedLens == {Len(convert(v)) : v \in Ints}

=============================================================================
