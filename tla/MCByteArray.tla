----------------------------- MODULE MCByteArray -----------------------------
(***************************************************************************)
(* The class ByteArray, which is used in two ways: by its own operations   *)
(* on the storage, in any order, or by a Serializer, which writes          *)
(* everything, calls reset and reads.  An array that is used in one way is *)
(* not used in the other.                                                  *)
(*                                                                         *)
(* Storage: blocks of two bytes, at most three of them, and operations of  *)
(* up to three bytes, so that an operation may begin, cross and end a      *)
(* block and may need two new blocks at once.                              *)
(*                                                                         *)
(* Serializer: five-bit integers in groups of two: like 64 bits in groups  *)
(* of seven, the last byte of the longest encoding has a single bit.       *)
(* Bytes of three bits, so that a string of nine characters is too long    *)
(* for a prefix of one byte.  Two items, so that an item has neighbours on *)
(* either side.                                                            *)
(***************************************************************************)
EXTENDS ByteArrayLoop, Codec

MCElements == [type : {"uint"}, val : {0, 3, 4, 31}]

MCMembers == {[type |-> "int", val |-> -16], [type |-> "fuint", val |-> 63],
              [type |-> "enum", val |-> 15], [type |-> "string", val |-> 2], [type |-> "fstring", val |-> 8]}

StorageUnused ==
    /\ size_ = 0 /\ capacity_ = baseSize_ /\ moved = <<>>
    /\ \A i \in DOMAIN mem : mem[i] = Garbage

UseStorage ==
    /\ phase = "writing" /\ written = <<>>
    /\ Next
    /\ UNCHANGED streamVars

UseSerializer ==
    /\ StorageUnused
    /\ SerializerNext
    /\ UNCHANGED vars

UseInit == Init /\ SerializerInit

UseSpec == UseInit /\ [][UseStorage \/ UseSerializer]_<<vars, streamVars>>

=============================================================================
