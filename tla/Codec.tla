-------------------------------- MODULE Codec --------------------------------
(***************************************************************************)
(* The encodings of ByteArray (src/base/ByteArray.cpp) the way Serializer  *)
(* uses them (include/rpc/Serializer.h): everything is written, reset()    *)
(* moves to the front, everything is read back in order.                   *)
(*                                                                         *)
(*   int, uint     writeInt32/64 (zigzag, then varint), writeUint32/64     *)
(*   fint, fuint   writeFint8 ... writeFuint64, most significant byte      *)
(*                 first; a float or a double is the fuint of its bits     *)
(*   enum          static_cast<int32_t>, then as an int                    *)
(*   string        writeStringVint                                         *)
(*   fstring       writeStringF16/32/64, as Protocol uses it               *)
(*   list          the standard containers, in their order of iteration,   *)
(*                 of elements of one basic type                           *)
(*   struct        an aggregate, through VisitMembers (Reflection.hpp), a  *)
(*                 tuple or a pair: the members in the order of their      *)
(*                 declaration                                             *)
(*                                                                         *)
(* Integers have Width bits and a byte carries Group of them (7) below the *)
(* continuation bit, so Base is 0x80.  Where the bytes are stored is the   *)
(* subject of ByteArray, with which this module can be used: offset is the *)
(* position_ there, WriteItem and ReadItem are Serializer's write and read.*)
(***************************************************************************)
EXTENDS Zigzag, Sequences

CONSTANTS Group,        \* bits of an integer in one byte
          FixedLen,     \* bytes of a fixed-width number: 1, 2, 4, 8
          PrefixLen,    \* bytes of the length of an fstring: 2, 4, 8
          MaxItems,     \* bound: items in one stream
          MaxString,    \* bound: length of a string
          ElementType,  \* what a list is a list of
          Elements,     \* bound: elements of a list
          MaxList,      \* bound: length of a list
          Members,      \* bound: what a member of a struct may be
          MaxMembers    \* bound: members of a struct, MaxVisitMembers

ASSUME GroupAssumption == Group \in Nat \ {0}
ASSUME FixedAssumption == FixedLen \in Nat \ {0} /\ PrefixLen \in Nat \ {0}
ASSUME BoundsAssumption == MaxItems \in Nat /\ MaxMembers \in Nat

VARIABLES bytes,        \* the stream
          offset,       \* how much of it has been read
          phase,        \* writing, reading, or a read has thrown
          written,      \* the items written
          received      \* the items read back

streamVars == <<bytes, offset, phase, written, received>>

Base == Pow2[Group]
Byte == 2 * Base

(* The numbers that fit in n bytes.                                        *)
ByteRange(n) == Pow2[(Group + 1) * n]

FixedRange == ByteRange(FixedLen)

(* The length of a container and of a string is an unsigned integer.       *)
ASSUME LengthAssumption == MaxString \in Unsigned /\ MaxList \in Unsigned

(* The values of an enum, whose underlying type may be wider than int32_t, *)
(* and what the cast makes of them.                                        *)
Wide == -(2 * Half) .. 2 * Half - 1

Truncated(v) == ToSigned(v % (2 * Half))

(* The values of the basic types, with strings of the lengths given.       *)
Basics(lengths) ==
    [type : {"int"}, val : Signed]
      \cup [type : {"uint"}, val : Unsigned]
      \cup [type : {"enum"}, val : Wide]
      \cup [type : {"fint"}, val : -(FixedRange \div 2) .. (FixedRange \div 2) - 1]
      \cup [type : {"fuint"}, val : 0 .. FixedRange - 1]
      \cup [type : {"string", "fstring"}, val : lengths]

BasicTypes == {"int", "uint", "enum", "fint", "fuint", "string", "fstring"}

Basic == Basics(0 .. MaxString)

ASSUME ElementsAssumption ==
    /\ ElementType \in BasicTypes
    /\ Elements \subseteq {e \in Basic : e.type = ElementType}
ASSUME MembersAssumption == Members \subseteq Basic

Lists == UNION {[1 .. n -> Elements] : n \in 0 .. MaxList}

(* An empty struct is refused at compile time.                             *)
Structs == UNION {[1 .. n -> Members] : n \in 1 .. MaxMembers}

Items(basic, lists, structs) ==
    basic \cup [type : {"list"}, val : lists] \cup [type : {"struct"}, val : structs]

Item == Items(Basic, Lists, Structs)

(* What the reader must know of an item: its type and those of its members *)
TypesOf(items) == [i \in 1 .. Len(items) |-> items[i].type]

ShapeOf(item) ==
    [type |-> item.type, members |-> IF item.type = "struct" THEN TypesOf(item.val) ELSE <<>>]

Shapes == [type : BasicTypes \cup {"list"}, members : {<<>>}]
            \cup [type : {"struct"}, members : {TypesOf(s) : s \in Structs}]

-----------------------------------------------------------------------------
(* The loop of writeUint32/64: low groups first, the continuation bit on   *)
(* all but the last.                                                       *)
ContinuesOffByOne(v) == v > Base

ContinuesWhileNonZero(v) == v > 0

Continues(v) == v >= Base

Varint[v \in Nat] ==
    IF Continues(v) THEN <<(v % Base) + Base>> \o Varint[v \div Base] ELSE <<v>>

(* The loop of readUint32/64 from byte p on, the k-th byte of which has    *)
(* the bits from k * Group on: it ends at a byte without continuation bit  *)
(* or when Width bits have been read.  Running out of bytes throws: next   *)
(* is 0 then.                                                              *)
MoreBits(i) == i < Width

ReadVarint(p) ==
    LET from[k \in Nat] ==
          IF ~MoreBits(k * Group) THEN [val |-> 0, next |-> p + k]
          ELSE IF p + k > Len(bytes) THEN [val |-> 0, next |-> 0]
          ELSE IF bytes[p + k] < Base
               THEN [val |-> (bytes[p + k] * Pow2[k * Group]) % (2 * Half), next |-> p + k + 1]
               ELSE [val |-> (((bytes[p + k] - Base) * Pow2[k * Group]) % (2 * Half))
                               + from[k + 1].val,
                     next |-> from[k + 1].next]
    IN from[0]

(* writeFint of a number of n bytes, byte-swapped to big endian; what does *)
(* not fit in n bytes is cut off by the conversion of the argument.        *)
FixedBytes(v, n) == [i \in 1 .. n |-> (v \div ByteRange(n - i)) % Byte]

(* readFint8 ... readFuint64: n bytes from p on.                           *)
FixedValue(p, n) ==
    LET upTo[k \in 0 .. n] == IF k = 0 THEN 0 ELSE upTo[k - 1] * Byte + bytes[p + k - 1]
    IN upTo[n]

ReadFixed(p, n) ==
    IF p + n > Len(bytes) + 1 THEN [val |-> 0, next |-> 0]
    ELSE [val |-> FixedValue(p, n), next |-> p + n]

Characters(n) == [i \in 1 .. n |-> 0]

(* The bytes of an item; the characters of a string do not matter.         *)
EncodeBasic(item) ==
    CASE item.type = "int"     -> Varint[EncodeZigzag(item.val)]
      [] item.type = "enum"    -> Varint[EncodeZigzag(Truncated(item.val))]
      [] item.type = "uint"    -> Varint[item.val]
      [] item.type \in {"fint", "fuint"} -> FixedBytes(item.val, FixedLen)
      [] item.type = "string"  -> Varint[item.val] \o Characters(item.val)
      [] item.type = "fstring" -> FixedBytes(item.val, PrefixLen) \o Characters(item.val)

(* VisitMembers with the visitor of Serializer::write: one after another.  *)
VisitToWrite(items) ==
    LET upTo[k \in 0 .. Len(items)] ==
          IF k = 0 THEN <<>> ELSE upTo[k - 1] \o EncodeBasic(items[k])
    IN upTo[Len(items)]

(* The container overloads: the number of elements, then each of them.     *)
WriteElements(items) == Varint[Len(items)] \o VisitToWrite(items)

Encode(item) ==
    CASE item.type = "list"   -> WriteElements(item.val)
      [] item.type = "struct" -> VisitToWrite(item.val)
      [] OTHER                -> EncodeBasic(item)

(* A string whose length was read: its characters must be there.           *)
ReadString(len) ==
    LET end == len.next + len.val
    IN [val |-> len.val,
        next |-> IF len.next = 0 \/ end > Len(bytes) + 1 THEN 0 ELSE end]

ToFixedSigned(u) == IF u >= FixedRange \div 2 THEN u - FixedRange ELSE u

(* An item of a type read at byte p; next is 0 if it throws.               *)
DecodeBasic(type, p) ==
    LET varint == ReadVarint(p)
        fixed == ReadFixed(p, FixedLen)
    IN CASE type \in {"int", "enum"} -> [varint EXCEPT !.val = DecodeZigzag(@)]
         [] type = "uint"    -> varint
         [] type = "fint"    -> [fixed EXCEPT !.val = ToFixedSigned(@)]
         [] type = "fuint"   -> fixed
         [] type = "string"  -> ReadString(varint)
         [] type = "fstring" -> ReadString(ReadFixed(p, PrefixLen))

(* One more item behind those that have been read, unless that threw.      *)
ReadNext(sofar, type) ==
    LET item == DecodeBasic(type, sofar.next)
    IN IF sofar.next = 0 THEN sofar
       ELSE [val |-> Append(sofar.val, [type |-> type, val |-> item.val]), next |-> item.next]

(* VisitMembers with the visitor of Serializer::read, from byte p on.      *)
VisitToRead(p, types) ==
    LET upTo[k \in 0 .. Len(types)] ==
          IF k = 0 THEN [val |-> <<>>, next |-> p] ELSE ReadNext(upTo[k - 1], types[k])
    IN upTo[Len(types)]

ReadElements(p) ==
    LET count == ReadVarint(p)
    IN VisitToRead(count.next, [i \in 1 .. count.val |-> ElementType])

Decode(shape) ==
    LET p == offset + 1
    IN CASE shape.type = "list"   -> ReadElements(p)
         [] shape.type = "struct" -> VisitToRead(p, shape.members)
         [] OTHER                 -> DecodeBasic(shape.type, p)

-----------------------------------------------------------------------------
StreamTypeOK ==
    /\ bytes \in Seq(0 .. Byte - 1)
    /\ offset \in 0 .. Len(bytes)
    /\ phase \in {"writing", "reading", "thrown"}
    /\ written \in Seq(Item)
    /\ received \in Seq(Items(Basics(Nat), Seq(Basics(Nat)), Seq(Basics(Nat))))

SerializerInit ==
    /\ bytes = <<>>
    /\ offset = 0
    /\ phase = "writing"
    /\ written = <<>>
    /\ received = <<>>

WriteItem(item) ==
    /\ phase = "writing"
    /\ Len(written) < MaxItems
    /\ bytes' = bytes \o Encode(item)
    /\ written' = Append(written, item)
    /\ UNCHANGED <<offset, phase, received>>

reset ==
    /\ phase = "writing"
    /\ phase' = "reading"
    /\ UNCHANGED <<bytes, offset, written, received>>

(* The next item, read with the type it was written with; behind the last  *)
(* one the reader may expect an argument more than there is.               *)
ReadItem(shape) ==
    /\ phase = "reading"
    /\ Len(received) <= Len(written)
    /\ Len(received) < Len(written) => shape = ShapeOf(written[Len(received) + 1])
    /\ LET item == Decode(shape)
       IN IF item.next = 0
          THEN phase' = "thrown" /\ UNCHANGED <<offset, received>>
          ELSE /\ offset' = item.next - 1
               /\ received' = Append(received, [type |-> shape.type, val |-> item.val])
               /\ UNCHANGED phase
    /\ UNCHANGED <<bytes, written>>

SerializerNext ==
    \/ \E item \in Item : WriteItem(item)
    \/ reset
    \/ \E shape \in Shapes : ReadItem(shape)

SerializerSpec == SerializerInit /\ [][SerializerNext]_streamVars

-----------------------------------------------------------------------------
(* The length of a string fits in its prefix, an enum in the int it is     *)
(* written as.                                                             *)
FitsField(item) ==
    /\ item.type = "fstring" => item.val < ByteRange(PrefixLen)
    /\ item.type = "enum" => item.val \in Signed

Fits(item) ==
    IF item.type \in {"list", "struct"} THEN \A i \in DOMAIN item.val : FitsField(item.val[i])
                                        ELSE FitsField(item)

(* What is read back is what was written, item for item, whatever precedes *)
(* and follows it in the stream; an exception comes only after everything  *)
(* was read, and reading beyond that always throws (this is how            *)
(* RPCServer::proxy finds out that arguments are missing).  The stream is  *)
(* misread from the first string on that is too long for the fixed-width   *)
(* length in front of it, which writeStringF16 and F32 cut off silently;   *)
(* nothing is said behind an enum that does not fit in int32_t either.     *)
RoundTrip ==
    \/ /\ Len(received) <= Len(written)
       /\ received = SubSeq(written, 1, Len(received))
       /\ phase = "thrown" => Len(received) = Len(written)
    \/ \E i \in 1 .. Len(received) + 1 : i <= Len(written) /\ ~Fits(written[i])

(* The smallest and the largest integers included, an encoding fits in the *)
(* buffer tmp[] of writeUint32/64: five bytes for 32 bits, ten for 64.     *)
TmpFits ==
    \A i \in 1 .. Len(written) :
        written[i].type \in {"int", "uint", "enum"} =>
            Len(Encode(written[i])) <= (Width + Group - 1) \div Group

(* The stream stays one: bytes are bytes, what is read is of the type that *)
(* was asked for, and no encoding is longer than its buffer.               *)
StreamIsSound == StreamTypeOK /\ TmpFits

=============================================================================
