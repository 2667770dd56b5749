------------------------------- MODULE Zigzag -------------------------------
(***************************************************************************)
(* The integers of ByteArray (src/base/ByteArray.cpp), of Width bits, and  *)
(* the map between signed and unsigned ones that writeInt32/64 put in      *)
(* front of the varint.                                                    *)
(***************************************************************************)
EXTENDS Integers

CONSTANT Width          \* bits of an integer: 32, 64

ASSUME WidthAssumption == Width \in Nat \ {0}

(* 2 ^ n, as a function that can be unfolded in a proof.                   *)
Pow2[n \in Nat] == IF n = 0 THEN 1 ELSE 2 * Pow2[n - 1]

Half == Pow2[Width - 1]

Unsigned == 0 .. 2 * Half - 1
Signed == -Half .. Half - 1

(* EncodeZigzag: (unsigned)(-v) * 2 - 1 in Width bits.  -v overflows for   *)
(* the smallest v; two's complement gives v itself, whose unsigned value   *)
(* is Half, which is what - v is here.                                     *)
EncodeZigzag(v) == IF v < 0 THEN (2 * (-v) - 1) % (2 * Half) ELSE 2 * v

(* (v >> 1) ^ -(v & 1): the complement of v >> 1 if v is odd, taken as a   *)
(* signed integer.                                                         *)
ToSigned(u) == IF u >= Half THEN u - 2 * Half ELSE u

DecodeZigzag(u) ==
    ToSigned(IF u % 2 = 0 THEN u \div 2 ELSE 2 * Half - 1 - (u \div 2))

=============================================================================
