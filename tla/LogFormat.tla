------------------------------ MODULE LogFormat ------------------------------
(***************************************************************************)
(* How LogStream writes an integer or a pointer (src/base/LogStream.cpp):  *)
(* a local buffer of K_MAXNUMERIC_SIZE characters is filled from the last  *)
(* digit on and reversed.  Integers have Bits bits; C's / and % round      *)
(* towards zero, and the digit of a negative remainder is found to the     *)
(* left of the zero in the middle of DIGITS.                               *)
(***************************************************************************)
EXTENDS Integers, Sequences

CONSTANTS Bits,                \* bits of an integer
          K_MAXNUMERIC_SIZE    \* characters of the local buffer

ASSUME BitsAssumption == Bits \in Nat \ {0}

Ints == -(2 ^ (Bits - 1)) .. 2 ^ (Bits - 1) - 1
Unsigneds == 0 .. 2 ^ Bits - 1

(* 10 ^ n, as a function that can be unfolded in a proof.                  *)
TenTo[n \in Nat] == IF n = 0 THEN 1 ELSE 10 * TenTo[n - 1]

(* There is room for the digits, what precedes them and the terminator.    *)
ASSUME NumericSizeAssumption ==
    /\ K_MAXNUMERIC_SIZE \in Nat /\ K_MAXNUMERIC_SIZE > 3
    /\ \A v \in Ints \cup Unsigneds :
          v < TenTo[K_MAXNUMERIC_SIZE - 3] /\ -v < TenTo[K_MAXNUMERIC_SIZE - 3]

Quotient(i, base) == IF i < 0 THEN -((-i) \div base) ELSE i \div base

Remainder(i, base) == i - base * Quotient(i, base)

(* The characters: the digits 0 to 15, a minus sign, an x.                 *)
Minus == 16
X == 17

DIGITS == <<9, 8, 7, 6, 5, 4, 3, 2, 1, 0, 1, 2, 3, 4, 5, 6, 7, 8, 9>>

ZERO(d) == DIGITS[10 + d]

(* The loop of convert, as it fills the buffer.                            *)
Digits[i \in Int] ==
    IF Quotient(i, 10) = 0 THEN <<ZERO(Remainder(i, 10))>>
    ELSE <<ZERO(Remainder(i, 10))>> \o Digits[Quotient(i, 10)]

HexDigits[i \in Nat] ==
    IF i \div 16 = 0 THEN <<i % 16>> ELSE <<i % 16>> \o HexDigits[i \div 16]

Reverse(s) == [i \in 1 .. Len(s) |-> s[Len(s) + 1 - i]]

convert(val) == Reverse(Digits[val] \o (IF val < 0 THEN <<Minus>> ELSE <<>>))

(* operator<< of a pointer: 0x and the hexadecimal digits.                 *)
FormatPointer(val) == <<0, X>> \o Reverse(HexDigits[val])

-----------------------------------------------------------------------------
(* What a reader makes of a text.                                          *)
Value(text, base) ==
    LET upTo[i \in 0 .. Len(text)] ==
          IF i = 0 THEN 0 ELSE upTo[i - 1] * base + text[i]
    IN upTo[Len(text)]

IsNumeral(text, base) ==
    /\ text # <<>>
    /\ \A i \in 1 .. Len(text) : text[i] \in 0 .. base - 1
    /\ Len(text) > 1 => text[1] # 0

(* The text of every integer, signed or not, the smallest included, whose  *)
(* absolute value is no integer, is a numeral without leading zeros that   *)
(* reads as the integer, and fits in the local buffer with its terminator; *)
(* so is and does the text of every pointer.                               *)
NumbersAreExact ==
    /\ \A v \in Ints \cup Unsigneds :
        LET text == convert(v)
            digits == IF v < 0 THEN Tail(text) ELSE text
        IN /\ IsNumeral(digits, 10)
           /\ Value(digits, 10) = (IF v < 0 THEN -v ELSE v)
           /\ v < 0 => text[1] = Minus
           /\ Len(text) < K_MAXNUMERIC_SIZE
    /\ \A v \in Unsigneds :
        LET text == FormatPointer(v)
            digits == SubSeq(text, 3, Len(text))
        IN /\ IsNumeral(digits, 16)
           /\ Value(digits, 16) = v
           /\ Len(text) < K_MAXNUMERIC_SIZE

=============================================================================
