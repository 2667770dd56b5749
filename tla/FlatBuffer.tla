----------------------------- MODULE FlatBuffer -----------------------------
(***************************************************************************)
(* What a user of ByteArray sees: one growing array of bytes and a         *)
(* position at which it is read and written.                               *)
(***************************************************************************)
EXTENDS Naturals, Sequences

CONSTANT Bytes          \* the bytes, uninitialised memory included

VARIABLES data,         \* the bytes of the array
          pos,          \* the position, 0 .. Len(data)
          moved         \* the bytes the last operation put in or took out

flatVars == <<data, pos, moved>>

Init == data = <<>> /\ pos = 0 /\ moved = <<>>

(* Overwrites what is at the position and extends the array if need be.    *)
Write ==
    /\ pos' > pos
    /\ data' \in Seq(Bytes)
    /\ Len(data') = IF pos' > Len(data) THEN pos' ELSE Len(data)
    /\ \A i \in 1 .. Len(data) : i <= pos \/ i > pos' => data'[i] = data[i]
    /\ moved' = SubSeq(data', pos + 1, pos')

Read ==
    \E n \in 0 .. Len(data) - pos :
        /\ moved' = SubSeq(data, pos + 1, pos + n)
        /\ pos' = pos + n
        /\ UNCHANGED data

(* Reads without moving.                                                   *)
Peek ==
    \E n \in 0 .. Len(data) - pos :
        /\ moved' = SubSeq(data, pos + 1, pos + n)
        /\ UNCHANGED <<data, pos>>

(* Moving beyond the end makes the bytes in between part of the array.     *)
Seek ==
    /\ Len(data') >= Len(data)
    /\ SubSeq(data', 1, Len(data)) = data
    /\ pos' <= Len(data')
    /\ Len(data') > Len(data) => pos' = Len(data')
    /\ UNCHANGED moved

Clear == data' = <<>> /\ pos' = 0 /\ UNCHANGED moved

Next == Write \/ Read \/ Peek \/ Seek \/ Clear

Spec == Init /\ [][Next]_flatVars

=============================================================================
