------------------------------- MODULE Octets -------------------------------
(* Sequences of bytes and the numbers in them; offsets count from 0, as in *)
(* the code.                                                               *)
EXTENDS Integers, Sequences

Octet(b, i) == b[i + 1]
Bytes(b, from, to) == SubSeq(b, from + 1, to)

U16(b, i) == Octet(b, i) * 256 + Octet(b, i + 1)

(* The unsigned number in bytes.                                           *)
Number(s) ==
  LET value[k \in 0 .. Len(s)] == IF k = 0 THEN 0 ELSE value[k - 1] * 256 + s[k]
  IN value[Len(s)]

(* That in w bytes at offset i.                                            *)
UInt(b, i, w) == Number(Bytes(b, i, i + w))
=============================================================================
