------------------------------- MODULE Bitops -------------------------------
(***************************************************************************)
(* The conversions of ircodec/src/bitops.c.  A string of '0' and '1' is a  *)
(* sequence of bits, an array of sample_t a sequence of bytes.             *)
(***************************************************************************)
EXTENDS Integers, Sequences

Bit == {0, 1}

(* The number of bytes that hold n bits. *)
nbBytes(n) == (n \div 8) + (IF n % 8 = 0 THEN 0 ELSE 1)

(* 1 << (7 - b), for b from 0 to 7 *)
Weights == <<128, 64, 32, 16, 8, 4, 2, 1>>

(* The first bit is the highest of the first byte, and the last byte is    *)
(* filled up with zeros.                                                   *)
string2bytes(bits) ==
    LET w(i, b) == IF i + b <= Len(bits) /\ bits[i + b] = 1 THEN Weights[b] ELSE 0
        byte(i) == w(i, 1) + w(i, 2) + w(i, 3) + w(i, 4) + w(i, 5) + w(i, 6) + w(i, 7) + w(i, 8)
    IN [j \in 1..nbBytes(Len(bits)) |-> byte(8 * (j - 1))]

(* The first n bits of the bytes; there are at least that many. *)
bytes2string(bytes, n) ==
    [i \in 1..n |-> (bytes[((i - 1) \div 8) + 1] \div Weights[((i - 1) % 8) + 1]) % 2]
=============================================================================
