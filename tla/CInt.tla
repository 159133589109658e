-------------------------------- MODULE CInt --------------------------------
(***************************************************************************)
(* The C integer types of mkfs.ubifs' option handling, as the build on     *)
(* Linux (LP64, two's complement, gcc) computes them: long long and        *)
(* unsigned long long are 64 bits, int is 32, and a conversion to a        *)
(* narrower type or an overflowing multiplication keeps the low bits.      *)
(* TLC's integers are 32 bits wide, so a 64-bit value is held as its eight *)
(* bytes, least significant first; its signed or unsigned reading depends  *)
(* on the C type it stands for.                                            *)
(***************************************************************************)
EXTENDS Integers, Sequences, FiniteSetsExt, Bitwise

Digits == 1..8

Zero64 == [k \in Digits |-> 0]

(* Carry propagation over digits that may exceed a byte; what is carried  *)
(* out of the eighth byte is dropped, i.e. the value is taken mod 2^64.   *)
RECURSIVE CarryFrom(_, _, _)
CarryFrom(d, k, carry) ==
  IF k > 8 THEN <<>>
  ELSE LET v == d[k] + carry
       IN <<v % 256>> \o CarryFrom(d, k + 1, v \div 256)

Norm(d) == CarryFrom(d, 1, 0)

(* An int (or long value within int range) widened to 64 bits: sign       *)
(* extension.  Floor division gives the two's complement bytes.           *)
FromInt(n) ==
  [k \in Digits |-> IF k <= 4 THEN (n \div 2^(8 * (k - 1))) % 256
                    ELSE IF n < 0 THEN 255 ELSE 0]

Add64(a, b) == Norm([k \in Digits |-> a[k] + b[k]])

(* Multiplication mod 2^64: byte k of the product collects a[i] * b[j]    *)
(* with i + j = k + 1.  The same bits serve signed and unsigned operands. *)
Mul64(a, b) ==
  Norm([k \in Digits |->
          MapThenSumSet(LAMBDA i : a[i] * b[k + 1 - i], 1..k)])

IsNeg(a) == a[8] >= 128

Neg64(a) == Add64([k \in Digits |-> 255 - a[k]], FromInt(1))

(* Conversion of a 64-bit value to int: its low four bytes, signed.       *)
ToInt32(a) ==
  a[1] + a[2] * 2^8 + a[3] * 2^16
  + (IF a[4] >= 128 THEN a[4] - 256 ELSE a[4]) * 2^24

(* Unsigned order: the most significant differing byte decides.           *)
LtU64(a, b) ==
  LET D == {k \in Digits : a[k] # b[k]}
  IN D # {} /\ a[Max(D)] < b[Max(D)]

(* Signed (long long) order.                                              *)
LtS64(a, b) == IF IsNeg(a) # IsNeg(b) THEN IsNeg(a) ELSE LtU64(a, b)

(* Unsigned division by an int 0 < d < 2^23, long division a byte at a   *)
(* time from the top: the remainder times 256 plus the next byte stays     *)
(* below 2^31.  (For a larger d TLC reports the overflow.)                *)
DivByte(a, d, st, k) ==
  LET v == st.rem * 256 + a[k]
  IN [rem |-> v % d, q |-> [st.q EXCEPT ![k] = v \div d]]

UDiv64(a, d) ==
  LET t8 == DivByte(a, d, [rem |-> 0, q |-> Zero64], 8)
      t7 == DivByte(a, d, t8, 7)  t6 == DivByte(a, d, t7, 6)
      t5 == DivByte(a, d, t6, 5)  t4 == DivByte(a, d, t5, 4)
      t3 == DivByte(a, d, t4, 3)  t2 == DivByte(a, d, t3, 2)
  IN DivByte(a, d, t2, 1).q

(* long long division by an int d > 0, truncating toward zero.            *)
SDiv64(a, d) == IF IsNeg(a) THEN Neg64(UDiv64(Neg64(a), d)) ELSE UDiv64(a, d)

(* int division, truncating toward zero (a, b within int, b > 0).         *)
CDiv(a, b) == IF a < 0 THEN -((-a) \div b) ELSE a \div b

(* ALIGN(x, a) of the UBIFS headers: ((x) + (a) - 1) & ~((a) - 1), for    *)
(* x >= 0 and a > 0; for a not a power of two the mask is taken as is.    *)
ALIGN(x, a) == LET m == a - 1 IN (x + m) - ((x + m) & m)
=============================================================================
