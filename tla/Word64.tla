------------------------------- MODULE Word64 -------------------------------
(****************************************************************************)
(* uint64_t as four digits of sixteen bits, the least significant first:    *)
(* addition, subtraction, exclusive or and the shifts by less than 64 that  *)
(* make the rotations of threefish.h.                                       *)
(****************************************************************************)
EXTENDS Integers, Sequences
LOCAL INSTANCE Bitwise

Digit == 0 .. 65535
Word64 == [0 .. 3 -> Digit]
Number64(n) == [i \in 0 .. 3 |-> IF i = 0 THEN n ELSE 0]

Plus64(a, b) ==
    LET sum[i \in 0 .. 3] ==    \* with the carry into digit i + 1
            a[i] + b[i] + (IF i = 0 THEN 0 ELSE sum[i - 1] \div 65536)
    IN [i \in 0 .. 3 |-> sum[i] % 65536]

Minus64(a, b) ==
    LET Borrow(d) == IF d < 0 THEN 1 ELSE 0
        difference[i \in 0 .. 3] ==
            (a[i] - b[i]) - (IF i = 0 THEN 0 ELSE Borrow(difference[i - 1]))
    IN [i \in 0 .. 3 |-> (difference[i] + 65536) % 65536]

Xor64(a, b) == [i \in 0 .. 3 |-> a[i] ^^ b[i]]

Rotl64(a, r) ==
    LET whole == r \div 16
        low == 2 ^ (r % 16)
        At(i) == a[(i + 4 - whole) % 4]
    IN [i \in 0 .. 3 |-> ((At(i) * low) % 65536) + ((At((i + 3) % 4) * low) \div 65536)]

Rotr64(a, r) == Rotl64(a, (64 - r) % 64)

(* The word that eight bytes from position i of a sequence make.            *)
WordAt(bytes, i) == [d \in 0 .. 3 |-> bytes[i + (2 * d) + 1] + (256 * bytes[i + (2 * d) + 2])]
WordsOf(bytes) == [i \in 0 .. ((Len(bytes) \div 8) - 1) |-> WordAt(bytes, 8 * i)]
=============================================================================
