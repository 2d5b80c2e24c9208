---------------------------- MODULE MCStreamCipher ----------------------------
(* An instance of StreamCipher for TLC: a byte is two bits, exclusive or is   *)
(* addition of each bit modulo 2.                                             *)
EXTENDS StreamCipher

CONSTANT KeyLengths  \* how many bytes the keys have: less than a
                     \* word, a word, a word and a rest

Bit(x, b)   == (x \div 2^b) % 2
MCXor(x, y) == ((Bit(x, 0) + Bit(y, 0)) % 2) + 2 * ((Bit(x, 1) + Bit(y, 1)) % 2)

MCNonces == {<<1, 3, 2>>, <<3, 0, 1>>}
MCKeys   == {[j \in 1..n |-> (j + 1) % 4] : n \in KeyLengths}
=============================================================================
