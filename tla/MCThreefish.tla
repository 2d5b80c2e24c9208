---------------------------- MODULE MCThreefish ----------------------------
(****************************************************************************)
(* Threefish on real 64 bit words, with the keys, the tweak and the blocks  *)
(* of the unit tests beside the ciphers, and others.                        *)
(****************************************************************************)
EXTENDS Threefish, Word64

MCZero == Number64(0)
MCParity == [i \in 0 .. 3 |-> <<6690, 43516, 7130, 7121>>[i + 1]]

(* _key_N, _plain_N and _tweak of threefishN.c: bytes that count up or down. *)
Up(n) == WordsOf([i \in 1 .. n |-> i - 1])
Down(n) == WordsOf([i \in 1 .. n |-> 256 - i])
Ones(n) == [i \in 0 .. ((n \div 8) - 1) |-> [d \in 0 .. 3 |-> 65535]]

MCKeys(c) == {Up(c \div 8), Ones(c \div 8)}
MCTweaks == {<<Down(16)[0], Down(16)[1]>>}
MCBlocks(c) == {Down(c \div 8)}

(* The laws of the arithmetic, on words of the tests and on those where     *)
(* carries and borrows run through.                                         *)
Samples == {MCZero, MCParity, Number64(1), Up(32)[0], Down(32)[1], Ones(32)[0]}
ASSUME SampleLaws == WordLaws(Samples) /\ OrderLaws(Samples)

(* _cipher_N of threefishN.c. *)
Cipher256 ==
  WordsOf(<<72, 7, 7, 181, 228, 94, 113, 41, 217, 89, 6, 67, 182, 208, 36, 224,
            176, 244, 253, 187, 123, 17, 194, 231, 157, 198, 253, 180, 205, 200, 175, 54>>)
Cipher512 ==
  WordsOf(<<252, 91, 169, 221, 159, 106, 215, 9, 195, 48, 108, 131, 136, 69, 81, 212,
            205, 246, 80, 85, 136, 220, 213, 78, 200, 253, 215, 107, 43, 166, 77, 22,
            240, 200, 85, 49, 53, 203, 152, 191, 232, 125, 133, 181, 130, 52, 115, 81,
            109, 55, 140, 252, 208, 226, 78, 100, 177, 210, 133, 113, 187, 58, 141, 110>>)
Cipher1024 ==
  WordsOf(<<194, 105, 153, 204, 110, 79, 173, 228, 218, 136, 32, 2, 183, 16, 89, 194,
            22, 225, 3, 43, 118, 89, 254, 55, 128, 68, 79, 131, 207, 200, 47, 172,
            134, 86, 95, 63, 3, 123, 221, 98, 157, 39, 97, 129, 50, 68, 239, 49,
            157, 133, 104, 50, 231, 21, 163, 77, 116, 6, 124, 216, 126, 62, 194, 180,
            146, 179, 189, 0, 202, 176, 12, 194, 29, 155, 186, 217, 19, 227, 79, 226,
            175, 206, 147, 215, 203, 37, 72, 68, 101, 193, 230, 95, 134, 103, 204, 216,
            111, 147, 205, 245, 155, 245, 98, 59, 48, 209, 58, 3, 222, 129, 86, 108,
            253, 80, 217, 38, 111, 130, 75, 255, 90, 142, 173, 152, 16, 102, 83, 149>>)

(* The ciphers answer the questions of their unit tests with the bytes that *)
(* those tests expect (tests tfN_encrypt): rotations, word order, key and   *)
(* tweak schedule, parity word and the additions at the end are all right.  *)
KnownAnswer ==
    (phase = "idle" /\ last.plain = Down(cipher \div 8)
        /\ [i \in 0 .. (Size(cipher) - 1) |-> last.k[i]] = Up(cipher \div 8)
        /\ last.t[0] = Down(16)[0])
    => last.cipher = CASE cipher = 256 -> Cipher256 [] cipher = 512 -> Cipher512 [] OTHER -> Cipher1024
=============================================================================
