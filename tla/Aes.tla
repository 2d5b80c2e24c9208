-------------------------------- MODULE Aes --------------------------------
(****************************************************************************)
(* Rijndael (aes.c): the expansion of a key into a schedule, its inversion  *)
(* for decryption, and blocks taken through the schedule round by round     *)
(* with the tables e0 .. e4 and d0 .. d4.  A uint32_t is a tuple of four    *)
(* bytes, the most significant first, as _get_uint32_b reads it.  Of the    *)
(* ten tables the S-box of e4 is written out and the others are what they   *)
(* hold: products of the S-box, of its inverse, and their rotations.        *)
(****************************************************************************)
EXTENDS Integers, Sequences

CONSTANTS
    AesKeys,           \* keys: sequences of 16, 24 or 32 bytes
    AesBlocks,         \* the blocks given to encrypt and decrypt
    AesMaxBlocks       \* bound: blocks processed by one handle

(* What a handle passes to the cipher: key_range of aes.c, and whole blocks. *)
AesInputsFit ==
    /\ \A k \in AesKeys : Len(k) \in {16, 24, 32} /\ k \in [1 .. Len(k) -> 0 .. 255]
    /\ AesBlocks \subseteq [1 .. 16 -> 0 .. 255]
    /\ AesMaxBlocks \in Nat

ASSUME AesAssumption == AesInputsFit

VARIABLES
    rounds, rd_key, \* struct aes_key_schedule_t
    role,           \* ghost: the call that filled it, "none", "encrypt" or "decrypt"
    aes_phase,          \* "idle", "encrypting" or "decrypting"
    aes_words,      \* the local words s0 .. s3, or t0 .. t3
    aes_round,          \* the number of the next round
    key,            \* ghost: the key of the schedule
    given,          \* ghost: the block being processed
    aes_last,           \* ghost: the last encryption, as [plain, cipher, key]
    opened,         \* ghost: the last decryption, in the same form
    aes_nblocks

aes_vars == <<rounds, rd_key, role, aes_phase, aes_words, aes_round, key, given, aes_last, opened, aes_nblocks>>

Byte == 0 .. 255
ZeroWord == <<0, 0, 0, 0>>

(* The exclusive or of two bytes, digit by digit.                           *)
XorTable == [a \in Byte |-> [b \in Byte |->
    LET Digit(p) == p * (((a \div p) + (b \div p)) % 2)
    IN Digit(1) + Digit(2) + Digit(4) + Digit(8) + Digit(16) + Digit(32) + Digit(64) + Digit(128)]]
XorByte(a, b) == XorTable[a][b]
Xor4(a, b, c, d) == XorByte(XorByte(a, b), XorByte(c, d))

XorWords(a, b) == <<XorByte(a[1], b[1]), XorByte(a[2], b[2]), XorByte(a[3], b[3]), XorByte(a[4], b[4])>>
XorFour(a, b, c, d) == XorWords(XorWords(a, b), XorWords(c, d))

(* Multiplication of bytes as polynomials modulo x^8 + x^4 + x^3 + x + 1.   *)
Twice == [b \in Byte |-> IF b < 128 THEN 2 * b ELSE XorByte((2 * b) - 256, 27)]
Times(n, b) ==
    LET Term(p, x) == IF (n \div p) % 2 = 1 THEN x ELSE 0
        Low(c) == Xor4(Term(1, c), Term(2, Twice[c]), Term(4, Twice[Twice[c]]), Term(8, Twice[Twice[Twice[c]]]))
        High(c) == Xor4(Term(16, c), Term(32, Twice[c]), Term(64, Twice[Twice[c]]), Term(128, Twice[Twice[Twice[c]]]))
    IN XorByte(Low(b), High(Twice[Twice[Twice[Twice[b]]]]))

SubBytes ==
   <<99, 124, 119, 123, 242, 107, 111, 197, 48, 1, 103, 43, 254, 215, 171, 118,
     202, 130, 201, 125, 250, 89, 71, 240, 173, 212, 162, 175, 156, 164, 114, 192,
     183, 253, 147, 38, 54, 63, 247, 204, 52, 165, 229, 241, 113, 216, 49, 21,
     4, 199, 35, 195, 24, 150, 5, 154, 7, 18, 128, 226, 235, 39, 178, 117,
     9, 131, 44, 26, 27, 110, 90, 160, 82, 59, 214, 179, 41, 227, 47, 132,
     83, 209, 0, 237, 32, 252, 177, 91, 106, 203, 190, 57, 74, 76, 88, 207,
     208, 239, 170, 251, 67, 77, 51, 133, 69, 249, 2, 127, 80, 60, 159, 168,
     81, 163, 64, 143, 146, 157, 56, 245, 188, 182, 218, 33, 16, 255, 243, 210,
     205, 12, 19, 236, 95, 151, 68, 23, 196, 167, 126, 61, 100, 93, 25, 115,
     96, 129, 79, 220, 34, 42, 144, 136, 70, 238, 184, 20, 222, 94, 11, 219,
     224, 50, 58, 10, 73, 6, 36, 92, 194, 211, 172, 98, 145, 149, 228, 121,
     231, 200, 55, 109, 141, 213, 78, 169, 108, 86, 244, 234, 101, 122, 174, 8,
     186, 120, 37, 46, 28, 166, 180, 198, 232, 221, 116, 31, 75, 189, 139, 138,
     112, 62, 181, 102, 72, 3, 246, 14, 97, 53, 87, 185, 134, 193, 29, 158,
     225, 248, 152, 17, 105, 217, 142, 148, 155, 30, 135, 233, 206, 85, 40, 223,
     140, 161, 137, 13, 191, 230, 66, 104, 65, 153, 45, 15, 176, 84, 187, 22>>

RotatedRight(a) == <<a[4], a[1], a[2], a[3]>>

(* e4 and d4 repeat their byte in all four places; the code masks one out.  *)
e4 == [x \in Byte |-> SubBytes[x + 1]]
e0 == [x \in Byte |-> <<Twice[e4[x]], e4[x], e4[x], Times(3, e4[x])>>]
e1 == [x \in Byte |-> RotatedRight(e0[x])]
e2 == [x \in Byte |-> RotatedRight(e1[x])]
e3 == [x \in Byte |-> RotatedRight(e2[x])]
d4 == [x \in Byte |-> CHOOSE y \in Byte : e4[y] = x]
d0 == [x \in Byte |-> <<Times(14, d4[x]), Times(9, d4[x]), Times(13, d4[x]), Times(11, d4[x])>>]
d1 == [x \in Byte |-> RotatedRight(d0[x])]
d2 == [x \in Byte |-> RotatedRight(d1[x])]
d3 == [x \in Byte |-> RotatedRight(d2[x])]
rcon == <<1, 2, 4, 8, 16, 32, 64, 128, 27, 54>>

BigEndian(bytes, j) == <<bytes[(4 * j) + 1], bytes[(4 * j) + 2], bytes[(4 * j) + 3], bytes[(4 * j) + 4]>>

-----------------------------------------------------------------------------

AesInit ==
    /\ rounds = 0
    /\ rd_key = [j \in 0 .. 59 |-> ZeroWord]
    /\ role = "none"
    /\ aes_phase = "idle"
    /\ aes_words = [j \in 0 .. 3 |-> ZeroWord]
    /\ aes_round = 1
    /\ key = <<>>
    /\ given = <<>>
    /\ aes_last = [plain |-> <<>>, cipher |-> <<>>, key |-> <<>>]
    /\ opened = aes_last
    /\ aes_nblocks = 0

RoundsOf(bits) == CASE bits = 128 -> 10 [] bits = 192 -> 12 [] OTHER -> 14

(* The three loops of aes_set_encrypt_key: rk[j] is made of the word before *)
(* it and of the word n places before it, n being the words of the key.     *)
NextWord(rk, n, j) ==
    LET temp == rk[Len(rk)]
    IN XorWords(rk[Len(rk) + 1 - n],
         CASE j % n = 0 ->
                <<XorByte(e4[temp[2]], rcon[j \div n]), e4[temp[3]], e4[temp[4]], e4[temp[1]]>>
           [] n = 8 /\ j % n = 4 -> <<e4[temp[1]], e4[temp[2]], e4[temp[3]], e4[temp[4]]>>
           [] OTHER -> temp)
WordsOfKey(k) == Len(k) \div 4
WordsToMake(k) == ((4 * RoundsOf(8 * Len(k))) + 4) - WordsOfKey(k)
Expanding(k) ==
    LET words[i \in 0 .. WordsToMake(k)] ==   \* with i words made
            IF i = 0 THEN [j \in 1 .. WordsOfKey(k) |-> BigEndian(k, j - 1)]
            ELSE LET rk == words[i - 1] IN Append(rk, NextWord(rk, WordsOfKey(k), WordsOfKey(k) + i - 1))
    IN words
Expanded(k) ==
    LET all == Expanding(k)[WordsToMake(k)] IN [j \in 0 .. (Len(all) - 1) |-> all[j + 1]]

(* Words past those of the new key keep what an earlier, longer key left.   *)
Overlaid(rk) == [j \in 0 .. 59 |-> IF j \in DOMAIN rk THEN rk[j] ELSE rd_key[j]]

Rekeyed(k) ==
    /\ aes_phase = "idle" /\ aes_nblocks < AesMaxBlocks
    /\ rounds' = RoundsOf(8 * Len(k))
    /\ key' = k
    /\ UNCHANGED <<aes_phase, aes_words, aes_round, given, aes_last, opened, aes_nblocks>>

SetEncryptKey(k) ==
    /\ Rekeyed(k)
    /\ role' = "encrypt"
    /\ rd_key' = Overlaid(Expanded(k))

(* Mutant: the keys of the first and the last round are mixed as well. *)
MixedEverywhere(j, n) == TRUE
(* for (k = 1; k < (s->rounds); k++)                                        *)
MixedInDecryption(j, n) == j \div 4 \in 1 .. (n - 1)

(* aes_set_decrypt_key: the keys of the rounds in reverse order, and those  *)
(* between the first and the last through the inverse of MixColumns, which  *)
(* d0 .. d3 hold behind an inverse S-box that e4 undoes.                    *)
Reversed(rk, n, j) == rk[(4 * (n - (j \div 4))) + (j % 4)]
Column(a) == XorFour(d0[e4[a[1]]], d1[e4[a[2]]], d2[e4[a[3]]], d3[e4[a[4]]])
Inverted(rk, n) ==
    [j \in DOMAIN rk |->
        IF MixedInDecryption(j, n) THEN Column(Reversed(rk, n, j)) ELSE Reversed(rk, n, j)]

SetDecryptKey(k) ==
    /\ Rekeyed(k)
    /\ role' = "decrypt"
    /\ rd_key' = Overlaid(Inverted(Expanded(k), RoundsOf(8 * Len(k))))

-----------------------------------------------------------------------------

AesBegin(block) ==
    /\ aes_phase = "idle" /\ aes_nblocks < AesMaxBlocks
    /\ aes_words' = [j \in 0 .. 3 |-> XorWords(BigEndian(block, j), rd_key[j])]
    /\ aes_round' = 1
    /\ given' = block
    /\ aes_nblocks' = aes_nblocks + 1
    /\ UNCHANGED <<rounds, rd_key, role, key, aes_last, opened>>

AesBeginEncrypt(block) == role = "encrypt" /\ AesBegin(block) /\ aes_phase' = "encrypting"
AesBeginDecrypt(block) == role = "decrypt" /\ AesBegin(block) /\ aes_phase' = "decrypting"

(* Mutant: the rows turn the other way, as in decryption. *)
ShiftedBack(j, r) == aes_words[(j + 4 - r) % 4][r + 1]
(* The byte of the state that row r of word j is made from: ShiftRows.      *)
Shifted(j, r) == aes_words[(j + r) % 4][r + 1]
Unshifted(j, r) == aes_words[(j + 4 - r) % 4][r + 1]

(* The rounds that are written out one after the other, and skipped by      *)
(* if (s->rounds>10) and if (s->rounds>12).                                 *)
EncryptRound ==
    /\ aes_phase = "encrypting" /\ aes_round < rounds
    /\ aes_words' = [j \in 0 .. 3 |->
              XorWords(XorFour(e0[Shifted(j, 0)], e1[Shifted(j, 1)], e2[Shifted(j, 2)], e3[Shifted(j, 3)]),
                  rd_key[(4 * aes_round) + j])]
    /\ aes_round' = aes_round + 1
    /\ UNCHANGED <<rounds, rd_key, role, aes_phase, key, given, aes_last, opened, aes_nblocks>>

DecryptRound ==
    /\ aes_phase = "decrypting" /\ aes_round < rounds
    /\ aes_words' = [j \in 0 .. 3 |->
              XorWords(XorFour(d0[Unshifted(j, 0)], d1[Unshifted(j, 1)],
                       d2[Unshifted(j, 2)], d3[Unshifted(j, 3)]),
                  rd_key[(4 * aes_round) + j])]
    /\ aes_round' = aes_round + 1
    /\ UNCHANGED <<rounds, rd_key, role, aes_phase, key, given, aes_last, opened, aes_nblocks>>

Bytes(words) == [i \in 1 .. 16 |-> words[(i - 1) \div 4][((i - 1) % 4) + 1]]

EncryptLast ==
    /\ aes_phase = "encrypting" /\ aes_round >= rounds
    /\ aes_words' = [j \in 0 .. 3 |->
              XorWords([r \in 1 .. 4 |-> e4[Shifted(j, r - 1)]], rd_key[(4 * rounds) + j])]
    /\ aes_last' = [plain |-> given, cipher |-> Bytes(aes_words'), key |-> key]
    /\ aes_phase' = "idle"
    /\ UNCHANGED <<rounds, rd_key, role, aes_round, key, given, opened, aes_nblocks>>

DecryptLast ==
    /\ aes_phase = "decrypting" /\ aes_round >= rounds
    /\ aes_words' = [j \in 0 .. 3 |->
              XorWords([r \in 1 .. 4 |-> d4[Unshifted(j, r - 1)]], rd_key[(4 * rounds) + j])]
    /\ opened' = [plain |-> Bytes(aes_words'), cipher |-> given, key |-> key]
    /\ aes_phase' = "idle"
    /\ UNCHANGED <<rounds, rd_key, role, aes_round, key, given, aes_last, aes_nblocks>>

AesNext ==
    \/ \E k \in AesKeys : SetEncryptKey(k) \/ SetDecryptKey(k)
    \/ \E block \in AesBlocks : AesBeginEncrypt(block) \/ AesBeginDecrypt(block)
    \/ aes_last.cipher # <<>> /\ AesBeginDecrypt(aes_last.cipher)
    \/ EncryptRound \/ EncryptLast \/ DecryptRound \/ DecryptLast

AesSpec == AesInit /\ [][AesNext]_aes_vars

-----------------------------------------------------------------------------
(* What FIPS 197 says of the cipher and of its inverse, on a state of four  *)
(* rows and columns of bytes: byte (r, c) of the state is s[r + 4c + 1].    *)

(* The inverse of a byte is its power of 254; that of 0 is 0.               *)
Square(b) == Times(b, b)
InverseOf(b) ==
    LET square[i \in 0 .. 7] == IF i = 0 THEN b ELSE Square(square[i - 1])
        product[i \in 0 .. 7] == IF i = 0 THEN 1 ELSE Times(square[i], product[i - 1])
    IN product[7]
Turned(b, n) == ((b * (2 ^ n)) % 256) + ((b * (2 ^ n)) \div 256)
SBox == [b \in Byte |->
           LET v == InverseOf(b)
           IN XorByte(Xor4(v, Turned(v, 1), Turned(v, 2), Turned(v, 3)), XorByte(Turned(v, 4), 99))]

(* The S-box as it is written out is the one that is defined.               *)
ASSUME SubBytesAssumption == SBox = e4

ByteAt(s, r, c) == s[(r % 4) + (4 * (c % 4)) + 1]
State(F(_, _)) ==
    <<F(0, 0), F(1, 0), F(2, 0), F(3, 0), F(0, 1), F(1, 1), F(2, 1), F(3, 1),
      F(0, 2), F(1, 2), F(2, 2), F(3, 2), F(0, 3), F(1, 3), F(2, 3), F(3, 3)>>

SubShift(s) == State(LAMBDA r, c : SBox[ByteAt(s, r, c + r)])
MixColumns(s) ==
    State(LAMBDA r, c : Xor4(Times(2, ByteAt(s, r, c)), Times(3, ByteAt(s, r + 1, c)),
                             ByteAt(s, r + 2, c), ByteAt(s, r + 3, c)))
AddRoundKey(s, rk, i) == State(LAMBDA r, c : XorByte(ByteAt(s, r, c), rk[(4 * i) + c][r + 1]))

(* Round i of n, and the states of a block from the first round to the last. *)
RoundResult(s, rk, n, i) ==
    AddRoundKey(IF i < n THEN MixColumns(SubShift(s)) ELSE SubShift(s), rk, i)
States(plain, k) ==
    LET n == RoundsOf(8 * Len(k))
        passed[i \in 0 .. n] ==    \* with i rounds made
            IF i = 0 THEN <<AddRoundKey(plain, Expanded(k), 0)>>
            ELSE LET states == passed[i - 1]
                 IN Append(states, RoundResult(states[Len(states)], Expanded(k), n, i))
    IN passed[n]
Cipher(plain, k) == States(plain, k)[RoundsOf(8 * Len(k)) + 1]

(* Every block that aes_encrypt writes is the one that FIPS 197 defines for  *)
(* its key, whatever keys the schedule held before: the tables, the order   *)
(* in which the rounds read the words, and the rounds that are skipped for  *)
(* shorter keys.  (The expansion of the key is taken from the code here;    *)
(* the unit tests' answers check it.)                                       *)
AesAsSpecified ==
    (aes_phase = "idle" /\ given = aes_last.plain /\ given # <<>>)
    => aes_last.cipher = Cipher(aes_last.plain, aes_last.key)

(* aes_decrypt with the schedule of aes_set_decrypt_key undoes aes_encrypt  *)
(* with the one of aes_set_encrypt_key.                                     *)
AesRoundTrip == opened.cipher = aes_last.cipher /\ opened.key = aes_last.key => opened.plain = aes_last.plain
=============================================================================
