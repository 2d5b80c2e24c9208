----------------------------- MODULE Threefish -----------------------------
(****************************************************************************)
(* The ciphers of the Threefish family (threefish256.c, threefish512.c,     *)
(* threefish1024.c): a key schedule, and blocks that are encrypted and      *)
(* decrypted through it.  One step of the model is one m() or u() of the    *)
(* code, a mix of two words; the arithmetic of uint64_t is a parameter, and *)
(* the tables of the three files are in ThreefishTables.                    *)
(****************************************************************************)
EXTENDS Integers, Sequences, ThreefishTables

CONSTANTS
    Word,           \* the values of a uint64_t
    Zero, Parity,   \* 0 and tf_parity
    Number(_),      \* a number as a word
    Plus(_, _), Minus(_, _), Xor(_, _), Rotl(_, _), Rotr(_, _),
    Ciphers,        \* which of the three: a subset of {256, 512, 1024}
    Keys(_),        \* the keys of a cipher, functions 0 .. n-1 -> Word
    Tweaks,         \* pairs of words
    Blocks(_),      \* the blocks it is given
    MaxBlocks       \* bound: blocks processed by one schedule

VARIABLES
    cipher,
    k, t,           \* struct tfN_key_schedule_t
    keyed,          \* whether a key was set
    o,              \* the local words o0, o1, ...
    phase,          \* "idle", "mixing" or "unmixing"
    call, round, mix,   \* the m() or u() to execute next
    trail,          \* ghost: the words before each round
    last,           \* ghost: the last block encrypted, as [plain, cipher, k, t]
    source,         \* ghost: the block being processed
    nblocks

vars == <<cipher, k, t, keyed, o, phase, call, round, mix, trail, last, source, nblocks>>

Size(c) == c \div 64

(* What a handle passes to the cipher: keys, tweaks and blocks of words.    *)
InputsFit ==
    /\ Ciphers \subseteq {256, 512, 1024}
    /\ \A c \in Ciphers : Keys(c) \union Blocks(c) \subseteq [0 .. (Size(c) - 1) -> Word]
    /\ Tweaks \subseteq Word \X Word
    /\ MaxBlocks \in Nat

(* What the arithmetic of uint64_t does with the words of a set: Minus,     *)
(* Xor and Rotr undo Plus, Xor and Rotl.                                    *)
WordLaws(W) ==
    /\ {Zero, Parity} \union {Number(n) : n \in 0 .. 20} \subseteq Word
    /\ \A a, b \in W :
          /\ {Plus(a, b), Minus(a, b), Xor(a, b)} \subseteq Word
          /\ Minus(Plus(a, b), b) = a /\ Xor(Xor(a, b), b) = a
    /\ \A a \in W, r \in 0 .. 63 :
          {Rotl(a, r), Rotr(a, r)} \subseteq Word /\ Rotr(Rotl(a, r), r) = a

(* Sums and exclusive ors do not depend on the order of their terms, and    *)
(* Zero adds nothing.                                                       *)
OrderLaws(W) ==
    /\ \A a, b \in W : Plus(a, b) = Plus(b, a) /\ Xor(a, b) = Xor(b, a)
    /\ \A a, b, c \in W :
          /\ Plus(a, Plus(b, c)) = Plus(Plus(a, b), c)
          /\ Xor(a, Xor(b, c)) = Xor(Xor(a, b), c)
    /\ \A a \in W : Plus(a, Zero) = a /\ Xor(a, Zero) = a

ASSUME ThreefishAssumption == InputsFit

Mixes == CASE cipher = 256 -> Mixes256 [] cipher = 512 -> Mixes512 [] OTHER -> Mixes1024
Unmixes == CASE cipher = 256 -> Unmixes256 [] cipher = 512 -> Unmixes512 [] OTHER -> Unmixes1024
Calls == CASE cipher = 256 -> Calls256 [] cipher = 512 -> Calls512 [] OTHER -> Calls1024
Uncalls == CASE cipher = 256 -> Uncalls256 [] cipher = 512 -> Uncalls512 [] OTHER -> Uncalls1024

(* The arguments of the last addition, written out at the end of encrypt.   *)
Last256 == <<3, 4, 0, 0, 1, 1, 18>>
Last512 == <<0, 1, 2, 3, 4, 5, 0, 6, 1, 7, 18>>
Last1024 == <<3, 4, 5, 6, 7, 8, 9, 10, 11, 12, 13, 14, 15, 16, 2, 0, 0, 1, 20>>
LastArgs == CASE cipher = 256 -> Last256 [] cipher = 512 -> Last512 [] OTHER -> Last1024

(* What a call with arguments p adds to word w: words of the key, the tweak *)
(* on two words and the number of the call on the last one.                 *)
Injected(p, w) ==
    LET n == Size(cipher) IN
    CASE w < n - 3 -> k[p[w + 1]]
      [] w = n - 3 -> Plus(k[p[n - 2]], t[p[n - 1]])
      [] w = n - 2 -> Plus(k[p[n]], t[p[n + 1]])
      [] OTHER     -> Plus(k[p[n + 2]], Number(p[n + 3]))

(* Mutant: the second word meets the first one as it was. *)
MixedTooEarly(words, m, k0, k1) ==
    LET second == Plus(words[m[2]], k1)
    IN [words EXCEPT ![m[1]] = Plus(words[m[1]], Plus(second, k0)),
                     ![m[2]] = Xor(Rotl(second, m[3]), words[m[1]])]

(* #define m(w1,w2,r,k0,k1) *)
Mixed(words, m, k0, k1) ==
    LET second == Plus(words[m[2]], k1)
        first == Plus(words[m[1]], Plus(second, k0))
    IN [words EXCEPT ![m[1]] = first, ![m[2]] = Xor(Rotl(second, m[3]), first)]

(* #define u(w1,w2,r,k0,k1) *)
Unmixed(words, m, k0, k1) ==
    LET second == Rotr(Xor(words[m[2]], words[m[1]]), m[3])
        first == Minus(words[m[1]], Plus(second, k0))
    IN [words EXCEPT ![m[1]] = first, ![m[2]] = Minus(second, k1)]

-----------------------------------------------------------------------------

Init ==
    /\ cipher \in Ciphers
    /\ k = [i \in 0 .. Size(cipher) |-> Zero]
    /\ t = [i \in 0 .. 2 |-> Zero]
    /\ keyed = FALSE
    /\ o = [i \in 0 .. (Size(cipher) - 1) |-> Zero]
    /\ phase = "idle"
    /\ call = 1 /\ round = 1 /\ mix = 1
    /\ trail = <<>>
    /\ last = [plain |-> o, cipher |-> o, k |-> <<>>, t |-> <<>>]
    /\ source = o
    /\ nblocks = 0

(* Mutant: the key words alone, without tf_parity. *)
ParityOfKeyOnly(key) ==
    LET sum[i \in 0 .. (Size(cipher) - 1)] ==
            IF i = 0 THEN key[0] ELSE Xor(sum[i - 1], key[i])
    IN sum[Size(cipher) - 1]

(* The word of the key schedule that follows those of the key.              *)
ParityWord(key) ==
    LET sum[i \in 0 .. (Size(cipher) - 1)] ==
            Xor(IF i = 0 THEN Parity ELSE sum[i - 1], key[i])
    IN sum[Size(cipher) - 1]

SetKey ==
    /\ phase = "idle" /\ nblocks < MaxBlocks
    /\ \E key \in Keys(cipher) :
          k' = [i \in 0 .. Size(cipher) |->
                   IF i = Size(cipher) THEN ParityWord(key) ELSE key[i]]
    /\ keyed' = TRUE
    /\ UNCHANGED <<cipher, t, o, phase, call, round, mix, trail, last, source, nblocks>>

SetTweak ==
    /\ phase = "idle" /\ nblocks < MaxBlocks
    /\ \E tweak \in Tweaks :
          t' = [i \in 0 .. 2 |-> IF i = 2 THEN Xor(tweak[1], tweak[2]) ELSE tweak[i + 1]]
    /\ UNCHANGED <<cipher, k, keyed, o, phase, call, round, mix, trail, last, source, nblocks>>

Begin(block) ==
    /\ phase = "idle" /\ keyed /\ nblocks < MaxBlocks
    /\ nblocks' = nblocks + 1
    /\ call' = 1 /\ round' = 1 /\ mix' = 1
    /\ source' = block
    /\ UNCHANGED <<cipher, k, t, keyed, last>>

BeginEncrypt(block) ==
    /\ Begin(block)
    /\ phase' = "mixing"
    /\ o' = block
    /\ trail' = <<block>>

(* tfN_decrypt takes the last addition off while it loads the words.        *)
BeginDecrypt(block) ==
    /\ Begin(block)
    /\ phase' = "unmixing"
    /\ o' = [i \in 0 .. (Size(cipher) - 1) |-> Minus(block[i], Injected(LastArgs, i))]
    /\ trail' = trail

(* The next m() or u(): of the round, of the macro, of the list of calls.   *)
Advance(table) ==
    IF mix < Len(table[round])
    THEN mix' = mix + 1 /\ UNCHANGED <<round, call>>
    ELSE /\ mix' = 1
         /\ IF round < Len(table) THEN round' = round + 1 /\ UNCHANGED call
                                  ELSE round' = 1 /\ call' = call + 1

Macro == IF call % 2 = 1 THEN 1 ELSE 2
UnmacroFromFirst == Macro   \* mutant: the decryption begins with u1
Unmacro == IF call % 2 = 1 THEN 2 ELSE 1

(* The subkey is added in the first round of m1 and m2, and taken off in the *)
(* last one of u1 and u2.                                                    *)
Encrypt ==
    /\ phase = "mixing" /\ call <= Len(Calls)
    /\ LET m == Mixes[Macro][round][mix]
           Added(w) == IF round = 1 THEN Injected(Calls[call], w) ELSE Zero
       IN o' = Mixed(o, m, Added(m[1]), Added(m[2]))
    /\ Advance(Mixes[Macro])
    /\ trail' = IF mix' = 1 THEN Append(trail, o') ELSE trail
    /\ UNCHANGED <<cipher, k, t, keyed, phase, last, source, nblocks>>

Decrypt ==
    /\ phase = "unmixing" /\ call <= Len(Uncalls)
    /\ LET m == Unmixes[Unmacro][round][mix]
           Taken(w) == IF round = Len(Unmixes[Unmacro]) THEN Injected(Uncalls[call], w) ELSE Zero
       IN o' = Unmixed(o, m, Taken(m[1]), Taken(m[2]))
    /\ Advance(Unmixes[Unmacro])
    /\ UNCHANGED <<cipher, k, t, keyed, phase, trail, last, source, nblocks>>

(* The last addition, as the words are stored.                              *)
EndEncrypt ==
    /\ phase = "mixing" /\ call > Len(Calls)
    /\ o' = [i \in 0 .. (Size(cipher) - 1) |-> Plus(o[i], Injected(LastArgs, i))]
    /\ phase' = "idle"
    /\ last' = [plain |-> source, cipher |-> o', k |-> k, t |-> t]
    /\ UNCHANGED <<cipher, k, t, keyed, call, round, mix, trail, source, nblocks>>

EndDecrypt ==
    /\ phase = "unmixing" /\ call > Len(Uncalls)
    /\ phase' = "idle"
    /\ UNCHANGED <<cipher, k, t, keyed, o, call, round, mix, trail, last, source, nblocks>>

Next ==
    \/ SetKey \/ SetTweak
    \/ \E block \in Blocks(cipher) : BeginEncrypt(block) \/ BeginDecrypt(block)
    \/ trail # <<>> /\ BeginDecrypt(last.cipher)
    \/ Encrypt \/ Decrypt \/ EndEncrypt \/ EndDecrypt

Spec == Init /\ [][Next]_vars

-----------------------------------------------------------------------------
(* What the Skein paper, version 1.3, says of Threefish (section 3.3): the  *)
(* reference for the three files, which rename words where the paper moves  *)
(* them and write out every subkey.                                         *)

Rotations256 ==
    <<<<14, 16>>, <<52, 57>>, <<23, 40>>, <<5, 37>>, <<25, 33>>, <<46, 12>>, <<58, 22>>, <<32, 32>>>>
Rotations512 ==
    <<<<46, 36, 19, 37>>, <<33, 27, 14, 42>>, <<17, 49, 36, 39>>, <<44, 9, 54, 56>>,
      <<39, 30, 34, 24>>, <<13, 50, 10, 17>>, <<25, 29, 39, 43>>, <<8, 35, 56, 22>>>>
Rotations1024 ==
    <<<<24, 13, 8, 47, 8, 17, 22, 37>>, <<38, 19, 10, 55, 49, 18, 23, 52>>,
      <<33, 4, 51, 13, 34, 41, 59, 17>>, <<5, 20, 48, 41, 47, 28, 16, 25>>,
      <<41, 9, 37, 31, 12, 47, 44, 30>>, <<16, 34, 56, 51, 4, 53, 42, 41>>,
      <<31, 44, 47, 46, 19, 42, 44, 25>>, <<9, 48, 35, 52, 23, 31, 37, 20>>>>
Permutation256 == <<0, 3, 2, 1>>
Permutation512 == <<2, 1, 4, 7, 6, 5, 0, 3>>
Permutation1024 == <<0, 9, 2, 13, 6, 11, 4, 15, 10, 7, 12, 3, 14, 5, 8, 1>>

Rotations == CASE cipher = 256 -> Rotations256 [] cipher = 512 -> Rotations512
               [] OTHER -> Rotations1024
Permutation == CASE cipher = 256 -> Permutation256 [] cipher = 512 -> Permutation512
                 [] OTHER -> Permutation1024
Rounds == IF cipher = 1024 THEN 80 ELSE 72

Subkey(key, tweak, s) ==
    LET n == Size(cipher)
        all[i \in 0 .. n] == IF i = n THEN Parity ELSE Xor(key[i], all[i + 1])
        base(i) == IF (s + i) % (n + 1) = n THEN all[0] ELSE key[(s + i) % (n + 1)]
        Tweak(i) == IF i % 3 = 2 THEN Xor(tweak[1], tweak[0]) ELSE tweak[i % 3]
    IN [i \in 0 .. (n - 1) |->
          CASE i = n - 3 -> Plus(base(i), Tweak(s))
            [] i = n - 2 -> Plus(base(i), Tweak(s + 1))
            [] i = n - 1 -> Plus(base(i), Number(s))
            [] OTHER     -> base(i)]

AddWords(v, w) == [i \in DOMAIN v |-> Plus(v[i], w[i])]

MixRound(v, d) ==
    LET Sum(j) == Plus(v[2 * j], v[(2 * j) + 1])
        mixed == [i \in DOMAIN v |->
                    IF i % 2 = 0 THEN Sum(i \div 2)
                    ELSE Xor(Rotl(v[i], Rotations[(d % 8) + 1][(i \div 2) + 1]), Sum(i \div 2))]
    IN [i \in DOMAIN v |-> mixed[Permutation[i + 1]]]

Reference(plain, key, tweak) ==
    LET v[d \in 0 .. Rounds] ==
            IF d = 0 THEN plain
            ELSE MixRound(IF (d - 1) % 4 = 0
                          THEN AddWords(v[d - 1], Subkey(key, tweak, (d - 1) \div 4))
                          ELSE v[d - 1], d - 1)
    IN AddWords(v[Rounds], Subkey(key, tweak, Rounds \div 4))

-----------------------------------------------------------------------------

(* Every block that tfN_encrypt writes is the one the paper defines: the    *)
(* tables of subkeys, the renaming of words from round to round and the     *)
(* parity word together.                                                    *)
AsSpecified ==
    (phase = "idle" /\ trail # <<>> /\ source = last.plain)
    => last.cipher = Reference(last.plain, last.k, last.t)

(* tfN_decrypt gives back the block that tfN_encrypt was given when key and *)
(* tweak are the same.                                                      *)
RoundTrip ==
    (/\ phase = "unmixing" /\ call > Len(Uncalls)
     /\ source = last.cipher /\ k = last.k /\ t = last.t)
    => o = last.plain
=============================================================================
