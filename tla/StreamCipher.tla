----------------------------- MODULE StreamCipher -----------------------------
(***************************************************************************)
(* The stream cipher handle of src/streamcipher/streamcipher.c: a block    *)
(* cipher in a mode that produces a keystream, with a buffer for the block *)
(* that a call leaves unfinished, or ARC4 (src/streamcipher/arc4.c).       *)
(*                                                                         *)
(* A byte of output is the pair of the input byte and the keystream byte   *)
(* it was made from.  An input byte is named by its position in the stream *)
(* as the caller passed it, 0 where the caller passed no input; a byte of  *)
(* a block cipher's keystream by its key, its nonce and its position, so   *)
(* the IV of the block cipher is the number of blocks since it was set.    *)
(***************************************************************************)
EXTENDS Integers, Sequences

CONSTANTS
  BlockSize,         \* bytes of a block of the block cipher
  Size,              \* 256: entries of ARC4's permutation, values of a byte
  WordBytes,         \* 8: bytes of a word that xorb_64 takes at a time
  Xor(_, _),         \* of two bytes
  Nonces, Keys,      \* the strings of bytes that the caller sets
  None,              \* no nonce was set yet, or no key is passed
  MaxBytes           \* bound: bytes between two settings of a nonce

ASSUME StreamCipherAssumption ==
  /\ BlockSize \in Nat \ {0} /\ Size \in Nat \ {0} /\ WordBytes \in Nat \ {0}
  /\ \A x, y \in 0..(Size - 1) : Xor(x, y) \in 0..(Size - 1)
  /\ Nonces \subseteq Seq(0..(Size - 1)) /\ Keys \subseteq Seq(0..(Size - 1))
  /\ \A v \in Nonces : v # <<>>          \* k_sc_init refuses nonces without bits
  /\ None \notin Nonces \union Keys
  /\ MaxBytes \in Nat

VARIABLES
  kind,               \* "block" or "arc4", "none" without a handle
  key, nonce,         \* what set_key was last given
  iv, backup,         \* of the block cipher: worker_ivs[0] and iv_backup
  partialBlock,       \* c->partial_block
  partialBytes,       \* c->partial_bytes
  partialRemaining,   \* c->partial_remaining
  havePartial,        \* c->have_partial_block
  ctx,                \* c->ctx: m, x and y of ARC4
  passed, out         \* history: what the caller passed and got since set_key

blockVars == <<iv, backup, partialBlock, partialBytes, partialRemaining, havePartial>>
vars == <<kind, key, nonce, blockVars, ctx, passed, out>>

Offsets   == 0..(BlockSize - 1)
ZeroBlock == [j \in Offsets |-> 0]
NoContext == [m |-> [j \in 0..(Size - 1) |-> 0], x |-> 0, y |-> 0]

Least(a, b) == IF a <= b THEN a ELSE b

-----------------------------------------------------------------------------
(* ARC4 *)

\* swap8; the wrong one forgets what it overwrites.
SwappedNoTemp(m, i, j) == [m EXCEPT ![i] = m[j]]

Swapped(m, i, j) == [m EXCEPT ![i] = m[j], ![j] = m[i]]

\* arc4_init: the key is read cyclically, a byte for each of the Size swaps.
Scheduled(k) ==
  LET swaps[i \in 0..Size] ==
        IF i = 0 THEN [m |-> [j \in 0..(Size - 1) |-> j], b |-> 0]
        ELSE LET p == swaps[i - 1]
                 b == (k[((i - 1) % Len(k)) + 1] + p.m[i - 1] + p.b) % Size
             IN  [m |-> Swapped(p.m, i - 1, b), b |-> b]
  IN  [m |-> swaps[Size].m, x |-> 0, y |-> 0]

\* The body of arc4_update's loop, and the keystream byte it produces.  The
\* wrong one swaps nothing.
SteppedNoSwap(c) ==
  LET x == (c.x + 1) % Size
  IN  [m |-> c.m, x |-> x, y |-> (c.m[x] + c.y) % Size]

Stepped(c) ==
  LET x == (c.x + 1) % Size
      y == (c.m[x] + c.y) % Size
  IN  [m |-> Swapped(c.m, x, y), x |-> x, y |-> y]

Produced(c) == c.m[(c.m[c.x] + c.m[c.y]) % Size]

\* The contexts of a call that produces n bytes.
Contexts(c, n) ==
  LET f[k \in 0..n] == IF k = 0 THEN c ELSE Stepped(f[k - 1]) IN f

\* The nonce with the key mixed in.  xorb_64 takes words, and what is left
\* over from the beginning again.
Mixed(v, k) ==
  LET words == (Len(k) \div WordBytes) * WordBytes
      once  == [j \in 1..Len(v) |-> IF j <= words THEN Xor(v[j], k[j]) ELSE v[j]]
  IN  [j \in 1..Len(v) |-> IF j <= Len(k) % WordBytes THEN Xor(once[j], k[j]) ELSE once[j]]

-----------------------------------------------------------------------------
(* Handles *)

Init ==
  /\ kind = "none" /\ key = None /\ nonce = None
  /\ iv = 0 /\ backup = 0 /\ partialBlock = ZeroBlock
  /\ partialBytes = 0 /\ partialRemaining = 0 /\ havePartial = FALSE
  /\ ctx = NoContext
  /\ passed = <<>> /\ out = <<>>

\* k_sc_init_with_blockcipher, with a mode that produces a keystream; the modes
\* that do not are refused.
InitWithBlockcipher ==
  /\ kind = "none"
  /\ kind' = "block"
  /\ UNCHANGED <<key, nonce, blockVars, ctx, passed, out>>

\* k_sc_init of ARC4.
InitArc4 ==
  /\ kind = "none"
  /\ kind' = "arc4"
  /\ UNCHANGED <<key, nonce, blockVars, ctx, passed, out>>

\* k_sc_finish; the next handle is allocated anew, with zeros.
Finish ==
  /\ kind # "none"
  /\ kind' = "none" /\ key' = None /\ nonce' = None
  /\ iv' = 0 /\ backup' = 0 /\ partialBlock' = ZeroBlock
  /\ partialBytes' = 0 /\ partialRemaining' = 0 /\ havePartial' = FALSE
  /\ ctx' = NoContext
  /\ passed' = <<>> /\ out' = <<>>

\* k_sc_set_key of a block cipher: without a key the nonce alone is set.  A key
\* the cipher refuses leaves everything as it was.
SetBlockKey(k, v) ==
  /\ kind = "block"
  /\ k # None \/ key # None
  /\ key' = IF k = None THEN key ELSE k
  /\ nonce' = v /\ iv' = 0
  /\ havePartial' = FALSE
  /\ passed' = <<>> /\ out' = <<>>
  /\ UNCHANGED <<kind, backup, partialBlock, partialBytes, partialRemaining, ctx>>

\* k_sc_set_key of ARC4: without a key the nonce is the key.  A key longer than
\* the nonce is refused.
SetArc4Key(k, v) ==
  /\ kind = "arc4"
  /\ k # None => Len(k) <= Len(v)
  /\ key' = k /\ nonce' = v
  /\ ctx' = Scheduled(IF k = None THEN v ELSE Mixed(v, k))
  /\ passed' = <<>> /\ out' = <<>>
  /\ UNCHANGED <<kind, blockVars>>

-----------------------------------------------------------------------------
(* k_sc_update *)

\* The n bytes the caller passes next: their names, or 0 where it passes none.
Passing(n, null) == [j \in 1..n |-> IF null THEN 0 ELSE Len(passed) + j]

\* The byte of keystream at offset j of the b-th block.
KeystreamByte(b, j) == [key |-> key, nonce |-> nonce, at |-> b * BlockSize + j + 1]

\* What the unfinished block takes of a call of n bytes.
Taken(n) == IF havePartial THEN Least(n, partialRemaining) ELSE 0

\* The input joins what the block already has.
Joined(n, null) ==
  IF null \/ ~havePartial THEN partialBlock
  ELSE [j \in Offsets |->
         IF j \in partialBytes..(partialBytes + Taken(n) - 1)
         THEN Len(passed) + (j - partialBytes) + 1 ELSE partialBlock[j]]

\* The IV moves on once the block is complete, and else is restored; the wrong
\* one is not.
CompletesAlways(n) == havePartial

BlockCompletes(n) == havePartial /\ Taken(n) = partialRemaining

IvAfterPartial(n) == iv + IF BlockCompletes(n) THEN 1 ELSE 0

\* The last bytes begin a block of their own, in a buffer of zeros.
BegunBlock(n, null) ==
  LET rem == (n - Taken(n)) % BlockSize
  IN  [j \in Offsets |-> IF null \/ j >= rem THEN 0 ELSE Len(passed) + (n - rem) + j + 1]

\* The output: bytes of the block that was unfinished, of whole blocks, of the
\* block that is begun.
Output(n, null) ==
  LET b      == Taken(n)
      blocks == (n - b) \div BlockSize
  IN  [k \in 1..n |->
        IF k <= b
        THEN [in |-> IF null THEN 0 ELSE Joined(n, null)[partialBytes + k - 1],
              ks |-> KeystreamByte(iv, partialBytes + k - 1)]
        ELSE IF k <= b + blocks * BlockSize
        THEN [in |-> IF null THEN 0 ELSE Len(passed) + k,
              ks |-> KeystreamByte(IvAfterPartial(n), k - b - 1)]
        ELSE [in |-> IF null THEN 0 ELSE BegunBlock(n, null)[k - b - blocks * BlockSize - 1],
              ks |-> KeystreamByte(IvAfterPartial(n) + blocks, k - b - blocks * BlockSize - 1)]]

\* A call of n bytes, with input or, as k_sc_keystream makes it, without.
UpdateBlock(n, null) ==
  LET b   == Taken(n)
      rem == (n - b) % BlockSize
      now == IvAfterPartial(n) + (n - b) \div BlockSize
  IN  /\ kind = "block" /\ key # None
      /\ Len(passed) + n <= MaxBytes
      /\ iv' = now
      /\ backup' = IF rem > 0 THEN now
                   ELSE IF havePartial /\ ~BlockCompletes(n) THEN iv ELSE backup
      /\ IF rem > 0
         THEN /\ partialBlock' = BegunBlock(n, null)
              /\ partialBytes' = rem /\ partialRemaining' = BlockSize - rem
              /\ havePartial' = TRUE
         ELSE /\ partialBlock' = Joined(n, null)
              /\ partialRemaining' = partialRemaining - b
              /\ partialBytes' = IF BlockCompletes(n) THEN 0 ELSE partialBytes + b
              /\ havePartial' = (havePartial /\ ~BlockCompletes(n))
      /\ out' = out \o Output(n, null)
      /\ passed' = passed \o Passing(n, null)
      /\ UNCHANGED <<kind, key, nonce, ctx>>

UpdateArc4(n, null) ==
  LET c == Contexts(ctx, n)
  IN  /\ kind = "arc4" /\ nonce # None
      /\ Len(passed) + n <= MaxBytes
      /\ ctx' = c[n]
      /\ out' = out \o [k \in 1..n |-> [in |-> Passing(n, null)[k], ks |-> Produced(c[k])]]
      /\ passed' = passed \o Passing(n, null)
      /\ UNCHANGED <<kind, key, nonce, blockVars>>

SetKey == \E k \in Keys \union {None}, v \in Nonces : SetBlockKey(k, v) \/ SetArc4Key(k, v)
Update == \E n \in 0..MaxBytes, null \in BOOLEAN : UpdateBlock(n, null) \/ UpdateArc4(n, null)

Next == InitWithBlockcipher \/ InitArc4 \/ Finish \/ SetKey \/ Update
Spec == Init /\ [][Next]_vars

-----------------------------------------------------------------------------
(* Properties *)

Permutations(S) == {m \in [S -> S] : \A i, j \in S : m[i] = m[j] => i = j}

\* Types, what the buffer's counters say of each other, and that ARC4's table
\* stays a permutation.
TypeOK ==
  /\ kind \in {"none", "block", "arc4"}
  /\ key \in Keys \union {None} /\ nonce \in Nonces \union {None}
  /\ iv \in Nat /\ backup \in Nat
  /\ partialBlock \in [Offsets -> Nat]
  /\ partialBytes \in Offsets /\ partialRemaining \in Offsets
  /\ havePartial \in BOOLEAN
  /\ havePartial => partialBytes > 0 /\ partialRemaining = BlockSize - partialBytes
  /\ kind = "arc4" /\ nonce # None =>
       /\ ctx.m \in Permutations(0..(Size - 1))
       /\ ctx.x \in 0..(Size - 1) /\ ctx.y \in 0..(Size - 1)
  /\ passed \in Seq(Nat) /\ Len(out) = Len(passed)

\* However a stream is cut into calls, with or without input, the k-th byte out
\* is the k-th byte in with the k-th byte of the keystream of the key and the
\* nonce: no byte of keystream is left out or used twice.  The container and
\* its readers cut the same stream differently (pres.c:186, :1209).
BlockStream ==
  kind = "block" =>
    \A k \in 1..Len(out) :
      out[k] = [in |-> passed[k], ks |-> [key |-> key, nonce |-> nonce, at |-> k]]

\* ARC4 by its definition, as transpositions of a permutation, with the bytes of
\* the key added to those of the nonce they stand below.
Transposed(s, i, j) ==
  [a \in DOMAIN s |-> s[IF a = i THEN j ELSE IF a = j THEN i ELSE a]]

Rc4Schedule(k) ==
  LET f[i \in 0..Size] ==
        IF i = 0 THEN <<[a \in 0..(Size - 1) |-> a], 0>>
        ELSE LET s == f[i - 1][1]
                 j == (f[i - 1][2] + s[i - 1] + k[((i - 1) % Len(k)) + 1]) % Size
             IN  <<Transposed(s, i - 1, j), j>>
  IN  f[Size][1]

Rc4Keystream(k, n) ==
  LET f[i \in 0..n] ==
        IF i = 0 THEN <<Rc4Schedule(k), 0, 0>>
        ELSE LET s == f[i - 1][1]
                 j == (f[i - 1][2] + s[i % Size]) % Size
                 t == Transposed(s, i % Size, j)
             IN  <<t, j, t[(t[i % Size] + t[j]) % Size]>>
  IN  [i \in 1..n |-> f[i][3]]

Rc4Key == [j \in 1..Len(nonce) |->
            IF key # None /\ j <= Len(key) THEN Xor(nonce[j], key[j]) ELSE nonce[j]]

\* A key shorter than a word, or of whole words.  Of another one xorb_64 mixes
\* the last bytes into the first of the nonce once more (xor.h:44-53).
Even(k) == Len(k) < WordBytes \/ Len(k) % WordBytes = 0

\* However the stream is cut, its bytes are those of ARC4 under the nonce, alone
\* or with every byte of an even key added.  It does not hold for the other keys,
\* which the cipher also takes: it names sizes of 40 to 2048 bits (arc4.c:116), and
\* words are of 64.
Arc4Stream ==
  kind = "arc4" /\ nonce # None /\ (key # None => Even(key)) =>
    LET z == Rc4Keystream(Rc4Key, Len(out))
    IN  \A k \in 1..Len(out) : out[k] = [in |-> passed[k], ks |-> z[k]]

=============================================================================
