--------------------------------- MODULE Hash ---------------------------------
(***************************************************************************)
(* The hash handle of src/hash/hash.c over Skein (src/hash/skein) and SHA1 *)
(* (src/hash/sha1), and the key derivation of src/kderive/simple.c that    *)
(* iterates it.                                                            *)
(*                                                                         *)
(* A compression is a step without structure: the state of a hash is the   *)
(* chain of what was compressed into it, with the position and the flags   *)
(* of Skein's tweak.  A byte is a tuple, so that all are comparable: <<k>> *)
(* of the caller, <<j, chain>> of a digest, and the ones below.            *)
(***************************************************************************)
EXTENDS Integers, Sequences

CONSTANTS
  Bytes256, Bytes512, Bytes1024,  \* state_bytes of the three Skeins
  Sha1Bytes, LengthBytes,         \* 64 and 8: SHA1's block, its length field
  Sha1DigestBytes,                \* 20
  LowCount,                       \* 2^29: bytes that count[0] can count
  OutputBits,                     \* sizes of digest that callers ask for
  Passes, Salts, MaxRounds,       \* bounds: what keys are derived from
  MaxBytes, MaxCall               \* bounds: bytes of a message, of a call

ASSUME HashAssumption ==
  /\ {Bytes256, Bytes512, Bytes1024, Sha1Bytes, LowCount} \subseteq Nat \ {0}
  /\ LengthBytes \in 1..(Sha1Bytes - 1) /\ Sha1DigestBytes \in Nat
  /\ LowCount % Sha1Bytes = 0
  /\ OutputBits \subseteq Nat /\ MaxBytes \in Nat /\ MaxCall \in Nat
  /\ MaxRounds \in Nat

Skein256  == [alg |-> "skein", bytes |-> Bytes256]
Skein512  == [alg |-> "skein", bytes |-> Bytes512]
Skein1024 == [alg |-> "skein", bytes |-> Bytes1024]
Sha1      == [alg |-> "sha1",  bytes |-> Sha1Bytes]
None      == [alg |-> "none",  bytes |-> 0]

Zero == <<0>>
Pad  == <<-1>>      \* 0x80
Junk == <<-2>>      \* what the message schedule leaves in SHA1's buffer
LengthByte(hi, lo, i) == <<hi, lo, i>>

VARIABLES
  hash, bits,       \* c->hash, c->output_bits
  ctx,              \* c->context
  phase,            \* "idle", "open" after reset, "final" after final,
                    \* "simple" or "derived" after a key derivation
  message,          \* history: the bytes since reset
  digest,           \* the last output
  rounds            \* history: how often a derived key was hashed again

vars == <<hash, bits, ctx, phase, message, digest, rounds>>

-----------------------------------------------------------------------------
(* Buffers *)

\* memcpy of bytes to a buffer, behind its first n.
Overlaid(buf, n, bytes) ==
  [j \in DOMAIN buf |-> IF j \in (n + 1)..(n + Len(bytes)) THEN bytes[j - n] ELSE buf[j]]

\* n blocks of b bytes, behind the first t of m.
BlocksOf(m, t, b, n) == [i \in 1..n |-> [j \in 1..b |-> m[t + ((i - 1) * b) + j]]]

Rest(m, t) == [j \in 1..(Len(m) - t) |-> m[t + j]]

-----------------------------------------------------------------------------
(* Skein *)

\* skein_compression; the wrong one leaves FIRST set for the next call.
KeepsFirst(c) == c.first
ClearsFirst(c) == FALSE

Compressed(c, blocks, add) ==
  [c EXCEPT
    !.chain = @ \o [i \in 1..Len(blocks) |->
                     [block |-> blocks[i], pos |-> c.pos + (i * add), type |-> c.type,
                      first |-> (c.first /\ i = 1), final |-> c.final]],
    !.pos = @ + (Len(blocks) * add),
    !.first = IF Len(blocks) = 0 THEN @ ELSE ClearsFirst(c)]

\* The tweak of a new kind of block: position 0, FIRST.
Tweaked(c, type, final) == [c EXCEPT !.pos = 0, !.type = type, !.first = TRUE, !.final = final]

\* skein_init; the cipher of the last message is kept.
SkeinInit(b, n) ==
  LET c == [chain |-> <<>>, pos |-> 0, type |-> "cfg", first |-> TRUE, final |-> TRUE,
            buf |-> [j \in 1..b |-> Zero], count |-> 0]
  IN  Tweaked(Compressed(c, << <<n>> >>, 32), "msg", FALSE)

\* skein_update: a full block stays in the buffer until more comes, since it may
\* be the last.
MustCompress(c, n, b) == n + c.count > b

SkeinUpdate(c, m) ==
  LET b     == Len(c.buf)
      must  == MustCompress(c, Len(m), b)
      t     == IF must /\ c.count > 0 THEN b - c.count ELSE 0
      full  == Overlaid(c.buf, c.count, [j \in 1..t |-> m[j]])
      c1    == IF must /\ c.count > 0
               THEN [Compressed(c, <<full>>, b) EXCEPT !.buf = full, !.count = 0] ELSE c
      left  == Len(m) - t
      n     == IF must /\ left > b THEN (left - 1) \div b ELSE 0
      c2    == Compressed(c1, BlocksOf(m, t, b, n), b)
      rest  == Rest(m, t + (n * b))
  IN  [c2 EXCEPT !.buf = Overlaid(@, c2.count, rest), !.count = @ + Len(rest)]

\* skein_final: the message ends, padded with zeros, and each block of output is
\* made from the state the message left.
SkeinFinal(c) ==
  LET padded == [j \in DOMAIN c.buf |-> IF j > c.count THEN Zero ELSE c.buf[j]]
      ended  == Compressed([c EXCEPT !.final = TRUE], <<padded>>, c.count)
  IN  [ended EXCEPT !.buf = [j \in DOMAIN c.buf |-> Zero], !.count = 0]

SkeinOutput(c, n) ==
  LET b      == Len(c.buf)
      out(i) == Compressed(Tweaked(c, "out", TRUE), << <<i>> >>, 8).chain
  IN  [j \in 1..((n + 7) \div 8) |-> <<((j - 1) % b) + 1, out((j - 1) \div b)>>]

-----------------------------------------------------------------------------
(* SHA1 *)

Sha1Init(buf) == [chain |-> <<>>, low |-> 0, high |-> 0, buf |-> buf]

\* The two words of the count of bits, in bytes: the carry is taken from a
\* comparison of count[0] with the whole length.  The wrong one forgets it.
CarryNone(lo, n) == 0
Carry(lo, n)     == IF lo < n THEN 1 ELSE 0

Counted(c, n) ==
  LET lo == (c.low + n) % LowCount
  IN  [c EXCEPT !.low = lo, !.high = @ + Carry(lo, n) + (n \div LowCount)]

\* sha1_compress works in the buffer.
Sha1Compressed(c, blocks) ==
  IF blocks = <<>> THEN c
  ELSE [c EXCEPT !.chain = @ \o blocks, !.buf = [j \in 1..Sha1Bytes |-> Junk]]

Sha1Update(c, m) ==
  LET j    == c.low % Sha1Bytes
      full == j + Len(m) > Sha1Bytes - 1
      i    == IF full THEN Sha1Bytes - j ELSE 0
      n    == IF full THEN (Len(m) - i) \div Sha1Bytes ELSE 0
      head == IF full THEN <<Overlaid(c.buf, j, [k \in 1..i |-> m[k]])>> ELSE <<>>
      c1   == Sha1Compressed(Counted(c, Len(m)), head \o BlocksOf(m, i, Sha1Bytes, n))
  IN  [c1 EXCEPT !.buf = Overlaid(@, IF full THEN 0 ELSE j, Rest(m, i + (n * Sha1Bytes)))]

\* sha1_final: one byte of 0x80 and zeros, byte by byte, until the length fits.
PadUntil == Sha1Bytes - LengthBytes

Sha1Final(c) ==
  LET padded[k \in 0..Sha1Bytes] ==
        IF k = 0 THEN Sha1Update(c, <<Pad>>) ELSE Sha1Update(padded[k - 1], <<Zero>>)
      k == CHOOSE k \in 0..Sha1Bytes :
             /\ padded[k].low % Sha1Bytes = PadUntil
             /\ \A l \in 0..(k - 1) : padded[l].low % Sha1Bytes # PadUntil
  IN  Sha1Update(padded[k], [i \in 1..LengthBytes |-> LengthByte(c.high, c.low, i)])

Sha1Output(c) == [j \in 1..Sha1DigestBytes |-> <<j, c.chain>>]

-----------------------------------------------------------------------------
(* The handle *)

Init ==
  /\ hash = None /\ bits = 0 /\ ctx = <<>> /\ phase = "idle"
  /\ message = <<>> /\ digest = <<>> /\ rounds = 0

\* c->hash->init: what it keeps of the context it finds.
Reset(h, n, buf) ==
  /\ ctx' = IF h.alg = "skein" THEN SkeinInit(h.bytes, n) ELSE Sha1Init(buf)
  /\ phase' = "open" /\ message' = <<>> /\ digest' = <<>>

\* k_hash_init of an algorithm that is known, with memory.
HashInit(h, n) ==
  /\ hash = None
  /\ hash' = h /\ bits' = n /\ rounds' = 0
  /\ Reset(h, n, [j \in 1..h.bytes |-> Zero])

HashReset ==
  /\ hash # None
  /\ Reset(hash, bits, ctx.buf)
  /\ UNCHANGED <<hash, bits, rounds>>

Passing(n) == [j \in 1..n |-> <<Len(message) + j>>]

HashUpdate(n) ==
  /\ phase = "open" /\ Len(message) + n <= MaxBytes
  /\ ctx' = IF hash.alg = "skein" THEN SkeinUpdate(ctx, Passing(n))
                                  ELSE Sha1Update(ctx, Passing(n))
  /\ message' = message \o Passing(n)
  /\ UNCHANGED <<hash, bits, phase, digest, rounds>>

\* k_hash_final; the caller resets the handle before it is used again.
HashFinal ==
  /\ phase = "open"
  /\ ctx' = IF hash.alg = "skein" THEN SkeinFinal(ctx) ELSE Sha1Final(ctx)
  /\ digest' = IF hash.alg = "skein" THEN SkeinOutput(ctx', bits) ELSE Sha1Output(ctx')
  /\ phase' = "final"
  /\ UNCHANGED <<hash, bits, message, rounds>>

HashFinish ==
  /\ hash # None
  /\ hash' = None /\ bits' = 0 /\ ctx' = <<>> /\ phase' = "idle"
  /\ message' = <<>> /\ digest' = <<>> /\ rounds' = 0

-----------------------------------------------------------------------------
(* Key derivation: k_hash_reset, k_hash_update, k_hash_final in a loop *)

\* The wrong one goes on with the context of the last round.
DigestBits == Bytes1024 * 8

AgainWithoutReset(c) == c
Again(c)             == SkeinInit(Bytes1024, DigestBits)

Stretched(m, n) ==
  LET start == SkeinFinal(SkeinUpdate(SkeinInit(Bytes1024, DigestBits), m))
      f[k \in 0..n] ==
        IF k = 0 THEN start
        ELSE SkeinFinal(SkeinUpdate(Again(f[k - 1]), SkeinOutput(f[k - 1], DigestBits)))
  IN  SkeinOutput(f[n], DigestBits)

\* k_key_derive_simple1024 hashes as many bytes behind the password as a digest
\* has, whatever the size of the salt; the memory is not cleared.
SimpleInput(pass, salt) ==
  pass \o [j \in 1..Bytes1024 |-> IF j <= Len(salt) THEN salt[j] ELSE Junk]

DeriveSimple(pass, salt, n) ==
  /\ phase = "idle"
  /\ Len(salt) <= Bytes1024
  /\ phase' = "simple" /\ message' = pass \o salt /\ rounds' = n
  /\ digest' = Stretched(SimpleInput(pass, salt), n)
  /\ UNCHANGED <<hash, bits, ctx>>

\* k_key_derive_skein_1024, of a key of k bytes.
DeriveSkein(pass, salt, k, n) ==
  /\ phase = "idle"
  /\ pass # <<>> /\ salt # <<>> /\ k \in 1..Bytes1024
  /\ phase' = "derived" /\ message' = pass \o salt /\ rounds' = n
  /\ digest' = SubSeq(Stretched(pass \o salt, n), 1, k)
  /\ UNCHANGED <<hash, bits, ctx>>

Forget ==
  /\ phase \in {"simple", "derived"}
  /\ phase' = "idle" /\ message' = <<>> /\ digest' = <<>> /\ rounds' = 0
  /\ UNCHANGED <<hash, bits, ctx>>

Derive == \E pass \in Passes, salt \in Salts, n \in 0..MaxRounds :
            \/ DeriveSimple(pass, salt, n)
            \/ \E k \in 1..Bytes1024 : DeriveSkein(pass, salt, k, n)

Next == \/ \E h \in {Skein256, Skein512, Skein1024}, n \in OutputBits : HashInit(h, n)
        \/ HashInit(Sha1, Sha1DigestBytes * 8)
        \/ HashReset \/ HashFinal \/ HashFinish
        \/ \E n \in 0..MaxCall : HashUpdate(n)
        \/ Derive \/ Forget

Spec == Init /\ [][Next]_vars

-----------------------------------------------------------------------------
(* Properties *)

\* Skein by its definition: a chain of a configuration, of the blocks of the
\* message, padded with zeros, each with the position of its last byte, and of
\* the number of a block of output.
Block(m, b, i) ==
  [j \in 1..b |-> IF ((i - 1) * b) + j <= Len(m) THEN m[((i - 1) * b) + j] ELSE Zero]

Configuration(n) ==
  <<[block |-> <<n>>, pos |-> 32, type |-> "cfg", first |-> TRUE, final |-> TRUE]>>

MessageBlocks(m, b) ==
  LET n == IF m = <<>> THEN 1 ELSE (Len(m) + b - 1) \div b
  IN  [i \in 1..n |-> [block |-> Block(m, b, i), pos |-> IF i = n THEN Len(m) ELSE i * b,
                       type |-> "msg", first |-> (i = 1), final |-> (i = n)]]

OutputBlock(i) ==
  <<[block |-> <<i>>, pos |-> 8, type |-> "out", first |-> TRUE, final |-> TRUE]>>

SkeinOf(m, b, n) ==
  [j \in 1..((n + 7) \div 8) |->
    <<((j - 1) % b) + 1,
      Configuration(n) \o MessageBlocks(m, b) \o OutputBlock((j - 1) \div b)>>]

\* However a message is cut into calls, and whatever the handle did before, a
\* digest is what Skein defines of the message: the tests cut one message
\* of two blocks in three ways (skein256.c:297), a container is cut at every I/O
\* buffer (pres.c:196) and read back in windows of another size (pres.c:1319).
SkeinDigest ==
  hash.alg = "skein" /\ phase = "final" => digest = SkeinOf(message, hash.bytes, bits)

\* SHA1 by its definition: the message, one bit, zeros, and its length.
Sha1Of(m) ==
  LET b      == Sha1Bytes
      n      == (Len(m) + LengthBytes + b) \div b
      length == [i \in 1..LengthBytes |->
                  LengthByte(Len(m) \div LowCount, Len(m) % LowCount, i)]
      p(k)   == IF k <= Len(m) THEN m[k] ELSE IF k = Len(m) + 1 THEN Pad
                ELSE IF k <= (n * b) - LengthBytes THEN Zero
                ELSE length[k - ((n * b) - LengthBytes)]
  IN  [i \in 1..n |-> [j \in 1..b |-> p(((i - 1) * b) + j)]]

\* However a message is cut into calls, the blocks of SHA1 are those of the
\* padded message, none is made from what a compression left in the buffer, and
\* the length is that of the message, past the limit of its lower word too.
Sha1Digest ==
  hash.alg = "sha1" /\ phase = "final" =>
    digest = [j \in 1..Sha1DigestBytes |-> <<j, Sha1Of(message)>>]

\* A derived key is the digest of password and salt, hashed again as often as
\* asked, and made of nothing else; a container can only be opened again if
\* that holds (pres.c:826, :908).
KeyOf(m, n) ==
  LET f[k \in 0..n] == SkeinOf(IF k = 0 THEN m ELSE f[k - 1], Bytes1024, DigestBits) IN f[n]

DerivedKey ==
  phase \in {"simple", "derived"} =>
    digest = SubSeq(KeyOf(message, rounds), 1, Len(digest))

=============================================================================
