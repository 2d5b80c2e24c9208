--------------------------- MODULE HashPrngProofs ---------------------------
(***************************************************************************)
(* Two components that hold bytes back between calls: hashes and random    *)
(* numbers.                                                                *)
(*                                                                         *)
(* Proofs about Hash, for blocks, messages and digests of any size and     *)
(* calls of any length: a digest is that of the message, however it is cut *)
(* into calls, for the three Skeins and for SHA1, and a derived key is the *)
(* digest of password and salt, hashed again as often as asked.            *)
(*                                                                         *)
(* While a message comes, the chain is that of its first blocks and the    *)
(* buffer holds the bytes behind them.  Skein keeps back a block that may  *)
(* be the last, so its buffer may be full; SHA1 compresses it at once, and *)
(* the place in its buffer is kept in the count of bytes only, by their    *)
(* remainder.  A call fills the buffer up, takes whole blocks from the     *)
(* caller and keeps the rest; each of the three parts is a lemma of its    *)
(* own.                                                                    *)
(*                                                                         *)
(* Proofs about Prng, for every size of cache, word and twister, every set *)
(* of requests and any number of handles: no byte of the platform's source *)
(* is given twice while its reads are complete, the twister's renewal in   *)
(* place gives the words of the recurrence, and no device is left open.    *)
(***************************************************************************)
EXTENDS Hash, Prng, WellFoundedInduction, TLAPS

-----------------------------------------------------------------------------
(* Sequences of anything *)

IsSeq(s) == Len(s) \in Nat /\ s = [k \in 1..Len(s) |-> s[k]]

\* A function on the first n numbers is a sequence.
LEMMA Listing ==
  ASSUME NEW n \in Nat, NEW s, s = [k \in 1..n |-> s[k]]
  PROVE  IsSeq(s) /\ Len(s) = n
<1> DEFINE S == {s[k] : k \in 1..n}
<1>1. s \in [1..n -> S]
  OBVIOUS
<1> HIDE DEF S
<1>2. s \in Seq(S) /\ Len(s) = n
  BY <1>1
<1>3. QED
  BY <1>2 DEF IsSeq

\* Two sequences are one when they have the same elements.
LEMMA SameSeq ==
  ASSUME NEW s, NEW t, IsSeq(s), IsSeq(t), Len(s) = Len(t), \A k \in 1..Len(s) : s[k] = t[k]
  PROVE  s = t
  BY DEF IsSeq

\* One sequence behind the other.
LEMMA Glued ==
  ASSUME NEW s, NEW t, IsSeq(s), IsSeq(t)
  PROVE  /\ IsSeq(s \o t) /\ Len(s \o t) = Len(s) + Len(t)
         /\ \A k \in 1..Len(s) : (s \o t)[k] = s[k]
         /\ \A k \in 1..Len(t) : (s \o t)[Len(s) + k] = t[k]
<1> DEFINE S == {s[k] : k \in 1..Len(s)} \cup {t[k] : k \in 1..Len(t)}
<1>1. s \in [1..Len(s) -> S] /\ t \in [1..Len(t) -> S] /\ Len(s) \in Nat /\ Len(t) \in Nat
  BY DEF IsSeq
<1> HIDE DEF S
<1>2. s \in Seq(S) /\ t \in Seq(S)
  BY <1>1
<1>3. s \o t \in Seq(S)
  BY <1>2
<1> DEFINE u == s \o t
<1>4. Len(u) = Len(s) + Len(t)
  BY <1>2
<1>5. (\A k \in 1..Len(s) : u[k] = s[k]) /\ \A k \in 1..Len(t) : u[Len(s) + k] = t[k]
  BY <1>2
<1>6. u \in Seq(S)
  BY <1>3
<1> HIDE DEF u
<1>7. IsSeq(u)
  BY <1>6 DEF IsSeq
<1>8. QED
  BY <1>4, <1>5, <1>7 DEF u

\* Glueing is associative.
LEMMA GluedTwice ==
  ASSUME NEW s, NEW t, NEW u, IsSeq(s), IsSeq(t), IsSeq(u)
  PROVE  (s \o t) \o u = s \o (t \o u)
<1> DEFINE S == {s[k] : k \in 1..Len(s)} \cup {t[k] : k \in 1..Len(t)} \cup {u[k] : k \in 1..Len(u)}
<1>1. /\ s \in [1..Len(s) -> S] /\ t \in [1..Len(t) -> S] /\ u \in [1..Len(u) -> S]
      /\ Len(s) \in Nat /\ Len(t) \in Nat /\ Len(u) \in Nat
  BY DEF IsSeq
<1> HIDE DEF S
<1>2. s \in Seq(S) /\ t \in Seq(S) /\ u \in Seq(S)
  BY <1>1
<1>3. QED
  BY <1>2

-----------------------------------------------------------------------------
(* Numbers *)

\* Division by a block size.
LEMMA Quotient ==
  ASSUME NEW b \in Nat \ {0}, NEW q \in Nat, NEW r \in 0..(b - 1), NEW x, x = (q * b) + r
  PROVE  x \div b = q /\ x % b = r
  OBVIOUS

LEMMA DivMod ==
  ASSUME NEW n \in Nat, NEW d \in Nat \ {0}
  PROVE  /\ n \div d \in Nat /\ (n % d) \in 0..(d - 1)
         /\ n = ((n \div d) * d) + (n % d)
  OBVIOUS

\* A product with a sum.
LEMMA Distributes ==
  ASSUME NEW a \in Nat, NEW b \in Nat, NEW d \in Nat
  PROVE  (a + b) * d = (a * d) + (b * d) /\ a * d \in Nat
  OBVIOUS

\* A product keeps the order.
LEMMA Ordered ==
  ASSUME NEW a \in Nat, NEW b \in Nat, NEW d \in Nat, a <= b
  PROVE  a * d <= b * d
  OBVIOUS

\* Names that keep a product, a quotient closed where it need not be known.
Times(x, y) == x * y
Over(x, y)  == x \div y

-----------------------------------------------------------------------------
(* Skein: what a context holds of a message *)

Context(ch, po, ty, fi, la, bu, co) ==
  [chain |-> ch, pos |-> po, type |-> ty, first |-> fi, final |-> la, buf |-> bu, count |-> co]

IsSkein(c) == c = Context(c.chain, c.pos, c.type, c.first, c.final, c.buf, c.count)

\* Its fields, read and written.
LEMMA Fields ==
  ASSUME NEW ch, NEW po, NEW ty, NEW fi, NEW la, NEW bu, NEW co, NEW c,
         c = Context(ch, po, ty, fi, la, bu, co)
  PROVE  /\ c.chain = ch /\ c.pos = po /\ c.type = ty /\ c.first = fi
         /\ c.final = la /\ c.buf = bu /\ c.count = co
         /\ \A x : [c EXCEPT !.chain = x] = Context(x, po, ty, fi, la, bu, co)
         /\ \A x : [c EXCEPT !.pos = x] = Context(ch, x, ty, fi, la, bu, co)
         /\ \A x : [c EXCEPT !.type = x] = Context(ch, po, x, fi, la, bu, co)
         /\ \A x : [c EXCEPT !.first = x] = Context(ch, po, ty, x, la, bu, co)
         /\ \A x : [c EXCEPT !.final = x] = Context(ch, po, ty, fi, x, bu, co)
         /\ \A x : [c EXCEPT !.buf = x] = Context(ch, po, ty, fi, la, x, co)
         /\ \A x : [c EXCEPT !.count = x] = Context(ch, po, ty, fi, la, bu, x)
<1>1. /\ c.chain = ch /\ c.pos = po /\ c.type = ty /\ c.first = fi
      /\ c.final = la /\ c.buf = bu /\ c.count = co
  BY DEF Context
<1>2. \A x : [c EXCEPT !.chain = x] = Context(x, po, ty, fi, la, bu, co)
  BY DEF Context
<1>3. \A x : [c EXCEPT !.pos = x] = Context(ch, x, ty, fi, la, bu, co)
  BY DEF Context
<1>4. \A x : [c EXCEPT !.type = x] = Context(ch, po, x, fi, la, bu, co)
  BY DEF Context
<1>5. \A x : [c EXCEPT !.first = x] = Context(ch, po, ty, x, la, bu, co)
  BY DEF Context
<1>6. \A x : [c EXCEPT !.final = x] = Context(ch, po, ty, fi, x, bu, co)
  BY DEF Context
<1>7. \A x : [c EXCEPT !.buf = x] = Context(ch, po, ty, fi, la, x, co)
  BY DEF Context
<1>8. \A x : [c EXCEPT !.count = x] = Context(ch, po, ty, fi, la, bu, x)
  BY DEF Context
<1>9. QED
  BY <1>1, <1>2, <1>3, <1>4, <1>5, <1>6, <1>7, <1>8

\* The first k blocks of message m, none of them the last.
Full(m, b, k) ==
  [i \in 1..k |-> [block |-> Block(m, b, i), pos |-> i * b, type |-> "msg",
                   first |-> (i = 1), final |-> FALSE]]

\* They have been compressed.
Absorbed(c, m, b, n, k) ==
  /\ IsSkein(c)
  /\ c.chain = Configuration(n) \o Full(m, b, k)
  /\ c.pos = k * b /\ c.type = "msg" /\ c.first = (k = 0) /\ c.final = FALSE

\* All blocks but the last, which may be full.
Done(len, b) == IF len = 0 THEN 0 ELSE (len - 1) \div b

SkeinState(c, m, b, n) ==
  LET k == Done(Len(m), b) IN
  /\ Absorbed(c, m, b, n, k)
  /\ c.count = Len(m) - (k * b)
  /\ IsSeq(c.buf) /\ Len(c.buf) = b
  /\ \A j \in 1..c.count : c.buf[j] = m[(k * b) + j]

\* A compression, field by field.
LEMMA CompressedIs ==
  ASSUME NEW c, IsSkein(c), NEW bl, NEW add
  PROVE  Compressed(c, bl, add) =
           Context(c.chain \o [i \in 1..Len(bl) |->
                        [block |-> bl[i], pos |-> c.pos + (i * add), type |-> c.type,
                         first |-> (c.first /\ i = 1), final |-> c.final]],
                   c.pos + (Len(bl) * add), c.type,
                   IF Len(bl) = 0 THEN c.first ELSE FALSE, c.final, c.buf, c.count)
<1> DEFINE ch == c.chain \o [i \in 1..Len(bl) |->
                    [block |-> bl[i], pos |-> c.pos + (i * add), type |-> c.type,
                     first |-> (c.first /\ i = 1), final |-> c.final]]
           po == c.pos + (Len(bl) * add)
           fi == IF Len(bl) = 0 THEN c.first ELSE FALSE
<1>1. Compressed(c, bl, add) = [c EXCEPT !.chain = ch, !.pos = po, !.first = fi]
  BY DEF Compressed, ClearsFirst
<1> HIDE DEF ch, po, fi
<1>2. [c EXCEPT !.chain = ch] = Context(ch, c.pos, c.type, c.first, c.final, c.buf, c.count)
  BY Fields DEF IsSkein
<1>3. [Context(ch, c.pos, c.type, c.first, c.final, c.buf, c.count) EXCEPT !.pos = po]
        = Context(ch, po, c.type, c.first, c.final, c.buf, c.count)
  BY Fields
<1>4. [Context(ch, po, c.type, c.first, c.final, c.buf, c.count) EXCEPT !.first = fi]
        = Context(ch, po, c.type, fi, c.final, c.buf, c.count)
  BY Fields
<1>5. QED
  BY <1>1, <1>2, <1>3, <1>4 DEF ch, po, fi

\* The configuration comes first.
LEMMA ConfigurationIs ==
  ASSUME NEW n
  PROVE  IsSeq(Configuration(n)) /\ Len(Configuration(n)) = 1
<1> DEFINE r == [block |-> <<n>>, pos |-> 32, type |-> "cfg", first |-> TRUE, final |-> TRUE]
<1> HIDE DEF r
<1>1. <<r>> = [k \in 1..1 |-> <<r>>[k]] /\ Len(<<r>>) = 1
  OBVIOUS
<1>2. Configuration(n) = <<r>>
  BY DEF Configuration, r
<1>3. QED
  BY <1>1, <1>2 DEF IsSeq

\* The blocks are a sequence.
LEMMA FullIs ==
  ASSUME NEW m, NEW b, NEW k \in Nat
  PROVE  IsSeq(Full(m, b, k)) /\ Len(Full(m, b, k)) = k
  BY Listing DEF Full

\* Blocks of the message, behind its first k.
Piece(bl, m, b, k) == IsSeq(bl) /\ \A i \in 1..Len(bl) : bl[i] = Block(m, b, k + i)

\* Blocks of the message are compressed behind those before them.
LEMMA MoreBlocks ==
  ASSUME NEW b \in Nat \ {0}, NEW n, NEW k \in Nat, NEW m, NEW c, Absorbed(c, m, b, n, k),
         NEW bl, Piece(bl, m, b, k), NEW h \in Nat, h = k + Len(bl)
  PROVE  /\ Absorbed(Compressed(c, bl, b), m, b, n, h)
         /\ Compressed(c, bl, b).buf = c.buf /\ Compressed(c, bl, b).count = c.count
<1> DEFINE l == Len(bl)  d == Compressed(c, bl, b)
           new == [i \in 1..l |-> [block |-> bl[i], pos |-> c.pos + (i * b), type |-> c.type,
                                   first |-> (c.first /\ i = 1), final |-> c.final]]
<1>0. l \in Nat
  BY DEF IsSeq, Piece
<1>1. l \in Nat /\ IsSkein(c) /\ c.pos = k * b /\ c.type = "msg" /\ c.first = (k = 0) /\ c.final = FALSE
  BY <1>0 DEF Absorbed
<1>2. d = Context(c.chain \o new, c.pos + (l * b), c.type,
                  IF l = 0 THEN c.first ELSE FALSE, c.final, c.buf, c.count)
  BY <1>1, CompressedIs
<1>3. IsSeq(new) /\ Len(new) = l
  BY <1>1, Listing
<1> USE DEF Piece
<1>4. Full(m, b, k) \o new = Full(m, b, k + l)
  <2> DEFINE s == Full(m, b, k)  u == Full(m, b, k + l)
  <2>1. IsSeq(s) /\ Len(s) = k /\ IsSeq(u) /\ Len(u) = k + l
    BY <1>1, FullIs
  <2>3. ASSUME NEW i \in 1..k PROVE s[i] = u[i]
    <3>1. i \in 1..(k + l)
      BY <1>1
    <3>2. QED
      BY <3>1 DEF Full
  <2>4. ASSUME NEW i \in 1..l PROVE new[i] = u[k + i]
    <3>1. k + i \in 1..(k + l) /\ i \in Nat /\ i > 0
      BY <1>1
    <3>2. (k + i) * b = (k * b) + (i * b)
      BY <3>1, Distributes
    <3>3. ((k = 0) /\ i = 1) = (k + i = 1)
      BY <3>1
    <3>4. new[i] = [block |-> Block(m, b, k + i), pos |-> (k + i) * b, type |-> "msg",
                    first |-> (k + i = 1), final |-> FALSE]
      BY <1>1, <3>2, <3>3
    <3>5. QED
      BY <3>1, <3>4 DEF Full
  <2> HIDE DEF s, u, new, l
  <2>2. /\ IsSeq(s \o new) /\ Len(s \o new) = k + l
        /\ (\A i \in 1..k : (s \o new)[i] = s[i]) /\ \A i \in 1..l : (s \o new)[k + i] = new[i]
    BY ONLY <1>3, <2>1, Glued
  <2>5. ASSUME NEW i \in 1..(k + l) PROVE (s \o new)[i] = u[i]
    <3>1. CASE i <= k
      BY <2>2, <2>3, <3>1
    <3>2. CASE i > k
      <4>1. i - k \in 1..l /\ k + (i - k) = i
        BY <1>1, <3>2
      <4>2. QED
        BY <2>2, <2>4, <4>1
    <3>3. QED
      <4>1. i <= k \/ i > k
        BY <1>0
      <4>2. QED
        BY <3>1, <3>2, <4>1
  <2>6. QED
    BY <2>1, <2>2, <2>5, SameSeq DEF s, u
<1> HIDE DEF new, l, Piece
<1>5. c.chain \o new = Configuration(n) \o Full(m, b, k + l)
  <2>1. IsSeq(Full(m, b, k)) /\ IsSeq(Configuration(n))
    BY FullIs, ConfigurationIs
  <2>2. c.chain = Configuration(n) \o Full(m, b, k)
    BY DEF Absorbed
  <2>3. (Configuration(n) \o Full(m, b, k)) \o new = Configuration(n) \o (Full(m, b, k) \o new)
    BY <1>3, <2>1, GluedTwice
  <2>4. QED
    BY <1>4, <2>2, <2>3
<1>6. c.pos + (l * b) = (k + l) * b
  BY <1>1, Distributes
<1>7. (IF l = 0 THEN c.first ELSE FALSE) = (k + l = 0)
  <2>1. CASE l = 0
    <3>1. k + l = k
      BY <1>1, <2>1
    <3>2. QED
      BY <1>1, <2>1, <3>1
  <2>2. CASE l # 0
    <3>1. (k + l = 0) = FALSE
      BY <1>1, <2>2
    <3>2. QED
      BY <2>2, <3>1
  <2>3. QED
    BY <2>1, <2>2
<1>8. /\ d.chain = c.chain \o new /\ d.pos = c.pos + (l * b) /\ d.type = c.type
      /\ d.first = (IF l = 0 THEN c.first ELSE FALSE) /\ d.final = c.final
      /\ d.buf = c.buf /\ d.count = c.count /\ IsSkein(d)
  <2> HIDE DEF d
  <2>1. /\ d.chain = c.chain \o new /\ d.pos = c.pos + (l * b) /\ d.type = c.type
        /\ d.first = (IF l = 0 THEN c.first ELSE FALSE) /\ d.final = c.final
        /\ d.buf = c.buf /\ d.count = c.count
    <3>1. PICK ch, po, fi : /\ ch = c.chain \o new /\ po = c.pos + (l * b)
                            /\ fi = (IF l = 0 THEN c.first ELSE FALSE)
      OBVIOUS
    <3>2. d = Context(ch, po, c.type, fi, c.final, c.buf, c.count)
      BY <1>2, <3>1
    <3>3. QED
      BY <3>1, <3>2 DEF Context
  <2>2. QED
    BY <1>2, <2>1 DEF IsSkein
<1>9. Absorbed(d, m, b, n, k + l)
  <2> HIDE DEF d
  <2>1. QED
    BY <1>1, <1>5, <1>6, <1>7, <1>8 DEF Absorbed
<1>10. QED
  BY <1>8, <1>9 DEF l

\* A block that is full stays what it is when the message goes on.
LEMMA SameBlocks ==
  ASSUME NEW b \in Nat \ {0}, NEW n, NEW k \in Nat, NEW c, NEW m, NEW mx, Absorbed(c, m, b, n, k),
         Len(m) \in Nat, Len(mx) \in Nat, Len(m) <= Len(mx), \A j \in 1..Len(m) : mx[j] = m[j],
         k * b <= Len(m)
  PROVE  Absorbed(c, mx, b, n, k)
<1>1. ASSUME NEW i \in 1..k PROVE Block(m, b, i) = Block(mx, b, i)
  <2>1. i - 1 \in Nat /\ i = (i - 1) + 1
    OBVIOUS
  <2> DEFINE a == (i - 1) * b
  <2>2. a \in Nat /\ a + b <= Len(m)
    <3>1. i * b = a + (1 * b) /\ a \in Nat
      BY <2>1, Distributes
    <3>2. i * b <= k * b
      BY Ordered
    <3>3. i * b \in Nat /\ k * b \in Nat
      OBVIOUS
    <3>4. QED
      BY <3>1, <3>2, <3>3
  <2> HIDE DEF a
  <2>3. ASSUME NEW j \in 1..b PROVE a + j \in 1..Len(m) /\ a + j <= Len(mx)
    BY <2>2
  <2>4. QED
    BY <2>3 DEF Block, a
<1>2. Full(m, b, k) = Full(mx, b, k)
  BY <1>1 DEF Full
<1>3. QED
  BY <1>2 DEF Absorbed

-----------------------------------------------------------------------------
(* Skein: a call of skein_update *)

\* A message of k blocks and between one and b bytes.
LEMMA DoneIs ==
  ASSUME NEW b \in Nat \ {0}, NEW k \in Nat, NEW r \in 1..b, NEW len \in Nat, len = Times(k, b) + r
  PROVE  Done(len, b) = k
<1>1. r - 1 \in 0..(b - 1) /\ k * b \in Nat
  OBVIOUS
<1>2. len - 1 = (k * b) + (r - 1) /\ len # 0
  BY <1>1 DEF Times
<1>3. (len - 1) \div b = k
  BY <1>1, <1>2, Quotient
<1>4. QED
  BY <1>2, <1>3 DEF Done

\* What is in the buffer is at most a block, and nothing only when nothing came.
LEMMA DoneParts ==
  ASSUME NEW b \in Nat \ {0}, NEW len \in Nat
  PROVE  /\ Done(len, b) \in Nat /\ Done(len, b) * b \in Nat
         /\ len = 0 => Done(len, b) * b = 0
         /\ len > 0 => len - (Done(len, b) * b) \in 1..b
<1>1. CASE len = 0
  <2>1. Done(len, b) = 0
    BY <1>1 DEF Done
  <2>2. QED
    BY <1>1, <2>1
<1>2. CASE len > 0
  <2> DEFINE k == (len - 1) \div b  r == (len - 1) % b
  <2>1. k \in Nat /\ r \in 0..(b - 1) /\ len - 1 = (k * b) + r
    <3>1. len - 1 \in Nat
      BY <1>2
    <3>2. QED
      BY <3>1, DivMod
  <2>2. Done(len, b) = k
    BY <1>2 DEF Done
  <2> HIDE DEF k, r
  <2>3. k * b \in Nat
    BY <2>1
  <2>4. QED
    BY <1>2, <2>1, <2>2, <2>3
<1>3. QED
  BY <1>1, <1>2

\* memcpy into a buffer.
LEMMA OverlaidIs ==
  ASSUME NEW buf, IsSeq(buf), NEW e \in Nat, NEW bytes, Len(bytes) \in Nat
  PROVE  /\ IsSeq(Overlaid(buf, e, bytes)) /\ Len(Overlaid(buf, e, bytes)) = Len(buf)
         /\ \A j \in 1..Len(buf) :
              Overlaid(buf, e, bytes)[j]
                = IF j \in (e + 1)..(e + Len(bytes)) THEN bytes[j - e] ELSE buf[j]
<1>1. DOMAIN buf = 1..Len(buf) /\ Len(buf) \in Nat
  BY DEF IsSeq
<1> DEFINE f == [j \in 1..Len(buf) |->
                   IF j \in (e + 1)..(e + Len(bytes)) THEN bytes[j - e] ELSE buf[j]]
<1>2. Overlaid(buf, e, bytes) = f
  BY <1>1 DEF Overlaid
<1>3. IsSeq(f) /\ Len(f) = Len(buf)
  BY <1>1, Listing
<1>4. QED
  BY <1>2, <1>3

\* What is behind the last block that a call compresses goes to the buffer.
Buffered(c, rest) == [c EXCEPT !.buf = Overlaid(@, c.count, rest), !.count = @ + Len(rest)]

LEMMA BufferKeeps ==
  ASSUME NEW c, IsSkein(c), NEW e \in Nat, c.count = e, NEW b, IsSeq(c.buf), Len(c.buf) = b,
         NEW rest, NEW l \in Nat, Len(rest) = l, e + l <= b,
         NEW d, d = Buffered(c, rest)
  PROVE  /\ IsSkein(d) /\ d.chain = c.chain /\ d.pos = c.pos /\ d.type = c.type
         /\ d.first = c.first /\ d.final = c.final /\ d.count = e + l
         /\ IsSeq(d.buf) /\ Len(d.buf) = b
         /\ \A j \in 1..e : d.buf[j] = c.buf[j]
         /\ \A j \in 1..l : d.buf[e + j] = rest[j]
<1> DEFINE buf == Overlaid(c.buf, e, rest)
<1>1. /\ IsSeq(buf) /\ Len(buf) = b
      /\ \A j \in 1..b : buf[j] = IF j \in (e + 1)..(e + l) THEN rest[j - e] ELSE c.buf[j]
  <2>1. PICK old : old = c.buf
    OBVIOUS
  <2> DEFINE new == Overlaid(old, e, rest)
  <2>2. /\ IsSeq(new) /\ Len(new) = Len(old)
        /\ \A j \in 1..Len(old) :
             new[j] = IF j \in (e + 1)..(e + Len(rest)) THEN rest[j - e] ELSE old[j]
    <3>1. IsSeq(old) /\ Len(rest) \in Nat
      BY <2>1
    <3>2. QED
      BY <3>1, OverlaidIs
  <2>3. buf = new /\ Len(old) = b
    BY <2>1
  <2> HIDE DEF new, buf
  <2>4. QED
    BY <2>1, <2>2, <2>3
<1>2. PICK x : x = e + l
  OBVIOUS
<1>3. d = [c EXCEPT !.buf = buf, !.count = x]
  BY <1>2 DEF Buffered
<1> HIDE DEF buf
<1>4. d = Context(c.chain, c.pos, c.type, c.first, c.final, buf, x)
  <2>1. [c EXCEPT !.buf = buf] = Context(c.chain, c.pos, c.type, c.first, c.final, buf, c.count)
    BY Fields DEF IsSkein
  <2>2. [Context(c.chain, c.pos, c.type, c.first, c.final, buf, c.count) EXCEPT !.count = x]
          = Context(c.chain, c.pos, c.type, c.first, c.final, buf, x)
    BY Fields
  <2>3. QED
    BY <1>3, <2>1, <2>2
<1>5. /\ d.chain = c.chain /\ d.pos = c.pos /\ d.type = c.type /\ d.first = c.first
      /\ d.final = c.final /\ d.buf = buf /\ d.count = x
  BY ONLY <1>4 DEF Context
<1>6. IsSkein(d)
  BY <1>4, <1>5 DEF IsSkein
<1>7. ASSUME NEW j \in 1..e PROVE buf[j] = c.buf[j]
  <2>1. j \in 1..b /\ j \notin (e + 1)..(e + l)
    BY DEF IsSeq
  <2>2. QED
    BY <1>1, <2>1
<1>8. ASSUME NEW j \in 1..l PROVE buf[e + j] = rest[j]
  <2>1. e + j \in 1..b /\ e + j \in (e + 1)..(e + l) /\ (e + j) - e = j
    BY DEF IsSeq
  <2>2. QED
    BY <1>1, <2>1
<1>9. QED
  BY <1>1, <1>2, <1>5, <1>6, <1>7, <1>8

\* x stands in m, behind its first o and at its end.
Ends(m, o, x) == Len(x) \in Nat /\ Len(m) = o + Len(x) /\ \A j \in 1..Len(x) : m[o + j] = x[j]

\* The buffer holds e bytes of m, behind its first a.
Holds(c, m, b, a, e) ==
  c.count = e /\ IsSeq(c.buf) /\ Len(c.buf) = b /\ \A j \in 1..e : c.buf[j] = m[a + j]

\* The context then holds all of the message.
LEMMA RestIsKept ==
  ASSUME NEW b \in Nat \ {0}, NEW n, NEW k \in Nat, NEW m, NEW c, Absorbed(c, m, b, n, k),
         NEW e \in Nat, NEW a \in Nat, a = Times(k, b), Holds(c, m, b, a, e),
         NEW o \in Nat, o = a + e, NEW rest, Ends(m, o, rest), e + Len(rest) <= b,
         Done(Len(m), b) = k
  PROVE  SkeinState(Buffered(c, rest), m, b, n)
<1> DEFINE l == Len(rest)
<1>0. /\ l \in Nat /\ Len(m) = a + (e + l) /\ \A j \in 1..l : rest[j] = m[a + (e + j)]
  <2>1. l \in Nat /\ Len(m) = o + l /\ \A j \in 1..l : m[o + j] = rest[j]
    BY DEF Ends
  <2>2. ASSUME NEW j \in 1..l PROVE o + j = a + (e + j)
    BY <2>1
  <2>3. Len(m) = a + (e + l)
    BY <2>1
  <2>4. QED
    BY <2>1, <2>2, <2>3
<1>00. c.count = e /\ IsSeq(c.buf) /\ Len(c.buf) = b /\ \A j \in 1..e : c.buf[j] = m[a + j]
  BY DEF Holds
<1>1. PICK d : d = Buffered(c, rest)
  OBVIOUS
<1>2. IsSkein(c)
  BY DEF Absorbed
<1> HIDE DEF l
<1>3. /\ IsSkein(d) /\ d.chain = c.chain /\ d.pos = c.pos /\ d.type = c.type
      /\ d.first = c.first /\ d.final = c.final /\ d.count = e + l
      /\ IsSeq(d.buf) /\ Len(d.buf) = b
      /\ \A j \in 1..e : d.buf[j] = c.buf[j]
      /\ \A j \in 1..l : d.buf[e + j] = rest[j]
  <2>1. /\ IsSkein(c) /\ e \in Nat /\ c.count = e /\ IsSeq(c.buf) /\ Len(c.buf) = b
        /\ l \in Nat /\ Len(rest) = l /\ e + l <= b /\ d = Buffered(c, rest)
    BY <1>0, <1>00, <1>1, <1>2 DEF l
  <2>2. QED
    BY ONLY <2>1, BufferKeeps
<1>4. Absorbed(d, m, b, n, k)
  BY <1>3 DEF Absorbed
<1>5. ASSUME NEW j \in 1..(e + l) PROVE d.buf[j] = m[a + j]
  <2>1. CASE j <= e
    BY <1>3, <1>00, <2>1
  <2>2. CASE j > e
    <3>1. PICK i \in 1..l : j = e + i
      <4>1. j - e \in 1..l /\ j = e + (j - e)
        BY <1>0, <2>2
      <4>2. QED
        BY <4>1
    <3>2. d.buf[e + i] = rest[i] /\ rest[i] = m[a + (e + i)]
      BY <1>0, <1>3
    <3>3. QED
      BY <3>1, <3>2
  <2>3. QED
    BY <1>0, <2>1, <2>2
<1>6. Len(m) - a = e + l
  BY <1>0
<1>7. SkeinState(d, m, b, n)
  BY <1>3, <1>4, <1>5, <1>6 DEF SkeinState, Times
<1>8. QED
  BY <1>1, <1>7

\* A call can take q blocks behind the first t bytes of x, where k blocks end.
Takes(mx, o, x, b, k, t, q) ==
  Ends(mx, o, x) /\ o + t = Times(k, b) /\ t + Times(q, b) <= Len(x)

\* The blocks that a call takes from the caller's bytes are blocks of the message.
LEMMA TakenBlocks ==
  ASSUME NEW b \in Nat \ {0}, NEW k \in Nat, NEW q \in Nat, NEW o \in Nat, NEW t \in Nat,
         NEW mx, NEW x, Takes(mx, o, x, b, k, t, q)
  PROVE  Piece(BlocksOf(x, t, b, q), mx, b, k) /\ Len(BlocksOf(x, t, b, q)) = q
<1> DEFINE lx == Len(x)
<1>00. PICK taken \in Nat : taken = q * b /\ o + t = k * b /\ t + taken <= lx
  BY DEF Times, Takes
<1>0. lx \in Nat /\ Len(mx) = o + lx /\ \A j \in 1..lx : mx[o + j] = x[j]
  BY DEF Ends, Takes
<1> HIDE DEF lx
<1>1. IsSeq(BlocksOf(x, t, b, q)) /\ Len(BlocksOf(x, t, b, q)) = q
  BY Listing DEF BlocksOf
<1>2. ASSUME NEW i \in 1..q PROVE BlocksOf(x, t, b, q)[i] = Block(mx, b, k + i)
  <2> DEFINE p == (i - 1) * b  f == ((k + i) - 1) * b
  <2>1. i - 1 \in Nat /\ i = (i - 1) + 1 /\ (k + i) - 1 = k + (i - 1)
    OBVIOUS
  <2>2. p \in Nat /\ p + b <= taken
    <3>1. i * b = p + (1 * b) /\ p \in Nat
      BY <2>1, Distributes
    <3>2. i * b <= q * b
      BY Ordered
    <3>3. i * b \in Nat /\ q * b \in Nat /\ 1 * b = b
      OBVIOUS
    <3>4. QED
      BY <1>00, <3>1, <3>2, <3>3
  <2>3. f = (o + t) + p
    BY <1>00, <2>1, Distributes
  <2> HIDE DEF p, f
  <2>4. ASSUME NEW j \in 1..b
        PROVE  f + j <= Len(mx) /\ mx[f + j] = x[(t + p) + j]
    <3>1. (t + p) + j \in 1..lx /\ f + j = o + ((t + p) + j)
      BY <1>0, <1>00, <2>2, <2>3
    <3>2. PICK z \in 1..lx : z = (t + p) + j
      BY <3>1
    <3>3. mx[o + z] = x[z] /\ o + z <= Len(mx)
      <4>1. mx[o + z] = x[z] /\ Len(mx) = o + lx
        BY <1>0
      <4>2. o \in Nat /\ z \in 1..lx /\ lx \in Nat
        BY <1>0
      <4>3. QED
        BY ONLY <4>1, <4>2
    <3>4. QED
      BY <3>1, <3>2, <3>3
  <2>5. BlocksOf(x, t, b, q)[i] = [j \in 1..b |-> x[(t + p) + j]]
    <3>1. ASSUME NEW j \in 1..b PROVE t + (p + j) = (t + p) + j
      BY <2>2
    <3>2. BlocksOf(x, t, b, q)[i] = [j \in 1..b |-> x[t + (p + j)]]
      <4>1. ASSUME NEW j \in 1..b PROVE t + p + j = t + (p + j)
        BY <2>2
      <4>2. BlocksOf(x, t, b, q)[i] = [j \in 1..b |-> x[t + p + j]]
        BY DEF BlocksOf, p
      <4>3. QED
        BY <4>1, <4>2
    <3>3. QED
      BY <3>1, <3>2
  <2>6. Block(mx, b, k + i) = [j \in 1..b |-> IF f + j <= Len(mx) THEN mx[f + j] ELSE Zero]
    BY DEF Block, f
  <2>7. QED
    BY <2>4, <2>5, <2>6
<1>3. QED
  BY <1>1, <1>2 DEF Piece

\* k blocks of the message are compressed, the buffer is empty, and x, behind the
\* first o bytes of the message, has bytes behind its first t.
HasTail(c, mx, x, b, n, k, o, t, s, lx, q, taken) ==
  /\ Ends(mx, o, x) /\ lx = Len(x) /\ t < lx /\ s = o + t /\ s = Times(k, b)
  /\ Absorbed(c, mx, b, n, k) /\ c.count = 0 /\ IsSeq(c.buf) /\ Len(c.buf) = b
  /\ q = Over((lx - t) - 1, b) /\ taken = Times(q, b)

\* With an empty buffer, and bytes left, a call compresses the blocks that are
\* not the last and keeps the rest.
LEMMA TailIsKept ==
  ASSUME NEW b \in Nat \ {0}, NEW n, NEW k \in Nat, NEW o \in Nat, NEW t \in Nat,
         NEW mx, NEW x, NEW lx \in Nat, NEW s \in Nat, NEW c, NEW q \in Nat, NEW taken \in Nat,
         HasTail(c, mx, x, b, n, k, o, t, s, lx, q, taken)
  PROVE  SkeinState(Buffered(Compressed(c, BlocksOf(x, t, b, q), b), Rest(x, t + taken)), mx, b, n)
<1> SUFFICES ASSUME Ends(mx, o, x), lx = Len(x), t < lx, s = o + t, s = Times(k, b),
                    Absorbed(c, mx, b, n, k), c.count = 0, IsSeq(c.buf), Len(c.buf) = b,
                    q = Over((lx - t) - 1, b), taken = Times(q, b)
             PROVE  SkeinState(Buffered(Compressed(c, BlocksOf(x, t, b, q), b), Rest(x, t + taken)), mx, b, n)
  BY DEF HasTail
<1> DEFINE r == ((lx - t) - 1) % b
<1>0. lx \in Nat /\ Len(mx) = o + lx /\ \A j \in 1..lx : mx[o + j] = x[j]
  BY DEF Ends
<1>1. q \in Nat /\ r \in 0..(b - 1) /\ (lx - t) - 1 = taken + r /\ taken \in Nat
  <2>1. (lx - t) - 1 \in Nat
    BY <1>0
  <2>2. q \in Nat /\ r \in 0..(b - 1) /\ (lx - t) - 1 = taken + r
    BY <2>1, DivMod DEF Times, Over
  <2>3. taken \in Nat
    BY <2>2 DEF Times
  <2>4. QED
    BY <2>2, <2>3
<1> HIDE DEF r
<1> DEFINE bl == BlocksOf(x, t, b, q)  rest == Rest(x, t + taken)
<1>2. Piece(bl, mx, b, k) /\ Len(bl) = q
  <2>1. t + taken <= Len(x)
    BY <1>0, <1>1
  <2>3. Takes(mx, o, x, b, k, t, q)
    BY <2>1 DEF Takes
  <2>4. Piece(BlocksOf(x, t, b, q), mx, b, k) /\ Len(BlocksOf(x, t, b, q)) = q
    BY ONLY q \in Nat, b \in Nat \ {0}, k \in Nat, o \in Nat, t \in Nat, <2>3, TakenBlocks
  <2>5. QED
    BY ONLY <2>4 DEF bl
<1> HIDE DEF bl
<1>3. PICK left \in 1..b : left = lx - (t + taken) /\ lx = (t + taken) + left
  <2>1. lx - (t + taken) \in 1..b /\ lx = (t + taken) + (lx - (t + taken))
    BY <1>1
  <2>2. QED
    BY <2>1
<1>4. PICK h \in Nat : h = k + q
  BY <1>1
<1>5. PICK d : d = Compressed(c, bl, b)
  OBVIOUS
<1>6. Absorbed(d, mx, b, n, h) /\ d.buf = c.buf /\ d.count = c.count
  <2>1. h = k + Len(bl)
    BY <1>2, <1>4
  <2>2. Piece(bl, mx, b, k) /\ Absorbed(c, mx, b, n, k)
    BY <1>2
  <2>3. /\ Absorbed(Compressed(c, bl, b), mx, b, n, h)
        /\ Compressed(c, bl, b).buf = c.buf /\ Compressed(c, bl, b).count = c.count
    BY ONLY b \in Nat \ {0}, k \in Nat, h \in Nat, <2>1, <2>2, MoreBlocks
  <2>4. QED
    BY ONLY <1>5, <2>3
<1>7. PICK a \in Nat : a = s + taken /\ a = Times(h, b)
  <2>1. b \in Nat /\ k \in Nat /\ q \in Nat /\ s = k * b /\ taken = q * b
    BY <1>1 DEF Times
  <2>2. (k + q) * b = (k * b) + (q * b) /\ (k + q) * b \in Nat
    BY ONLY <2>1, Distributes
  <2>3. QED
    BY <1>4, <2>1, <2>2 DEF Times
<1>8. IsSeq(rest) /\ Len(rest) = left /\ \A j \in 1..left : rest[j] = x[(t + taken) + j]
  <2>1. rest = [j \in 1..left |-> x[(t + taken) + j]]
    BY <1>3 DEF Rest
  <2> HIDE DEF rest
  <2>2. left \in Nat
    BY <1>3
  <2>3. QED
    BY <2>1, <2>2, Listing
<1> HIDE DEF rest
<1>9. Ends(mx, a, rest)
  <2>0. /\ o \in Nat /\ t \in Nat /\ lx \in Nat /\ taken \in Nat /\ s \in Nat /\ a \in Nat
        /\ left \in 1..b /\ b \in Nat
    OBVIOUS
  <2>00. s = o + t /\ a = s + taken /\ lx = (t + taken) + left
    BY ONLY s = o + t, <1>3, <1>7
  <2>1. Len(mx) = a + left
    <3>1. a + left = o + lx
      BY ONLY <2>0, <2>00
    <3>2. QED
      BY ONLY <1>0, <3>1
  <2>2. ASSUME NEW j \in 1..left PROVE mx[a + j] = rest[j]
    <3>1. PICK z \in 1..lx : z = (t + taken) + j
      <4>1. (t + taken) + j \in 1..lx
        BY ONLY <2>0, <2>00, j \in 1..left
      <4>2. QED
        BY ONLY <4>1
    <3>2. rest[j] = x[z] /\ mx[o + z] = x[z]
      BY ONLY <1>0, <1>8, <3>1, z \in 1..lx, j \in 1..left
    <3>3. a + j = o + z
      BY ONLY <2>0, <2>00, <3>1, j \in 1..left, z \in 1..lx
    <3>4. QED
      BY ONLY <3>2, <3>3
  <2>3. left \in Nat
    BY ONLY <2>0
  <2>4. QED
    BY ONLY <1>8, <2>1, <2>2, <2>3 DEF Ends
<1>10. Done(Len(mx), b) = h
  <2>1. Len(mx) = Times(h, b) + left
    BY <1>3, <1>7, <1>8, <1>9 DEF Ends
  <2>2. QED
    BY ONLY b \in Nat \ {0}, h \in Nat, left \in 1..b, <2>1, DoneIs
<1>11. Holds(d, mx, b, a, 0)
  BY <1>6 DEF Holds
<1>12. a = a + 0 /\ 0 + Len(rest) <= b
  <2>1. a \in Nat /\ b \in Nat /\ left \in 1..b /\ Len(rest) = left
    BY ONLY b \in Nat \ {0}, a \in Nat, left \in 1..b, <1>8
  <2>2. QED
    BY ONLY <2>1
<1>13. SkeinState(Buffered(d, rest), mx, b, n)
  BY ONLY b \in Nat \ {0}, h \in Nat, a \in Nat, 0 \in Nat, <1>6, <1>7, <1>9, <1>10, <1>11, <1>12,
          RestIsKept
<1>14. QED
  BY <1>5, <1>13 DEF bl, rest

\* The buffer holds e bytes of the next block, and x has the others.
FillsUp(c, mx, x, b, k, a, e, o, t, full) ==
  /\ a = Times(k, b) /\ Holds(c, mx, b, a, e) /\ o = a + e /\ Ends(mx, o, x)
  /\ t = b - e /\ t <= Len(x) /\ full = Overlaid(c.buf, e, [j \in 1..t |-> x[j]])

\* The block that a call fills up is the next of the message.
LEMMA HeadBlock ==
  ASSUME NEW b \in Nat \ {0}, NEW k \in Nat, NEW a \in Nat, NEW e \in 0..b, NEW mx, NEW c,
         NEW o \in Nat, NEW x, NEW t \in Nat, NEW full, FillsUp(c, mx, x, b, k, a, e, o, t, full)
  PROVE  Piece(<<full>>, mx, b, k) /\ IsSeq(full) /\ Len(full) = b
<1> SUFFICES ASSUME a = Times(k, b), Holds(c, mx, b, a, e), o = a + e, Ends(mx, o, x), t = b - e,
                    t <= Len(x), full = Overlaid(c.buf, e, [j \in 1..t |-> x[j]])
             PROVE  Piece(<<full>>, mx, b, k) /\ IsSeq(full) /\ Len(full) = b
  BY DEF FillsUp
<1> DEFINE buf == c.buf  head == [j \in 1..t |-> x[j]]
<1>1. IsSeq(buf) /\ Len(buf) = b /\ \A j \in 1..e : buf[j] = mx[a + j]
  BY DEF Holds
<1>2. Len(x) \in Nat /\ Len(mx) = o + Len(x) /\ \A j \in 1..Len(x) : mx[o + j] = x[j]
  BY DEF Ends
<1>3. IsSeq(head) /\ Len(head) = t /\ \A j \in 1..t : head[j] = x[j]
  BY Listing
<1>4. full = Overlaid(buf, e, head)
  OBVIOUS
<1> HIDE DEF buf, head
<1>5. /\ IsSeq(full) /\ Len(full) = b
      /\ \A j \in 1..b : full[j] = IF j \in (e + 1)..(e + t) THEN head[j - e] ELSE buf[j]
  <2>1. e \in Nat /\ Len(head) \in Nat
    BY <1>3
  <2>2. QED
    BY ONLY <1>1, <1>3, <1>4, <2>1, OverlaidIs
<1>6. ASSUME NEW j \in 1..b PROVE a + j <= Len(mx) /\ full[j] = mx[a + j]
  <2>0. /\ a \in Nat /\ b \in Nat /\ t \in Nat /\ e \in 0..b /\ o \in Nat
        /\ o = a + e /\ t = b - e /\ Len(x) \in Nat /\ t <= Len(x) /\ Len(mx) = o + Len(x)
    BY <1>2
  <2>1. CASE j <= e
    <3>1. j \notin (e + 1)..(e + t) /\ j \in 1..e /\ a + j <= Len(mx)
      BY ONLY <2>0, <2>1, j \in 1..b
    <3>2. QED
      BY ONLY <1>1, <1>5, <3>1, j \in 1..b
  <2>2. CASE j > e
    <3>1. PICK i \in 1..t : j = e + i
      <4>1. j - e \in 1..t /\ j = e + (j - e)
        BY ONLY <2>0, <2>2, j \in 1..b
      <4>2. QED
        BY ONLY <4>1
    <3>2. j \in (e + 1)..(e + t) /\ j - e = i /\ i \in 1..Len(x) /\ o + i = a + j /\ a + j <= Len(mx)
      BY ONLY <2>0, <3>1, i \in 1..t, j \in 1..b
    <3>3. full[j] = head[i] /\ head[i] = x[i] /\ mx[o + i] = x[i]
      BY ONLY <1>2, <1>3, <1>5, <3>2, i \in 1..t, j \in 1..b
    <3>4. QED
      BY ONLY <3>2, <3>3
  <2>3. QED
    BY ONLY <2>0, <2>1, <2>2, j \in 1..b
<1>7. full = Block(mx, b, k + 1)
  <2>1. Block(mx, b, k + 1) = [j \in 1..b |-> IF a + j <= Len(mx) THEN mx[a + j] ELSE Zero]
    <3>1. ((k + 1) - 1) = k /\ k * b = a
      BY DEF Times
    <3>2. QED
      BY ONLY <3>1 DEF Block
  <2>2. full = [j \in 1..b |-> full[j]]
    BY ONLY <1>5 DEF IsSeq
  <2>3. QED
    BY ONLY <1>6, <2>1, <2>2
<1>8. Piece(<<full>>, mx, b, k)
  <2>1. <<full>> = [i \in 1..1 |-> <<full>>[i]] /\ Len(<<full>>) = 1 /\ <<full>>[1] = full
    OBVIOUS
  <2>2. ASSUME NEW i \in 1..1 PROVE <<full>>[i] = Block(mx, b, k + i)
    <3>1. i = 1
      OBVIOUS
    <3>2. QED
      BY ONLY <1>7, <2>1, <3>1
  <2>3. QED
    BY ONLY <2>1, <2>2 DEF Piece, IsSeq
<1>9. QED
  BY <1>5, <1>8

\* skein_update, when its bytes fit in the buffer.
LEMMA UpdateFits ==
  ASSUME NEW c, NEW x, NEW b, b = Len(c.buf), ~MustCompress(c, Len(x), b), NEW l \in Nat, l = Len(x)
  PROVE  SkeinUpdate(c, x) = Buffered(Compressed(c, BlocksOf(x, 0, b, 0), b), Rest(x, 0 + (0 * b)))
  BY DEF SkeinUpdate, Buffered

Cleared(c, full) == [c EXCEPT !.buf = full, !.count = 0]

FillsFirst(c, x, b, t, full, q, d) ==
  /\ b = Len(c.buf) /\ MustCompress(c, Len(x), b) /\ c.count > 0 /\ t = b - c.count
  /\ full = Overlaid(c.buf, c.count, [j \in 1..t |-> x[j]])
  /\ q = IF Len(x) - t > b THEN ((Len(x) - t) - 1) \div b ELSE 0
  /\ d = Cleared(Compressed(c, <<full>>, b), full)

\* skein_update, when the buffer has to be filled up first.
LEMMA UpdateFills ==
  ASSUME NEW c, NEW x, NEW b, NEW t, NEW full, NEW q, NEW d, FillsFirst(c, x, b, t, full, q, d)
  PROVE  SkeinUpdate(c, x) = Buffered(Compressed(d, BlocksOf(x, t, b, q), b), Rest(x, t + (q * b)))
  BY DEF SkeinUpdate, Buffered, FillsFirst, Cleared

\* skein_update, when the buffer is empty and the bytes do not fit.
LEMMA UpdateEmpty ==
  ASSUME NEW c, NEW x, NEW b, b = Len(c.buf), MustCompress(c, Len(x), b), ~(c.count > 0),
         NEW q, q = IF Len(x) - 0 > b THEN ((Len(x) - 0) - 1) \div b ELSE 0
  PROVE  SkeinUpdate(c, x) = Buffered(Compressed(c, BlocksOf(x, 0, b, q), b), Rest(x, 0 + (q * b)))
  BY DEF SkeinUpdate, Buffered

\* The buffer is not what was compressed.
LEMMA Emptied ==
  ASSUME NEW c, NEW m, NEW b, NEW n, NEW k, Absorbed(c, m, b, n, k), NEW full,
         NEW d, d = Cleared(c, full)
  PROVE  Absorbed(d, m, b, n, k) /\ d.buf = full /\ d.count = 0
<1>1. c = Context(c.chain, c.pos, c.type, c.first, c.final, c.buf, c.count)
  BY DEF Absorbed, IsSkein
<1>2. [c EXCEPT !.buf = full] = Context(c.chain, c.pos, c.type, c.first, c.final, full, c.count)
  BY ONLY <1>1, Fields
<1>3. [Context(c.chain, c.pos, c.type, c.first, c.final, full, c.count) EXCEPT !.count = 0]
        = Context(c.chain, c.pos, c.type, c.first, c.final, full, 0)
  BY ONLY Fields
<1>4. d = Context(c.chain, c.pos, c.type, c.first, c.final, full, 0)
  BY ONLY d = Cleared(c, full), <1>2, <1>3 DEF Cleared
<1>5. /\ d.chain = c.chain /\ d.pos = c.pos /\ d.type = c.type /\ d.first = c.first
      /\ d.final = c.final /\ d.buf = full /\ d.count = 0
  BY ONLY <1>4 DEF Context
<1>6. IsSkein(d)
  BY ONLY <1>4, <1>5 DEF IsSkein
<1>7. QED
  BY ONLY Absorbed(c, m, b, n, k), <1>5, <1>6 DEF Absorbed

\* The blocks and the rest, of a number of bytes that is not more than there are.
LEMMA RestIs ==
  ASSUME NEW x, NEW lx \in Nat, lx = Len(x), NEW z, z = 0
  PROVE  IsSeq(Rest(x, z)) /\ Len(Rest(x, z)) = lx /\ \A j \in 1..lx : Rest(x, z)[j] = x[j]
<1>1. Rest(x, z) = [j \in 1..lx |-> x[j]]
  BY DEF Rest
<1>2. QED
  BY ONLY lx \in Nat, <1>1, Listing

\* How many blocks a call takes, when bytes are left.
LEMMA Taken ==
  ASSUME NEW b \in Nat \ {0}, NEW left \in Nat, left > 0
  PROVE  /\ (IF left > b THEN (left - 1) \div b ELSE 0) = Over(left - 1, b)
         /\ Over(left - 1, b) \in Nat
<1>1. left - 1 \in Nat
  OBVIOUS
<1>2. CASE left > b
  BY <1>1, <1>2, DivMod DEF Over
<1>3. CASE left <= b
  <2>1. left - 1 = (0 * b) + (left - 1) /\ left - 1 \in 0..(b - 1)
    BY <1>3
  <2>2. (left - 1) \div b = 0
    BY ONLY b \in Nat \ {0}, 0 \in Nat, <2>1, Quotient
  <2>3. QED
    BY <1>3, <2>2 DEF Over
<1>4. QED
  BY <1>2, <1>3

\* Whatever a call brings, the context then holds the message with it.
LEMMA SkeinUpdates ==
  ASSUME NEW b \in Nat \ {0}, NEW n, NEW m, IsSeq(m), NEW c, SkeinState(c, m, b, n),
         NEW x, IsSeq(x)
  PROVE  SkeinState(SkeinUpdate(c, x), m \o x, b, n)
<1>1. PICK o \in Nat, lx \in Nat : o = Len(m) /\ lx = Len(x)
  BY DEF IsSeq
<1>2. PICK k \in Nat, a \in Nat : k = Done(o, b) /\ a = Times(k, b) /\ a = k * b
  <2>1. Done(o, b) \in Nat /\ Done(o, b) * b \in Nat
    BY DoneParts
  <2>2. QED
    BY <2>1 DEF Times
<1>3. PICK e \in 0..b : e = o - a /\ o = a + e /\ (e = 0 => o = 0 /\ a = 0)
  <2>1. (o = 0 => a = 0) /\ (o > 0 => o - a \in 1..b)
    BY ONLY b \in Nat \ {0}, o \in Nat, <1>2, DoneParts
  <2>2. o - a \in 0..b /\ o = a + (o - a) /\ (o - a = 0 => o = 0 /\ a = 0)
    BY ONLY b \in Nat \ {0}, o \in Nat, a \in Nat, <2>1
  <2>3. QED
    BY ONLY <2>2
<1>4. PICK mx : mx = m \o x
  OBVIOUS
<1>5. Len(mx) = o + lx /\ Ends(mx, o, x) /\ \A j \in 1..o : mx[j] = m[j]
  <2>1. /\ Len(mx) = o + lx /\ (\A j \in 1..o : mx[j] = m[j]) /\ \A j \in 1..lx : mx[o + j] = x[j]
    BY ONLY IsSeq(m), IsSeq(x), <1>1, <1>4, Glued
  <2>2. QED
    BY <1>1, <2>1 DEF Ends
<1>6. /\ Absorbed(c, m, b, n, k) /\ c.count = e /\ IsSeq(c.buf) /\ Len(c.buf) = b
      /\ \A j \in 1..e : c.buf[j] = m[a + j]
  BY <1>1, <1>2, <1>3 DEF SkeinState
<1>7. Absorbed(c, mx, b, n, k)
  <2>1. k * b <= Len(m) /\ Len(m) \in Nat /\ Len(mx) \in Nat /\ Len(m) <= Len(mx)
    <3>1. a <= o /\ o <= o + lx /\ o + lx \in Nat
      BY ONLY a \in Nat, o \in Nat, lx \in Nat, b \in Nat \ {0}, e \in 0..b, <1>3
    <3>2. o \in Nat
      OBVIOUS
    <3>3. QED
      BY ONLY <1>1, <1>2, <1>5, <3>1, <3>2
  <2>2. Absorbed(c, m, b, n, k) /\ \A j \in 1..Len(m) : mx[j] = m[j]
    BY ONLY <1>1, <1>5, <1>6
  <2>3. QED
    BY ONLY b \in Nat \ {0}, k \in Nat, <2>1, <2>2, SameBlocks
<1>8. Holds(c, mx, b, a, e)
  <2>1. ASSUME NEW j \in 1..e PROVE c.buf[j] = mx[a + j]
    <3>1. a + j \in 1..o
      BY ONLY a \in Nat, o \in Nat, b \in Nat \ {0}, e \in 0..b, j \in 1..e, <1>3
    <3>2. QED
      BY ONLY j \in 1..e, <1>5, <1>6, <3>1
  <2>2. QED
    BY ONLY <1>6, <2>1 DEF Holds
<1> DEFINE must == MustCompress(c, Len(x), b)
<1>9. must <=> lx + e > b
  BY ONLY <1>1, <1>6 DEF MustCompress
<1> HIDE DEF must
<1>10. CASE ~must
  <2> DEFINE bl == BlocksOf(x, 0, b, 0)  rest == Rest(x, 0 + (0 * b))
  <2>1. SkeinUpdate(c, x) = Buffered(Compressed(c, bl, b), rest)
    BY ONLY ~must, lx \in Nat, <1>1, <1>6, UpdateFits DEF must
  <2>2. Piece(bl, mx, b, k) /\ Len(bl) = 0
    <3>1. bl = [i \in 1..0 |-> bl[i]]
      BY DEF BlocksOf
    <3>2. IsSeq(bl) /\ Len(bl) = 0
      BY ONLY 0 \in Nat, <3>1, Listing
    <3>3. QED
      BY ONLY <3>2 DEF Piece
  <2>3. IsSeq(rest) /\ Len(rest) = lx /\ \A j \in 1..lx : rest[j] = x[j]
    <3>1. 0 + (0 * b) = 0
      BY ONLY b \in Nat \ {0}
    <3>2. QED
      BY ONLY lx \in Nat, <1>1, <3>1, RestIs
  <2> HIDE DEF bl, rest
  <2>4. PICK d : d = Compressed(c, bl, b)
    OBVIOUS
  <2>5. Absorbed(d, mx, b, n, k) /\ d.buf = c.buf /\ d.count = c.count
    <3>1. k = k + Len(bl)
      BY ONLY k \in Nat, <2>2
    <3>2. QED
      <4>1. /\ Absorbed(Compressed(c, bl, b), mx, b, n, k)
            /\ Compressed(c, bl, b).buf = c.buf /\ Compressed(c, bl, b).count = c.count
        BY ONLY b \in Nat \ {0}, k \in Nat, <1>7, <2>2, <3>1, MoreBlocks
      <4>2. QED
        BY ONLY <2>4, <4>1
  <2>6. Holds(d, mx, b, a, e)
    BY ONLY <1>8, <2>5 DEF Holds
  <2>7. Ends(mx, o, rest)
    BY ONLY lx \in Nat, <1>1, <1>5, <2>3 DEF Ends
  <2>8. e + Len(rest) <= b
    BY ONLY lx \in Nat, b \in Nat \ {0}, e \in 0..b, ~must, <1>9, <2>3
  <2>9. Done(Len(mx), b) = k
    <3>1. CASE e + lx = 0
      <4>1. Len(mx) = o
        BY ONLY e \in 0..b, b \in Nat \ {0}, lx \in Nat, o \in Nat, <1>5, <3>1
      <4>2. QED
        BY ONLY <1>2, <4>1
    <3>2. CASE e + lx # 0
      <4>1. e + lx \in 1..b /\ o + lx \in Nat /\ o + lx = a + (e + lx)
        BY ONLY e \in 0..b, b \in Nat \ {0}, lx \in Nat, o \in Nat, a \in Nat, ~must, <1>3, <1>9,
                <3>2
      <4>2. PICK r \in 1..b, len \in Nat : r = e + lx /\ len = o + lx
        BY ONLY <4>1
      <4>3. len = Times(k, b) + r
        BY ONLY <1>2, <4>1, <4>2
      <4>4. Done(len, b) = k
        BY ONLY b \in Nat \ {0}, k \in Nat, r \in 1..b, len \in Nat, <4>3, DoneIs
      <4>5. QED
        BY ONLY <1>5, <4>2, <4>4
    <3>3. QED
      BY ONLY <3>1, <3>2
  <2>10. e \in Nat
    BY ONLY e \in 0..b, b \in Nat \ {0}
  <2>11. SkeinState(Buffered(d, rest), mx, b, n)
    BY ONLY b \in Nat \ {0}, k \in Nat, a \in Nat, o \in Nat, <1>2, <1>3, <2>5, <2>6, <2>7, <2>8,
            <2>9, <2>10, RestIsKept
  <2>12. QED
    BY ONLY <1>4, <2>1, <2>4, <2>11
<1>11. CASE must /\ e > 0
  <2>0. lx + e > b
    BY <1>9, <1>11
  <2>1. PICK t \in Nat : t = b - e /\ t < lx /\ t <= lx
    <3>1. b - e \in Nat /\ b - e < lx /\ b - e <= lx
      BY ONLY e \in 0..b, b \in Nat \ {0}, lx \in Nat, <2>0
    <3>2. QED
      BY ONLY <3>1
  <2>2. PICK full : full = Overlaid(c.buf, c.count, [j \in 1..t |-> x[j]])
    OBVIOUS
  <2>3. PICK left \in Nat : left = lx - t /\ left > 0
    <3>1. lx - t \in Nat /\ lx - t > 0
      BY ONLY lx \in Nat, t \in Nat, <2>1
    <3>2. QED
      BY ONLY <3>1
  <2>4. PICK q \in Nat : q = Over(left - 1, b) /\ q = IF left > b THEN (left - 1) \div b ELSE 0
    BY ONLY b \in Nat \ {0}, left \in Nat, <2>3, Taken
  <2>5. PICK d : d = Cleared(Compressed(c, <<full>>, b), full)
    OBVIOUS
  <2>6. SkeinUpdate(c, x) = Buffered(Compressed(d, BlocksOf(x, t, b, q), b), Rest(x, t + (q * b)))
    <3>1. b = Len(c.buf) /\ MustCompress(c, Len(x), b) /\ c.count > 0 /\ t = b - c.count
      BY ONLY <1>6, <1>11, <2>1 DEF must
    <3>2. q = IF Len(x) - t > b THEN ((Len(x) - t) - 1) \div b ELSE 0
      BY ONLY <1>1, <2>3, <2>4
    <3>3. QED
      <4>1. FillsFirst(c, x, b, t, full, q, d)
        BY ONLY <2>2, <2>5, <3>1, <3>2 DEF FillsFirst
      <4>2. QED
        BY ONLY <4>1, UpdateFills
  <2>7. Piece(<<full>>, mx, b, k) /\ IsSeq(full) /\ Len(full) = b
    <3>1. e \in 0..b /\ full = Overlaid(c.buf, e, [j \in 1..t |-> x[j]]) /\ t <= Len(x)
      BY ONLY e \in 0..b, b \in Nat \ {0}, <1>1, <1>6, <1>11, <2>1, <2>2
    <3>2. QED
      <4>1. FillsUp(c, mx, x, b, k, a, e, o, t, full)
        BY ONLY <1>2, <1>3, <1>5, <1>8, <2>1, <3>1 DEF FillsUp
      <4>2. QED
        BY ONLY b \in Nat \ {0}, k \in Nat, a \in Nat, o \in Nat, t \in Nat, <3>1, <4>1, HeadBlock
  <2>8. PICK h \in Nat : h = k + 1
    OBVIOUS
  <2>9. Absorbed(Compressed(c, <<full>>, b), mx, b, n, h)
    <3>1. h = k + Len(<<full>>)
      BY <2>8
    <3>2. QED
      BY ONLY b \in Nat \ {0}, k \in Nat, h \in Nat, <1>7, <2>7, <3>1, MoreBlocks
  <2>10. Absorbed(d, mx, b, n, h) /\ d.count = 0 /\ IsSeq(d.buf) /\ Len(d.buf) = b
    <3>1. PICK z : z = Compressed(c, <<full>>, b)
      OBVIOUS
    <3>2. Absorbed(z, mx, b, n, h) /\ d = Cleared(z, full)
      BY ONLY <2>5, <2>9, <3>1
    <3>3. QED
      BY ONLY <2>7, <3>2, Emptied
  <2>11. PICK s \in Nat : s = o + t /\ s = Times(h, b)
    <3>1. (k + 1) * b = (k * b) + (1 * b) /\ 1 * b = b
      BY ONLY k \in Nat, b \in Nat \ {0}, 1 \in Nat, Distributes
    <3>2. o + t = a + b
      BY ONLY o \in Nat, t \in Nat, a \in Nat, b \in Nat \ {0}, e \in 0..b, <1>3, <2>1
    <3>3. o + t = Times(h, b)
      BY ONLY <1>2, <2>8, <3>1, <3>2 DEF Times
    <3>4. o + t \in Nat
      OBVIOUS
    <3>5. QED
      BY ONLY <3>3, <3>4
  <2>12. PICK taken \in Nat : taken = Times(q, b) /\ taken = q * b
    <3>1. q * b \in Nat
      BY ONLY q \in Nat, b \in Nat \ {0}
    <3>2. QED
      BY ONLY <3>1 DEF Times
  <2>13. SkeinState(Buffered(Compressed(d, BlocksOf(x, t, b, q), b), Rest(x, t + taken)), mx, b, n)
    <3>1. q = Over((lx - t) - 1, b)
      BY ONLY <2>3, <2>4
    <3>2. HasTail(d, mx, x, b, n, h, o, t, s, lx, q, taken)
      BY ONLY <1>1, <1>5, <2>1, <2>10, <2>11, <2>12, <3>1 DEF HasTail
    <3>3. QED
      BY ONLY b \in Nat \ {0}, h \in Nat, o \in Nat, t \in Nat, lx \in Nat, s \in Nat, q \in Nat,
              taken \in Nat,
              <3>2, TailIsKept
  <2>14. QED
    BY ONLY <1>4, <2>6, <2>12, <2>13
<1>12. CASE must /\ e = 0
  <2>0. lx > b /\ o = 0 /\ a = 0 /\ 0 < lx
    <3>1. lx + e > b /\ e = 0
      BY <1>9, <1>12
    <3>2. QED
      BY ONLY lx \in Nat, b \in Nat \ {0}, <1>3, <3>1
  <2>1. PICK q \in Nat : q = Over((lx - 0) - 1, b) /\ q = IF lx - 0 > b THEN ((lx - 0) - 1) \div b ELSE 0
    <3>1. PICK left \in Nat : left = lx - 0 /\ left > 0
      BY ONLY lx \in Nat, <2>0
    <3>2. QED
      BY ONLY b \in Nat \ {0}, left \in Nat, <3>1, Taken
  <2>2. SkeinUpdate(c, x) = Buffered(Compressed(c, BlocksOf(x, 0, b, q), b), Rest(x, 0 + (q * b)))
    <3>1. b = Len(c.buf) /\ MustCompress(c, Len(x), b) /\ ~(c.count > 0)
      BY ONLY <1>6, <1>12 DEF must
    <3>2. q = IF Len(x) - 0 > b THEN ((Len(x) - 0) - 1) \div b ELSE 0
      BY ONLY <1>1, <2>1
    <3>3. QED
      BY ONLY <3>1, <3>2, UpdateEmpty
  <2>3. PICK taken \in Nat : taken = Times(q, b) /\ taken = q * b
    <3>1. q * b \in Nat
      BY ONLY q \in Nat, b \in Nat \ {0}
    <3>2. QED
      BY ONLY <3>1 DEF Times
  <2>4. a = o + 0 /\ c.count = 0
    BY ONLY <1>6, <1>12, <2>0
  <2>5. SkeinState(Buffered(Compressed(c, BlocksOf(x, 0, b, q), b), Rest(x, 0 + taken)), mx, b, n)
    <3>1. HasTail(c, mx, x, b, n, k, o, 0, a, lx, q, taken)
      BY ONLY <1>1, <1>2, <1>5, <1>6, <1>7, <2>0, <2>1, <2>3, <2>4 DEF HasTail
    <3>2. QED
      BY ONLY b \in Nat \ {0}, k \in Nat, o \in Nat, 0 \in Nat, lx \in Nat, a \in Nat, q \in Nat,
              taken \in Nat,
              <3>1, TailIsKept
  <2>6. QED
    BY ONLY <1>4, <2>2, <2>3, <2>5
<1>13. QED
  <2>1. e = 0 \/ e > 0
    BY ONLY e \in 0..b, b \in Nat \ {0}
  <2>2. QED
    BY ONLY <1>10, <1>11, <1>12, <2>1

-----------------------------------------------------------------------------
(* Skein: the other calls *)

\* A sequence of one.
LEMMA OneIs ==
  ASSUME NEW x
  PROVE  IsSeq(<<x>>) /\ Len(<<x>>) = 1 /\ <<x>>[1] = x
<1>1. <<x>> = [k \in 1..1 |-> <<x>>[k]] /\ Len(<<x>>) = 1 /\ <<x>>[1] = x
  OBVIOUS
<1>2. QED
  BY <1>1 DEF IsSeq

\* Flags.
Yes(x)   == x = TRUE
No(x)    == x = FALSE
YesNo(x) == x \in BOOLEAN

\* A block in the chain.
Entry(r, x, p, ty, fi, la) ==
  r = [block |-> x, pos |-> p, type |-> ty, first |-> fi, final |-> la]

Single(bl, x) == bl = <<x>>

\* A block is compressed into the chain.
Goes(bl, x, r, po, add, p, ty, fi, la, no) ==
  /\ po \in Nat /\ add \in Nat /\ p = po + add
  /\ YesNo(fi) /\ No(no) /\ Single(bl, x) /\ Entry(r, x, p, ty, fi, la)

\* The compression of one block.
LEMMA CompressedOne ==
  ASSUME NEW ch, NEW po, NEW ty, NEW fi, NEW la, NEW bu, NEW co, NEW x, NEW add, NEW no, NEW p,
         NEW bl, NEW r, Goes(bl, x, r, po, add, p, ty, fi, la, no)
  PROVE  Compressed(Context(ch, po, ty, fi, la, bu, co), bl, add) =
           Context(ch \o <<r>>, p, ty, no, la, bu, co)
<1>0. /\ po \in Nat /\ add \in Nat /\ p = po + add
      /\ YesNo(fi) /\ No(no) /\ Single(bl, x) /\ Entry(r, x, p, ty, fi, la)
  BY DEF Goes
<1>1. PICK c : c = Context(ch, po, ty, fi, la, bu, co)
  OBVIOUS
<1>2. /\ c.chain = ch /\ c.pos = po /\ c.type = ty /\ c.first = fi
      /\ c.final = la /\ c.buf = bu /\ c.count = co
  BY <1>1 DEF Context
<1>3. IsSkein(c)
  BY <1>1, <1>2 DEF IsSkein
<1>4. /\ bl = <<x>>
      /\ r = [block |-> x, pos |-> p, type |-> ty, first |-> fi, final |-> la]
  BY <1>0 DEF Single, Entry
<1>5. IsSeq(bl) /\ Len(bl) = 1 /\ bl[1] = x
  BY ONLY <1>4, OneIs
<1> DEFINE new == [i \in 1..Len(bl) |->
                    [block |-> bl[i], pos |-> c.pos + (i * add), type |-> c.type,
                     first |-> (c.first /\ i = 1), final |-> c.final]]
<1>6. new = <<r>>
  <2>1. new = [i \in 1..1 |-> r]
    <3>1. ASSUME NEW i \in 1..1
          PROVE  /\ bl[i] = x /\ c.pos + (i * add) = p /\ (c.first /\ i = 1) = fi
      <4>1. i = 1 /\ 1 * add = add
        BY <1>0
      <4>2. (fi /\ 1 = 1) = fi
        BY ONLY <1>0 DEF YesNo
      <4>3. QED
        BY ONLY <1>0, <1>2, <1>5, <4>1, <4>2
    <3>2. QED
      BY <1>2, <1>4, <1>5, <3>1
  <2> HIDE DEF new
  <2>2. [i \in 1..1 |-> r] = <<r>>
    OBVIOUS
  <2>3. QED
    BY <2>1, <2>2
<1>7. c.pos + (Len(bl) * add) = p
  BY <1>0, <1>2, <1>5
<1>8. Compressed(c, bl, add) = Context(c.chain \o new, c.pos + (Len(bl) * add), c.type,
                                       IF Len(bl) = 0 THEN c.first ELSE FALSE, c.final, c.buf, c.count)
  BY ONLY <1>3, CompressedIs
<1>9. (IF Len(bl) = 0 THEN c.first ELSE FALSE) = no
  <2>1. (IF Len(bl) = 0 THEN c.first ELSE FALSE) = FALSE
    BY <1>5
  <2>2. QED
    BY ONLY <1>0, <2>1, Zenon DEF No
<1> HIDE DEF new
<1>10. Compressed(c, bl, add) = Context(ch \o <<r>>, p, ty, no, la, bu, co)
  BY ONLY <1>2, <1>6, <1>7, <1>8, <1>9
<1>11. QED
  BY ONLY <1>1, <1>10

\* A new tweak, field by field.
LEMMA TweakedIs ==
  ASSUME NEW ch, NEW po, NEW ty, NEW fi, NEW la, NEW bu, NEW co, NEW type, NEW final,
         NEW yes, Yes(yes)
  PROVE  Tweaked(Context(ch, po, ty, fi, la, bu, co), type, final) =
           Context(ch, 0, type, yes, final, bu, co)
<1> DEFINE c == Context(ch, po, ty, fi, la, bu, co)
<1>1. [c EXCEPT !.pos = 0] = Context(ch, 0, ty, fi, la, bu, co)
  BY ONLY Fields DEF c
<1>2. [Context(ch, 0, ty, fi, la, bu, co) EXCEPT !.type = type] = Context(ch, 0, type, fi, la, bu, co)
  BY ONLY Fields
<1>3. [Context(ch, 0, type, fi, la, bu, co) EXCEPT !.first = yes] = Context(ch, 0, type, yes, la, bu, co)
  BY ONLY Fields
<1>4. [Context(ch, 0, type, yes, la, bu, co) EXCEPT !.final = final]
        = Context(ch, 0, type, yes, final, bu, co)
  BY ONLY Fields
<1>5. Tweaked(c, type, final) = [c EXCEPT !.pos = 0, !.type = type, !.first = yes, !.final = final]
  BY DEF Tweaked, Yes
<1> HIDE DEF c
<1>6. Tweaked(c, type, final) = Context(ch, 0, type, yes, final, bu, co)
  BY ONLY <1>1, <1>2, <1>3, <1>4, <1>5
<1>7. QED
  BY ONLY <1>6 DEF c

\* After skein_init the message is empty.
LEMMA SkeinInits ==
  ASSUME NEW b \in Nat \ {0}, NEW n
  PROVE  SkeinState(SkeinInit(b, n), <<>>, b, n)
<1>1. PICK buf : buf = [j \in 1..b |-> Zero]
  OBVIOUS
<1>2. IsSeq(buf) /\ Len(buf) = b
  <2>1. buf = [j \in 1..b |-> buf[j]]
    BY <1>1
  <2>2. b \in Nat
    OBVIOUS
  <2>3. QED
    BY ONLY <2>1, <2>2, Listing
<1>0. PICK yes : Yes(yes) /\ YesNo(yes)
  BY DEF Yes, YesNo
<1>01. PICK po \in Nat, add \in Nat, p \in Nat : po = 0 /\ add = 32 /\ p = po + add /\ p = 32
  OBVIOUS
<1>02. PICK no, co, ch, x, ty : No(no) /\ co = 0 /\ ch = <<>> /\ x = <<n>> /\ ty = "cfg"
  BY DEF No
<1> DEFINE c == Context(ch, po, ty, yes, yes, buf, co)
<1>03. PICK bl, msg, r : Single(bl, x) /\ msg = "msg" /\ Entry(r, x, p, ty, yes, yes)
  BY DEF Single, Entry
<1>3. SkeinInit(b, n) = Tweaked(Compressed(c, bl, add), msg, no)
  <2>1. SkeinInit(b, n) = Tweaked(Compressed(c, bl, add), "msg", FALSE)
    BY <1>0, <1>01, <1>02, <1>1, <1>03 DEF SkeinInit, Context, Yes, Single
  <2>2. QED
    BY ONLY <1>02, <1>03, <2>1, Zenon DEF No
<1>4. Compressed(c, bl, add) = Context(ch \o <<r>>, p, ty, no, yes, buf, co)
  <2>1. Goes(bl, x, r, po, add, p, ty, yes, yes, no)
    BY <1>0, <1>01, <1>02, <1>03 DEF Goes
  <2>2. QED
    BY ONLY <2>1, CompressedOne DEF c
<1> HIDE DEF c
<1>5. r = [block |-> <<n>>, pos |-> 32, type |-> "cfg", first |-> TRUE, final |-> TRUE]
  BY <1>0, <1>01, <1>02, <1>03 DEF Yes, Entry
<1>6. ch \o <<r>> = Configuration(n)
  BY <1>01, <1>02, <1>5 DEF Configuration
<1>7. SkeinInit(b, n) = Context(Configuration(n), 0, "msg", TRUE, FALSE, buf, 0)
  <2>1. PICK conf : conf = Configuration(n)
    OBVIOUS
  <2>2. SkeinInit(b, n) = Tweaked(Context(conf, p, ty, no, yes, buf, co), msg, no)
    BY ONLY <1>3, <1>4, <1>6, <2>1 DEF c
  <2>3. Tweaked(Context(conf, p, ty, no, yes, buf, co), msg, no) = Context(conf, 0, msg, yes, no, buf, co)
    BY ONLY <1>0, TweakedIs
  <2>4. QED
    BY ONLY <1>0, <1>02, <1>03, <2>1, <2>2, <2>3 DEF Yes, No
<1>8. PICK d : d = SkeinInit(b, n)
  OBVIOUS
<1>9. /\ d.chain = Configuration(n) /\ d.pos = 0 /\ d.type = "msg" /\ d.first = TRUE
      /\ d.final = FALSE /\ d.buf = buf /\ d.count = 0
  BY ONLY <1>7, <1>8 DEF Context
<1>10. IsSkein(d)
  BY ONLY <1>7, <1>8, <1>9 DEF IsSkein
<1>11. Configuration(n) = Configuration(n) \o Full(<<>>, b, 0)
  <2>1. IsSeq(Full(<<>>, b, 0)) /\ Len(Full(<<>>, b, 0)) = 0
    BY ONLY 0 \in Nat, FullIs
  <2>2. PICK s, t : s = Configuration(n) /\ t = Full(<<>>, b, 0)
    OBVIOUS
  <2>3. IsSeq(s) /\ IsSeq(t) /\ Len(s) = 1 /\ Len(t) = 0
    BY ONLY <2>1, <2>2, ConfigurationIs
  <2>4. /\ IsSeq(s \o t) /\ Len(s \o t) = Len(s) + Len(t)
        /\ \A k \in 1..Len(s) : (s \o t)[k] = s[k]
    BY ONLY <2>3, Glued
  <2>5. Len(s \o t) = Len(s)
    BY ONLY <2>3, <2>4
  <2>6. s = s \o t
    BY ONLY <2>3, <2>4, <2>5, SameSeq
  <2>7. QED
    BY ONLY <2>2, <2>6
<1>12. Done(Len(<<>>), b) = 0 /\ Len(<<>>) = 0 /\ 0 * b = 0
  BY DEF Done
<1>13. Absorbed(d, <<>>, b, n, 0)
  <2>1. (0 = 0) = TRUE
    OBVIOUS
  <2>2. QED
    BY ONLY <1>9, <1>10, <1>11, <1>12, <2>1 DEF Absorbed
<1>14. SkeinState(d, <<>>, b, n)
  <2>1. \A j \in 1..0 : d.buf[j] = <<>>[(0 * b) + j]
    OBVIOUS
  <2>2. 0 = 0 - 0
    OBVIOUS
  <2>3. QED
    BY ONLY <1>2, <1>9, <1>12, <1>13, <2>1, <2>2 DEF SkeinState
<1>15. QED
  BY ONLY <1>8, <1>14

\* A message has one block more than are compressed before it ends.
LEMMA NumberOfBlocks ==
  ASSUME NEW b \in Nat \ {0}, NEW o \in Nat
  PROVE  (IF o = 0 THEN 1 ELSE (o + b - 1) \div b) = Done(o, b) + 1
<1>1. CASE o = 0
  BY <1>1 DEF Done
<1>2. CASE o # 0
  <2> DEFINE q == (o - 1) \div b  r == (o - 1) % b
  <2>1. q \in Nat /\ r \in 0..(b - 1) /\ o - 1 = (q * b) + r
    <3>1. o - 1 \in Nat
      BY <1>2
    <3>2. QED
      BY <3>1, DivMod
  <2>2. Done(o, b) = q
    BY <1>2 DEF Done
  <2> HIDE DEF q, r
  <2>3. q + 1 \in Nat /\ (q + 1) * b = (q * b) + b
    <3>1. (q + 1) * b = (q * b) + (1 * b) /\ 1 * b = b
      BY ONLY <2>1, b \in Nat \ {0}, 1 \in Nat, Distributes
    <3>2. QED
      BY ONLY <2>1, <3>1
  <2>4. o + b - 1 = ((q + 1) * b) + r
    <3>1. q * b \in Nat
      BY ONLY <2>1, b \in Nat \ {0}
    <3>2. PICK z \in Nat : z = q * b
      BY ONLY <3>1
    <3>3. o - 1 = z + r
      BY ONLY <2>1, <3>2
    <3>4. o + b - 1 = (z + b) + r
      BY ONLY <2>1, <3>3, o \in Nat, b \in Nat \ {0}, z \in Nat
    <3>5. QED
      BY ONLY <2>3, <3>2, <3>4
  <2>5. PICK h \in Nat, len \in Nat : h = q + 1 /\ len = o + b - 1
    <3>1. o + b - 1 \in Nat
      OBVIOUS
    <3>2. QED
      BY ONLY <2>3, <3>1
  <2>6. len = (h * b) + r
    BY ONLY <2>4, <2>5
  <2>7. len \div b = h
    BY ONLY b \in Nat \ {0}, h \in Nat, <2>1, <2>6, Quotient
  <2>8. QED
    BY ONLY <1>2, <2>2, <2>5, <2>7
<1>3. QED
  BY <1>1, <1>2

\* The last block.
Last(r, m, b, k, o) ==
  r = [block |-> Block(m, b, k + 1), pos |-> o, type |-> "msg", first |-> (k = 0), final |-> TRUE]

\* The blocks of a message are those that are full before it ends, and the last.
LEMMA LastBlock ==
  ASSUME NEW b \in Nat \ {0}, NEW m, IsSeq(m), NEW o \in Nat, o = Len(m),
         NEW k \in Nat, k = Done(o, b), NEW r, Last(r, m, b, k, o)
  PROVE  MessageBlocks(m, b) = Full(m, b, k) \o <<r>> /\ IsSeq(MessageBlocks(m, b))
<1>1. (m = <<>>) <=> (o = 0)
  <2>1. <<>> = [j \in 1..0 |-> <<>>[j]] /\ Len(<<>>) = 0
    OBVIOUS
  <2>2. PICK z : z = <<>>
    OBVIOUS
  <2>3. IsSeq(z) /\ Len(z) = 0
    BY ONLY <2>1, <2>2 DEF IsSeq
  <2>4. ASSUME o = 0 PROVE m = z
    <3>1. \A j \in 1..Len(m) : m[j] = z[j]
      BY <2>4
    <3>2. Len(m) = Len(z)
      BY <2>3, <2>4
    <3>3. QED
      BY ONLY IsSeq(m), <2>3, <3>1, <3>2, SameSeq
  <2>5. QED
    BY ONLY o = Len(m), <2>2, <2>3, <2>4
<1>2. PICK h \in Nat : h = k + 1
  OBVIOUS
<1>3. (IF m = <<>> THEN 1 ELSE (Len(m) + b - 1) \div b) = h
  <2>1. (IF o = 0 THEN 1 ELSE (o + b - 1) \div b) = Done(o, b) + 1
    BY ONLY b \in Nat \ {0}, o \in Nat, NumberOfBlocks
  <2>2. CASE o = 0
    BY ONLY <1>1, <1>2, <2>1, <2>2, k = Done(o, b)
  <2>3. CASE o # 0
    BY ONLY o = Len(m), <1>1, <1>2, <2>1, <2>3, k = Done(o, b)
  <2>4. QED
    BY <2>2, <2>3
<1> DEFINE t == [i \in 1..h |-> [block |-> Block(m, b, i), pos |-> IF i = h THEN Len(m) ELSE i * b,
                                 type |-> "msg", first |-> (i = 1), final |-> (i = h)]]
<1>4. MessageBlocks(m, b) = t
  BY ONLY <1>3 DEF MessageBlocks
<1>5. IsSeq(t) /\ Len(t) = h
  <2>1. t = [i \in 1..h |-> t[i]]
    OBVIOUS
  <2> HIDE DEF t
  <2>2. QED
    BY ONLY h \in Nat, <2>1, Listing
<1>6. ASSUME NEW i \in 1..k PROVE t[i] = Full(m, b, k)[i]
  <2>1. i \in 1..h /\ i # h
    BY ONLY k \in Nat, h \in Nat, <1>2, i \in 1..k
  <2>2. t[i] = [block |-> Block(m, b, i), pos |-> i * b, type |-> "msg", first |-> (i = 1), final |-> FALSE]
    BY ONLY <2>1
  <2>3. QED
    BY ONLY <2>2, i \in 1..k DEF Full
<1>7. t[h] = r
  <2>1. h \in 1..h /\ ((h = 1) = (k = 0))
    BY ONLY k \in Nat, h \in Nat, <1>2
  <2>2. t[h] = [block |-> Block(m, b, h), pos |-> Len(m), type |-> "msg", first |-> (h = 1), final |-> TRUE]
    BY ONLY <2>1
  <2>3. r = [block |-> Block(m, b, h), pos |-> Len(m), type |-> "msg", first |-> (h = 1), final |-> TRUE]
    BY ONLY <1>2, <2>1, o = Len(m), Last(r, m, b, k, o) DEF Last
  <2> HIDE DEF t
  <2>4. QED
    BY ONLY <2>2, <2>3
<1> HIDE DEF t
<1>8. PICK f, s : f = Full(m, b, k) /\ s = <<r>>
  OBVIOUS
<1>9. IsSeq(f) /\ Len(f) = k /\ IsSeq(s) /\ Len(s) = 1 /\ s[1] = r
  BY ONLY k \in Nat, <1>8, FullIs, OneIs
<1>10. /\ IsSeq(f \o s) /\ Len(f \o s) = Len(f) + Len(s)
       /\ (\A j \in 1..Len(f) : (f \o s)[j] = f[j]) /\ \A j \in 1..Len(s) : (f \o s)[Len(f) + j] = s[j]
  <2>1. IsSeq(f) /\ IsSeq(s)
    BY ONLY <1>9
  <2>2. QED
    BY ONLY <2>1, Glued
<1>11. ASSUME NEW i \in 1..h PROVE t[i] = (f \o s)[i]
  <2>1. CASE i = h
    <3>1. (f \o s)[k + 1] = s[1]
      BY ONLY <1>9, <1>10
    <3>2. QED
      BY ONLY <1>2, <1>7, <1>9, <2>1, <3>1
  <2>2. CASE i # h
    <3>1. i \in 1..k
      BY ONLY k \in Nat, h \in Nat, <1>2, <2>2, i \in 1..h
    <3>2. QED
      BY ONLY <1>6, <1>8, <1>9, <1>10, <3>1
  <2>3. QED
    BY <2>1, <2>2
<1>12. Len(t) = Len(f \o s)
  BY ONLY <1>2, <1>5, <1>9, <1>10
<1>13. t = f \o s
  BY ONLY <1>5, <1>10, <1>11, <1>12, SameSeq
<1>14. QED
  BY ONLY <1>4, <1>5, <1>8, <1>13

\* What the digest is made from.
Ended(c, m, b, n) ==
  /\ IsSkein(c) /\ c.chain = Configuration(n) \o MessageBlocks(m, b)
  /\ IsSeq(c.buf) /\ Len(c.buf) = b

\* A context of which the buffer is replaced.
LEMMA ClearedIs ==
  ASSUME NEW ch, NEW po, NEW ty, NEW fi, NEW la, NEW bu, NEW co, NEW full, NEW z, z = 0
  PROVE  Cleared(Context(ch, po, ty, fi, la, bu, co), full) = Context(ch, po, ty, fi, la, full, z)
<1> DEFINE c == Context(ch, po, ty, fi, la, bu, co)
<1>1. [c EXCEPT !.buf = full] = Context(ch, po, ty, fi, la, full, co)
  BY ONLY Fields DEF c
<1>2. [Context(ch, po, ty, fi, la, full, co) EXCEPT !.count = z] = Context(ch, po, ty, fi, la, full, z)
  BY ONLY Fields
<1>3. Cleared(c, full) = [c EXCEPT !.buf = full, !.count = z]
  BY DEF Cleared
<1> HIDE DEF c
<1>4. Cleared(c, full) = Context(ch, po, ty, fi, la, full, z)
  BY ONLY <1>1, <1>2, <1>3
<1>5. QED
  BY ONLY <1>4 DEF c

\* skein_final compresses the last block of the message.
LEMMA SkeinFinals ==
  ASSUME NEW b \in Nat \ {0}, NEW n, NEW m, IsSeq(m), NEW c, SkeinState(c, m, b, n)
  PROVE  Ended(SkeinFinal(c), m, b, n)
<1>1. PICK o \in Nat : o = Len(m)
  BY DEF IsSeq
<1>2. PICK k \in Nat, a \in Nat : k = Done(o, b) /\ a = k * b
  <2>1. Done(o, b) \in Nat /\ Done(o, b) * b \in Nat
    BY DoneParts
  <2>2. QED
    BY <2>1
<1>3. PICK e \in 0..b : e = o - a /\ o = a + e
  <2>1. (o = 0 => a = 0) /\ (o > 0 => o - a \in 1..b)
    BY ONLY b \in Nat \ {0}, o \in Nat, <1>2, DoneParts
  <2>2. o - a \in 0..b /\ o = a + (o - a)
    BY ONLY b \in Nat \ {0}, o \in Nat, a \in Nat, <2>1
  <2>3. QED
    BY ONLY <2>2
<1>4. /\ Absorbed(c, m, b, n, k) /\ c.count = e /\ IsSeq(c.buf) /\ Len(c.buf) = b
      /\ \A j \in 1..e : c.buf[j] = m[a + j]
  BY <1>1, <1>2, <1>3 DEF SkeinState
<1>5. PICK ch, po, ty, fi, la, bu, co :
        /\ ch = c.chain /\ po = c.pos /\ ty = c.type /\ fi = c.first
        /\ la = c.final /\ bu = c.buf /\ co = c.count
  OBVIOUS
<1>6. c = Context(ch, po, ty, fi, la, bu, co)
  BY ONLY <1>4, <1>5 DEF Absorbed, IsSkein
<1>7. /\ ch = Configuration(n) \o Full(m, b, k) /\ po = a /\ ty = "msg" /\ fi = (k = 0) /\ YesNo(fi)
      /\ IsSeq(bu) /\ Len(bu) = b /\ co = e /\ \A j \in 1..e : bu[j] = m[a + j]
  <2>1. fi = (k = 0) /\ (k = 0) \in BOOLEAN
    BY ONLY <1>2, <1>4, <1>5 DEF Absorbed
  <2>2. YesNo(fi)
    BY ONLY <2>1 DEF YesNo
  <2>3. QED
    BY ONLY <1>2, <1>4, <1>5, <2>1, <2>2 DEF Absorbed
<1>8. PICK yes, no : Yes(yes) /\ No(no)
  BY DEF Yes, No
<1>9. [c EXCEPT !.final = TRUE] = Context(ch, po, ty, fi, yes, bu, co)
  <2>1. [c EXCEPT !.final = yes] = Context(ch, po, ty, fi, yes, bu, co)
    BY ONLY <1>6, Fields
  <2>2. QED
    BY ONLY <1>8, <2>1 DEF Yes
<1>10. PICK padded : padded = [j \in DOMAIN c.buf |-> IF j > c.count THEN Zero ELSE c.buf[j]]
  OBVIOUS
<1>11. padded = Block(m, b, k + 1)
  <2>1. DOMAIN bu = 1..b
    BY ONLY <1>7 DEF IsSeq
  <2>2. padded = [j \in 1..b |-> IF j > e THEN Zero ELSE bu[j]]
    BY ONLY <1>5, <1>7, <1>10, <2>1
  <2>3. Block(m, b, k + 1) = [j \in 1..b |-> IF a + j <= o THEN m[a + j] ELSE Zero]
    <3>1. ((k + 1) - 1) = k
      BY ONLY <1>2, k \in Nat
    <3>2. QED
      BY ONLY <1>1, <1>2, <3>1 DEF Block
  <2>4. ASSUME NEW j \in 1..b
        PROVE  (IF j > e THEN Zero ELSE bu[j]) = (IF a + j <= o THEN m[a + j] ELSE Zero)
    <3>1. (j > e) <=> ~(a + j <= o)
      BY ONLY <1>3, a \in Nat, o \in Nat, b \in Nat \ {0}, e \in 0..b, j \in 1..b
    <3>2. CASE j > e
      BY ONLY <3>1, <3>2
    <3>3. CASE ~(j > e)
      <4>1. j \in 1..e
        BY ONLY b \in Nat \ {0}, e \in 0..b, j \in 1..b, <3>3
      <4>2. bu[j] = m[a + j]
        BY ONLY <1>7, <4>1
      <4>3. QED
        BY ONLY <3>1, <3>3, <4>2
    <3>4. QED
      BY ONLY <3>2, <3>3
  <2>5. QED
    BY ONLY <2>2, <2>3, <2>4
<1>12. PICK bl, r : Single(bl, padded) /\ Entry(r, padded, o, ty, fi, yes)
  BY DEF Single, Entry
<1>13. Goes(bl, padded, r, po, e, o, ty, fi, yes, no)
  <2>1. po \in Nat /\ e \in Nat /\ o = po + e
    BY ONLY <1>3, <1>7, a \in Nat, b \in Nat \ {0}, e \in 0..b
  <2>2. QED
    BY ONLY <1>7, <1>8, <1>12, <2>1 DEF Goes
<1>14. Compressed([c EXCEPT !.final = TRUE], <<padded>>, c.count)
         = Context(ch \o <<r>>, o, ty, no, yes, bu, co)
  <2>1. Compressed(Context(ch, po, ty, fi, yes, bu, co), bl, e) = Context(ch \o <<r>>, o, ty, no, yes, bu, co)
    BY ONLY <1>13, CompressedOne
  <2>2. bl = <<padded>> /\ e = c.count
    BY ONLY <1>4, <1>12 DEF Single
  <2>3. QED
    BY ONLY <1>9, <2>1, <2>2
<1>15. PICK zeros, z : zeros = [j \in DOMAIN c.buf |-> Zero] /\ z = 0
  OBVIOUS
<1>16. IsSeq(zeros) /\ Len(zeros) = b
  <2>1. DOMAIN c.buf = 1..b
    BY ONLY <1>4 DEF IsSeq
  <2>2. zeros = [j \in 1..b |-> zeros[j]]
    BY ONLY <1>15, <2>1
  <2>3. b \in Nat
    OBVIOUS
  <2>4. QED
    BY ONLY <2>2, <2>3, Listing
<1>17. PICK d : d = SkeinFinal(c)
  OBVIOUS
<1>18. d = Cleared(Context(ch \o <<r>>, o, ty, no, yes, bu, co), zeros)
  BY ONLY <1>10, <1>14, <1>15, <1>17 DEF SkeinFinal, Cleared
<1>19. d = Context(ch \o <<r>>, o, ty, no, yes, zeros, z)
  BY ONLY <1>15, <1>18, ClearedIs
<1>20. /\ d.chain = ch \o <<r>> /\ d.pos = o /\ d.type = ty /\ d.first = no
       /\ d.final = yes /\ d.buf = zeros /\ d.count = z
  BY ONLY <1>19 DEF Context
<1>21. IsSkein(d)
  BY ONLY <1>19, <1>20 DEF IsSkein
<1>22. Last(r, m, b, k, o)
  BY ONLY <1>7, <1>8, <1>11, <1>12 DEF Last, Entry, Yes
<1>23. MessageBlocks(m, b) = Full(m, b, k) \o <<r>>
  BY ONLY b \in Nat \ {0}, IsSeq(m), o \in Nat, k \in Nat, <1>1, <1>2, <1>22, LastBlock
<1>24. ch \o <<r>> = Configuration(n) \o MessageBlocks(m, b)
  <2>1. PICK s, f, t : s = Configuration(n) /\ f = Full(m, b, k) /\ t = <<r>>
    OBVIOUS
  <2>2. IsSeq(s) /\ IsSeq(f) /\ IsSeq(t)
    BY ONLY k \in Nat, <2>1, ConfigurationIs, FullIs, OneIs
  <2>3. (s \o f) \o t = s \o (f \o t)
    BY ONLY <2>2, GluedTwice
  <2>4. QED
    BY ONLY <1>7, <1>23, <2>1, <2>3
<1>25. QED
  BY ONLY <1>16, <1>17, <1>20, <1>21, <1>24 DEF Ended

\* skein_output: each block of output from the state the message left.
LEMMA SkeinOutputs ==
  ASSUME NEW b, NEW n, NEW m, NEW c, Ended(c, m, b, n)
  PROVE  SkeinOutput(c, n) = SkeinOf(m, b, n)
<1>1. PICK ch, po, ty, fi, la, bu, co :
        /\ ch = c.chain /\ po = c.pos /\ ty = c.type /\ fi = c.first
        /\ la = c.final /\ bu = c.buf /\ co = c.count
  OBVIOUS
<1>2. c = Context(ch, po, ty, fi, la, bu, co)
  BY ONLY Ended(c, m, b, n), <1>1 DEF Ended, IsSkein
<1>3. ch = Configuration(n) \o MessageBlocks(m, b) /\ Len(c.buf) = b
  BY ONLY Ended(c, m, b, n), <1>1 DEF Ended
<1> DEFINE out(i) == Compressed(Tweaked(c, "out", TRUE), << <<i>> >>, 8).chain
<1>4. ASSUME NEW i PROVE out(i) = (Configuration(n) \o MessageBlocks(m, b)) \o OutputBlock(i)
  <2>1. PICK yes, no : Yes(yes) /\ No(no) /\ YesNo(yes)
    BY DEF Yes, No, YesNo
  <2>2. PICK type, x : type = "out" /\ x = <<i>>
    OBVIOUS
  <2>3. PICK z \in Nat, add \in Nat : z = 0 /\ add = 8 /\ add = z + add
    OBVIOUS
  <2>4. PICK bl, r : Single(bl, x) /\ Entry(r, x, add, type, yes, yes)
    BY DEF Single, Entry
  <2>5. Goes(bl, x, r, z, add, add, type, yes, yes, no)
    BY ONLY z \in Nat, add \in Nat, <2>1, <2>3, <2>4 DEF Goes
  <2>6. Tweaked(c, "out", TRUE) = Context(ch, z, type, yes, yes, bu, co)
    <3>1. Tweaked(Context(ch, po, ty, fi, la, bu, co), type, yes) = Context(ch, 0, type, yes, yes, bu, co)
      BY ONLY <2>1, TweakedIs
    <3>2. Tweaked(c, type, yes) = Tweaked(c, "out", TRUE)
      BY ONLY <2>1, <2>2 DEF Yes
    <3>3. QED
      BY ONLY <1>2, <2>3, <3>1, <3>2
  <2>7. Compressed(Context(ch, z, type, yes, yes, bu, co), bl, add)
          = Context(ch \o <<r>>, add, type, no, yes, bu, co)
    BY ONLY <2>5, CompressedOne
  <2>8. PICK d : d = Context(ch \o <<r>>, add, type, no, yes, bu, co)
    OBVIOUS
  <2>9. d.chain = ch \o <<r>>
    BY ONLY <2>8 DEF Context
  <2>10. bl = << <<i>> >>
    BY ONLY <2>2, <2>4 DEF Single
  <2>11. out(i) = d.chain
    BY ONLY <2>3, <2>6, <2>7, <2>8, <2>10 DEF out
  <2>12. <<r>> = OutputBlock(i)
    BY ONLY <2>1, <2>2, <2>3, <2>4 DEF OutputBlock, Entry, Yes
  <2>13. QED
    BY ONLY <1>3, <2>9, <2>11, <2>12
<1>5. SkeinOutput(c, n) = [j \in 1..((n + 7) \div 8) |-> <<((j - 1) % b) + 1, out((j - 1) \div b)>>]
  BY ONLY <1>3 DEF SkeinOutput, out
<1>6. SkeinOf(m, b, n) =
        [j \in 1..((n + 7) \div 8) |->
          <<((j - 1) % b) + 1,
            (Configuration(n) \o MessageBlocks(m, b)) \o OutputBlock((j - 1) \div b)>>]
  BY DEF SkeinOf
<1> HIDE DEF out
<1>7. QED
  BY ONLY <1>4, <1>5, <1>6

-----------------------------------------------------------------------------
(* The handle *)

\* While a message comes the context holds it, and a digest is that of the message.
Skeins == {Skein256, Skein512, Skein1024}

SkeinHolds ==
  hash.alg = "skein" /\ phase = "open" =>
    IsSeq(message) /\ SkeinState(ctx, message, hash.bytes, bits)

SkeinInv == hash \in Skeins \cup {None, Sha1} /\ SkeinHolds /\ SkeinDigest

\* The block of a Skein has bytes.
LEMMA SkeinBytes ==
  ASSUME NEW h \in Skeins \cup {None, Sha1}
  PROVE  h.alg = "skein" => h.bytes \in Nat \ {0}
BY HashAssumption DEF Skeins, Skein256, Skein512, Skein1024, None, Sha1

LEMMA SkeinAtInit == Init => SkeinInv
BY DEF Init, SkeinInv, SkeinHolds, SkeinDigest, None

\* A reset handle has an empty message.
LEMMA SkeinAtReset ==
  ASSUME NEW h \in Skeins \cup {None, Sha1}, NEW n, NEW buf, Reset(h, n, buf), hash' = h, bits' = n
  PROVE  SkeinInv'
<1>1. phase' = "open" /\ message' = <<>> /\ (h.alg = "skein" => ctx' = SkeinInit(h.bytes, n))
  BY DEF Reset
<1>2. ASSUME h.alg = "skein" PROVE IsSeq(message') /\ SkeinState(ctx', message', h.bytes, n)
  <2>1. PICK b \in Nat \ {0} : b = h.bytes
    BY SkeinBytes, <1>2
  <2>2. SkeinState(SkeinInit(b, n), <<>>, b, n)
    BY ONLY b \in Nat \ {0}, SkeinInits
  <2>3. <<>> = [j \in 1..0 |-> <<>>[j]] /\ Len(<<>>) = 0
    OBVIOUS
  <2>4. IsSeq(message')
    BY ONLY <1>1, <2>3 DEF IsSeq
  <2>5. QED
    BY ONLY <1>1, <1>2, <2>1, <2>2, <2>4
<1>3. SkeinHolds'
  BY <1>2 DEF SkeinHolds
<1>4. SkeinDigest'
  BY <1>1 DEF SkeinDigest
<1>5. QED
  BY <1>3, <1>4 DEF SkeinInv

\* Bytes of the caller are a sequence.
LEMMA PassingIs ==
  ASSUME NEW n \in Nat
  PROVE  IsSeq(Passing(n))
<1>1. Passing(n) = [j \in 1..n |-> Passing(n)[j]]
  BY DEF Passing
<1>2. QED
  BY ONLY n \in Nat, <1>1, Listing

LEMMA SkeinAtUpdate ==
  ASSUME SkeinInv, NEW n \in Nat, HashUpdate(n)
  PROVE  SkeinInv'
<1>1. /\ phase = "open" /\ phase' = phase /\ hash' = hash /\ bits' = bits /\ digest' = digest
      /\ message' = message \o Passing(n)
      /\ hash.alg = "skein" => ctx' = SkeinUpdate(ctx, Passing(n))
  BY DEF HashUpdate
<1>2. ASSUME hash.alg = "skein" PROVE IsSeq(message') /\ SkeinState(ctx', message', hash.bytes, bits)
  <2>1. PICK b \in Nat \ {0} : b = hash.bytes
    BY SkeinBytes, <1>2 DEF SkeinInv
  <2>2. PICK x, m, c, k : x = Passing(n) /\ m = message /\ c = ctx /\ k = bits
    OBVIOUS
  <2>3. IsSeq(m) /\ SkeinState(c, m, b, k)
    BY <1>1, <1>2, <2>1, <2>2 DEF SkeinInv, SkeinHolds
  <2>4. IsSeq(x)
    BY <2>2, PassingIs
  <2>5. SkeinState(SkeinUpdate(c, x), m \o x, b, k)
    BY ONLY b \in Nat \ {0}, <2>3, <2>4, SkeinUpdates
  <2>6. IsSeq(m \o x)
    BY ONLY <2>3, <2>4, Glued
  <2>7. QED
    BY ONLY <1>1, <1>2, <2>1, <2>2, <2>5, <2>6
<1>3. SkeinHolds'
  BY <1>1, <1>2 DEF SkeinHolds
<1>4. SkeinDigest' /\ hash' \in Skeins \cup {None, Sha1}
  BY <1>1 DEF SkeinDigest, SkeinInv
<1>5. QED
  BY <1>3, <1>4 DEF SkeinInv

LEMMA SkeinAtFinal ==
  ASSUME SkeinInv, HashFinal
  PROVE  SkeinInv'
<1>1. /\ phase = "open" /\ phase' = "final" /\ hash' = hash /\ bits' = bits /\ message' = message
      /\ hash.alg = "skein" => ctx' = SkeinFinal(ctx) /\ digest' = SkeinOutput(ctx', bits)
  BY DEF HashFinal
<1>2. ASSUME hash.alg = "skein" PROVE digest' = SkeinOf(message, hash.bytes, bits)
  <2>1. PICK b \in Nat \ {0} : b = hash.bytes
    BY SkeinBytes, <1>2 DEF SkeinInv
  <2>2. PICK m, c, k, d : m = message /\ c = ctx /\ k = bits /\ d = SkeinFinal(c)
    OBVIOUS
  <2>3. IsSeq(m) /\ SkeinState(c, m, b, k)
    BY <1>1, <1>2, <2>1, <2>2 DEF SkeinInv, SkeinHolds
  <2>4. Ended(d, m, b, k)
    BY ONLY b \in Nat \ {0}, <2>2, <2>3, SkeinFinals
  <2>5. SkeinOutput(d, k) = SkeinOf(m, b, k)
    BY ONLY <2>4, SkeinOutputs
  <2>6. QED
    BY ONLY <1>1, <1>2, <2>1, <2>2, <2>5
<1>3. SkeinDigest'
  BY <1>1, <1>2 DEF SkeinDigest
<1>4. SkeinHolds' /\ hash' \in Skeins \cup {None, Sha1}
  BY <1>1 DEF SkeinHolds, SkeinInv
<1>5. QED
  BY <1>3, <1>4 DEF SkeinInv

LEMMA SkeinStep == SkeinInv /\ [Next]_vars => SkeinInv'
<1> SUFFICES ASSUME SkeinInv, [Next]_vars PROVE SkeinInv'
  OBVIOUS
<1>1. ASSUME NEW h \in Skeins \cup {Sha1}, NEW n, HashInit(h, n) PROVE SkeinInv'
  BY <1>1, SkeinAtReset DEF HashInit
<1>2. CASE HashReset
  BY <1>2, SkeinAtReset DEF HashReset, SkeinInv
<1>3. CASE HashFinal
  BY <1>3, SkeinAtFinal
<1>4. CASE HashFinish
  <2>1. hash' = None /\ None.alg # "skein"
    BY <1>4 DEF HashFinish, None
  <2>2. QED
    BY ONLY <2>1 DEF SkeinInv, SkeinHolds, SkeinDigest
<1>5. ASSUME NEW n \in 0..MaxCall, HashUpdate(n) PROVE SkeinInv'
  <2>1. n \in Nat
    BY HashAssumption
  <2>2. QED
    BY <1>5, <2>1, SkeinAtUpdate
<1>6. CASE Derive \/ Forget
  <2>1. phase' \in {"simple", "derived", "idle"} /\ hash' = hash
    BY <1>6 DEF Derive, DeriveSimple, DeriveSkein, Forget
  <2>2. QED
    BY <2>1 DEF SkeinInv, SkeinHolds, SkeinDigest
<1>7. CASE UNCHANGED vars
  BY <1>7 DEF vars, SkeinInv, SkeinHolds, SkeinDigest
<1>8. QED
  BY <1>1, <1>2, <1>3, <1>4, <1>5, <1>6, <1>7 DEF Next, Skeins

\* However a message is cut into calls of skein_update, for every size of block,
\* message and call, its digest is Skein's (hash.c:99, skein256.c:120).
THEOREM SkeinIsExact == Spec => []SkeinDigest
<1>1. SkeinInv => SkeinDigest
  BY DEF SkeinInv
<1>2. QED
  BY SkeinAtInit, SkeinStep, <1>1, PTL DEF Spec

-----------------------------------------------------------------------------
(* Key derivation *)

\* Less-than on the numbers, as a relation.
Less == {ss \in Nat \X Nat : ss[1] < ss[2]}

\* What holds at 0 and goes over from each number to the next holds up to n.
LEMMA UpTo ==
  ASSUME NEW n \in Nat, NEW H, 0 \in H, \A i \in 1..n : i - 1 \in H => i \in H
  PROVE  0..n \subseteq H
<1> DEFINE T == {i \in 0..n : i \notin H}
<1>1. SUFFICES ASSUME T # {} PROVE FALSE
  OBVIOUS
<1>2. T \subseteq Nat
  OBVIOUS
<1>3. IsWellFoundedOn(Less, Nat)
  BY NatLessThanWellFounded DEF OpToRel, Less
<1>4. PICK x \in T : \A y \in T : <<y, x>> \notin Less
  BY <1>1, <1>2, <1>3, WFMin
<1>5. x \in 1..n /\ x - 1 \in 0..n
  BY <1>4
<1>6. <<x - 1, x>> \in Less
  BY <1>5 DEF Less
<1>7. x - 1 \in H
  BY <1>4, <1>5, <1>6
<1>8. QED
  BY <1>4, <1>5, <1>7

\* One message is hashed.
LEMMA HashedIs ==
  ASSUME NEW b \in Nat \ {0}, NEW n, NEW m, IsSeq(m)
  PROVE  Ended(SkeinFinal(SkeinUpdate(SkeinInit(b, n), m)), m, b, n)
<1>1. PICK e, c, d : e = <<>> /\ c = SkeinInit(b, n) /\ d = SkeinUpdate(c, m)
  OBVIOUS
<1>2. IsSeq(e) /\ Len(e) = 0
  <2>1. <<>> = [j \in 1..0 |-> <<>>[j]] /\ Len(<<>>) = 0
    OBVIOUS
  <2>2. QED
    BY ONLY <1>1, <2>1 DEF IsSeq
<1>3. SkeinState(c, e, b, n)
  BY ONLY b \in Nat \ {0}, <1>1, SkeinInits
<1>4. SkeinState(d, e \o m, b, n)
  BY ONLY b \in Nat \ {0}, IsSeq(m), <1>1, <1>2, <1>3, SkeinUpdates
<1>5. e \o m = m
  <2>1. /\ IsSeq(e \o m) /\ Len(e \o m) = Len(e) + Len(m)
        /\ \A k \in 1..Len(m) : (e \o m)[Len(e) + k] = m[k]
    BY ONLY IsSeq(m), <1>2, Glued
  <2>2. Len(e \o m) = Len(m) /\ Len(m) \in Nat
    BY ONLY IsSeq(m), <1>2, <2>1 DEF IsSeq
  <2>3. ASSUME NEW k \in 1..Len(m) PROVE (e \o m)[k] = m[k]
    <3>1. Len(e) + k = k
      BY ONLY <1>2, <2>2, k \in 1..Len(m)
    <3>2. QED
      BY ONLY <2>1, <3>1, k \in 1..Len(m)
  <2>4. QED
    BY ONLY IsSeq(m), <2>1, <2>2, <2>3, SameSeq
<1>6. QED
  BY ONLY b \in Nat \ {0}, IsSeq(m), <1>1, <1>4, <1>5, SkeinFinals

\* A round of a key derivation.
Round(c) == SkeinFinal(SkeinUpdate(Again(c), SkeinOutput(c, DigestBits)))

\* Rounds are defined, as many as are asked for.
LEMMA RoundsAre ==
  ASSUME NEW n \in Nat, NEW a
  PROVE  \E F : F = [k \in 0..n |-> IF k = 0 THEN a ELSE Round(F[k - 1])]
<1> DEFINE Good(k, F) == F = [i \in 0..k |-> IF i = 0 THEN a ELSE Round(F[i - 1])]
           H == {k \in 0..n : \E F : Good(k, F)}
<1>1. 0 \in H
  <2> DEFINE F == [i \in 0..0 |-> a]
  <2>1. F = [i \in 0..0 |-> IF i = 0 THEN a ELSE Round(F[i - 1])]
    OBVIOUS
  <2> HIDE DEF F
  <2>2. \E E : Good(0, E)
    BY <2>1
  <2>3. QED
    BY <2>2
<1>2. ASSUME NEW k \in 1..n, k - 1 \in H
      PROVE  k \in H
  <2>1. PICK F : F = [i \in 0..(k - 1) |-> IF i = 0 THEN a ELSE Round(F[i - 1])]
    BY <1>2
  <2> DEFINE G == [i \in 0..k |-> IF i = k THEN Round(F[k - 1]) ELSE F[i]]
  <2>2. ASSUME NEW i \in 0..k PROVE G[i] = IF i = 0 THEN a ELSE Round(G[i - 1])
    <3>1. CASE i = 0
      <4>1. i # k /\ i \in 0..(k - 1)
        BY <3>1
      <4>2. G[i] = F[i] /\ F[i] = a
        BY <2>1, <3>1, <4>1
      <4>3. QED
        BY <3>1, <4>2
    <3>2. CASE i = k
      <4>1. i # 0 /\ i - 1 \in 0..k /\ i - 1 # k
        BY <3>2
      <4>2. G[i - 1] = F[i - 1]
        BY <4>1
      <4>3. QED
        BY <3>2, <4>1, <4>2
    <3>3. CASE i # 0 /\ i # k
      <4>1. i \in 0..(k - 1) /\ i - 1 \in 0..k /\ i - 1 # k
        BY <3>3
      <4>2. G[i] = F[i] /\ G[i - 1] = F[i - 1]
        BY <3>3, <4>1
      <4>3. F[i] = Round(F[i - 1])
        BY <2>1, <3>3, <4>1
      <4>4. QED
        BY <3>3, <4>2, <4>3
    <3>4. QED
      BY <3>1, <3>2, <3>3
  <2>3. G = [i \in 0..k |-> G[i]]
    OBVIOUS
  <2> HIDE DEF G
  <2>4. Good(k, G)
    BY <2>2, <2>3
  <2>5. \E E : Good(k, E)
    BY <2>4
  <2> HIDE DEF Good
  <2>6. k \in 0..n
    OBVIOUS
  <2>7. QED
    BY <2>5, <2>6
<1>3. 0..n \subseteq H
  <2> HIDE DEF H
  <2>1. QED
    BY <1>1, <1>2, UpTo
<1>4. n \in H
  BY <1>3
<1>5. QED
  BY <1>4

\* A digest is a sequence.
LEMMA OutputIs ==
  ASSUME NEW c, NEW n \in Nat
  PROVE  IsSeq(SkeinOutput(c, n))
<1>1. PICK l \in Nat : l = (n + 7) \div 8
  BY DivMod
<1>2. PICK s : s = SkeinOutput(c, n)
  OBVIOUS
<1>3. s = [j \in 1..l |-> s[j]]
  BY <1>1, <1>2 DEF SkeinOutput
<1>4. QED
  BY ONLY l \in Nat, <1>2, <1>3, Listing

\* The key of a message is its digest, and the digest of that, and so on.
LEMMA StretchedIs ==
  ASSUME NEW m, IsSeq(m), NEW n \in Nat
  PROVE  Stretched(m, n) = KeyOf(m, n) /\ IsSeq(Stretched(m, n))
<1> DEFINE B == Bytes1024
           start == SkeinFinal(SkeinUpdate(SkeinInit(B, DigestBits), m))
           f == CHOOSE f : f = [k \in 0..n |-> IF k = 0 THEN start ELSE Round(f[k - 1])]
           g == CHOOSE g : g = [k \in 0..n |-> SkeinOf(IF k = 0 THEN m ELSE g[k - 1], B, DigestBits)]
           G == [k \in 0..n |-> SkeinOutput(f[k], DigestBits)]
<1>1. Stretched(m, n) = SkeinOutput(f[n], DigestBits)
  BY DEF Stretched, Round
<1>2. KeyOf(m, n) = g[n]
  BY DEF KeyOf
<1>3. B \in Nat \ {0} /\ DigestBits \in Nat
  BY HashAssumption DEF DigestBits
<1> HIDE DEF B
<1>4. Ended(start, m, B, DigestBits)
  BY ONLY IsSeq(m), <1>3, HashedIs DEF start
<1> HIDE DEF start
<1>5. f = [k \in 0..n |-> IF k = 0 THEN start ELSE Round(f[k - 1])]
  BY RoundsAre
<1> HIDE DEF f
<1>6. ASSUME NEW c PROVE Ended(Round(c), SkeinOutput(c, DigestBits), B, DigestBits)
  <2>1. IsSeq(SkeinOutput(c, DigestBits))
    BY <1>3, OutputIs
  <2>2. PICK x : x = SkeinOutput(c, DigestBits)
    OBVIOUS
  <2>3. Round(c) = SkeinFinal(SkeinUpdate(SkeinInit(B, DigestBits), x))
    BY ONLY <2>2 DEF Round, Again, B
  <2>4. QED
    BY ONLY <1>3, <2>1, <2>2, <2>3, HashedIs
<1>7. ASSUME NEW k \in 0..n
      PROVE  G[k] = SkeinOf(IF k = 0 THEN m ELSE G[k - 1], B, DigestBits)
  <2>1. CASE k = 0
    <3>1. f[k] = start
      BY <1>5, <2>1
    <3>2. SkeinOutput(start, DigestBits) = SkeinOf(m, B, DigestBits)
      BY ONLY <1>4, SkeinOutputs
    <3>3. QED
      BY <2>1, <3>1, <3>2
  <2>2. CASE k # 0
    <3>1. f[k] = Round(f[k - 1]) /\ k - 1 \in 0..n
      BY <1>5, <2>2
    <3>2. PICK c : c = f[k - 1]
      OBVIOUS
    <3>3. SkeinOutput(Round(c), DigestBits) = SkeinOf(SkeinOutput(c, DigestBits), B, DigestBits)
      BY ONLY <1>6, SkeinOutputs
    <3>4. QED
      BY <2>2, <3>1, <3>2, <3>3
  <2>3. QED
    BY <2>1, <2>2
<1>8. G = [k \in 0..n |-> SkeinOf(IF k = 0 THEN m ELSE G[k - 1], B, DigestBits)]
  <2>1. G = [k \in 0..n |-> G[k]]
    OBVIOUS
  <2> HIDE DEF G
  <2>2. QED
    BY <1>7, <2>1
<1>9. \A k \in 0..n : G[k] = SkeinOutput(f[k], DigestBits)
  OBVIOUS
<1> HIDE DEF G
<1>10. g = [k \in 0..n |-> SkeinOf(IF k = 0 THEN m ELSE g[k - 1], B, DigestBits)]
  BY <1>8 DEF g
<1> HIDE DEF g
<1>11. g[n] = G[n]
  <2> DEFINE H == {k \in 0..n : g[k] = G[k]}
  <2>1. 0 \in H
    BY <1>8, <1>10
  <2>2. ASSUME NEW i \in 1..n, i - 1 \in H PROVE i \in H
    <3>1. g[i] = SkeinOf(g[i - 1], B, DigestBits) /\ G[i] = SkeinOf(G[i - 1], B, DigestBits)
      <4>1. i \in 0..n /\ i # 0
        OBVIOUS
      <4>2. QED
        BY <1>7, <1>10, <4>1
    <3>2. QED
      BY <2>2, <3>1
  <2> HIDE DEF H
  <2>3. 0..n \subseteq H
    BY <2>1, <2>2, UpTo
  <2>4. QED
    BY <2>3 DEF H
<1>12. IsSeq(SkeinOutput(f[n], DigestBits))
  BY <1>3, OutputIs
<1>13. QED
  BY <1>1, <1>2, <1>9, <1>11, <1>12

\* The passwords and salts; a salt is as long as a digest, as in pres.c.
WholeSalts ==
  /\ \A pass \in Passes : IsSeq(pass)
  /\ \A salt \in Salts : IsSeq(salt) /\ Len(salt) = Bytes1024

\* What is cut off at its own length.
LEMMA CutIs ==
  ASSUME NEW s, IsSeq(s), NEW k \in Nat
  PROVE  SubSeq(s, 1, Len(s)) = s /\ Len(SubSeq(s, 1, k)) = k
<1>1. SubSeq(s, 1, k) = [i \in 1..k |-> s[i]]
  <2>1. 1 + k - 1 = k /\ \A i \in 1..k : i + 1 - 1 = i
    OBVIOUS
  <2>2. QED
    BY <2>1
<1>2. PICK t : t = SubSeq(s, 1, k)
  OBVIOUS
<1>3. t = [i \in 1..k |-> t[i]]
  BY <1>1, <1>2
<1>4. Len(t) = k
  BY ONLY k \in Nat, <1>3, Listing
<1>5. SubSeq(s, 1, Len(s)) = s
  <2>1. PICK l \in Nat : l = Len(s)
    BY DEF IsSeq
  <2>2. SubSeq(s, 1, l) = [i \in 1..l |-> s[i]]
    <3>1. 1 + l - 1 = l /\ \A i \in 1..l : i + 1 - 1 = i
      OBVIOUS
    <3>2. QED
      BY <3>1
  <2>3. QED
    BY <2>1, <2>2 DEF IsSeq
<1>6. QED
  BY <1>2, <1>4, <1>5

\* What k_key_derive_simple1024 hashes is password and salt.
LEMMA SimpleIs ==
  ASSUME NEW pass, NEW salt, IsSeq(salt), Len(salt) = Bytes1024
  PROVE  SimpleInput(pass, salt) = pass \o salt
<1>1. [j \in 1..Bytes1024 |-> IF j <= Len(salt) THEN salt[j] ELSE Junk] = salt
  <2>1. \A j \in 1..Len(salt) : j <= Len(salt)
    BY DEF IsSeq
  <2>2. QED
    BY <2>1 DEF IsSeq
<1>2. QED
  BY <1>1 DEF SimpleInput

LEMMA KeyStep ==
  ASSUME WholeSalts, DerivedKey, [Next]_vars
  PROVE  DerivedKey'
<1>1. ASSUME NEW pass \in Passes, NEW salt \in Salts, NEW n \in 0..MaxRounds,
             \/ DeriveSimple(pass, salt, n)
             \/ \E k \in 1..Bytes1024 : DeriveSkein(pass, salt, k, n)
      PROVE  DerivedKey'
  <2>1. PICK m : m = pass \o salt
    OBVIOUS
  <2>2. IsSeq(salt) /\ Len(salt) = Bytes1024 /\ IsSeq(pass)
    BY DEF WholeSalts
  <2>3. IsSeq(m)
    BY ONLY <2>1, <2>2, Glued
  <2>4. n \in Nat
    BY HashAssumption
  <2>5. Stretched(m, n) = KeyOf(m, n) /\ IsSeq(Stretched(m, n))
    BY ONLY <2>3, <2>4, StretchedIs
  <2>6. message' = m /\ rounds' = n
    BY <1>1, <2>1 DEF DeriveSimple, DeriveSkein
  <2>7. CASE DeriveSimple(pass, salt, n)
    <3>1. digest' = Stretched(m, n)
      BY <2>1, <2>2, <2>7, SimpleIs DEF DeriveSimple
    <3>2. SubSeq(digest', 1, Len(digest')) = digest'
      BY ONLY 0 \in Nat, <2>5, <3>1, CutIs
    <3>3. QED
      BY ONLY <2>5, <2>6, <3>1, <3>2 DEF DerivedKey
  <2>8. ASSUME NEW k \in 1..Bytes1024, DeriveSkein(pass, salt, k, n) PROVE DerivedKey'
    <3>1. digest' = SubSeq(Stretched(m, n), 1, k)
      BY <2>1, <2>8 DEF DeriveSkein
    <3>2. k \in Nat
      BY HashAssumption
    <3>3. Len(digest') = k
      BY ONLY <2>5, <3>1, <3>2, CutIs
    <3>4. QED
      BY ONLY <2>5, <2>6, <3>1, <3>3 DEF DerivedKey
  <2>9. QED
    BY <1>1, <2>7, <2>8
<1>2. CASE \/ \E h \in {Skein256, Skein512, Skein1024}, n \in OutputBits : HashInit(h, n)
           \/ HashInit(Sha1, Sha1DigestBytes * 8)
           \/ HashReset \/ HashFinal \/ HashFinish
           \/ \E n \in 0..MaxCall : HashUpdate(n)
           \/ Forget
  <2>1. phase' \in {"open", "final", "idle"}
    BY <1>2 DEF HashInit, Reset, HashReset, HashFinal, HashFinish, HashUpdate, Forget
  <2>2. QED
    BY <2>1 DEF DerivedKey
<1>3. CASE UNCHANGED vars
  BY <1>3 DEF vars, DerivedKey
<1>4. QED
  BY <1>1, <1>2, <1>3 DEF Next, Derive

\* A derived key is what iterated Skein makes of password and salt, for every
\* password and any number of rounds (simple.c:17, :58).
THEOREM KeyIsIterated ==
  ASSUME WholeSalts
  PROVE  Spec => []DerivedKey
<1>1. Init => DerivedKey
  BY DEF Init, DerivedKey
<1>2. DerivedKey /\ [Next]_vars => DerivedKey'
  BY KeyStep
<1>3. QED
  BY <1>1, <1>2, PTL DEF Spec

-----------------------------------------------------------------------------
(* SHA1 *)

\* Remainders of a sum of two remainders.
LEMMA Remainders ==
  ASSUME NEW l \in Nat \ {0}, NEW s \in 0..(l - 1)
  PROVE  s % l = s /\ (l + s) % l = s
<1>1. s % l = s
  OBVIOUS
<1>2. (l + s) % l = s
  <2>1. l + s = (1 * l) + s
    OBVIOUS
  <2>2. QED
    BY <2>1, Quotient
<1>3. QED
  BY <1>1, <1>2

\* The two words of the count, after a call of less than the lower one counts.
LEMMA Counts ==
  ASSUME NEW l \in Nat \ {0}, NEW o \in Nat, NEW n \in Nat, n < l
  PROVE  LET lo == ((o % l) + n) % l
         IN  lo = (o + n) % l /\ (o \div l) + Carry(lo, n) + (n \div l) = (o + n) \div l
<1> DEFINE q == o \div l  r == o % l  lo == (r + n) % l
<1>1. q \in Nat /\ r \in 0..(l - 1) /\ o = (q * l) + r
  BY DivMod
<1>2. n \div l = 0
  <2>1. n \in 0..(l - 1) /\ n = (0 * l) + n
    OBVIOUS
  <2>2. QED
    BY ONLY l \in Nat \ {0}, 0 \in Nat, <2>1, Quotient
<1> HIDE DEF q, r
<1>3. PICK z \in Nat : z = q * l
  BY <1>1
<1>4. CASE r + n < l
  <2>1. PICK s \in 0..(l - 1) : s = r + n
    BY <1>1, <1>4
  <2>2. s = (0 * l) + s /\ o + n = (q * l) + s /\ ~(s < n)
    <3>1. o + n = z + s /\ ~(s < n) /\ 0 * l = 0 /\ s = 0 + s
      BY ONLY o \in Nat, n \in Nat, z \in Nat, l \in Nat \ {0}, <1>1, <1>3, <2>1
    <3>2. QED
      BY ONLY <1>3, <3>1
  <2>3. s % l = s
    BY ONLY l \in Nat \ {0}, s \in 0..(l - 1), Remainders
  <2>4. (o + n) \div l = q /\ (o + n) % l = s
    BY ONLY l \in Nat \ {0}, s \in 0..(l - 1), <1>1, <2>2, Quotient
  <2>5. lo = s /\ Carry(lo, n) = 0
    BY <2>1, <2>2, <2>3 DEF Carry
  <2>6. QED
    BY <1>1, <1>2, <2>4, <2>5 DEF q, r
<1>5. CASE ~(r + n < l)
  <2>1. PICK s \in 0..(l - 1) : s = (r + n) - l
    <3>1. (r + n) - l \in 0..(l - 1)
      BY ONLY l \in Nat \ {0}, n \in Nat, n < l, <1>1, <1>5
    <3>2. QED
      BY ONLY <3>1
  <2>2. PICK h \in Nat : h = q + 1
    BY <1>1
  <2>3. r + n = (1 * l) + s /\ o + n = (h * l) + s /\ s < n
    <3>1. (q + 1) * l = (q * l) + (1 * l) /\ 1 * l = l
      BY ONLY l \in Nat \ {0}, 1 \in Nat, <1>1, Distributes
    <3>2. r + n = l + s /\ o + n = (z + l) + s /\ s < n
      BY ONLY o \in Nat, n \in Nat, z \in Nat, l \in Nat \ {0}, <1>1, <1>3, <2>1
    <3>3. QED
      BY ONLY <1>3, <2>2, <3>1, <3>2
  <2>4. (r + n) % l = s
    <3>1. PICK w \in Nat : w = r + n
      BY <1>1
    <3>2. w = l + s
      BY ONLY l \in Nat \ {0}, s \in 0..(l - 1), <2>3, <3>1
    <3>3. (l + s) % l = s
      BY ONLY l \in Nat \ {0}, s \in 0..(l - 1), Remainders
    <3>4. QED
      BY ONLY <3>1, <3>2, <3>3
  <2>5. (o + n) \div l = h /\ (o + n) % l = s
    <3>1. PICK w : w = o + n
      OBVIOUS
    <3>2. w = (h * l) + s
      BY ONLY <2>3, <3>1
    <3>3. QED
      BY ONLY l \in Nat \ {0}, h \in Nat, s \in 0..(l - 1), <3>1, <3>2, Quotient
  <2>6. lo = s /\ Carry(lo, n) = 1
    BY <2>3, <2>4 DEF Carry
  <2>7. QED
    BY <1>1, <1>2, <2>2, <2>5, <2>6 DEF q, r
<1>6. QED
  BY <1>4, <1>5 DEF q, r

\* The lower word tells the place in a block.
LEMMA Places ==
  ASSUME NEW b \in Nat \ {0}, NEW l \in Nat \ {0}, l % b = 0, NEW o \in Nat
  PROVE  (o % l) % b = o % b
<1>1. PICK q \in Nat, r \in 0..(l - 1) : o = (q * l) + r /\ r = o % l
  BY DivMod
<1>2. PICK p \in Nat : l = p * b
  <2>1. l = ((l \div b) * b) + (l % b) /\ l \div b \in Nat
    BY DivMod
  <2>2. QED
    BY <2>1
<1>3. PICK s \in Nat, t \in 0..(b - 1) : r = (s * b) + t /\ t = r % b
  <2>1. r \in Nat
    OBVIOUS
  <2>2. QED
    BY <2>1, DivMod
<1>4. PICK h \in Nat : h = (q * p) + s
  OBVIOUS
<1>5. o = (h * b) + t
  <2>1. PICK z \in Nat : z = q * p
    OBVIOUS
  <2>2. (z + s) * b = (z * b) + (s * b) /\ z * b \in Nat /\ s * b \in Nat
    BY ONLY z \in Nat, s \in Nat, b \in Nat \ {0}, Distributes
  <2>3. q * l = z * b
    BY ONLY q \in Nat, p \in Nat, b \in Nat \ {0}, <1>2, <2>1
  <2>4. PICK u \in Nat, v \in Nat : u = z * b /\ v = s * b
    BY ONLY <2>2
  <2>5. o = (u + v) + t
    <3>1. o = u + r /\ r = v + t
      BY ONLY <1>1, <1>3, <2>3, <2>4
    <3>2. QED
      BY ONLY u \in Nat, v \in Nat, b \in Nat \ {0}, t \in 0..(b - 1), <3>1
  <2>6. QED
    BY ONLY <1>4, <2>1, <2>2, <2>4, <2>5
<1>6. o % b = t
  BY ONLY b \in Nat \ {0}, h \in Nat, t \in 0..(b - 1), <1>5, Quotient
<1>7. QED
  BY <1>1, <1>3, <1>6

\* A context of SHA1, field by field.
Sha(ch, lo, hi, bu) == [chain |-> ch, low |-> lo, high |-> hi, buf |-> bu]

\* The first k blocks of a message.
Blocks(m, b, k) == [i \in 1..k |-> Block(m, b, i)]

\* The context holds o bytes of m: k blocks compressed, and j bytes.
Sha1Has(c, m, o, k, j) ==
  /\ c = Sha(c.chain, c.low, c.high, c.buf)
  /\ c.chain = Blocks(m, Sha1Bytes, k)
  /\ c.low = o % LowCount /\ c.high = o \div LowCount
  /\ IsSeq(c.buf) /\ Len(c.buf) = Sha1Bytes
  /\ \A i \in 1..j : c.buf[i] = m[Times(k, Sha1Bytes) + i]

Sha1State(c, m) == Sha1Has(c, m, Len(m), Len(m) \div Sha1Bytes, Len(m) % Sha1Bytes)

LEMMA ShaFields ==
  ASSUME NEW ch, NEW lo, NEW hi, NEW bu, NEW c, c = Sha(ch, lo, hi, bu)
  PROVE  /\ c.chain = ch /\ c.low = lo /\ c.high = hi /\ c.buf = bu
         /\ \A x : [c EXCEPT !.chain = x] = Sha(x, lo, hi, bu)
         /\ \A x : [c EXCEPT !.low = x] = Sha(ch, x, hi, bu)
         /\ \A x : [c EXCEPT !.high = x] = Sha(ch, lo, x, bu)
         /\ \A x : [c EXCEPT !.buf = x] = Sha(ch, lo, hi, x)
<1>1. c.chain = ch /\ c.low = lo /\ c.high = hi /\ c.buf = bu
  BY DEF Sha
<1>2. \A x : [c EXCEPT !.chain = x] = Sha(x, lo, hi, bu)
  BY DEF Sha
<1>3. \A x : [c EXCEPT !.low = x] = Sha(ch, x, hi, bu)
  BY DEF Sha
<1>4. \A x : [c EXCEPT !.high = x] = Sha(ch, lo, x, bu)
  BY DEF Sha
<1>5. \A x : [c EXCEPT !.buf = x] = Sha(ch, lo, hi, x)
  BY DEF Sha
<1>6. QED
  BY <1>1, <1>2, <1>3, <1>4, <1>5

\* A block that the message had before stays when the message goes on.
LEMMA BlocksStay ==
  ASSUME NEW b \in Nat \ {0}, NEW k \in Nat, NEW m, NEW mx, NEW o \in Nat, o = Len(m),
         NEW ox \in Nat, ox = Len(mx), o <= ox, \A j \in 1..o : mx[j] = m[j],
         NEW a \in Nat, a = Times(k, b), a <= o
  PROVE  Blocks(mx, b, k) = Blocks(m, b, k)
<1>1. ASSUME NEW i \in 1..k PROVE Block(m, b, i) = Block(mx, b, i)
  <2> DEFINE f == (i - 1) * b
  <2>1. f \in Nat /\ f + b <= a
    <3>1. i - 1 \in Nat /\ i = (i - 1) + 1 /\ i <= k
      OBVIOUS
    <3>2. ((i - 1) + 1) * b = f + (1 * b) /\ f \in Nat /\ 1 * b = b
      BY ONLY b \in Nat \ {0}, 1 \in Nat, <3>1, Distributes
    <3>3. i * b <= k * b
      BY ONLY b \in Nat \ {0}, k \in Nat, i \in 1..k, <3>1, Ordered
    <3>4. i * b = f + b
      BY ONLY <3>1, <3>2
    <3>5. a = k * b
      BY DEF Times
    <3>6. QED
      BY ONLY <3>2, <3>3, <3>4, <3>5
  <2>2. Block(m, b, i) = [j \in 1..b |-> IF f + j <= Len(m) THEN m[f + j] ELSE Zero]
    BY DEF Block
  <2>3. Block(mx, b, i) = [j \in 1..b |-> IF f + j <= Len(mx) THEN mx[f + j] ELSE Zero]
    BY DEF Block
  <2> HIDE DEF f
  <2>4. ASSUME NEW j \in 1..b
        PROVE  f + j <= Len(m) /\ f + j <= Len(mx) /\ mx[f + j] = m[f + j]
    <3>1. f + j \in 1..o /\ f + j <= o /\ f + j <= ox
      BY ONLY o \in Nat, ox \in Nat, o <= ox, a \in Nat, a <= o, b \in Nat \ {0}, j \in 1..b, <2>1
    <3>2. QED
      BY <3>1
  <2>5. QED
    BY ONLY <2>2, <2>3, <2>4
<1>2. QED
  BY ONLY <1>1 DEF Blocks

\* The blocks behind the first k of a message, up to the h-th.
UpToBlock(bl, m, b, k, h) == k \in Nat /\ h \in Nat /\ Piece(bl, m, b, k) /\ h = k + Len(bl)

\* Blocks behind blocks.
LEMMA BlocksOn ==
  ASSUME NEW b, NEW k, NEW m, NEW bl, NEW h, UpToBlock(bl, m, b, k, h)
  PROVE  Blocks(m, b, k) \o bl = Blocks(m, b, h)
<1>0. k \in Nat /\ h \in Nat /\ Piece(bl, m, b, k) /\ h = k + Len(bl)
  BY DEF UpToBlock
<1>1. PICK l \in Nat : l = Len(bl) /\ h = k + l
  BY <1>0 DEF Piece, IsSeq
<1>2. IsSeq(bl) /\ \A i \in 1..l : bl[i] = Block(m, b, k + i)
  BY <1>0, <1>1 DEF Piece
<1>3. PICK s, u : s = Blocks(m, b, k) /\ u = Blocks(m, b, h)
  OBVIOUS
<1>4. IsSeq(s) /\ Len(s) = k /\ \A i \in 1..k : s[i] = Block(m, b, i)
  <2>1. s = [i \in 1..k |-> s[i]] /\ \A i \in 1..k : s[i] = Block(m, b, i)
    BY ONLY <1>3 DEF Blocks
  <2>2. QED
    BY ONLY <1>0, <2>1, Listing
<1>5. IsSeq(u) /\ Len(u) = h /\ \A i \in 1..h : u[i] = Block(m, b, i)
  <2>1. u = [i \in 1..h |-> u[i]] /\ \A i \in 1..h : u[i] = Block(m, b, i)
    BY ONLY <1>3 DEF Blocks
  <2>2. QED
    BY ONLY <1>0, <2>1, Listing
<1>6. /\ IsSeq(s \o bl) /\ Len(s \o bl) = Len(s) + Len(bl)
      /\ (\A i \in 1..Len(s) : (s \o bl)[i] = s[i])
      /\ \A i \in 1..Len(bl) : (s \o bl)[Len(s) + i] = bl[i]
  <2>1. IsSeq(s) /\ IsSeq(bl)
    BY ONLY <1>2, <1>4
  <2>2. QED
    BY ONLY <2>1, Glued
<1>7. Len(s \o bl) = Len(u)
  BY ONLY <1>1, <1>4, <1>5, <1>6
<1>8. ASSUME NEW i \in 1..Len(s \o bl) PROVE (s \o bl)[i] = u[i]
  <2>1. i \in 1..h
    BY ONLY <1>5, <1>7, i \in 1..Len(s \o bl)
  <2>2. CASE i <= k
    <3>1. i \in 1..k
      BY ONLY <1>0, <2>1, <2>2
    <3>2. QED
      BY ONLY <1>4, <1>5, <1>6, <2>1, <3>1
  <2>3. CASE ~(i <= k)
    <3>1. PICK z \in 1..l : i = k + z
      <4>1. i - k \in 1..l /\ i = k + (i - k)
        BY ONLY <1>0, l \in Nat, <1>1, <2>1, <2>3
      <4>2. QED
        BY ONLY <4>1
    <3>2. (s \o bl)[k + z] = bl[z] /\ bl[z] = Block(m, b, k + z)
      BY ONLY z \in 1..l, <1>1, <1>2, <1>4, <1>6
    <3>3. QED
      BY ONLY <1>5, <2>1, <3>1, <3>2
  <2>4. QED
    BY <2>2, <2>3
<1>9. s \o bl = u
  BY ONLY <1>5, <1>6, <1>7, <1>8, SameSeq
<1>10. QED
  BY ONLY <1>3, <1>9

\* The context after a call.
LEMMA Sha1Lands ==
  ASSUME NEW m, NEW k \in Nat, NEW j \in 0..(Sha1Bytes - 1), NEW o \in Nat, o = Len(m),
         o = Times(k, Sha1Bytes) + j,
         NEW bu, IsSeq(bu), Len(bu) = Sha1Bytes,
         \A i \in 1..j : bu[i] = m[Times(k, Sha1Bytes) + i],
         NEW c, c = Sha(Blocks(m, Sha1Bytes, k), o % LowCount, o \div LowCount, bu)
  PROVE  Sha1State(c, m)
<1>1. PICK b \in Nat \ {0} : b = Sha1Bytes
  BY HashAssumption
<1>2. o = (k * b) + j
  BY <1>1 DEF Times
<1>3. o \div b = k /\ o % b = j
  BY ONLY b \in Nat \ {0}, k \in Nat, j \in 0..(Sha1Bytes - 1), <1>1, <1>2, Quotient
<1>4. PICK ch, lo, hi : ch = Blocks(m, Sha1Bytes, k) /\ lo = o % LowCount /\ hi = o \div LowCount
  OBVIOUS
<1>5. c = Sha(ch, lo, hi, bu)
  BY ONLY c = Sha(Blocks(m, Sha1Bytes, k), o % LowCount, o \div LowCount, bu), <1>4
<1>6. c.chain = ch /\ c.low = lo /\ c.high = hi /\ c.buf = bu
  BY ONLY <1>5, ShaFields
<1>7. Sha1Has(c, m, o, k, j)
  BY ONLY <1>4, <1>5, <1>6, IsSeq(bu), Len(bu) = Sha1Bytes,
          \A i \in 1..j : bu[i] = m[Times(k, Sha1Bytes) + i] DEF Sha1Has
<1>8. QED
  BY ONLY <1>1, <1>3, <1>7, o = Len(m) DEF Sha1State

\* The count, after a call.
LEMMA CountedIs ==
  ASSUME NEW ch, NEW bu, NEW o \in Nat, NEW n \in Nat, n < LowCount,
         NEW c, c = Sha(ch, o % LowCount, o \div LowCount, bu), NEW w \in Nat, w = o + n
  PROVE  Counted(c, n) = Sha(ch, w % LowCount, w \div LowCount, bu)
<1>1. PICK l \in Nat \ {0} : l = LowCount
  BY HashAssumption
<1>2. PICK lo, hi, lx, hx : lo = o % l /\ hi = o \div l /\ lx = w % l /\ hx = w \div l
  OBVIOUS
<1>3. c = Sha(ch, lo, hi, bu)
  BY ONLY <1>1, <1>2, c = Sha(ch, o % LowCount, o \div LowCount, bu)
<1>4. c.low = lo /\ c.high = hi
  BY ONLY <1>3, ShaFields
<1>5. (c.low + n) % LowCount = lx /\ c.high + Carry(lx, n) + (n \div LowCount) = hx
  <2>1. /\ ((o % l) + n) % l = (o + n) % l
        /\ (o \div l) + Carry((o + n) % l, n) + (n \div l) = (o + n) \div l
    <3>1. n < l
      BY ONLY n < LowCount, <1>1
    <3>2. QED
      BY ONLY l \in Nat \ {0}, o \in Nat, n \in Nat, <3>1, Counts
  <2>2. QED
    BY ONLY w = o + n, <1>1, <1>2, <1>4, <2>1
<1>6. Counted(c, n) = [c EXCEPT !.low = lx, !.high = hx]
  BY ONLY <1>5 DEF Counted
<1>7. [c EXCEPT !.low = lx] = Sha(ch, lx, hi, bu)
  BY ONLY <1>3, ShaFields
<1>8. [Sha(ch, lx, hi, bu) EXCEPT !.high = hx] = Sha(ch, lx, hx, bu)
  BY ONLY ShaFields
<1>9. Counted(c, n) = Sha(ch, lx, hx, bu)
  BY ONLY <1>6, <1>7, <1>8
<1>10. QED
  BY ONLY <1>1, <1>2, <1>9

\* A block of nothing.
LEMMA NoBlocks ==
  ASSUME NEW x, NEW b
  PROVE  <<>> \o BlocksOf(x, 0, b, 0) = <<>>
<1>1. PICK e, s : e = <<>> /\ s = BlocksOf(x, 0, b, 0)
  OBVIOUS
<1>2. IsSeq(e) /\ Len(e) = 0
  <2>1. <<>> = [j \in 1..0 |-> <<>>[j]] /\ Len(<<>>) = 0
    OBVIOUS
  <2>2. QED
    BY ONLY <1>1, <2>1 DEF IsSeq
<1>3. IsSeq(s) /\ Len(s) = 0
  <2>1. s = [i \in 1..0 |-> s[i]]
    BY ONLY <1>1 DEF BlocksOf
  <2>2. QED
    BY ONLY 0 \in Nat, <2>1, Listing
<1>4. IsSeq(e \o s) /\ Len(e \o s) = Len(e) + Len(s)
  BY ONLY <1>2, <1>3, Glued
<1>5. Len(e \o s) = Len(e)
  BY ONLY <1>2, <1>3, <1>4
<1>6. \A k \in 1..Len(e \o s) : (e \o s)[k] = e[k]
  BY ONLY <1>2, <1>5
<1>7. e \o s = e
  BY ONLY <1>2, <1>4, <1>5, <1>6, SameSeq
<1>8. QED
  BY ONLY <1>1, <1>7

\* sha1_update, when its bytes do not fill the block.
LEMMA Sha1Fits ==
  ASSUME NEW c, NEW x, NEW j, j = c.low % Sha1Bytes, ~(j + Len(x) > Sha1Bytes - 1), NEW z, z = 0
  PROVE  Sha1Update(c, x) = [Counted(c, Len(x)) EXCEPT !.buf = Overlaid(@, j, Rest(x, z))]
<1>1. 0 + (0 * Sha1Bytes) = 0
  BY HashAssumption
<1>2. Sha1Compressed(Counted(c, Len(x)), <<>> \o BlocksOf(x, 0, Sha1Bytes, 0)) = Counted(c, Len(x))
  BY NoBlocks DEF Sha1Compressed
<1>3. QED
  BY <1>1, <1>2 DEF Sha1Update

\* A call takes t bytes to fill the block up, and q blocks behind them.
Filling(c, x, j, t, q, full, all, y, d) ==
  /\ j = c.low % Sha1Bytes /\ j + Len(x) > Sha1Bytes - 1
  /\ t = Sha1Bytes - j /\ q = (Len(x) - t) \div Sha1Bytes /\ y = t + (q * Sha1Bytes)
  /\ full = Overlaid(c.buf, j, [i \in 1..t |-> x[i]])
  /\ all = <<full>> \o BlocksOf(x, t, Sha1Bytes, q)
  /\ d = Sha1Compressed(Counted(c, Len(x)), all)

\* sha1_update, when they do.
LEMMA Sha1Fills ==
  ASSUME NEW c, NEW x, NEW j, NEW t, NEW q, NEW full, NEW all, NEW y, NEW d,
         Filling(c, x, j, t, q, full, all, y, d)
  PROVE  Sha1Update(c, x) = [d EXCEPT !.buf = Overlaid(@, 0, Rest(x, y))]
  BY DEF Sha1Update, Filling

\* A buffer of b bytes holds j bytes of m, behind its first a.
Behind(bu, b, m, a, j) == IsSeq(bu) /\ Len(bu) = b /\ \A i \in 1..j : bu[i] = m[a + i]

\* The bytes x fit into a buffer that ends at the o-th of the message.
Adding(b, mx, x, o, lx, a, j, p, bu, z, new) ==
  /\ b \in Nat \ {0} /\ o \in Nat /\ lx \in Nat /\ a \in Nat /\ j \in Nat
  /\ Ends(mx, o, x) /\ lx = Len(x) /\ o = a + j /\ p = j + lx /\ j + lx < b
  /\ Behind(bu, b, mx, a, j) /\ z = 0 /\ new = Overlaid(bu, j, Rest(x, z))

\* What of x is behind its first t + taken bytes goes to the start of a buffer.
Resting(b, mx, x, o, lx, t, taken, r, a, bu, y, new) ==
  /\ b \in Nat \ {0} /\ o \in Nat /\ lx \in Nat /\ t \in Nat /\ taken \in Nat
  /\ a \in Nat /\ y \in Nat /\ r \in 0..(b - 1)
  /\ Ends(mx, o, x) /\ lx = Len(x) /\ lx = (t + taken) + r /\ a = o + (t + taken)
  /\ IsSeq(bu) /\ Len(bu) = b /\ y = t + taken /\ new = Overlaid(bu, 0, Rest(x, y))

\* A call that does not fill the block: its bytes go behind those in the buffer.
LEMMA Sha1Adds ==
  ASSUME NEW b, NEW mx, NEW x, NEW o, NEW lx, NEW a, NEW j, NEW p, NEW bu, NEW z, NEW new,
         Adding(b, mx, x, o, lx, a, j, p, bu, z, new)
  PROVE  Behind(new, b, mx, a, p)
<1> SUFFICES ASSUME b \in Nat \ {0}, o \in Nat, Ends(mx, o, x), lx \in Nat, lx = Len(x),
                    a \in Nat, j \in Nat, o = a + j, p = j + lx, j + lx < b,
                    IsSeq(bu), Len(bu) = b, \A i \in 1..j : bu[i] = mx[a + i],
                    z = 0, new = Overlaid(bu, j, Rest(x, z))
             PROVE  Behind(new, b, mx, a, p)
  BY DEF Adding, Behind
<1>1. PICK rest : rest = Rest(x, z)
  OBVIOUS
<1>2. IsSeq(rest) /\ Len(rest) = lx /\ \A i \in 1..lx : rest[i] = x[i]
  BY ONLY lx \in Nat, lx = Len(x), z = 0, <1>1, RestIs
<1>3. /\ IsSeq(new) /\ Len(new) = b
      /\ \A i \in 1..b : new[i] = IF i \in (j + 1)..(j + lx) THEN rest[i - j] ELSE bu[i]
  <2>1. Len(rest) \in Nat /\ new = Overlaid(bu, j, rest)
    BY <1>1, <1>2
  <2>2. QED
    <3>1. /\ IsSeq(Overlaid(bu, j, rest)) /\ Len(Overlaid(bu, j, rest)) = Len(bu)
          /\ \A i \in 1..Len(bu) :
               Overlaid(bu, j, rest)[i]
                 = IF i \in (j + 1)..(j + Len(rest)) THEN rest[i - j] ELSE bu[i]
      BY ONLY j \in Nat, IsSeq(bu), <2>1, OverlaidIs
    <3>2. QED
      BY ONLY Len(bu) = b, <1>2, <2>1, <3>1
<1>4. ASSUME NEW i \in 1..(j + lx) PROVE new[i] = mx[a + i]
  <2>1. i \in 1..b
    BY ONLY j \in Nat, lx \in Nat, b \in Nat \ {0}, j + lx < b, i \in 1..(j + lx)
  <2>2. CASE i <= j
    <3>1. i \notin (j + 1)..(j + lx) /\ i \in 1..j
      BY ONLY j \in Nat, lx \in Nat, i \in 1..(j + lx), <2>2
    <3>2. bu[i] = mx[a + i]
      BY <3>1
    <3>3. QED
      BY ONLY <1>3, <2>1, <3>1, <3>2
  <2>3. CASE ~(i <= j)
    <3>1. PICK y \in 1..lx : i = j + y
      <4>1. i - j \in 1..lx /\ i = j + (i - j)
        BY ONLY j \in Nat, lx \in Nat, i \in 1..(j + lx), <2>3
      <4>2. QED
        BY ONLY <4>1
    <3>2. i \in (j + 1)..(j + lx) /\ i - j = y /\ o + y = a + i
      BY ONLY j \in Nat, lx \in Nat, a \in Nat, o = a + j, y \in 1..lx, i \in 1..(j + lx), <3>1
    <3>3. new[i] = rest[y] /\ rest[y] = x[y]
      BY ONLY <1>2, <1>3, <2>1, <3>2, y \in 1..lx
    <3>4. mx[o + y] = x[y]
      BY ONLY Ends(mx, o, x), lx = Len(x), y \in 1..lx DEF Ends
    <3>5. QED
      BY ONLY <3>2, <3>3, <3>4
  <2>4. QED
    BY <2>2, <2>3
<1>5. QED
  BY ONLY p = j + lx, <1>3, <1>4 DEF Behind

\* A call that does: what is behind its last block goes to the start of the buffer,
\* which a compression has overwritten.
LEMMA Sha1Rests ==
  ASSUME NEW b, NEW mx, NEW x, NEW o, NEW lx, NEW t, NEW taken, NEW r, NEW a, NEW bu, NEW y, NEW new,
         Resting(b, mx, x, o, lx, t, taken, r, a, bu, y, new)
  PROVE  Behind(new, b, mx, a, r)
<1> SUFFICES ASSUME b \in Nat \ {0}, o \in Nat, Ends(mx, o, x), lx \in Nat, lx = Len(x),
                    t \in Nat, taken \in Nat, r \in 0..(b - 1), lx = (t + taken) + r,
                    a \in Nat, a = o + (t + taken), IsSeq(bu), Len(bu) = b,
                    y \in Nat, y = t + taken, new = Overlaid(bu, 0, Rest(x, y))
             PROVE  Behind(new, b, mx, a, r)
  BY DEF Resting
<1>0. y = t + taken
  OBVIOUS
<1>1. PICK rest : rest = Rest(x, y) /\ y = t + taken
  BY <1>0
<1>2. IsSeq(rest) /\ Len(rest) = r /\ \A i \in 1..r : rest[i] = x[y + i]
  <2>1. r \in Nat /\ lx - y = r
    BY ONLY t \in Nat, taken \in Nat, b \in Nat \ {0}, r \in 0..(b - 1), lx = (t + taken) + r,
            y \in Nat, <1>1
  <2>2. rest = [i \in 1..r |-> x[y + i]]
    BY ONLY lx = Len(x), <1>1, <2>1 DEF Rest
  <2>3. rest = [i \in 1..r |-> rest[i]] /\ \A i \in 1..r : rest[i] = x[y + i]
    BY ONLY <2>2
  <2>4. QED
    BY ONLY <2>1, <2>3, Listing
<1>3. /\ IsSeq(new) /\ Len(new) = b
      /\ \A i \in 1..b : new[i] = IF i \in (0 + 1)..(0 + r) THEN rest[i - 0] ELSE bu[i]
  <2>1. r \in Nat /\ new = Overlaid(bu, 0, rest)
    BY <1>0, <1>1
  <2>2. QED
    <3>1. /\ IsSeq(Overlaid(bu, 0, rest)) /\ Len(Overlaid(bu, 0, rest)) = Len(bu)
          /\ \A i \in 1..Len(bu) :
               Overlaid(bu, 0, rest)[i]
                 = IF i \in (0 + 1)..(0 + Len(rest)) THEN rest[i - 0] ELSE bu[i]
      BY ONLY 0 \in Nat, IsSeq(bu), <2>1, OverlaidIs
    <3>2. QED
      BY ONLY Len(bu) = b, <1>2, <2>1, <3>1
<1>4. ASSUME NEW i \in 1..r PROVE new[i] = mx[a + i]
  <2>1. i \in 1..b /\ i \in (0 + 1)..(0 + r) /\ i - 0 = i /\ y + i \in 1..lx /\ o + (y + i) = a + i
    BY ONLY b \in Nat \ {0}, r \in 0..(b - 1), i \in 1..r, t \in Nat, taken \in Nat, o \in Nat,
            y \in Nat,
            lx = (t + taken) + r, a = o + (t + taken), <1>1
  <2>2. PICK w \in 1..lx : w = y + i
    BY ONLY <2>1
  <2>3. new[i] = rest[i] /\ rest[i] = x[w]
    BY ONLY i \in 1..r, <1>2, <1>3, <2>1, <2>2
  <2>4. mx[o + w] = x[w]
    BY ONLY Ends(mx, o, x), lx = Len(x), w \in 1..lx DEF Ends
  <2>5. QED
    BY ONLY <2>1, <2>2, <2>3, <2>4
<1>5. QED
  BY ONLY <1>3, <1>4 DEF Behind

\* A buffer that ends at the o-th byte of the message is filled up with t of x.
Heading(b, k, a, j, mx, o, x, bu, t, full) ==
  /\ b \in Nat \ {0} /\ k \in Nat /\ a \in Nat /\ j \in 0..b /\ o \in Nat /\ t \in Nat
  /\ a = Times(k, b) /\ o = a + j /\ Ends(mx, o, x) /\ Behind(bu, b, mx, a, j)
  /\ t = b - j /\ t <= Len(x) /\ full = Overlaid(bu, j, [i \in 1..t |-> x[i]])

\* A block, and q blocks behind it, of the message.
Ranged(mx, b, k, h, g, one, full, bl, all, q) ==
  /\ k \in Nat /\ h \in Nat /\ g \in Nat /\ q \in Nat /\ h = k + 1 /\ g = h + q
  /\ Single(one, full) /\ Piece(one, mx, b, k) /\ Piece(bl, mx, b, h) /\ Len(bl) = q
  /\ all = one \o bl

\* The block that a call of sha1_update fills up is the next of the message.
LEMMA Sha1Head ==
  ASSUME NEW b, NEW k, NEW a, NEW j, NEW mx, NEW o, NEW x, NEW bu, NEW t, NEW full,
         Heading(b, k, a, j, mx, o, x, bu, t, full)
  PROVE  Piece(<<full>>, mx, b, k)
<1> SUFFICES ASSUME b \in Nat \ {0}, k \in Nat, a \in Nat, a = Times(k, b), j \in 0..b,
                    o \in Nat, o = a + j, Ends(mx, o, x),
                    IsSeq(bu), Len(bu) = b, \A i \in 1..j : bu[i] = mx[a + i],
                    t \in Nat, t = b - j, t <= Len(x),
                    full = Overlaid(bu, j, [i \in 1..t |-> x[i]])
             PROVE  Piece(<<full>>, mx, b, k)
  BY DEF Heading, Behind
<1>1. PICK d : d.buf = bu /\ d.count = j
  <2>1. [buf |-> bu, count |-> j].buf = bu /\ [buf |-> bu, count |-> j].count = j
    OBVIOUS
  <2>2. QED
    BY ONLY <2>1
<1>2. Holds(d, mx, b, a, j)
  BY ONLY <1>1, IsSeq(bu), Len(bu) = b, \A i \in 1..j : bu[i] = mx[a + i] DEF Holds
<1>3. FillsUp(d, mx, x, b, k, a, j, o, t, full)
  BY ONLY <1>1, <1>2, a = Times(k, b), o = a + j, Ends(mx, o, x), t = b - j, t <= Len(x),
          full = Overlaid(bu, j, [i \in 1..t |-> x[i]]) DEF FillsUp
<1>4. QED
  BY ONLY b \in Nat \ {0}, k \in Nat, a \in Nat, j \in 0..b, o \in Nat, t \in Nat, <1>3, HeadBlock

\* What a call compresses: the block it fills up, and those behind it.
LEMMA Sha1Pieces ==
  ASSUME NEW mx, NEW b, NEW k, NEW h, NEW g, NEW s, NEW full, NEW bl, NEW all, NEW q,
         Ranged(mx, b, k, h, g, s, full, bl, all, q)
  PROVE  Blocks(mx, b, k) \o all = Blocks(mx, b, g) /\ all # <<>>
<1> SUFFICES ASSUME k \in Nat, h \in Nat, g \in Nat, q \in Nat, h = k + 1, g = h + q, Single(s, full),
                    Piece(s, mx, b, k), Piece(bl, mx, b, h), Len(bl) = q, all = s \o bl
             PROVE  Blocks(mx, b, k) \o all = Blocks(mx, b, g) /\ all # <<>>
  BY DEF Ranged
<1>1. PICK u : u = Blocks(mx, b, k)
  OBVIOUS
<1>2. IsSeq(s) /\ Len(s) = 1 /\ IsSeq(bl) /\ Piece(s, mx, b, k)
  <2>1. IsSeq(s) /\ Len(s) = 1
    BY ONLY Single(s, full), OneIs DEF Single
  <2>2. QED
    BY ONLY <2>1, Piece(s, mx, b, k), Piece(bl, mx, b, h) DEF Piece
<1>3. IsSeq(u)
  <2>1. u = [i \in 1..k |-> u[i]]
    BY ONLY <1>1 DEF Blocks
  <2>2. QED
    BY ONLY k \in Nat, <2>1, Listing
<1>4. Blocks(mx, b, k) \o s = Blocks(mx, b, h)
  <2>1. UpToBlock(s, mx, b, k, h)
    BY ONLY k \in Nat, h \in Nat, h = k + 1, <1>2 DEF UpToBlock
  <2>2. QED
    BY ONLY <2>1, BlocksOn
<1>5. Blocks(mx, b, h) \o bl = Blocks(mx, b, g)
  <2>1. UpToBlock(bl, mx, b, h, g)
    BY ONLY h \in Nat, g \in Nat, g = h + q, Len(bl) = q, Piece(bl, mx, b, h) DEF UpToBlock
  <2>2. QED
    BY ONLY <2>1, BlocksOn
<1>6. (u \o s) \o bl = u \o (s \o bl)
  BY ONLY <1>2, <1>3, GluedTwice
<1>7. Len(s \o bl) = Len(s) + Len(bl)
  BY ONLY <1>2, Glued
<1>8. s \o bl # <<>>
  <2>1. Len(s \o bl) > 0
    BY ONLY <1>2, <1>7, Len(bl) = q, q \in Nat
  <2>2. QED
    BY <2>1
<1>9. QED
  BY ONLY all = s \o bl, <1>1, <1>4, <1>5, <1>6, <1>8

\* A context whose buffer a compression of bl overwrites, and then the rest of a call.
Stepping(c, ch, lo, hi, bu, bl, junk, d, rest, w) ==
  /\ c = Sha(ch, lo, hi, bu) /\ bl # <<>> /\ junk = [i \in 1..Sha1Bytes |-> Junk]
  /\ d = Sha1Compressed(c, bl) /\ w = Overlaid(junk, 0, rest)

\* Compression and the copy of the rest, field by field.
LEMMA Sha1Stepped ==
  ASSUME NEW c, NEW ch, NEW lo, NEW hi, NEW bu, NEW bl, NEW junk, NEW d, NEW rest, NEW w,
         Stepping(c, ch, lo, hi, bu, bl, junk, d, rest, w)
  PROVE  [d EXCEPT !.buf = Overlaid(@, 0, rest)] = Sha(ch \o bl, lo, hi, w)
<1> SUFFICES ASSUME c = Sha(ch, lo, hi, bu), bl # <<>>, junk = [i \in 1..Sha1Bytes |-> Junk],
                    d = Sha1Compressed(c, bl), w = Overlaid(junk, 0, rest)
             PROVE  [d EXCEPT !.buf = Overlaid(@, 0, rest)] = Sha(ch \o bl, lo, hi, w)
  BY DEF Stepping
<1>1. c.chain = ch
  BY ONLY c = Sha(ch, lo, hi, bu), ShaFields
<1>2. PICK new : new = ch \o bl
  OBVIOUS
<1>3. d = [c EXCEPT !.chain = new, !.buf = junk]
  BY ONLY d = Sha1Compressed(c, bl), bl # <<>>, junk = [i \in 1..Sha1Bytes |-> Junk], <1>1,
          <1>2 DEF Sha1Compressed
<1>4. [c EXCEPT !.chain = new] = Sha(new, lo, hi, bu)
  BY ONLY c = Sha(ch, lo, hi, bu), ShaFields
<1>5. [Sha(new, lo, hi, bu) EXCEPT !.buf = junk] = Sha(new, lo, hi, junk)
  BY ONLY ShaFields
<1>6. d = Sha(new, lo, hi, junk)
  BY ONLY <1>3, <1>4, <1>5
<1>7. w = Overlaid(junk, 0, rest)
  OBVIOUS
<1>8. d.buf = junk /\ [d EXCEPT !.buf = w] = Sha(new, lo, hi, w)
  BY ONLY <1>6, ShaFields
<1>9. QED
  BY ONLY <1>2, <1>7, <1>8

\* Whatever a call of sha1_update brings, the context then holds the message with it.
LEMMA Sha1Updates ==
  ASSUME NEW m, IsSeq(m), NEW c, Sha1State(c, m), NEW x, IsSeq(x), Len(x) < LowCount
  PROVE  Sha1State(Sha1Update(c, x), m \o x)
<1>1. PICK b \in Nat \ {0}, l \in Nat \ {0} : b = Sha1Bytes /\ l = LowCount /\ l % b = 0
  BY HashAssumption
<1>2. PICK o \in Nat, lx \in Nat : o = Len(m) /\ lx = Len(x)
  BY DEF IsSeq
<1>3. PICK k \in Nat, j \in Nat, a \in Nat :
        k = o \div b /\ j = o % b /\ a = Times(k, b) /\ o = a + j /\ j \in 0..(b - 1) /\ a = k * b
  <2>1. o \div b \in Nat /\ (o % b) \in 0..(b - 1) /\ o = ((o \div b) * b) + (o % b)
    BY ONLY o \in Nat, b \in Nat \ {0}, DivMod
  <2>2. (o \div b) * b \in Nat /\ (o % b) \in Nat
    BY ONLY b \in Nat \ {0}, <2>1
  <2>3. QED
    BY ONLY <2>1, <2>2 DEF Times
<1>3a. o = a + j
  BY ONLY <1>3
<1>3b. j \in 0..(b - 1)
  BY ONLY <1>3
<1>3c. a = Times(k, b)
  BY ONLY <1>3
<1>3d. l % b = 0
  BY ONLY <1>1
<1>4. PICK w \in Nat : w = o + lx
  BY ONLY o \in Nat, lx \in Nat
<1>5. PICK mx : mx = m \o x
  OBVIOUS
<1>6. Len(mx) = w /\ Ends(mx, o, x) /\ \A i \in 1..o : mx[i] = m[i]
  <2>1. /\ Len(mx) = o + lx /\ (\A i \in 1..o : mx[i] = m[i]) /\ \A i \in 1..lx : mx[o + i] = x[i]
    BY ONLY IsSeq(m), IsSeq(x), <1>2, <1>5, Glued
  <2>2. QED
    BY ONLY lx \in Nat, <1>2, <1>4, <2>1 DEF Ends
<1>7. PICK ch, bu : /\ c = Sha(ch, o % LowCount, o \div LowCount, bu) /\ ch = Blocks(m, b, k)
                    /\ IsSeq(bu) /\ Len(bu) = b /\ \A i \in 1..j : bu[i] = m[a + i]
  <2>1. Sha1Has(c, m, o, k, j)
    BY ONLY Sha1State(c, m), <1>1, <1>2, <1>3 DEF Sha1State
  <2>2. /\ c = Sha(c.chain, o % LowCount, o \div LowCount, c.buf) /\ c.chain = Blocks(m, b, k)
        /\ IsSeq(c.buf) /\ Len(c.buf) = b /\ \A i \in 1..j : c.buf[i] = m[a + i]
    BY ONLY <1>1, <1>3, <2>1 DEF Sha1Has
  <2>3. QED
    BY ONLY <2>2
<1>8. ch = Blocks(mx, b, k)
  <2>1. a <= o /\ o <= w
    BY ONLY a \in Nat, j \in Nat, o \in Nat, lx \in Nat, <1>3a, <1>4
  <2>2. Blocks(mx, b, k) = Blocks(m, b, k)
    BY ONLY b \in Nat \ {0}, k \in Nat, o \in Nat, w \in Nat, a \in Nat, <1>2, <1>3c, <1>6, <2>1,
            BlocksStay
  <2>3. QED
    BY ONLY <1>7, <2>2
<1>9. \A i \in 1..j : bu[i] = mx[a + i]
  <2>1. ASSUME NEW i \in 1..j PROVE bu[i] = mx[a + i]
    <3>1. a + i \in 1..o
      BY ONLY a \in Nat, j \in Nat, i \in 1..j, <1>3a
    <3>2. QED
      BY ONLY i \in 1..j, <1>6, <1>7, <3>1
  <2>2. QED
    BY ONLY <2>1
<1>10. PICK lo, hi : lo = w % LowCount /\ hi = w \div LowCount
  OBVIOUS
<1>11. Counted(c, lx) = Sha(ch, lo, hi, bu)
  <2>1. Counted(c, lx) = Sha(ch, w % LowCount, w \div LowCount, bu)
    <3>1. lx < LowCount
      BY ONLY Len(x) < LowCount, <1>2
    <3>2. QED
      BY ONLY o \in Nat, lx \in Nat, w \in Nat, <1>4, <1>7, <3>1, CountedIs
  <2>2. QED
    BY ONLY <1>10, <2>1
<1>12. j = c.low % Sha1Bytes
  <2>1. c.low = o % l
    <3>1. PICK u, v : u = o % LowCount /\ v = o \div LowCount
      OBVIOUS
    <3>2. c = Sha(ch, u, v, bu)
      BY ONLY <1>7, <3>1
    <3>3. c.low = u
      BY ONLY <3>2, ShaFields
    <3>4. QED
      BY ONLY <1>1, <3>1, <3>3
  <2>2. (o % l) % b = o % b
    BY ONLY b \in Nat \ {0}, l \in Nat \ {0}, o \in Nat, <1>3d, Places
  <2>3. QED
    BY ONLY <1>1, <1>3, <2>1, <2>2
<1>13. PICK cc : cc = Counted(c, Len(x))
  OBVIOUS
<1>14. cc = Sha(ch, lo, hi, bu)
  BY ONLY <1>2, <1>11, <1>13
<1>15. CASE j + lx < b
  <2>1. PICK z, new : z = 0 /\ new = Overlaid(bu, j, Rest(x, z))
    OBVIOUS
  <2>2. Sha1Update(c, x) = Sha(ch, lo, hi, new)
    <3>1. ~(j + Len(x) > Sha1Bytes - 1)
      BY ONLY b \in Nat \ {0}, j \in Nat, lx \in Nat, <1>1, <1>2, <1>15
    <3>2. Sha1Update(c, x) = [Counted(c, Len(x)) EXCEPT !.buf = Overlaid(@, j, Rest(x, z))]
      BY ONLY <1>12, <2>1, <3>1, Sha1Fits
    <3>3. cc.buf = bu /\ [cc EXCEPT !.buf = new] = Sha(ch, lo, hi, new)
      BY ONLY <1>14, ShaFields
    <3>4. QED
      BY ONLY <1>13, <2>1, <3>2, <3>3
  <2>3. PICK p \in Nat : p = j + lx /\ p \in 0..(Sha1Bytes - 1) /\ w = a + p
    <3>1. j + lx \in Nat /\ j + lx \in 0..(b - 1) /\ w = a + (j + lx)
      BY ONLY b \in Nat \ {0}, j \in Nat, lx \in Nat, a \in Nat, o \in Nat, w \in Nat, <1>3a,
              <1>4, <1>15
    <3>2. QED
      BY ONLY <1>1, <3>1
  <2>4. IsSeq(new) /\ Len(new) = b /\ \A i \in 1..p : new[i] = mx[a + i]
    <3>1. Behind(bu, b, mx, a, j)
      BY ONLY <1>7, <1>9 DEF Behind
    <3>2. p = j + lx
      BY ONLY <2>3
    <3>3. Adding(b, mx, x, o, lx, a, j, p, bu, z, new)
      BY ONLY b \in Nat \ {0}, o \in Nat, lx \in Nat, a \in Nat, j \in Nat, <1>2, <1>3a, <1>6,
              <1>15,
              <2>1, <3>1, <3>2 DEF Adding
    <3>4. Behind(new, b, mx, a, p)
      BY ONLY <3>3, Sha1Adds
    <3>5. QED
      BY ONLY <3>4 DEF Behind
  <2>5. PICK d : d = Sha(ch, lo, hi, new)
    OBVIOUS
  <2>6. Sha1State(d, mx)
    <3>1. w = Times(k, Sha1Bytes) + p /\ a = Times(k, Sha1Bytes)
      BY ONLY <1>1, <1>3, <2>3
    <3>2. d = Sha(Blocks(mx, Sha1Bytes, k), w % LowCount, w \div LowCount, new)
      BY ONLY <1>1, <1>8, <1>10, <2>5
    <3>3. IsSeq(new) /\ Len(new) = Sha1Bytes /\ \A i \in 1..p : new[i] = mx[Times(k, Sha1Bytes) + i]
      BY ONLY <1>1, <2>4, <3>1
    <3>4. QED
      BY ONLY k \in Nat, w \in Nat, <1>6, <2>3, <3>1, <3>2, <3>3, Sha1Lands
  <2>7. QED
    BY ONLY <1>5, <2>2, <2>5, <2>6
<1>16. CASE ~(j + lx < b)
  <2>1. PICK t \in Nat : t = b - j /\ t <= lx
    <3>1. b - j \in Nat /\ b - j <= lx
      BY ONLY b \in Nat \ {0}, j \in Nat, lx \in Nat, <1>3b, <1>16
    <3>2. QED
      BY ONLY <3>1
  <2>2. PICK q \in Nat, taken \in Nat, r \in Nat :
          q = (lx - t) \div b /\ taken = q * b /\ r \in 0..(b - 1) /\ lx = (t + taken) + r
    <3>1. PICK left \in Nat : left = lx - t /\ lx = t + left
      <4>1. lx - t \in Nat /\ lx = t + (lx - t)
        BY ONLY lx \in Nat, t \in Nat, <2>1
      <4>2. QED
        BY ONLY <4>1
    <3>2. left \div b \in Nat /\ (left % b) \in 0..(b - 1) /\ left = ((left \div b) * b) + (left % b)
      BY ONLY left \in Nat, b \in Nat \ {0}, DivMod
    <3>3. PICK p \in Nat : p = (left \div b) * b
      BY ONLY b \in Nat \ {0}, <3>2
    <3>4. PICK s \in Nat : s = left % b
      BY ONLY b \in Nat \ {0}, <3>2
    <3>5. lx = (t + p) + s
      BY ONLY lx \in Nat, t \in Nat, left \in Nat, p \in Nat, s \in Nat, <3>1, <3>2, <3>3, <3>4
    <3>6. QED
      BY ONLY <3>1, <3>2, <3>3, <3>4, <3>5
  <2>3. PICK h \in Nat, g \in Nat : h = k + 1 /\ g = h + q
    <3>1. k + 1 \in Nat /\ (k + 1) + q \in Nat
      BY ONLY k \in Nat, q \in Nat
    <3>2. QED
      BY ONLY <3>1
  <2>4. PICK end \in Nat : end = o + (t + taken)
    BY ONLY o \in Nat, t \in Nat, taken \in Nat
  <2>5. o + t = h * b /\ end = g * b
    <3>1. (k + 1) * b = (k * b) + (1 * b) /\ 1 * b = b
      BY ONLY k \in Nat, b \in Nat \ {0}, 1 \in Nat, Distributes
    <3>2. (h + q) * b = (h * b) + (q * b) /\ h * b \in Nat
      BY ONLY h \in Nat, q \in Nat, b \in Nat \ {0}, Distributes
    <3>3. PICK u \in Nat : u = h * b
      BY ONLY <3>2
    <3>4. u = a + b
      BY ONLY <1>3, <2>3, <3>1, <3>3
    <3>5. o + t = u
      BY ONLY o \in Nat, t \in Nat, a \in Nat, b \in Nat \ {0}, j \in Nat, u \in Nat, <1>3a, <2>1,
              <3>4
    <3>6. end = u + taken
      BY ONLY o \in Nat, t \in Nat, u \in Nat, taken \in Nat, <2>4, <3>5
    <3>7. QED
      BY ONLY <2>2, <2>3, <3>2, <3>3, <3>5, <3>6
  <2>6. PICK full, bl : full = Overlaid(bu, j, [i \in 1..t |-> x[i]]) /\ bl = BlocksOf(x, t, b, q)
    OBVIOUS
  <2>7. Piece(<<full>>, mx, b, k)
    <3>1. j \in 0..b /\ t <= Len(x)
      BY ONLY b \in Nat \ {0}, j \in Nat, <1>2, <1>3b, <2>1
    <3>2. Behind(bu, b, mx, a, j)
      BY ONLY <1>7, <1>9 DEF Behind
    <3>3. Heading(b, k, a, j, mx, o, x, bu, t, full)
      BY ONLY b \in Nat \ {0}, k \in Nat, a \in Nat, o \in Nat, t \in Nat,
              <1>3a, <1>3c, <1>6, <2>1, <2>6, <3>1, <3>2 DEF Heading
    <3>4. QED
      BY ONLY <3>3, Sha1Head
  <2>8. Piece(bl, mx, b, h) /\ Len(bl) = q
    <3>1. t + taken <= Len(x)
      BY ONLY lx \in Nat, t \in Nat, taken \in Nat, r \in Nat, <1>2, <2>2
    <3>2. Takes(mx, o, x, b, h, t, q)
      BY ONLY <1>6, <2>2, <2>5, <3>1 DEF Takes, Times
    <3>3. QED
      BY ONLY b \in Nat \ {0}, h \in Nat, q \in Nat, o \in Nat, t \in Nat, <2>6, <3>2, TakenBlocks
  <2>9. PICK all : all = <<full>> \o bl
    OBVIOUS
  <2>10. ch \o all = Blocks(mx, b, g) /\ all # <<>>
    <3>1. PICK one : one = <<full>>
      OBVIOUS
    <3>2. Ranged(mx, b, k, h, g, one, full, bl, all, q)
      BY ONLY k \in Nat, h \in Nat, q \in Nat, g \in Nat, <2>3, <2>7, <2>8, <2>9, <3>1 DEF Ranged, Single
    <3>3. Blocks(mx, b, k) \o all = Blocks(mx, b, g) /\ all # <<>>
      BY ONLY <3>2, Sha1Pieces
    <3>4. QED
      BY ONLY <1>8, <3>3
  <2>11. PICK junk : junk = [i \in 1..Sha1Bytes |-> Junk]
    OBVIOUS
  <2>12. IsSeq(junk) /\ Len(junk) = b
    <3>1. junk = [i \in 1..b |-> junk[i]]
      BY ONLY <1>1, <2>11
    <3>2. b \in Nat
      OBVIOUS
    <3>3. QED
      BY ONLY <3>1, <3>2, Listing
  <2>13. PICK y \in Nat : y = t + taken
    BY ONLY t \in Nat, taken \in Nat
  <2>13a. PICK new : new = Overlaid(junk, 0, Rest(x, y))
    OBVIOUS
  <2>14. IsSeq(new) /\ Len(new) = b /\ \A i \in 1..r : new[i] = mx[end + i]
    <3>1. r \in 0..(b - 1) /\ lx = (t + taken) + r
      BY ONLY <2>2
    <3>2. Resting(b, mx, x, o, lx, t, taken, r, end, junk, y, new)
      BY ONLY b \in Nat \ {0}, o \in Nat, lx \in Nat, t \in Nat, taken \in Nat, end \in Nat,
              y \in Nat,
              <1>2, <1>6, <2>4, <2>12, <2>13, <2>13a, <3>1 DEF Resting
    <3>3. Behind(new, b, mx, end, r)
      BY ONLY <3>2, Sha1Rests
    <3>4. QED
      BY ONLY <3>3 DEF Behind
  <2>15. Sha1Update(c, x) = Sha(Blocks(mx, b, g), lo, hi, new)
    <3>1. PICK d : d = Sha1Compressed(cc, all)
      OBVIOUS
    <3>2. Sha1Update(c, x) = [d EXCEPT !.buf = Overlaid(@, 0, Rest(x, y))]
      <4>1. j + Len(x) > Sha1Bytes - 1
        BY ONLY b \in Nat \ {0}, j \in Nat, lx \in Nat, <1>1, <1>2, <1>16
      <4>2. t = Sha1Bytes - j /\ q = (Len(x) - t) \div Sha1Bytes
        BY ONLY <1>1, <1>2, <2>1, <2>2
      <4>3. c.buf = bu
        <5>1. PICK u, v : u = o % LowCount /\ v = o \div LowCount
          OBVIOUS
        <5>2. c = Sha(ch, u, v, bu)
          BY ONLY <1>7, <5>1
        <5>3. QED
          BY ONLY <5>2, ShaFields
      <4>4. full = Overlaid(c.buf, j, [i \in 1..t |-> x[i]])
        BY ONLY <2>6, <4>3
      <4>5. all = <<full>> \o BlocksOf(x, t, Sha1Bytes, q) /\ y = t + (q * Sha1Bytes)
        BY ONLY <1>1, <2>2, <2>6, <2>9, <2>13
      <4>6. Filling(c, x, j, t, q, full, all, y, d)
        BY ONLY <1>12, <1>13, <3>1, <4>1, <4>2, <4>4, <4>5 DEF Filling
      <4>7. QED
        BY ONLY <4>6, Sha1Fills
    <3>3. [d EXCEPT !.buf = Overlaid(@, 0, Rest(x, y))] = Sha(ch \o all, lo, hi, new)
      <4>1. PICK rest : rest = Rest(x, y)
        OBVIOUS
      <4>2. Stepping(cc, ch, lo, hi, bu, all, junk, d, rest, new)
        BY ONLY <1>14, <2>10, <2>11, <2>13a, <3>1, <4>1 DEF Stepping
      <4>3. [d EXCEPT !.buf = Overlaid(@, 0, rest)] = Sha(ch \o all, lo, hi, new)
        BY ONLY <4>2, Sha1Stepped
      <4>4. QED
        BY ONLY <4>1, <4>3
    <3>4. QED
      BY ONLY <2>10, <3>2, <3>3
  <2>16. PICK d : d = Sha(Blocks(mx, b, g), lo, hi, new)
    OBVIOUS
  <2>17. Sha1State(d, mx)
    <3>1. w = end + r
      BY ONLY o \in Nat, t \in Nat, taken \in Nat, r \in Nat, lx \in Nat, <1>4, <2>2, <2>4
    <3>2. w = Times(g, Sha1Bytes) + r /\ end = Times(g, Sha1Bytes) /\ r \in 0..(Sha1Bytes - 1)
      BY ONLY <1>1, <2>2, <2>5, <3>1 DEF Times
    <3>3. d = Sha(Blocks(mx, Sha1Bytes, g), w % LowCount, w \div LowCount, new)
      BY ONLY <1>1, <1>10, <2>16
    <3>4. IsSeq(new) /\ Len(new) = Sha1Bytes /\ \A i \in 1..r : new[i] = mx[Times(g, Sha1Bytes) + i]
      BY ONLY <1>1, <2>14, <3>2
    <3>5. QED
      BY ONLY g \in Nat, w \in Nat, <1>6, <3>2, <3>3, <3>4, Sha1Lands
  <2>18. QED
    BY ONLY <1>5, <2>15, <2>16, <2>17
<1>17. QED
  BY ONLY <1>15, <1>16

-----------------------------------------------------------------------------
(* The end of SHA1 *)

\* A byte of zero more.
Zeroed(c) == Sha1Update(c, <<Zero>>)

Zeroes(F, n, a) == F = [k \in 0..n |-> IF k = 0 THEN a ELSE Zeroed(F[k - 1])]

\* The contexts of the padding are defined.
LEMMA PadsAre ==
  ASSUME NEW n \in Nat, NEW a
  PROVE  \E F : Zeroes(F, n, a)
<1> DEFINE Good(k, F) == F = [i \in 0..k |-> IF i = 0 THEN a ELSE Zeroed(F[i - 1])]
           H == {k \in 0..n : \E F : Good(k, F)}
<1>1. 0 \in H
  <2> DEFINE F == [i \in 0..0 |-> a]
  <2>1. F = [i \in 0..0 |-> IF i = 0 THEN a ELSE Zeroed(F[i - 1])]
    OBVIOUS
  <2> HIDE DEF F
  <2>2. \E E : Good(0, E)
    BY <2>1
  <2>3. QED
    BY <2>2
<1>2. ASSUME NEW k \in 1..n, k - 1 \in H
      PROVE  k \in H
  <2>1. PICK F : F = [i \in 0..(k - 1) |-> IF i = 0 THEN a ELSE Zeroed(F[i - 1])]
    BY <1>2
  <2> DEFINE G == [i \in 0..k |-> IF i = k THEN Zeroed(F[k - 1]) ELSE F[i]]
  <2>2. ASSUME NEW i \in 0..k PROVE G[i] = IF i = 0 THEN a ELSE Zeroed(G[i - 1])
    <3>1. CASE i = 0
      <4>1. i # k /\ i \in 0..(k - 1)
        BY <3>1
      <4>2. G[i] = F[i] /\ F[i] = a
        BY <2>1, <3>1, <4>1
      <4>3. QED
        BY <3>1, <4>2
    <3>2. CASE i = k
      <4>1. i # 0 /\ i - 1 \in 0..k /\ i - 1 # k
        BY <3>2
      <4>2. G[i - 1] = F[i - 1]
        BY <4>1
      <4>3. QED
        BY <3>2, <4>1, <4>2
    <3>3. CASE i # 0 /\ i # k
      <4>1. i \in 0..(k - 1) /\ i - 1 \in 0..k /\ i - 1 # k
        BY <3>3
      <4>2. G[i] = F[i] /\ G[i - 1] = F[i - 1]
        BY <3>3, <4>1
      <4>3. F[i] = Zeroed(F[i - 1])
        BY <2>1, <3>3, <4>1
      <4>4. QED
        BY <3>3, <4>2, <4>3
    <3>4. QED
      BY <3>1, <3>2, <3>3
  <2>3. G = [i \in 0..k |-> G[i]]
    OBVIOUS
  <2> HIDE DEF G
  <2>4. Good(k, G)
    BY <2>2, <2>3
  <2>5. \E E : Good(k, E)
    BY <2>4
  <2> HIDE DEF Good
  <2>6. k \in 0..n
    OBVIOUS
  <2>7. QED
    BY <2>5, <2>6
<1>3. 0..n \subseteq H
  <2> HIDE DEF H
  <2>1. QED
    BY <1>1, <1>2, UpTo
<1>4. n \in H
  BY <1>3
<1>5. PICK F : Good(n, F)
  BY <1>4
<1>6. Zeroes(F, n, a)
  BY <1>5 DEF Zeroes
<1>7. QED
  BY <1>6

\* How many zeros follow the bit: e bytes of a block are taken, p is where the length starts.
PadZeros(b, p, e) == IF e <= p THEN p - e ELSE (b + p) - e

\* They are the first number that leads to that place.
LEMMA ZerosLead ==
  ASSUME NEW b \in Nat \ {0}, NEW p \in 0..(b - 1), NEW e \in 0..(b - 1), NEW z, z = PadZeros(b, p, e)
  PROVE  /\ z \in 0..b /\ (e + z) % b = p
         /\ \A i \in 0..(z - 1) : (e + i) % b # p
<1>1. z \in 0..b
  BY DEF PadZeros
<1>2. \A s \in 0..(b - 1) : s % b = s /\ (b + s) % b = s
  BY ONLY b \in Nat \ {0}, Remainders
<1>3. (e + z) % b = p
  <2>1. CASE e <= p
    <3>1. e + z = p
      BY <2>1 DEF PadZeros
    <3>2. QED
      BY ONLY p \in 0..(b - 1), <1>2, <3>1
  <2>2. CASE ~(e <= p)
    <3>1. e + z = b + p
      BY <2>2 DEF PadZeros
    <3>2. QED
      BY ONLY p \in 0..(b - 1), <1>2, <3>1
  <2>3. QED
    BY <2>1, <2>2
<1>4. ASSUME NEW i \in 0..(z - 1) PROVE (e + i) % b # p
  <2>1. CASE e + i < b
    <3>1. PICK s \in 0..(b - 1) : s = e + i /\ s # p
      <4>1. e + i \in 0..(b - 1) /\ e + i # p
        BY <2>1 DEF PadZeros
      <4>2. QED
        BY ONLY <4>1
    <3>2. s % b = s
      BY ONLY s \in 0..(b - 1), <1>2
    <3>3. QED
      BY ONLY <3>1, <3>2
  <2>2. CASE ~(e + i < b)
    <3>1. PICK s \in 0..(b - 1) : e + i = b + s /\ s # p
      <4>1. (e + i) - b \in 0..(b - 1) /\ e + i = b + ((e + i) - b) /\ (e + i) - b # p
        BY <1>1, <2>2 DEF PadZeros
      <4>2. QED
        BY ONLY <4>1
    <3>2. (b + s) % b = s
      BY ONLY s \in 0..(b - 1), <1>2
    <3>3. QED
      BY ONLY <3>1, <3>2
  <2>3. QED
    BY <2>1, <2>2
<1>5. QED
  BY <1>1, <1>3, <1>4

\* The message with its padding and its length fills whole blocks.
LEMMA PaddedFills ==
  ASSUME NEW b \in Nat \ {0}, NEW lb \in 1..(b - 1), NEW l \in Nat, NEW p, p = b - lb,
         NEW e, e = (l + 1) % b, NEW z, z = PadZeros(b, p, e)
  PROVE  ((l + 1) + z) + lb = ((l + lb + b) \div b) * b
<1>1. PICK q \in Nat : l + 1 = (q * b) + e /\ e \in 0..(b - 1)
  <2>1. PICK w \in Nat : w = l + 1
    OBVIOUS
  <2>2. w \div b \in Nat /\ (w % b) \in 0..(b - 1) /\ w = ((w \div b) * b) + (w % b)
    BY ONLY b \in Nat \ {0}, w \in Nat, DivMod
  <2>3. QED
    BY ONLY e = (l + 1) % b, <2>1, <2>2
<1>2. PICK u \in Nat, w \in Nat : u = q * b /\ w = l + lb + b
  BY ONLY q \in Nat, b \in Nat \ {0}, l \in Nat, lb \in 1..(b - 1)
<1>3. \A n \in Nat : (q + n) * b = u + (n * b)
  BY ONLY q \in Nat, b \in Nat \ {0}, <1>2, Distributes
<1>4. (q + 1) * b = u + b /\ (q + 2) * b = u + (b + b) /\ q + 1 \in Nat /\ q + 2 \in Nat
  <2>1. 1 * b = b /\ 2 * b = b + b /\ 1 \in Nat /\ 2 \in Nat /\ q + 1 \in Nat /\ q + 2 \in Nat
    BY ONLY b \in Nat \ {0}, q \in Nat
  <2>2. QED
    BY ONLY <1>3, <2>1
<1>5. CASE e <= p
  <2>1. PICK r \in 0..(b - 1) : r = (e + lb) - 1
    <3>1. (e + lb) - 1 \in 0..(b - 1)
      BY ONLY b \in Nat \ {0}, lb \in 1..(b - 1), p = b - lb, <1>1, <1>5
    <3>2. QED
      BY ONLY <3>1
  <2>2. w = (u + b) + r /\ l + 1 = u + e
    BY ONLY b \in Nat \ {0}, lb \in 1..(b - 1), l \in Nat, u \in Nat, w \in Nat, <1>1, <1>2, <2>1
  <2>3. w \div b = q + 1
    <3>1. PICK h \in Nat : h = q + 1 /\ h * b = u + b
      BY ONLY <1>4
    <3>2. w = (h * b) + r
      BY ONLY <2>2, <3>1
    <3>3. w \div b = h
      BY ONLY b \in Nat \ {0}, h \in Nat, r \in 0..(b - 1), <3>2, Quotient
    <3>4. QED
      BY ONLY <3>1, <3>3
  <2>4. ((l + 1) + z) + lb = u + b
    BY ONLY b \in Nat \ {0}, lb \in 1..(b - 1), l \in Nat, u \in Nat, p = b - lb, z = PadZeros(b,
            p, e),
            <1>1, <1>5, <2>2 DEF PadZeros
  <2>5. QED
    BY ONLY <1>2, <1>4, <2>3, <2>4
<1>6. CASE ~(e <= p)
  <2>1. PICK r \in 0..(b - 1) : r = ((e + lb) - 1) - b
    <3>1. ((e + lb) - 1) - b \in 0..(b - 1)
      BY ONLY b \in Nat \ {0}, lb \in 1..(b - 1), p = b - lb, <1>1, <1>6
    <3>2. QED
      BY ONLY <3>1
  <2>2. w = (u + (b + b)) + r /\ l + 1 = u + e
    BY ONLY b \in Nat \ {0}, lb \in 1..(b - 1), l \in Nat, u \in Nat, w \in Nat, <1>1, <1>2, <2>1
  <2>3. w \div b = q + 2
    <3>1. PICK h \in Nat : h = q + 2 /\ h * b = u + (b + b)
      BY ONLY <1>4
    <3>2. w = (h * b) + r
      BY ONLY <2>2, <3>1
    <3>3. w \div b = h
      BY ONLY b \in Nat \ {0}, h \in Nat, r \in 0..(b - 1), <3>2, Quotient
    <3>4. QED
      BY ONLY <3>1, <3>3
  <2>4. ((l + 1) + z) + lb = u + (b + b)
    BY ONLY b \in Nat \ {0}, lb \in 1..(b - 1), l \in Nat, u \in Nat, p = b - lb, z = PadZeros(b,
            p, e),
            <1>1, <1>6, <2>2 DEF PadZeros
  <2>5. QED
    BY ONLY <1>2, <1>4, <2>3, <2>4
<1>7. QED
  BY <1>5, <1>6

\* s is m, of o bytes, with one bit behind it and k bytes of zeros.
IsPadded(s, m, o, k) ==
  /\ o \in Nat /\ k \in Nat /\ IsSeq(s) /\ Len(s) = (o + 1) + k
  /\ \A j \in 1..o : s[j] = m[j]
  /\ s[o + 1] = Pad
  /\ \A j \in 1..k : s[(o + 1) + j] = Zero

LEMMA PadFirst ==
  ASSUME NEW m, IsSeq(m), NEW o \in Nat, o = Len(m)
  PROVE  IsPadded(m \o <<Pad>>, m, o, 0)
<1>1. PICK t, s : t = <<Pad>> /\ s = m \o t
  OBVIOUS
<1>2. IsSeq(t) /\ Len(t) = 1 /\ t[1] = Pad
  BY ONLY <1>1, OneIs
<1>3. /\ IsSeq(s) /\ Len(s) = Len(m) + Len(t)
      /\ (\A j \in 1..Len(m) : s[j] = m[j]) /\ \A j \in 1..Len(t) : s[Len(m) + j] = t[j]
  BY ONLY IsSeq(m), <1>1, <1>2, Glued
<1>4. Len(s) = (o + 1) + 0 /\ s[o + 1] = Pad
  BY ONLY o \in Nat, o = Len(m), <1>2, <1>3
<1>5. IsPadded(s, m, o, 0)
  BY ONLY o \in Nat, o = Len(m), <1>3, <1>4 DEF IsPadded
<1>6. QED
  BY ONLY <1>1, <1>5

LEMMA PadMore ==
  ASSUME NEW s, NEW m, NEW o, NEW k, IsPadded(s, m, o, k), NEW h, h = k + 1
  PROVE  IsPadded(s \o <<Zero>>, m, o, h)
<1>1. PICK t, u : t = <<Zero>> /\ u = s \o t
  OBVIOUS
<1>2. IsSeq(t) /\ Len(t) = 1 /\ t[1] = Zero
  BY ONLY <1>1, OneIs
<1>3. /\ o \in Nat /\ k \in Nat /\ IsSeq(s) /\ Len(s) = (o + 1) + k
      /\ (\A j \in 1..o : s[j] = m[j]) /\ s[o + 1] = Pad
      /\ \A j \in 1..k : s[(o + 1) + j] = Zero
  BY DEF IsPadded
<1>4. /\ IsSeq(u) /\ Len(u) = Len(s) + Len(t)
      /\ (\A j \in 1..Len(s) : u[j] = s[j]) /\ \A j \in 1..Len(t) : u[Len(s) + j] = t[j]
  BY ONLY <1>1, <1>2, <1>3, Glued
<1>5. h \in Nat /\ Len(u) = (o + 1) + h
  BY ONLY h = k + 1, <1>2, <1>3, <1>4
<1>6. ASSUME NEW j \in 1..o PROVE u[j] = m[j]
  <2>1. j \in 1..Len(s)
    BY ONLY j \in 1..o, <1>3
  <2>2. QED
    BY ONLY j \in 1..o, <1>3, <1>4, <2>1
<1>7. u[o + 1] = Pad
  <2>1. o + 1 \in 1..Len(s)
    BY ONLY <1>3
  <2>2. QED
    BY ONLY <1>3, <1>4, <2>1
<1>8. ASSUME NEW j \in 1..h PROVE u[(o + 1) + j] = Zero
  <2>1. CASE j \in 1..k
    <3>1. PICK i \in 1..Len(s) : i = (o + 1) + j
      <4>1. (o + 1) + j \in 1..Len(s)
        BY ONLY <1>3, <2>1
      <4>2. QED
        BY ONLY <4>1
    <3>2. u[i] = s[i] /\ s[i] = Zero
      BY ONLY <1>3, <1>4, <2>1, <3>1
    <3>3. QED
      BY ONLY <3>1, <3>2
  <2>2. CASE j \notin 1..k
    <3>1. j = k + 1 /\ (o + 1) + j = Len(s) + 1
      BY ONLY h = k + 1, j \in 1..h, <1>3, <2>2
    <3>2. u[Len(s) + 1] = t[1]
      BY ONLY <1>2, <1>4
    <3>3. QED
      BY ONLY <1>2, <3>1, <3>2
  <2>3. QED
    BY <2>1, <2>2
<1>9. IsPadded(u, m, o, h)
  BY ONLY <1>3, <1>4, <1>5, <1>6, <1>7, <1>8 DEF IsPadded
<1>10. QED
  BY ONLY <1>1, <1>9

\* Short calls.
LEMMA ShortCalls ==
  /\ LengthBytes \in Nat /\ LengthBytes < LowCount
  /\ \A x : IsSeq(<<x>>) /\ Len(<<x>>) < LowCount
<1>1. PICK b \in Nat \ {0}, l \in Nat \ {0}, lb \in Nat :
        b = Sha1Bytes /\ l = LowCount /\ lb = LengthBytes /\ l % b = 0 /\ lb \in 1..(b - 1)
  BY HashAssumption
<1>2. b <= l
  <2>1. PICK q \in Nat : l = q * b
    <3>1. l \div b \in Nat /\ l = ((l \div b) * b) + (l % b)
      BY ONLY b \in Nat \ {0}, l \in Nat \ {0}, DivMod
    <3>2. (l \div b) * b \in Nat
      BY ONLY b \in Nat \ {0}, <3>1
    <3>3. QED
      BY ONLY <1>1, <3>1, <3>2
  <2>2. q # 0
    BY ONLY b \in Nat \ {0}, l \in Nat \ {0}, q \in Nat, <2>1
  <2>3. 1 * b <= q * b /\ 1 * b = b
    BY ONLY b \in Nat \ {0}, q \in Nat, 1 \in Nat, <2>2, Ordered
  <2>4. QED
    BY ONLY <2>1, <2>3
<1>3. lb < l /\ 1 < l
  BY ONLY b \in Nat \ {0}, l \in Nat \ {0}, <1>1, <1>2
<1>4. QED
  BY ONLY <1>1, <1>3, OneIs

\* Where a context stands in its block.
LEMMA PlaceIs ==
  ASSUME NEW c, NEW m, Sha1State(c, m), NEW w \in Nat, w = Len(m)
  PROVE  c.low % Sha1Bytes = w % Sha1Bytes
<1>1. PICK b \in Nat \ {0}, l \in Nat \ {0} : b = Sha1Bytes /\ l = LowCount
  BY HashAssumption
<1>2. l % b = 0
  BY <1>1, HashAssumption
<1>3. (w % l) % b = w % b
  BY ONLY b \in Nat \ {0}, l \in Nat \ {0}, w \in Nat, <1>2, Places
<1>4. c.low = w % l
  BY ONLY Sha1State(c, m), w = Len(m), <1>1 DEF Sha1State, Sha1Has
<1>5. QED
  BY ONLY <1>1, <1>3, <1>4

\* Where a context stands after k bytes more.
Advances(b, w, k, e) == b \in Nat \ {0} /\ w \in Nat /\ k \in Nat /\ e = w % b

LEMMA PlaceAfter ==
  ASSUME NEW b, NEW w, NEW k, NEW e, Advances(b, w, k, e)
  PROVE  (w + k) % b = (e + k) % b
<1> SUFFICES ASSUME b \in Nat \ {0}, w \in Nat, k \in Nat, e = w % b PROVE (w + k) % b = (e + k) % b
  BY DEF Advances
<1>1. PICK q \in Nat : e \in 0..(b - 1) /\ w = (q * b) + e
  BY ONLY b \in Nat \ {0}, w \in Nat, e = w % b, DivMod
<1>2. PICK v \in Nat : v = e + k
  BY ONLY b \in Nat \ {0}, k \in Nat, <1>1
<1>3. PICK h \in Nat, s \in 0..(b - 1) : v = (h * b) + s /\ s = v % b
  <2>1. v \div b \in Nat /\ (v % b) \in 0..(b - 1) /\ v = ((v \div b) * b) + (v % b)
    BY ONLY b \in Nat \ {0}, v \in Nat, DivMod
  <2>2. QED
    BY ONLY <2>1
<1>4. PICK u \in Nat, y \in Nat : u = q * b /\ y = h * b
  BY ONLY b \in Nat \ {0}, q \in Nat, h \in Nat
<1>5. PICK g \in Nat : g = q + h /\ g * b = u + y
  <2>1. (q + h) * b = (q * b) + (h * b) /\ q + h \in Nat
    BY ONLY b \in Nat \ {0}, q \in Nat, h \in Nat, Distributes
  <2>2. QED
    BY ONLY <1>4, <2>1
<1>6. PICK x \in Nat : x = w + k
  BY ONLY w \in Nat, k \in Nat
<1>7. x = (u + y) + s
  <2>1. w = u + e /\ v = y + s
    BY ONLY <1>1, <1>3, <1>4
  <2>2. QED
    BY ONLY w \in Nat, k \in Nat, b \in Nat \ {0}, u \in Nat, y \in Nat, v \in Nat,
            s \in 0..(b - 1),
            e \in 0..(b - 1), <1>2, <1>6, <2>1, <1>1
<1>8. x = (g * b) + s
  BY ONLY <1>5, <1>7
<1>9. x % b = s
  BY ONLY b \in Nat \ {0}, g \in Nat, s \in 0..(b - 1), <1>8, Quotient
<1>10. QED
  BY ONLY <1>2, <1>3, <1>6, <1>9

\* F is the contexts of the padding, behind the message m in c.
Padding(F, c, n) ==
  F = [k \in 0..n |-> IF k = 0 THEN Sha1Update(c, <<Pad>>) ELSE Sha1Update(F[k - 1], <<Zero>>)]

\* Each holds the message with the padding that has come so far.
LEMMA PadsHold ==
  ASSUME NEW m, IsSeq(m), NEW c, Sha1State(c, m), NEW o \in Nat, o = Len(m),
         NEW n \in Nat, NEW F, Padding(F, c, n)
  PROVE  \A k \in 0..n : \E s : IsPadded(s, m, o, k) /\ Sha1State(F[k], s)
<1> DEFINE H == {k \in 0..n : \E s : IsPadded(s, m, o, k) /\ Sha1State(F[k], s)}
<1>1. 0 \in H
  <2>1. F[0] = Sha1Update(c, <<Pad>>)
    <3>1. 0 \in 0..n
      BY ONLY n \in Nat
    <3>2. QED
      BY ONLY Padding(F, c, n), <3>1 DEF Padding
  <2>2. PICK x : x = <<Pad>> /\ IsSeq(x) /\ Len(x) < LowCount
    BY ShortCalls
  <2>3. Sha1State(Sha1Update(c, x), m \o x)
    BY ONLY IsSeq(m), Sha1State(c, m), <2>2, Sha1Updates
  <2>4. IsPadded(m \o x, m, o, 0)
    BY ONLY IsSeq(m), o \in Nat, o = Len(m), <2>2, PadFirst
  <2>5. Sha1State(F[0], m \o x)
    BY ONLY <2>1, <2>2, <2>3
  <2>6. QED
    BY <2>4, <2>5
<1>2. ASSUME NEW k \in 1..n, k - 1 \in H PROVE k \in H
  <2>1. PICK s : IsPadded(s, m, o, k - 1) /\ Sha1State(F[k - 1], s)
    BY <1>2
  <2>2. F[k] = Sha1Update(F[k - 1], <<Zero>>)
    <3>1. k \in 0..n /\ k # 0
      BY ONLY n \in Nat, k \in 1..n
    <3>2. QED
      BY ONLY Padding(F, c, n), <3>1 DEF Padding
  <2>3. PICK d, x, l : d = F[k - 1] /\ l = k - 1 /\ x = <<Zero>> /\ IsSeq(x) /\ Len(x) < LowCount
    BY ShortCalls
  <2>4. IsSeq(s) /\ IsPadded(s, m, o, l) /\ Sha1State(d, s)
    BY ONLY <2>1, <2>3 DEF IsPadded
  <2>5. Sha1State(Sha1Update(d, x), s \o x)
    BY ONLY <2>3, <2>4, Sha1Updates
  <2>6. IsPadded(s \o x, m, o, k)
    <3>1. k = l + 1
      BY ONLY k \in 1..n, <2>3
    <3>2. QED
      BY ONLY <2>3, <2>4, <3>1, PadMore
  <2>7. Sha1State(F[k], s \o x)
    BY ONLY <2>2, <2>3, <2>5
  <2>8. QED
    BY <2>6, <2>7
<1>3. 0..n \subseteq H
  <2> HIDE DEF H
  <2>1. QED
    BY ONLY n \in Nat, <1>1, <1>2, UpTo
<1>4. QED
  BY <1>3

\* The first context of the padding behind which the length fits.
FirstFit(F, k) ==
  /\ k \in 0..Sha1Bytes
  /\ F[k].low % Sha1Bytes = PadUntil
  /\ \A l \in 0..(k - 1) : F[l].low % Sha1Bytes # PadUntil

\* The padding ends at the number of zeros that leads to the place of the length.
LEMMA PaddingEnds ==
  ASSUME NEW m, IsSeq(m), NEW c, Sha1State(c, m), NEW o \in Nat, o = Len(m),
         NEW F, Padding(F, c, Sha1Bytes),
         NEW z, z = PadZeros(Sha1Bytes, PadUntil, (o + 1) % Sha1Bytes)
  PROVE  FirstFit(F, z) /\ \A k : FirstFit(F, k) => k = z
<1>1. PICK b \in Nat \ {0}, p \in Nat : b = Sha1Bytes /\ p = PadUntil /\ p \in 0..(b - 1)
  BY HashAssumption DEF PadUntil
<1>2. PICK w \in Nat : w = o + 1
  OBVIOUS
<1>3. PICK e \in 0..(b - 1) : e = w % b
  BY ONLY b \in Nat \ {0}, w \in Nat, DivMod
<1>4. \A k \in 0..b : F[k].low % Sha1Bytes = (e + k) % b
  <2>1. ASSUME NEW k \in 0..b PROVE F[k].low % Sha1Bytes = (e + k) % b
    <3>1. PICK s, d : IsPadded(s, m, o, k) /\ Sha1State(d, s) /\ d = F[k]
      <4>1. \A i \in 0..b : \E s : IsPadded(s, m, o, i) /\ Sha1State(F[i], s)
        <5>1. b \in Nat /\ Padding(F, c, b)
          BY <1>1
        <5>2. QED
          BY ONLY IsSeq(m), Sha1State(c, m), o \in Nat, o = Len(m), <5>1, PadsHold
      <4>2. QED
        BY ONLY k \in 0..b, <4>1
    <3>2. PICK v \in Nat, u \in Nat : v = w + k /\ u = k /\ v = Len(s)
      <4>1. Len(s) = (o + 1) + k
        BY ONLY <3>1 DEF IsPadded
      <4>2. k \in Nat /\ w + k \in Nat /\ w + k = Len(s)
        BY ONLY b \in Nat \ {0}, k \in 0..b, w \in Nat, <1>2, <4>1
      <4>3. QED
        BY ONLY <4>2
    <3>3. d.low % Sha1Bytes = v % Sha1Bytes
      BY ONLY v \in Nat, <3>1, <3>2, PlaceIs
    <3>4. (w + u) % b = (e + u) % b
      <4>1. Advances(b, w, u, e)
        BY ONLY b \in Nat \ {0}, w \in Nat, u \in Nat, <1>3 DEF Advances
      <4>2. QED
        BY ONLY <4>1, PlaceAfter
    <3>5. QED
      BY ONLY <1>1, <3>1, <3>2, <3>3, <3>4
  <2>2. QED
    BY ONLY <2>1
<1>5. z \in 0..b /\ (e + z) % b = p /\ \A i \in 0..(z - 1) : (e + i) % b # p
  <2>1. z = PadZeros(b, p, e)
    BY ONLY z = PadZeros(Sha1Bytes, PadUntil, (o + 1) % Sha1Bytes), <1>1, <1>2, <1>3
  <2>2. p \in 0..(b - 1)
    BY ONLY <1>1
  <2>3. QED
    BY ONLY b \in Nat \ {0}, e \in 0..(b - 1), <2>1, <2>2, ZerosLead
<1>6. FirstFit(F, z)
  <2>1. \A l \in 0..(z - 1) : l \in 0..b
    BY ONLY b \in Nat \ {0}, <1>5
  <2>2. F[z].low % Sha1Bytes = p /\ \A l \in 0..(z - 1) : F[l].low % Sha1Bytes # p
    BY ONLY <1>4, <1>5, <2>1
  <2>3. QED
    BY ONLY <1>1, <1>5, <2>2 DEF FirstFit
<1>7. ASSUME NEW k, FirstFit(F, k) PROVE k = z
  <2>1. k \in 0..b /\ F[k].low % Sha1Bytes = p /\ \A l \in 0..(k - 1) : F[l].low % Sha1Bytes # p
    BY ONLY FirstFit(F, k), <1>1 DEF FirstFit
  <2>2. F[z].low % Sha1Bytes = p /\ \A l \in 0..(z - 1) : F[l].low % Sha1Bytes # p
    BY ONLY <1>1, <1>6 DEF FirstFit
  <2>3. ~(k < z) /\ ~(z < k)
    <3>1. k < z => k \in 0..(z - 1)
      BY ONLY b \in Nat \ {0}, <1>5, <2>1
    <3>2. z < k => z \in 0..(k - 1)
      BY ONLY b \in Nat \ {0}, <1>5, <2>1
    <3>3. QED
      BY ONLY <2>1, <2>2, <3>1, <3>2
  <2>4. QED
    BY ONLY b \in Nat \ {0}, <1>5, <2>1, <2>3
<1>8. QED
  BY ONLY <1>6, <1>7

\* The length that ends a message.
LengthOf(c) == [i \in 1..LengthBytes |-> LengthByte(c.high, c.low, i)]

\* sha1_final takes the first context of its padding behind which the length fits.
LEMMA FinalIs ==
  ASSUME NEW c
  PROVE  \E F : /\ Padding(F, c, Sha1Bytes)
                /\ (\E k : FirstFit(F, k)) =>
                     \E k : FirstFit(F, k) /\ Sha1Final(c) = Sha1Update(F[k], LengthOf(c))
<1> DEFINE F == CHOOSE f : f = [k \in 0..Sha1Bytes |-> IF k = 0 THEN Sha1Update(c, <<Pad>>)
                                                       ELSE Sha1Update(f[k - 1], <<Zero>>)]
           K == CHOOSE k \in 0..Sha1Bytes :
                  /\ F[k].low % Sha1Bytes = PadUntil
                  /\ \A l \in 0..(k - 1) : F[l].low % Sha1Bytes # PadUntil
<1>1. Sha1Final(c) = Sha1Update(F[K], LengthOf(c))
  BY DEF Sha1Final, LengthOf
<1>2. Padding(F, c, Sha1Bytes)
  <2>1. Sha1Bytes \in Nat
    BY HashAssumption
  <2>2. \E f : f = [k \in 0..Sha1Bytes |-> IF k = 0 THEN Sha1Update(c, <<Pad>>)
                                           ELSE Sha1Update(f[k - 1], <<Zero>>)]
    <3>1. PICK a : a = Sha1Update(c, <<Pad>>)
      OBVIOUS
    <3>2. PICK n \in Nat : n = Sha1Bytes
      BY <2>1
    <3>3. PICK f : Zeroes(f, n, a)
      BY PadsAre
    <3>4. f = [k \in 0..n |-> IF k = 0 THEN a ELSE Zeroed(f[k - 1])]
      BY ONLY <3>3 DEF Zeroes
    <3>5. f = [k \in 0..Sha1Bytes |-> IF k = 0 THEN Sha1Update(c, <<Pad>>) ELSE Sha1Update(f[k - 1], <<Zero>>)]
      BY ONLY <3>1, <3>2, <3>4 DEF Zeroed
    <3>6. QED
      BY ONLY <3>5
  <2>3. F = [k \in 0..Sha1Bytes |-> IF k = 0 THEN Sha1Update(c, <<Pad>>) ELSE Sha1Update(F[k - 1], <<Zero>>)]
    BY <2>2
  <2>4. QED
    BY <2>3 DEF Padding
<1>3. (\E k : FirstFit(F, k)) => FirstFit(F, K)
  <2> HIDE DEF F
  <2>1. QED
    BY DEF FirstFit
<1> HIDE DEF F, K
<1>4. QED
  BY <1>1, <1>2, <1>3

\* mx is a padded message with its length.
WithLength(mx, m, o, z, s, lb, len, t) ==
  /\ o \in Nat /\ lb \in Nat /\ o = Len(m) /\ t = (o + 1) + z /\ IsPadded(s, m, o, z)
  /\ IsSeq(len) /\ Len(len) = lb /\ mx = s \o len

\* The padded message, byte by byte.
LEMMA PaddedIs ==
  ASSUME NEW mx, NEW m, NEW o, NEW z, NEW s, NEW lb, NEW len, NEW t, WithLength(mx, m, o, z, s, lb, len, t)
  PROVE  /\ Len(mx) = t + lb
         /\ \A i \in 1..(t + lb) :
              mx[i] = IF i <= o THEN m[i] ELSE IF i = o + 1 THEN Pad
                      ELSE IF i <= t THEN Zero ELSE len[i - t]
<1> SUFFICES ASSUME o \in Nat, lb \in Nat, o = Len(m), t = (o + 1) + z, IsPadded(s, m, o, z),
                    IsSeq(len), Len(len) = lb, mx = s \o len
             PROVE  /\ Len(mx) = t + lb
                    /\ \A i \in 1..(t + lb) :
                         mx[i] = IF i <= o THEN m[i] ELSE IF i = o + 1 THEN Pad
                                 ELSE IF i <= t THEN Zero ELSE len[i - t]
  BY DEF WithLength
<1>1. /\ z \in Nat /\ IsSeq(s) /\ Len(s) = t /\ (\A j \in 1..o : s[j] = m[j]) /\ s[o + 1] = Pad
      /\ \A j \in 1..z : s[(o + 1) + j] = Zero
  BY DEF IsPadded
<1>2. /\ IsSeq(mx) /\ Len(mx) = t + lb
      /\ (\A j \in 1..t : mx[j] = s[j]) /\ \A j \in 1..lb : mx[t + j] = len[j]
  <2>1. /\ IsSeq(mx) /\ Len(mx) = Len(s) + Len(len)
        /\ (\A j \in 1..Len(s) : mx[j] = s[j]) /\ \A j \in 1..Len(len) : mx[Len(s) + j] = len[j]
    <3>1. IsSeq(s)
      BY ONLY <1>1
    <3>2. QED
      BY ONLY IsSeq(len), mx = s \o len, <3>1, Glued
  <2>2. Len(s) = t
    BY ONLY <1>1
  <2>3. QED
    BY ONLY Len(len) = lb, <2>1, <2>2
<1>3. ASSUME NEW i \in 1..(t + lb)
      PROVE  mx[i] = IF i <= o THEN m[i] ELSE IF i = o + 1 THEN Pad
                     ELSE IF i <= t THEN Zero ELSE len[i - t]
  <2>1. CASE i <= o
    <3>1. i \in 1..o /\ i \in 1..t
      BY ONLY o \in Nat, lb \in Nat, t = (o + 1) + z, i \in 1..(t + lb), <1>1, <2>1
    <3>2. QED
      BY ONLY <1>1, <1>2, <2>1, <3>1
  <2>2. CASE i = o + 1
    <3>1. ~(i <= o) /\ i \in 1..t
      BY ONLY o \in Nat, lb \in Nat, t = (o + 1) + z, i \in 1..(t + lb), <1>1, <2>2
    <3>2. QED
      BY ONLY <1>1, <1>2, <2>2, <3>1
  <2>3. CASE ~(i <= o) /\ i # o + 1 /\ i <= t
    <3>1. PICK j \in 1..z : i = (o + 1) + j
      <4>1. i - (o + 1) \in 1..z /\ i = (o + 1) + (i - (o + 1))
        BY ONLY o \in Nat, lb \in Nat, t = (o + 1) + z, i \in 1..(t + lb), <1>1, <2>3
      <4>2. QED
        BY ONLY <4>1
    <3>2. i \in 1..t
      BY ONLY o \in Nat, lb \in Nat, t = (o + 1) + z, i \in 1..(t + lb), <1>1, <2>3
    <3>3. s[i] = Zero
      BY ONLY <1>1, <3>1
    <3>4. QED
      BY ONLY <1>2, <2>3, <3>2, <3>3
  <2>4. CASE ~(i <= t)
    <3>1. ~(i <= o) /\ i # o + 1
      BY ONLY o \in Nat, lb \in Nat, t = (o + 1) + z, i \in 1..(t + lb), <1>1, <2>4
    <3>2. PICK j \in 1..lb : i = t + j /\ i - t = j
      <4>1. i - t \in 1..lb /\ i = t + (i - t)
        BY ONLY o \in Nat, lb \in Nat, t = (o + 1) + z, i \in 1..(t + lb), <1>1, <2>4
      <4>2. QED
        BY ONLY <4>1
    <3>3. mx[i] = len[j]
      BY ONLY <1>2, <3>2
    <3>4. QED
      BY ONLY <2>4, <3>1, <3>2, <3>3
  <2>5. QED
    BY ONLY <2>1, <2>2, <2>3, <2>4
<1>4. QED
  BY ONLY <1>2, <1>3

\* How many blocks a padded message has, and its k-th byte.
PaddedBlocks(m) == (Len(m) + LengthBytes + Sha1Bytes) \div Sha1Bytes

LengthIn(m) == [i \in 1..LengthBytes |-> LengthByte(Len(m) \div LowCount, Len(m) % LowCount, i)]

PaddedByte(m, k) ==
  IF k <= Len(m) THEN m[k] ELSE IF k = Len(m) + 1 THEN Pad
  ELSE IF k <= (PaddedBlocks(m) * Sha1Bytes) - LengthBytes THEN Zero
  ELSE LengthIn(m)[k - ((PaddedBlocks(m) * Sha1Bytes) - LengthBytes)]

LEMMA Sha1OfIs ==
  ASSUME NEW m
  PROVE  Sha1Of(m) = [i \in 1..PaddedBlocks(m) |->
                       [j \in 1..Sha1Bytes |-> PaddedByte(m, ((i - 1) * Sha1Bytes) + j)]]
  BY DEF Sha1Of, PaddedBlocks, LengthIn, PaddedByte

\* mx is m with its padding, of n blocks of b bytes.
Complete(mx, m, n, b) ==
  /\ b = Sha1Bytes /\ n = PaddedBlocks(m) /\ n \in Nat /\ Len(mx) = n * b
  /\ \A k \in 1..Len(mx) : mx[k] = PaddedByte(m, k)

\* Its blocks are those of the definition.
LEMMA CompleteIs ==
  ASSUME NEW mx, NEW m, NEW n, NEW b, Complete(mx, m, n, b)
  PROVE  Blocks(mx, b, n) = Sha1Of(m)
<1>1. /\ b = Sha1Bytes /\ n = PaddedBlocks(m) /\ n \in Nat /\ b \in Nat \ {0} /\ Len(mx) = n * b
      /\ \A k \in 1..Len(mx) : mx[k] = PaddedByte(m, k)
  BY HashAssumption DEF Complete
<1>1a. n \in Nat
  BY ONLY <1>1
<1>2. ASSUME NEW i \in 1..n
      PROVE  Block(mx, b, i) = [j \in 1..b |-> PaddedByte(m, ((i - 1) * b) + j)]
  <2> DEFINE f == (i - 1) * b
  <2>1. f \in Nat /\ f + b <= n * b /\ n * b \in Nat
    <3>1. i - 1 \in Nat /\ i = (i - 1) + 1 /\ i <= n /\ i \in Nat
      BY ONLY i \in 1..n, <1>1a
    <3>2. ((i - 1) + 1) * b = f + (1 * b) /\ f \in Nat /\ 1 * b = b
      BY ONLY 1 \in Nat, <1>1, <3>1, Distributes
    <3>3. i * b <= n * b
      BY ONLY <1>1, <3>1, Ordered
    <3>4. i * b = f + b /\ n * b \in Nat
      BY ONLY <1>1, <3>1, <3>2
    <3>5. QED
      BY ONLY <3>2, <3>3, <3>4
  <2>2. Block(mx, b, i) = [j \in 1..b |-> IF f + j <= Len(mx) THEN mx[f + j] ELSE Zero]
    BY DEF Block
  <2> HIDE DEF f
  <2>3. ASSUME NEW j \in 1..b PROVE f + j <= Len(mx) /\ mx[f + j] = PaddedByte(m, f + j)
    <3>1. PICK l \in Nat : l = n * b /\ l = Len(mx) /\ f + b <= l
      BY ONLY <1>1, <2>1
    <3>2. b \in Nat
      BY ONLY <1>1
    <3>3. f + j \in 1..l /\ f + j <= l
      BY ONLY j \in 1..b, l \in Nat, <2>1, <3>1, <3>2
    <3>4. QED
      BY ONLY <1>1, <3>1, <3>3
  <2>4. Block(mx, b, i) = [j \in 1..b |-> PaddedByte(m, f + j)]
    BY ONLY <2>2, <2>3
  <2>5. QED
    BY ONLY <2>4 DEF f
<1>3. Blocks(mx, b, n) = [i \in 1..n |-> [j \in 1..b |-> PaddedByte(m, ((i - 1) * b) + j)]]
  BY ONLY <1>2 DEF Blocks
<1>4. QED
  BY ONLY <1>1, <1>3, Sha1OfIs

\* The context after sha1_final.
Sha1Ended(d, m) == d.chain = Sha1Of(m) /\ IsSeq(d.buf) /\ Len(d.buf) = Sha1Bytes

LEMMA Sha1Finals ==
  ASSUME NEW m, IsSeq(m), NEW c, Sha1State(c, m)
  PROVE  Sha1Ended(Sha1Final(c), m)
<1>1. PICK b \in Nat \ {0}, lb \in Nat, p \in Nat :
        b = Sha1Bytes /\ lb = LengthBytes /\ lb \in 1..(b - 1) /\ p = PadUntil /\ p = b - lb
  BY HashAssumption DEF PadUntil
<1>2. PICK o \in Nat : o = Len(m)
  BY DEF IsSeq
<1>3. PICK z, e : e = (o + 1) % b /\ z = PadZeros(b, p, e)
  OBVIOUS
<1>4. PICK F : /\ Padding(F, c, Sha1Bytes)
               /\ (\E k : FirstFit(F, k)) =>
                    \E k : FirstFit(F, k) /\ Sha1Final(c) = Sha1Update(F[k], LengthOf(c))
  BY FinalIs
<1>5. FirstFit(F, z) /\ \A k : FirstFit(F, k) => k = z
  <2>1. z = PadZeros(Sha1Bytes, PadUntil, (o + 1) % Sha1Bytes) /\ Padding(F, c, Sha1Bytes)
    BY ONLY <1>1, <1>3, <1>4
  <2>2. QED
    BY ONLY IsSeq(m), Sha1State(c, m), o \in Nat, <1>2, <2>1, PaddingEnds
<1>6. Sha1Final(c) = Sha1Update(F[z], LengthOf(c))
  BY ONLY <1>4, <1>5
<1>7. PICK s, d : IsPadded(s, m, o, z) /\ Sha1State(d, s) /\ d = F[z]
  <2>1. z \in 0..b /\ b \in Nat /\ Padding(F, c, b)
    BY <1>1, <1>4, <1>5 DEF FirstFit
  <2>2. \A k \in 0..b : \E s : IsPadded(s, m, o, k) /\ Sha1State(F[k], s)
    BY ONLY IsSeq(m), Sha1State(c, m), o \in Nat, <1>2, <2>1, PadsHold
  <2>3. QED
    BY ONLY <2>1, <2>2
<1>8. PICK len : len = LengthOf(c) /\ len = LengthIn(m)
  <2>1. c.low = o % LowCount /\ c.high = o \div LowCount
    BY ONLY Sha1State(c, m), <1>2 DEF Sha1State, Sha1Has
  <2>2. LengthOf(c) = LengthIn(m)
    BY ONLY <1>2, <2>1 DEF LengthOf, LengthIn
  <2>3. QED
    BY ONLY <2>2
<1>9. IsSeq(len) /\ Len(len) = lb /\ Len(len) < LowCount
  <2>1. len = [i \in 1..lb |-> len[i]]
    BY ONLY <1>1, <1>8 DEF LengthIn
  <2>2. IsSeq(len) /\ Len(len) = lb
    BY ONLY lb \in Nat, <2>1, Listing
  <2>3. QED
    BY ONLY <1>1, <2>2, ShortCalls
<1>10. PICK mx : mx = s \o len
  OBVIOUS
<1>11. Sha1State(Sha1Update(d, len), mx)
  <2>1. IsSeq(s)
    BY ONLY <1>7 DEF IsPadded
  <2>2. Sha1State(Sha1Update(d, len), s \o len)
    BY ONLY <1>7, <1>9, <2>1, Sha1Updates
  <2>3. QED
    BY ONLY <1>10, <2>2
<1>12. PICK t \in Nat : t = (o + 1) + z
  <2>1. z \in Nat
    BY ONLY <1>7 DEF IsPadded
  <2>2. QED
    BY ONLY o \in Nat, <2>1
<1>13. PICK n \in Nat, y \in Nat : n = PaddedBlocks(m) /\ y = n * b /\ t + lb = y
  <2>1. PICK w \in Nat : w = o + lb + b
    BY ONLY o \in Nat, lb \in Nat, b \in Nat \ {0}
  <2>2. w \div b \in Nat /\ (w \div b) * b \in Nat
    BY ONLY b \in Nat \ {0}, w \in Nat, DivMod
  <2>3. ((o + 1) + z) + lb = ((o + lb + b) \div b) * b
    <3>1. lb \in 1..(b - 1) /\ p = b - lb
      BY ONLY <1>1
    <3>2. QED
      BY ONLY b \in Nat \ {0}, o \in Nat, <1>3, <3>1, PaddedFills
  <2>4. PaddedBlocks(m) = w \div b
    BY ONLY <1>1, <1>2, <2>1 DEF PaddedBlocks
  <2>5. QED
    BY ONLY <1>12, <2>1, <2>2, <2>3, <2>4
<1>14. /\ Len(mx) = t + lb
       /\ \A i \in 1..(t + lb) :
            mx[i] = IF i <= o THEN m[i] ELSE IF i = o + 1 THEN Pad
                    ELSE IF i <= t THEN Zero ELSE len[i - t]
  <2>1. WithLength(mx, m, o, z, s, lb, len, t)
    BY ONLY o \in Nat, lb \in Nat, <1>2, <1>7, <1>9, <1>10, <1>12 DEF WithLength
  <2>2. QED
    BY ONLY <2>1, PaddedIs
<1>15. y - lb = t
  BY ONLY t \in Nat, lb \in Nat, y \in Nat, <1>13
<1>16. ASSUME NEW i \in 1..Len(mx) PROVE mx[i] = PaddedByte(m, i)
  <2>1. (PaddedBlocks(m) * Sha1Bytes) - LengthBytes = t
    BY ONLY <1>1, <1>13, <1>15
  <2>2. PaddedByte(m, i) = IF i <= o THEN m[i] ELSE IF i = o + 1 THEN Pad
                           ELSE IF i <= t THEN Zero ELSE len[i - t]
    BY ONLY <1>2, <1>8, <2>1 DEF PaddedByte
  <2>3. QED
    BY ONLY i \in 1..Len(mx), <1>14, <2>2
<1>17. Complete(mx, m, n, b)
  BY ONLY n \in Nat, <1>1, <1>13, <1>14, <1>16 DEF Complete
<1>18. Len(mx) \div Sha1Bytes = n
  <2>1. PICK r \in 0..(b - 1) : r = 0
    BY ONLY b \in Nat \ {0}
  <2>2. y = (n * b) + r
    BY ONLY y \in Nat, <1>13, <2>1
  <2>3. y \div b = n
    BY ONLY b \in Nat \ {0}, n \in Nat, r \in 0..(b - 1), <2>2, Quotient
  <2>4. QED
    BY ONLY <1>1, <1>13, <1>14, <2>3
<1>19. PICK f : f = Sha1Update(d, len)
  OBVIOUS
<1>20. f.chain = Blocks(mx, b, n) /\ IsSeq(f.buf) /\ Len(f.buf) = Sha1Bytes
  BY ONLY <1>1, <1>11, <1>18, <1>19 DEF Sha1State, Sha1Has
<1>21. Sha1Ended(f, m)
  BY ONLY <1>17, <1>20, CompleteIs DEF Sha1Ended
<1>22. QED
  BY ONLY <1>6, <1>7, <1>8, <1>19, <1>21

\* The buffer of a context of SHA1 always has the size of a block; while a message
\* comes the context holds it.
Sha1Holds ==
  hash.alg = "sha1" =>
    /\ IsSeq(ctx.buf) /\ Len(ctx.buf) = Sha1Bytes
    /\ phase = "open" => IsSeq(message) /\ Sha1State(ctx, message)

Sha1Inv == hash \in Skeins \cup {None, Sha1} /\ Sha1Holds /\ Sha1Digest

\* No call as long as the lower word of the count can count: from there on its
\* carry is wrong (sha1.c:115).
ShortUpdates == MaxCall < LowCount

LEMMA Sha1AtInit == Init => Sha1Inv
BY DEF Init, Sha1Inv, Sha1Holds, Sha1Digest, None

\* The context of no message.
LEMMA Sha1Inits ==
  ASSUME NEW buf, IsSeq(buf), Len(buf) = Sha1Bytes, NEW c, c = Sha1Init(buf)
  PROVE  IsSeq(c.buf) /\ Len(c.buf) = Sha1Bytes /\ IsSeq(<<>>) /\ Sha1State(c, <<>>)
<1>0. PICK z \in Nat : z = 0
  OBVIOUS
<1>1. PICK e, ch : e = <<>> /\ ch = <<>> /\ z = 0
  BY <1>0
<1>2. IsSeq(e) /\ Len(e) = z
  <2>1. <<>> = [j \in 1..0 |-> <<>>[j]] /\ Len(<<>>) = 0
    OBVIOUS
  <2>2. QED
    BY ONLY <1>1, <2>1 DEF IsSeq
<1>3. ch = Blocks(e, Sha1Bytes, z)
  <2>1. PICK u : u = Blocks(e, Sha1Bytes, z)
    OBVIOUS
  <2>2. u = [i \in 1..z |-> u[i]]
    BY ONLY <2>1 DEF Blocks
  <2>3. IsSeq(u) /\ Len(u) = z
    BY ONLY z \in Nat, <2>2, Listing
  <2>4. Len(e) = Len(u) /\ \A k \in 1..Len(e) : e[k] = u[k]
    BY ONLY <1>1, <1>2, <2>3
  <2>5. e = u
    BY ONLY <1>2, <2>3, <2>4, SameSeq
  <2>6. QED
    BY ONLY <1>1, <2>1, <2>5
<1>4. PICK b \in Nat \ {0}, l \in Nat \ {0} : b = Sha1Bytes /\ l = LowCount
  BY HashAssumption
<1>5. z % LowCount = 0 /\ z \div LowCount = 0
  <2>1. z \in 0..(l - 1) /\ z = (0 * l) + z
    BY ONLY l \in Nat \ {0}, <1>1
  <2>2. z \div l = 0 /\ z % l = z
    BY ONLY l \in Nat \ {0}, 0 \in Nat, <2>1, Quotient
  <2>3. QED
    BY ONLY <1>1, <1>4, <2>2
<1>6. c = Sha(ch, z % LowCount, z \div LowCount, buf)
  BY ONLY c = Sha1Init(buf), <1>1, <1>5 DEF Sha1Init, Sha
<1>7. c.buf = buf
  BY ONLY <1>6, ShaFields
<1>8. Sha1State(c, e)
  <2>1. z \in 0..(Sha1Bytes - 1) /\ z = Times(z, Sha1Bytes) + z
    BY ONLY b \in Nat \ {0}, <1>1, <1>4 DEF Times
  <2>2. \A i \in 1..z : buf[i] = e[Times(z, Sha1Bytes) + i]
    BY ONLY <1>1
  <2>3. c = Sha(Blocks(e, Sha1Bytes, z), z % LowCount, z \div LowCount, buf)
    BY ONLY <1>3, <1>6
  <2>4. QED
    BY ONLY IsSeq(buf), Len(buf) = Sha1Bytes, z \in Nat, <1>2, <2>1, <2>2, <2>3, Sha1Lands
<1>9. QED
  BY ONLY IsSeq(buf), Len(buf) = Sha1Bytes, <1>1, <1>2, <1>7, <1>8

\* A reset handle has an empty message.
LEMMA Sha1AtReset ==
  ASSUME NEW h \in Skeins \cup {None, Sha1}, NEW n, NEW buf, Reset(h, n, buf), hash' = h,
         h.alg = "sha1" => IsSeq(buf) /\ Len(buf) = Sha1Bytes
  PROVE  Sha1Inv'
<1>1. phase' = "open" /\ message' = <<>> /\ (h.alg = "sha1" => ctx' = Sha1Init(buf))
  BY DEF Reset
<1>2. ASSUME h.alg = "sha1"
      PROVE  /\ IsSeq(ctx'.buf) /\ Len(ctx'.buf) = Sha1Bytes
             /\ IsSeq(message') /\ Sha1State(ctx', message')
  <2>1. PICK c : c = Sha1Init(buf)
    OBVIOUS
  <2>2. IsSeq(c.buf) /\ Len(c.buf) = Sha1Bytes /\ IsSeq(<<>>) /\ Sha1State(c, <<>>)
    BY ONLY h.alg = "sha1" => IsSeq(buf) /\ Len(buf) = Sha1Bytes, <1>2, <2>1, Sha1Inits
  <2>3. QED
    BY ONLY <1>1, <1>2, <2>1, <2>2
<1>3. Sha1Holds'
  BY <1>1, <1>2 DEF Sha1Holds
<1>4. Sha1Digest'
  BY <1>1 DEF Sha1Digest
<1>5. QED
  BY <1>3, <1>4 DEF Sha1Inv

LEMMA Sha1AtUpdate ==
  ASSUME Sha1Inv, NEW n \in Nat, n < LowCount, HashUpdate(n)
  PROVE  Sha1Inv'
<1>1. /\ phase = "open" /\ phase' = phase /\ hash' = hash /\ digest' = digest
      /\ message' = message \o Passing(n)
      /\ hash.alg = "sha1" => ctx' = Sha1Update(ctx, Passing(n))
  BY DEF HashUpdate
<1>2. ASSUME hash.alg = "sha1"
      PROVE  /\ IsSeq(ctx'.buf) /\ Len(ctx'.buf) = Sha1Bytes
             /\ IsSeq(message') /\ Sha1State(ctx', message')
  <2>1. PICK x, m, c : x = Passing(n) /\ m = message /\ c = ctx
    OBVIOUS
  <2>2. IsSeq(m) /\ Sha1State(c, m)
    BY <1>1, <1>2, <2>1 DEF Sha1Inv, Sha1Holds
  <2>3. IsSeq(x) /\ Len(x) < LowCount
    <3>1. x = [j \in 1..n |-> x[j]]
      BY <2>1 DEF Passing
    <3>2. IsSeq(x) /\ Len(x) = n
      BY ONLY n \in Nat, <3>1, Listing
    <3>3. QED
      BY ONLY n < LowCount, <3>2
  <2>4. PICK d, mx : d = Sha1Update(c, x) /\ mx = m \o x
    OBVIOUS
  <2>5. Sha1State(d, mx) /\ IsSeq(mx)
    BY ONLY <2>2, <2>3, <2>4, Sha1Updates, Glued
  <2>6. IsSeq(d.buf) /\ Len(d.buf) = Sha1Bytes
    BY ONLY <2>5 DEF Sha1State, Sha1Has
  <2>7. QED
    BY ONLY <1>1, <1>2, <2>1, <2>4, <2>5, <2>6
<1>3. Sha1Holds'
  BY <1>1, <1>2 DEF Sha1Holds
<1>4. Sha1Digest' /\ hash' \in Skeins \cup {None, Sha1}
  BY <1>1 DEF Sha1Digest, Sha1Inv
<1>5. QED
  BY <1>3, <1>4 DEF Sha1Inv

LEMMA Sha1AtFinal ==
  ASSUME Sha1Inv, HashFinal
  PROVE  Sha1Inv'
<1>1. /\ phase = "open" /\ phase' = "final" /\ hash' = hash /\ message' = message
      /\ hash.alg = "sha1" => ctx' = Sha1Final(ctx) /\ digest' = Sha1Output(ctx')
  BY DEF HashFinal
<1>2. ASSUME hash.alg = "sha1"
      PROVE  /\ IsSeq(ctx'.buf) /\ Len(ctx'.buf) = Sha1Bytes
             /\ digest' = [j \in 1..Sha1DigestBytes |-> <<j, Sha1Of(message)>>]
  <2>1. PICK m, c, d : m = message /\ c = ctx /\ d = Sha1Final(c)
    OBVIOUS
  <2>2. IsSeq(m) /\ Sha1State(c, m)
    BY <1>1, <1>2, <2>1 DEF Sha1Inv, Sha1Holds
  <2>3. Sha1Ended(d, m)
    BY ONLY <2>1, <2>2, Sha1Finals
  <2>4. /\ IsSeq(d.buf) /\ Len(d.buf) = Sha1Bytes
        /\ Sha1Output(d) = [j \in 1..Sha1DigestBytes |-> <<j, Sha1Of(m)>>]
    BY ONLY <2>3 DEF Sha1Ended, Sha1Output
  <2>5. QED
    BY ONLY <1>1, <1>2, <2>1, <2>4
<1>3. Sha1Holds' /\ Sha1Digest'
  BY <1>1, <1>2 DEF Sha1Holds, Sha1Digest
<1>4. QED
  BY <1>1, <1>3 DEF Sha1Inv

LEMMA Sha1Step ==
  ASSUME ShortUpdates
  PROVE  Sha1Inv /\ [Next]_vars => Sha1Inv'
<1> SUFFICES ASSUME Sha1Inv, [Next]_vars PROVE Sha1Inv'
  OBVIOUS
<1>1. ASSUME NEW h \in Skeins \cup {Sha1}, NEW n, HashInit(h, n) PROVE Sha1Inv'
  <2>1. PICK buf : buf = [j \in 1..h.bytes |-> Zero] /\ Reset(h, n, buf) /\ hash' = h
    BY <1>1 DEF HashInit
  <2>2. ASSUME h.alg = "sha1" PROVE IsSeq(buf) /\ Len(buf) = Sha1Bytes
    <3>1. h.bytes = Sha1Bytes
      BY <2>2 DEF Skeins, Skein256, Skein512, Skein1024, Sha1
    <3>2. PICK b \in Nat : b = Sha1Bytes
      BY HashAssumption
    <3>3. buf = [j \in 1..b |-> buf[j]]
      BY ONLY <2>1, <3>1, <3>2
    <3>4. QED
      BY ONLY b \in Nat, <3>2, <3>3, Listing
  <2>3. QED
    BY <2>1, <2>2, Sha1AtReset
<1>2. CASE HashReset
  BY <1>2, Sha1AtReset DEF HashReset, Sha1Inv, Sha1Holds
<1>3. CASE HashFinal
  BY <1>3, Sha1AtFinal
<1>4. CASE HashFinish
  <2>1. hash' = None /\ None.alg # "sha1"
    BY <1>4 DEF HashFinish, None
  <2>2. QED
    BY ONLY <2>1 DEF Sha1Inv, Sha1Holds, Sha1Digest
<1>5. ASSUME NEW n \in 0..MaxCall, HashUpdate(n) PROVE Sha1Inv'
  <2>1. n \in Nat /\ n < LowCount
    BY HashAssumption DEF ShortUpdates
  <2>2. QED
    BY <1>5, <2>1, Sha1AtUpdate
<1>6. CASE Derive \/ Forget
  <2>1. phase' \in {"simple", "derived", "idle"} /\ hash' = hash /\ ctx' = ctx
    BY <1>6 DEF Derive, DeriveSimple, DeriveSkein, Forget
  <2>2. QED
    BY <2>1 DEF Sha1Inv, Sha1Holds, Sha1Digest
<1>7. CASE UNCHANGED vars
  BY <1>7 DEF vars, Sha1Inv, Sha1Holds, Sha1Digest
<1>8. QED
  BY <1>1, <1>2, <1>3, <1>4, <1>5, <1>6, <1>7 DEF Next, Skeins

\* However a message is cut into calls of sha1_update, its digest is that of the
\* padded message with its length, also where the lower word of the count wraps
\* (sha1.c:108, :131).
THEOREM Sha1IsExact ==
  ASSUME ShortUpdates
  PROVE  Spec => []Sha1Digest
<1>1. Sha1Inv => Sha1Digest
  BY DEF Sha1Inv
<1>2. Sha1Inv /\ [Next]_vars => Sha1Inv'
  BY Sha1Step
<1>3. QED
  BY Sha1AtInit, <1>1, <1>2, PTL DEF Spec

-----------------------------------------------------------------------------
(* Random numbers *)

CacheType ==
  /\ cacheFill \in 0..CacheItems
  /\ cache \in Seq(Int) /\ Len(cache) = CacheBytes
  /\ source \in Nat /\ wanted \in Nat /\ failed \in BOOLEAN
  /\ given \in Seq(Int)

\* The bytes of the cache that are still to be given.
Waiting == 1..(cacheFill * WordBytes)

GivenOnce ==
  \A i \in 1..Len(given) :
    given[i] \in 1..source /\ \A j \in 1..(i - 1) : given[j] # given[i]

CacheFresh ==
  \A k \in Waiting :
    /\ cache[k] \in 1..source
    /\ \A l \in 1..(k - 1) : cache[l] # cache[k]
    /\ \A i \in 1..Len(given) : given[i] # cache[k]

IInv == CacheType /\ (~failed => GivenOnce /\ CacheFresh)

-----------------------------------------------------------------------------
(* Arithmetic and sequences *)

\* One word of n.
LEMMA Words ==
  ASSUME NEW n \in Nat, NEW w \in Nat
  PROVE  /\ n * w \in Nat
         /\ (n + 1) * w = (n * w) + w
  OBVIOUS

\* The words of a cache lie in it.
LEMMA Within ==
  ASSUME NEW n \in Nat, NEW m \in Nat, NEW w \in Nat, n <= m
  PROVE  n * w <= m * w /\ n * w \in Nat /\ m * w \in Nat
<1>1. PICK d \in Nat : m = n + d
  <2>1. m - n \in Nat /\ m = n + (m - n)
    OBVIOUS
  <2>2. QED
    BY <2>1
<1>2. (n + d) * w = (n * w) + (d * w) /\ d * w \in Nat /\ n * w \in Nat
  OBVIOUS
<1>3. QED
  BY <1>1, <1>2

\* The type of CacheBytes.
LEMMA CacheBytesNat == CacheBytes \in Nat /\ WordBytes \in Nat /\ WordBytes > 0 /\ CacheItems \in Nat /\ CacheItems > 0
  BY PrngAssumption DEF CacheBytes

\* A cache is a sequence.
LEMMA Cells ==
  ASSUME NEW n \in Nat, NEW f \in [1..n -> Int]
  PROVE  f \in Seq(Int) /\ Len(f) = n
  OBVIOUS

\* A part of a sequence.
LEMMA Part ==
  ASSUME NEW s \in Seq(Int), NEW a \in Nat, NEW b \in Nat, a + b <= Len(s)
  PROVE  /\ SubSeq(s, a + 1, a + b) \in Seq(Int)
         /\ Len(SubSeq(s, a + 1, a + b)) = b
         /\ \A k \in 1..b : SubSeq(s, a + 1, a + b)[k] = s[a + k]
  OBVIOUS

\* A sequence behind another.
LEMMA WordsBehind ==
  ASSUME NEW s \in Seq(Int), NEW t \in Seq(Int)
  PROVE  /\ s \o t \in Seq(Int) /\ Len(s \o t) = Len(s) + Len(t)
         /\ \A k \in 1..Len(s) : (s \o t)[k] = s[k]
         /\ \A k \in 1..Len(t) : (s \o t)[Len(s) + k] = t[k]
  OBVIOUS

\* What a call gives of the last word of a cache that holds n + 1 words.
LEMMA Given ==
  ASSUME NEW c \in Seq(Int), NEW n \in Nat, (n + 1) * WordBytes <= Len(c),
         wanted \in Nat, given \in Seq(Int), Give(WordOf(c, n))
  PROVE  \E m \in 0..WordBytes :
           /\ wanted' \in Nat
           /\ given' \in Seq(Int) /\ Len(given') = Len(given) + m
           /\ \A i \in 1..Len(given) : given'[i] = given[i]
           /\ \A k \in 1..m : given'[Len(given) + k] = c[(n * WordBytes) + k]
<1> DEFINE m == Smaller(wanted, WordBytes)
           b == n * WordBytes
           w == WordOf(c, n)
<1>1. m \in 0..WordBytes /\ m <= wanted /\ m \in Nat /\ WordBytes \in Nat
  BY CacheBytesNat DEF Smaller
<1>2. b \in Nat /\ (n + 1) * WordBytes = b + WordBytes
  BY <1>1, Words
<1>3. w = SubSeq(c, b + 1, b + WordBytes)
  BY <1>2 DEF WordOf
<1>4. w \in Seq(Int) /\ Len(w) = WordBytes /\ \A k \in 1..WordBytes : w[k] = c[b + k]
  <2> HIDE DEF b, w
  <2>1. b + WordBytes <= Len(c)
    BY <1>2
  <2>2. QED
    BY <1>1, <1>2, <1>3, <2>1, Part
<1>5. /\ SubSeq(w, 1, m) \in Seq(Int) /\ Len(SubSeq(w, 1, m)) = m
      /\ \A k \in 1..m : SubSeq(w, 1, m)[k] = w[k]
  <2> HIDE DEF m, w
  <2>1. m <= Len(w)
    BY <1>1, <1>4
  <2>2. QED
    BY <1>1, <1>4, <2>1
<1>6. given' = given \o SubSeq(w, 1, m) /\ wanted' = wanted - m
  BY DEF Give
<1> HIDE DEF m, w, b
<1>7. /\ given' \in Seq(Int) /\ Len(given') = Len(given) + m
      /\ \A i \in 1..Len(given) : given'[i] = given[i]
      /\ \A k \in 1..m : given'[Len(given) + k] = SubSeq(w, 1, m)[k]
  BY <1>5, <1>6, WordsBehind
<1>8. \A k \in 1..m : given'[Len(given) + k] = c[b + k]
  BY <1>1, <1>4, <1>5, <1>7
<1>9. wanted' \in Nat
  BY <1>1, <1>6
<1>10. QED
  BY <1>1, <1>7, <1>8, <1>9 DEF b

-----------------------------------------------------------------------------
(* Steps *)

\* Giving the last word of a fresh cache leaves it fresh.
LEMMA GiveStep ==
  ASSUME NEW c \in Seq(Int), NEW n \in Nat, NEW s \in Nat,
         (n + 1) * WordBytes <= Len(c),
         wanted \in Nat, given \in Seq(Int), Give(WordOf(c, n)),
         \A i \in 1..Len(given) :
           given[i] \in 1..s /\ \A j \in 1..(i - 1) : given[j] # given[i],
         \A k \in 1..((n + 1) * WordBytes) :
           /\ c[k] \in 1..s
           /\ \A l \in 1..(k - 1) : c[l] # c[k]
           /\ \A i \in 1..Len(given) : given[i] # c[k]
  PROVE  /\ \A i \in 1..Len(given') :
              given'[i] \in 1..s /\ \A j \in 1..(i - 1) : given'[j] # given'[i]
         /\ \A k \in 1..(n * WordBytes) :
              /\ c[k] \in 1..s
              /\ \A l \in 1..(k - 1) : c[l] # c[k]
              /\ \A i \in 1..Len(given') : given'[i] # c[k]
<1>1. PICK m \in 0..WordBytes :
        /\ given' \in Seq(Int) /\ Len(given') = Len(given) + m
        /\ \A i \in 1..Len(given) : given'[i] = given[i]
        /\ \A k \in 1..m : given'[Len(given) + k] = c[(n * WordBytes) + k]
  BY Given
<1> DEFINE b == n * WordBytes
<1>2. b \in Nat /\ (n + 1) * WordBytes = b + WordBytes /\ WordBytes \in Nat /\ m \in Nat /\ m <= WordBytes
  BY CacheBytesNat, Words
<1>3. /\ \A k \in 1..(b + WordBytes) :
           /\ c[k] \in 1..s
           /\ \A l \in 1..(k - 1) : c[l] # c[k]
           /\ \A i \in 1..Len(given) : given[i] # c[k]
      /\ \A k \in 1..m : given'[Len(given) + k] = c[b + k]
  BY <1>1, <1>2
<1> DEFINE L == Len(given)
<1>4. L \in Nat
  OBVIOUS
<1> HIDE DEF b
<1>5. ASSUME NEW i \in 1..(L + m)
      PROVE  given'[i] \in 1..s /\ \A j \in 1..(i - 1) : given'[j] # given'[i]
  <2>1. CASE i \in 1..L
    <3>1. given'[i] = given[i] /\ \A j \in 1..(i - 1) : given'[j] = given[j]
      BY <1>1, <1>4, <2>1
    <3>2. QED
      BY <2>1, <3>1
  <2>2. CASE i \notin 1..L
    <3>1. PICK k \in 1..m : i = L + k
      <4>1. i - L \in 1..m /\ i = L + (i - L)
        BY <1>2, <1>4, <2>2
      <4>2. QED
        BY <4>1
    <3>2. given'[i] = c[b + k] /\ b + k \in 1..(b + WordBytes)
      BY <1>2, <1>3, <3>1
    <3>3. ASSUME NEW j \in 1..(i - 1) PROVE given'[j] # given'[i]
      <4>1. CASE j \in 1..L
        BY <1>1, <1>3, <3>2, <4>1
      <4>2. CASE j \notin 1..L
        <5>1. PICK q \in 1..(k - 1) : j = L + q
          <6>1. j - L \in 1..(k - 1) /\ j = L + (j - L)
            BY <1>2, <1>4, <3>1, <4>2
          <6>2. QED
            BY <6>1
        <5>2. given'[j] = c[b + q] /\ b + q \in 1..((b + k) - 1)
          BY <1>2, <1>3, <5>1
        <5>3. QED
          BY <1>3, <3>2, <5>2
      <4>3. QED
        BY <4>1, <4>2
    <3>4. QED
      BY <1>3, <3>2, <3>3
  <2>3. QED
    BY <2>1, <2>2
<1>6. ASSUME NEW k \in 1..b
      PROVE  /\ c[k] \in 1..s
             /\ \A l \in 1..(k - 1) : c[l] # c[k]
             /\ \A i \in 1..(L + m) : given'[i] # c[k]
  <2>1. k \in 1..(b + WordBytes)
    BY <1>2
  <2>2. ASSUME NEW i \in 1..(L + m) PROVE given'[i] # c[k]
    <3>1. CASE i \in 1..L
      BY <1>1, <1>3, <2>1, <3>1
    <3>2. CASE i \notin 1..L
      <4>1. PICK q \in 1..m : i = L + q
        <5>1. i - L \in 1..m /\ i = L + (i - L)
          BY <1>2, <1>4, <3>2
        <5>2. QED
          BY <5>1
      <4>2. given'[i] = c[b + q] /\ b + q \in 1..(b + WordBytes) /\ k \in 1..((b + q) - 1)
        BY <1>2, <1>3, <4>1
      <4>3. QED
        BY <1>3, <4>2
    <3>3. QED
      BY <3>1, <3>2
  <2>3. QED
    BY <1>3, <2>1, <2>2
<1>7. QED
  BY <1>1, <1>5, <1>6 DEF b

-----------------------------------------------------------------------------
(* The invariant *)

\* An empty cache, nothing given.
LEMMA InitIInv == RandomInit => IInv
<1> SUFFICES ASSUME RandomInit PROVE IInv
  OBVIOUS
<1>1. CacheType
  <2>1. cache \in [1..CacheBytes -> Int]
    BY DEF RandomInit, Stale
  <2>2. cache \in Seq(Int) /\ Len(cache) = CacheBytes
    BY <2>1, Cells, CacheBytesNat
  <2>3. cacheFill \in 0..CacheItems /\ source \in Nat /\ wanted \in Nat /\ given \in Seq(Int)
    BY CacheBytesNat DEF RandomInit
  <2>4. failed \in BOOLEAN
    BY DEF RandomInit
  <2>5. QED
    BY <2>2, <2>3, <2>4 DEF CacheType
<1>2. GivenOnce
  BY DEF RandomInit, GivenOnce
<1>3. CacheFresh
  <2>1. cacheFill * WordBytes = 0
    BY CacheBytesNat DEF RandomInit
  <2>2. QED
    BY <2>1 DEF CacheFresh, Waiting
<1>4. QED
  BY <1>1, <1>2, <1>3 DEF IInv

\* A word of the cache.
LEMMA PopStep ==
  ASSUME IInv, cacheFill > 0, cacheFill' = cacheFill - 1, Give(WordOf(cache, Pops)),
         UNCHANGED <<cache, source, failed>>
  PROVE  IInv'
<1>1. PICK n \in Nat : cacheFill = n + 1
  <2>1. cacheFill - 1 \in Nat /\ cacheFill = (cacheFill - 1) + 1
    BY CacheBytesNat DEF IInv, CacheType
  <2>2. QED
    BY <2>1
<1>2. cacheFill' = n /\ Pops = n /\ n + 1 <= CacheItems
  BY <1>1, CacheBytesNat DEF IInv, CacheType, Pops
<1>3. (n + 1) * WordBytes <= Len(cache)
  BY <1>2, Within, CacheBytesNat DEF IInv, CacheType, CacheBytes
<1>4. CacheType'
  BY <1>2, <1>3, Given, CacheBytesNat DEF IInv, CacheType
<1>5. ASSUME ~failed PROVE GivenOnce' /\ CacheFresh'
  <2>1. /\ \A i \in 1..Len(given) :
             given[i] \in 1..source /\ \A j \in 1..(i - 1) : given[j] # given[i]
        /\ \A k \in 1..((n + 1) * WordBytes) :
             /\ cache[k] \in 1..source
             /\ \A l \in 1..(k - 1) : cache[l] # cache[k]
             /\ \A i \in 1..Len(given) : given[i] # cache[k]
    BY <1>1, <1>5 DEF IInv, GivenOnce, CacheFresh, Waiting
  <2>2. cache \in Seq(Int) /\ source \in Nat /\ wanted \in Nat /\ given \in Seq(Int)
    BY DEF IInv, CacheType
  <2>3. /\ \A i \in 1..Len(given') :
              given'[i] \in 1..source /\ \A j \in 1..(i - 1) : given'[j] # given'[i]
        /\ \A k \in 1..(n * WordBytes) :
              /\ cache[k] \in 1..source
              /\ \A l \in 1..(k - 1) : cache[l] # cache[k]
              /\ \A i \in 1..Len(given') : given'[i] # cache[k]
    BY <1>2, <1>3, <2>1, <2>2, GiveStep
  <2>4. QED
    BY <1>2, <2>3 DEF GivenOnce, CacheFresh, Waiting
<1>6. QED
  BY <1>4, <1>5 DEF IInv

\* A word of the cache that has just been filled.
LEMMA RefillStep ==
  ASSUME IInv, cacheFill = 0, NEW total \in 0..CacheBytes,
         cache' = Filled(total), source' = source + total,
         failed' = (failed \/ total < CacheBytes), cacheFill' = CountAfterRefill,
         Give(WordOf(cache', cacheFill'))
  PROVE  IInv'
<1>1. PICK n \in Nat : CacheItems = n + 1
  <2>1. CacheItems - 1 \in Nat /\ CacheItems = (CacheItems - 1) + 1
    BY CacheBytesNat
  <2>2. QED
    BY <2>1
<1>2. cacheFill' = n
  BY <1>1 DEF CountAfterRefill
<1>3. cache' \in Seq(Int) /\ Len(cache') = CacheBytes
  <2>1. cache' \in [1..CacheBytes -> Int]
    BY CacheBytesNat DEF IInv, CacheType, Filled
  <2>2. QED
    BY <2>1, Cells, CacheBytesNat
<1>4. (n + 1) * WordBytes = CacheBytes
  BY <1>1 DEF CacheBytes
<1>5. source' \in Nat /\ wanted \in Nat /\ given \in Seq(Int) /\ failed' \in BOOLEAN
  BY CacheBytesNat DEF IInv, CacheType
<1>6. CacheType'
  <2>1. (n + 1) * WordBytes <= Len(cache') /\ Give(WordOf(cache', n))
    BY <1>2, <1>3, <1>4, CacheBytesNat
  <2>2. wanted' \in Nat /\ given' \in Seq(Int)
    BY <1>3, <1>5, <2>1, Given
  <2>3. QED
    BY <1>1, <1>2, <1>3, <1>5, <2>2, CacheBytesNat DEF CacheType
<1>7. ASSUME ~failed' PROVE GivenOnce' /\ CacheFresh'
  <2>0. ~(failed \/ total < CacheBytes)
    BY <1>7
  <2>1. total = CacheBytes /\ ~failed
    BY <2>0, CacheBytesNat
  <2>2. \A k \in 1..CacheBytes : cache'[k] = source + k
    BY <2>1, CacheBytesNat DEF Filled
  <2>3. \A i \in 1..Len(given) :
          given[i] \in 1..source' /\ \A j \in 1..(i - 1) : given[j] # given[i]
    BY <2>1, CacheBytesNat DEF IInv, GivenOnce, CacheType
  <2>4. \A k \in 1..CacheBytes :
          /\ cache'[k] \in 1..source'
          /\ \A l \in 1..(k - 1) : cache'[l] # cache'[k]
          /\ \A i \in 1..Len(given) : given[i] # cache'[k]
    BY <2>1, <2>2, CacheBytesNat DEF IInv, GivenOnce, CacheType
  <2>5. /\ \A i \in 1..Len(given') :
              given'[i] \in 1..source' /\ \A j \in 1..(i - 1) : given'[j] # given'[i]
        /\ \A k \in 1..(n * WordBytes) :
              /\ cache'[k] \in 1..source'
              /\ \A l \in 1..(k - 1) : cache'[l] # cache'[k]
              /\ \A i \in 1..Len(given') : given'[i] # cache'[k]
    <3>1. (n + 1) * WordBytes <= Len(cache') /\ Give(WordOf(cache', n))
      BY <1>2, <1>3, <1>4, CacheBytesNat
    <3>2. QED
      BY <1>3, <1>4, <1>5, <2>3, <2>4, <3>1, GiveStep
  <2>6. QED
    BY <1>2, <2>5 DEF GivenOnce, CacheFresh, Waiting
<1>8. QED
  BY <1>6, <1>7 DEF IInv

\* A new handle has an empty cache.
LEMMA HandleStep ==
  ASSUME IInv, NEW alg, PrngInit(alg)
  PROVE  IInv'
<1>1. CacheType'
  <2>1. cache' \in [1..CacheBytes -> Int]
    BY DEF PrngInit, Stale
  <2>2. cache' \in Seq(Int) /\ Len(cache') = CacheBytes
    BY <2>1, Cells, CacheBytesNat
  <2>3. QED
    BY <2>2, CacheBytesNat DEF IInv, CacheType, PrngInit
<1>2. cacheFill' * WordBytes = 0
  BY CacheBytesNat DEF PrngInit
<1>3. CacheFresh'
  <2>1. Waiting' = {}
    BY <1>2 DEF Waiting
  <2>2. QED
    BY <2>1 DEF CacheFresh
<1>4. failed' = failed /\ (GivenOnce => GivenOnce')
  BY DEF PrngInit, GivenOnce
<1>5. QED
  BY <1>1, <1>3, <1>4 DEF IInv

\* The other steps give nothing of the platform's source.
LEMMA OtherStep ==
  ASSUME IInv, UNCHANGED platformVars, wanted' \in Nat
  PROVE  IInv'
<1>1. CacheType'
  BY DEF IInv, CacheType, platformVars
<1>2. failed' = failed /\ GivenOnce' = GivenOnce /\ CacheFresh' = CacheFresh
  BY DEF GivenOnce, CacheFresh, Waiting, platformVars
<1>3. QED
  BY <1>1, <1>2 DEF IInv

\* Every step keeps the invariant.
LEMMA NextIInv == IInv /\ [RandomNext]_random_vars => IInv'
<1> SUFFICES ASSUME IInv, [RandomNext]_random_vars PROVE IInv'
  OBVIOUS
<1>0. wanted \in Nat
  BY DEF IInv, CacheType
<1>1. ASSUME NEW alg \in {"platform", "mt19937"}, PrngInit(alg) PROVE IInv'
  BY <1>1, HandleStep
<1>2. CASE OpenUrandom \/ OpenRandom \/ OpenFails \/ Finish \/ SetSeed \/ UNCHANGED random_vars
  BY <1>0, <1>2, OtherStep
     DEF OpenUrandom, OpenRandom, OpenFails, Finish, SetSeed, random_vars
<1>3. ASSUME NEW bytes \in Requests, Update(bytes) PROVE IInv'
  BY <1>3, OtherStep, PrngAssumption DEF Update
<1>4. CASE PlatformUpdate
  BY <1>4, PopStep, RefillStep DEF PlatformUpdate
<1>5. CASE TwisterUpdate
  <2>1. UNCHANGED platformVars /\ wanted' = wanted - Smaller(wanted, WordBytes)
    BY <1>5 DEF TwisterUpdate
  <2>2. wanted' \in Nat
    BY <1>0, <2>1, CacheBytesNat DEF Smaller
  <2>3. QED
    BY <2>1, <2>2, OtherStep
<1>6. QED
  BY <1>1, <1>2, <1>3, <1>4, <1>5 DEF RandomNext

-----------------------------------------------------------------------------
(* Theorems *)

\* What is given and what waits in the cache are different bytes of the source,
\* as long as every read has filled the cache.
THEOREM Invariant == RandomSpec => []IInv
<1>1. RandomInit => IInv
  BY InitIInv
<1>2. IInv /\ [RandomNext]_random_vars => IInv'
  BY NextIInv
<1>3. QED
  BY <1>1, <1>2, PTL DEF RandomSpec

\* platform_update gives no byte of the source twice, in any requests of any
\* handles, while reads are complete.
THEOREM BytesAreFresh == RandomSpec => []FreshBytes
<1>1. IInv => FreshBytes
  <2>1. ASSUME IInv, ~failed PROVE FreshBytes
    BY <2>1 DEF IInv, GivenOnce, CacheType, FreshBytes, Stale
  <2>2. QED
    BY <2>1 DEF FreshBytes
<1>2. QED
  BY <1>1, Invariant, PTL

\* k_prng_init closes the device it has opened when the other does not open,
\* and k_prng_finish both.
THEOREM DevicesAreClosed == RandomSpec => []NoDeviceLeft
<1>1. RandomInit => NoDeviceLeft
  BY DEF RandomInit, NoDeviceLeft
<1>2. NoDeviceLeft /\ [RandomNext]_random_vars => NoDeviceLeft'
  BY DEF NoDeviceLeft, RandomNext, random_vars, PrngInit, OpenUrandom, OpenRandom, OpenFails, Finish,
         SetSeed, Update, PlatformUpdate, TwisterUpdate, Closed
<1>3. QED
  BY <1>1, <1>2, PTL DEF RandomSpec

-----------------------------------------------------------------------------
(* The twister *)

\* A set of numbers has a least one.
LEMMA Least ==
  ASSUME NEW T, T \subseteq Nat, T # {}
  PROVE  \E x \in T : \A y \in T : x <= y
<1>1. IsWellFoundedOn(Less, Nat)
  BY NatLessThanWellFounded DEF OpToRel, Less
<1>2. PICK x \in T : \A y \in T : <<y, x>> \notin Less
  BY <1>1, WFMin
<1>3. ASSUME NEW y \in T PROVE x <= y
  <2>1. ~(y < x)
    BY <1>2 DEF Less
  <2>2. QED
    BY <2>1
<1>4. QED
  BY <1>3

\* The state that holds the words of the recurrence from place b on, of which
\* the first n were renewed.
Place(b, n) == [i \in 0..(N - 1) |-> IF i < n THEN b + N + i ELSE b + i]

\* One word of the renewal: those before it are new, those behind it old.
LEMMA OneWord ==
  ASSUME NEW b \in Nat, NEW k \in 0..(N - 1)
  PROVE  LET s == Place(b, k)
         IN  Place(b, k + 1)
             = [s EXCEPT ![k] = Twist(s[k], s[(k + 1) % N], s[(k + M) % N])]
<1> DEFINE s == Place(b, k)
<1>1. N \in Nat /\ M \in Nat /\ M < N /\ M > 0 /\ N > 1
  BY PrngAssumption
<1>2. s[k] = b + k
  BY <1>1 DEF Place
<1>3. s[(k + 1) % N] = b + k + 1
  <2>1. CASE k + 1 < N
    <3>1. (k + 1) % N = k + 1
      BY <1>1, <2>1
    <3>2. QED
      BY <1>1, <2>1, <3>1 DEF Place
  <2>2. CASE ~(k + 1 < N)
    <3>1. k + 1 = N /\ k > 0
      BY <1>1, <2>2
    <3>2. N % N = 0
      BY <1>1
    <3>3. QED
      BY <1>1, <3>1, <3>2 DEF Place
  <2>3. QED
    BY <2>1, <2>2
<1>4. s[(k + M) % N] = b + k + M
  <2>1. CASE k + M < N
    <3>1. (k + M) % N = k + M
      BY <1>1, <2>1
    <3>2. QED
      BY <1>1, <2>1, <3>1 DEF Place
  <2>2. CASE ~(k + M < N)
    <3>1. (k + M) % N = k + M - N
      BY <1>1, <2>2
    <3>2. k + M - N \in 0..(N - 1) /\ k + M - N < k
      BY <1>1, <2>2
    <3>3. QED
      BY <1>1, <3>1, <3>2 DEF Place
  <2>3. QED
    BY <2>1, <2>2
<1>5. Twist(s[k], s[(k + 1) % N], s[(k + M) % N]) = b + N + k
  <2>1. b + k >= 0 /\ b + k + 1 = (b + k) + 1 /\ b + k + M = (b + k) + M
        /\ (b + k) + N = b + N + k
    BY <1>1
  <2>2. QED
    BY <1>2, <1>3, <1>4, <2>1 DEF Twist
<1>6. Place(b, k + 1) = [s EXCEPT ![k] = b + N + k]
  <2>1. \A i \in 0..(N - 1) : i < k + 1 <=> i < k \/ i = k
    OBVIOUS
  <2>2. \A i \in 0..(N - 1) : Place(b, k + 1)[i] = [s EXCEPT ![k] = b + N + k][i]
    BY <2>1 DEF Place
  <2>3. QED
    BY <2>2 DEF Place
<1>7. QED
  BY <1>5, <1>6

\* The renewal in place turns the words from place b on into the next N.
LEMMA RenewedIs ==
  ASSUME NEW b \in Nat
  PROVE  Renewed(Place(b, 0)) = Place(b + N, 0)
<1> DEFINE W(s, k) == [s EXCEPT ![k] = Twist(s[k], s[(k + 1) % N], s[(k + M) % N])]
           G == [n \in 0..N |-> Place(b, n)]
           after == CHOOSE f : f = [n \in 0..N |-> IF n = 0 THEN Place(b, 0) ELSE W(f[n - 1], n - 1)]
<1>1. N \in Nat /\ N > 0
  BY PrngAssumption
<1>2. Renewed(Place(b, 0)) = after[N]
  BY DEF Renewed
<1>3. \A k \in 0..(N - 1) : Place(b, k + 1) = W(Place(b, k), k)
  BY OneWord
<1> HIDE DEF W
<1>4. ASSUME NEW n \in 0..N
      PROVE  G[n] = IF n = 0 THEN Place(b, 0) ELSE W(G[n - 1], n - 1)
  <2>1. CASE n # 0
    <3>1. n - 1 \in 0..(N - 1) /\ n - 1 \in 0..N /\ (n - 1) + 1 = n
      BY <1>1, <2>1
    <3>2. Place(b, (n - 1) + 1) = W(Place(b, n - 1), n - 1)
      BY <1>3, <3>1
    <3>3. QED
      BY <2>1, <3>1, <3>2
  <2>2. QED
    BY <1>1, <2>1
<1>5. G = [n \in 0..N |-> IF n = 0 THEN Place(b, 0) ELSE W(G[n - 1], n - 1)]
  BY <1>4
<1> HIDE DEF G
<1>6. after = [n \in 0..N |-> IF n = 0 THEN Place(b, 0) ELSE W(after[n - 1], n - 1)]
  BY <1>5
<1> HIDE DEF after
<1>7. \A n \in 0..N : after[n] = G[n]
  <2> DEFINE T == {n \in 0..N : after[n] # G[n]}
  <2>1. SUFFICES ASSUME T # {} PROVE FALSE
    OBVIOUS
  <2>2. T \subseteq Nat
    BY <1>1
  <2>3. PICK x \in T : \A y \in T : x <= y
    BY <2>1, <2>2, Least
  <2>4. CASE x = 0
    BY <1>5, <1>6, <2>4
  <2>5. CASE x # 0
    <3>1. x \in 0..N /\ x - 1 \in 0..N /\ ~(x <= x - 1)
      BY <1>1, <2>5
    <3>2. after[x - 1] = G[x - 1]
      BY <2>3, <3>1
    <3>3. QED
      BY <1>5, <1>6, <2>5, <3>1, <3>2
  <2>6. QED
    BY <2>4, <2>5
<1>8. G[N] = Place(b, N)
  BY <1>1 DEF G
<1>9. Place(b, N) = Place(b + N, 0)
  <2>1. \A i \in 0..(N - 1) : i < N /\ ~(i < 0) /\ b + N + i = (b + N) + i
    BY <1>1
  <2>2. QED
    BY <2>1 DEF Place
<1>10. QED
  BY <1>1, <1>2, <1>7, <1>8, <1>9

\* The state holds the words from some place b of the recurrence on, and those
\* that were given are the ones before the next.
TwisterInv ==
  /\ mt \in [0..(N - 1) -> Int] /\ mti \in 0..N
  /\ words \in Seq(Int)
  /\ initialized =>
       \E b \in Nat :
         /\ mt = Place(b, 0) /\ Len(words) + N = b + mti
         /\ \A i \in 1..Len(words) : words[i] = N + (i - 1)

\* mt19937_update: a word of the state, or the first of the renewed state.
LEMMA TwisterStep ==
  ASSUME TwisterInv, TwisterUpdate
  PROVE  TwisterInv'
<1>1. N \in Nat /\ N > 0
  BY PrngAssumption
<1>2. mti \in 0..N /\ mt \in [0..(N - 1) -> Int] /\ words \in Seq(Int) /\ Len(words) \in Nat
  BY DEF TwisterInv
<1>3. CASE ~NeedsWords
  <2>1. /\ mt' = mt /\ mti' = mti + 1 /\ (initialized' => initialized)
        /\ words' = Append(words, mt[mti])
    BY <1>3 DEF TwisterUpdate
  <2>0. mti < N
    BY <1>1, <1>2, <1>3 DEF NeedsWords
  <2>2. mti' \in 0..N /\ mt[mti] \in Int
    BY <1>1, <1>2, <2>0, <2>1
  <2>3. /\ words' \in Seq(Int) /\ Len(words') = Len(words) + 1
        /\ words'[Len(words) + 1] = mt[mti]
        /\ \A i \in 1..Len(words) : words'[i] = words[i]
    BY <1>2, <2>1, <2>2
  <2>4. ASSUME initialized
        PROVE  \E b \in Nat :
                 /\ mt = Place(b, 0) /\ Len(words') + N = b + mti'
                 /\ \A i \in 1..Len(words') : words'[i] = N + (i - 1)
    <3>1. PICK b \in Nat :
            /\ mt = Place(b, 0) /\ Len(words) + N = b + mti
            /\ \A i \in 1..Len(words) : words[i] = N + (i - 1)
      BY <2>4 DEF TwisterInv
    <3>2. mt[mti] = b + mti
      BY <1>1, <1>2, <2>0, <3>1 DEF Place
    <3>3. Len(words') + N = b + mti'
      <4>1. \A l, n, c, i \in Nat : l + n = c + i => (l + 1) + n = c + (i + 1)
        OBVIOUS
      <4>2. mti \in Nat
        BY <1>1, <1>2
      <4>3. (Len(words) + 1) + N = b + (mti + 1)
        BY <1>1, <1>2, <3>1, <4>1, <4>2
      <4>4. QED
        BY <2>1, <2>3, <4>3
    <3>4. ASSUME NEW i \in 1..Len(words') PROVE words'[i] = N + (i - 1)
      <4>1. CASE i = Len(words) + 1
        BY <1>1, <1>2, <2>3, <3>1, <3>2, <4>1
      <4>2. CASE i # Len(words) + 1
        <5>1. i \in 1..Len(words)
          BY <1>2, <2>3, <4>2
        <5>2. QED
          BY <2>3, <3>1, <5>1
      <4>3. QED
        BY <4>1, <4>2
    <3>5. QED
      BY <3>1, <3>3, <3>4
  <2>5. QED
    BY <1>2, <2>1, <2>2, <2>3, <2>4 DEF TwisterInv
<1>4. CASE NeedsWords
  <2> DEFINE state == IF ~initialized THEN Seeded ELSE mt
  <2>1. /\ mt' = Renewed(state) /\ mti' = 0 + 1
        /\ words' = IF ~initialized THEN <<Renewed(state)[0]>> ELSE Append(words, Renewed(state)[0])
    BY <1>4 DEF TwisterUpdate
  <2>2. PICK b \in Nat :
          /\ state = Place(b, 0)
          /\ initialized => Len(words) = b /\ \A i \in 1..Len(words) : words[i] = N + (i - 1)
          /\ ~initialized => b = 0
    <3>1. CASE initialized
      <4>1. PICK b \in Nat :
            /\ mt = Place(b, 0) /\ Len(words) + N = b + mti
            /\ \A i \in 1..Len(words) : words[i] = N + (i - 1)
        BY <3>1 DEF TwisterInv
      <4>2. Len(words) = b
        BY <1>1, <1>2, <1>4, <4>1 DEF NeedsWords
      <4>3. QED
        BY <3>1, <4>1, <4>2
    <3>2. CASE ~initialized
      <4>1. Seeded = Place(0, 0)
        BY <1>1 DEF Seeded, Place
      <4>2. QED
        BY <3>2, <4>1
    <3>3. QED
      BY <3>1, <3>2
  <2> HIDE DEF state
  <2>3. mt' = Place(b + N, 0)
    BY <2>1, <2>2, RenewedIs
  <2>4. mt'[0] = b + N /\ mt' \in [0..(N - 1) -> Int]
    BY <1>1, <2>3 DEF Place
  <2>5. words' = IF ~initialized THEN <<b + N>> ELSE Append(words, b + N)
    BY <2>1, <2>4
  <2>6. words' \in Seq(Int) /\ Len(words') = b + 1 /\ \A i \in 1..Len(words') : words'[i] = N + (i - 1)
    <3>1. b + N \in Int
      BY <1>1
    <3>2. CASE ~initialized
      BY <1>1, <2>2, <2>5, <3>1, <3>2
    <3>3. CASE initialized
      <4>1. /\ words' \in Seq(Int) /\ Len(words') = Len(words) + 1
            /\ words'[Len(words) + 1] = b + N
            /\ \A i \in 1..Len(words) : words'[i] = words[i]
        BY <1>2, <2>5, <3>1, <3>3
      <4>2. Len(words) = b /\ \A i \in 1..Len(words) : words[i] = N + (i - 1)
        BY <2>2, <3>3
      <4>3. ASSUME NEW i \in 1..Len(words') PROVE words'[i] = N + (i - 1)
        <5>1. CASE i = Len(words) + 1
          BY <1>1, <4>1, <4>2, <5>1
        <5>2. CASE i # Len(words) + 1
          <6>1. i \in 1..Len(words)
            BY <1>2, <4>1, <5>2
          <6>2. QED
            BY <4>1, <4>2, <6>1
        <5>3. QED
          BY <5>1, <5>2
      <4>4. QED
        BY <4>1, <4>2, <4>3
    <3>4. QED
      BY <3>2, <3>3
  <2>7. b + N \in Nat /\ Len(words') + N = (b + N) + mti' /\ mti' \in 0..N
    <3>1. b + N \in Nat /\ mti' = 1
      BY <1>1, <2>1
    <3>2. (b + 1) + N = (b + N) + 1
      BY <1>1
    <3>3. QED
      BY <1>1, <2>6, <3>1, <3>2
  <2>8. QED
    BY <2>3, <2>4, <2>6, <2>7 DEF TwisterInv
<1>5. QED
  BY <1>3, <1>4

\* A seed begins the recurrence, a new handle has an empty state, and no other
\* step touches the twister.
LEMMA TwisterNext == TwisterInv /\ [RandomNext]_random_vars => TwisterInv'
<1> SUFFICES ASSUME TwisterInv, [RandomNext]_random_vars PROVE TwisterInv'
  OBVIOUS
<1>1. N \in Nat /\ N > 0
  BY PrngAssumption
<1>2. <<>> \in Seq(Int) /\ Len(<<>>) = 0
  OBVIOUS
<1>3. ASSUME NEW alg, PrngInit(alg) PROVE TwisterInv'
  BY <1>1, <1>2, <1>3 DEF PrngInit, TwisterInv, Empty
<1>4. CASE SetSeed
  <2>1. mt' = Seeded /\ mti' = N /\ words' = <<>>
    BY <1>4 DEF SetSeed
  <2>2. Seeded = Place(0, 0) /\ Seeded \in [0..(N - 1) -> Int]
    BY <1>1 DEF Seeded, Place
  <2>3. Len(words') + N = 0 + mti' /\ 0 \in Nat
    BY <1>1, <1>2, <2>1
  <2>4. QED
    BY <1>1, <1>2, <2>1, <2>2, <2>3 DEF TwisterInv
<1>5. CASE UNCHANGED twisterVars
  BY <1>5 DEF TwisterInv, twisterVars
<1>6. CASE TwisterUpdate
  BY <1>6, TwisterStep
<1>7. QED
  BY <1>3, <1>4, <1>5, <1>6
     DEF RandomNext, OpenUrandom, OpenRandom, OpenFails, Finish, Update, PlatformUpdate, random_vars

\* Once it is seeded the twister gives the words of the recurrence one after the
\* other, for any length of the state and distance of the middle word, any seeds
\* and any number of words: its renewal in place reads each word before it is
\* overwritten or after it is renewed, as the recurrence needs it.
THEOREM WordsInRecurrence == RandomSpec => []InRecurrence
<1>1. RandomInit => TwisterInv
  <2>1. N \in Nat /\ N > 0
    BY PrngAssumption
  <2>2. QED
    BY <2>1 DEF RandomInit, TwisterInv, Empty
<1>2. TwisterInv => InRecurrence
  <2>1. ASSUME TwisterInv PROVE DOMAIN words = 1..Len(words)
    BY <2>1 DEF TwisterInv
  <2>2. QED
    BY <2>1 DEF TwisterInv, InRecurrence
<1>3. QED
  BY <1>1, <1>2, TwisterNext, PTL DEF RandomSpec
=============================================================================
