-------------------------- MODULE StreamCipherProofs --------------------------
(***************************************************************************)
(* The handle of a stream cipher, proved for every block size, every set   *)
(* of keys and nonces and every bound.                                     *)
(*                                                                         *)
(* Of a block cipher's handle: what is in the buffer and the IV together   *)
(* always say how many bytes of keystream are spent.  Of ARC4's handle:    *)
(* its context is the one that the bytes given out so far lead to, and the *)
(* schedule and the generator, with swaps in place, are those of ARC4.     *)
(*                                                                         *)
(* A recursive function of the model is defined because its steps stay in  *)
(* a set (Recursion), and two of them are equal because no number is the   *)
(* least at which they differ (UpTo).                                      *)
(***************************************************************************)
EXTENDS StreamCipher, SequenceTheorems, WellFoundedInduction, TLAPS

Byte == [in : Nat, ks : [key : Keys \union {None}, nonce : Nonces \union {None}, at : Nat]]

\* Bytes of keystream that are spent.
Spent == iv * BlockSize + IF havePartial THEN partialBytes ELSE 0

BufferInv ==
  /\ iv \in Nat
  /\ partialBytes \in Nat /\ partialRemaining \in Nat /\ havePartial \in BOOLEAN
  /\ havePartial => /\ partialBytes > 0 /\ partialRemaining > 0
                    /\ partialBytes + partialRemaining = BlockSize

SettingInv ==
  /\ key \in Keys \union {None} /\ nonce \in Nonces \union {None}
  /\ kind \in {"none", "block", "arc4"}
  /\ kind = "none" => passed = <<>> /\ out = <<>> /\ iv = 0 /\ havePartial = FALSE
  /\ kind = "arc4" => iv = 0 /\ havePartial = FALSE

StreamInv ==
  kind = "block" =>
    /\ passed \in Seq(Nat) /\ out \in Seq(Byte)
    /\ Len(out) = Len(passed) /\ Spent = Len(out)

IInv == BufferInv /\ SettingInv /\ StreamInv /\ BlockStream

-----------------------------------------------------------------------------
(* Arithmetic and sequences *)

\* Division with remainder.
LEMMA DivMod ==
  ASSUME NEW n \in Nat, NEW d \in Nat \ {0}
  PROVE  /\ n \div d \in Nat /\ (n % d) \in 0..(d - 1)
         /\ n = ((n \div d) * d) + (n % d)
  OBVIOUS

\* The elements of a sequence that a call has appended to.
LEMMA Appended ==
  ASSUME NEW S, NEW s \in Seq(S), NEW t \in Seq(S)
  PROVE  /\ s \o t \in Seq(S) /\ Len(s \o t) = Len(s) + Len(t)
         /\ \A k \in 1..Len(s) : (s \o t)[k] = s[k]
         /\ \A k \in 1..Len(t) : (s \o t)[Len(s) + k] = t[k]
  OBVIOUS

\* A product with a sum.
LEMMA Distributes ==
  ASSUME NEW a \in Nat, NEW b \in Nat, NEW d \in Nat
  PROVE  (a + b) * d = (a * d) + (b * d) /\ a * d \in Nat
  OBVIOUS

-----------------------------------------------------------------------------
(* One call *)

\* The numbers of a call of n bytes: what the buffer takes, the whole blocks, the
\* rest, and the IV in between.
LEMMA CallNumbers ==
  ASSUME IInv, NEW n \in Nat,
         NEW b, b = Taken(n), NEW q, q = (n - b) \div BlockSize,
         NEW r, r = (n - b) % BlockSize
  PROVE  /\ b \in 0..n /\ q \in Nat /\ r \in 0..(BlockSize - 1)
         /\ n - b = (q * BlockSize) + r
         /\ havePartial => b <= partialRemaining
         /\ havePartial /\ ~BlockCompletes(n) => b = n /\ b < partialRemaining
         /\ BlockCompletes(n) => havePartial /\ b = partialRemaining
         /\ ~havePartial => b = 0
         /\ BlockCompletes(n) \in BOOLEAN
         /\ IvAfterPartial(n) \in Nat
<1>1. b \in 0..n
  BY DEF Taken, Least, IInv, BufferInv
<1>2. n - b \in Nat
  BY <1>1
<1>3. q \in Nat /\ r \in 0..(BlockSize - 1) /\ n - b = (q * BlockSize) + r
  BY <1>2, DivMod, StreamCipherAssumption
<1>4. /\ havePartial => b <= partialRemaining
      /\ havePartial /\ ~BlockCompletes(n) => b = n /\ b < partialRemaining
      /\ BlockCompletes(n) => havePartial /\ b = partialRemaining
      /\ ~havePartial => b = 0
      /\ BlockCompletes(n) \in BOOLEAN
  BY DEF Taken, Least, BlockCompletes, IInv, BufferInv
<1>5. IvAfterPartial(n) \in Nat
  BY <1>4 DEF IvAfterPartial, IInv, BufferInv
<1>6. QED
  BY <1>1, <1>3, <1>4, <1>5

\* Where the whole blocks of a call begin in the keystream.
LEMMA BlockStart ==
  ASSUME IInv, kind = "block", NEW n \in Nat,
         NEW b, b = Taken(n), NEW q, q = (n - b) \div BlockSize,
         NEW r, r = (n - b) % BlockSize
  PROVE  /\ b < n \/ r > 0 \/ BlockCompletes(n) \/ ~havePartial
              => IvAfterPartial(n) * BlockSize = Len(out) + b
         /\ IvAfterPartial(n) * BlockSize \in Nat
<1>1. /\ b \in 0..n /\ q \in Nat /\ r \in 0..(BlockSize - 1)
      /\ n - b = (q * BlockSize) + r
      /\ havePartial => b <= partialRemaining
      /\ havePartial /\ ~BlockCompletes(n) => b = n /\ b < partialRemaining
      /\ BlockCompletes(n) => havePartial /\ b = partialRemaining
      /\ ~havePartial => b = 0
      /\ BlockCompletes(n) \in BOOLEAN /\ IvAfterPartial(n) \in Nat
  BY CallNumbers
<1>2. BlockSize \in Nat /\ iv \in Nat
  BY StreamCipherAssumption DEF IInv, BufferInv
<1>3. (iv + 1) * BlockSize = (iv * BlockSize) + BlockSize /\ iv * BlockSize \in Nat
  BY <1>2, Distributes
<1>4. Len(out) = (iv * BlockSize) + (IF havePartial THEN partialBytes ELSE 0)
  BY DEF IInv, StreamInv, Spent
<1>5. CASE BlockCompletes(n)
  <2>1. IvAfterPartial(n) * BlockSize = (iv * BlockSize) + BlockSize
    BY <1>3, <1>5 DEF IvAfterPartial
  <2>2. BlockSize = partialBytes + b /\ havePartial /\ partialBytes \in Nat /\ b \in Nat
    BY <1>1, <1>5 DEF IInv, BufferInv
  <2> DEFINE x == iv * BlockSize  y == IvAfterPartial(n) * BlockSize
  <2>3. y = x + BlockSize /\ x \in Nat
    BY <1>3, <2>1
  <2>4. Len(out) = x + partialBytes
    BY <1>4, <2>2
  <2> HIDE DEF x, y
  <2>5. y = Len(out) + b /\ y \in Nat
    BY <2>2, <2>3, <2>4
  <2>6. QED
    BY <2>5 DEF y
<1>6. CASE ~BlockCompletes(n) /\ ~havePartial
  <2>1. IvAfterPartial(n) * BlockSize = iv * BlockSize
    BY <1>2, <1>6 DEF IvAfterPartial
  <2>2. QED
    BY <1>1, <1>3, <1>4, <1>6, <2>1
<1>7. CASE ~BlockCompletes(n) /\ havePartial
  <2>1. b = n /\ n - b = 0
    BY <1>1, <1>7
  <2>2. q * BlockSize \in Nat
    BY <1>1, <1>2, Distributes
  <2>3. r = 0
    BY <1>1, <2>1, <2>2
  <2>4. IvAfterPartial(n) * BlockSize \in Nat
    BY <1>1, <1>2, Distributes
  <2>5. QED
    BY <1>7, <2>1, <2>3, <2>4
<1>8. QED
  BY <1>1, <1>5, <1>6, <1>7

\* Each byte of a call is made from the byte passed in its place and the byte of
\* keystream that is next.
LEMMA OutputRight ==
  ASSUME IInv, kind = "block", NEW n \in Nat, NEW null \in BOOLEAN, NEW k \in 1..n
  PROVE  Output(n, null)[k] =
           [in |-> Passing(n, null)[k],
            ks |-> [key |-> key, nonce |-> nonce, at |-> Len(out) + k]]
<1> DEFINE b == Taken(n)  q == (n - b) \div BlockSize  r == (n - b) % BlockSize
           v == IvAfterPartial(n)  s == q * BlockSize  a == v * BlockSize
<1>1. /\ b \in 0..n /\ q \in Nat /\ r \in 0..(BlockSize - 1)
      /\ n - b = s + r
      /\ havePartial => b <= partialRemaining
      /\ havePartial /\ ~BlockCompletes(n) => b = n
      /\ ~havePartial => b = 0
      /\ BlockCompletes(n) \in BOOLEAN /\ v \in Nat
  BY CallNumbers
<1>2. BlockSize \in Nat /\ iv \in Nat /\ iv * BlockSize \in Nat
  BY StreamCipherAssumption, Distributes DEF IInv, BufferInv
<1>3. Len(out) \in Nat /\ Len(passed) = Len(out)
  BY DEF IInv, StreamInv
<1>4. b < n => a = Len(out) + b
  BY BlockStart
<1> HIDE DEF b, q, r, v
<1>5. (v + q) * BlockSize = a + s /\ a \in Nat
  BY <1>1, <1>2, Distributes
<1>6. s \in Nat
  BY <1>1, <1>2, Distributes
<1> HIDE DEF s, a
<1>7. CASE k <= b
  <2>1. havePartial /\ partialBytes \in Nat
    BY <1>1, <1>7 DEF IInv, BufferInv
  <2>2. partialBytes + k - 1 \in partialBytes..(partialBytes + b - 1)
    BY <1>1, <1>7, <2>1
  <2>3. partialBytes + k - 1 \in Offsets
    BY <1>1, <1>2, <1>7, <2>1 DEF Offsets, IInv, BufferInv
  <2>4. ~null => Joined(n, null)[partialBytes + k - 1]
                   = Len(passed) + ((partialBytes + k - 1) - partialBytes) + 1
    BY <2>1, <2>2, <2>3 DEF Joined, b
  <2>5. ~null => Joined(n, null)[partialBytes + k - 1] = Len(passed) + k
    BY <1>3, <2>1, <2>4
  <2>6. Len(out) = (iv * BlockSize) + partialBytes
    BY <2>1 DEF IInv, StreamInv, Spent
  <2>7. (iv * BlockSize) + (partialBytes + k - 1) + 1 = Len(out) + k
    BY <1>2, <2>1, <2>6
  <2>8. Output(n, null)[k] =
          [in |-> IF null THEN 0 ELSE Joined(n, null)[partialBytes + k - 1],
           ks |-> KeystreamByte(iv, partialBytes + k - 1)]
    BY <1>7 DEF Output, b
  <2>9. QED
    BY <2>5, <2>7, <2>8 DEF KeystreamByte, Passing
<1>8. CASE ~(k <= b) /\ k <= b + s
  <2>1. a + (k - b - 1) + 1 = Len(out) + k
    BY <1>1, <1>3, <1>5, <1>4, <1>8
  <2>2. Output(n, null)[k] =
          [in |-> IF null THEN 0 ELSE Len(passed) + k,
           ks |-> KeystreamByte(v, k - b - 1)]
    BY <1>8 DEF Output, b, s, q, v
  <2>3. QED
    BY <2>1, <2>2 DEF KeystreamByte, Passing, a
<1>9. CASE ~(k <= b) /\ ~(k <= b + s)
  <2>1. a + s + (k - b - s - 1) + 1 = Len(out) + k
    BY <1>1, <1>3, <1>6, <1>5, <1>4, <1>9
  <2> DEFINE j == k - b - s - 1
  <2>2. j \in 0..(r - 1) /\ j \in Offsets /\ n - r = b + s
    BY <1>1, <1>2, <1>6, <1>9 DEF Offsets
  <2>3. Output(n, null)[k] =
          [in |-> IF null THEN 0 ELSE BegunBlock(n, null)[j],
           ks |-> KeystreamByte(v + q, j)]
    BY <1>9 DEF Output, b, s, q, v
  <2>4. ~null => BegunBlock(n, null)[j] = Len(passed) + (n - r) + j + 1
    BY <1>1, <2>2 DEF BegunBlock, b, r
  <2>5. ~null => BegunBlock(n, null)[j] = Len(passed) + k
    BY <1>1, <1>3, <1>6, <2>2, <2>4
  <2>6. KeystreamByte(v + q, j) = [key |-> key, nonce |-> nonce, at |-> Len(out) + k]
    BY <1>5, <2>1 DEF KeystreamByte
  <2>7. QED
    BY <2>3, <2>5, <2>6 DEF Passing
<1>10. QED
  BY <1>7, <1>8, <1>9

-----------------------------------------------------------------------------
(* The steps *)

\* No handle, no stream.
LEMMA InitIInv == Init => IInv
<1> SUFFICES ASSUME Init PROVE IInv
  OBVIOUS
<1>1. BufferInv /\ SettingInv
  BY DEF Init, BufferInv, SettingInv
<1>2. StreamInv /\ BlockStream
  BY DEF Init, StreamInv, BlockStream
<1>3. QED
  BY <1>1, <1>2 DEF IInv

\* A new handle, and a handle given back.
LEMMA HandleStep ==
  ASSUME IInv, InitWithBlockcipher \/ InitArc4 \/ Finish
  PROVE  IInv'
<1>0. BlockSize \in Nat
  BY StreamCipherAssumption
<1>1. BufferInv'
  <2>1. CASE InitWithBlockcipher \/ InitArc4
    BY <2>1 DEF IInv, BufferInv, InitWithBlockcipher, InitArc4, blockVars
  <2>2. CASE Finish
    BY <2>2 DEF BufferInv, Finish
  <2>3. QED
    BY <2>1, <2>2
<1>2. SettingInv'
  BY DEF IInv, SettingInv, InitWithBlockcipher, InitArc4, Finish, blockVars
<1>3. StreamInv' /\ BlockStream'
  <2>1. CASE InitWithBlockcipher
    <3>1. passed' = <<>> /\ out' = <<>> /\ iv' = 0 /\ havePartial' = FALSE
      BY <2>1 DEF IInv, SettingInv, InitWithBlockcipher, blockVars
    <3>2. QED
      BY <1>0, <3>1 DEF StreamInv, BlockStream, Spent
  <2>2. CASE InitArc4 \/ Finish
    BY <2>2 DEF StreamInv, BlockStream, InitArc4, Finish
  <2>3. QED
    BY <2>1, <2>2
<1>4. QED
  BY <1>1, <1>2, <1>3 DEF IInv

\* A nonce, with or without a key, begins a stream.
LEMMA SetKeyStep ==
  ASSUME IInv, NEW k \in Keys \union {None}, NEW v \in Nonces,
         SetBlockKey(k, v) \/ SetArc4Key(k, v)
  PROVE  IInv'
<1>0. BlockSize \in Nat
  BY StreamCipherAssumption
<1>1. CASE SetBlockKey(k, v)
  <2>1. BufferInv' /\ SettingInv'
    BY <1>1 DEF IInv, BufferInv, SettingInv, SetBlockKey
  <2>2. passed' = <<>> /\ out' = <<>> /\ iv' = 0 /\ havePartial' = FALSE
    BY <1>1 DEF SetBlockKey
  <2>3. StreamInv' /\ BlockStream'
    BY <1>0, <2>2 DEF StreamInv, BlockStream, Spent
  <2>4. QED
    BY <2>1, <2>3 DEF IInv
<1>2. CASE SetArc4Key(k, v)
  <2>1. BufferInv' /\ SettingInv'
    BY <1>2 DEF IInv, BufferInv, SettingInv, SetArc4Key, blockVars
  <2>2. StreamInv' /\ BlockStream'
    BY <1>2 DEF StreamInv, BlockStream, SetArc4Key
  <2>3. QED
    BY <2>1, <2>2 DEF IInv
<1>3. QED
  BY <1>1, <1>2

\* The buffer's counters and the IV after a call.
LEMMA UpdateBuffer ==
  ASSUME IInv, NEW n \in Nat, NEW null \in BOOLEAN, UpdateBlock(n, null)
  PROVE  BufferInv' /\ (Len(out) + n \in Nat) /\ Spent' = Len(out) + n
<1> DEFINE b == Taken(n)  q == (n - b) \div BlockSize  r == (n - b) % BlockSize
           v == IvAfterPartial(n)  s == q * BlockSize  a == v * BlockSize
<1>1. /\ b \in 0..n /\ q \in Nat /\ r \in 0..(BlockSize - 1)
      /\ n - b = s + r
      /\ havePartial => b <= partialRemaining
      /\ havePartial /\ ~BlockCompletes(n) => b = n /\ b < partialRemaining
      /\ BlockCompletes(n) => havePartial /\ b = partialRemaining
      /\ ~havePartial => b = 0
      /\ BlockCompletes(n) \in BOOLEAN /\ v \in Nat
  BY CallNumbers
<1>2. BlockSize \in Nat /\ iv \in Nat /\ iv * BlockSize \in Nat
  BY StreamCipherAssumption, Distributes DEF IInv, BufferInv
<1>3. Len(out) \in Nat
  BY DEF IInv, StreamInv, UpdateBlock
<1>4. b < n \/ r > 0 \/ BlockCompletes(n) \/ ~havePartial => a = Len(out) + b
  BY BlockStart DEF UpdateBlock
<1>5. /\ iv' = v + q
      /\ r > 0 => /\ partialBytes' = r /\ partialRemaining' = BlockSize - r
                  /\ havePartial' = TRUE
      /\ ~(r > 0) => /\ partialRemaining' = partialRemaining - b
                     /\ partialBytes' = IF BlockCompletes(n) THEN 0 ELSE partialBytes + b
                     /\ havePartial' = (havePartial /\ ~BlockCompletes(n))
  BY DEF UpdateBlock
<1>6. BlockCompletes(n) => havePartial
  BY <1>1
<1> HIDE DEF b, q, r, v
<1>7. (v + q) * BlockSize = a + s /\ a \in Nat /\ s \in Nat
  BY <1>1, <1>2, Distributes
<1> HIDE DEF s
<1>8. CASE r > 0
  <2>1. BufferInv'
    BY <1>1, <1>2, <1>5, <1>8 DEF BufferInv
  <2>2. Spent' = a + s + r
    BY <1>5, <1>7, <1>8 DEF Spent
  <2> HIDE DEF a
  <2>3. QED
    BY <1>1, <1>3, <1>4, <1>7, <1>8, <2>1, <2>2
<1>9. CASE ~(r > 0) /\ ~(havePartial /\ ~BlockCompletes(n))
  <2>1. r = 0
    BY <1>1, <1>2, <1>9
  <2>5. havePartial' = FALSE
    BY <1>5, <1>9
  <2>2. BufferInv'
    <3>1. partialRemaining - b \in Nat
      BY <1>1 DEF IInv, BufferInv
    <3>2. QED
      BY <1>1, <1>2, <1>5, <1>9, <2>5, <3>1 DEF IInv, BufferInv
  <2>3. Spent' = a + s
    BY <1>5, <1>7, <1>9, <2>5 DEF Spent
  <2> HIDE DEF a
  <2>4. QED
    BY <1>1, <1>3, <1>4, <1>7, <1>9, <2>1, <2>2, <2>3
<1>10. CASE ~(r > 0) /\ havePartial /\ ~BlockCompletes(n)
  <2>1. b = n /\ b < partialRemaining
    BY <1>1, <1>10
  <2>2. BufferInv'
    BY <1>1, <1>2, <1>5, <1>10, <2>1 DEF IInv, BufferInv
  <2>3. s = 0 /\ v = iv
    BY <1>1, <1>2, <1>7, <1>10, <2>1 DEF IvAfterPartial, v
  <2>4. Spent' = (iv * BlockSize) + (partialBytes + n)
    <3>1. iv' * BlockSize = iv * BlockSize
      BY <1>2, <1>5, <1>7, <2>3 DEF a
    <3>2. havePartial' = TRUE /\ partialBytes' = partialBytes + n
      BY <1>5, <1>10, <2>1
    <3>3. QED
      BY <3>1, <3>2 DEF Spent
  <2>5. Len(out) = (iv * BlockSize) + partialBytes
    BY <1>10 DEF IInv, StreamInv, Spent, UpdateBlock
  <2>6. partialBytes \in Nat
    BY DEF IInv, BufferInv
  <2> DEFINE x == iv * BlockSize
  <2> HIDE DEF x
  <2>7. x \in Nat /\ Spent' = x + (partialBytes + n) /\ Len(out) = x + partialBytes
    BY <1>2, <2>4, <2>5 DEF x
  <2>8. QED
    BY <1>3, <2>2, <2>6, <2>7
<1>11. QED
  BY <1>8, <1>9, <1>10

\* A call appends as many bytes as it is given, each in its place.
LEMMA UpdateBlockStep ==
  ASSUME IInv, NEW n \in Nat, NEW null \in BOOLEAN, UpdateBlock(n, null)
  PROVE  IInv'
<1> DEFINE o == Output(n, null)  i == Passing(n, null)
<1>1. /\ kind = "block" /\ kind' = kind /\ key' = key /\ nonce' = nonce
      /\ out' = out \o o /\ passed' = passed \o i
  BY DEF UpdateBlock
<1>2. /\ passed \in Seq(Nat) /\ out \in Seq(Byte) /\ Len(out) = Len(passed)
      /\ Len(out) \in Nat
      /\ key \in Keys \union {None} /\ nonce \in Nonces \union {None}
      /\ \A k \in 1..Len(out) :
           out[k] = [in |-> passed[k], ks |-> [key |-> key, nonce |-> nonce, at |-> k]]
  BY <1>1 DEF IInv, SettingInv, StreamInv, BlockStream
<1>3. BufferInv' /\ Spent' = Len(out) + n
  BY UpdateBuffer
<1>4. SettingInv'
  BY <1>1 DEF IInv, SettingInv
<1>5. i \in Seq(Nat) /\ Len(i) = n /\ \A k \in 1..n : i[k] \in Nat
  BY <1>2 DEF Passing
<1>6. \A k \in 1..n :
        o[k] = [in |-> i[k], ks |-> [key |-> key, nonce |-> nonce, at |-> Len(out) + k]]
  BY <1>1, OutputRight
<1>7. \A k \in 1..n : o[k] \in Byte
  <2> SUFFICES ASSUME NEW k \in 1..n PROVE o[k] \in Byte
    OBVIOUS
  <2>1. i[k] \in Nat /\ Len(out) + k \in Nat
    BY <1>2, <1>5
  <2> DEFINE w == [key |-> key, nonce |-> nonce, at |-> Len(out) + k]
  <2>2. w \in [key : Keys \union {None}, nonce : Nonces \union {None}, at : Nat]
    BY <1>2, <2>1
  <2>3. o[k] = [in |-> i[k], ks |-> w]
    BY <1>6
  <2> HIDE DEF w, o, i
  <2>4. QED
    BY <2>1, <2>2, <2>3 DEF Byte
<1>8. o = [k \in 1..n |-> o[k]]
  BY DEF Output
<1> HIDE DEF o, i
<1>9. o \in Seq(Byte) /\ Len(o) = n
  BY <1>7, <1>8
<1>10. /\ out' \in Seq(Byte) /\ Len(out') = Len(out) + n
       /\ \A k \in 1..Len(out) : out'[k] = out[k]
       /\ \A k \in 1..n : out'[Len(out) + k] = o[k]
  <2>1. out \in Seq(Byte)
    BY <1>2
  <2>2. /\ out \o o \in Seq(Byte) /\ Len(out \o o) = Len(out) + Len(o)
        /\ \A k \in 1..Len(out) : (out \o o)[k] = out[k]
        /\ \A k \in 1..Len(o) : (out \o o)[Len(out) + k] = o[k]
    BY <1>9, <2>1, Appended
  <2>3. QED
    BY <1>1, <1>9, <2>2
<1>11. /\ passed' \in Seq(Nat) /\ Len(passed') = Len(passed) + n
       /\ \A k \in 1..Len(passed) : passed'[k] = passed[k]
       /\ \A k \in 1..n : passed'[Len(passed) + k] = i[k]
  <2>1. passed \in Seq(Nat) /\ i \in Seq(Nat) /\ Len(i) = n
    BY <1>2, <1>5
  <2>2. /\ passed \o i \in Seq(Nat) /\ Len(passed \o i) = Len(passed) + Len(i)
        /\ \A k \in 1..Len(passed) : (passed \o i)[k] = passed[k]
        /\ \A k \in 1..Len(i) : (passed \o i)[Len(passed) + k] = i[k]
    <3> DEFINE S == Nat
    <3>1. passed \in Seq(S) /\ i \in Seq(S)
      BY <2>1
    <3> HIDE DEF S
    <3>2. /\ passed \o i \in Seq(S) /\ Len(passed \o i) = Len(passed) + Len(i)
          /\ \A k \in 1..Len(passed) : (passed \o i)[k] = passed[k]
          /\ \A k \in 1..Len(i) : (passed \o i)[Len(passed) + k] = i[k]
      BY <3>1, Appended
    <3>3. QED
      BY <3>2 DEF S
  <2>3. QED
    BY <1>1, <2>1, <2>2
<1>12. StreamInv'
  BY <1>2, <1>3, <1>10, <1>11 DEF StreamInv
<1>13. ASSUME NEW k \in 1..Len(out')
       PROVE  out'[k] = [in |-> passed'[k], ks |-> [key |-> key, nonce |-> nonce, at |-> k]]
  <2>1. CASE k <= Len(out)
    <3>1. k \in 1..Len(out)
      BY <1>2, <1>10, <2>1
    <3>2. QED
      BY <1>2, <1>10, <1>11, <3>1
  <2>2. CASE ~(k <= Len(out))
    <3> DEFINE j == k - Len(out)
    <3>1. j \in 1..n /\ k = Len(out) + j
      BY <1>2, <1>10, <2>2
    <3>2. out'[k] = o[j] /\ passed'[k] = i[j]
      BY <1>2, <1>10, <1>11, <3>1
    <3>3. QED
      BY <1>6, <3>1, <3>2
  <2>3. QED
    BY <2>1, <2>2
<1>14. BlockStream'
  BY <1>1, <1>13 DEF BlockStream
<1>15. QED
  BY <1>3, <1>4, <1>12, <1>14 DEF IInv

\* A call on a handle of ARC4 does not touch the block buffer.
LEMMA UpdateArc4Step ==
  ASSUME IInv, NEW n \in Nat, NEW null \in BOOLEAN, UpdateArc4(n, null)
  PROVE  IInv'
<1>1. BufferInv' /\ SettingInv'
  BY DEF IInv, BufferInv, SettingInv, UpdateArc4, blockVars
<1>2. StreamInv' /\ BlockStream'
  BY DEF StreamInv, BlockStream, UpdateArc4
<1>3. QED
  BY <1>1, <1>2 DEF IInv

\* Nothing happens.
LEMMA StutterStep ==
  ASSUME IInv, UNCHANGED vars
  PROVE  IInv'
  BY DEF IInv, BufferInv, SettingInv, StreamInv, BlockStream, Spent, vars, blockVars

\* Every step keeps the invariant.
LEMMA NextIInv == IInv /\ [Next]_vars => IInv'
<1> SUFFICES ASSUME IInv, [Next]_vars PROVE IInv'
  OBVIOUS
<1>1. CASE InitWithBlockcipher \/ InitArc4 \/ Finish
  BY <1>1, HandleStep
<1>2. CASE SetKey
  BY <1>2, SetKeyStep DEF SetKey
<1>3. CASE Update
  <2>1. PICK n \in 0..MaxBytes, null \in BOOLEAN : UpdateBlock(n, null) \/ UpdateArc4(n, null)
    BY <1>3 DEF Update
  <2>2. n \in Nat
    BY StreamCipherAssumption
  <2>3. QED
    BY <2>1, <2>2, UpdateBlockStep, UpdateArc4Step
<1>4. CASE UNCHANGED vars
  BY <1>4, StutterStep
<1>5. QED
  BY <1>1, <1>2, <1>3, <1>4 DEF Next

-----------------------------------------------------------------------------
(* Theorems about a block cipher's handle *)

\* The counters of the buffer and the IV stay consistent with the bytes given out.
THEOREM Invariant == Spec => []IInv
<1>1. Init => IInv
  BY InitIInv
<1>2. IInv /\ [Next]_vars => IInv'
  BY NextIInv
<1>3. QED
  BY <1>1, <1>2, PTL DEF Spec

\* However k_sc_update is called, each byte out is the byte in under the byte of
\* keystream in its place.
THEOREM BlockStreamExact == Spec => []BlockStream
<1>1. IInv => BlockStream
  BY DEF IInv
<1>2. QED
  BY <1>1, Invariant, PTL

-----------------------------------------------------------------------------
(* Recursive functions *)

\* Less-than on the numbers, as a relation.
Less == {ss \in Nat \X Nat : ss[1] < ss[2]}

\* What holds at 0 and goes over from each number to the next holds up to n.
LEMMA UpTo ==
  ASSUME NEW n \in Nat, NEW H, 0 \in H, \A i \in 1..n : i - 1 \in H => i \in H
  PROVE  0..n \subseteq H
<1> DEFINE T == {i \in 0..n : i \notin H}
<1>1. SUFFICES ASSUME T # {} PROVE FALSE
  OBVIOUS
<1>2. T \subseteq Nat
  OBVIOUS
<1>3. IsWellFoundedOn(Less, Nat)
  BY NatLessThanWellFounded DEF OpToRel, Less
<1>4. PICK x \in T : \A y \in T : <<y, x>> \notin Less
  BY <1>1, <1>2, <1>3, WFMin
<1>5. x \in 1..n /\ x - 1 \in 0..n
  BY <1>4
<1>6. <<x - 1, x>> \in Less
  BY <1>5 DEF Less
<1>7. x - 1 \in H
  BY <1>4, <1>5, <1>6
<1>8. QED
  BY <1>4, <1>5, <1>7

\* F begins with a and goes on by the steps that W names.
Follows(W, n, a, F) == F[0] = a /\ \A i \in 1..n : F[i] = W[i][F[i - 1]]

\* A function that begins in S and whose steps stay in S is defined by them.
LEMMA Recursion ==
  ASSUME NEW S, NEW n \in Nat, NEW a \in S, NEW W \in [1..n -> [S -> S]]
  PROVE  \E F \in [0..n -> S] : Follows(W, n, a, F)
<1> DEFINE Good(k, F) == F[0] = a /\ \A i \in 1..k : F[i] = W[i][F[i - 1]]
           H == {k \in 0..n : \E F \in [0..k -> S] : Good(k, F)}
<1>1. 0 \in H
  <2> DEFINE F == [i \in 0..0 |-> a]
  <2>1. F \in [0..0 -> S] /\ Good(0, F)
    OBVIOUS
  <2> HIDE DEF F
  <2>2. \E E \in [0..0 -> S] : Good(0, E)
    BY <2>1
  <2>3. QED
    BY <2>2
<1>2. ASSUME NEW k \in 1..n, k - 1 \in H
      PROVE  k \in H
  <2>1. PICK F \in [0..(k - 1) -> S] : Good(k - 1, F)
    BY <1>2
  <2> DEFINE G == [i \in 0..k |-> IF i = k THEN W[k][F[k - 1]] ELSE F[i]]
  <2>2. k - 1 \in 0..(k - 1) /\ F[k - 1] \in S
    BY <2>1
  <2>3. W[k][F[k - 1]] \in S
    BY <2>2
  <2>4. G \in [0..k -> S]
    BY <2>3
  <2>5. G[0] = a
    BY <2>1
  <2>6. ASSUME NEW i \in 1..k PROVE G[i] = W[i][G[i - 1]]
    <3>1. i - 1 \in 0..k /\ i - 1 # k /\ i \in 0..k
      OBVIOUS
    <3>2. G[i - 1] = F[i - 1]
      BY <3>1
    <3>3. CASE i = k
      BY <3>1, <3>2, <3>3
    <3>4. CASE i # k
      <4>1. i \in 1..(k - 1)
        BY <3>4
      <4>2. QED
        BY <2>1, <3>1, <3>2, <3>4, <4>1
    <3>5. QED
      BY <3>3, <3>4
  <2> HIDE DEF G
  <2>7. QED
    BY <2>4, <2>5, <2>6
<1>3. n \in H
  <2> HIDE DEF H
  <2>1. 0..n \subseteq H
    BY <1>1, <1>2, UpTo
  <2>2. QED
    BY <2>1
<1>4. QED
  BY <1>3 DEF Follows

-----------------------------------------------------------------------------
(* ARC4 *)

Bytes == 0..(Size - 1)

\* What a context of ARC4 can be: its table is a permutation.
Context == [m : Permutations(Bytes), x : Bytes, y : Bytes]

\* The swap is a transposition, and keeps the table a permutation.
LEMMA SwapIs ==
  ASSUME NEW m \in Permutations(Bytes), NEW i \in Bytes, NEW j \in Bytes
  PROVE  Swapped(m, i, j) = Transposed(m, i, j) /\ Swapped(m, i, j) \in Permutations(Bytes)
<1> DEFINE s == Swapped(m, i, j)
<1>1. m \in [Bytes -> Bytes] /\ \A a, b \in Bytes : m[a] = m[b] => a = b
  BY DEF Permutations
<1>2. s \in [Bytes -> Bytes]
  BY <1>1 DEF Swapped
<1>3. \A a \in Bytes : s[a] = m[IF a = i THEN j ELSE IF a = j THEN i ELSE a]
  BY <1>1 DEF Swapped
<1>4. s = [a \in Bytes |-> m[IF a = i THEN j ELSE IF a = j THEN i ELSE a]]
  BY <1>2, <1>3
<1>5. s = Transposed(m, i, j)
  BY <1>1, <1>4 DEF Transposed
<1> HIDE DEF s
<1>6. ASSUME NEW a \in Bytes, NEW b \in Bytes, s[a] = s[b] PROVE a = b
  BY <1>1, <1>3, <1>6
<1>7. QED
  BY <1>2, <1>5, <1>6 DEF Permutations, s

\* A sum reduced to a byte.
LEMMA ByteOf == ASSUME NEW a \in Nat PROVE a % Size \in Bytes
  BY DivMod, StreamCipherAssumption DEF Bytes

\* One step of the generator.
LEMMA SteppedIn ==
  ASSUME NEW c \in Context
  PROVE  /\ Stepped(c) \in Context
         /\ Stepped(c).x = (c.x + 1) % Size
         /\ Stepped(c).y = (c.y + c.m[(c.x + 1) % Size]) % Size
         /\ Stepped(c).m = Transposed(c.m, Stepped(c).x, Stepped(c).y)
<1> DEFINE x == (c.x + 1) % Size  y == (c.m[x] + c.y) % Size
<1>1. c.m \in Permutations(Bytes) /\ c.x \in Bytes /\ c.y \in Bytes
  BY DEF Context
<1>2. Bytes \subseteq Nat
  BY DEF Bytes
<1>3. x \in Bytes
  <2>1. c.x \in Nat
    BY <1>1, <1>2
  <2>2. c.x + 1 \in Nat
    BY <2>1
  <2>3. QED
    BY <2>2, ByteOf
<1> HIDE DEF x
<1>4. c.m[x] \in Bytes
  BY <1>1, <1>3 DEF Permutations
<1>5. y \in Bytes /\ y = (c.y + c.m[x]) % Size
  <2>1. c.m[x] \in Nat /\ c.y \in Nat
    BY <1>1, <1>2, <1>4
  <2>2. c.m[x] + c.y \in Nat /\ c.m[x] + c.y = c.y + c.m[x]
    BY <2>1
  <2>3. QED
    BY <2>2, ByteOf
<1>6. Stepped(c) = [m |-> Swapped(c.m, x, y), x |-> x, y |-> y]
  BY DEF Stepped, x
<1> HIDE DEF y
<1>7. Swapped(c.m, x, y) = Transposed(c.m, x, y) /\ Swapped(c.m, x, y) \in Permutations(Bytes)
  BY <1>1, <1>3, <1>5, SwapIs
<1>8. QED
  BY <1>3, <1>5, <1>6, <1>7 DEF Context, x

\* The contexts of a call follow from the first, step by step.
LEMMA ContextsAre ==
  ASSUME NEW c \in Context, NEW n \in Nat
  PROVE  LET F == Contexts(c, n)
         IN  F \in [0..n -> Context] /\ F[0] = c /\ \A i \in 1..n : F[i] = Stepped(F[i - 1])
<1> DEFINE W == [i \in 1..n |-> [d \in Context |-> Stepped(d)]]
           f == CHOOSE f : f = [k \in 0..n |-> IF k = 0 THEN c ELSE Stepped(f[k - 1])]
<1>1. \A d \in Context : Stepped(d) \in Context
  BY SteppedIn
<1>2. W \in [1..n -> [Context -> Context]]
  BY <1>1
<1>3. \A i \in 1..n, d \in Context : W[i][d] = Stepped(d)
  OBVIOUS
<1> HIDE DEF W, f
<1>4. PICK F \in [0..n -> Context] : Follows(W, n, c, F)
  BY <1>2, Recursion
<1>5. \A k \in 0..n : F[k] = IF k = 0 THEN c ELSE Stepped(F[k - 1])
  <2> SUFFICES ASSUME NEW k \in 0..n, k # 0 PROVE F[k] = Stepped(F[k - 1])
    BY <1>4 DEF Follows
  <2>1. k \in 1..n /\ k - 1 \in 0..n
    OBVIOUS
  <2>2. QED
    BY <1>3, <1>4, <2>1 DEF Follows
<1>6. F = [k \in 0..n |-> IF k = 0 THEN c ELSE Stepped(F[k - 1])]
  BY <1>5
<1>7. f = [k \in 0..n |-> IF k = 0 THEN c ELSE Stepped(f[k - 1])]
  BY <1>6 DEF f
<1>8. Contexts(c, n) = f
  BY DEF Contexts, f
<1>9. f[0] = c /\ \A i \in 1..n : f[i] = Stepped(f[i - 1])
  BY <1>7
<1>10. \A k \in 0..n : f[k] = F[k]
  <2> DEFINE H == {k \in 0..n : f[k] = F[k]}
  <2>1. 0 \in H
    BY <1>5, <1>9
  <2>2. ASSUME NEW i \in 1..n, i - 1 \in H PROVE i \in H
    BY <1>5, <1>9, <2>2
  <2> HIDE DEF H
  <2>3. 0..n \subseteq H
    BY <2>1, <2>2, UpTo
  <2>4. QED
    BY <2>3 DEF H
<1>11. f \in [0..n -> Context]
  BY <1>7, <1>10
<1>12. QED
  BY <1>8, <1>9, <1>11

\* A call that begins where another ended goes on with its contexts.
LEMMA ContextsContinue ==
  ASSUME NEW c \in Context, NEW e \in Nat, NEW a \in Nat, NEW n \in Nat, a + n <= e
  PROVE  \A i \in 0..n : Contexts(Contexts(c, e)[a], n)[i] = Contexts(c, e)[a + i]
<1> DEFINE F == Contexts(c, e)  G == Contexts(F[a], n)
           H == {i \in 0..n : G[i] = F[a + i]}
<1>1. F \in [0..e -> Context] /\ \A i \in 1..e : F[i] = Stepped(F[i - 1])
  BY ContextsAre
<1> HIDE DEF F
<1>2. F[a] \in Context
  BY <1>1
<1>3. G[0] = F[a] /\ \A i \in 1..n : G[i] = Stepped(G[i - 1])
  BY <1>2, ContextsAre
<1> HIDE DEF G
<1>4. 0 \in H
  BY <1>3
<1>5. ASSUME NEW i \in 1..n, i - 1 \in H PROVE i \in H
  <2>1. a + i \in 1..e /\ (a + i) - 1 = a + (i - 1)
    OBVIOUS
  <2>2. G[i - 1] = F[a + (i - 1)]
    BY <1>5
  <2>3. G[i] = Stepped(F[a + (i - 1)]) /\ F[a + i] = Stepped(F[a + (i - 1)])
    BY <1>1, <1>3, <2>1, <2>2
  <2>4. QED
    BY <2>3
<1> HIDE DEF H
<1>6. 0..n \subseteq H
  BY <1>4, <1>5, UpTo
<1>7. QED
  BY <1>6 DEF H, F, G

\* What a swap of the key schedule works on.
Schedule == [m : Permutations(Bytes), b : Bytes]

\* The key schedule is ARC4's.
LEMMA ScheduledIs ==
  ASSUME NEW k \in Seq(Bytes), k # <<>>
  PROVE  /\ Scheduled(k) \in Context
         /\ Scheduled(k).m = Rc4Schedule(k) /\ Scheduled(k).x = 0 /\ Scheduled(k).y = 0
<1> DEFINE B(i) == k[((i - 1) % Len(k)) + 1]
           Next1(i, p) == [m |-> Swapped(p.m, i - 1, (B(i) + p.m[i - 1] + p.b) % Size),
                           b |-> (B(i) + p.m[i - 1] + p.b) % Size]
           Next2(i, s) == <<Transposed(s[1], i - 1, (s[2] + s[1][i - 1] + B(i)) % Size),
                            (s[2] + s[1][i - 1] + B(i)) % Size>>
           first == [m |-> [j \in Bytes |-> j], b |-> 0]
           swaps == CHOOSE f : f = [i \in 0..Size |->
                                      IF i = 0 THEN first ELSE Next1(i, f[i - 1])]
           f2 == CHOOSE f : f = [i \in 0..Size |->
                                   IF i = 0 THEN <<[j \in Bytes |-> j], 0>> ELSE Next2(i, f[i - 1])]
           W == [i \in 1..Size |-> [p \in Schedule |-> Next1(i, p)]]
<1>0. Size \in Nat /\ Size > 0 /\ 0 \in Bytes /\ Bytes \subseteq Nat /\ Len(k) \in Nat \ {0}
  BY StreamCipherAssumption DEF Bytes
<1>1. Scheduled(k) = [m |-> swaps[Size].m, x |-> 0, y |-> 0] /\ Rc4Schedule(k) = f2[Size][1]
  BY DEF Scheduled, Rc4Schedule, Bytes
<1>2. \A i \in 1..Size : B(i) \in Bytes /\ i - 1 \in Bytes
  <2> SUFFICES ASSUME NEW i \in 1..Size PROVE B(i) \in Bytes /\ i - 1 \in Bytes
    OBVIOUS
  <2>1. (i - 1) % Len(k) \in 0..(Len(k) - 1)
    BY <1>0, DivMod
  <2>2. ((i - 1) % Len(k)) + 1 \in 1..Len(k)
    BY <1>0, <2>1
  <2>3. QED
    BY <1>0, <2>2 DEF Bytes
<1> HIDE DEF B
<1>3. ASSUME NEW i \in 1..Size, NEW p \in Schedule
      PROVE  /\ Next1(i, p) \in Schedule
             /\ Next2(i, <<p.m, p.b>>) = <<Next1(i, p).m, Next1(i, p).b>>
  <2> DEFINE j == (B(i) + p.m[i - 1] + p.b) % Size
  <2>1. p.m \in Permutations(Bytes) /\ p.b \in Bytes /\ i - 1 \in Bytes /\ B(i) \in Bytes
    BY <1>2 DEF Schedule
  <2>2. p.m[i - 1] \in Bytes
    BY <2>1 DEF Permutations
  <2>3. /\ B(i) + p.m[i - 1] + p.b \in Nat
        /\ B(i) + p.m[i - 1] + p.b = p.b + p.m[i - 1] + B(i)
    <3> DEFINE u == B(i)  v == p.m[i - 1]  w == p.b
    <3>1. u \in Nat /\ v \in Nat /\ w \in Nat
      BY <1>0, <2>1, <2>2
    <3> HIDE DEF u, v, w
    <3>2. u + v + w \in Nat /\ u + v + w = w + v + u
      BY <3>1
    <3>3. QED
      BY <3>2 DEF u, v, w
  <2>4. j \in Bytes /\ j = (p.b + p.m[i - 1] + B(i)) % Size
    BY <2>3, ByteOf
  <2> HIDE DEF j
  <2>5. Swapped(p.m, i - 1, j) = Transposed(p.m, i - 1, j) /\ Swapped(p.m, i - 1, j) \in Permutations(Bytes)
    BY <2>1, <2>4, SwapIs
  <2>6. Next1(i, p) = [m |-> Swapped(p.m, i - 1, j), b |-> j]
    BY DEF j
  <2>7. Next2(i, <<p.m, p.b>>) = <<Transposed(p.m, i - 1, j), j>>
    BY <2>4
  <2>8. QED
    BY <2>4, <2>5, <2>6, <2>7 DEF Schedule
<1>4. first \in Schedule
  <2>1. [j \in Bytes |-> j] \in Permutations(Bytes)
    BY DEF Permutations
  <2>2. QED
    BY <1>0, <2>1 DEF Schedule
<1>5. first.m = [j \in Bytes |-> j] /\ first.b = 0
  OBVIOUS
<1> HIDE DEF Next1, Next2, first
<1>6. W \in [1..Size -> [Schedule -> Schedule]]
  BY <1>3
<1>7. \A i \in 1..Size, p \in Schedule : W[i][p] = Next1(i, p)
  OBVIOUS
<1> HIDE DEF W, swaps, f2
<1>8. PICK F \in [0..Size -> Schedule] : Follows(W, Size, first, F)
  BY <1>0, <1>4, <1>6, Recursion
<1>9. \A i \in 0..Size : F[i] = IF i = 0 THEN first ELSE Next1(i, F[i - 1])
  <2> SUFFICES ASSUME NEW i \in 0..Size, i # 0 PROVE F[i] = Next1(i, F[i - 1])
    BY <1>8 DEF Follows
  <2>1. i \in 1..Size /\ i - 1 \in 0..Size
    BY <1>0
  <2>2. QED
    BY <1>7, <1>8, <2>1 DEF Follows
<1>10. F = [i \in 0..Size |-> IF i = 0 THEN first ELSE Next1(i, F[i - 1])]
  BY <1>9
<1>11. swaps = [i \in 0..Size |-> IF i = 0 THEN first ELSE Next1(i, swaps[i - 1])]
  BY <1>10 DEF swaps
<1>12. \A i \in 0..Size : swaps[i] = F[i]
  <2> DEFINE H == {i \in 0..Size : swaps[i] = F[i]}
  <2>1. 0 \in H
    BY <1>0, <1>9, <1>11
  <2>2. ASSUME NEW i \in 1..Size, i - 1 \in H PROVE i \in H
    BY <1>9, <1>11, <2>2
  <2> HIDE DEF H
  <2>3. 0..Size \subseteq H
    BY <1>0, <2>1, <2>2, UpTo
  <2>4. QED
    BY <2>3 DEF H
<1> DEFINE G == [i \in 0..Size |-> <<F[i].m, F[i].b>>]
<1>13. \A i \in 0..Size : G[i] = IF i = 0 THEN <<[j \in Bytes |-> j], 0>> ELSE Next2(i, G[i - 1])
  <2> SUFFICES ASSUME NEW i \in 0..Size
               PROVE  G[i] = IF i = 0 THEN <<[j \in Bytes |-> j], 0>> ELSE Next2(i, G[i - 1])
    OBVIOUS
  <2>1. CASE i = 0
    BY <1>5, <1>9, <2>1
  <2>2. CASE i # 0
    <3>1. i \in 1..Size /\ i - 1 \in 0..Size
      BY <1>0, <2>2
    <3>2. F[i - 1] \in Schedule /\ F[i] = Next1(i, F[i - 1])
      BY <1>9, <2>2, <3>1
    <3>3. Next2(i, <<F[i - 1].m, F[i - 1].b>>) = <<F[i].m, F[i].b>>
      BY <1>3, <3>1, <3>2
    <3>4. QED
      BY <2>2, <3>1, <3>3
  <2>3. QED
    BY <2>1, <2>2
<1>14. G = [i \in 0..Size |-> IF i = 0 THEN <<[j \in Bytes |-> j], 0>> ELSE Next2(i, G[i - 1])]
  BY <1>13
<1>15. f2 = [i \in 0..Size |-> IF i = 0 THEN <<[j \in Bytes |-> j], 0>> ELSE Next2(i, f2[i - 1])]
  <2> HIDE DEF G
  <2>1. QED
    BY <1>14 DEF f2
<1>16. \A i \in 0..Size : f2[i] = G[i]
  <2> DEFINE H == {i \in 0..Size : f2[i] = G[i]}
  <2> HIDE DEF G
  <2>1. 0 \in H
    <3>1. 0 \in 0..Size
      BY <1>0
    <3>2. f2[0] = <<[j \in Bytes |-> j], 0>>
      BY <1>15, <3>1
    <3>3. G[0] = <<[j \in Bytes |-> j], 0>>
      BY <1>14, <3>1
    <3>4. QED
      BY <3>1, <3>2, <3>3
  <2>2. ASSUME NEW i \in 1..Size, i - 1 \in H PROVE i \in H
    BY <1>14, <1>15, <2>2
  <2> HIDE DEF H
  <2>3. 0..Size \subseteq H
    BY <1>0, <2>1, <2>2, UpTo
  <2>4. QED
    BY <2>3 DEF H
<1>17. swaps[Size] \in Schedule /\ f2[Size][1] = swaps[Size].m
  BY <1>0, <1>12, <1>16
<1>18. QED
  BY <1>0, <1>1, <1>17 DEF Context, Schedule

\* The position in the table goes round with the bytes.
LEMMA RoundTheTable ==
  ASSUME NEW i \in Nat \ {0}
  PROVE  (((i - 1) % Size) + 1) % Size = i % Size
<1>1. Size \in Nat \ {0}
  BY StreamCipherAssumption
<1>2. PICK q \in Nat, r \in 0..(Size - 1) : i - 1 = (q * Size) + r /\ r = (i - 1) % Size
  <2>1. i - 1 \in Nat
    OBVIOUS
  <2>2. QED
    BY <1>1, <2>1, DivMod
<1>3. ASSUME NEW p \in Nat, NEW s \in 0..(Size - 1), i = (p * Size) + s
      PROVE  i % Size = s
  BY <1>1, <1>3
<1>4. CASE r + 1 < Size
  <2> DEFINE z == q * Size
  <2>1. z \in Nat
    BY <1>1, Distributes
  <2>2. i - 1 = z + r
    BY <1>2
  <2> HIDE DEF z
  <2>3. i = z + (r + 1) /\ r + 1 \in 0..(Size - 1)
    BY <1>1, <1>4, <2>1, <2>2
  <2>4. i % Size = r + 1
    BY <1>3, <2>3 DEF z
  <2>5. (r + 1) % Size = r + 1
    BY <1>1, <1>4
  <2>6. QED
    BY <1>2, <2>4, <2>5
<1>5. CASE r + 1 = Size
  <2> DEFINE z == q * Size
  <2>1. z \in Nat /\ (q + 1) * Size = z + (1 * Size)
    BY <1>1, Distributes
  <2>2. i - 1 = z + r
    BY <1>2
  <2> HIDE DEF z
  <2>3. i = z + (1 * Size) + 0
    BY <1>1, <1>5, <2>1, <2>2
  <2>4. i = ((q + 1) * Size) + 0 /\ 0 \in 0..(Size - 1) /\ q + 1 \in Nat
    BY <1>1, <2>1, <2>3
  <2>5. i % Size = 0
    BY <1>3, <2>4
  <2>6. Size % Size = 0
    BY <1>1
  <2>7. QED
    BY <1>2, <1>5, <2>5, <2>6
<1>6. QED
  BY <1>1, <1>4, <1>5

\* The keystream is ARC4's.
LEMMA KeystreamIs ==
  ASSUME NEW k \in Seq(Bytes), k # <<>>, NEW n \in Nat
  PROVE  \A i \in 1..n : Rc4Keystream(k, n)[i] = Produced(Contexts(Scheduled(k), n)[i])
<1> DEFINE First == <<Rc4Schedule(k), 0, 0>>
           After(i, p) == LET j == (p[2] + p[1][i % Size]) % Size
                              t == Transposed(p[1], i % Size, j)
                          IN  <<t, j, t[(t[i % Size] + t[j]) % Size]>>
           f == CHOOSE f : f = [i \in 0..n |-> IF i = 0 THEN First ELSE After(i, f[i - 1])]
           C == Contexts(Scheduled(k), n)
           G == [i \in 0..n |-> <<C[i].m, C[i].y, IF i = 0 THEN 0 ELSE Produced(C[i])>>]
<1>1. Rc4Keystream(k, n) = [i \in 1..n |-> f[i][3]]
  BY DEF Rc4Keystream
<1>2. /\ Scheduled(k) \in Context
      /\ Scheduled(k).m = Rc4Schedule(k) /\ Scheduled(k).x = 0 /\ Scheduled(k).y = 0
  BY ScheduledIs
<1>3. C \in [0..n -> Context] /\ C[0] = Scheduled(k) /\ \A i \in 1..n : C[i] = Stepped(C[i - 1])
  BY <1>2, ContextsAre
<1> HIDE DEF C, f
<1>4. Size \in Nat \ {0}
  BY StreamCipherAssumption
<1>5. \A i \in 0..n : C[i].x = i % Size
  <2> DEFINE H == {i \in 0..n : C[i].x = i % Size}
  <2>1. 0 \in H
    BY <1>2, <1>3, <1>4
  <2>2. ASSUME NEW i \in 1..n, i - 1 \in H PROVE i \in H
    <3>1. i - 1 \in 0..n /\ C[i - 1] \in Context /\ C[i - 1].x = (i - 1) % Size /\ i \in 0..n
      BY <1>3, <2>2
    <3>2. C[i].x = (((i - 1) % Size) + 1) % Size
      BY <1>3, <3>1, SteppedIn
    <3>3. QED
      BY <3>1, <3>2, RoundTheTable
  <2> HIDE DEF H
  <2>3. 0..n \subseteq H
    BY <2>1, <2>2, UpTo
  <2>4. QED
    BY <2>3 DEF H
<1>6. ASSUME NEW i \in 1..n
      PROVE  \A z : After(i, <<C[i - 1].m, C[i - 1].y, z>>) = <<C[i].m, C[i].y, Produced(C[i])>>
  <2> TAKE z
  <2> DEFINE c == C[i - 1]  d == C[i]
  <2>1. c \in Context /\ d = Stepped(c) /\ d.x = i % Size
    BY <1>3, <1>5
  <2>2. c.x = (i - 1) % Size
    BY <1>5
  <2> HIDE DEF c, d
  <2>3. (c.x + 1) % Size = i % Size
    BY <2>2, RoundTheTable
  <2>4. d.y = (c.y + c.m[i % Size]) % Size /\ d.m = Transposed(c.m, i % Size, d.y)
    BY <2>1, <2>3, SteppedIn
  <2>5. Produced(d) = d.m[(d.m[i % Size] + d.m[d.y]) % Size]
    BY <2>1 DEF Produced
  <2>6. After(i, <<c.m, c.y, z>>) = <<d.m, d.y, Produced(d)>>
    BY <2>4, <2>5
  <2>7. QED
    BY <2>6 DEF c, d
<1> HIDE DEF After, First
<1>7. \A i \in 0..n : G[i] = IF i = 0 THEN First ELSE After(i, G[i - 1])
  <2> SUFFICES ASSUME NEW i \in 0..n
               PROVE  G[i] = IF i = 0 THEN First ELSE After(i, G[i - 1])
    OBVIOUS
  <2>1. CASE i = 0
    BY <1>2, <1>3, <2>1 DEF First
  <2>2. CASE i # 0
    <3>1. i \in 1..n /\ i - 1 \in 0..n
      BY <2>2
    <3>2. QED
      BY <1>6, <2>2, <3>1
  <2>3. QED
    BY <2>1, <2>2
<1>8. G = [i \in 0..n |-> IF i = 0 THEN First ELSE After(i, G[i - 1])]
  BY <1>7
<1>9. f = [i \in 0..n |-> IF i = 0 THEN First ELSE After(i, f[i - 1])]
  <2> HIDE DEF G
  <2>1. QED
    BY <1>8 DEF f
<1>10. \A i \in 0..n : f[i] = G[i]
  <2> DEFINE H == {i \in 0..n : f[i] = G[i]}
  <2> HIDE DEF G
  <2>1. 0 \in H
    <3>1. 0 \in 0..n
      OBVIOUS
    <3>2. f[0] = First /\ G[0] = First
      BY <1>8, <1>9, <3>1
    <3>3. QED
      BY <3>1, <3>2
  <2>2. ASSUME NEW i \in 1..n, i - 1 \in H PROVE i \in H
    BY <1>8, <1>9, <2>2
  <2> HIDE DEF H
  <2>3. 0..n \subseteq H
    BY <2>1, <2>2, UpTo
  <2>4. QED
    BY <2>3 DEF H
<1>11. ASSUME NEW i \in 1..n PROVE f[i][3] = Produced(C[i])
  BY <1>10
<1>12. QED
  BY <1>1, <1>11 DEF C

-----------------------------------------------------------------------------
(* The handle of ARC4 *)

\* What a handle of ARC4 gives out.
Given == [in : Nat, ks : Bytes]

\* The key that set_key gives to the schedule.
ScheduleKey(v, k) == IF k = None THEN v ELSE Mixed(v, k)

\* The contexts since then, as far as a stream may go.
Run == Contexts(Scheduled(ScheduleKey(nonce, key)), MaxBytes)

TypeInv ==
  /\ backup \in Nat /\ partialBlock \in [Offsets -> Nat]
  /\ partialBytes \in Offsets /\ partialRemaining \in Offsets
  /\ kind = "none" => nonce = None
  /\ kind = "arc4" => /\ passed \in Seq(Nat) /\ out \in Seq(Given)
                      /\ Len(out) = Len(passed)

RunInv ==
  kind = "arc4" /\ nonce # None =>
    /\ Len(out) <= MaxBytes /\ ctx = Run[Len(out)]
    /\ \A k \in 1..Len(out) : out[k] = [in |-> passed[k], ks |-> Produced(Run[k])]

Arc4Inv == TypeInv /\ RunInv

\* The schedule always has bytes to read.
LEMMA ScheduleKeyIs ==
  ASSUME NEW v \in Nonces, NEW k \in Keys \union {None}
  PROVE  ScheduleKey(v, k) \in Seq(Bytes) /\ ScheduleKey(v, k) # <<>>
<1>0. v \in Seq(Bytes) /\ v # <<>> /\ (k # None => k \in Seq(Bytes))
  BY StreamCipherAssumption DEF Bytes
<1>1. v \in Seq(Bytes) /\ v # <<>> /\ Len(v) \in Nat /\ \A j \in 1..Len(v) : v[j] \in Bytes
  BY <1>0, ElementOfSeq, LenProperties
<1>2. \A x, y \in Bytes : Xor(x, y) \in Bytes
  BY StreamCipherAssumption DEF Bytes
<1>3. CASE k # None
  <2> DEFINE words == (Len(k) \div WordBytes) * WordBytes  over == Len(k) % WordBytes
             once == [j \in 1..Len(v) |-> IF j <= words THEN Xor(v[j], k[j]) ELSE v[j]]
             all == [j \in 1..Len(v) |-> IF j <= over THEN Xor(once[j], k[j]) ELSE once[j]]
  <2>1. Len(k) \in Nat /\ WordBytes \in Nat \ {0} /\ \A j \in 1..Len(k) : k[j] \in Bytes
    BY <1>0, <1>3, ElementOfSeq, LenProperties, StreamCipherAssumption
  <2>2. words \in Nat /\ over \in Nat /\ words <= Len(k) /\ over <= Len(k)
    <3>1. /\ Len(k) \div WordBytes \in Nat /\ over \in Nat
          /\ Len(k) = words + over
      <4> DEFINE l == Len(k)
      <4>1. l \in Nat
        BY <2>1
      <4> HIDE DEF l
      <4>2. /\ l \div WordBytes \in Nat /\ (l % WordBytes) \in 0..(WordBytes - 1)
            /\ l = ((l \div WordBytes) * WordBytes) + (l % WordBytes)
        BY <2>1, <4>1, DivMod
      <4>3. QED
        BY <2>1, <4>2 DEF l
    <3>2. words \in Nat
      BY <2>1, <3>1, Distributes
    <3> HIDE DEF words, over
    <3>3. QED
      BY <2>1, <3>1, <3>2
  <2> HIDE DEF words, over
  <2>3. \A j \in 1..Len(v) : (j <= words => k[j] \in Bytes) /\ (j <= over => k[j] \in Bytes)
    BY <1>1, <2>1, <2>2
  <2>4. \A j \in 1..Len(v) : once[j] \in Bytes
    BY <1>1, <1>2, <2>3
  <2> HIDE DEF once
  <2>5. \A j \in 1..Len(v) : all[j] \in Bytes
    BY <1>2, <2>3, <2>4
  <2>6. all \in Seq(Bytes) /\ Len(all) = Len(v)
    BY <1>1, <2>5
  <2>7. ScheduleKey(v, k) = all
    BY <1>3 DEF ScheduleKey, Mixed, words, over, once
  <2> HIDE DEF all
  <2>8. QED
    BY <1>1, <2>6, <2>7
<1>4. QED
  BY <1>1, <1>3 DEF ScheduleKey

\* The contexts of a stream.
LEMMA RunIs ==
  ASSUME NEW v \in Nonces, NEW k \in Keys \union {None},
         NEW R, R = Contexts(Scheduled(ScheduleKey(v, k)), MaxBytes)
  PROVE  /\ R \in [0..MaxBytes -> Context] /\ R[0] = Scheduled(ScheduleKey(v, k))
         /\ \A a, n \in Nat : a + n <= MaxBytes =>
              \A i \in 0..n : Contexts(R[a], n)[i] = R[a + i]
<1>1. Scheduled(ScheduleKey(v, k)) \in Context /\ MaxBytes \in Nat
  BY ScheduleKeyIs, ScheduledIs, StreamCipherAssumption
<1> DEFINE c == Scheduled(ScheduleKey(v, k))
<1> HIDE DEF c
<1>2. c \in Context /\ R = Contexts(c, MaxBytes)
  BY <1>1 DEF c
<1>3. R \in [0..MaxBytes -> Context] /\ R[0] = c
  BY <1>1, <1>2, ContextsAre
<1>4. ASSUME NEW a \in Nat, NEW n \in Nat, a + n <= MaxBytes
      PROVE  \A i \in 0..n : Contexts(R[a], n)[i] = R[a + i]
  BY <1>1, <1>2, <1>4, ContextsContinue
<1>5. QED
  BY <1>3, <1>4 DEF c

\* What is given out is a byte.
LEMMA ProducedIn ==
  ASSUME NEW c \in Context
  PROVE  Produced(c) \in Bytes
<1>1. c.m \in [Bytes -> Bytes] /\ c.x \in Bytes /\ c.y \in Bytes
  BY DEF Context, Permutations
<1>2. c.m[c.x] \in Nat /\ c.m[c.y] \in Nat
  <2>1. Bytes \subseteq Nat
    BY DEF Bytes
  <2>2. QED
    BY <1>1, <2>1
<1>3. (c.m[c.x] + c.m[c.y]) % Size \in Bytes
  <2>1. c.m[c.x] + c.m[c.y] \in Nat
    BY <1>2
  <2>2. QED
    BY <2>1, ByteOf
<1>4. QED
  BY <1>1, <1>3 DEF Produced

\* No handle.
LEMMA InitArc4Inv == Init => Arc4Inv
  BY StreamCipherAssumption DEF Init, Arc4Inv, TypeInv, RunInv, Offsets, ZeroBlock

\* A new handle, and a handle given back.
LEMMA HandleArc4 ==
  ASSUME IInv, Arc4Inv, InitWithBlockcipher \/ InitArc4 \/ Finish
  PROVE  Arc4Inv'
<1>1. CASE InitWithBlockcipher
  BY <1>1 DEF Arc4Inv, TypeInv, RunInv, InitWithBlockcipher, blockVars
<1>2. CASE InitArc4
  <2>1. passed = <<>> /\ out = <<>> /\ nonce = None
    BY <1>2 DEF IInv, SettingInv, Arc4Inv, TypeInv, InitArc4
  <2>2. QED
    BY <1>2, <2>1 DEF Arc4Inv, TypeInv, RunInv, InitArc4, blockVars
<1>3. CASE Finish
  BY <1>3, StreamCipherAssumption DEF Arc4Inv, TypeInv, RunInv, Finish, Offsets, ZeroBlock
<1>4. QED
  BY <1>1, <1>2, <1>3

\* A nonce begins a run of contexts.
LEMMA SetKeyArc4 ==
  ASSUME IInv, Arc4Inv, NEW k \in Keys \union {None}, NEW v \in Nonces,
         SetBlockKey(k, v) \/ SetArc4Key(k, v)
  PROVE  Arc4Inv'
<1>1. CASE SetBlockKey(k, v)
  BY <1>1 DEF Arc4Inv, TypeInv, RunInv, SetBlockKey
<1>2. CASE SetArc4Key(k, v)
  <2>1. TypeInv'
    BY <1>2 DEF Arc4Inv, TypeInv, SetArc4Key, blockVars
  <2> DEFINE R == Contexts(Scheduled(ScheduleKey(v, k)), MaxBytes)
  <2>2. R[0] = Scheduled(ScheduleKey(v, k))
    BY RunIs
  <2>3. Run' = R /\ ctx' = Scheduled(ScheduleKey(v, k)) /\ out' = <<>>
    BY <1>2 DEF SetArc4Key, Run, ScheduleKey
  <2> HIDE DEF R
  <2>4. RunInv'
    <3>1. Len(out') = 0 /\ MaxBytes \in Nat /\ Run'[0] = ctx'
      BY <2>2, <2>3, StreamCipherAssumption
    <3>2. QED
      BY <3>1 DEF RunInv
  <2>5. QED
    BY <2>1, <2>4 DEF Arc4Inv
<1>3. QED
  BY <1>1, <1>2

\* The buffer keeps its bounds.
LEMMA UpdateBlockArc4 ==
  ASSUME IInv, Arc4Inv, NEW n \in Nat, NEW null \in BOOLEAN, UpdateBlock(n, null)
  PROVE  Arc4Inv'
<1> DEFINE b == Taken(n)  q == (n - b) \div BlockSize  r == (n - b) % BlockSize
           v == IvAfterPartial(n)  s == q * BlockSize
<1>1. /\ b \in 0..n /\ q \in Nat /\ r \in 0..(BlockSize - 1)
      /\ n - b = s + r
      /\ havePartial => b <= partialRemaining
      /\ havePartial /\ ~BlockCompletes(n) => b = n /\ b < partialRemaining
      /\ ~havePartial => b = 0
      /\ BlockCompletes(n) \in BOOLEAN /\ v \in Nat
  BY CallNumbers
<1>2. /\ r > 0 => /\ partialBytes' = r /\ partialRemaining' = BlockSize - r
                  /\ partialBlock' = BegunBlock(n, null)
      /\ ~(r > 0) => /\ partialRemaining' = partialRemaining - b
                     /\ partialBytes' = IF BlockCompletes(n) THEN 0 ELSE partialBytes + b
                     /\ partialBlock' = Joined(n, null)
      /\ backup' = IF r > 0 THEN v + q
                   ELSE IF havePartial /\ ~BlockCompletes(n) THEN iv ELSE backup
      /\ kind = "block" /\ kind' = kind
  BY DEF UpdateBlock
<1>3. /\ BlockSize \in Nat \ {0} /\ iv \in Nat /\ backup \in Nat /\ partialBlock \in [Offsets -> Nat]
      /\ partialBytes \in 0..(BlockSize - 1) /\ partialRemaining \in 0..(BlockSize - 1)
      /\ havePartial \in BOOLEAN
      /\ havePartial => partialBytes + partialRemaining = BlockSize
  BY StreamCipherAssumption DEF IInv, BufferInv, Arc4Inv, TypeInv, Offsets
<1>4. Len(passed) \in Nat
  BY <1>2 DEF IInv, StreamInv
<1>5. BegunBlock(n, null) = [j \in Offsets |-> IF null \/ j >= r THEN 0 ELSE Len(passed) + (n - r) + j + 1]
  BY DEF BegunBlock
<1>6. Joined(n, null) \in [Offsets -> Nat]
  <2> DEFINE J(j) == IF j \in partialBytes..(partialBytes + b - 1)
                     THEN Len(passed) + (j - partialBytes) + 1 ELSE partialBlock[j]
  <2>1. ASSUME NEW j \in Offsets PROVE J(j) \in Nat
    <3>1. partialBlock[j] \in Nat
      BY <1>3
    <3>2. CASE j \in partialBytes..(partialBytes + b - 1)
      <4> DEFINE l == Len(passed)  p == partialBytes
      <4>1. l \in Nat /\ p \in Nat /\ j \in Nat /\ j >= p
        BY <1>3, <1>4, <3>2 DEF Offsets
      <4> HIDE DEF l, p
      <4>2. l + (j - p) + 1 \in Nat
        BY <4>1
      <4>3. QED
        BY <3>2, <4>2 DEF l, p
    <3>3. QED
      BY <3>1, <3>2
  <2>2. CASE null \/ ~havePartial
    BY <1>3, <2>2 DEF Joined
  <2>3. CASE ~(null \/ ~havePartial)
    <3>1. Joined(n, null) = [j \in Offsets |-> J(j)]
      BY <2>3 DEF Joined
    <3> HIDE DEF J
    <3>2. QED
      BY <2>1, <3>1
  <2>4. QED
    BY <2>2, <2>3
<1> HIDE DEF b, q, r, v
<1>7. s \in Nat
  BY <1>1, <1>3, Distributes
<1> HIDE DEF s
<1>8. BegunBlock(n, null) \in [Offsets -> Nat]
  <2>1. n - r \in Nat
    BY <1>1, <1>7
  <2>2. ASSUME NEW j \in Offsets PROVE Len(passed) + (n - r) + j + 1 \in Nat
    BY <1>3, <1>4, <2>1 DEF Offsets
  <2>3. QED
    BY <1>5, <2>2
<1>9. partialBytes' \in 0..(BlockSize - 1) /\ partialRemaining' \in 0..(BlockSize - 1)
  <2>1. CASE r > 0
    BY <1>1, <1>2, <1>3, <2>1
  <2>2. CASE ~(r > 0)
    <3>1. partialBytes + b \in 0..(BlockSize - 1) \/ BlockCompletes(n)
      BY <1>1, <1>3
    <3>2. partialRemaining - b \in 0..(BlockSize - 1)
      BY <1>1, <1>3
    <3>3. QED
      BY <1>2, <1>3, <2>2, <3>1, <3>2
  <2>3. QED
    BY <2>1, <2>2
<1>10. backup' \in Nat
  BY <1>1, <1>2, <1>3
<1>11. TypeInv'
  BY <1>2, <1>6, <1>8, <1>9, <1>10 DEF TypeInv, Offsets
<1>12. RunInv'
  BY <1>2 DEF RunInv
<1>13. QED
  BY <1>11, <1>12 DEF Arc4Inv

\* A call gives the bytes of the contexts that follow.
LEMMA UpdateArc4Run ==
  ASSUME IInv, Arc4Inv, NEW n \in Nat, NEW null \in BOOLEAN, UpdateArc4(n, null)
  PROVE  Arc4Inv'
<1> DEFINE c == Contexts(ctx, n)  i == Passing(n, null)
           o == [k \in 1..n |-> [in |-> i[k], ks |-> Produced(c[k])]]
<1>1. /\ kind = "arc4" /\ nonce # None /\ Len(passed) + n <= MaxBytes
      /\ kind' = kind /\ key' = key /\ nonce' = nonce
      /\ ctx' = c[n] /\ out' = out \o o /\ passed' = passed \o i
  BY DEF UpdateArc4
<1>2. /\ passed \in Seq(Nat) /\ out \in Seq(Given) /\ Len(out) = Len(passed)
      /\ Len(out) \in Nat /\ ctx = Run[Len(out)]
      /\ \A k \in 1..Len(out) : out[k] = [in |-> passed[k], ks |-> Produced(Run[k])]
  BY <1>1 DEF Arc4Inv, TypeInv, RunInv
<1>3. /\ Run \in [0..MaxBytes -> Context]
      /\ \A a, m \in Nat : a + m <= MaxBytes =>
           \A j \in 0..m : Contexts(Run[a], m)[j] = Run[a + j]
  <2>1. nonce \in Nonces /\ key \in Keys \union {None}
    BY <1>1 DEF IInv, SettingInv
  <2>2. QED
    BY <2>1, RunIs DEF Run
<1>4. \A j \in 0..n : c[j] = Run[Len(out) + j]
  BY <1>1, <1>2, <1>3
<1>5. Run' = Run
  BY <1>1 DEF Run
<1>6. i \in Seq(Nat) /\ Len(i) = n /\ \A k \in 1..n : i[k] \in Nat
  BY <1>2 DEF Passing
<1> HIDE DEF i, c
<1>7. \A k \in 1..n : o[k] = [in |-> i[k], ks |-> Produced(Run[Len(out) + k])]
  BY <1>4
<1>8. \A k \in 1..n : o[k] \in Given
  <2> SUFFICES ASSUME NEW k \in 1..n PROVE o[k] \in Given
    OBVIOUS
  <2>1. Len(out) + k \in 0..MaxBytes
    <3> DEFINE l == Len(out)
    <3>1. l \in Nat /\ l + n <= MaxBytes /\ MaxBytes \in Nat
      BY <1>1, <1>2, StreamCipherAssumption
    <3> HIDE DEF l
    <3>2. l + k \in 0..MaxBytes
      BY <3>1
    <3>3. QED
      BY <3>2 DEF l
  <2>2. Produced(Run[Len(out) + k]) \in Bytes
    BY <1>3, <2>1, ProducedIn
  <2>3. QED
    BY <1>6, <1>7, <2>2 DEF Given
<1>9. o \in Seq(Given) /\ Len(o) = n
  BY <1>8
<1> HIDE DEF o
<1>10. /\ out' \in Seq(Given) /\ Len(out') = Len(out) + n
       /\ \A k \in 1..Len(out) : out'[k] = out[k]
       /\ \A k \in 1..n : out'[Len(out) + k] = o[k]
  <2> DEFINE S == Given
  <2>1. out \in Seq(S) /\ o \in Seq(S)
    BY <1>2, <1>9
  <2> HIDE DEF S
  <2>2. /\ out \o o \in Seq(S) /\ Len(out \o o) = Len(out) + Len(o)
        /\ \A k \in 1..Len(out) : (out \o o)[k] = out[k]
        /\ \A k \in 1..Len(o) : (out \o o)[Len(out) + k] = o[k]
    BY <2>1, Appended
  <2>3. QED
    BY <1>1, <1>9, <2>2 DEF S
<1>11. /\ passed' \in Seq(Nat) /\ Len(passed') = Len(passed) + n
       /\ \A k \in 1..Len(passed) : passed'[k] = passed[k]
       /\ \A k \in 1..n : passed'[Len(passed) + k] = i[k]
  <2> DEFINE S == Nat
  <2>1. passed \in Seq(S) /\ i \in Seq(S)
    BY <1>2, <1>6
  <2> HIDE DEF S
  <2>2. /\ passed \o i \in Seq(S) /\ Len(passed \o i) = Len(passed) + Len(i)
        /\ \A k \in 1..Len(passed) : (passed \o i)[k] = passed[k]
        /\ \A k \in 1..Len(i) : (passed \o i)[Len(passed) + k] = i[k]
    BY <2>1, Appended
  <2>3. QED
    BY <1>1, <1>6, <2>2 DEF S
<1>12. TypeInv'
  <2>1. UNCHANGED blockVars
    BY DEF UpdateArc4
  <2>2. QED
    BY <1>1, <1>2, <1>10, <1>11, <2>1 DEF Arc4Inv, TypeInv, blockVars
<1>13. ASSUME NEW k \in 1..Len(out')
       PROVE  out'[k] = [in |-> passed'[k], ks |-> Produced(Run[k])]
  <2>1. CASE k <= Len(out)
    <3>1. k \in 1..Len(out)
      BY <1>2, <1>10, <2>1
    <3>2. QED
      BY <1>2, <1>10, <1>11, <3>1
  <2>2. CASE ~(k <= Len(out))
    <3> DEFINE j == k - Len(out)
    <3>1. j \in 1..n /\ k = Len(out) + j
      BY <1>2, <1>10, <2>2
    <3>2. out'[k] = o[j] /\ passed'[k] = i[j]
      BY <1>2, <1>10, <1>11, <3>1
    <3>3. QED
      BY <1>7, <3>1, <3>2
  <2>3. QED
    BY <2>1, <2>2
<1>14. Len(out') <= MaxBytes /\ ctx' = Run[Len(out')]
  <2>1. Len(out') <= MaxBytes
    BY <1>1, <1>2, <1>10
  <2>2. c[n] = Run[Len(out) + n]
    BY <1>4
  <2>3. QED
    BY <1>1, <1>10, <2>1, <2>2
<1>15. RunInv'
  BY <1>5, <1>13, <1>14 DEF RunInv
<1>16. QED
  BY <1>12, <1>15 DEF Arc4Inv

\* Every step keeps both invariants.
LEMMA NextArc4Inv == IInv /\ Arc4Inv /\ [Next]_vars => Arc4Inv'
<1> SUFFICES ASSUME IInv, Arc4Inv, [Next]_vars PROVE Arc4Inv'
  OBVIOUS
<1>1. CASE InitWithBlockcipher \/ InitArc4 \/ Finish
  BY <1>1, HandleArc4
<1>2. CASE SetKey
  BY <1>2, SetKeyArc4 DEF SetKey
<1>3. CASE Update
  <2>1. PICK n \in 0..MaxBytes, null \in BOOLEAN : UpdateBlock(n, null) \/ UpdateArc4(n, null)
    BY <1>3 DEF Update
  <2>2. n \in Nat
    BY StreamCipherAssumption
  <2>3. QED
    BY <2>1, <2>2, UpdateBlockArc4, UpdateArc4Run
<1>4. CASE UNCHANGED vars
  BY <1>4 DEF Arc4Inv, TypeInv, RunInv, Run, vars, blockVars
<1>5. QED
  BY <1>1, <1>2, <1>3, <1>4 DEF Next

\* An even key is mixed into the nonce byte by byte: the key of the schedule is
\* the one that the definition of the stream asks.
LEMMA MixedWell ==
  ASSUME NEW v \in Nonces, NEW k \in Keys, Even(k)
  PROVE  Mixed(v, k) = [j \in 1..Len(v) |-> IF j <= Len(k) THEN Xor(v[j], k[j]) ELSE v[j]]
<1> DEFINE words == (Len(k) \div WordBytes) * WordBytes  over == Len(k) % WordBytes
<1>1. Len(k) \in Nat /\ WordBytes \in Nat \ {0} /\ Len(v) \in Nat
  BY StreamCipherAssumption, LenProperties
<1>2. (words = Len(k) /\ over = 0) \/ (words = 0 /\ over = Len(k))
  <2>1. Len(k) = words + over /\ over \in Nat /\ words \in Nat
    <3> DEFINE l == Len(k)
    <3>1. l \in Nat
      BY <1>1
    <3> HIDE DEF l
    <3>2. /\ l \div WordBytes \in Nat /\ (l % WordBytes) \in 0..(WordBytes - 1)
          /\ l = ((l \div WordBytes) * WordBytes) + (l % WordBytes)
      BY <1>1, <3>1, DivMod
    <3>3. (l \div WordBytes) * WordBytes \in Nat
      BY <1>1, <3>2, Distributes
    <3>4. QED
      BY <1>1, <3>2, <3>3 DEF l
  <2>2. CASE Len(k) % WordBytes = 0
    <3>1. over = 0
      BY <2>2
    <3> DEFINE l == Len(k)
    <3> HIDE DEF words, over, l
    <3>2. l = words + over /\ over = 0 /\ words \in Nat
      BY <2>1, <3>1 DEF l
    <3>3. words = l
      BY <3>2
    <3>4. QED
      BY <3>1, <3>3 DEF l
  <2>3. CASE Len(k) < WordBytes
    <3>1. over = Len(k)
      BY <1>1, <2>3
    <3> DEFINE l == Len(k)
    <3> HIDE DEF words, over, l
    <3>2. l = words + over /\ over = l /\ over \in Nat /\ words \in Nat
      BY <2>1, <3>1 DEF l
    <3>3. words = 0
      BY <3>2
    <3>4. QED
      BY <3>1, <3>3
  <2>4. QED
    BY <2>2, <2>3 DEF Even
<1>3. Mixed(v, k) =
        [j \in 1..Len(v) |->
          IF j <= over THEN Xor([h \in 1..Len(v) |-> IF h <= words THEN Xor(v[h], k[h]) ELSE v[h]][j], k[j])
          ELSE [h \in 1..Len(v) |-> IF h <= words THEN Xor(v[h], k[h]) ELSE v[h]][j]]
  BY DEF Mixed
<1> HIDE DEF words, over
<1>4. CASE words = Len(k) /\ over = 0
  <2>1. \A j \in 1..Len(v) : ~(j <= over)
    BY <1>4
  <2>2. QED
    BY <1>3, <1>4, <2>1
<1>5. CASE words = 0 /\ over = Len(k)
  <2>1. \A j \in 1..Len(v) : ~(j <= words)
    BY <1>5
  <2>2. QED
    BY <1>3, <1>5, <2>1
<1>6. QED
  BY <1>2, <1>4, <1>5

-----------------------------------------------------------------------------
(* Theorems about both kinds of handle *)

\* The types of the buffer, and the contexts of ARC4 that a stream has gone through.
THEOREM Arc4Invariant == Spec => []Arc4Inv
<1>1. Init => Arc4Inv
  BY InitArc4Inv
<1>2. IInv /\ Arc4Inv /\ [Next]_vars => Arc4Inv'
  BY NextArc4Inv
<1>3. QED
  BY <1>1, <1>2, Invariant, PTL DEF Spec

\* The counters stay in the buffer of k_sc_update, and every swap of ARC4 leaves
\* its table a permutation.
THEOREM Types == Spec => []TypeOK
<1>1. IInv /\ Arc4Inv => TypeOK
  <2> SUFFICES ASSUME IInv, Arc4Inv PROVE TypeOK
    OBVIOUS
  <2>1. /\ kind \in {"none", "block", "arc4"}
        /\ key \in Keys \union {None} /\ nonce \in Nonces \union {None}
        /\ iv \in Nat /\ backup \in Nat
        /\ partialBlock \in [Offsets -> Nat]
        /\ partialBytes \in Offsets /\ partialRemaining \in Offsets
        /\ havePartial \in BOOLEAN
    BY DEF IInv, BufferInv, SettingInv, Arc4Inv, TypeInv
  <2>2. havePartial => partialBytes > 0 /\ partialRemaining = BlockSize - partialBytes
    BY StreamCipherAssumption DEF IInv, BufferInv
  <2>3. ASSUME kind = "arc4", nonce # None
        PROVE  /\ ctx.m \in Permutations(0..(Size - 1))
               /\ ctx.x \in 0..(Size - 1) /\ ctx.y \in 0..(Size - 1)
    <3>1. Run \in [0..MaxBytes -> Context]
      BY <2>1, <2>3, RunIs DEF Run
    <3>2. ctx = Run[Len(out)] /\ Len(out) \in 0..MaxBytes
      <4>1. Len(out) \in Nat /\ Len(out) <= MaxBytes
        BY <2>3 DEF Arc4Inv, TypeInv, RunInv
      <4>2. QED
        BY <2>3, <4>1, StreamCipherAssumption DEF Arc4Inv, RunInv
    <3>3. ctx \in Context
      BY <3>1, <3>2
    <3>4. QED
      BY <3>3 DEF Context, Bytes
  <2>4. passed \in Seq(Nat) /\ Len(out) = Len(passed)
    <3>1. CASE kind = "none"
      BY <3>1 DEF IInv, SettingInv
    <3>2. CASE kind = "block"
      BY <3>2 DEF IInv, StreamInv
    <3>3. CASE kind = "arc4"
      BY <3>3 DEF Arc4Inv, TypeInv
    <3>4. QED
      BY <2>1, <3>1, <3>2, <3>3
  <2>5. QED
    BY <2>1, <2>2, <2>3, <2>4 DEF TypeOK
<1>2. QED
  BY <1>1, Invariant, Arc4Invariant, PTL

\* However k_sc_update is called, the bytes of an ARC4 handle are those of ARC4
\* under the nonce with the key mixed in, while that is an even one; which other
\* keys are set before or after it does not matter.
THEOREM Arc4StreamExact == Spec => []Arc4Stream
<1>1. IInv /\ Arc4Inv => Arc4Stream
  <2> SUFFICES ASSUME IInv, Arc4Inv, kind = "arc4", nonce # None,
                      key # None => Even(key)
               PROVE  \A k \in 1..Len(out) :
                        out[k] = [in |-> passed[k], ks |-> Rc4Keystream(Rc4Key, Len(out))[k]]
    BY DEF Arc4Stream
  <2>1. nonce \in Nonces /\ key \in Keys \union {None}
    BY DEF IInv, SettingInv
  <2>2. Rc4Key = ScheduleKey(nonce, key)
    <3>1. CASE key # None
      <4>1. Mixed(nonce, key) =
              [j \in 1..Len(nonce) |-> IF j <= Len(key) THEN Xor(nonce[j], key[j]) ELSE nonce[j]]
        BY <2>1, <3>1, MixedWell
      <4>2. QED
        BY <3>1, <4>1 DEF Rc4Key, ScheduleKey
    <3>2. CASE key = None
      <4>1. nonce = [j \in 1..Len(nonce) |-> nonce[j]]
        BY <2>1, StreamCipherAssumption
      <4>2. QED
        BY <3>2, <4>1 DEF Rc4Key, ScheduleKey
    <3>3. QED
      BY <3>1, <3>2
  <2> DEFINE s == ScheduleKey(nonce, key)  l == Len(out)
  <2>3. s \in Seq(Bytes) /\ s # <<>>
    BY <2>1, ScheduleKeyIs
  <2>4. l \in Nat /\ l <= MaxBytes /\ MaxBytes \in Nat
        /\ \A k \in 1..l : out[k] = [in |-> passed[k], ks |-> Produced(Run[k])]
    BY StreamCipherAssumption DEF Arc4Inv, TypeInv, RunInv
  <2>5. Run = Contexts(Scheduled(s), MaxBytes)
    BY DEF Run
  <2> HIDE DEF s, l
  <2>6. \A k \in 1..l : Rc4Keystream(s, l)[k] = Produced(Contexts(Scheduled(s), l)[k])
    BY <2>3, <2>4, KeystreamIs
  <2>7. \A k \in 0..l : Contexts(Scheduled(s), l)[k] = Run[k]
    <3>1. Scheduled(s) \in Context
      BY <2>3, ScheduledIs
    <3>2. Run[0] = Scheduled(s)
      BY <2>4, <2>5, <3>1, ContextsAre
    <3>3. \A k \in 0..l : Contexts(Run[0], l)[k] = Run[0 + k]
      BY <2>4, <2>5, <3>1, ContextsContinue
    <3>4. QED
      BY <3>2, <3>3
  <2>8. \A k \in 1..l : out[k] = [in |-> passed[k], ks |-> Rc4Keystream(s, l)[k]]
    BY <2>4, <2>6, <2>7
  <2>9. QED
    BY <2>2, <2>8 DEF s, l
<1>2. QED
  BY <1>1, Invariant, Arc4Invariant, PTL

=============================================================================
