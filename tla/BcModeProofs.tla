---------------------------- MODULE BcModeProofs ----------------------------
(***************************************************************************)
(* The block cipher handle, proved for every cipher, every set of blocks   *)
(* and any number of threads.  Three invariants build on one another:      *)
(*   - the key: the schedule of a handle that has a key is the one that    *)
(*     its mode needs, whichever modes and keys were set before;           *)
(*   - the cut: the jobs of a call tile it, one behind the other, so that  *)
(*     no two workers share a block or an IV;                              *)
(*   - the stream: what has been processed is right, each worker has the   *)
(*     IV for the block it takes next, and the blocks that nobody has      *)
(*     taken are still those of the input.                                 *)
(***************************************************************************)
EXTENDS BcMode, SequenceTheorems, WellFoundedInduction, TLAPS

-----------------------------------------------------------------------------
(* The key *)

\* A key is never kept where there is no mode: a failed k_bcmode_set_mode
\* takes it away, so that KeyFits is about modes that exist.
IInv ==
  /\ mode \in Modes \cup {"none"}
  /\ keytype \in Dirs
  /\ keyed \in BOOLEAN
  /\ keyed => mode # "none"
  /\ KeyFits

\* k_bc_init: no key.
LEMMA InitHolds == Init => IInv
  BY DEF Init, IInv, Modes, Dirs, KeyFits

\* k_bcmode_set_mode has a new mode and no key.
LEMMA SetModeHolds ==
  ASSUME IInv, (\E m \in Modes, t \in Threads \union {1} : SetMode(m, t)) \/ SetModeFail
  PROVE  IInv'
  BY DEF IInv, SetMode, SetModeFail, KeyFits

\* k_bcmode_set_key: the schedule is made for the mode at hand.
LEMMA SetKeyHolds ==
  ASSUME IInv, (\E d \in Dirs : SetKey(d)) \/ SetKeyFail
  PROVE  IInv'
<1>1. CASE SetKeyFail
  BY <1>1 DEF IInv, SetKeyFail, KeyFits, modeVars, Dirs
<1>2. ASSUME NEW d \in Dirs, SetKey(d) PROVE IInv'
  <2>1. mode' = mode /\ mode # "none" /\ keytype' = d /\ keyed' = TRUE
    BY <1>2 DEF SetKey, modeVars
  <2>2. schedule' = IF d = "dec" /\ mode \notin {"cfb", "ofb", "ctr"} THEN "dec" ELSE "enc"
    BY <1>2 DEF SetKey, EncryptTransform
  <2>3. KeyFits'
    BY <2>1, <2>2 DEF KeyFits, Dirs
  <2>4. QED
    BY <2>1, <2>3 DEF IInv
<1>3. QED
  BY <1>1, <1>2

\* No other call touches the key or the mode.
LEMMA OthersKeep ==
  ASSUME IInv, UNCHANGED <<mode, keytype, keyed, schedule>>
  PROVE  IInv'
  BY DEF IInv, KeyFits

\* The invariant of the key: it is set in a mode, and goes with the mode.
THEOREM Invariant == Spec => []IInv
<1>1. ASSUME IInv, [Next]_vars PROVE IInv'
  <2>1. CASE SetUp
    <3>1. CASE (\E m \in Modes, t \in Threads \union {1} : SetMode(m, t)) \/ SetModeFail
      BY <1>1, <3>1, SetModeHolds
    <3>2. CASE (\E d \in Dirs : SetKey(d)) \/ SetKeyFail
      BY <1>1, <3>2, SetKeyHolds
    <3>3. CASE BackupIv \/ RestoreIv \/ \E v \in IVs : SetIv(v)
      BY <1>1, <3>3, OthersKeep DEF BackupIv, RestoreIv, SetIv, modeVars, keyVars
    <3>4. QED
      BY <2>1, <3>1, <3>2, <3>3 DEF SetUp
  <2>2. CASE Update \/ UNCHANGED vars
    BY <1>1, <2>2, OthersKeep
       DEF Update, BeginUpdate, ProcessBlock, EndUpdate, modeVars, keyVars, vars
  <2>3. QED
    BY <1>1, <2>1, <2>2 DEF Next
<1>2. QED
  BY InitHolds, <1>1, PTL DEF Spec

\* While a handle has a key, its key schedule (encrypting or decrypting) is the
\* one that the transform of its mode needs for the direction of the key.
THEOREM KeyIsOfTheMode == Spec => []KeyFits
<1>1. IInv => KeyFits
  BY DEF IInv
<1>2. QED
  BY <1>1, Invariant, PTL

-----------------------------------------------------------------------------
(* How a call is cut into parts *)

\* The order of the numbers, as WellFoundedInduction wants it.
Less == {ss \in Nat \X Nat : ss[1] < ss[2]}

\* A set of numbers has a least one.
LEMMA Least ==
  ASSUME NEW T, T \subseteq Nat, T # {}
  PROVE  \E x \in T : \A y \in T : x <= y
<1>1. IsWellFoundedOn(Less, Nat)
  BY NatLessThanWellFounded DEF OpToRel, Less
<1>2. PICK x \in T : \A y \in T : <<y, x>> \notin Less
  BY <1>1, WFMin
<1>3. ASSUME NEW y \in T PROVE x <= y
  <2>1. ~(y < x)
    BY <1>2 DEF Less
  <2>2. QED
    BY <2>1
<1>4. QED
  BY <1>3

Lesser(a, b) == IF a <= b THEN a ELSE b

\* Division with remainder.
LEMMA Division ==
  ASSUME NEW n \in Nat, NEW t \in Nat \ {0}
  PROVE  /\ n \div t \in Nat /\ n % t \in Nat /\ n % t < t
         /\ n = (t * (n \div t)) + (n % t)
<1> DEFINE a == n % t
           c == t * (n \div t)
<1>1. n \div t \in Nat /\ n % t \in Nat /\ n % t < t
  OBVIOUS
<1>2. a = n - c
  OBVIOUS
<1>3. a \in Int /\ c \in Int
  BY <1>1
<1> HIDE DEF a, c
<1>4. n = c + a
  BY <1>2, <1>3
<1>5. QED
  BY <1>1, <1>4 DEF a, c

\* A further part of q blocks.
LEMMA OneMore ==
  ASSUME NEW w \in Nat \ {0}, NEW q \in Nat
  PROVE  w * q = (w - 1) * q + q /\ (w - 1) * q \in Nat
  OBVIOUS

\* Part w begins behind w parts of the same size and the ones that are left
\* over, of which the first parts get one each.
LEMMA FirstIs ==
  ASSUME NEW n \in Nat, threads \in Nat \ {0}
  PROVE  /\ \A w \in 0..threads :
              FirstOf(n)[w] = w * (n \div threads) + Lesser(w, n % threads)
         /\ \A w \in 1..threads : FirstOf(n)[w] = FirstOf(n)[w - 1] + BlocksOf(n, w - 1)
<1> DEFINE q == n \div threads
           r == n % threads
           F == FirstOf(n)
           G == [w \in 0..threads |-> w * q + Lesser(w, r)]
<1>1. q \in Nat /\ r \in Nat
  BY Division
<1>2. \A w : BlocksOf(n, w) = q + (IF r >= w + 1 THEN 1 ELSE 0)
  BY DEF BlocksOf
<1> HIDE DEF q, r
<1>3. ASSUME NEW w \in 0..threads
      PROVE  w * q + Lesser(w, r)
             = IF w = 0 THEN 0 ELSE G[w - 1] + BlocksOf(n, w - 1)
  <2>1. CASE w = 0
    BY <1>1, <2>1 DEF Lesser
  <2>2. CASE w # 0
    <3>1. w \in Nat \ {0} /\ w - 1 \in 0..threads
      BY <2>2
    <3>2. G[w - 1] = (w - 1) * q + Lesser(w - 1, r)
      BY <3>1
    <3>3. w * q = (w - 1) * q + q /\ (w - 1) * q \in Nat
      BY <1>1, <3>1, OneMore
    <3>4. Lesser(w, r) = Lesser(w - 1, r) + (IF r >= (w - 1) + 1 THEN 1 ELSE 0)
          /\ Lesser(w - 1, r) \in Nat
      BY <1>1, <3>1 DEF Lesser
    <3>5. BlocksOf(n, w - 1) = q + (IF r >= (w - 1) + 1 THEN 1 ELSE 0)
      BY <1>2
    <3> QED
      BY <1>1, <2>2, <3>2, <3>3, <3>4, <3>5
  <2> QED
    BY <2>1, <2>2
<1>4. G = [w \in 0..threads |-> IF w = 0 THEN 0 ELSE G[w - 1] + BlocksOf(n, w - 1)]
  BY <1>3
<1>5. F = CHOOSE f : f = [w \in 0..threads |->
                            IF w = 0 THEN 0 ELSE f[w - 1] + BlocksOf(n, w - 1)]
  BY DEF FirstOf
<1> HIDE DEF F, G
<1>6. F = [w \in 0..threads |-> IF w = 0 THEN 0 ELSE F[w - 1] + BlocksOf(n, w - 1)]
  BY <1>4, <1>5
<1>7. \A w \in 0..threads : F[w] = G[w]
  <2> DEFINE T == {w \in 0..threads : F[w] # G[w]}
  <2>1. SUFFICES ASSUME T # {} PROVE FALSE
    OBVIOUS
  <2>2. T \subseteq Nat
    OBVIOUS
  <2>3. PICK x \in T : \A y \in T : x <= y
    BY <2>1, <2>2, Least
  <2>4. CASE x = 0
    BY <1>4, <1>6, <2>4
  <2>5. CASE x # 0
    <3>1. x \in 0..threads /\ x - 1 \in 0..threads /\ ~(x <= x - 1)
      BY <2>5
    <3>2. F[x - 1] = G[x - 1]
      BY <2>3, <3>1
    <3>3. F[x] = F[x - 1] + BlocksOf(n, x - 1) /\ G[x] = G[x - 1] + BlocksOf(n, x - 1)
      BY <1>4, <1>6, <2>5, <3>1
    <3> QED
      BY <3>2, <3>3
  <2> QED
    BY <2>4, <2>5
<1>8. \A w \in 0..threads : G[w] = w * q + Lesser(w, r)
  BY DEF G
<1>9. \A w \in 1..threads : F[w] = F[w - 1] + BlocksOf(n, w - 1)
  BY <1>6
<1> QED
  BY <1>7, <1>8, <1>9 DEF F, q, r

\* Products grow with their factors.
LEMMA Grows ==
  ASSUME NEW q \in Nat
  PROVE  \A i, j \in Nat : i <= j => i * q <= j * q /\ i * q \in Nat /\ j * q \in Nat
<1>1. TAKE i, j \in Nat
<1>2. HAVE i <= j
<1>3. PICK d \in Nat : j = i + d
  <2>1. j - i \in Nat /\ j = i + (j - i)
    BY <1>2
  <2>2. QED
    BY <2>1
<1>4. j * q = i * q + d * q /\ d * q \in Nat /\ i * q \in Nat
  BY <1>3
<1>5. QED
  BY <1>4

\* What distribute_work relies on: parts begin one behind the other, the first
\* at 0, and the last ends with the call.
LEMMA FirstsGrow ==
  ASSUME NEW n \in Nat, threads \in Nat \ {0}
  PROVE  /\ \A w \in 0..threads : FirstOf(n)[w] \in Nat
         /\ \A v, w \in 0..threads : v <= w => FirstOf(n)[v] <= FirstOf(n)[w]
         /\ FirstOf(n)[0] = 0 /\ FirstOf(n)[threads] = n
<1> DEFINE q == n \div threads
           r == n % threads
           F == FirstOf(n)
<1>1. q \in Nat /\ r \in Nat /\ r < threads /\ n = threads * q + r
  BY Division
<1>2. \A w \in 0..threads : F[w] = w * q + Lesser(w, r)
  BY FirstIs
<1> HIDE DEF q, r, F
<1>3. \A i, j \in Nat : i <= j => i * q <= j * q /\ i * q \in Nat /\ j * q \in Nat
  BY <1>1, Grows
<1>4. \A i, j \in Nat : i <= j => Lesser(i, r) <= Lesser(j, r)
  BY <1>1 DEF Lesser
<1>5. \A i \in Nat : Lesser(i, r) \in Nat
  BY <1>1 DEF Lesser
<1>6. \A w \in 0..threads : F[w] \in Nat
  <2>1. TAKE w \in 0..threads
  <2>2. w \in Nat /\ w * q \in Nat /\ Lesser(w, r) \in Nat
    BY <1>3, <1>5
  <2>3. QED
    BY <1>2, <2>2
<1>7. ASSUME NEW v \in 0..threads, NEW w \in 0..threads, v <= w PROVE F[v] <= F[w]
  <2>1. v \in Nat /\ w \in Nat
    OBVIOUS
  <2>2. v * q <= w * q /\ v * q \in Nat /\ w * q \in Nat
    BY <1>3, <1>7, <2>1
  <2>3. Lesser(v, r) <= Lesser(w, r) /\ Lesser(v, r) \in Nat /\ Lesser(w, r) \in Nat
    BY <1>4, <1>5, <1>7, <2>1
  <2>4. QED
    BY <1>2, <2>2, <2>3
<1>8. F[0] = 0
  <2>1. F[0] = 0 * q + Lesser(0, r) /\ 0 * q = 0 /\ Lesser(0, r) = 0
    BY <1>1, <1>2 DEF Lesser
  <2>2. QED
    BY <2>1
<1>9. F[threads] = n
  BY <1>1, <1>2 DEF Lesser
<1>10. QED
  BY <1>6, <1>7, <1>8, <1>9 DEF F

\* The parts ps cover a call of n blocks, one behind the other.
Tiled(ps, n) ==
  /\ ps \in Seq([first : Nat, n : Nat]) /\ ps # <<>>
  /\ ps[1].first = 0 /\ ps[Len(ps)].first + ps[Len(ps)].n = n
  /\ \A i \in 1..Len(ps) : ps[i].first + ps[i].n <= n
  /\ \A i, j \in 1..Len(ps) :
       i < j => ps[i].first + ps[i].n <= ps[j].first /\ ps[j].first > 0
  /\ \A b \in 1..n : \E i \in 1..Len(ps) :
       ps[i].first < b /\ b <= ps[i].first + ps[i].n

\* A call in the calling thread is a single part.
LEMMA OnePart ==
  ASSUME NEW n \in Nat
  PROVE  Tiled(<<[first |-> 0, n |-> n]>>, n) /\ Len(<<[first |-> 0, n |-> n]>>) = 1
<1> DEFINE ps == <<[first |-> 0, n |-> n]>>
<1>1. ps \in Seq([first : Nat, n : Nat]) /\ Len(ps) = 1 /\ ps[1].first = 0 /\ ps[1].n = n
  OBVIOUS
<1>2. ps # <<>>
  OBVIOUS
<1> HIDE DEF ps
<1>3. QED
  BY <1>1, <1>2 DEF Tiled, ps

\* A call for all threads is cut into as many parts, each behind the last.
LEMMA ManyParts ==
  ASSUME NEW n \in Nat, threads \in Nat \ {0}, n \div threads >= 1
  PROVE  Tiled(Distributed(n), n) /\ Len(Distributed(n)) = threads
<1> DEFINE F == FirstOf(n)
           B(w) == BlocksOf(n, w)
           Used(k) == /\ k = threads \/ F[k] >= n
                      /\ \A j \in 1..(k - 1) : F[j] < n
           used == CHOOSE k \in 1..threads : Used(k)
           ps == [j \in 1..used |-> [first |-> F[j - 1], n |-> B(j - 1)]]
<1>1. \A w \in 0..threads : B(w) \in Nat /\ B(w) >= 1
  <2> DEFINE q == n \div threads
             r == n % threads
  <2>1. q \in Nat /\ r \in Nat /\ q >= 1
    BY Division
  <2>2. \A w : B(w) = q + (IF r >= w + 1 THEN 1 ELSE 0)
    BY DEF BlocksOf
  <2> HIDE DEF q, r, B
  <2>3. QED
    BY <2>1, <2>2
<1>2. /\ \A w \in 0..threads : F[w] \in Nat
      /\ \A v, w \in 0..threads : v <= w => F[v] <= F[w]
      /\ F[0] = 0 /\ F[threads] = n
  BY FirstsGrow
<1>3. \A w \in 1..threads : F[w] = F[w - 1] + B(w - 1)
  BY FirstIs
<1>4. Distributed(n) = ps
  BY DEF Distributed
<1> HIDE DEF F, B
<1>5. \A j \in 1..(threads - 1) : F[j] < n
  <2>1. TAKE j \in 1..(threads - 1)
  <2>2. j \in 0..threads /\ j + 1 \in 1..threads /\ j + 1 \in 0..threads
        /\ threads \in 0..threads /\ j + 1 <= threads /\ (j + 1) - 1 = j
    OBVIOUS
  <2>3. F[j + 1] = F[j] + B(j) /\ F[j + 1] <= F[threads]
    BY <1>2, <1>3, <2>2
  <2>4. F[j] \in Nat /\ B(j) \in Nat /\ B(j) >= 1 /\ F[threads] = n
    BY <1>1, <1>2, <2>2
  <2>5. QED
    BY <2>3, <2>4
<1>6. Used(threads) /\ threads \in 1..threads
  BY <1>5
<1>7. \A k \in 1..threads : Used(k) => k = threads
  <2>1. TAKE k \in 1..threads
  <2>2. HAVE Used(k)
  <2>3. k # threads => F[k] < n /\ F[k] \in Nat
    BY <1>2, <1>5
  <2>4. QED
    BY <2>2, <2>3
<1>8. used = threads
  BY <1>6, <1>7
<1> HIDE DEF used, Used
<1>9. /\ ps \in Seq([first : Nat, n : Nat]) /\ Len(ps) = threads
      /\ \A i \in 1..threads : ps[i].first = F[i - 1] /\ ps[i].n = B(i - 1)
  <2>1. \A j \in 1..threads : [first |-> F[j - 1], n |-> B(j - 1)] \in [first : Nat, n : Nat]
    <3>1. TAKE j \in 1..threads
    <3>2. j - 1 \in 0..threads
      OBVIOUS
    <3>3. QED
      BY <1>1, <1>2, <3>2
  <2>2. QED
    BY <1>8, <2>1
<1> HIDE DEF ps
<1>10. ps # <<>>
  BY <1>9
<1>11. \A i \in 1..threads : ps[i].first + ps[i].n = F[i]
  BY <1>3, <1>9
<1>12. ps[1].first = 0 /\ ps[threads].first + ps[threads].n = n
  <2>1. 1 \in 1..threads /\ threads \in 1..threads /\ 1 - 1 = 0
    OBVIOUS
  <2>2. QED
    BY <1>2, <1>9, <1>11, <2>1
<1>13. \A i \in 1..threads : ps[i].first + ps[i].n <= n
  <2>1. TAKE i \in 1..threads
  <2>2. i \in 0..threads /\ threads \in 0..threads /\ i <= threads
    OBVIOUS
  <2>3. QED
    BY <1>2, <1>11, <2>2
<1>14. ASSUME NEW i \in 1..threads, NEW j \in 1..threads, i < j
       PROVE  ps[i].first + ps[i].n <= ps[j].first /\ ps[j].first > 0
  <2>1. i \in 0..threads /\ j - 1 \in 0..threads /\ i <= j - 1 /\ 1 \in 0..threads
        /\ 1 <= j - 1 /\ 0 \in 0..threads /\ 1 \in 1..threads /\ 1 - 1 = 0
    BY <1>14
  <2>2. F[i] <= F[j - 1] /\ F[1] <= F[j - 1] /\ F[1] = F[0] + B(0)
    BY <1>2, <1>3, <2>1
  <2>3. F[0] = 0 /\ B(0) \in Nat /\ B(0) >= 1 /\ F[1] \in Nat /\ F[j - 1] \in Nat
    BY <1>1, <1>2, <2>1
  <2>4. F[j - 1] > 0
    BY <2>2, <2>3
  <2>5. QED
    BY <1>9, <1>11, <2>2, <2>4
<1>15. ASSUME NEW b \in 1..n
       PROVE  \E i \in 1..threads : ps[i].first < b /\ b <= ps[i].first + ps[i].n
  <2> DEFINE T == {w \in 0..threads : b <= F[w]}
  <2>1. threads \in T /\ T \subseteq Nat
    BY <1>2
  <2>2. PICK x \in T : \A y \in T : x <= y
    BY <2>1, Least
  <2>3. x # 0
    BY <1>2
  <2>4. x \in 1..threads /\ x - 1 \in 0..threads /\ ~(x <= x - 1)
    BY <2>3
  <2>5. F[x - 1] < b
    <3>1. ~(b <= F[x - 1]) /\ F[x - 1] \in Nat
      BY <1>2, <2>2, <2>4
    <3>2. QED
      BY <3>1
  <2>6. QED
    BY <1>9, <1>11, <2>4, <2>5
<1>16. QED
  BY <1>4, <1>9, <1>10, <1>12, <1>13, <1>14, <1>15 DEF Tiled

\* k_bcmode_update cuts a call into parts that tile it; more than one only
\* where the mode can run in parallel, and none at all when the call is large
\* and the mode cannot.
LEMMA Cut ==
  ASSUME NEW n \in Nat, threads \in Nat \ {0}
  PROVE  \/ PartsOf(n) = <<>> /\ Large(n) /\ ~Parallel(mode, keytype)
         \/ /\ Tiled(PartsOf(n), n) /\ Len(PartsOf(n)) <= threads
            /\ Len(PartsOf(n)) > 1 => Parallel(mode, keytype)
<1>1. CASE ~Large(n)
  BY <1>1, OnePart DEF PartsOf
<1>2. CASE Large(n) /\ Parallel(mode, keytype)
  <2>1. n \div threads \in Nat /\ n \div threads >= 1
    BY <1>2, Division, BcModeAssumption DEF Large
  <2>2. QED
    BY <1>2, <2>1, ManyParts DEF PartsOf
<1>3. CASE Large(n) /\ ~Parallel(mode, keytype)
  BY <1>3 DEF PartsOf
<1>4. QED
  BY <1>1, <1>2, <1>3

\* The jobs of a call tile it, and there is more than one only where the mode
\* can run in parallel.
CutInv ==
  /\ threads \in Nat \ {0}
  /\ pc = "run" =>
       \/ parts = <<>> /\ LargeSerial
       \/ /\ Tiled(parts, Len(src)) /\ Len(parts) <= threads
          /\ Len(parts) > 1 => Parallel(mode, keytype)

\* The parts are made when a call begins and stay as they are.
LEMMA CutStep ==
  ASSUME CutInv, [Next]_vars
  PROVE  CutInv'
<1>1. CASE SetUp
  <2>1. pc = "idle" /\ pc' = pc /\ (threads' = threads \/ threads' \in Threads \cup {1})
    BY <1>1 DEF SetUp, SetMode, SetModeFail, SetKeyFail, BackupIv, RestoreIv, SetKey, SetIv,
                callVars, modeVars
  <2>2. Threads \subseteq Nat \ {0}
    BY BcModeAssumption
  <2>3. threads' \in Nat \ {0}
    <3>1. threads \in Nat \ {0}
      BY DEF CutInv
    <3>2. CASE threads' = threads
      BY <3>1, <3>2
    <3>3. CASE threads' \in Threads
      BY <2>2, <3>3
    <3>4. CASE threads' = 1
      BY <3>4
    <3>5. QED
      BY <2>1, <3>2, <3>3, <3>4
  <2>4. QED
    BY <2>1, <2>3 DEF CutInv
<1>2. ASSUME NEW n \in 0..MaxBlocks, NEW h \in {"copy", "inplace", "null"}, BeginUpdate(n, h)
      PROVE  CutInv'
  <2>1. /\ Large(n) /\ ~LargeSerial => Parallel(mode, keytype)
        /\ parts' = PartsOf(n) /\ mode' = mode /\ keytype' = keytype /\ threads' = threads
        /\ n \in Nat
    BY <1>2, BcModeAssumption DEF BeginUpdate, modeVars, keyVars
  <2>2. src' = [j \in 1..n |-> IF h = "null" THEN Zero ELSE Message(Len(inp) + j)]
        /\ Len(src') = n
    BY <1>2, <2>1 DEF BeginUpdate
  <2>3. \/ PartsOf(n) = <<>> /\ Large(n) /\ ~Parallel(mode, keytype)
        \/ /\ Tiled(PartsOf(n), n) /\ Len(PartsOf(n)) <= threads
           /\ Len(PartsOf(n)) > 1 => Parallel(mode, keytype)
    BY <2>1, Cut DEF CutInv
  <2>4. LargeSerial \in BOOLEAN
    BY BcModeAssumption
  <2>5. QED
    BY <2>1, <2>2, <2>3, <2>4 DEF CutInv
<1>3. CASE (\E w \in Workers : ProcessBlock(w)) \/ UNCHANGED vars
  <2>1. UNCHANGED <<threads, pc, parts, src, mode, keytype>>
    BY <1>3 DEF ProcessBlock, modeVars, keyVars, vars
  <2>2. QED
    BY <2>1 DEF CutInv
<1>4. CASE EndUpdate
  BY <1>4 DEF EndUpdate, CutInv, modeVars
<1>5. QED
  BY <1>1, <1>2, <1>3, <1>4 DEF Next, Update

\* The cut of a call, in every state.
THEOREM CutInvariant == Spec => []CutInv
<1>1. Init => CutInv
  BY DEF Init, CutInv
<1>2. QED
  BY <1>1, CutStep, PTL DEF Spec

\* No two workers use the same IV or the same block, for any number of threads
\* and blocks, also where k_bcmode_update is called with a large call in a mode
\* that cannot run in parallel.
THEOREM WorkersDisjoint == Spec => []JobsDisjoint
<1>1. ASSUME CutInv PROVE JobsDisjoint
  <2>1. SUFFICES ASSUME pc = "run", NEW v \in Workers, NEW w \in Workers, v # w
                 PROVE  /\ IvOf(v) # IvOf(w)
                        /\ \/ parts[v + 1].first + parts[v + 1].n <= parts[w + 1].first
                           \/ parts[w + 1].first + parts[w + 1].n <= parts[v + 1].first
    BY DEF JobsDisjoint
  <2>2. parts # <<>>
    <3>1. Len(<<>>) = 0
      OBVIOUS
    <3>2. QED
      BY <3>1, <2>1 DEF Workers
  <2>3. Tiled(parts, Len(src)) /\ (Len(parts) > 1 => Parallel(mode, keytype))
    BY <1>1, <2>1, <2>2 DEF CutInv
  <2>4. Len(parts) \in Nat
    BY <2>3 DEF Tiled
  <2>5. v \in 0..(Len(parts) - 1) /\ w \in 0..(Len(parts) - 1)
    BY <2>1 DEF Workers
  <2>6. v + 1 \in 1..Len(parts) /\ w + 1 \in 1..Len(parts) /\ Len(parts) > 1
        /\ (v + 1 < w + 1 \/ w + 1 < v + 1)
    BY <2>1, <2>4, <2>5
  <2>7. IvOf(v) = v /\ IvOf(w) = w
    BY <2>3, <2>6 DEF Parallel, IvOf
  <2>8. QED
    BY <2>1, <2>3, <2>6, <2>7 DEF Tiled
<1>2. QED
  BY <1>1, CutInvariant, PTL

-----------------------------------------------------------------------------
(* A stream of blocks *)

\* The blocks passed and produced since the IV was set, those of the call that
\* runs behind those of the calls before.
Past   == Len(inp)
In(k)  == IF k <= Past THEN inp[k] ELSE src[k - Past]
Out(k) == IF k <= Past THEN outp[k] ELSE dst[k - Past]

HasIv  == mode \in {"cbc", "cfb", "ofb", "ctr"}
Serial == mode = "ofb" \/ (mode \in {"cbc", "cfb"} /\ keytype = "enc")

\* The IV that block k, from x to o, leaves to the next by the mode's
\* definition, the IV block k is to have, and what the mode makes of a block.
After(k, x, o) ==
  CASE mode = "ctr" -> CtrAdd(iv0, k)
    [] mode = "ofb" -> Xor(o, x)
    [] mode \in {"cbc", "cfb"} -> IF keytype = "enc" THEN o ELSE x
    [] OTHER -> iv0

IvFor(k) == IF k = 1 THEN iv0 ELSE After(k - 1, In(k - 1), Out(k - 1))

Made(v, x) ==
  CASE mode = "ecb" -> IF keytype = "enc" THEN Enc(x) ELSE Dec(x)
    [] mode = "cbc" -> IF keytype = "enc" THEN Enc(Xor(v, x)) ELSE Xor(Dec(x), v)
    [] mode \in {"cfb", "ofb", "ctr"} -> Xor(Enc(v), x)
    [] OTHER -> x

Right(k) == Out(k) = Made(IvFor(k), In(k))

\* The block that worker w takes next, and those that it has taken, by their
\* position in the stream.
NextOf(w)   == Past + parts[w + 1].first + done[w + 1] + 1
Taken(w, k) == Past + parts[w + 1].first < k /\ k < NextOf(w)

\* What the fields of the handle hold in each state.
TypeInv ==
  /\ pc \in {"idle", "run"}
  /\ mode # "none" => ivs \in [0..(threads - 1) -> Blocks]
  /\ iv0 \in Blocks /\ backup \in Blocks
  /\ inp \in Seq(Blocks) /\ outp \in Seq(Blocks) /\ Len(outp) = Len(inp)
  /\ src \in Seq(Blocks) /\ dst \in Seq(Blocks) /\ Len(dst) = Len(src)
  /\ Len(inp) + Len(src) <= MaxBlocks

\* A call that runs has a key, and parts that are under way.
RunInv ==
  /\ pc = "idle" => src = <<>> /\ dst = <<>>
  /\ pc = "run" =>
       /\ keyed /\ parts # <<>>
       /\ done \in [1..Len(parts) -> Nat]
       /\ \A i \in 1..Len(parts) : done[i] <= parts[i].n
       /\ how = "null" =>
            mode \in KeystreamModes /\ \A b \in 1..Len(src) : src[b] = Zero

\* What has been processed is right, and each worker has the IV for the block
\* that it takes next; the blocks that are left are those of the input.
StreamInv ==
  keyed =>
    /\ \A k \in 1..Past : Right(k)
    /\ pc = "idle" /\ HasIv => \A k \in {Past + 1} : ivs[0] = IvFor(k)
    /\ pc = "run" =>
         /\ \A w \in Workers, k \in Nat :
              /\ Taken(w, k) => Right(k)
              /\ HasIv /\ k = NextOf(w) => ivs[IvOf(w)] = IvFor(k)
         /\ how = "inplace" =>
              \A k \in (Past + 1)..(Past + Len(src)) :
                (\A w \in Workers : ~Taken(w, k)) => Out(k) = In(k)

-----------------------------------------------------------------------------
(* One block *)

\* What the definitions are built from yields blocks.
LEMMA Closed ==
  /\ Zero \in Blocks
  /\ \A x, y \in Blocks : Xor(x, y) \in Blocks /\ Xor(Xor(x, y), y) = x
  /\ \A x \in Blocks : Xor(x, Zero) = x
  /\ \A x \in Blocks : Enc(x) \in Blocks /\ Dec(x) \in Blocks
  /\ \A x \in Blocks, n \in 0..MaxBlocks : CtrAdd(x, n) \in Blocks
  BY BcModeAssumption

\* Counters add up.
LEMMA CountersAdd ==
  /\ \A x \in Blocks : CtrAdd(x, 0) = x
  /\ \A x \in Blocks, m, n \in 0..MaxBlocks :
       m + n <= MaxBlocks => CtrAdd(CtrAdd(x, m), n) = CtrAdd(x, m + n)
  BY BcModeAssumption

\* Under the key the cipher's transforms are those of the cipher, in the
\* direction that the mode needs.
LEMMA CipherIs ==
  ASSUME IInv, keyed, NEW x
  PROVE  /\ keytype = "enc" \/ mode \in {"cfb", "ofb", "ctr"} => Encrypt(x) = Enc(x)
         /\ keytype = "dec" /\ mode \notin {"cfb", "ofb", "ctr"} => Decrypt(x) = Dec(x)
  BY DEF IInv, KeyFits, Encrypt, Decrypt, Dirs

\* What a mode makes of a block and the IV it leaves.
LEMMA TransformIs ==
  ASSUME IInv, keyed, MaxBlocks \in Nat, MaxBlocks >= 1, NEW v \in Blocks, NEW x \in Blocks,
         how = "null" => mode \in KeystreamModes /\ x = Zero
  PROVE  LET r == Transform(v, x)
         IN  /\ r.out = Made(v, x) /\ r.out \in Blocks /\ r.iv \in Blocks
             /\ r.iv = CASE mode = "ctr" -> CtrAdd(v, 1)
                         [] mode = "ofb" -> Xor(r.out, x)
                         [] mode \in {"cbc", "cfb"} -> IF keytype = "enc" THEN r.out ELSE x
                         [] OTHER -> v
<1>1. mode \in Modes /\ keytype \in Dirs
  BY DEF IInv
<1>2. CASE mode = "noop"
  BY <1>2 DEF Transform, Noop, Made
<1>3. CASE mode = "ecb"
  BY <1>1, <1>3, CipherIs, Closed DEF Transform, Ecb, Made, Dirs
<1>4. CASE mode = "cbc"
  BY <1>1, <1>4, CipherIs, Closed DEF Transform, Cbc, Chained, Made, Dirs
<1>5. CASE mode = "cfb"
  BY <1>1, <1>5, CipherIs, Closed DEF Transform, Cfb, Chained, Made, Dirs
<1>6. Xored(Enc(v), x) = Xor(Enc(v), x) \/ mode \notin {"ofb", "ctr"}
  BY Closed DEF Xored
<1>7. CASE mode = "ofb"
  BY <1>6, <1>7, CipherIs, Closed DEF Transform, Ofb, Made
<1>8. CASE mode = "ctr"
  <2>1. CtrAdd(v, 1) \in Blocks
    <3>1. 1 \in 0..MaxBlocks
      OBVIOUS
    <3>2. QED
      BY <3>1, Closed
  <2>2. QED
    BY <1>6, <1>8, <2>1, CipherIs, Closed DEF Transform, Ctr, Made
<1>9. QED
  BY <1>1, <1>2, <1>3, <1>4, <1>5, <1>7, <1>8 DEF Modes

-----------------------------------------------------------------------------
(* The workers of a call *)

\* Where the workers of a call are, and which IVs they use.
LEMMA WorkersOfCall ==
  ASSUME CutInv, RunInv, pc = "run", Len(src) \in Nat
  PROVE  /\ Tiled(parts, Len(src)) /\ Len(parts) \in Nat \ {0}
         /\ \A w \in Workers :
              /\ w \in Nat /\ w + 1 \in 1..Len(parts)
              /\ parts[w + 1].first \in Nat /\ parts[w + 1].n \in Nat
              /\ done[w + 1] \in Nat /\ done[w + 1] <= parts[w + 1].n
              /\ parts[w + 1].first + parts[w + 1].n <= Len(src)
              /\ IvOf(w) \in 0..(threads - 1)
         /\ Serial => Len(parts) = 1
         /\ \A u, w \in Workers : u # w => IvOf(u) # IvOf(w) /\ ~Serial
<1>1. /\ Tiled(parts, Len(src)) /\ Len(parts) <= threads
      /\ Len(parts) > 1 => Parallel(mode, keytype)
      /\ threads \in Nat
  BY DEF CutInv, RunInv
<1>2. parts \in Seq([first : Nat, n : Nat]) /\ Len(parts) \in Nat \ {0}
  BY <1>1 DEF Tiled
<1>3. Serial => Len(parts) = 1
  <2>1. Serial => ~Parallel(mode, keytype)
    BY DEF Serial, Parallel
  <2>2. Len(parts) > 1 \/ Len(parts) = 1
    <3>1. \A k \in Nat \ {0} : k > 1 \/ k = 1
      OBVIOUS
    <3>2. QED
      BY <1>2, <3>1
  <2>3. QED
    BY <1>1, <2>1, <2>2
<1>4. ASSUME NEW w \in Workers
      PROVE  /\ w \in Nat /\ w + 1 \in 1..Len(parts)
             /\ parts[w + 1].first \in Nat /\ parts[w + 1].n \in Nat
             /\ done[w + 1] \in Nat /\ done[w + 1] <= parts[w + 1].n
             /\ parts[w + 1].first + parts[w + 1].n <= Len(src)
             /\ IvOf(w) \in 0..(threads - 1)
  <2>1. w \in 0..(Len(parts) - 1)
    BY DEF Workers
  <2>2. w \in Nat /\ w + 1 \in 1..Len(parts) /\ w \in 0..(threads - 1) /\ 0 \in 0..(threads - 1)
    BY <1>1, <1>2, <2>1
  <2>3. parts[w + 1] \in [first : Nat, n : Nat]
    BY <1>2, <2>2, ElementOfSeq
  <2>4. done[w + 1] \in Nat /\ done[w + 1] <= parts[w + 1].n
    BY <2>2 DEF RunInv
  <2>5. parts[w + 1].first + parts[w + 1].n <= Len(src)
    BY <1>1, <2>2 DEF Tiled
  <2>6. IvOf(w) \in 0..(threads - 1)
    BY <2>2 DEF IvOf
  <2>7. QED
    BY <2>2, <2>3, <2>4, <2>5, <2>6
<1>5. ASSUME NEW u \in Workers, NEW w \in Workers, u # w PROVE IvOf(u) # IvOf(w) /\ ~Serial
  <2>1. u + 1 \in 1..Len(parts) /\ w + 1 \in 1..Len(parts) /\ u \in Nat /\ w \in Nat
    BY <1>4
  <2>2. Len(parts) # 1
    <3>1. \A k, i, j \in Nat : i + 1 \in 1..k /\ j + 1 \in 1..k /\ i # j => k # 1
      OBVIOUS
    <3>2. QED
      BY <1>2, <1>5, <2>1, <3>1
  <2>3. ~Serial
    BY <1>3, <2>2
  <2>4. QED
    BY <1>5, <2>3 DEF Serial, IvOf
<1>6. QED
  BY <1>1, <1>2, <1>3, <1>4, <1>5

\* The blocks of two workers are different ones.
LEMMA BlocksApart ==
  ASSUME CutInv, RunInv, pc = "run", Len(src) \in Nat,
         NEW u \in Workers, NEW w \in Workers, u # w, NEW b \in Nat,
         parts[u + 1].first < b, b <= parts[u + 1].first + parts[u + 1].n
  PROVE  ~(parts[w + 1].first < b /\ b <= parts[w + 1].first + parts[w + 1].n)
<1>1. /\ u \in Nat /\ w \in Nat /\ u + 1 \in 1..Len(parts) /\ w + 1 \in 1..Len(parts)
      /\ parts[u + 1].first \in Nat /\ parts[u + 1].n \in Nat
      /\ parts[w + 1].first \in Nat /\ parts[w + 1].n \in Nat
      /\ Tiled(parts, Len(src))
  BY WorkersOfCall
<1>2. u + 1 < w + 1 \/ w + 1 < u + 1
  BY <1>1
<1>3. \/ parts[u + 1].first + parts[u + 1].n <= parts[w + 1].first
      \/ parts[w + 1].first + parts[w + 1].n <= parts[u + 1].first
  BY <1>1, <1>2 DEF Tiled
<1>4. \A f, n, g, m, c \in Nat :
        f < c /\ c <= f + n /\ (f + n <= g \/ g + m <= f) => ~(g < c /\ c <= g + m)
  OBVIOUS
<1>5. QED
  BY <1>1, <1>3, <1>4

\* The block that a worker takes next is one of the call that nobody has taken.
LEMMA NextIs ==
  ASSUME IInv, CutInv, TypeInv, RunInv, StreamInv, pc = "run", NEW w \in Workers,
         done[w + 1] < parts[w + 1].n, NEW k, k = NextOf(w)
  PROVE  /\ Past \in Nat /\ MaxBlocks \in Nat /\ k \in 1..MaxBlocks
         /\ k \in (Past + 1)..(Past + Len(src)) /\ k - Past \in 1..Len(src)
         /\ parts[w + 1].first + done[w + 1] + 1 = k - Past
         /\ \A u \in Workers : ~Taken(u, k)
         /\ ivs[IvOf(w)] \in Blocks /\ src[k - Past] \in Blocks /\ In(k) = src[k - Past]
         /\ how = "inplace" => dst[k - Past] = src[k - Past]
<1>1. Len(src) \in Nat /\ Past \in Nat /\ Past + Len(src) <= MaxBlocks
      /\ src \in Seq(Blocks) /\ MaxBlocks \in Nat
  BY BcModeAssumption DEF TypeInv, Past
<1>2. /\ parts[w + 1].first \in Nat /\ parts[w + 1].n \in Nat /\ done[w + 1] \in Nat
      /\ parts[w + 1].first + parts[w + 1].n <= Len(src) /\ IvOf(w) \in 0..(threads - 1)
  BY <1>1, WorkersOfCall
<1>3. /\ k \in (Past + 1)..(Past + Len(src)) /\ k - Past \in 1..Len(src) /\ k - Past \in Nat
      /\ k \in 1..MaxBlocks
      /\ parts[w + 1].first < k - Past /\ k - Past <= parts[w + 1].first + parts[w + 1].n
      /\ parts[w + 1].first + done[w + 1] + 1 = k - Past
  <2> DEFINE p == Past
             m == Len(src)
             f == parts[w + 1].first
             n == parts[w + 1].n
             d == done[w + 1]
  <2>1. p \in Nat /\ m \in Nat /\ f \in Nat /\ n \in Nat /\ d \in Nat
        /\ d < n /\ f + n <= m /\ p + m <= MaxBlocks /\ MaxBlocks \in Nat
        /\ k = p + f + d + 1
    BY <1>1, <1>2 DEF NextOf
  <2> HIDE DEF p, m, f, n, d
  <2>2. /\ k \in (p + 1)..(p + m) /\ k - p \in 1..m /\ k - p \in Nat
        /\ k \in 1..MaxBlocks
        /\ f < k - p /\ k - p <= f + n /\ f + d + 1 = k - p
    BY <2>1
  <2>3. QED
    BY <2>2 DEF p, m, f, n, d
<1>4. ASSUME NEW u \in Workers PROVE ~Taken(u, k)
  <2>1. /\ parts[u + 1].first \in Nat /\ parts[u + 1].n \in Nat
        /\ done[u + 1] \in Nat /\ done[u + 1] <= parts[u + 1].n
    BY <1>1, WorkersOfCall
  <2>2. CASE u = w
    BY <2>2 DEF Taken, NextOf
  <2>3. CASE u # w
    <3>1. ~(/\ parts[u + 1].first < k - Past
            /\ k - Past <= parts[u + 1].first + parts[u + 1].n)
      BY <1>1, <1>3, <2>3, BlocksApart
    <3>2. \A p, f, n, d, x \in Nat :
            d <= n /\ ~(f < x - p /\ x - p <= f + n) => ~(p + f < x /\ x < p + f + d + 1)
      OBVIOUS
    <3>3. k \in Nat
      BY <1>1, <1>3
    <3>4. QED
      BY <1>1, <2>1, <3>1, <3>2, <3>3 DEF Taken, NextOf
  <2>4. QED
    BY <2>2, <2>3
<1>5. ivs[IvOf(w)] \in Blocks
  <2>1. mode # "none" => ivs \in [0..(threads - 1) -> Blocks]
    BY DEF TypeInv
  <2>2. QED
    BY <1>2, <2>1 DEF IInv, RunInv
<1>6. src[k - Past] \in Blocks
  BY <1>1, <1>3, ElementOfSeq
<1>7. ~(k <= Past)
  BY <1>1, <1>3
<1>8. how = "inplace" => dst[k - Past] = src[k - Past]
  BY <1>3, <1>4, <1>7 DEF StreamInv, RunInv, In, Out
<1>9. QED
  BY <1>1, <1>3, <1>4, <1>5, <1>6, <1>7, <1>8 DEF In

\* How a block's step changes the stream: the k-th block is made, nothing else.
LEMMA StreamAfterBlock ==
  ASSUME TypeInv, NEW k \in (Past + 1)..(Past + Len(src)), NEW o,
         dst' = [dst EXCEPT ![k - Past] = o],
         UNCHANGED <<mode, keytype, iv0, inp, outp, src>>
  PROVE  /\ Past' = Past
         /\ Out(k)' = o
         /\ \A j : In(j)' = In(j)
         /\ \A j \in 1..(Past + Len(src)) : j # k => Out(j)' = Out(j)
         /\ \A j \in 1..(Past + Len(src) + 1) :
              (~Serial \/ j - 1 # k) => IvFor(j)' = IvFor(j)
<1>1. Past \in Nat /\ Len(src) \in Nat /\ Len(dst) = Len(src) /\ dst \in Seq(Blocks)
  BY DEF TypeInv, Past
<1>2. Past' = Past /\ inp' = inp /\ outp' = outp /\ src' = src
  BY DEF Past
<1>3. k - Past \in 1..Len(dst) /\ ~(k <= Past)
  BY <1>1
<1>4. Out(k)' = o
  <2>1. dst'[k - Past] = o
    BY <1>1, <1>3
  <2>2. QED
    BY <1>2, <1>3, <2>1 DEF Out
<1>5. \A j : In(j)' = In(j)
  BY <1>2 DEF In
<1>6. ASSUME NEW j \in 1..(Past + Len(src)), j # k PROVE Out(j)' = Out(j)
  <2>1. CASE j <= Past
    BY <1>2, <2>1 DEF Out
  <2>2. CASE ~(j <= Past)
    <3>1. j - Past \in 1..Len(dst) /\ j - Past # k - Past
      BY <1>1, <1>6, <2>2
    <3>2. dst'[j - Past] = dst[j - Past]
      BY <1>1, <3>1
    <3>3. QED
      BY <1>2, <2>2, <3>2 DEF Out
  <2>3. QED
    BY <2>1, <2>2
<1>7. ASSUME NEW j \in 1..(Past + Len(src) + 1), ~Serial \/ j - 1 # k
      PROVE  IvFor(j)' = IvFor(j)
  <2>1. CASE j = 1
    BY <2>1 DEF IvFor
  <2>2. CASE j # 1
    <3>1. In(j - 1)' = In(j - 1)
      BY <1>5
    <3>2. j - 1 # k => Out(j - 1)' = Out(j - 1)
      <4>1. j - 1 \in 1..(Past + Len(src))
        BY <1>1, <2>2
      <4>2. QED
        BY <1>6, <4>1
    <3>3. CASE j - 1 # k
      BY <2>2, <3>1, <3>2, <3>3 DEF IvFor, After
    <3>4. CASE ~Serial
      BY <2>2, <3>1, <3>4 DEF IvFor, After, Serial
    <3>5. QED
      BY <1>7, <3>3, <3>4
  <2>3. QED
    BY <2>1, <2>2
<1>8. QED
  BY <1>2, <1>4, <1>5, <1>6, <1>7

\* The step of a worker, in the words of the definitions: it takes the block k
\* that is next, with the IV the invariant gives it.
LEMMA BlockFacts ==
  ASSUME IInv, CutInv, TypeInv, RunInv, StreamInv, NEW w \in Workers, ProcessBlock(w)
  PROVE  \E k \in (Past + 1)..(Past + Len(src)), o \in Blocks, i \in Blocks :
           /\ k = NextOf(w) /\ \A u \in Workers : ~Taken(u, k)
           /\ dst' = [dst EXCEPT ![k - Past] = o]
           /\ ivs' = [ivs EXCEPT ![IvOf(w)] = i]
           /\ o = Made(IvFor(k), In(k))
           /\ HasIv => i = After(k, In(k), o)
<1>1. pc = "run" /\ done[w + 1] < parts[w + 1].n /\ keyed
  BY DEF ProcessBlock, RunInv
<1>2. PICK k : k = NextOf(w)
  OBVIOUS
<1>3. /\ Past \in Nat /\ MaxBlocks \in Nat /\ k \in 1..MaxBlocks
      /\ k \in (Past + 1)..(Past + Len(src)) /\ k - Past \in 1..Len(src)
      /\ parts[w + 1].first + done[w + 1] + 1 = k - Past
      /\ \A u \in Workers : ~Taken(u, k)
      /\ ivs[IvOf(w)] \in Blocks /\ src[k - Past] \in Blocks /\ In(k) = src[k - Past]
      /\ how = "inplace" => dst[k - Past] = src[k - Past]
  BY <1>1, <1>2, NextIs
<1>4. PICK v \in Blocks, x \in Blocks : v = ivs[IvOf(w)] /\ x = In(k)
  BY <1>3
<1>5. PICK r : r = Transform(v, x)
  OBVIOUS
<1>6. dst' = [dst EXCEPT ![k - Past] = r.out] /\ ivs' = [ivs EXCEPT ![IvOf(w)] = r.iv]
  <2>1. (IF how = "inplace" THEN dst[k - Past] ELSE src[k - Past]) = x
    BY <1>3, <1>4
  <2>2. QED
    BY <1>3, <1>4, <1>5, <2>1 DEF ProcessBlock
<1>7. /\ r.out = Made(v, x) /\ r.out \in Blocks /\ r.iv \in Blocks
      /\ r.iv = CASE mode = "ctr" -> CtrAdd(v, 1)
                  [] mode = "ofb" -> Xor(r.out, x)
                  [] mode \in {"cbc", "cfb"} -> IF keytype = "enc" THEN r.out ELSE x
                  [] OTHER -> v
  <2>1. how = "null" => mode \in KeystreamModes /\ x = Zero
    BY <1>1, <1>3, <1>4 DEF RunInv
  <2>2. MaxBlocks >= 1
    BY <1>3
  <2>3. QED
    BY <1>1, <1>3, <1>4, <1>5, <2>1, <2>2, TransformIs
<1>8. HasIv => v = IvFor(k)
  BY <1>1, <1>2, <1>3, <1>4 DEF StreamInv
<1>9. Made(v, x) = Made(IvFor(k), x)
  BY <1>8 DEF Made, HasIv
<1>10. HasIv => r.iv = After(k, x, r.out)
  <2>1. CASE mode = "ctr"
    <3>1. v = IF k = 1 THEN iv0 ELSE CtrAdd(iv0, k - 1)
      BY <1>8, <2>1 DEF HasIv, IvFor, After
    <3>2. v = CtrAdd(iv0, k - 1)
      <4>1. iv0 \in Blocks /\ 1 - 1 = 0
        BY DEF TypeInv
      <4>2. QED
        BY <3>1, <4>1, CountersAdd
    <3>3. k - 1 \in 0..MaxBlocks /\ 1 \in 0..MaxBlocks /\ k - 1 + 1 <= MaxBlocks /\ k - 1 + 1 = k
      BY <1>3
    <3>4. CtrAdd(CtrAdd(iv0, k - 1), 1) = CtrAdd(iv0, k - 1 + 1)
      <4>1. iv0 \in Blocks
        BY DEF TypeInv
      <4>2. QED
        BY <3>3, <4>1, CountersAdd
    <3>5. QED
      BY <1>7, <2>1, <3>2, <3>3, <3>4 DEF After
  <2>2. CASE mode # "ctr"
    BY <1>7, <2>2 DEF HasIv, After
  <2>3. QED
    BY <2>1, <2>2
<1>11. QED
  BY <1>2, <1>3, <1>4, <1>6, <1>7, <1>9, <1>10

\* A worker's step keeps what is known of the stream.
LEMMA BlockStep ==
  ASSUME IInv, CutInv, TypeInv, RunInv, StreamInv, NEW w \in Workers, ProcessBlock(w)
  PROVE  TypeInv' /\ RunInv' /\ StreamInv'
<1>1. PICK k \in (Past + 1)..(Past + Len(src)), o \in Blocks, i \in Blocks :
           /\ k = NextOf(w) /\ \A u \in Workers : ~Taken(u, k)
           /\ dst' = [dst EXCEPT ![k - Past] = o]
           /\ ivs' = [ivs EXCEPT ![IvOf(w)] = i]
           /\ o = Made(IvFor(k), In(k))
           /\ HasIv => i = After(k, In(k), o)
  BY BlockFacts
<1>2. /\ UNCHANGED <<mode, threads, keytype, keyed, schedule, backup, pc, how, src, parts, iv0, inp, outp>>
      /\ done' = [done EXCEPT ![w + 1] = @ + 1]
      /\ pc = "run" /\ done[w + 1] < parts[w + 1].n /\ keyed
  BY DEF ProcessBlock, modeVars, keyVars, RunInv
<1>3. /\ Past' = Past
      /\ Out(k)' = o
      /\ \A j : In(j)' = In(j)
      /\ \A j \in 1..(Past + Len(src)) : j # k => Out(j)' = Out(j)
      /\ \A j \in 1..(Past + Len(src) + 1) :
           (~Serial \/ j - 1 # k) => IvFor(j)' = IvFor(j)
  BY <1>1, <1>2, StreamAfterBlock
<1>4. /\ Past \in Nat /\ Len(src) \in Nat /\ dst \in Seq(Blocks) /\ Len(dst) = Len(src)
      /\ k - Past \in 1..Len(dst)
  BY DEF TypeInv, Past
<1>5. /\ Tiled(parts, Len(src)) /\ Len(parts) \in Nat \ {0}
      /\ \A u \in Workers :
           /\ u \in Nat /\ u + 1 \in 1..Len(parts)
           /\ parts[u + 1].first \in Nat /\ parts[u + 1].n \in Nat
           /\ done[u + 1] \in Nat /\ done[u + 1] <= parts[u + 1].n
           /\ parts[u + 1].first + parts[u + 1].n <= Len(src)
           /\ IvOf(u) \in 0..(threads - 1)
      /\ Serial => Len(parts) = 1
      /\ \A u, x \in Workers : u # x => IvOf(u) # IvOf(x) /\ ~Serial
  BY <1>2, <1>4, WorkersOfCall
<1>6. done \in [1..Len(parts) -> Nat] /\ \A j \in 1..Len(parts) : done[j] <= parts[j].n
  BY <1>2 DEF RunInv
<1>7. done' \in [1..Len(parts) -> Nat] /\ \A j \in 1..Len(parts) : done'[j] <= parts[j].n
  <2>1. w + 1 \in 1..Len(parts) /\ done[w + 1] \in Nat /\ parts[w + 1].n \in Nat
    BY <1>5
  <2>2. done[w + 1] + 1 \in Nat /\ done[w + 1] + 1 <= parts[w + 1].n
    BY <1>2, <2>1
  <2>3. QED
    BY <1>2, <1>6, <2>1, <2>2
<1>8. TypeInv'
  <2>1. dst' \in Seq(Blocks) /\ Len(dst') = Len(dst)
    BY <1>1, <1>4, ExceptSeq
  <2>2. mode # "none" => ivs' \in [0..(threads - 1) -> Blocks]
    <3>1. mode # "none" => ivs \in [0..(threads - 1) -> Blocks]
      BY DEF TypeInv
    <3>2. QED
      BY <1>1, <3>1
  <2>3. QED
    BY <1>2, <2>1, <2>2 DEF TypeInv
<1>9. RunInv'
  BY <1>2, <1>7 DEF RunInv
<1>10. \A u \in Workers : IvOf(u)' = IvOf(u)
  BY <1>2 DEF IvOf
<1>11. Workers' = Workers
  BY <1>2 DEF Workers
<1>12. ASSUME NEW u \in Workers, NEW j \in Nat
       PROVE  /\ Taken(u, j)' => Taken(u, j) \/ (u = w /\ j = k)
              /\ Taken(u, j) => Taken(u, j)'
              /\ Taken(w, k)'
              /\ u = w => NextOf(u)' = k + 1
              /\ u # w => NextOf(u)' = NextOf(u)
  <2> DEFINE p == Past
             f(x) == parts[x + 1].first
             d(x) == done[x + 1]
  <2>1. p \in Nat /\ f(u) \in Nat /\ d(u) \in Nat /\ f(w) \in Nat /\ d(w) \in Nat
    BY <1>4, <1>5
  <2>2. /\ u + 1 \in DOMAIN done /\ w + 1 \in DOMAIN done
        /\ u # w => u + 1 # w + 1
    BY <1>5, <1>6
  <2>3. done'[w + 1] = done[w + 1] + 1 /\ (u # w => done'[u + 1] = done[u + 1])
    BY <1>2, <2>2
  <2>4. NextOf(w) = p + f(w) + d(w) + 1 /\ NextOf(u) = p + f(u) + d(u) + 1
    BY DEF NextOf
  <2>5. NextOf(w)' = p + f(w) + (d(w) + 1) + 1 /\ (u # w => NextOf(u)' = p + f(u) + d(u) + 1)
    BY <1>2, <1>3, <2>3 DEF NextOf
  <2>6. Taken(u, j) <=> p + f(u) < j /\ j < NextOf(u)
    BY DEF Taken
  <2>7. /\ Taken(u, j)' <=> p + f(u) < j /\ j < NextOf(u)'
        /\ Taken(w, k)' <=> p + f(w) < k /\ k < NextOf(w)'
    BY <1>2, <1>3 DEF Taken
  <2> HIDE DEF p, f, d
  <2>8. CASE u # w
    BY <1>1, <2>1, <2>4, <2>5, <2>6, <2>7, <2>8
  <2>9. CASE u = w
    BY <1>1, <2>1, <2>4, <2>5, <2>6, <2>7, <2>9
  <2>10. QED
    BY <2>8, <2>9
<1>13. k \in Nat /\ k - 1 # k /\ IvFor(k)' = IvFor(k) /\ In(k)' = In(k)
  <2>1. k \in 1..(Past + Len(src) + 1) /\ k \in Nat /\ k - 1 # k
    BY <1>4
  <2>2. QED
    BY <1>3, <2>1
<1>14. Right(k)'
  <2>1. Made(IvFor(k), In(k))' = Made(IvFor(k), In(k))
    BY <1>2, <1>13 DEF Made
  <2>2. QED
    BY <1>1, <1>3, <2>1 DEF Right
<1>15. ASSUME NEW j \in 1..(Past + Len(src)), j # k, Right(j), ~Serial \/ j - 1 # k
       PROVE  Right(j)'
  <2>1. j \in 1..(Past + Len(src) + 1)
    BY <1>4
  <2>2. IvFor(j)' = IvFor(j) /\ In(j)' = In(j) /\ Out(j)' = Out(j)
    BY <1>3, <1>15, <2>1
  <2>3. Made(IvFor(j), In(j))' = Made(IvFor(j), In(j))
    BY <1>2, <2>2 DEF Made
  <2>4. QED
    BY <1>15, <2>2, <2>3 DEF Right
<1>16. ASSUME NEW j \in 1..Past PROVE Right(j)'
  <2>1. j \in 1..(Past + Len(src)) /\ j # k /\ j - 1 # k
    BY <1>4
  <2>2. Right(j)
    BY <1>2 DEF StreamInv
  <2>3. QED
    BY <1>15, <2>1, <2>2
<1>17. ASSUME NEW u \in Workers, NEW j \in Nat, Taken(u, j)' PROVE Right(j)'
  <2>1. CASE j = k
    BY <1>14, <2>1
  <2>2. CASE j # k
    <3>1. Taken(u, j)
      BY <1>12, <1>17, <2>2
    <3>2. Right(j)
      BY <1>2, <3>1 DEF StreamInv
    <3>3. j \in 1..(Past + Len(src))
      <4> DEFINE p == Past
                 m == Len(src)
                 f == parts[u + 1].first
                 n == parts[u + 1].n
                 d == done[u + 1]
      <4>1. /\ p \in Nat /\ m \in Nat /\ f \in Nat /\ n \in Nat /\ d \in Nat
            /\ d <= n /\ f + n <= m /\ p + f < j /\ j < p + f + d + 1
        BY <1>4, <1>5, <3>1 DEF Taken, NextOf
      <4> HIDE DEF p, m, f, n, d
      <4>2. j \in 1..(p + m)
        BY <4>1
      <4>3. QED
        BY <4>2 DEF p, m
    <3>4. ~Serial \/ j - 1 # k
      <4>1. SUFFICES ASSUME Serial PROVE j - 1 # k
        OBVIOUS
      <4>2. u = w
        BY <1>5, <4>1
      <4>3. j < NextOf(w)
        BY <3>1, <4>2 DEF Taken
      <4>4. QED
        BY <1>1, <1>13, <4>3
    <3>5. QED
      BY <1>15, <2>2, <3>2, <3>3, <3>4
  <2>3. QED
    BY <2>1, <2>2
<1>18. ASSUME HasIv, NEW u \in Workers, NEW j \in Nat, j = NextOf(u)'
       PROVE  (ivs[IvOf(u)] = IvFor(j))'
  <2>1. CASE u = w
    <3>1. j = k + 1
      BY <1>12, <1>18, <2>1
    <3>2. IvFor(j)' = After(k, In(k), o)
      <4>1. j # 1 /\ j - 1 = k
        BY <1>4, <3>1
      <4>2. In(j - 1)' = In(k) /\ Out(j - 1)' = o
        BY <1>3, <4>1
      <4>3. QED
        BY <1>2, <4>1, <4>2 DEF IvFor, After
    <3>3. ivs'[IvOf(w)] = i
      <4>1. ivs \in [0..(threads - 1) -> Blocks] /\ IvOf(w) \in 0..(threads - 1)
        BY <1>5, <1>18 DEF TypeInv, HasIv
      <4>2. QED
        BY <1>1, <4>1
    <3>4. QED
      BY <1>1, <1>10, <1>18, <2>1, <3>2, <3>3
  <2>2. CASE u # w
    <3>1. IvOf(u) # IvOf(w) /\ ~Serial /\ NextOf(u) = j
      BY <1>5, <1>12, <1>18, <2>2
    <3>2. ivs[IvOf(u)] = IvFor(j)
      BY <1>2, <1>18, <3>1 DEF StreamInv
    <3>3. ivs'[IvOf(u)] = ivs[IvOf(u)]
      <4>1. ivs \in [0..(threads - 1) -> Blocks] /\ IvOf(u) \in 0..(threads - 1)
        BY <1>5, <1>18 DEF TypeInv, HasIv
      <4>2. QED
        BY <1>1, <3>1, <4>1
    <3>4. j \in 1..(Past + Len(src) + 1)
      <4> DEFINE p == Past
                 m == Len(src)
                 f == parts[u + 1].first
                 n == parts[u + 1].n
                 d == done[u + 1]
      <4>1. /\ p \in Nat /\ m \in Nat /\ f \in Nat /\ n \in Nat /\ d \in Nat
            /\ d <= n /\ f + n <= m /\ j = p + f + d + 1
        BY <1>4, <1>5, <3>1 DEF NextOf
      <4> HIDE DEF p, m, f, n, d
      <4>2. j \in 1..(p + m + 1)
        BY <4>1
      <4>3. QED
        BY <4>2 DEF p, m
    <3>5. IvFor(j)' = IvFor(j)
      BY <1>3, <3>1, <3>4
    <3>6. QED
      BY <1>10, <3>2, <3>3, <3>5
  <2>3. QED
    BY <2>1, <2>2
<1>19. ASSUME how = "inplace", NEW j \in (Past + 1)..(Past + Len(src)),
              \A u \in Workers : ~Taken(u, j)'
       PROVE  (Out(j) = In(j))'
  <2>1. j \in Nat /\ j \in 1..(Past + Len(src))
    BY <1>4
  <2>2. j # k /\ \A u \in Workers : ~Taken(u, j)
    BY <1>12, <1>19, <2>1
  <2>3. Out(j) = In(j)
    BY <1>2, <1>19, <2>2 DEF StreamInv
  <2>4. QED
    BY <1>3, <2>1, <2>2, <2>3
<1>20. StreamInv'
  <2>1. HasIv' <=> HasIv
    BY <1>2 DEF HasIv
  <2>2. QED
    BY <1>2, <1>3, <1>11, <1>16, <1>17, <1>18, <1>19, <2>1 DEF StreamInv
<1>21. QED
  BY <1>8, <1>9, <1>20

-----------------------------------------------------------------------------
(* A call *)

\* A call has a part.  One that is large enough for all threads, in a mode or a
\* direction that cannot be split, has none (blockcipher.c:471-478).
CallHasPart == pc = "run" => parts # <<>>

\* The blocks a call is made with, and the IVs of its workers, when it begins.
LEMMA BeginTypes ==
  ASSUME IInv, CutInv, TypeInv, RunInv, StreamInv, CallHasPart',
         NEW n \in 0..MaxBlocks, NEW h \in {"copy", "inplace", "null"}, BeginUpdate(n, h)
  PROVE  /\ src' \in Seq(Blocks) /\ dst' \in Seq(Blocks) /\ Len(src') = n /\ Len(dst') = n
         /\ h = "inplace" => dst' = src'
         /\ h = "null" => \A b \in 1..n : src'[b] = Zero
         /\ Tiled(parts', n) /\ Len(parts') <= threads
         /\ Len(parts') > 1 => Parallel(mode, keytype)
<1>1. /\ Len(inp) + n <= MaxBlocks /\ MaxBlocks \in Nat /\ Len(inp) \in Nat /\ n \in Nat
  BY BcModeAssumption DEF BeginUpdate, TypeInv
<1>2. \A j \in 1..n : (IF h = "null" THEN Zero ELSE Message(Len(inp) + j)) \in Blocks
  <2>1. \A k \in 1..MaxBlocks : Message(k) \in Blocks
    BY BcModeAssumption
  <2>2. \A j \in 1..n : Len(inp) + j \in 1..MaxBlocks
    BY <1>1
  <2>3. QED
    BY <2>1, <2>2, Closed
<1>3. src' = [j \in 1..n |-> IF h = "null" THEN Zero ELSE Message(Len(inp) + j)]
      /\ dst' = IF h = "inplace" THEN src' ELSE [j \in 1..n |-> Zero]
  BY DEF BeginUpdate
<1>4. src' \in Seq(Blocks) /\ Len(src') = n
  BY <1>1, <1>2, <1>3
<1>5. dst' \in Seq(Blocks) /\ Len(dst') = n
  <2>1. [j \in 1..n |-> Zero] \in Seq(Blocks) /\ Len([j \in 1..n |-> Zero]) = n
    BY <1>1, Closed
  <2>2. QED
    BY <1>3, <1>4, <2>1
<1>6. CutInv' /\ pc' = "run" /\ mode' = mode /\ keytype' = keytype /\ threads' = threads
  <2>1. [Next]_vars
    BY DEF Next, Update
  <2>2. QED
    BY <2>1, CutStep DEF BeginUpdate, modeVars, keyVars
<1>7. Tiled(parts', n) /\ Len(parts') <= threads /\ (Len(parts') > 1 => Parallel(mode, keytype))
  <2>1. parts' # <<>>
    BY <1>6 DEF CallHasPart
  <2>2. QED
    BY <1>4, <1>6, <2>1 DEF CutInv
<1>8. QED
  BY <1>3, <1>4, <1>5, <1>7

\* mode->prepare_iv: worker u begins with the IV for the first of its blocks.
LEMMA BeginIvs ==
  ASSUME IInv, CutInv, TypeInv, RunInv, StreamInv, CallHasPart',
         NEW n \in 0..MaxBlocks, NEW h \in {"copy", "inplace", "null"}, BeginUpdate(n, h)
  PROVE  /\ ivs' \in [0..(threads - 1) -> Blocks]
         /\ ivs'[0] = ivs[0]
         /\ HasIv => \A u \in 1..(Len(parts') - 1) :
              /\ ivs'[u] = IF mode = "ctr" THEN CtrAdd(ivs[0], parts'[u + 1].first)
                                            ELSE src'[parts'[u + 1].first]
              /\ parts'[u + 1].first \in 1..n
              /\ mode = "ctr" \/ (mode \in {"cbc", "cfb"} /\ keytype = "dec")
<1>1. /\ src' \in Seq(Blocks) /\ Len(src') = n
      /\ Tiled(parts', n) /\ Len(parts') <= threads
      /\ Len(parts') > 1 => Parallel(mode, keytype)
      /\ n \in Nat /\ n <= MaxBlocks /\ MaxBlocks \in Nat /\ threads \in Nat \ {0}
      /\ ivs \in [0..(threads - 1) -> Blocks]
  <2>1. n \in Nat /\ n <= MaxBlocks /\ MaxBlocks \in Nat
    BY BcModeAssumption
  <2>2. QED
    BY <2>1, BeginTypes DEF CutInv, TypeInv, BeginUpdate
<1>2. ivs' = [w \in DOMAIN ivs |->
                IF w = 0 \/ w >= Len(parts') \/ mode \notin IvPrepared THEN ivs[w]
                ELSE IF mode = "ctr" THEN CtrAdd(ivs[0], parts'[w + 1].first)
                                     ELSE src'[parts'[w + 1].first]]
  BY DEF BeginUpdate, PrepareIvs, CounterIv, ChainedIv
<1>3. DOMAIN ivs = 0..(threads - 1) /\ 0 \in DOMAIN ivs /\ Len(parts') \in Nat
      /\ parts' \in Seq([first : Nat, n : Nat])
  BY <1>1 DEF Tiled
<1>4. ASSUME NEW u \in 1..(Len(parts') - 1)
      PROVE  /\ u + 1 \in 1..Len(parts') /\ parts'[u + 1].first \in 1..n
             /\ u \in DOMAIN ivs /\ Parallel(mode, keytype) /\ u # 0 /\ ~(u >= Len(parts'))
  <2>1. u + 1 \in 1..Len(parts') /\ 1 \in 1..Len(parts') /\ 1 < u + 1 /\ Len(parts') > 1
        /\ u \in 0..(threads - 1) /\ u # 0 /\ ~(u >= Len(parts'))
    BY <1>1, <1>3
  <2>2. parts'[u + 1] \in [first : Nat, n : Nat]
    BY <1>3, <2>1, ElementOfSeq
  <2>3. parts'[u + 1].first > 0 /\ parts'[u + 1].first + parts'[u + 1].n <= n
    BY <1>1, <2>1 DEF Tiled
  <2>4. parts'[u + 1].first \in 1..n
    BY <1>1, <2>2, <2>3
  <2>5. QED
    BY <1>1, <1>3, <2>1, <2>4
<1>5. ivs'[0] = ivs[0]
  BY <1>2, <1>3
<1>6. ASSUME HasIv, NEW u \in 1..(Len(parts') - 1)
      PROVE  /\ ivs'[u] = IF mode = "ctr" THEN CtrAdd(ivs[0], parts'[u + 1].first)
                                           ELSE src'[parts'[u + 1].first]
             /\ mode = "ctr" \/ (mode \in {"cbc", "cfb"} /\ keytype = "dec")
  <2>1. mode = "ctr" \/ (mode \in {"cbc", "cfb"} /\ keytype = "dec")
    BY <1>4, <1>6 DEF HasIv, Parallel
  <2>2. mode \in IvPrepared
    BY <2>1 DEF IvPrepared
  <2>3. QED
    BY <1>2, <1>4, <2>1, <2>2
<1>7. ASSUME NEW w \in 0..(threads - 1) PROVE ivs'[w] \in Blocks
  <2>1. CASE w = 0 \/ w >= Len(parts') \/ mode \notin IvPrepared
    BY <1>1, <1>2, <1>3, <2>1
  <2>2. CASE ~(w = 0 \/ w >= Len(parts') \/ mode \notin IvPrepared)
    <3>1. w \in 1..(Len(parts') - 1) /\ HasIv
      BY <1>3, <2>2 DEF IvPrepared, HasIv
    <3>2. parts'[w + 1].first \in 1..n
      BY <1>4, <3>1
    <3>3. src'[parts'[w + 1].first] \in Blocks
      BY <1>1, <3>2, ElementOfSeq
    <3>4. CtrAdd(ivs[0], parts'[w + 1].first) \in Blocks
      <4>1. \A m, N, f : m \in Nat /\ N \in Nat /\ m <= N /\ f \in 1..m => f \in 0..N
        OBVIOUS
      <4>2. parts'[w + 1].first \in 0..MaxBlocks
        BY ONLY <1>1, <3>2, <4>1
      <4>3. ivs[0] \in Blocks
        BY ONLY <1>1, <1>3
      <4>4. QED
        BY <4>2, <4>3, Closed
    <3>5. QED
      BY <1>6, <3>1, <3>3, <3>4
  <2>3. QED
    BY <2>1, <2>2
<1>8. QED
  BY <1>1, <1>2, <1>3, <1>4, <1>5, <1>6, <1>7

\* The beginning of a call keeps what is known of the stream.
LEMMA BeginStep ==
  ASSUME IInv, CutInv, TypeInv, RunInv, StreamInv, CallHasPart',
         NEW n \in 0..MaxBlocks, NEW h \in {"copy", "inplace", "null"}, BeginUpdate(n, h)
  PROVE  TypeInv' /\ RunInv' /\ StreamInv'
<1>1. /\ pc = "idle" /\ keyed /\ Len(inp) + n <= MaxBlocks
      /\ h = "null" => mode \in KeystreamModes
      /\ pc' = "run" /\ how' = h /\ done' = [j \in 1..Len(parts') |-> 0]
      /\ UNCHANGED <<mode, threads, keytype, keyed, schedule, backup, iv0, inp, outp>>
  BY DEF BeginUpdate, modeVars, keyVars
<1>2. /\ src' \in Seq(Blocks) /\ dst' \in Seq(Blocks) /\ Len(src') = n /\ Len(dst') = n
      /\ h = "inplace" => dst' = src'
      /\ h = "null" => \A b \in 1..n : src'[b] = Zero
      /\ Tiled(parts', n) /\ Len(parts') <= threads
      /\ Len(parts') > 1 => Parallel(mode, keytype)
  BY BeginTypes
<1>3. /\ ivs' \in [0..(threads - 1) -> Blocks]
      /\ ivs'[0] = ivs[0]
      /\ HasIv => \A u \in 1..(Len(parts') - 1) :
           /\ ivs'[u] = IF mode = "ctr" THEN CtrAdd(ivs[0], parts'[u + 1].first)
                                        ELSE src'[parts'[u + 1].first]
           /\ parts'[u + 1].first \in 1..n
           /\ mode = "ctr" \/ (mode \in {"cbc", "cfb"} /\ keytype = "dec")
  BY BeginIvs
<1>4. TypeInv'
  BY <1>1, <1>2, <1>3 DEF TypeInv
<1>5. /\ parts' \in Seq([first : Nat, n : Nat]) /\ parts' # <<>> /\ Len(parts') \in Nat
      /\ \A j \in 1..Len(parts') : parts'[j] \in [first : Nat, n : Nat]
      /\ parts'[1].first = 0
  <2>1. parts' \in Seq([first : Nat, n : Nat]) /\ parts' # <<>> /\ parts'[1].first = 0
    BY <1>2 DEF Tiled
  <2>2. ASSUME NEW j \in 1..Len(parts') PROVE parts'[j] \in [first : Nat, n : Nat]
    BY <2>1, ElementOfSeq
  <2>3. QED
    BY <2>1, <2>2
<1>6. RunInv'
  <2>1. done' \in [1..Len(parts') -> Nat] /\ \A j \in 1..Len(parts') : done'[j] <= parts'[j].n
    BY <1>1, <1>5
  <2>2. QED
    BY <1>1, <1>2, <1>5, <2>1 DEF RunInv
<1>7. Past \in Nat /\ Past' = Past /\ n \in Nat /\ Past + n <= MaxBlocks /\ MaxBlocks \in Nat
  BY <1>1, BcModeAssumption DEF Past, TypeInv
<1>8. \A k \in 1..Past : In(k)' = In(k) /\ Out(k)' = Out(k)
  BY <1>1, <1>7 DEF In, Out
<1>9. ASSUME NEW k \in 1..(Past + 1) PROVE IvFor(k)' = IvFor(k)
  <2>1. CASE k = 1
    BY <1>1, <2>1 DEF IvFor
  <2>2. CASE k # 1
    <3>1. k - 1 \in 1..Past
      BY <1>7, <2>2
    <3>2. In(k - 1)' = In(k - 1) /\ Out(k - 1)' = Out(k - 1)
      BY <1>8, <3>1
    <3>3. QED
      BY <1>1, <2>2, <3>2 DEF IvFor, After
  <2>3. QED
    BY <2>1, <2>2
<1>10. ASSUME NEW k \in 1..Past PROVE Right(k)'
  <2>1. k \in 1..(Past + 1)
    BY <1>7
  <2>2. IvFor(k)' = IvFor(k) /\ In(k)' = In(k) /\ Out(k)' = Out(k)
    BY <1>8, <1>9, <2>1
  <2>3. Right(k)
    BY <1>1 DEF StreamInv
  <2>4. QED
    BY <1>1, <2>2, <2>3 DEF Right, Made
<1>11. ASSUME NEW u, u \in Workers'
       PROVE  /\ u \in Nat /\ u + 1 \in 1..Len(parts')
              /\ parts'[u + 1].first \in Nat /\ done'[u + 1] = 0
  <2>1. u \in 0..(Len(parts') - 1)
    BY <1>11 DEF Workers
  <2>2. u \in Nat /\ u + 1 \in 1..Len(parts')
    BY <1>5, <2>1
  <2>3. QED
    BY <1>1, <1>5, <2>2
<1>12. ASSUME NEW u, u \in Workers', NEW k \in Nat PROVE ~Taken(u, k)'
  <2> DEFINE f == parts'[u + 1].first
  <2>1. Taken(u, k)' <=> Past + f < k /\ k < Past + f + 0 + 1
    BY <1>7, <1>11, <1>12 DEF Taken, NextOf
  <2>2. f \in Nat
    BY <1>11, <1>12
  <2> HIDE DEF f
  <2>3. QED
    BY <1>7, <2>1, <2>2
<1>13. ASSUME HasIv, NEW u, u \in Workers', NEW k \in Nat, k = NextOf(u)'
       PROVE  (ivs[IvOf(u)] = IvFor(k))'
  <2>1. k = Past + parts'[u + 1].first + 0 + 1
    BY <1>7, <1>11, <1>13 DEF NextOf
  <2>2. ivs[0] = IvFor(Past + 1)
    BY <1>1, <1>13 DEF StreamInv
  <2>3. CASE u = 0
    <3>1. k = Past + 1 /\ k \in 1..(Past + 1)
      BY <1>5, <1>7, <2>1, <2>3
    <3>2. IvOf(u)' = 0
      BY <2>3 DEF IvOf
    <3>3. QED
      BY <1>3, <1>9, <2>2, <3>1, <3>2
  <2>4. CASE u # 0
    <3>1. u \in 1..(Len(parts') - 1)
      BY <1>5, <1>11, <1>13, <2>4
    <3>2. /\ ivs'[u] = IF mode = "ctr" THEN CtrAdd(ivs[0], parts'[u + 1].first)
                                       ELSE src'[parts'[u + 1].first]
          /\ parts'[u + 1].first \in 1..n
          /\ mode = "ctr" \/ (mode \in {"cbc", "cfb"} /\ keytype = "dec")
      BY <1>3, <1>13, <3>1
    <3>3. IvOf(u)' = u
      BY <1>1, <3>2 DEF IvOf
    <3>4. PICK f \in 1..n : f = parts'[u + 1].first
      BY <3>2
    <3>5. k = Past + f + 1 /\ k # 1 /\ k - 1 = Past + f /\ ~(k - 1 <= Past)
          /\ (k - 1) - Past = f /\ f \in 0..MaxBlocks /\ Past \in 0..MaxBlocks
          /\ Past + f <= MaxBlocks
      BY <1>7, <2>1, <3>4
    <3>6. CASE mode = "ctr"
      <4>1. IvFor(k)' = CtrAdd(iv0, Past + f)
        BY <1>1, <3>5, <3>6 DEF IvFor, After
      <4>2. ivs[0] = CtrAdd(iv0, Past)
        <5>1. iv0 \in Blocks
          BY DEF TypeInv
        <5>2. IvFor(Past + 1) = IF Past = 0 THEN iv0 ELSE CtrAdd(iv0, Past)
          <6>1. PICK q : q = Past + 1
            OBVIOUS
          <6>2. IvFor(q) = IF q = 1 THEN iv0 ELSE CtrAdd(iv0, q - 1)
            BY <3>6 DEF IvFor, After
          <6>3. (q = 1 <=> Past = 0) /\ q - 1 = Past
            BY <1>7, <6>1
          <6>4. QED
            BY <6>1, <6>2, <6>3
        <5>3. QED
          BY <2>2, <5>1, <5>2, CountersAdd
      <4>3. CtrAdd(CtrAdd(iv0, Past), f) = CtrAdd(iv0, Past + f)
        <5>1. iv0 \in Blocks
          BY DEF TypeInv
        <5>2. QED
          BY <3>5, <5>1, CountersAdd
      <4>4. QED
        BY <3>2, <3>3, <3>4, <3>6, <4>1, <4>2, <4>3
    <3>7. CASE mode \in {"cbc", "cfb"} /\ keytype = "dec"
      <4>1. IvFor(k)' = In(k - 1)'
        BY <1>1, <3>5, <3>7 DEF IvFor, After
      <4>2. In(k - 1)' = src'[f]
        BY <1>7, <3>5 DEF In
      <4>3. QED
        BY <3>2, <3>3, <3>4, <3>7, <4>1, <4>2
    <3>8. QED
      BY <3>2, <3>6, <3>7
  <2>5. QED
    BY <2>3, <2>4
<1>14. ASSUME h = "inplace", NEW k \in (Past + 1)..(Past + n) PROVE (Out(k) = In(k))'
  <2>1. ~(k <= Past)
    BY <1>7
  <2>2. QED
    BY <1>2, <1>7, <1>14, <2>1 DEF In, Out
<1>15. StreamInv'
  <2>1. HasIv' <=> HasIv
    BY <1>1 DEF HasIv
  <2>2. QED
    BY <1>1, <1>2, <1>7, <1>10, <1>12, <1>13, <1>14, <2>1 DEF StreamInv
<1>16. QED
  BY <1>4, <1>6, <1>15

\* All workers have come to the end of their parts, which cover the call.
LEMMA AllTaken ==
  ASSUME IInv, CutInv, TypeInv, RunInv, StreamInv, EndUpdate
  PROVE  /\ \A k \in 1..(Past + Len(src)) : Right(k)
         /\ HasIv => \A k \in {Past + Len(src) + 1} : (IF Len(parts) > 1 /\ mode \in IvPrepared
                       THEN ivs[Len(parts) - 1] ELSE ivs[0]) = IvFor(k)
<1>1. /\ pc = "run" /\ keyed /\ \A w \in Workers : done[w + 1] = parts[w + 1].n
      /\ Past \in Nat /\ Len(src) \in Nat
  BY DEF EndUpdate, RunInv, TypeInv, Past
<1>2. /\ Tiled(parts, Len(src)) /\ Len(parts) \in Nat \ {0}
      /\ \A w \in Workers :
           /\ w \in Nat /\ w + 1 \in 1..Len(parts)
           /\ parts[w + 1].first \in Nat /\ parts[w + 1].n \in Nat
      /\ Serial => Len(parts) = 1
  BY <1>1, WorkersOfCall
<1>3. ASSUME NEW i \in 1..Len(parts) PROVE i - 1 \in Workers /\ i - 1 + 1 = i
  BY <1>2 DEF Workers
<1>4. ASSUME NEW k \in (Past + 1)..(Past + Len(src)) PROVE Right(k)
  <2>1. k - Past \in 1..Len(src) /\ k \in Nat /\ k - Past \in Nat
    BY <1>1
  <2>2. PICK i \in 1..Len(parts) : parts[i].first < k - Past /\ k - Past <= parts[i].first + parts[i].n
    BY <1>2, <2>1 DEF Tiled
  <2>3. PICK w \in Workers : w + 1 = i
    BY <1>3
  <2>4. Taken(w, k)
    <3> DEFINE p == Past
               f == parts[w + 1].first
               n == parts[w + 1].n
    <3>1. p \in Nat /\ f \in Nat /\ n \in Nat /\ k \in Nat /\ f < k - p /\ k - p <= f + n
      BY <1>1, <1>2, <2>1, <2>2, <2>3
    <3>2. Taken(w, k) <=> p + f < k /\ k < p + f + n + 1
      BY <1>1 DEF Taken, NextOf
    <3> HIDE DEF p, f, n
    <3>3. QED
      BY <3>1, <3>2
  <2>5. QED
    BY <1>1, <2>1, <2>4 DEF StreamInv
<1>5. ASSUME NEW k \in 1..(Past + Len(src)) PROVE Right(k)
  <2>1. k \in 1..Past \/ k \in (Past + 1)..(Past + Len(src))
    BY <1>1
  <2>2. QED
    BY <1>1, <1>4, <2>1 DEF StreamInv
<1>6. ASSUME HasIv, NEW k, k = Past + Len(src) + 1
      PROVE  (IF Len(parts) > 1 /\ mode \in IvPrepared THEN ivs[Len(parts) - 1] ELSE ivs[0]) = IvFor(k)
  <2>1. PICK w \in Workers : w + 1 = Len(parts) /\ w = Len(parts) - 1
    <3>1. Len(parts) \in 1..Len(parts)
      BY <1>2
    <3>2. QED
      BY <1>3, <3>1
  <2>2. k = NextOf(w) /\ k \in Nat
    <3> DEFINE p == Past
               f == parts[w + 1].first
               n == parts[w + 1].n
    <3>1. p \in Nat /\ f \in Nat /\ n \in Nat /\ Len(src) = f + n /\ k = p + Len(src) + 1
      BY <1>1, <1>2, <1>6, <2>1 DEF Tiled
    <3>2. NextOf(w) = p + f + n + 1
      BY <1>1 DEF NextOf
    <3> HIDE DEF p, f, n
    <3>3. QED
      BY <3>1, <3>2
  <2>3. ivs[IvOf(w)] = IvFor(k)
    BY <1>1, <1>6, <2>2 DEF StreamInv
  <2>4. CASE Len(parts) = 1
    <3>1. w = 0 /\ ~(Len(parts) > 1)
      BY <2>1, <2>4
    <3>2. QED
      BY <2>3, <3>1 DEF IvOf
  <2>5. CASE Len(parts) # 1
    <3>1. ~Serial
      BY <1>2, <2>5
    <3>2. Len(parts) > 1
      <4>1. \A m \in Nat \ {0} : m # 1 => m > 1
        OBVIOUS
      <4>2. QED
        BY <1>2, <2>5, <4>1
    <3>3. mode \in IvPrepared /\ IvOf(w) = w
      BY <1>6, <3>1 DEF HasIv, Serial, IvPrepared, IvOf
    <3>4. QED
      BY <2>1, <2>3, <3>2, <3>3
  <2>6. QED
    BY <2>4, <2>5
<1>7. QED
  BY <1>5, <1>6

\* The end of a call: its blocks are part of the stream, and the first IV is
\* the one for the block behind it.
LEMMA EndStep ==
  ASSUME IInv, CutInv, TypeInv, RunInv, StreamInv, EndUpdate
  PROVE  TypeInv' /\ RunInv' /\ StreamInv'
<1>1. /\ pc = "run" /\ keyed /\ pc' = "idle" /\ LastIv
      /\ inp' = inp \o src /\ outp' = outp \o dst /\ src' = <<>> /\ dst' = <<>>
      /\ UNCHANGED <<mode, threads, keytype, keyed, schedule, backup, iv0>>
  BY DEF EndUpdate, RunInv, modeVars, keyVars
<1>2. /\ inp \in Seq(Blocks) /\ outp \in Seq(Blocks) /\ Len(outp) = Len(inp)
      /\ src \in Seq(Blocks) /\ dst \in Seq(Blocks) /\ Len(dst) = Len(src)
      /\ Len(inp) \in Nat /\ Len(src) \in Nat /\ Past = Len(inp)
      /\ Past + Len(src) <= MaxBlocks
      /\ ivs \in [0..(threads - 1) -> Blocks] /\ threads \in Nat \ {0}
  BY <1>1 DEF TypeInv, Past, IInv, CutInv
<1>3. /\ inp' \in Seq(Blocks) /\ Len(inp') = Past + Len(src)
      /\ outp' \in Seq(Blocks) /\ Len(outp') = Past + Len(src)
      /\ \A k \in 1..(Past + Len(src)) : inp'[k] = In(k) /\ outp'[k] = Out(k)
  <2>1. inp' \in Seq(Blocks) /\ Len(inp') = Past + Len(src)
        /\ outp' \in Seq(Blocks) /\ Len(outp') = Past + Len(src)
    <3>1. inp \o src \in Seq(Blocks) /\ Len(inp \o src) = Len(inp) + Len(src)
      BY <1>2, ConcatProperties
    <3>2. outp \o dst \in Seq(Blocks) /\ Len(outp \o dst) = Len(outp) + Len(dst)
      BY <1>2, ConcatProperties
    <3>3. QED
      BY <1>1, <1>2, <3>1, <3>2
  <2>2. ASSUME NEW k \in 1..(Past + Len(src)) PROVE inp'[k] = In(k) /\ outp'[k] = Out(k)
    <3>1. k \in 1..(Len(inp) + Len(src)) /\ k \in 1..(Len(outp) + Len(dst))
      BY <1>2
    <3>2. inp'[k] = IF k <= Len(inp) THEN inp[k] ELSE src[k - Len(inp)]
      <4>1. (inp \o src)[k] = IF k <= Len(inp) THEN inp[k] ELSE src[k - Len(inp)]
        BY <1>2, <3>1, ConcatProperties
      <4>2. QED
        BY <1>1, <4>1
    <3>3. outp'[k] = IF k <= Len(outp) THEN outp[k] ELSE dst[k - Len(outp)]
      <4>1. (outp \o dst)[k] = IF k <= Len(outp) THEN outp[k] ELSE dst[k - Len(outp)]
        BY <1>2, <3>1, ConcatProperties
      <4>2. QED
        BY <1>1, <4>1
    <3>4. QED
      BY <1>2, <3>2, <3>3 DEF In, Out
  <2>3. QED
    BY <2>1, <2>2
<1>4. Past' = Past + Len(src)
  BY <1>3 DEF Past
<1>5. PICK e \in Nat : e = Past + Len(src)
  BY <1>2
<1>6. ASSUME NEW k \in 1..e PROVE In(k)' = In(k) /\ Out(k)' = Out(k)
  <2>1. k <= Past'
    BY <1>4, <1>5
  <2>2. QED
    BY <1>3, <1>5, <2>1 DEF In, Out
<1>7. ASSUME NEW k \in 1..(e + 1) PROVE IvFor(k)' = IvFor(k)
  <2>1. CASE k = 1
    BY <1>1, <2>1 DEF IvFor
  <2>2. CASE k # 1
    <3>1. k - 1 \in 1..e
      BY <2>2
    <3>2. In(k - 1)' = In(k - 1) /\ Out(k - 1)' = Out(k - 1)
      BY <1>6, <3>1
    <3>3. QED
      BY <1>1, <2>2, <3>2 DEF IvFor, After
  <2>3. QED
    BY <2>1, <2>2
<1>8. ASSUME NEW k \in 1..e PROVE Right(k)'
  <2>1. k \in 1..(e + 1)
    OBVIOUS
  <2>2. Right(k)
    BY <1>5, AllTaken
  <2>3. IvFor(k)' = IvFor(k) /\ In(k)' = In(k) /\ Out(k)' = Out(k)
    BY <1>6, <1>7, <2>1
  <2>4. QED
    BY <1>1, <2>2, <2>3 DEF Right, Made
<1>9. ivs' = IF Len(parts) > 1 /\ mode \in IvPrepared
             THEN [ivs EXCEPT ![0] = ivs[Len(parts) - 1]] ELSE ivs
  BY <1>1 DEF LastIv
<1>10. ivs' \in [0..(threads - 1) -> Blocks]
  <2>1. CASE Len(parts) > 1 /\ mode \in IvPrepared
    <3>1. Len(parts) <= threads /\ Len(parts) \in Nat
      BY <1>1 DEF CutInv, RunInv, Tiled
    <3>2. Len(parts) - 1 \in 0..(threads - 1)
      BY <1>2, <2>1, <3>1
    <3>3. QED
      BY <1>2, <1>9, <2>1, <3>2
  <2>2. CASE ~(Len(parts) > 1 /\ mode \in IvPrepared)
    BY <1>2, <1>9, <2>2
  <2>3. QED
    BY <2>1, <2>2
<1>11. TypeInv'
  BY <1>1, <1>2, <1>3, <1>10 DEF TypeInv
<1>12. RunInv'
  BY <1>1 DEF RunInv
<1>13. ASSUME HasIv, NEW k, k = e + 1 PROVE ivs'[0] = IvFor(k)'
  <2>1. k \in 1..(e + 1) /\ 0 \in DOMAIN ivs
    BY <1>2, <1>13
  <2>2. ivs'[0] = IF Len(parts) > 1 /\ mode \in IvPrepared THEN ivs[Len(parts) - 1] ELSE ivs[0]
    BY <1>2, <1>9, <2>1
  <2>3. QED
    BY <1>5, <1>7, <1>13, <2>1, <2>2, AllTaken
<1>14. StreamInv'
  <2>1. (HasIv' <=> HasIv) /\ Past' = e
    BY <1>1, <1>4, <1>5 DEF HasIv
  <2>2. QED
    BY <1>1, <1>8, <1>13, <2>1 DEF StreamInv
<1>15. QED
  BY <1>11, <1>12, <1>14

-----------------------------------------------------------------------------
(* Every step *)

\* Modes, keys and IVs are set between two calls, and begin a stream.
LEMMA SetUpStep ==
  ASSUME IInv, CutInv, TypeInv, RunInv, StreamInv, SetUp
  PROVE  TypeInv' /\ RunInv' /\ StreamInv'
<1>1. pc = "idle" /\ UNCHANGED callVars /\ src = <<>> /\ dst = <<>>
  BY DEF SetUp, SetMode, SetModeFail, SetKeyFail, BackupIv, RestoreIv, SetKey, SetIv, RunInv
<1>2. RunInv'
  BY <1>1 DEF RunInv, callVars
<1>3. MaxBlocks \in Nat /\ Zero \in Blocks /\ IVs \subseteq Blocks
      /\ <<>> \in Seq(Blocks) /\ Len(<<>>) = 0 /\ threads \in Nat \ {0}
  BY BcModeAssumption DEF CutInv
<1>4. /\ mode # "none" => ivs \in [0..(threads - 1) -> Blocks] /\ ivs[0] \in Blocks
      /\ iv0 \in Blocks /\ backup \in Blocks
  <2>1. 0 \in 0..(threads - 1)
    BY <1>3
  <2>2. QED
    BY <2>1 DEF TypeInv
<1>5. CASE (\E m \in Modes, n \in Threads \union {1} : SetMode(m, n)) \/ SetModeFail
  <2>1. /\ iv0' = Zero /\ backup' = Zero /\ inp' = <<>> /\ outp' = <<>> /\ keyed' = FALSE
        /\ UNCHANGED <<pc, src, dst>>
    BY <1>5 DEF SetMode, SetModeFail, NewStream, callVars
  <2>2. mode' # "none" => ivs' \in [0..(threads' - 1) -> Blocks]
    BY <1>3, <1>5 DEF SetMode, SetModeFail, NewIvs
  <2>3. TypeInv'
    BY <1>1, <1>3, <2>1, <2>2 DEF TypeInv
  <2>4. StreamInv'
    BY <2>1 DEF StreamInv
  <2>5. QED
    BY <1>2, <2>3, <2>4
<1>6. CASE SetKeyFail
  <2>1. /\ keyed' = FALSE
        /\ UNCHANGED <<mode, threads, ivs, backup, pc, src, dst, iv0, inp, outp>>
    BY <1>6 DEF SetKeyFail, callVars, modeVars
  <2>2. QED
    BY <1>2, <2>1 DEF TypeInv, StreamInv
<1>7. CASE BackupIv
  <2>1. /\ backup' = ivs[0] /\ mode # "none"
        /\ UNCHANGED <<mode, threads, keyed, keytype, ivs, pc, how, src, dst, parts, done, iv0, inp, outp>>
    BY <1>7 DEF BackupIv, callVars, modeVars, keyVars
  <2>2. TypeInv'
    BY <1>4, <2>1 DEF TypeInv
  <2>3. StreamInv'
    <3>1. Past' = Past /\ HasIv' = HasIv /\ pc' = "idle"
      BY <1>1, <2>1 DEF Past, HasIv
    <3>2. \A k : In(k)' = In(k) /\ Out(k)' = Out(k)
      BY <2>1, <3>1 DEF In, Out
    <3>3. \A k : IvFor(k)' = IvFor(k)
      BY <2>1, <3>2 DEF IvFor, After
    <3>4. \A k : Right(k)' = Right(k)
      BY <2>1, <3>2, <3>3 DEF Right, Made
    <3>5. QED
      BY <1>1, <2>1, <3>1, <3>3, <3>4 DEF StreamInv
  <2>4. QED
    BY <1>2, <2>2, <2>3
<1>8. ASSUME NEW v \in Blocks, NewStream(v), mode # "none", mode' = mode, threads' = threads,
             ivs' \in [0..(threads - 1) -> Blocks], ivs'[0] = v, backup' = backup
      PROVE  TypeInv' /\ StreamInv'
  <2>1. /\ iv0' = v /\ inp' = <<>> /\ outp' = <<>> /\ UNCHANGED <<pc, src, dst>>
    BY <1>1, <1>8 DEF NewStream, callVars
  <2>2. TypeInv'
    BY <1>1, <1>3, <1>4, <1>8, <2>1 DEF TypeInv
  <2>3. Past' = 0 /\ pc' = "idle"
    BY <1>1, <1>3, <2>1 DEF Past
  <2>4. \A k \in {1} : IvFor(k)' = v
    BY <2>1 DEF IvFor
  <2>5. StreamInv'
    BY <1>8, <2>3, <2>4 DEF StreamInv
  <2>6. QED
    BY <2>2, <2>5
<1>9. CASE \E d \in Dirs : SetKey(d)
  <2>1. NewStream(ivs[0]) /\ mode # "none" /\ UNCHANGED <<mode, threads, ivs, backup>>
    BY <1>9 DEF SetKey, modeVars
  <2>2. PICK v \in Blocks : v = ivs[0]
    BY <1>4, <2>1
  <2>3. NewStream(v)
    BY <2>1, <2>2 DEF NewStream
  <2>4. QED
    BY <1>2, <1>4, <1>8, <2>1, <2>2, <2>3
<1>10. CASE \E v \in IVs : SetIv(v)
  <2>1. PICK v \in Blocks : /\ NewStream(v) /\ ivs' = [ivs EXCEPT ![0] = v] /\ mode # "none"
                            /\ UNCHANGED <<mode, threads, backup>>
    BY <1>3, <1>10 DEF SetIv, modeVars
  <2>2. ivs' \in [0..(threads - 1) -> Blocks] /\ ivs'[0] = v
    BY <1>3, <1>4, <2>1
  <2>3. QED
    BY <1>2, <1>8, <2>1, <2>2
<1>11. CASE RestoreIv
  <2>1. PICK v \in Blocks : v = backup
    BY <1>4
  <2>2. /\ NewStream(v) /\ ivs' = [ivs EXCEPT ![0] = v] /\ mode # "none"
        /\ UNCHANGED <<mode, threads, backup>>
    BY <1>11, <2>1 DEF RestoreIv, modeVars, NewStream
  <2>3. ivs' \in [0..(threads - 1) -> Blocks] /\ ivs'[0] = v
    BY <1>3, <1>4, <2>2
  <2>4. QED
    BY <1>2, <1>8, <2>2, <2>3
<1>12. QED
  BY <1>5, <1>6, <1>7, <1>9, <1>10, <1>11 DEF SetUp

\* What the handle holds and what the stream is.
StreamIInv == TypeInv /\ RunInv /\ StreamInv

\* The inductive invariant of the stream: each worker has the right IV for the
\* block it takes next, and what is made is right, in every behaviour whose calls
\* have parts.
THEOREM StreamInvariant == Spec /\ []CallHasPart => []StreamIInv
<1>1. Init => StreamIInv
  <2>1. ASSUME Init PROVE StreamIInv
    <3>1. /\ pc = "idle" /\ keyed = FALSE /\ src = <<>> /\ dst = <<>> /\ inp = <<>> /\ outp = <<>>
          /\ iv0 = Zero /\ backup = Zero /\ threads = 1 /\ ivs = [w \in 0..(1 - 1) |-> Zero]
      BY <2>1 DEF Init, NewIvs
    <3>2. Zero \in Blocks /\ MaxBlocks \in Nat /\ <<>> \in Seq(Blocks) /\ Len(<<>>) = 0
      BY BcModeAssumption
    <3>3. QED
      BY <3>1, <3>2 DEF StreamIInv, TypeInv, RunInv, StreamInv
  <2>2. QED
    BY <2>1
<1>2. ASSUME IInv, CutInv, StreamIInv, [Next]_vars, CallHasPart' PROVE StreamIInv'
  <2>1. TypeInv /\ RunInv /\ StreamInv
    BY <1>2 DEF StreamIInv
  <2>2. CASE SetUp
    BY <1>2, <2>1, <2>2, SetUpStep DEF StreamIInv
  <2>3. CASE \E n \in 0..MaxBlocks, h \in {"copy", "inplace", "null"} : BeginUpdate(n, h)
    BY <1>2, <2>1, <2>3, BeginStep DEF StreamIInv
  <2>4. CASE \E w \in Workers : ProcessBlock(w)
    BY <1>2, <2>1, <2>4, BlockStep DEF StreamIInv
  <2>5. CASE EndUpdate
    BY <1>2, <2>1, <2>5, EndStep DEF StreamIInv
  <2>6. CASE UNCHANGED vars
    <3>1. UNCHANGED <<mode, threads, keyed, keytype, ivs, backup, pc, how, src, dst, parts, done, iv0, inp, outp>>
      BY <2>6 DEF vars
    <3>2. UNCHANGED <<Past, HasIv, Workers>>
      BY <3>1 DEF Past, HasIv, Workers
    <3>3. \A k : In(k)' = In(k) /\ Out(k)' = Out(k)
      BY <3>1, <3>2 DEF In, Out
    <3>4. \A k : IvFor(k)' = IvFor(k)
      BY <3>1, <3>3 DEF IvFor, After
    <3>5. \A k : Right(k)' = Right(k)
      BY <3>1, <3>3, <3>4 DEF Right, Made
    <3>6. \A w, k : Taken(w, k)' = Taken(w, k) /\ NextOf(w)' = NextOf(w) /\ IvOf(w)' = IvOf(w)
      BY <3>1, <3>2 DEF Taken, NextOf, IvOf
    <3>7. StreamInv'
      BY <2>1, <3>1, <3>2, <3>3, <3>4, <3>5, <3>6 DEF StreamInv
    <3>8. QED
      BY <2>1, <3>1, <3>7 DEF StreamIInv, TypeInv, RunInv
  <2>7. QED
    BY <1>2, <2>2, <2>3, <2>4, <2>5, <2>6 DEF Next, Update
<1>3. QED
  BY <1>1, <1>2, Invariant, CutInvariant, PTL DEF Spec

\* However a stream is cut into calls and a call into parts, in place or not,
\* with any number of threads and in whatever order they run, each block is
\* what its mode defines, for every cipher and every set of blocks: as long as
\* no call is so large that all threads get a part of it and in a mode or a
\* direction that chains.  k_bcmode_update accepts such a call and processes
\* nothing of it (blockcipher.c:471-478), and from then on this fails.
THEOREM StreamIsStandard == Spec /\ []CallHasPart => []AsStandard
<1>1. ASSUME IInv, StreamIInv PROVE AsStandard
  <2>1. SUFFICES ASSUME pc = "idle", keyed, NEW k \in 1..Len(inp)
                 PROVE  outp[k] = Standard(k)
    BY DEF AsStandard
  <2>2. Right(k) /\ Past = Len(inp) /\ Past \in Nat
    BY <1>1, <2>1 DEF StreamIInv, StreamInv, TypeInv, Past
  <2>3. In(k) = inp[k] /\ Out(k) = outp[k]
    BY <2>1, <2>2 DEF In, Out
  <2>4. k # 1 => In(k - 1) = inp[k - 1] /\ Out(k - 1) = outp[k - 1]
    BY <2>1, <2>2 DEF In, Out
  <2>5. mode \in Modes /\ keytype \in Dirs
    BY <1>1, <2>1 DEF IInv
  <2>6. outp[k] = Made(IvFor(k), inp[k])
    BY <2>2, <2>3 DEF Right
  <2>7. CASE mode \in {"noop", "ecb"}
    BY <2>5, <2>6, <2>7 DEF Made, Standard
  <2>8. CASE mode \in {"cbc", "cfb"}
    <3>1. IvFor(k) = IF keytype = "enc" THEN Before(outp, k) ELSE Before(inp, k)
      BY <2>4, <2>8 DEF IvFor, After, Before
    <3>2. QED
      BY <2>6, <2>8, <3>1 DEF Made, Standard, Before
  <2>9. CASE mode = "ofb"
    <3>1. IvFor(k) = IF k = 1 THEN iv0 ELSE Xor(outp[k - 1], inp[k - 1])
      BY <2>4, <2>9 DEF IvFor, After
    <3>2. QED
      BY <2>6, <2>9, <3>1 DEF Made, Standard
  <2>10. CASE mode = "ctr"
    <3>1. IvFor(k) = CtrAdd(iv0, k - 1)
      <4>1. iv0 \in Blocks /\ 1 - 1 = 0
        BY <1>1 DEF StreamIInv, TypeInv
      <4>2. QED
        BY <2>10, <4>1, CountersAdd DEF IvFor, After
    <3>2. QED
      BY <2>6, <2>10, <3>1 DEF Made, Standard
  <2>11. QED
    BY <2>5, <2>7, <2>8, <2>9, <2>10 DEF Modes
<1>2. QED
  BY <1>1, Invariant, StreamInvariant, PTL

\* A caller that makes no such call, as in the run, always satisfies that
\* condition.
THEOREM SplitCallsHaveParts == ASSUME ~LargeSerial PROVE Spec => []CallHasPart
<1>1. CutInv => CallHasPart
  BY DEF CutInv, CallHasPart, Tiled
<1> QED
  BY <1>1, CutInvariant, PTL
=============================================================================
