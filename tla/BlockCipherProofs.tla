-------------------------- MODULE BlockCipherProofs --------------------------
(***************************************************************************)
(* The block ciphers, proved for every key and every block.                *)
(*                                                                         *)
(* Threefish, with the tables of its files, for every tweak as well and    *)
(* every arithmetic of words that has the laws of WordLaws and OrderLaws:  *)
(* decryption undoes encryption, and what encrypts is the cipher of the    *)
(* Skein paper.  A round of the encryption mixes pairs of words that have  *)
(* no word in common.  The decryption takes the rounds back from the last  *)
(* to the first: while it is at round d, the words it has unmixed are      *)
(* those from before the round, the others those from behind it.           *)
(*                                                                         *)
(* Rijndael, from the digits of a byte upwards: the tables make columns of *)
(* MixColumns and of its inverse, the inverse gives a column back, the     *)
(* words that the code reads hold a state of FIPS 197 after every round,   *)
(* and those of a decryption the states in reverse order.                  *)
(***************************************************************************)
EXTENDS Threefish, Aes, WellFoundedInduction, SequenceTheorems, TLAPS

-----------------------------------------------------------------------------
(* Blocks and tables *)

\* The number of words of a block, and the blocks.
Width == Size(cipher)
WordBlock == [0..(Width - 1) -> Word]

\* The mixes of a round name words of the block and rotations of a word, have
\* no word in common, and name every word of the block.
InRange(T, n) == \A i \in 1..Len(T) :
  T[i][1] \in 0..(n - 1) /\ T[i][2] \in 0..(n - 1) /\ T[i][3] \in 0..63
Apart(T) == \A i, j \in 1..Len(T) :
  T[i][1] # T[j][2] /\ (i # j => T[i][1] # T[j][1] /\ T[i][2] # T[j][2])
Covers(T, n) == \A w \in 0..(n - 1) : \E i \in 1..Len(T) : w = T[i][1] \/ w = T[i][2]
Fits(T, n) == Len(T) \in Nat /\ 2 * Len(T) = n /\ InRange(T, n) /\ Apart(T) /\ Covers(T, n)

\* The arguments of a call name words of the key schedule and of the tweak.
ArgsFit(p, n) ==
  /\ \A w \in 0..(n - 4) : p[w + 1] \in 0..n
  /\ p[n - 2] \in 0..n /\ p[n - 1] \in 0..2
  /\ p[n] \in 0..n /\ p[n + 1] \in 0..2
  /\ p[n + 2] \in 0..n /\ p[n + 3] \in 0..20

\* The tables of the encryption fit a block of n words, and those of the
\* decryption are the same from behind.
TablesFit(mixes, unmixes, calls, uncalls, args, n) ==
  /\ Len(calls) \in {18, 20} /\ Len(uncalls) = Len(calls)
  /\ \A c \in 1..Len(calls) :
       ArgsFit(calls[c], n) /\ uncalls[c] = calls[Len(calls) + 1 - c]
  /\ ArgsFit(args, n)
  /\ \A h \in 1..2 : Len(mixes[h]) = 4 /\ Len(unmixes[h]) = 4
  /\ \A h \in 1..2, r \in 1..4 :
       Fits(mixes[h][r], n) /\ unmixes[h][r] = mixes[h][5 - r]

\* The tables of tf256.
LEMMA Tables256 ==
  TablesFit(Mixes256, Unmixes256, Calls256, Uncalls256, Last256, 4)
<1>1. Len(Calls256) = 18 /\ Len(Uncalls256) = 18
  BY DEF Calls256, Uncalls256
<1>2. ArgsFit(Last256, 4)
  BY DEF Last256, ArgsFit
<1>3. ASSUME NEW c \in 1..18
      PROVE  ArgsFit(Calls256[c], 4) /\ Uncalls256[c] = Calls256[19 - c]
  <2>1. CASE c = 1
    BY <2>1 DEF Calls256, Uncalls256, ArgsFit
  <2>2. CASE c = 2
    BY <2>2 DEF Calls256, Uncalls256, ArgsFit
  <2>3. CASE c = 3
    BY <2>3 DEF Calls256, Uncalls256, ArgsFit
  <2>4. CASE c = 4
    BY <2>4 DEF Calls256, Uncalls256, ArgsFit
  <2>5. CASE c = 5
    BY <2>5 DEF Calls256, Uncalls256, ArgsFit
  <2>6. CASE c = 6
    BY <2>6 DEF Calls256, Uncalls256, ArgsFit
  <2>7. CASE c = 7
    BY <2>7 DEF Calls256, Uncalls256, ArgsFit
  <2>8. CASE c = 8
    BY <2>8 DEF Calls256, Uncalls256, ArgsFit
  <2>9. CASE c = 9
    BY <2>9 DEF Calls256, Uncalls256, ArgsFit
  <2>10. CASE c = 10
    BY <2>10 DEF Calls256, Uncalls256, ArgsFit
  <2>11. CASE c = 11
    BY <2>11 DEF Calls256, Uncalls256, ArgsFit
  <2>12. CASE c = 12
    BY <2>12 DEF Calls256, Uncalls256, ArgsFit
  <2>13. CASE c = 13
    BY <2>13 DEF Calls256, Uncalls256, ArgsFit
  <2>14. CASE c = 14
    BY <2>14 DEF Calls256, Uncalls256, ArgsFit
  <2>15. CASE c = 15
    BY <2>15 DEF Calls256, Uncalls256, ArgsFit
  <2>16. CASE c = 16
    BY <2>16 DEF Calls256, Uncalls256, ArgsFit
  <2>17. CASE c = 17
    BY <2>17 DEF Calls256, Uncalls256, ArgsFit
  <2>18. CASE c = 18
    BY <2>18 DEF Calls256, Uncalls256, ArgsFit
  <2>19. QED
    BY <2>1, <2>2, <2>3, <2>4, <2>5, <2>6, <2>7, <2>8, <2>9, <2>10, <2>11, <2>12, <2>13, <2>14, <2>15, <2>16, <2>17, <2>18
<1>4. \A h \in 1..2 : Len(Mixes256[h]) = 4 /\ Len(Unmixes256[h]) = 4
  BY DEF Mixes256, Unmixes256
<1>5. Fits(Mixes256[1][1], 4) /\ Unmixes256[1][1] = Mixes256[1][5 - 1]
  <2>1. InRange(Mixes256[1][1], 4) /\ Len(Mixes256[1][1]) = 2
    BY DEF Mixes256, InRange
  <2>2. Apart(Mixes256[1][1])
    BY DEF Mixes256, Apart
  <2>3. Covers(Mixes256[1][1], 4)
    BY DEF Mixes256, Covers
  <2>4. Unmixes256[1][1] = Mixes256[1][5 - 1]
    BY DEF Mixes256, Unmixes256
  <2>5. QED
    BY <2>1, <2>2, <2>3, <2>4 DEF Fits
<1>6. Fits(Mixes256[1][2], 4) /\ Unmixes256[1][2] = Mixes256[1][5 - 2]
  <2>1. InRange(Mixes256[1][2], 4) /\ Len(Mixes256[1][2]) = 2
    BY DEF Mixes256, InRange
  <2>2. Apart(Mixes256[1][2])
    BY DEF Mixes256, Apart
  <2>3. Covers(Mixes256[1][2], 4)
    BY DEF Mixes256, Covers
  <2>4. Unmixes256[1][2] = Mixes256[1][5 - 2]
    BY DEF Mixes256, Unmixes256
  <2>5. QED
    BY <2>1, <2>2, <2>3, <2>4 DEF Fits
<1>7. Fits(Mixes256[1][3], 4) /\ Unmixes256[1][3] = Mixes256[1][5 - 3]
  <2>1. InRange(Mixes256[1][3], 4) /\ Len(Mixes256[1][3]) = 2
    BY DEF Mixes256, InRange
  <2>2. Apart(Mixes256[1][3])
    BY DEF Mixes256, Apart
  <2>3. Covers(Mixes256[1][3], 4)
    BY DEF Mixes256, Covers
  <2>4. Unmixes256[1][3] = Mixes256[1][5 - 3]
    BY DEF Mixes256, Unmixes256
  <2>5. QED
    BY <2>1, <2>2, <2>3, <2>4 DEF Fits
<1>8. Fits(Mixes256[1][4], 4) /\ Unmixes256[1][4] = Mixes256[1][5 - 4]
  <2>1. InRange(Mixes256[1][4], 4) /\ Len(Mixes256[1][4]) = 2
    BY DEF Mixes256, InRange
  <2>2. Apart(Mixes256[1][4])
    BY DEF Mixes256, Apart
  <2>3. Covers(Mixes256[1][4], 4)
    BY DEF Mixes256, Covers
  <2>4. Unmixes256[1][4] = Mixes256[1][5 - 4]
    BY DEF Mixes256, Unmixes256
  <2>5. QED
    BY <2>1, <2>2, <2>3, <2>4 DEF Fits
<1>9. Fits(Mixes256[2][1], 4) /\ Unmixes256[2][1] = Mixes256[2][5 - 1]
  <2>1. InRange(Mixes256[2][1], 4) /\ Len(Mixes256[2][1]) = 2
    BY DEF Mixes256, InRange
  <2>2. Apart(Mixes256[2][1])
    BY DEF Mixes256, Apart
  <2>3. Covers(Mixes256[2][1], 4)
    BY DEF Mixes256, Covers
  <2>4. Unmixes256[2][1] = Mixes256[2][5 - 1]
    BY DEF Mixes256, Unmixes256
  <2>5. QED
    BY <2>1, <2>2, <2>3, <2>4 DEF Fits
<1>10. Fits(Mixes256[2][2], 4) /\ Unmixes256[2][2] = Mixes256[2][5 - 2]
  <2>1. InRange(Mixes256[2][2], 4) /\ Len(Mixes256[2][2]) = 2
    BY DEF Mixes256, InRange
  <2>2. Apart(Mixes256[2][2])
    BY DEF Mixes256, Apart
  <2>3. Covers(Mixes256[2][2], 4)
    BY DEF Mixes256, Covers
  <2>4. Unmixes256[2][2] = Mixes256[2][5 - 2]
    BY DEF Mixes256, Unmixes256
  <2>5. QED
    BY <2>1, <2>2, <2>3, <2>4 DEF Fits
<1>11. Fits(Mixes256[2][3], 4) /\ Unmixes256[2][3] = Mixes256[2][5 - 3]
  <2>1. InRange(Mixes256[2][3], 4) /\ Len(Mixes256[2][3]) = 2
    BY DEF Mixes256, InRange
  <2>2. Apart(Mixes256[2][3])
    BY DEF Mixes256, Apart
  <2>3. Covers(Mixes256[2][3], 4)
    BY DEF Mixes256, Covers
  <2>4. Unmixes256[2][3] = Mixes256[2][5 - 3]
    BY DEF Mixes256, Unmixes256
  <2>5. QED
    BY <2>1, <2>2, <2>3, <2>4 DEF Fits
<1>12. Fits(Mixes256[2][4], 4) /\ Unmixes256[2][4] = Mixes256[2][5 - 4]
  <2>1. InRange(Mixes256[2][4], 4) /\ Len(Mixes256[2][4]) = 2
    BY DEF Mixes256, InRange
  <2>2. Apart(Mixes256[2][4])
    BY DEF Mixes256, Apart
  <2>3. Covers(Mixes256[2][4], 4)
    BY DEF Mixes256, Covers
  <2>4. Unmixes256[2][4] = Mixes256[2][5 - 4]
    BY DEF Mixes256, Unmixes256
  <2>5. QED
    BY <2>1, <2>2, <2>3, <2>4 DEF Fits
<1>13. \A h \in 1..2, r \in 1..4 :
       Fits(Mixes256[h][r], 4) /\ Unmixes256[h][r] = Mixes256[h][5 - r]
  BY ONLY <1>5, <1>6, <1>7, <1>8,
          <1>9, <1>10, <1>11, <1>12
<1>14. QED
  BY <1>1, <1>2, <1>3, <1>4, <1>13 DEF TablesFit

\* The tables of tf512.
LEMMA Tables512 ==
  TablesFit(Mixes512, Unmixes512, Calls512, Uncalls512, Last512, 8)
<1>1. Len(Calls512) = 18 /\ Len(Uncalls512) = 18
  BY DEF Calls512, Uncalls512
<1>2. ArgsFit(Last512, 8)
  BY DEF Last512, ArgsFit
<1>3. ASSUME NEW c \in 1..18
      PROVE  ArgsFit(Calls512[c], 8) /\ Uncalls512[c] = Calls512[19 - c]
  <2>1. CASE c = 1
    BY <2>1 DEF Calls512, Uncalls512, ArgsFit
  <2>2. CASE c = 2
    BY <2>2 DEF Calls512, Uncalls512, ArgsFit
  <2>3. CASE c = 3
    BY <2>3 DEF Calls512, Uncalls512, ArgsFit
  <2>4. CASE c = 4
    BY <2>4 DEF Calls512, Uncalls512, ArgsFit
  <2>5. CASE c = 5
    BY <2>5 DEF Calls512, Uncalls512, ArgsFit
  <2>6. CASE c = 6
    BY <2>6 DEF Calls512, Uncalls512, ArgsFit
  <2>7. CASE c = 7
    BY <2>7 DEF Calls512, Uncalls512, ArgsFit
  <2>8. CASE c = 8
    BY <2>8 DEF Calls512, Uncalls512, ArgsFit
  <2>9. CASE c = 9
    BY <2>9 DEF Calls512, Uncalls512, ArgsFit
  <2>10. CASE c = 10
    BY <2>10 DEF Calls512, Uncalls512, ArgsFit
  <2>11. CASE c = 11
    BY <2>11 DEF Calls512, Uncalls512, ArgsFit
  <2>12. CASE c = 12
    BY <2>12 DEF Calls512, Uncalls512, ArgsFit
  <2>13. CASE c = 13
    BY <2>13 DEF Calls512, Uncalls512, ArgsFit
  <2>14. CASE c = 14
    BY <2>14 DEF Calls512, Uncalls512, ArgsFit
  <2>15. CASE c = 15
    BY <2>15 DEF Calls512, Uncalls512, ArgsFit
  <2>16. CASE c = 16
    BY <2>16 DEF Calls512, Uncalls512, ArgsFit
  <2>17. CASE c = 17
    BY <2>17 DEF Calls512, Uncalls512, ArgsFit
  <2>18. CASE c = 18
    BY <2>18 DEF Calls512, Uncalls512, ArgsFit
  <2>19. QED
    BY <2>1, <2>2, <2>3, <2>4, <2>5, <2>6, <2>7, <2>8, <2>9, <2>10, <2>11, <2>12, <2>13, <2>14, <2>15, <2>16, <2>17, <2>18
<1>4. \A h \in 1..2 : Len(Mixes512[h]) = 4 /\ Len(Unmixes512[h]) = 4
  BY DEF Mixes512, Unmixes512
<1>5. Fits(Mixes512[1][1], 8) /\ Unmixes512[1][1] = Mixes512[1][5 - 1]
  <2>1. InRange(Mixes512[1][1], 8) /\ Len(Mixes512[1][1]) = 4
    BY DEF Mixes512, InRange
  <2>2. Apart(Mixes512[1][1])
    BY DEF Mixes512, Apart
  <2>3. Covers(Mixes512[1][1], 8)
    BY DEF Mixes512, Covers
  <2>4. Unmixes512[1][1] = Mixes512[1][5 - 1]
    BY DEF Mixes512, Unmixes512
  <2>5. QED
    BY <2>1, <2>2, <2>3, <2>4 DEF Fits
<1>6. Fits(Mixes512[1][2], 8) /\ Unmixes512[1][2] = Mixes512[1][5 - 2]
  <2>1. InRange(Mixes512[1][2], 8) /\ Len(Mixes512[1][2]) = 4
    BY DEF Mixes512, InRange
  <2>2. Apart(Mixes512[1][2])
    BY DEF Mixes512, Apart
  <2>3. Covers(Mixes512[1][2], 8)
    BY DEF Mixes512, Covers
  <2>4. Unmixes512[1][2] = Mixes512[1][5 - 2]
    BY DEF Mixes512, Unmixes512
  <2>5. QED
    BY <2>1, <2>2, <2>3, <2>4 DEF Fits
<1>7. Fits(Mixes512[1][3], 8) /\ Unmixes512[1][3] = Mixes512[1][5 - 3]
  <2>1. InRange(Mixes512[1][3], 8) /\ Len(Mixes512[1][3]) = 4
    BY DEF Mixes512, InRange
  <2>2. Apart(Mixes512[1][3])
    BY DEF Mixes512, Apart
  <2>3. Covers(Mixes512[1][3], 8)
    BY DEF Mixes512, Covers
  <2>4. Unmixes512[1][3] = Mixes512[1][5 - 3]
    BY DEF Mixes512, Unmixes512
  <2>5. QED
    BY <2>1, <2>2, <2>3, <2>4 DEF Fits
<1>8. Fits(Mixes512[1][4], 8) /\ Unmixes512[1][4] = Mixes512[1][5 - 4]
  <2>1. InRange(Mixes512[1][4], 8) /\ Len(Mixes512[1][4]) = 4
    BY DEF Mixes512, InRange
  <2>2. Apart(Mixes512[1][4])
    BY DEF Mixes512, Apart
  <2>3. Covers(Mixes512[1][4], 8)
    BY DEF Mixes512, Covers
  <2>4. Unmixes512[1][4] = Mixes512[1][5 - 4]
    BY DEF Mixes512, Unmixes512
  <2>5. QED
    BY <2>1, <2>2, <2>3, <2>4 DEF Fits
<1>9. Fits(Mixes512[2][1], 8) /\ Unmixes512[2][1] = Mixes512[2][5 - 1]
  <2>1. InRange(Mixes512[2][1], 8) /\ Len(Mixes512[2][1]) = 4
    BY DEF Mixes512, InRange
  <2>2. Apart(Mixes512[2][1])
    BY DEF Mixes512, Apart
  <2>3. Covers(Mixes512[2][1], 8)
    BY DEF Mixes512, Covers
  <2>4. Unmixes512[2][1] = Mixes512[2][5 - 1]
    BY DEF Mixes512, Unmixes512
  <2>5. QED
    BY <2>1, <2>2, <2>3, <2>4 DEF Fits
<1>10. Fits(Mixes512[2][2], 8) /\ Unmixes512[2][2] = Mixes512[2][5 - 2]
  <2>1. InRange(Mixes512[2][2], 8) /\ Len(Mixes512[2][2]) = 4
    BY DEF Mixes512, InRange
  <2>2. Apart(Mixes512[2][2])
    BY DEF Mixes512, Apart
  <2>3. Covers(Mixes512[2][2], 8)
    BY DEF Mixes512, Covers
  <2>4. Unmixes512[2][2] = Mixes512[2][5 - 2]
    BY DEF Mixes512, Unmixes512
  <2>5. QED
    BY <2>1, <2>2, <2>3, <2>4 DEF Fits
<1>11. Fits(Mixes512[2][3], 8) /\ Unmixes512[2][3] = Mixes512[2][5 - 3]
  <2>1. InRange(Mixes512[2][3], 8) /\ Len(Mixes512[2][3]) = 4
    BY DEF Mixes512, InRange
  <2>2. Apart(Mixes512[2][3])
    BY DEF Mixes512, Apart
  <2>3. Covers(Mixes512[2][3], 8)
    BY DEF Mixes512, Covers
  <2>4. Unmixes512[2][3] = Mixes512[2][5 - 3]
    BY DEF Mixes512, Unmixes512
  <2>5. QED
    BY <2>1, <2>2, <2>3, <2>4 DEF Fits
<1>12. Fits(Mixes512[2][4], 8) /\ Unmixes512[2][4] = Mixes512[2][5 - 4]
  <2>1. InRange(Mixes512[2][4], 8) /\ Len(Mixes512[2][4]) = 4
    BY DEF Mixes512, InRange
  <2>2. Apart(Mixes512[2][4])
    BY DEF Mixes512, Apart
  <2>3. Covers(Mixes512[2][4], 8)
    BY DEF Mixes512, Covers
  <2>4. Unmixes512[2][4] = Mixes512[2][5 - 4]
    BY DEF Mixes512, Unmixes512
  <2>5. QED
    BY <2>1, <2>2, <2>3, <2>4 DEF Fits
<1>13. \A h \in 1..2, r \in 1..4 :
       Fits(Mixes512[h][r], 8) /\ Unmixes512[h][r] = Mixes512[h][5 - r]
  BY ONLY <1>5, <1>6, <1>7, <1>8,
          <1>9, <1>10, <1>11, <1>12
<1>14. QED
  BY <1>1, <1>2, <1>3, <1>4, <1>13 DEF TablesFit

\* The tables of tf1024.
LEMMA Tables1024 ==
  TablesFit(Mixes1024, Unmixes1024, Calls1024, Uncalls1024, Last1024, 16)
<1>1. Len(Calls1024) = 20 /\ Len(Uncalls1024) = 20
  BY DEF Calls1024, Uncalls1024
<1>2. ArgsFit(Last1024, 16)
  BY DEF Last1024, ArgsFit
<1>3. ASSUME NEW c \in 1..20
      PROVE  ArgsFit(Calls1024[c], 16) /\ Uncalls1024[c] = Calls1024[21 - c]
  <2>1. CASE c = 1
    BY <2>1 DEF Calls1024, Uncalls1024, ArgsFit
  <2>2. CASE c = 2
    BY <2>2 DEF Calls1024, Uncalls1024, ArgsFit
  <2>3. CASE c = 3
    BY <2>3 DEF Calls1024, Uncalls1024, ArgsFit
  <2>4. CASE c = 4
    BY <2>4 DEF Calls1024, Uncalls1024, ArgsFit
  <2>5. CASE c = 5
    BY <2>5 DEF Calls1024, Uncalls1024, ArgsFit
  <2>6. CASE c = 6
    BY <2>6 DEF Calls1024, Uncalls1024, ArgsFit
  <2>7. CASE c = 7
    BY <2>7 DEF Calls1024, Uncalls1024, ArgsFit
  <2>8. CASE c = 8
    BY <2>8 DEF Calls1024, Uncalls1024, ArgsFit
  <2>9. CASE c = 9
    BY <2>9 DEF Calls1024, Uncalls1024, ArgsFit
  <2>10. CASE c = 10
    BY <2>10 DEF Calls1024, Uncalls1024, ArgsFit
  <2>11. CASE c = 11
    BY <2>11 DEF Calls1024, Uncalls1024, ArgsFit
  <2>12. CASE c = 12
    BY <2>12 DEF Calls1024, Uncalls1024, ArgsFit
  <2>13. CASE c = 13
    BY <2>13 DEF Calls1024, Uncalls1024, ArgsFit
  <2>14. CASE c = 14
    BY <2>14 DEF Calls1024, Uncalls1024, ArgsFit
  <2>15. CASE c = 15
    BY <2>15 DEF Calls1024, Uncalls1024, ArgsFit
  <2>16. CASE c = 16
    BY <2>16 DEF Calls1024, Uncalls1024, ArgsFit
  <2>17. CASE c = 17
    BY <2>17 DEF Calls1024, Uncalls1024, ArgsFit
  <2>18. CASE c = 18
    BY <2>18 DEF Calls1024, Uncalls1024, ArgsFit
  <2>19. CASE c = 19
    BY <2>19 DEF Calls1024, Uncalls1024, ArgsFit
  <2>20. CASE c = 20
    BY <2>20 DEF Calls1024, Uncalls1024, ArgsFit
  <2>21. QED
    BY <2>1, <2>2, <2>3, <2>4, <2>5, <2>6, <2>7, <2>8, <2>9, <2>10, <2>11, <2>12, <2>13, <2>14, <2>15, <2>16, <2>17, <2>18, <2>19, <2>20
<1>4. \A h \in 1..2 : Len(Mixes1024[h]) = 4 /\ Len(Unmixes1024[h]) = 4
  BY DEF Mixes1024, Unmixes1024
<1>5. Fits(Mixes1024[1][1], 16) /\ Unmixes1024[1][1] = Mixes1024[1][5 - 1]
  <2>1. InRange(Mixes1024[1][1], 16) /\ Len(Mixes1024[1][1]) = 8
    BY DEF Mixes1024, InRange
  <2>2. Apart(Mixes1024[1][1])
    BY DEF Mixes1024, Apart
  <2>3. Covers(Mixes1024[1][1], 16)
    BY DEF Mixes1024, Covers
  <2>4. Unmixes1024[1][1] = Mixes1024[1][5 - 1]
    BY DEF Mixes1024, Unmixes1024
  <2>5. QED
    BY <2>1, <2>2, <2>3, <2>4 DEF Fits
<1>6. Fits(Mixes1024[1][2], 16) /\ Unmixes1024[1][2] = Mixes1024[1][5 - 2]
  <2>1. InRange(Mixes1024[1][2], 16) /\ Len(Mixes1024[1][2]) = 8
    BY DEF Mixes1024, InRange
  <2>2. Apart(Mixes1024[1][2])
    BY DEF Mixes1024, Apart
  <2>3. Covers(Mixes1024[1][2], 16)
    BY DEF Mixes1024, Covers
  <2>4. Unmixes1024[1][2] = Mixes1024[1][5 - 2]
    BY DEF Mixes1024, Unmixes1024
  <2>5. QED
    BY <2>1, <2>2, <2>3, <2>4 DEF Fits
<1>7. Fits(Mixes1024[1][3], 16) /\ Unmixes1024[1][3] = Mixes1024[1][5 - 3]
  <2>1. InRange(Mixes1024[1][3], 16) /\ Len(Mixes1024[1][3]) = 8
    BY DEF Mixes1024, InRange
  <2>2. Apart(Mixes1024[1][3])
    BY DEF Mixes1024, Apart
  <2>3. Covers(Mixes1024[1][3], 16)
    BY DEF Mixes1024, Covers
  <2>4. Unmixes1024[1][3] = Mixes1024[1][5 - 3]
    BY DEF Mixes1024, Unmixes1024
  <2>5. QED
    BY <2>1, <2>2, <2>3, <2>4 DEF Fits
<1>8. Fits(Mixes1024[1][4], 16) /\ Unmixes1024[1][4] = Mixes1024[1][5 - 4]
  <2>1. InRange(Mixes1024[1][4], 16) /\ Len(Mixes1024[1][4]) = 8
    BY DEF Mixes1024, InRange
  <2>2. Apart(Mixes1024[1][4])
    BY DEF Mixes1024, Apart
  <2>3. Covers(Mixes1024[1][4], 16)
    BY DEF Mixes1024, Covers
  <2>4. Unmixes1024[1][4] = Mixes1024[1][5 - 4]
    BY DEF Mixes1024, Unmixes1024
  <2>5. QED
    BY <2>1, <2>2, <2>3, <2>4 DEF Fits
<1>9. Fits(Mixes1024[2][1], 16) /\ Unmixes1024[2][1] = Mixes1024[2][5 - 1]
  <2>1. InRange(Mixes1024[2][1], 16) /\ Len(Mixes1024[2][1]) = 8
    BY DEF Mixes1024, InRange
  <2>2. Apart(Mixes1024[2][1])
    BY DEF Mixes1024, Apart
  <2>3. Covers(Mixes1024[2][1], 16)
    BY DEF Mixes1024, Covers
  <2>4. Unmixes1024[2][1] = Mixes1024[2][5 - 1]
    BY DEF Mixes1024, Unmixes1024
  <2>5. QED
    BY <2>1, <2>2, <2>3, <2>4 DEF Fits
<1>10. Fits(Mixes1024[2][2], 16) /\ Unmixes1024[2][2] = Mixes1024[2][5 - 2]
  <2>1. InRange(Mixes1024[2][2], 16) /\ Len(Mixes1024[2][2]) = 8
    BY DEF Mixes1024, InRange
  <2>2. Apart(Mixes1024[2][2])
    BY DEF Mixes1024, Apart
  <2>3. Covers(Mixes1024[2][2], 16)
    BY DEF Mixes1024, Covers
  <2>4. Unmixes1024[2][2] = Mixes1024[2][5 - 2]
    BY DEF Mixes1024, Unmixes1024
  <2>5. QED
    BY <2>1, <2>2, <2>3, <2>4 DEF Fits
<1>11. Fits(Mixes1024[2][3], 16) /\ Unmixes1024[2][3] = Mixes1024[2][5 - 3]
  <2>1. InRange(Mixes1024[2][3], 16) /\ Len(Mixes1024[2][3]) = 8
    BY DEF Mixes1024, InRange
  <2>2. Apart(Mixes1024[2][3])
    BY DEF Mixes1024, Apart
  <2>3. Covers(Mixes1024[2][3], 16)
    BY DEF Mixes1024, Covers
  <2>4. Unmixes1024[2][3] = Mixes1024[2][5 - 3]
    BY DEF Mixes1024, Unmixes1024
  <2>5. QED
    BY <2>1, <2>2, <2>3, <2>4 DEF Fits
<1>12. Fits(Mixes1024[2][4], 16) /\ Unmixes1024[2][4] = Mixes1024[2][5 - 4]
  <2>1. InRange(Mixes1024[2][4], 16) /\ Len(Mixes1024[2][4]) = 8
    BY DEF Mixes1024, InRange
  <2>2. Apart(Mixes1024[2][4])
    BY DEF Mixes1024, Apart
  <2>3. Covers(Mixes1024[2][4], 16)
    BY DEF Mixes1024, Covers
  <2>4. Unmixes1024[2][4] = Mixes1024[2][5 - 4]
    BY DEF Mixes1024, Unmixes1024
  <2>5. QED
    BY <2>1, <2>2, <2>3, <2>4 DEF Fits
<1>13. \A h \in 1..2, r \in 1..4 :
       Fits(Mixes1024[h][r], 16) /\ Unmixes1024[h][r] = Mixes1024[h][5 - r]
  BY ONLY <1>5, <1>6, <1>7, <1>8,
          <1>9, <1>10, <1>11, <1>12
<1>14. QED
  BY <1>1, <1>2, <1>3, <1>4, <1>13 DEF TablesFit

\* The tables of the cipher at hand.
LEMMA TablesHold ==
  ASSUME cipher \in {256, 512, 1024}
  PROVE  /\ Width \in {4, 8, 16}
         /\ TablesFit(Mixes, Unmixes, Calls, Uncalls, LastArgs, Width)
<1>1. CASE cipher = 256
  <2>1. Width = 4
    BY <1>1 DEF Width, Size
  <2>2. QED
    BY <1>1, <2>1, Tables256
       DEF Mixes, Unmixes, Calls, Uncalls, LastArgs
<1>2. CASE cipher = 512
  <2>1. Width = 8
    BY <1>2 DEF Width, Size
  <2>2. QED
    BY <1>2, <2>1, Tables512
       DEF Mixes, Unmixes, Calls, Uncalls, LastArgs
<1>3. CASE cipher = 1024
  <2>1. Width = 16
    BY <1>3 DEF Width, Size
  <2>2. QED
    BY <1>3, <2>1, Tables1024
       DEF Mixes, Unmixes, Calls, Uncalls, LastArgs
<1>4. QED
  BY <1>1, <1>2, <1>3

-----------------------------------------------------------------------------
(* One mix, one round *)

\* The arithmetic of words, law by law.
LEMMA Arithmetic ==
  ASSUME WordLaws(Word)
  PROVE  /\ Zero \in Word /\ Parity \in Word /\ \A n \in 0..20 : Number(n) \in Word
         /\ \A a, b \in Word : Plus(a, b) \in Word
         /\ \A a, b \in Word : Minus(a, b) \in Word
         /\ \A a, b \in Word : Xor(a, b) \in Word
         /\ \A a, b \in Word : Minus(Plus(a, b), b) = a
         /\ \A a, b \in Word : Xor(Xor(a, b), b) = a
         /\ \A a \in Word, r \in 0..63 : Rotl(a, r) \in Word
         /\ \A a \in Word, r \in 0..63 : Rotr(a, r) \in Word
         /\ \A a \in Word, r \in 0..63 : Rotr(Rotl(a, r), r) = a
  BY DEF WordLaws

\* A mix of a block of n words.
IsMix(m, n) ==
  m[1] \in 0..(n - 1) /\ m[2] \in 0..(n - 1) /\ m[3] \in 0..63 /\ m[1] # m[2]

\* The mix m makes the two words it names in u from those of v, with the words
\* of a added.
MixedIn(v, u, m, a) ==
  LET second == Plus(v[m[2]], a[m[2]])
  IN  /\ u[m[1]] = Plus(v[m[1]], Plus(second, a[m[1]]))
      /\ u[m[2]] = Xor(Rotl(second, m[3]), u[m[1]])

\* m() makes its two words and leaves the others.
MixMade(v, u, m, a, n) ==
  /\ u \in [0..(n - 1) -> Word]
  /\ MixedIn(v, u, m, a)
  /\ \A w \in 0..(n - 1) : w # m[1] /\ w # m[2] => u[w] = v[w]

LEMMA MixIs ==
  ASSUME WordLaws(Word), NEW n \in Nat, NEW m, IsMix(m, n),
         NEW v \in [0..(n - 1) -> Word], NEW a \in [0..(n - 1) -> Word],
         NEW a1, NEW a2, a1 = a[m[1]], a2 = a[m[2]]
  PROVE  MixMade(v, Mixed(v, m, a1, a2), m, a, n)
<1> DEFINE u == Mixed(v, m, a1, a2)
           second == Plus(v[m[2]], a[m[2]])
           first == Plus(v[m[1]], Plus(second, a[m[1]]))
           mixed == Xor(Rotl(second, m[3]), first)
<1>1. second \in Word
  BY Arithmetic DEF IsMix
<1>2. Plus(second, a[m[1]]) \in Word
  BY <1>1, Arithmetic DEF IsMix
<1>3. first \in Word
  BY <1>2, Arithmetic DEF IsMix
<1>4. mixed \in Word
  BY <1>1, <1>3, Arithmetic DEF IsMix
<1>5. u = [v EXCEPT ![m[1]] = first, ![m[2]] = mixed]
  BY DEF Mixed
<1> HIDE DEF u
<1>6. u[m[1]] = first /\ u[m[2]] = mixed
  BY <1>5 DEF IsMix
<1>7. MixedIn(v, u, m, a)
  BY <1>6 DEF MixedIn
<1> HIDE DEF first, mixed
<1>8. /\ u \in [0..(n - 1) -> Word]
      /\ \A w \in 0..(n - 1) : w # m[1] /\ w # m[2] => u[w] = v[w]
  BY <1>3, <1>4, <1>5
<1>9. MixMade(v, u, m, a, n)
  BY <1>7, <1>8 DEF MixMade
<1>10. QED
  BY <1>9 DEF u

\* u() takes the words of m() back, and leaves the others.
MixTaken(v, u, x, m, n) ==
  /\ x \in [0..(n - 1) -> Word]
  /\ x[m[1]] = v[m[1]] /\ x[m[2]] = v[m[2]]
  /\ \A w \in 0..(n - 1) : w # m[1] /\ w # m[2] => x[w] = u[w]

LEMMA UnmixIs ==
  ASSUME WordLaws(Word), NEW n \in Nat, NEW m, IsMix(m, n),
         NEW v \in [0..(n - 1) -> Word], NEW z \in [0..(n - 1) -> Word],
         NEW u \in [0..(n - 1) -> Word], NEW a \in [0..(n - 1) -> Word],
         MixedIn(v, z, m, a), u[m[1]] = z[m[1]], u[m[2]] = z[m[2]],
         NEW a1, NEW a2, a1 = a[m[1]], a2 = a[m[2]]
  PROVE  MixTaken(v, u, Unmixed(u, m, a1, a2), m, n)
<1> DEFINE x == Unmixed(u, m, a1, a2)
           second == Plus(v[m[2]], a[m[2]])
           added == Plus(second, a[m[1]])
<1>1. second \in Word
  BY Arithmetic DEF IsMix
<1>2. added \in Word
  BY <1>1, Arithmetic DEF IsMix
<1>3. u[m[1]] = Plus(v[m[1]], added) /\ u[m[2]] = Xor(Rotl(second, m[3]), u[m[1]])
  BY DEF MixedIn
<1>4. Rotl(second, m[3]) \in Word /\ Rotr(Rotl(second, m[3]), m[3]) = second
  BY <1>1, Arithmetic DEF IsMix
<1>5. u[m[1]] \in Word
  BY DEF IsMix
<1> HIDE DEF added
<1>6. Rotr(Xor(u[m[2]], u[m[1]]), m[3]) = second
  BY <1>3, <1>4, <1>5, Arithmetic
<1>7. Minus(u[m[1]], added) = v[m[1]]
  BY <1>2, <1>3, Arithmetic DEF IsMix
<1>8. Minus(second, a[m[2]]) = v[m[2]]
  BY Arithmetic DEF IsMix
<1> HIDE DEF second
<1>9. x = [u EXCEPT ![m[1]] = v[m[1]], ![m[2]] = v[m[2]]]
  BY <1>6, <1>7, <1>8 DEF Unmixed, added
<1> HIDE DEF x
<1>10. MixTaken(v, u, x, m, n)
  BY <1>9 DEF IsMix, MixTaken
<1>11. QED
  BY <1>10 DEF x

\* Less-than on the numbers, as a relation.
Less == {ss \in Nat \X Nat : ss[1] < ss[2]}

\* What holds at 0 and goes over from each number to the next holds up to n.
LEMMA UpTo ==
  ASSUME NEW n \in Nat, NEW H, 0 \in H, \A i \in 1..n : i - 1 \in H => i \in H
  PROVE  0..n \subseteq H
<1> DEFINE T == {i \in 0..n : i \notin H}
<1>1. SUFFICES ASSUME T # {} PROVE FALSE
  OBVIOUS
<1>2. T \subseteq Nat
  OBVIOUS
<1>3. IsWellFoundedOn(Less, Nat)
  BY NatLessThanWellFounded DEF OpToRel, Less
<1>4. PICK x \in T : \A y \in T : <<y, x>> \notin Less
  BY <1>1, <1>2, <1>3, WFMin
<1>5. x \in 1..n /\ x - 1 \in 0..n
  BY <1>4
<1>6. <<x - 1, x>> \in Less
  BY <1>5 DEF Less
<1>7. x - 1 \in H
  BY <1>4, <1>5, <1>6
<1>8. QED
  BY <1>4, <1>5, <1>7

\* F begins with a and goes on by the steps that W names.
Follows(W, n, a, F) == F[0] = a /\ \A i \in 1..n : F[i] = W[i][F[i - 1]]

\* A function that begins in S and whose steps stay in S is defined by them.
LEMMA Recursion ==
  ASSUME NEW S, NEW n \in Nat, NEW a \in S, NEW W \in [1..n -> [S -> S]]
  PROVE  \E F \in [0..n -> S] : Follows(W, n, a, F)
<1> DEFINE Good(j, F) == F[0] = a /\ \A i \in 1..j : F[i] = W[i][F[i - 1]]
           H == {j \in 0..n : \E F \in [0..j -> S] : Good(j, F)}
<1>1. 0 \in H
  <2> DEFINE F == [i \in 0..0 |-> a]
  <2>1. F \in [0..0 -> S] /\ Good(0, F)
    OBVIOUS
  <2> HIDE DEF F
  <2>2. \E E \in [0..0 -> S] : Good(0, E)
    BY <2>1
  <2>3. QED
    BY <2>2
<1>2. ASSUME NEW j \in 1..n, j - 1 \in H
      PROVE  j \in H
  <2>1. PICK F \in [0..(j - 1) -> S] : Good(j - 1, F)
    BY <1>2
  <2> DEFINE G == [i \in 0..j |-> IF i = j THEN W[j][F[j - 1]] ELSE F[i]]
  <2>2. j - 1 \in 0..(j - 1) /\ F[j - 1] \in S
    BY <2>1
  <2>3. W[j][F[j - 1]] \in S
    BY <2>2
  <2>4. G \in [0..j -> S]
    BY <2>3
  <2>5. G[0] = a
    BY <2>1
  <2>6. ASSUME NEW i \in 1..j PROVE G[i] = W[i][G[i - 1]]
    <3>1. i - 1 \in 0..j /\ i - 1 # j /\ i \in 0..j
      OBVIOUS
    <3>2. G[i - 1] = F[i - 1]
      BY <3>1
    <3>3. CASE i = j
      BY <3>1, <3>2, <3>3
    <3>4. CASE i # j
      <4>1. i \in 1..(j - 1)
        BY <3>4
      <4>2. QED
        BY <2>1, <3>1, <3>2, <3>4, <4>1
    <3>5. QED
      BY <3>3, <3>4
  <2> HIDE DEF G
  <2>7. Good(j, G)
    BY <2>5, <2>6
  <2> HIDE DEF Good
  <2>8. \E E \in [0..j -> S] : Good(j, E)
    BY <2>4, <2>7
  <2>9. j \in 0..n
    OBVIOUS
  <2>10. QED
    BY <2>8, <2>9
<1>3. n \in H
  <2> HIDE DEF H
  <2>1. 0..n \subseteq H
    BY <1>1, <1>2, UpTo
  <2>2. QED
    BY <2>1
<1>4. QED
  BY <1>3 DEF Follows

\* The first j mixes of T made the words they name in u from those of v; the
\* other words of u are those of v.
PartMixed(T, a, v, u, j) ==
  \A i \in 1..Len(T) :
    IF i <= j THEN MixedIn(v, u, T[i], a)
              ELSE u[T[i][1]] = v[T[i][1]] /\ u[T[i][2]] = v[T[i][2]]

BlockMixed(T, a, v, u, j, n) == u \in [0..(n - 1) -> Word] /\ PartMixed(T, a, v, u, j)

\* The words that the first j mixes of T name.
Named(T, j, w) == \E i \in 1..j : w = T[i][1] \/ w = T[i][2]

\* Of the words of u, those that the first j mixes of T name are those of v, the
\* others those of z.
PartUnmixed(T, n, v, z, u, j) ==
  \A w \in 0..(n - 1) : u[w] = IF Named(T, j, w) THEN v[w] ELSE z[w]

BlockUnmixed(T, n, v, z, u, j) == u \in [0..(n - 1) -> Word] /\ PartUnmixed(T, n, v, z, u, j)

\* The mixes of a round.
LEMMA MixesOf ==
  ASSUME NEW n \in Nat, NEW T, Fits(T, n), NEW i \in 1..Len(T)
  PROVE  /\ IsMix(T[i], n)
         /\ \A j \in 1..Len(T) : j # i =>
              /\ T[j][1] # T[i][1] /\ T[j][1] # T[i][2]
              /\ T[j][2] # T[i][1] /\ T[j][2] # T[i][2]
  BY DEF Fits, InRange, Apart, IsMix

\* The next mix of a round.
LEMMA MixStep ==
  ASSUME WordLaws(Word), NEW n \in Nat, NEW T, Fits(T, n), NEW j \in 1..Len(T),
         NEW a \in [0..(n - 1) -> Word], NEW v \in [0..(n - 1) -> Word],
         NEW u \in [0..(n - 1) -> Word], PartMixed(T, a, v, u, j - 1),
         NEW m, m = T[j], NEW a1, NEW a2, a1 = a[m[1]], a2 = a[m[2]]
  PROVE  BlockMixed(T, a, v, Mixed(u, m, a1, a2), j, n)
<1> DEFINE x == Mixed(u, m, a1, a2)
<1>1. IsMix(m, n)
  BY MixesOf
<1>2. /\ x \in [0..(n - 1) -> Word] /\ MixedIn(u, x, m, a)
      /\ \A w \in 0..(n - 1) : w # m[1] /\ w # m[2] => x[w] = u[w]
  <2>1. MixMade(u, x, m, a, n)
    BY <1>1, MixIs
  <2> HIDE DEF x
  <2>2. QED
    BY <2>1 DEF MixMade
<1> HIDE DEF x
<1>3. u[m[1]] = v[m[1]] /\ u[m[2]] = v[m[2]]
  <2>1. ~(j <= j - 1)
    OBVIOUS
  <2>2. QED
    BY <2>1 DEF PartMixed
<1>4. MixedIn(v, x, m, a)
  BY <1>2, <1>3 DEF MixedIn
<1>5. ASSUME NEW i \in 1..Len(T), i # j
      PROVE  /\ x[T[i][1]] = u[T[i][1]] /\ x[T[i][2]] = u[T[i][2]]
             /\ i <= j <=> i <= j - 1
  <2>1. IsMix(T[i], n)
    BY MixesOf
  <2>2. T[i][1] # m[1] /\ T[i][1] # m[2] /\ T[i][2] # m[1] /\ T[i][2] # m[2]
    BY <1>5, MixesOf
  <2>3. T[i][1] \in 0..(n - 1) /\ T[i][2] \in 0..(n - 1)
    BY <2>1 DEF IsMix
  <2>4. i <= j <=> i <= j - 1
    BY <1>5, Fits(T, n) DEF Fits
  <2>5. QED
    BY <1>2, <2>2, <2>3, <2>4
<1>6. ASSUME NEW i \in 1..Len(T)
      PROVE  IF i <= j THEN MixedIn(v, x, T[i], a)
                       ELSE x[T[i][1]] = v[T[i][1]] /\ x[T[i][2]] = v[T[i][2]]
  <2>1. CASE i = j
    BY <1>4, <2>1
  <2>2. CASE i # j
    BY <1>5, <2>2 DEF PartMixed, MixedIn
  <2>3. QED
    BY <2>1, <2>2
<1>7. QED
  BY <1>2, <1>6 DEF BlockMixed, PartMixed, x

\* The next mix of a round that is taken back.
LEMMA UnmixStep ==
  ASSUME WordLaws(Word), NEW n \in Nat, NEW T, Fits(T, n), NEW j \in 1..Len(T),
         NEW a \in [0..(n - 1) -> Word], NEW v \in [0..(n - 1) -> Word],
         NEW z \in [0..(n - 1) -> Word], PartMixed(T, a, v, z, Len(T)),
         NEW u \in [0..(n - 1) -> Word], PartUnmixed(T, n, v, z, u, j - 1),
         NEW m, m = T[j], NEW a1, NEW a2, a1 = a[m[1]], a2 = a[m[2]]
  PROVE  BlockUnmixed(T, n, v, z, Unmixed(u, m, a1, a2), j)
<1> DEFINE x == Unmixed(u, m, a1, a2)
<1>1. IsMix(m, n) /\ Len(T) \in Nat
  BY MixesOf DEF Fits
<1>2. MixedIn(v, z, m, a)
  BY <1>1 DEF PartMixed
<1>3. ~Named(T, j - 1, m[1]) /\ ~Named(T, j - 1, m[2])
  <2>1. \A i \in 1..(j - 1) : i \in 1..Len(T) /\ i # j
    BY <1>1
  <2>2. QED
    BY <2>1, MixesOf DEF Named
<1>4. m[1] \in 0..(n - 1) /\ m[2] \in 0..(n - 1)
  BY <1>1 DEF IsMix
<1>5. u[m[1]] = z[m[1]] /\ u[m[2]] = z[m[2]]
  BY <1>3, <1>4 DEF PartUnmixed
<1>6. /\ x \in [0..(n - 1) -> Word] /\ x[m[1]] = v[m[1]] /\ x[m[2]] = v[m[2]]
      /\ \A w \in 0..(n - 1) : w # m[1] /\ w # m[2] => x[w] = u[w]
  <2>1. MixTaken(v, u, x, m, n)
    BY <1>1, <1>2, <1>5, UnmixIs
  <2> HIDE DEF x
  <2>2. QED
    BY <2>1 DEF MixTaken
<1> HIDE DEF x
<1>7. \A w : Named(T, j, w) <=> Named(T, j - 1, w) \/ w = m[1] \/ w = m[2]
  <2>1. \A i : i \in 1..j <=> i \in 1..(j - 1) \/ i = j
    BY <1>1
  <2>2. QED
    BY <2>1 DEF Named
<1>8. ASSUME NEW w \in 0..(n - 1) PROVE x[w] = IF Named(T, j, w) THEN v[w] ELSE z[w]
  <2>1. CASE w = m[1] \/ w = m[2]
    BY <1>6, <1>7, <2>1
  <2>2. CASE ~(w = m[1] \/ w = m[2])
    BY <1>6, <1>7, <2>2 DEF PartUnmixed
  <2>3. QED
    BY <2>1, <2>2
<1>9. QED
  BY <1>6, <1>8 DEF BlockUnmixed, PartUnmixed, x

\* The two ends of a round.
LEMMA RoundEnds ==
  ASSUME NEW n \in Nat, NEW T, Fits(T, n), NEW a,
         NEW v \in [0..(n - 1) -> Word]
  PROVE  /\ PartMixed(T, a, v, v, 0)
         /\ \A u \in [0..(n - 1) -> Word] : PartMixed(T, a, v, u, 0) => u = v
         /\ \A z, u : PartUnmixed(T, n, v, z, u, Len(T)) => \A w \in 0..(n - 1) : u[w] = v[w]
         /\ \A z, u : PartUnmixed(T, n, v, z, u, 0) <=> \A w \in 0..(n - 1) : u[w] = z[w]
<1>1. \A i \in 1..Len(T) : ~(i <= 0)
  BY DEF Fits
<1>2. PartMixed(T, a, v, v, 0)
  BY <1>1 DEF PartMixed
<1>3. ASSUME NEW u \in [0..(n - 1) -> Word], PartMixed(T, a, v, u, 0) PROVE u = v
  <2>1. ASSUME NEW w \in 0..(n - 1) PROVE u[w] = v[w]
    <3>1. PICK i \in 1..Len(T) : w = T[i][1] \/ w = T[i][2]
      BY DEF Fits, Covers
    <3>2. u[T[i][1]] = v[T[i][1]] /\ u[T[i][2]] = v[T[i][2]]
      BY <1>1, <1>3 DEF PartMixed
    <3>3. QED
      BY <3>1, <3>2
  <2>2. QED
    BY <2>1
<1>4. \A w \in 0..(n - 1) : Named(T, Len(T), w)
  BY DEF Fits, Covers, Named
<1>5. \A w : ~Named(T, 0, w)
  BY DEF Named
<1>6. QED
  BY <1>2, <1>3, <1>4, <1>5 DEF PartUnmixed

LEMMA NothingMixed ==
  ASSUME NEW n \in Nat, NEW T, Fits(T, n), NEW a,
         NEW v \in [0..(n - 1) -> Word], NEW u \in [0..(n - 1) -> Word],
         PartMixed(T, a, v, u, 0)
  PROVE  u = v
  BY RoundEnds

-----------------------------------------------------------------------------
(* The words that a round adds *)

KeyWords == [0..Width -> Word]
TweakWords == [0..2 -> Word]

\* How many times encrypt calls m1 or m2, and how many mixes a round has.
Count == Len(Calls)
Pairs == Width \div 2

\* Round r of call c of the encryption.
Table(c, r) == Mixes[IF c % 2 = 1 THEN 1 ELSE 2][r]

\* What a call with the arguments p adds to word w, under a given key and tweak.
InjectedBy(kw, tw, p, w) ==
  CASE w < Width - 3 -> kw[p[w + 1]]
    [] w = Width - 3 -> Plus(kw[p[Width - 2]], tw[p[Width - 1]])
    [] w = Width - 2 -> Plus(kw[p[Width]], tw[p[Width + 1]])
    [] OTHER         -> Plus(kw[p[Width + 2]], Number(p[Width + 3]))

Added(kw, tw, c, r) ==
  [w \in 0..(Width - 1) |-> IF r = 1 THEN InjectedBy(kw, tw, Calls[c], w) ELSE Zero]

\* What the encryption and the decryption add and take off is of that kind.
LEMMA InjectedIs == \A p, w : Injected(p, w) = InjectedBy(k, t, p, w)
  BY DEF Injected, InjectedBy, Width

\* It is a word.
LEMMA InjectedIn ==
  ASSUME WordLaws(Word), cipher \in {256, 512, 1024},
         NEW kw \in KeyWords, NEW tw \in TweakWords, NEW p, ArgsFit(p, Width),
         NEW w \in 0..(Width - 1)
  PROVE  InjectedBy(kw, tw, p, w) \in Word
<1>1. Width \in {4, 8, 16}
  BY TablesHold
<1>2. (\A a, b \in Word : Plus(a, b) \in Word) /\ (\A n \in 0..20 : Number(n) \in Word)
  BY Arithmetic
<1>3. CASE w < Width - 3
  <2>1. p[w + 1] \in 0..Width
    BY <1>1, <1>3 DEF ArgsFit
  <2>2. QED
    BY <1>1, <1>3, <2>1 DEF InjectedBy, KeyWords
<1>4. CASE w = Width - 3
  <2>1. kw[p[Width - 2]] \in Word /\ tw[p[Width - 1]] \in Word
    BY DEF ArgsFit, KeyWords, TweakWords
  <2>2. ~(w < Width - 3)
    BY <1>1, <1>4
  <2>3. QED
    BY <1>1, <1>2, <1>4, <2>1, <2>2 DEF InjectedBy
<1>5. CASE w = Width - 2
  <2>1. kw[p[Width]] \in Word /\ tw[p[Width + 1]] \in Word
    BY DEF ArgsFit, KeyWords, TweakWords
  <2>2. ~(w < Width - 3) /\ w # Width - 3
    BY <1>1, <1>5
  <2>3. QED
    BY <1>2, <1>5, <2>1, <2>2 DEF InjectedBy
<1>6. CASE w = Width - 1
  <2>1. p[Width + 2] \in 0..Width /\ p[Width + 3] \in 0..20
    BY DEF ArgsFit
  <2>2. kw[p[Width + 2]] \in Word /\ Number(p[Width + 3]) \in Word
    BY <1>2, <2>1 DEF KeyWords
  <2>3. ~(w < Width - 3) /\ w # Width - 3 /\ w # Width - 2
    BY <1>1, <1>6
  <2>4. QED
    BY <1>2, <2>2, <2>3 DEF InjectedBy
<1>7. QED
  BY <1>1, <1>3, <1>4, <1>5, <1>6

LEMMA AddedIn ==
  ASSUME WordLaws(Word), cipher \in {256, 512, 1024},
         NEW kw \in KeyWords, NEW tw \in TweakWords, NEW c \in 1..Count, NEW r
  PROVE  Added(kw, tw, c, r) \in WordBlock
<1>1. ArgsFit(Calls[c], Width)
  BY TablesHold DEF TablesFit, Count
<1>2. \A w \in 0..(Width - 1) : InjectedBy(kw, tw, Calls[c], w) \in Word
  BY <1>1, InjectedIn
<1>3. Zero \in Word
  BY Arithmetic
<1>4. QED
  BY <1>2, <1>3 DEF Added, WordBlock

\* The rounds of all calls fit the block.
LEMMA TableFits ==
  ASSUME cipher \in {256, 512, 1024}
  PROVE  /\ Width \in {4, 8, 16} /\ Count \in {18, 20} /\ Pairs \in Nat
         /\ \A c \in Int, r \in 1..4 : Fits(Table(c, r), Width) /\ Len(Table(c, r)) = Pairs
<1>1. Width \in {4, 8, 16} /\ Count \in {18, 20}
  BY TablesHold DEF TablesFit, Count
<1>2. ASSUME NEW c \in Int, NEW r \in 1..4
      PROVE  Fits(Table(c, r), Width) /\ Len(Table(c, r)) = Pairs
  <2>1. Fits(Table(c, r), Width)
    BY TablesHold DEF TablesFit, Table
  <2>2. Len(Table(c, r)) \in Nat /\ 2 * Len(Table(c, r)) = Width
    BY <2>1 DEF Fits
  <2>3. QED
    BY <1>1, <2>1, <2>2 DEF Pairs
<1>3. Pairs \in Nat
  BY <1>1 DEF Pairs
<1>4. QED
  BY <1>1, <1>2, <1>3

\* F has the sums of the parity constant and the first words of k.
Sums(kw, F) ==
  /\ F \in [0..(Width - 1) -> Word]
  /\ F[0] = Xor(Parity, kw[0])
  /\ \A i \in 1..(Width - 1) : F[i] = Xor(F[i - 1], kw[i])

\* The parity word is such a sum, of the words of the key.
LEMMA ParitySums ==
  ASSUME WordLaws(Word), cipher \in {256, 512, 1024}, NEW kw \in WordBlock
  PROVE  \E F : Sums(kw, F) /\ ParityWord(kw) = F[Width - 1]
<1> DEFINE n == Width - 1
           W == [i \in 1..n |-> [d \in Word |-> Xor(d, kw[i])]]
           a == Xor(Parity, kw[0])
           Value(i, d) == Xor(IF i = 0 THEN Parity ELSE d, kw[i])
           f == CHOOSE f : f = [i \in 0..n |-> Value(i, f[i - 1])]
<1>1. n \in Nat /\ n > 0
  BY TablesHold
<1>2. (\A i \in 0..n : kw[i] \in Word) /\ (\A d, e \in Word : Xor(d, e) \in Word)
  BY Arithmetic DEF WordBlock
<1>3. a \in Word
  <2>1. Parity \in Word /\ kw[0] \in Word
    BY <1>1, <1>2, Arithmetic
  <2>2. QED
    BY <1>2, <2>1
<1>4. \A i \in 0..n, d \in Word : Xor(d, kw[i]) \in Word
  BY <1>2
<1>5. W \in [1..n -> [Word -> Word]]
  BY <1>4
<1>6. ParityWord(kw) = f[n]
  BY DEF ParityWord, Width
<1>7. \A i \in 1..n, d \in Word : W[i][d] = Xor(d, kw[i])
  OBVIOUS
<1>8. \A d : Value(0, d) = a
  OBVIOUS
<1>9. \A i \in 1..n : \A d : Value(i, d) = Xor(d, kw[i])
  OBVIOUS
<1> HIDE DEF n, W, a, Value
<1>10. PICK F \in [0..n -> Word] : Follows(W, n, a, F)
  BY <1>1, <1>3, <1>5, Recursion
<1>11. \A i \in 0..n : F[i] = Value(i, F[i - 1])
  <2>1. F[0] = Value(0, F[0 - 1])
    BY <1>8, <1>10 DEF Follows
  <2>2. ASSUME NEW i \in 1..n PROVE F[i] = Value(i, F[i - 1])
    <3>1. i - 1 \in 0..n
      BY <1>1
    <3>2. F[i - 1] \in Word
      BY <3>1
    <3>3. QED
      BY <1>7, <1>9, <1>10, <3>2 DEF Follows
  <2>3. QED
    BY <1>1, <2>1, <2>2
<1>12. F = [i \in 0..n |-> Value(i, F[i - 1])]
  BY <1>11
<1>13. f = [i \in 0..n |-> Value(i, f[i - 1])]
  <2>1. \E g : g = [i \in 0..n |-> Value(i, g[i - 1])]
    BY ONLY <1>12
  <2>2. QED
    BY ONLY <2>1 DEF f
<1> HIDE DEF f
<1>14. \A i \in 0..n : f[i] \in Word
  <2> DEFINE H == {i \in 0..n : f[i] \in Word}
  <2>1. 0 \in H
    BY <1>1, <1>3, <1>8, <1>13
  <2>2. ASSUME NEW i \in 1..n, i - 1 \in H PROVE i \in H
    <3>1. i \in 0..n /\ f[i - 1] \in Word
      BY <2>2
    <3>2. f[i] = Xor(f[i - 1], kw[i])
      <4>1. f[i] = Value(i, f[i - 1])
        BY ONLY <1>13, <3>1
      <4>2. QED
        BY <1>9, <4>1
    <3>3. QED
      BY <1>4, <3>1, <3>2
  <2> HIDE DEF H
  <2>3. 0..n \subseteq H
    BY <1>1, <2>1, <2>2, UpTo
  <2>4. QED
    BY <2>3 DEF H
<1>15. \A i \in 1..n : f[i] = Xor(f[i - 1], kw[i])
  <2>1. SUFFICES ASSUME NEW i \in 1..n PROVE f[i] = Xor(f[i - 1], kw[i])
    OBVIOUS
  <2>2. i \in 0..n
    BY <1>1
  <2>3. f[i] = Value(i, f[i - 1])
    BY ONLY <1>13, <2>2
  <2>4. QED
    BY <1>9, <2>3
<1>16. f[0] = a
  <2>1. f[0] = Value(0, f[0 - 1])
    BY <1>1, <1>13
  <2>2. QED
    BY <1>8, <2>1
<1>17. f \in [0..n -> Word]
  <2>1. f = [i \in 0..n |-> f[i]]
    BY <1>13
  <2>2. QED
    BY <1>14, <2>1
<1>18. Sums(kw, f)
  BY <1>15, <1>16, <1>17 DEF Sums, n, a
<1>19. QED
  BY <1>6, <1>18 DEF n

\* So it is a word.
LEMMA ParityIn ==
  ASSUME WordLaws(Word), cipher \in {256, 512, 1024}, NEW kw \in WordBlock
  PROVE  ParityWord(kw) \in Word
<1>1. PICK F : Sums(kw, F) /\ ParityWord(kw) = F[Width - 1]
  BY ParitySums
<1>2. Width - 1 \in 0..(Width - 1)
  BY TablesHold
<1>3. QED
  BY <1>1, <1>2 DEF Sums

-----------------------------------------------------------------------------
(* Encryption and decryption *)

\* The place of a round in the trail.
At(c, r) == 4 * (c - 1) + r

\* The next m() or u() of a block, or none.
Position ==
  \/ call \in 1..Count /\ round \in 1..4 /\ mix \in 1..Pairs
  \/ call = Count + 1 /\ round = 1 /\ mix = 1

\* The blocks of tr up to n are each the round of the one before.
RoundsMade(kw, tw, tr, n) ==
  \A c \in 1..Count, r \in 1..4 :
    At(c, r) < n =>
      PartMixed(Table(c, r), Added(kw, tw, c, r), tr[At(c, r)], tr[At(c, r) + 1], Pairs)

\* An encryption in progress: the trail has the blocks before each round so
\* far, and the round in progress has made some of its words.
MixInv ==
  /\ Position /\ source \in WordBlock
  /\ trail \in Seq(WordBlock) /\ Len(trail) = At(call, round) /\ trail[1] = source
  /\ RoundsMade(k, t, trail, Len(trail))
  /\ PartMixed(Table(call, round), Added(k, t, call, round),
               trail[Len(trail)], o, mix - 1)

\* Nothing was encrypted, or the trail is that of the last encryption.
Fresh == trail = <<>> /\ last.k = <<>>
Recorded ==
  /\ trail \in Seq(WordBlock) /\ Len(trail) = At(Count + 1, 1)
  /\ last.k \in KeyWords /\ last.t \in TweakWords /\ last.cipher \in WordBlock
  /\ last.plain = trail[1]
  /\ RoundsMade(last.k, last.t, trail, Len(trail))
  /\ \A w \in 0..(Width - 1) :
       last.cipher[w] = Plus(trail[Len(trail)][w], InjectedBy(last.k, last.t, LastArgs, w))

\* A decryption in progress of what was encrypted last: the words it has taken
\* back are those before the round, the others those behind it.
Back == At(Count + 1 - call, 5 - round)
UnmixInv ==
  PartUnmixed(Table(Count + 1 - call, 5 - round), Width, trail[Back], trail[Back + 1],
              o, mix - 1)

CipherInv ==
  /\ cipher \in Ciphers /\ k \in KeyWords /\ t \in TweakWords /\ o \in WordBlock
  /\ phase \in {"idle", "mixing", "unmixing"}
  /\ phase = "mixing" => MixInv
  /\ phase # "mixing" => Fresh \/ Recorded
  /\ phase = "unmixing" =>
       /\ Position
       /\ source = last.cipher /\ k = last.k /\ t = last.t => Recorded /\ UnmixInv

\* A key schedule that was recorded is no empty one.
LEMMA FreshOrNot ==
  ASSUME cipher \in {256, 512, 1024}, NEW kw \in KeyWords
  PROVE  kw # <<>>
<1>1. DOMAIN kw = 0..Width /\ Width \in {4, 8, 16}
  BY TableFits DEF KeyWords
<1>2. 0 \in DOMAIN kw
  BY <1>1
<1>3. 0 \notin DOMAIN <<>>
  OBVIOUS
<1>4. QED
  BY <1>2, <1>3

\* Where a cipher stays, so do its tables and what is said with them.
LEMMA Steady ==
  ASSUME cipher' = cipher
  PROVE  /\ Width' = Width /\ Pairs' = Pairs /\ Count' = Count
         /\ WordBlock' = WordBlock /\ KeyWords' = KeyWords /\ TweakWords' = TweakWords
         /\ LastArgs' = LastArgs
         /\ \A c, r : Table(c, r)' = Table(c, r)
         /\ \A kw, tw, p, w : InjectedBy(kw, tw, p, w)' = InjectedBy(kw, tw, p, w)
         /\ \A kw, tw, c, r : Added(kw, tw, c, r)' = Added(kw, tw, c, r)
         /\ \A kw, tw, tr, n : RoundsMade(kw, tw, tr, n)' = RoundsMade(kw, tw, tr, n)
<1>1. Width' = Width /\ Calls' = Calls /\ Mixes' = Mixes /\ LastArgs' = LastArgs
  BY DEF Width, Calls, Mixes, LastArgs
<1>2. Pairs' = Pairs /\ Count' = Count
  BY <1>1 DEF Pairs, Count
<1>3. WordBlock' = WordBlock /\ KeyWords' = KeyWords /\ TweakWords' = TweakWords
  BY <1>1 DEF WordBlock, KeyWords, TweakWords
<1>4. \A c, r : Table(c, r)' = Table(c, r)
  BY <1>1 DEF Table
<1>5. \A kw, tw, p, w : InjectedBy(kw, tw, p, w)' = InjectedBy(kw, tw, p, w)
  BY <1>1 DEF InjectedBy
<1>6. \A kw, tw, c, r : Added(kw, tw, c, r)' = Added(kw, tw, c, r)
  BY <1>1, <1>5 DEF Added
<1>7. \A kw, tw, tr, n : RoundsMade(kw, tw, tr, n)' = RoundsMade(kw, tw, tr, n)
  BY <1>2, <1>4, <1>6 DEF RoundsMade
<1>8. QED
  BY <1>1, <1>2, <1>3, <1>4, <1>5, <1>6, <1>7

\* Steps that leave the trail and the last encryption alone keep what is said of
\* them.
LEMMA StaysRecorded ==
  ASSUME cipher' = cipher, trail' = trail, last' = last
  PROVE  (Recorded => Recorded') /\ (Fresh \/ Recorded => (Fresh \/ Recorded)')
<1>1. Recorded => Recorded'
  <2>1. /\ \A kw, tw, x, i : RoundsMade(kw, tw, x, i)' = RoundsMade(kw, tw, x, i)
        /\ \A kw, tw, p, w : InjectedBy(kw, tw, p, w)' = InjectedBy(kw, tw, p, w)
        /\ LastArgs' = LastArgs
    BY Steady
  <2>2. QED
    BY <2>1, Steady DEF Recorded, At
<1>2. QED
  BY <1>1 DEF Fresh

\* The next place after that of a mix.
LEMMA NextPosition ==
  ASSUME cipher \in {256, 512, 1024}, cipher' = cipher, Position, call <= Count,
         IF mix < Pairs
         THEN mix' = mix + 1 /\ round' = round /\ call' = call
         ELSE /\ mix' = 1
              /\ IF round < 4 THEN round' = round + 1 /\ call' = call
                              ELSE round' = 1 /\ call' = call + 1
  PROVE  /\ Position' /\ call \in 1..Count /\ round \in 1..4 /\ mix \in 1..Pairs
         /\ \/ mix' = mix + 1 /\ round' = round /\ call' = call
            \/ mix' = 1 /\ mix = Pairs /\ At(call', round') = At(call, round) + 1
<1>1. Count \in {18, 20} /\ Pairs \in Nat /\ Count' = Count /\ Pairs' = Pairs
  BY TableFits, Steady
<1>2. call \in 1..Count /\ round \in 1..4 /\ mix \in 1..Pairs
  BY <1>1 DEF Position
<1>3. CASE mix < Pairs
  BY <1>1, <1>2, <1>3 DEF Position
<1>4. CASE ~(mix < Pairs)
  <2>1. mix = Pairs /\ mix' = 1 /\ 1 \in 1..Pairs
    BY <1>1, <1>2, <1>4
  <2>2. CASE round < 4
    BY <1>1, <1>2, <1>4, <2>1, <2>2 DEF Position, At
  <2>3. CASE ~(round < 4)
    <3>1. round = 4 /\ round' = 1 /\ call' = call + 1
      BY <1>2, <1>4, <2>3
    <3>2. QED
      BY <1>1, <1>2, <2>1, <3>1 DEF Position, At
  <2>4. QED
    BY <2>2, <2>3
<1>5. QED
  BY <1>3, <1>4

\* m(): the next mix of an encryption.
LEMMA EncryptStep ==
  ASSUME WordLaws(Word), cipher \in {256, 512, 1024}, CipherInv, Encrypt
  PROVE  CipherInv'
<1>1. /\ Width \in {4, 8, 16} /\ Count \in {18, 20} /\ Pairs \in Nat
      /\ \A c \in Int, r \in 1..4 : Fits(Table(c, r), Width) /\ Len(Table(c, r)) = Pairs
  BY TableFits
<1>2. /\ phase = "mixing" /\ call <= Count /\ cipher' = cipher /\ phase' = phase
      /\ k' = k /\ t' = t /\ source' = source /\ last' = last
      /\ trail' = IF mix' = 1 THEN Append(trail, o') ELSE trail
  BY DEF Encrypt, Count
<1>3. MixInv /\ cipher \in Ciphers /\ k \in KeyWords /\ t \in TweakWords /\ o \in WordBlock
  BY <1>2 DEF CipherInv
<1> DEFINE T == Table(call, round)
           a == Added(k, t, call, round)
           m == T[mix]
           n == Len(trail)
<1>4. Mixes[Macro][round] = T
  BY DEF Macro, Table
<1>5. call \in 1..Count /\ round \in 1..4 /\ mix \in 1..Pairs
  BY <1>1, <1>2, <1>3 DEF MixInv, Position
<1>6. Fits(T, Width) /\ Len(T) = Pairs /\ a \in WordBlock /\ IsMix(m, Width)
  <2>1. Fits(T, Width) /\ Len(T) = Pairs
    BY <1>1, <1>5
  <2>2. a \in WordBlock
    BY <1>3, <1>5, AddedIn
  <2>3. Width \in Nat /\ mix \in 1..Len(T)
    BY <1>1, <1>5, <2>1
  <2> HIDE DEF T, a
  <2>4. IsMix(T[mix], Width)
    BY <2>1, <2>3, MixesOf
  <2>5. QED
    BY <2>1, <2>2, <2>4
<1>7. o' = Mixed(o, m, a[m[1]], a[m[2]])
  <2>1. \A w \in 0..(Width - 1) :
          a[w] = IF round = 1 THEN Injected(Calls[call], w) ELSE Zero
    BY InjectedIs DEF Added
  <2>2. m[1] \in 0..(Width - 1) /\ m[2] \in 0..(Width - 1)
    BY <1>6 DEF IsMix
  <2> HIDE DEF a
  <2>3. QED
    BY <1>4, <2>1, <2>2 DEF Encrypt
<1>8. /\ Position'
      /\ \/ mix' = mix + 1 /\ round' = round /\ call' = call
         \/ mix' = 1 /\ mix = Pairs /\ At(call', round') = At(call, round) + 1
  <2>1. Len(Mixes[Macro]) = 4 /\ Len(Mixes[Macro][round]) = Pairs
    <3>1. Macro \in 1..2
      BY DEF Macro
    <3>2. QED
      BY <1>4, <1>6, <3>1, TablesHold DEF TablesFit
  <2>2. Advance(Mixes[Macro])
    BY DEF Encrypt
  <2>3. QED
    BY <1>2, <1>3, <2>1, <2>2, NextPosition DEF Advance, MixInv
<1>9. /\ trail \in Seq(WordBlock) /\ n = At(call, round) /\ n \in Nat \ {0}
      /\ trail[n] \in WordBlock /\ trail[1] = source /\ source \in WordBlock
  <2>1. At(call, round) \in Nat \ {0}
    BY <1>1, <1>5 DEF At
  <2>2. QED
    BY <1>3, <2>1 DEF MixInv
<1> HIDE DEF m, a, T, n
<1>10. o' \in WordBlock /\ PartMixed(T, a, trail[n], o', mix)
  <2>1. PartMixed(T, a, trail[n], o, mix - 1)
    BY <1>3 DEF MixInv, T, a, n
  <2>2. Width \in Nat /\ mix \in 1..Len(T)
    BY <1>1, <1>5, <1>6
  <2>3. m = T[mix]
    BY DEF m
  <2>4. /\ o \in [0..(Width - 1) -> Word] /\ a \in [0..(Width - 1) -> Word]
        /\ trail[n] \in [0..(Width - 1) -> Word]
    BY <1>3, <1>6, <1>9 DEF WordBlock
  <2>5. BlockMixed(T, a, trail[n], Mixed(o, m, a[m[1]], a[m[2]]), mix, Width)
    BY ONLY WordLaws(Word), <1>6, <2>1, <2>2, <2>3, <2>4, MixStep
  <2>6. QED
    BY <1>7, <2>5 DEF BlockMixed, WordBlock
<1>11. MixInv'
  <2>1. RoundsMade(k, t, trail, n)
    BY <1>3 DEF MixInv, n
  <2>2. CASE mix' = mix + 1 /\ round' = round /\ call' = call
    <3>1. mix' # 1 /\ mix' - 1 = mix
      BY <1>5, <2>2
    <3>2. trail' = trail
      BY <1>2, <3>1
    <3>3. PartMixed(T, a, trail[n], o', mix' - 1)
      BY <1>10, <3>1
    <3>4. /\ WordBlock' = WordBlock /\ Table(call, round)' = T
          /\ Added(k, t, call, round)' = a
          /\ RoundsMade(k, t, trail, Len(trail))' = RoundsMade(k, t, trail, n)
      BY <1>2, <2>2, <3>2, Steady DEF T, a, n
    <3>5. At(call, round)' = n /\ Len(trail)' = n
      BY <1>9, <2>2, <3>2 DEF At, n
    <3>6. RoundsMade(k, t, trail, Len(trail))'
      BY <2>1, <3>4
    <3>7. PartMixed(Table(call, round), Added(k, t, call, round),
                    trail[Len(trail)], o, mix - 1)'
      BY <3>2, <3>3, <3>4, <3>5
    <3>8. QED
      BY <1>2, <1>8, <1>9, <3>2, <3>4, <3>5, <3>6, <3>7 DEF MixInv
  <2>3. CASE mix' = 1 /\ mix = Pairs /\ At(call', round') = At(call, round) + 1
    <3> DEFINE tr == Append(trail, o')
    <3>1. /\ tr \in Seq(WordBlock) /\ Len(tr) = n + 1 /\ tr[n + 1] = o'
          /\ \A i \in 1..n : tr[i] = trail[i]
      BY <1>9, <1>10 DEF n
    <3>2. trail' = tr
      BY <1>2, <2>3
    <3> HIDE DEF tr
    <3>3. RoundsMade(k, t, tr, n + 1)
      <4>1. SUFFICES ASSUME NEW c \in 1..Count, NEW r \in 1..4, At(c, r) < n + 1
                     PROVE  PartMixed(Table(c, r), Added(k, t, c, r),
                                      tr[At(c, r)], tr[At(c, r) + 1], Pairs)
        BY DEF RoundsMade
      <4>2. At(c, r) \in Nat \ {0}
        BY <1>1 DEF At
      <4>3. CASE At(c, r) < n
        <5>1. At(c, r) \in 1..n /\ At(c, r) + 1 \in 1..n
          BY <1>9, <4>2, <4>3
        <5>2. tr[At(c, r)] = trail[At(c, r)] /\ tr[At(c, r) + 1] = trail[At(c, r) + 1]
          BY <3>1, <5>1
        <5>3. QED
          BY <2>1, <4>3, <5>2 DEF RoundsMade
      <4>4. CASE ~(At(c, r) < n)
        <5>1. At(c, r) = n
          BY <1>9, <4>1, <4>2, <4>4
        <5>2. c = call /\ r = round
          <6>1. c \in Int /\ call \in Int /\ At(c, r) = At(call, round)
            BY <1>1, <1>5, <1>9, <5>1
          <6>2. QED
            BY <1>5, <6>1 DEF At
        <5>3. tr[n] = trail[n] /\ tr[n + 1] = o'
          BY <1>9, <3>1
        <5>4. PartMixed(T, a, tr[n], tr[n + 1], Pairs)
          BY <1>10, <2>3, <5>3
        <5>5. QED
          BY <5>1, <5>2, <5>4 DEF T, a
      <4>5. QED
        BY <4>3, <4>4
    <3>4. Fits(Table(call', round'), Width)
      <4>1. call' \in Int /\ round' \in 1..4
        BY <1>1, <1>8, Steady, <1>2 DEF Position
      <4>2. QED
        BY <1>1, <4>1
    <3>5. \A b : PartMixed(Table(call', round'), b, o', o', 0)
      <4>1. Width \in Nat /\ o' \in [0..(Width - 1) -> Word]
        BY <1>1, <1>10 DEF WordBlock
      <4>2. QED
        BY <3>4, <4>1, RoundEnds
    <3>6. /\ WordBlock' = WordBlock
          /\ Table(call, round)' = Table(call', round')
          /\ Added(k, t, call, round)' = Added(k, t, call', round')
          /\ RoundsMade(k, t, trail, Len(trail))' = RoundsMade(k, t, tr, n + 1)
      <4>1. Len(trail)' = n + 1
        BY <3>1, <3>2
      <4>2. RoundsMade(k, t, trail, Len(trail))' = RoundsMade(k, t, tr, n + 1)
        <5>1. \A kw, tw, x, i : RoundsMade(kw, tw, x, i)' = RoundsMade(kw, tw, x, i)
          BY <1>2, Steady
        <5>2. k' = k /\ t' = t
          BY <1>2
        <5>3. QED
          BY ONLY <3>2, <4>1, <5>1, <5>2
      <4>3. QED
        BY <1>2, <4>2, Steady
    <3>7. At(call, round)' = n + 1 /\ Len(trail)' = n + 1 /\ mix' - 1 = 0
      BY <1>9, <2>3, <3>1, <3>2 DEF At
    <3>8. tr[1] = trail[1] /\ trail'[Len(trail')] = o'
      BY <1>9, <3>1, <3>2
    <3>9. RoundsMade(k, t, trail, Len(trail))'
      BY <3>3, <3>6
    <3>10. PartMixed(Table(call, round), Added(k, t, call, round),
                     trail[Len(trail)], o, mix - 1)'
      BY <3>5, <3>6, <3>7, <3>8
    <3>11. QED
      BY <1>2, <1>8, <1>9, <3>1, <3>2, <3>6, <3>7, <3>8, <3>9, <3>10 DEF MixInv
  <2>4. QED
    BY <1>8, <2>2, <2>3
<1>12. QED
  BY <1>2, <1>3, <1>10, <1>11, Steady DEF CipherInv

\* What u() makes of words are words.
LEMMA UnmixedIn ==
  ASSUME WordLaws(Word), NEW n \in Nat, NEW m, IsMix(m, n),
         NEW u \in [0..(n - 1) -> Word], NEW a1 \in Word, NEW a2 \in Word
  PROVE  Unmixed(u, m, a1, a2) \in [0..(n - 1) -> Word]
<1> DEFINE second == Rotr(Xor(u[m[2]], u[m[1]]), m[3])
           first == Minus(u[m[1]], Plus(second, a1))
           other == Minus(second, a2)
<1>1. u[m[1]] \in Word /\ u[m[2]] \in Word /\ m[3] \in 0..63
  BY DEF IsMix
<1>2. Xor(u[m[2]], u[m[1]]) \in Word
  BY <1>1, Arithmetic
<1>3. second \in Word
  BY <1>1, <1>2, Arithmetic
<1>4. Plus(second, a1) \in Word /\ other \in Word
  BY <1>3, Arithmetic
<1>5. first \in Word
  BY <1>1, <1>4, Arithmetic
<1>6. Unmixed(u, m, a1, a2) = [u EXCEPT ![m[1]] = first, ![m[2]] = other]
  BY DEF Unmixed
<1> HIDE DEF first, other
<1>7. QED
  BY <1>4, <1>5, <1>6

\* The places of the rounds, from behind.
LEMMA BackIs ==
  \A n, c, r \in Int : At(n + 1 - c, 5 - r) = (4 * n) + 1 - At(c, r)
  BY DEF At

\* u(): the next mix that a decryption takes back.
LEMMA DecryptStep ==
  ASSUME WordLaws(Word), cipher \in {256, 512, 1024}, CipherInv, Decrypt
  PROVE  CipherInv'
<1>1. /\ Width \in {4, 8, 16} /\ Count \in {18, 20} /\ Pairs \in Nat
      /\ \A c \in Int, r \in 1..4 : Fits(Table(c, r), Width) /\ Len(Table(c, r)) = Pairs
  BY TableFits
<1>2. /\ phase = "unmixing" /\ call <= Count /\ cipher' = cipher /\ phase' = phase
      /\ k' = k /\ t' = t /\ source' = source /\ last' = last /\ trail' = trail
  <2>1. Len(Uncalls) = Count
    BY TablesHold DEF TablesFit, Count
  <2>2. QED
    BY <2>1 DEF Decrypt
<1>3. /\ Position /\ cipher \in Ciphers /\ k \in KeyWords /\ t \in TweakWords
      /\ o \in WordBlock /\ (Fresh \/ Recorded)
      /\ source = last.cipher /\ k = last.k /\ t = last.t => Recorded /\ UnmixInv
  BY <1>2 DEF CipherInv
<1> DEFINE c == Count + 1 - call
           r == 5 - round
           T == Table(c, r)
           a == Added(k, t, c, r)
           m == T[mix]
<1>4. /\ call \in 1..Count /\ round \in 1..4 /\ mix \in 1..Pairs
      /\ c \in 1..Count /\ r \in 1..4
  BY <1>1, <1>2, <1>3 DEF Position
<1>5. Unmacro = (IF c % 2 = 1 THEN 1 ELSE 2) /\ Unmacro \in 1..2
  <2>1. call % 2 = 1 <=> ~(c % 2 = 1)
    BY <1>1, <1>4
  <2>2. QED
    BY <2>1 DEF Unmacro
<1>6. Unmixes[Unmacro][round] = T /\ Len(Unmixes[Unmacro]) = 4
  BY <1>4, <1>5, TablesHold DEF TablesFit, Table
<1>7. Uncalls[call] = Calls[c]
  BY <1>4, TablesHold DEF TablesFit, Count
<1>8. Fits(T, Width) /\ Len(T) = Pairs /\ a \in WordBlock /\ IsMix(m, Width)
  <2>1. Fits(T, Width) /\ Len(T) = Pairs
    BY <1>1, <1>4
  <2>2. a \in WordBlock
    BY <1>3, <1>4, AddedIn
  <2>3. Width \in Nat /\ mix \in 1..Len(T)
    BY <1>1, <1>4, <2>1
  <2> HIDE DEF T, a
  <2>4. IsMix(T[mix], Width)
    BY <2>1, <2>3, MixesOf
  <2>5. QED
    BY <2>1, <2>2, <2>4
<1>9. o' = Unmixed(o, m, a[m[1]], a[m[2]])
  <2>1. \A w \in 0..(Width - 1) :
          a[w] = IF round = 4 THEN Injected(Uncalls[call], w) ELSE Zero
    <3>1. r = 1 <=> round = 4
      BY <1>4
    <3>2. QED
      BY <1>7, <3>1, InjectedIs DEF Added
  <2>2. m[1] \in 0..(Width - 1) /\ m[2] \in 0..(Width - 1)
    BY <1>8 DEF IsMix
  <2> HIDE DEF a
  <2>3. QED
    BY <1>6, <2>1, <2>2 DEF Decrypt
<1>10. /\ Position'
       /\ \/ mix' = mix + 1 /\ round' = round /\ call' = call
          \/ mix' = 1 /\ mix = Pairs /\ At(call', round') = At(call, round) + 1
  <2>1. Len(Unmixes[Unmacro][round]) = Pairs
    BY <1>6, <1>8
  <2>2. Advance(Unmixes[Unmacro])
    BY DEF Decrypt
  <2>3. QED
    BY <1>2, <1>3, <1>6, <2>1, <2>2, NextPosition DEF Advance
<1> HIDE DEF m, a, T
<1>11. o' \in WordBlock
  <2>1. a[m[1]] \in Word /\ a[m[2]] \in Word /\ o \in [0..(Width - 1) -> Word]
    BY <1>3, <1>8 DEF IsMix, WordBlock
  <2>2. Width \in Nat
    BY <1>1
  <2>3. Unmixed(o, m, a[m[1]], a[m[2]]) \in [0..(Width - 1) -> Word]
    BY ONLY WordLaws(Word), <1>8, <2>1, <2>2, UnmixedIn
  <2>4. QED
    BY <1>9, <2>3 DEF WordBlock
<1>12. ASSUME Recorded, UnmixInv, k = last.k, t = last.t PROVE UnmixInv'
  <2> DEFINE v == trail[Back]
             z == trail[Back + 1]
  <2>1. Back \in 1..(4 * Count) /\ Back = At(c, r) /\ Back = (4 * Count) + 1 - At(call, round)
    BY <1>1, <1>4 DEF Back, At
  <2>2. /\ trail \in Seq(WordBlock) /\ Len(trail) = (4 * Count) + 1
        /\ RoundsMade(k, t, trail, Len(trail))
    BY <1>1, <1>12 DEF Recorded, At
  <2>3. v \in WordBlock /\ z \in WordBlock
    BY <1>1, <2>1, <2>2
  <2>4. PartMixed(T, a, v, z, Pairs)
    <3>1. At(c, r) < Len(trail) /\ Back = At(c, r)
      BY <1>1, <2>1, <2>2
    <3> HIDE DEF c, r
    <3>2. PartMixed(Table(c, r), Added(k, t, c, r),
                    trail[At(c, r)], trail[At(c, r) + 1], Pairs)
      BY <1>4, <2>2, <3>1 DEF RoundsMade
    <3>3. QED
      BY <3>1, <3>2 DEF T, a
  <2>5. PartUnmixed(T, Width, v, z, o, mix - 1)
    BY <1>12 DEF UnmixInv, T
  <2> HIDE DEF v, z
  <2>6. BlockUnmixed(T, Width, v, z, Unmixed(o, m, a[m[1]], a[m[2]]), mix)
    <3>1. /\ o \in [0..(Width - 1) -> Word] /\ a \in [0..(Width - 1) -> Word]
          /\ v \in [0..(Width - 1) -> Word] /\ z \in [0..(Width - 1) -> Word]
      BY <1>3, <1>8, <2>3 DEF WordBlock
    <3>2. Width \in Nat /\ mix \in 1..Len(T) /\ m = T[mix]
      BY <1>1, <1>4, <1>8 DEF m
    <3>3. PartMixed(T, a, v, z, Len(T))
      BY <1>8, <2>4
    <3>4. QED
      BY ONLY WordLaws(Word), <1>8, <2>5, <3>1, <3>2, <3>3, UnmixStep
  <2>7. PartUnmixed(T, Width, v, z, o', mix)
    BY <1>9, <2>6 DEF BlockUnmixed
  <2>8. /\ Width' = Width /\ Count' = Count
        /\ Table(Count + 1 - call, 5 - round)' = Table(Count + 1 - call', 5 - round')
    BY <1>2, Steady
  <2>9. CASE mix' = mix + 1 /\ round' = round /\ call' = call
    <3>1. mix' - 1 = mix /\ Back' = Back
      BY <1>4, <2>8, <2>9 DEF Back, At
    <3>2. Table(Count + 1 - call, 5 - round)' = T
      BY <2>8, <2>9 DEF T
    <3>3. trail'[Back'] = v /\ trail'[Back' + 1] = z
      BY <1>2, <3>1 DEF v, z
    <3>4. QED
      BY <2>7, <2>8, <3>1, <3>2, <3>3 DEF UnmixInv
  <2>10. CASE mix' = 1 /\ mix = Pairs /\ At(call', round') = At(call, round) + 1
    <3>1. call' \in Int /\ round' \in 1..4
      BY <1>1, <1>10, <2>8 DEF Position
    <3>2. Back' = Back - 1 /\ Back' + 1 = Back
      <4>1. Back' = At(Count + 1 - call', 5 - round')
        BY <2>8 DEF Back, At
      <4>2. At(Count + 1 - call', 5 - round') = (4 * Count) + 1 - At(call', round')
        <5>1. Count \in Int /\ round' \in Int
          BY <1>1, <3>1
        <5>2. QED
          BY <3>1, <5>1, BackIs
      <4>3. At(call, round) \in Int
        BY <1>4 DEF At
      <4>4. QED
        BY <1>1, <2>1, <2>10, <4>1, <4>2, <4>3
    <3>3. trail'[Back' + 1] = v
      BY <1>2, <3>2 DEF v
    <3>4. \A w \in 0..(Width - 1) : o'[w] = v[w]
      <4>1. Width \in Nat /\ v \in [0..(Width - 1) -> Word] /\ PartUnmixed(T, Width, v, z, o', Len(T))
        BY <1>1, <1>8, <2>3, <2>7, <2>10 DEF WordBlock
      <4>2. QED
        <5>1. Fits(T, Width)
          BY <1>8
        <5> HIDE DEF T
        <5>2. QED
          BY ONLY <4>1, <5>1, RoundEnds
    <3>5. \A x : PartUnmixed(Table(Count + 1 - call', 5 - round'), Width, x, v, o', 0)
      <4>1. \A w : ~Named(Table(Count + 1 - call', 5 - round'), 0, w)
        BY DEF Named
      <4>2. QED
        BY <3>4, <4>1 DEF PartUnmixed
    <3>6. mix' - 1 = 0
      BY <2>10
    <3>7. QED
      BY <2>8, <3>3, <3>5, <3>6 DEF UnmixInv
  <2>11. QED
    BY <1>10, <2>9, <2>10
<1>13. Recorded' \/ Fresh'
  BY <1>2, <1>3, StaysRecorded
<1>14. Recorded => Recorded'
  BY <1>2, StaysRecorded
<1>15. QED
  BY <1>2, <1>3, <1>10, <1>11, <1>12, <1>13, <1>14, Steady DEF CipherInv

\* The end of an encryption: the last addition.
LEMMA EndEncryptStep ==
  ASSUME WordLaws(Word), cipher \in {256, 512, 1024}, CipherInv, EndEncrypt
  PROVE  CipherInv'
<1>1. /\ Width \in {4, 8, 16} /\ Count \in {18, 20} /\ Pairs \in Nat
      /\ \A c \in Int, r \in 1..4 : Fits(Table(c, r), Width) /\ Len(Table(c, r)) = Pairs
  BY TableFits
<1>2. /\ phase = "mixing" /\ call > Count /\ cipher' = cipher /\ phase' = "idle"
      /\ k' = k /\ t' = t /\ trail' = trail
      /\ o' = [i \in 0..(Width - 1) |-> Plus(o[i], Injected(LastArgs, i))]
      /\ last' = [plain |-> source, cipher |-> o', k |-> k, t |-> t]
  BY DEF EndEncrypt, Count, Width
<1>3. MixInv /\ cipher \in Ciphers /\ k \in KeyWords /\ t \in TweakWords /\ o \in WordBlock
  BY <1>2 DEF CipherInv
<1>4. call = Count + 1 /\ round = 1 /\ mix = 1
  BY <1>1, <1>2, <1>3 DEF MixInv, Position
<1>5. Len(trail) = At(Count + 1, 1) /\ Len(trail) \in Nat \ {0} /\ trail[Len(trail)] \in WordBlock
  BY <1>1, <1>3, <1>4 DEF MixInv, At
<1>6. o = trail[Len(trail)]
  <2>1. PartMixed(Table(Count + 1, 1), Added(k, t, Count + 1, 1), trail[Len(trail)], o, 0)
    <3>1. mix - 1 = 0
      BY <1>4
    <3>2. QED
      BY <1>3, <1>4, <3>1 DEF MixInv
  <2>2. Fits(Table(Count + 1, 1), Width) /\ Width \in Nat
    BY <1>1
  <2>3. /\ o \in [0..(Width - 1) -> Word]
        /\ trail[Len(trail)] \in [0..(Width - 1) -> Word]
    BY <1>3, <1>5 DEF WordBlock
  <2>4. QED
    BY ONLY <2>1, <2>2, <2>3, NothingMixed
<1>7. ArgsFit(LastArgs, Width)
  BY TablesHold DEF TablesFit
<1>8. \A w \in 0..(Width - 1) : Injected(LastArgs, w) = InjectedBy(k, t, LastArgs, w)
  BY InjectedIs
<1>9. \A w \in 0..(Width - 1) : InjectedBy(k, t, LastArgs, w) \in Word
  BY <1>3, <1>7, InjectedIn
<1>10. o' \in WordBlock
  <2>1. \A a, b \in Word : Plus(a, b) \in Word
    BY Arithmetic
  <2>2. \A w \in 0..(Width - 1) : o[w] \in Word
    BY <1>3 DEF WordBlock
  <2>3. QED
    BY <1>2, <1>8, <1>9, <2>1, <2>2 DEF WordBlock
<1>11. /\ last'.k = k /\ last'.t = t /\ last'.plain = source /\ last'.cipher = o'
  BY <1>2
<1>12. Recorded'
  <2>1. trail \in Seq(WordBlock) /\ trail[1] = source /\ RoundsMade(k, t, trail, Len(trail))
    BY <1>3 DEF MixInv
  <2>2. ASSUME NEW w \in 0..(Width - 1)
        PROVE  o'[w] = Plus(trail[Len(trail)][w], InjectedBy(k, t, LastArgs, w))
    BY <1>2, <1>6, <1>8
  <2>3. /\ \A kw, tw, x, i : RoundsMade(kw, tw, x, i)' = RoundsMade(kw, tw, x, i)
        /\ \A kw, tw, p, w : InjectedBy(kw, tw, p, w)' = InjectedBy(kw, tw, p, w)
        /\ LastArgs' = LastArgs /\ Width' = Width /\ Count' = Count
        /\ WordBlock' = WordBlock /\ KeyWords' = KeyWords /\ TweakWords' = TweakWords
    BY <1>2, Steady
  <2>4. RoundsMade(last.k, last.t, trail, Len(trail))'
    BY <1>2, <1>11, <2>1, <2>3
  <2>5. (\A w \in 0..(Width - 1) :
           last.cipher[w] = Plus(trail[Len(trail)][w], InjectedBy(last.k, last.t, LastArgs, w)))'
    BY <1>2, <1>11, <2>2, <2>3
  <2>6. (Len(trail) = At(Count + 1, 1))'
    BY <1>2, <1>5, <2>3 DEF At
  <2>7. QED
    BY <1>2, <1>3, <1>10, <1>11, <2>1, <2>3, <2>4, <2>5, <2>6 DEF Recorded
<1>13. QED
  BY <1>2, <1>3, <1>10, <1>12, Steady DEF CipherInv

\* A block begins, a key or a tweak is set: the cases that write no trail.
LEMMA BeginDecryptStep ==
  ASSUME WordLaws(Word), cipher \in {256, 512, 1024}, CipherInv,
         NEW block \in WordBlock, BeginDecrypt(block)
  PROVE  CipherInv'
<1>1. /\ Width \in {4, 8, 16} /\ Count \in {18, 20} /\ Pairs \in Nat
      /\ \A c \in Int, r \in 1..4 : Fits(Table(c, r), Width) /\ Len(Table(c, r)) = Pairs
  BY TableFits
<1>2. /\ phase = "idle" /\ cipher' = cipher /\ phase' = "unmixing"
      /\ k' = k /\ t' = t /\ trail' = trail /\ last' = last /\ source' = block
      /\ call' = 1 /\ round' = 1 /\ mix' = 1
      /\ o' = [i \in 0..(Width - 1) |-> Minus(block[i], Injected(LastArgs, i))]
  BY DEF BeginDecrypt, Begin, Width
<1>3. /\ cipher \in Ciphers /\ k \in KeyWords /\ t \in TweakWords /\ o \in WordBlock
      /\ (Fresh \/ Recorded)
  BY <1>2 DEF CipherInv
<1>4. ArgsFit(LastArgs, Width)
  BY TablesHold DEF TablesFit
<1>5. \A w \in 0..(Width - 1) : Injected(LastArgs, w) = InjectedBy(k, t, LastArgs, w)
  BY InjectedIs
<1>6. \A w \in 0..(Width - 1) : InjectedBy(k, t, LastArgs, w) \in Word
  BY <1>3, <1>4, InjectedIn
<1>7. o' \in WordBlock
  <2>1. \A a, b \in Word : Minus(a, b) \in Word
    BY Arithmetic
  <2>2. \A w \in 0..(Width - 1) : block[w] \in Word
    BY DEF WordBlock
  <2>3. QED
    BY <1>2, <1>5, <1>6, <2>1, <2>2 DEF WordBlock
<1>8. Position'
  <2>1. Width' = Width /\ Count' = Count /\ Pairs' = Pairs /\ 1 \in 1..Pairs
    BY <1>1, <1>2, Steady DEF Pairs
  <2>2. QED
    BY <1>1, <1>2, <2>1 DEF Position
<1>9. Recorded' \/ Fresh'
  BY <1>2, <1>3, StaysRecorded
<1>10. Recorded => Recorded'
  BY <1>2, StaysRecorded
<1>11. ASSUME block = last.cipher, k = last.k, t = last.t PROVE Recorded /\ UnmixInv'
  <2>1. Recorded
    BY <1>3, <1>11, FreshOrNot DEF Fresh
  <2>2. trail \in Seq(WordBlock) /\ Len(trail) \in Nat \ {0} /\ Len(trail) = (4 * Count) + 1
    BY <1>1, <2>1 DEF Recorded, At
  <2>3. ASSUME NEW w \in 0..(Width - 1) PROVE o'[w] = trail[Len(trail)][w]
    <3>1. trail[Len(trail)] \in WordBlock
      BY <2>2
    <3>2. trail[Len(trail)][w] \in Word
      BY ONLY <3>1, w \in 0..(Width - 1) DEF WordBlock
    <3>3. block[w] = Plus(trail[Len(trail)][w], InjectedBy(k, t, LastArgs, w))
      BY <1>11, <2>1 DEF Recorded
    <3>4. o'[w] = Minus(block[w], InjectedBy(k, t, LastArgs, w))
      BY <1>2, <1>5
    <3>5. \A a, b \in Word : Minus(Plus(a, b), b) = a
      BY Arithmetic
    <3>6. QED
      BY <1>6, <3>2, <3>3, <3>4, <3>5
  <2>4. /\ Width' = Width /\ Count' = Count
        /\ Table(Count + 1 - call, 5 - round)' = Table(Count + 1 - call', 5 - round')
    BY <1>2, Steady
  <2>5. Back' + 1 = Len(trail)
    BY <1>1, <1>2, <2>2, <2>4 DEF Back, At
  <2>6. \A w : ~Named(Table(Count + 1 - call', 5 - round'), 0, w)
    BY DEF Named
  <2>7. mix' - 1 = 0
    BY <1>2
  <2>8. \A x : PartUnmixed(Table(Count + 1 - call', 5 - round'), Width, x, trail[Len(trail)], o', 0)
    BY <2>3, <2>6 DEF PartUnmixed
  <2>9. QED
    BY <1>2, <2>1, <2>4, <2>5, <2>7, <2>8 DEF UnmixInv
<1>12. QED
  BY <1>2, <1>3, <1>7, <1>8, <1>9, <1>10, <1>11, Steady DEF CipherInv

\* The beginning of an encryption.
LEMMA BeginEncryptStep ==
  ASSUME WordLaws(Word), cipher \in {256, 512, 1024}, CipherInv,
         NEW block \in WordBlock, BeginEncrypt(block)
  PROVE  CipherInv'
<1>1. /\ Width \in {4, 8, 16} /\ Count \in {18, 20} /\ Pairs \in Nat
      /\ \A c \in Int, r \in 1..4 : Fits(Table(c, r), Width) /\ Len(Table(c, r)) = Pairs
  BY TableFits
<1>2. /\ phase = "idle" /\ cipher' = cipher /\ phase' = "mixing"
      /\ k' = k /\ t' = t /\ source' = block
      /\ call' = 1 /\ round' = 1 /\ mix' = 1 /\ o' = block /\ trail' = <<block>>
  BY DEF BeginEncrypt, Begin
<1>3. /\ Width' = Width /\ Count' = Count /\ Pairs' = Pairs
      /\ WordBlock' = WordBlock /\ KeyWords' = KeyWords /\ TweakWords' = TweakWords
      /\ \A c, r : Table(c, r)' = Table(c, r)
      /\ \A kw, tw, x, i : RoundsMade(kw, tw, x, i)' = RoundsMade(kw, tw, x, i)
  BY <1>2, Steady
<1>4. Position'
  <2>1. 1 \in 1..Pairs
    BY <1>1 DEF Pairs
  <2>2. QED
    BY <1>1, <1>2, <1>3, <2>1 DEF Position
<1>5. trail' \in Seq(WordBlock) /\ Len(trail') = 1 /\ trail'[1] = block
  BY <1>2
<1>6. RoundsMade(k, t, trail, Len(trail))'
  <2>1. \A c \in 1..Count, r \in 1..4 : ~(At(c, r) < 1)
    BY <1>1 DEF At
  <2>2. \A kw, tw, x : RoundsMade(kw, tw, x, 1)
    BY <2>1 DEF RoundsMade
  <2>3. QED
    BY <1>3, <1>5, <2>2
<1>7. PartMixed(Table(call, round), Added(k, t, call, round),
                trail[Len(trail)], o, mix - 1)'
  <2>1. Fits(Table(1, 1), Width) /\ Width \in Nat /\ block \in [0..(Width - 1) -> Word]
    BY <1>1 DEF WordBlock
  <2>2. \A b : PartMixed(Table(1, 1), b, block, block, 0)
    BY <2>1, RoundEnds
  <2>3. Table(call, round)' = Table(1, 1) /\ mix' - 1 = 0
    BY <1>2, <1>3
  <2>4. QED
    BY <1>2, <1>5, <2>2, <2>3
<1>8. (Len(trail) = At(call, round))'
  BY <1>2, <1>5 DEF At
<1>9. MixInv'
  BY <1>2, <1>3, <1>4, <1>5, <1>6, <1>7, <1>8 DEF MixInv
<1>10. QED
  BY <1>2, <1>3, <1>9 DEF CipherInv

\* tfN_set_key and tfN_set_tweak make words of the schedule.
LEMMA ScheduleStep ==
  ASSUME InputsFit, WordLaws(Word), cipher \in {256, 512, 1024}, CipherInv,
         SetKey \/ SetTweak
  PROVE  CipherInv'
<1>1. /\ phase = "idle" /\ cipher' = cipher /\ phase' = phase
      /\ trail' = trail /\ last' = last /\ o' = o
  BY DEF SetKey, SetTweak
<1>2. /\ cipher \in Ciphers /\ k \in KeyWords /\ t \in TweakWords /\ o \in WordBlock
      /\ (Fresh \/ Recorded)
  BY <1>1 DEF CipherInv
<1>3. k' \in KeyWords
  <2>1. CASE SetTweak
    BY <1>2, <2>1 DEF SetTweak
  <2>2. CASE SetKey
    <3>1. PICK kk \in Keys(cipher) :
            k' = [i \in 0..Width |-> IF i = Width THEN ParityWord(kk) ELSE kk[i]]
      BY <2>2 DEF SetKey, Width
    <3>2. kk \in WordBlock
      BY <1>2 DEF InputsFit, WordBlock, Width
    <3>3. ParityWord(kk) \in Word
      BY <3>2, ParityIn
    <3>4. Width \in Nat
      BY TableFits
    <3>5. \A i \in 0..Width : i # Width => kk[i] \in Word
      BY <3>2, <3>4 DEF WordBlock
    <3>6. QED
      BY <3>1, <3>3, <3>5 DEF KeyWords
  <2>3. QED
    BY <2>1, <2>2
<1>4. t' \in TweakWords
  <2>1. CASE SetKey
    BY <1>2, <2>1 DEF SetKey
  <2>2. CASE SetTweak
    <3>1. PICK w \in Tweaks :
            t' = [i \in 0..2 |-> IF i = 2 THEN Xor(w[1], w[2]) ELSE w[i + 1]]
      BY <2>2 DEF SetTweak
    <3>2. w[1] \in Word /\ w[2] \in Word
      BY DEF InputsFit
    <3>3. Xor(w[1], w[2]) \in Word
      <4>1. \A a, b \in Word : Xor(a, b) \in Word
        BY Arithmetic
      <4>2. QED
        BY <3>2, <4>1
    <3>4. \A i \in 0..2 : i # 2 => w[i + 1] \in Word
      <4>1. \A i \in 0..2 : i # 2 => i + 1 = 1 \/ i + 1 = 2
        OBVIOUS
      <4>2. QED
        BY <3>2, <4>1
    <3>5. QED
      BY <3>1, <3>3, <3>4 DEF TweakWords
  <2>3. QED
    BY <2>1, <2>2
<1>5. (Fresh \/ Recorded)'
  BY <1>1, <1>2, StaysRecorded
<1>6. QED
  BY <1>1, <1>2, <1>3, <1>4, <1>5, Steady DEF CipherInv

\* A cipher begins with a schedule of zeros and has encrypted nothing.
LEMMA CipherInit ==
  ASSUME InputsFit, WordLaws(Word), Init
  PROVE  CipherInv
<1>1. Zero \in Word
  BY Arithmetic
<1>2. /\ cipher \in Ciphers /\ k = [i \in 0..Width |-> Zero]
      /\ t = [i \in 0..2 |-> Zero] /\ o = [i \in 0..(Width - 1) |-> Zero]
      /\ phase = "idle" /\ trail = <<>> /\ last.k = <<>>
  BY DEF Init, Width
<1>3. k \in KeyWords /\ t \in TweakWords /\ o \in WordBlock
  BY <1>1, <1>2 DEF KeyWords, TweakWords, WordBlock
<1>4. QED
  BY <1>2, <1>3 DEF CipherInv, Fresh

LEMMA CipherNext ==
  ASSUME InputsFit, WordLaws(Word), CipherInv, [Next]_vars
  PROVE  CipherInv'
<1>1. cipher \in Ciphers /\ cipher \in {256, 512, 1024}
  BY DEF CipherInv, InputsFit
<1>2. CASE SetKey \/ SetTweak
  BY <1>1, <1>2, ScheduleStep
<1>3. ASSUME NEW block \in Blocks(cipher), BeginEncrypt(block) \/ BeginDecrypt(block)
      PROVE  CipherInv'
  <2>1. block \in WordBlock
    BY <1>1 DEF InputsFit, WordBlock, Width
  <2>2. QED
    BY <1>1, <1>3, <2>1, BeginEncryptStep, BeginDecryptStep
<1>4. CASE trail # <<>> /\ BeginDecrypt(last.cipher)
  <2>1. phase = "idle"
    BY <1>4 DEF BeginDecrypt, Begin
  <2>2. Recorded
    BY <1>4, <2>1 DEF CipherInv, Fresh
  <2>3. last.cipher \in WordBlock
    BY <2>2 DEF Recorded
  <2>4. QED
    BY <1>1, <1>4, <2>3, BeginDecryptStep
<1>5. CASE Encrypt
  BY <1>1, <1>5, EncryptStep
<1>6. CASE Decrypt
  BY <1>1, <1>6, DecryptStep
<1>7. CASE EndEncrypt
  BY <1>1, <1>7, EndEncryptStep
<1>8. CASE EndDecrypt
  <2>1. /\ phase = "unmixing" /\ phase' = "idle" /\ cipher' = cipher /\ k' = k
        /\ t' = t /\ o' = o /\ trail' = trail /\ last' = last
    BY <1>8 DEF EndDecrypt
  <2>2. (Fresh \/ Recorded)'
    BY <2>1, StaysRecorded DEF CipherInv
  <2>3. QED
    BY <2>1, <2>2, Steady DEF CipherInv
<1>9. CASE UNCHANGED vars
  <2>1. /\ cipher' = cipher /\ k' = k /\ t' = t /\ o' = o
        /\ phase' = phase /\ call' = call /\ round' = round /\ mix' = mix
        /\ trail' = trail /\ last' = last /\ source' = source
    BY <1>9 DEF vars
  <2>2. (Fresh \/ Recorded) => (Fresh \/ Recorded)'
    BY <2>1, StaysRecorded
  <2>3. Position => Position'
    BY <2>1, Steady DEF Position
  <2>4. MixInv => MixInv'
    <3>1. Table(call, round)' = Table(call, round)
          /\ Added(k, t, call, round)' = Added(k, t, call, round)
          /\ RoundsMade(k, t, trail, Len(trail))' = RoundsMade(k, t, trail, Len(trail))
      BY <2>1, Steady
    <3>2. QED
      BY <2>1, <2>3, <3>1, Steady DEF MixInv, At
  <2>5. UnmixInv => UnmixInv'
    <3>1. Count' = Count /\ Width' = Width /\ Back' = Back
          /\ Table(Count + 1 - call, 5 - round)' = Table(Count + 1 - call, 5 - round)
      BY <2>1, Steady DEF Back, At
    <3>2. QED
      BY <2>1, <3>1 DEF UnmixInv
  <2>6. Recorded => Recorded'
    BY <2>1, StaysRecorded
  <2>7. QED
    BY <2>1, <2>2, <2>3, <2>4, <2>5, <2>6, Steady DEF CipherInv
<1>10. QED
  BY <1>2, <1>3, <1>4, <1>5, <1>6, <1>7, <1>8, <1>9 DEF Next

\* tfN_decrypt gives back the block that tfN_encrypt was given when key and tweak
\* are the same: for each of the three ciphers, with the tables of their files,
\* every key, tweak and block, and every arithmetic of words in which Minus, Xor
\* and Rotr undo Plus, Xor and Rotl.
THEOREM DecryptionUndoes ==
  ASSUME WordLaws(Word)
  PROVE  Spec => []RoundTrip
<1> InputsFit
  BY ThreefishAssumption
<1>1. Init => CipherInv
  BY CipherInit
<1>2. CipherInv /\ [Next]_vars => CipherInv'
  BY CipherNext
<1>3. CipherInv => RoundTrip
  <2>1. SUFFICES ASSUME CipherInv, phase = "unmixing", call > Len(Uncalls),
                        source = last.cipher, k = last.k, t = last.t
                 PROVE  o = last.plain
    BY DEF RoundTrip
  <2>2. cipher \in {256, 512, 1024} /\ Position /\ Recorded /\ UnmixInv /\ o \in WordBlock
    BY <2>1 DEF CipherInv, InputsFit
  <2>3. Count \in {18, 20} /\ Len(Uncalls) = Count /\ Width \in {4, 8, 16}
    BY <2>2, TableFits, TablesHold DEF TablesFit, Count
  <2>4. call = Count + 1 /\ round = 1 /\ mix = 1
    BY <2>1, <2>2, <2>3 DEF Position
  <2>5. Back = 0 /\ Back + 1 = 1 /\ mix - 1 = 0
    BY <2>3, <2>4 DEF Back, At
  <2>6. \A w \in 0..(Width - 1) : o[w] = trail[1][w]
    <3>1. \A w : ~Named(Table(Count + 1 - call, 5 - round), 0, w)
      BY DEF Named
    <3>2. PartUnmixed(Table(Count + 1 - call, 5 - round), Width, trail[Back], trail[1], o, 0)
      BY <2>2, <2>5 DEF UnmixInv
    <3>3. QED
      BY <3>1, <3>2 DEF PartUnmixed
  <2>7. trail[1] \in WordBlock /\ last.plain = trail[1]
    BY <2>2, <2>3 DEF Recorded, At
  <2>8. o \in [0..(Width - 1) -> Word] /\ trail[1] \in [0..(Width - 1) -> Word]
    BY <2>2, <2>7 DEF WordBlock
  <2>9. o = [w \in 0..(Width - 1) |-> o[w]]
        /\ trail[1] = [w \in 0..(Width - 1) |-> trail[1][w]]
    BY <2>8
  <2>10. o = trail[1]
    BY ONLY <2>6, <2>9
  <2>11. QED
    BY <2>7, <2>10
<1>4. QED
  BY <1>1, <1>2, <1>3, PTL DEF Spec

-----------------------------------------------------------------------------
(* The cipher of the paper.  The code leaves a word where it is and renames *)
(* it where the paper moves it: after r rounds, the word at place i of the  *)
(* paper's block is the one at Moved(r, i) of the code's.  Four rounds move *)
(* every word back.                                                         *)

Perm(i) == Permutation[i + 1]
Moved(r, i) ==
  CASE r = 0 -> i [] r = 1 -> Perm(i) [] r = 2 -> Perm(Perm(i))
    [] r = 3 -> Perm(Perm(Perm(i))) [] OTHER -> Perm(Perm(Perm(Perm(i))))

\* The words of a permutation with its powers.
Turns(perm, n) ==
  \A i \in 0..(n - 1) :
    /\ perm[i + 1] \in 0..(n - 1) /\ perm[perm[i + 1] + 1] \in 0..(n - 1)
    /\ perm[perm[perm[i + 1] + 1] + 1] \in 0..(n - 1)
    /\ perm[perm[perm[perm[i + 1] + 1] + 1] + 1] = i

\* The mix m is that of the words a and b, with the rotation r.
MixOf(m, r, a, b) == m[1] = a /\ m[2] = b /\ m[3] = r

\* The mixes of four rounds are those of the paper's rounds from d on, with the
\* words renamed.
Renamed(table, perm, rot, d, n) ==
  \A j \in 0..((n \div 2) - 1) :
    LET a == 2 * j
        b == (2 * j) + 1
    IN  /\ MixOf(table[1][j + 1], rot[d + 1][j + 1], a, b)
        /\ MixOf(table[2][j + 1], rot[d + 2][j + 1], perm[a + 1], perm[b + 1])
        /\ MixOf(table[3][j + 1], rot[d + 3][j + 1],
                 perm[perm[a + 1] + 1], perm[perm[b + 1] + 1])
        /\ MixOf(table[4][j + 1], rot[d + 4][j + 1],
                 perm[perm[perm[a + 1] + 1] + 1], perm[perm[perm[b + 1] + 1] + 1])

\* The arguments p are those of subkey s.
ArgsOf(p, s, n) ==
  /\ \A w \in 0..(n - 4) : p[w + 1] = (s + w) % (n + 1)
  /\ p[n - 2] = (s + (n - 3)) % (n + 1) /\ p[n - 1] = s % 3
  /\ p[n] = (s + (n - 2)) % (n + 1) /\ p[n + 1] = (s + 1) % 3
  /\ p[n + 2] = (s + (n - 1)) % (n + 1) /\ p[n + 3] = s

\* The tables say what the paper says.
PaperFits(mixes, calls, args, perm, rot, n) ==
  /\ Turns(perm, n)
  /\ Renamed(mixes[1], perm, rot, 0, n) /\ Renamed(mixes[2], perm, rot, 4, n)
  /\ \A c \in 1..Len(calls) : ArgsOf(calls[c], c - 1, n)
  /\ ArgsOf(args, Len(calls), n)

\* The tables of tf256 and those of the paper.
LEMMA Paper256 ==
  PaperFits(Mixes256, Calls256, Last256, Permutation256, Rotations256, 4)
<1>1. Turns(Permutation256, 4)
  BY DEF Turns, Permutation256
<1>2. Renamed(Mixes256[1], Permutation256, Rotations256, 0, 4)
  BY DEF Renamed, MixOf, Mixes256, Permutation256, Rotations256
<1>3. Renamed(Mixes256[2], Permutation256, Rotations256, 4, 4)
  BY DEF Renamed, MixOf, Mixes256, Permutation256, Rotations256
<1>4. Len(Calls256) = 18 /\ ArgsOf(Last256, 18, 4)
  BY DEF ArgsOf, Calls256, Last256
<1>5. ASSUME NEW c \in 1..18 PROVE ArgsOf(Calls256[c], c - 1, 4)
  <2>1. CASE c = 1
    BY <2>1 DEF ArgsOf, Calls256
  <2>2. CASE c = 2
    BY <2>2 DEF ArgsOf, Calls256
  <2>3. CASE c = 3
    BY <2>3 DEF ArgsOf, Calls256
  <2>4. CASE c = 4
    BY <2>4 DEF ArgsOf, Calls256
  <2>5. CASE c = 5
    BY <2>5 DEF ArgsOf, Calls256
  <2>6. CASE c = 6
    BY <2>6 DEF ArgsOf, Calls256
  <2>7. CASE c = 7
    BY <2>7 DEF ArgsOf, Calls256
  <2>8. CASE c = 8
    BY <2>8 DEF ArgsOf, Calls256
  <2>9. CASE c = 9
    BY <2>9 DEF ArgsOf, Calls256
  <2>10. CASE c = 10
    BY <2>10 DEF ArgsOf, Calls256
  <2>11. CASE c = 11
    BY <2>11 DEF ArgsOf, Calls256
  <2>12. CASE c = 12
    BY <2>12 DEF ArgsOf, Calls256
  <2>13. CASE c = 13
    BY <2>13 DEF ArgsOf, Calls256
  <2>14. CASE c = 14
    BY <2>14 DEF ArgsOf, Calls256
  <2>15. CASE c = 15
    BY <2>15 DEF ArgsOf, Calls256
  <2>16. CASE c = 16
    BY <2>16 DEF ArgsOf, Calls256
  <2>17. CASE c = 17
    BY <2>17 DEF ArgsOf, Calls256
  <2>18. CASE c = 18
    BY <2>18 DEF ArgsOf, Calls256
  <2>19. QED
    BY <2>1, <2>2, <2>3, <2>4, <2>5, <2>6, <2>7, <2>8, <2>9, <2>10, <2>11, <2>12, <2>13, <2>14, <2>15, <2>16, <2>17, <2>18
<1>6. QED
  BY <1>1, <1>2, <1>3, <1>4, <1>5 DEF PaperFits

\* The tables of tf512 and those of the paper.
LEMMA Paper512 ==
  PaperFits(Mixes512, Calls512, Last512, Permutation512, Rotations512, 8)
<1>1. Turns(Permutation512, 8)
  BY DEF Turns, Permutation512
<1>2. Renamed(Mixes512[1], Permutation512, Rotations512, 0, 8)
  BY DEF Renamed, MixOf, Mixes512, Permutation512, Rotations512
<1>3. Renamed(Mixes512[2], Permutation512, Rotations512, 4, 8)
  BY DEF Renamed, MixOf, Mixes512, Permutation512, Rotations512
<1>4. Len(Calls512) = 18 /\ ArgsOf(Last512, 18, 8)
  BY DEF ArgsOf, Calls512, Last512
<1>5. ASSUME NEW c \in 1..18 PROVE ArgsOf(Calls512[c], c - 1, 8)
  <2>1. CASE c = 1
    BY <2>1 DEF ArgsOf, Calls512
  <2>2. CASE c = 2
    BY <2>2 DEF ArgsOf, Calls512
  <2>3. CASE c = 3
    BY <2>3 DEF ArgsOf, Calls512
  <2>4. CASE c = 4
    BY <2>4 DEF ArgsOf, Calls512
  <2>5. CASE c = 5
    BY <2>5 DEF ArgsOf, Calls512
  <2>6. CASE c = 6
    BY <2>6 DEF ArgsOf, Calls512
  <2>7. CASE c = 7
    BY <2>7 DEF ArgsOf, Calls512
  <2>8. CASE c = 8
    BY <2>8 DEF ArgsOf, Calls512
  <2>9. CASE c = 9
    BY <2>9 DEF ArgsOf, Calls512
  <2>10. CASE c = 10
    BY <2>10 DEF ArgsOf, Calls512
  <2>11. CASE c = 11
    BY <2>11 DEF ArgsOf, Calls512
  <2>12. CASE c = 12
    BY <2>12 DEF ArgsOf, Calls512
  <2>13. CASE c = 13
    BY <2>13 DEF ArgsOf, Calls512
  <2>14. CASE c = 14
    BY <2>14 DEF ArgsOf, Calls512
  <2>15. CASE c = 15
    BY <2>15 DEF ArgsOf, Calls512
  <2>16. CASE c = 16
    BY <2>16 DEF ArgsOf, Calls512
  <2>17. CASE c = 17
    BY <2>17 DEF ArgsOf, Calls512
  <2>18. CASE c = 18
    BY <2>18 DEF ArgsOf, Calls512
  <2>19. QED
    BY <2>1, <2>2, <2>3, <2>4, <2>5, <2>6, <2>7, <2>8, <2>9, <2>10, <2>11, <2>12, <2>13, <2>14, <2>15, <2>16, <2>17, <2>18
<1>6. QED
  BY <1>1, <1>2, <1>3, <1>4, <1>5 DEF PaperFits

\* The tables of tf1024 and those of the paper.
LEMMA Paper1024 ==
  PaperFits(Mixes1024, Calls1024, Last1024, Permutation1024, Rotations1024, 16)
<1>1. Turns(Permutation1024, 16)
  BY DEF Turns, Permutation1024
<1>2. Renamed(Mixes1024[1], Permutation1024, Rotations1024, 0, 16)
  BY DEF Renamed, MixOf, Mixes1024, Permutation1024, Rotations1024
<1>3. Renamed(Mixes1024[2], Permutation1024, Rotations1024, 4, 16)
  BY DEF Renamed, MixOf, Mixes1024, Permutation1024, Rotations1024
<1>4. Len(Calls1024) = 20 /\ ArgsOf(Last1024, 20, 16)
  BY DEF ArgsOf, Calls1024, Last1024
<1>5. ASSUME NEW c \in 1..20 PROVE ArgsOf(Calls1024[c], c - 1, 16)
  <2>1. CASE c = 1
    BY <2>1 DEF ArgsOf, Calls1024
  <2>2. CASE c = 2
    BY <2>2 DEF ArgsOf, Calls1024
  <2>3. CASE c = 3
    BY <2>3 DEF ArgsOf, Calls1024
  <2>4. CASE c = 4
    BY <2>4 DEF ArgsOf, Calls1024
  <2>5. CASE c = 5
    BY <2>5 DEF ArgsOf, Calls1024
  <2>6. CASE c = 6
    BY <2>6 DEF ArgsOf, Calls1024
  <2>7. CASE c = 7
    BY <2>7 DEF ArgsOf, Calls1024
  <2>8. CASE c = 8
    BY <2>8 DEF ArgsOf, Calls1024
  <2>9. CASE c = 9
    BY <2>9 DEF ArgsOf, Calls1024
  <2>10. CASE c = 10
    BY <2>10 DEF ArgsOf, Calls1024
  <2>11. CASE c = 11
    BY <2>11 DEF ArgsOf, Calls1024
  <2>12. CASE c = 12
    BY <2>12 DEF ArgsOf, Calls1024
  <2>13. CASE c = 13
    BY <2>13 DEF ArgsOf, Calls1024
  <2>14. CASE c = 14
    BY <2>14 DEF ArgsOf, Calls1024
  <2>15. CASE c = 15
    BY <2>15 DEF ArgsOf, Calls1024
  <2>16. CASE c = 16
    BY <2>16 DEF ArgsOf, Calls1024
  <2>17. CASE c = 17
    BY <2>17 DEF ArgsOf, Calls1024
  <2>18. CASE c = 18
    BY <2>18 DEF ArgsOf, Calls1024
  <2>19. CASE c = 19
    BY <2>19 DEF ArgsOf, Calls1024
  <2>20. CASE c = 20
    BY <2>20 DEF ArgsOf, Calls1024
  <2>21. QED
    BY <2>1, <2>2, <2>3, <2>4, <2>5, <2>6, <2>7, <2>8, <2>9, <2>10, <2>11, <2>12, <2>13, <2>14, <2>15, <2>16, <2>17, <2>18, <2>19, <2>20
<1>6. QED
  BY <1>1, <1>2, <1>3, <1>4, <1>5 DEF PaperFits

\* The tables of the cipher at hand and those of the paper.
LEMMA PaperHolds ==
  ASSUME cipher \in {256, 512, 1024}
  PROVE  /\ PaperFits(Mixes, Calls, LastArgs, Permutation, Rotations, Width)
         /\ Rounds = 4 * Count /\ Rounds \div 4 = Count
<1>1. CASE cipher = 256
  <2>1. Width = 4
    BY <1>1 DEF Width, Size
  <2>2. Count = 18 /\ Rounds = 72
    BY <1>1 DEF Count, Calls, Calls256, Rounds
  <2>3. QED
    BY <1>1, <2>1, <2>2, Paper256
       DEF Mixes, Calls, LastArgs, Permutation, Rotations
<1>2. CASE cipher = 512
  <2>1. Width = 8
    BY <1>2 DEF Width, Size
  <2>2. Count = 18 /\ Rounds = 72
    BY <1>2 DEF Count, Calls, Calls512, Rounds
  <2>3. QED
    BY <1>2, <2>1, <2>2, Paper512
       DEF Mixes, Calls, LastArgs, Permutation, Rotations
<1>3. CASE cipher = 1024
  <2>1. Width = 16
    BY <1>3 DEF Width, Size
  <2>2. Count = 20 /\ Rounds = 80
    BY <1>3 DEF Count, Calls, Calls1024, Rounds
  <2>3. QED
    BY <1>3, <2>1, <2>2, Paper1024
       DEF Mixes, Calls, LastArgs, Permutation, Rotations
<1>4. QED
  BY <1>1, <1>2, <1>3

-----------------------------------------------------------------------------
(* The subkeys *)

\* The last word of a key schedule is the sum of the others; the last word of
\* the tweak is the sum of the two that were given.
ParityOf(kw) == \E F : Sums(kw, F) /\ kw[Width] = F[Width - 1]
TweakOf(tw) == tw[2] = Xor(tw[0], tw[1])

\* G has the sums that the paper's key schedule makes, from behind.
Summed(kw, G) ==
  /\ G \in [0..Width -> Word]
  /\ G[Width] = Parity
  /\ \A i \in 0..(Width - 1) : G[i] = Xor(kw[i], G[i + 1])

\* The laws of sums, one by one.
LEMMA Order ==
  ASSUME OrderLaws(Word)
  PROVE  /\ \A a, b \in Word : Plus(a, b) = Plus(b, a)
         /\ \A a, b \in Word : Xor(a, b) = Xor(b, a)
         /\ \A a, b, c \in Word : Plus(a, Plus(b, c)) = Plus(Plus(a, b), c)
         /\ \A a, b, c \in Word : Xor(a, Xor(b, c)) = Xor(Xor(a, b), c)
         /\ \A a \in Word : Plus(a, Zero) = a /\ Xor(a, Zero) = a
  BY DEF OrderLaws

\* The sum from behind is the sum from the front.
LEMMA SameParity ==
  ASSUME WordLaws(Word), OrderLaws(Word), cipher \in {256, 512, 1024},
         NEW kw \in KeyWords, NEW F, Sums(kw, F), NEW G, Summed(kw, G)
  PROVE  F[Width - 1] = G[0]
<1> DEFINE n == Width - 1
<1>1. n \in Nat /\ n > 0 /\ n + 1 = Width
  BY TablesHold
<1>2. /\ Parity \in Word /\ \A i \in 0..n : kw[i] \in Word /\ F[i] \in Word
      /\ \A i \in 0..(n + 1) : G[i] \in Word
  <2>1. Parity \in Word
    BY Arithmetic
  <2>2. \A i \in 0..n : i \in 0..Width /\ i \in 0..(Width - 1)
    BY <1>1
  <2>3. \A i \in 0..n : kw[i] \in Word /\ F[i] \in Word
    BY <2>2 DEF KeyWords, Sums
  <2>4. \A i \in 0..(n + 1) : G[i] \in Word
    BY <1>1 DEF Summed
  <2>5. QED
    BY <2>1, <2>3, <2>4
<1>3. /\ F[0] = Xor(Parity, kw[0])
      /\ \A i \in 1..n : F[i] = Xor(F[i - 1], kw[i])
  BY DEF Sums
<1>4. /\ G[n + 1] = Parity
      /\ \A i \in 0..n : G[i] = Xor(kw[i], G[i + 1])
  BY <1>1 DEF Summed
<1>5. \A a, b, c \in Word : Xor(a, Xor(b, c)) = Xor(Xor(a, b), c)
  BY Order
<1> HIDE DEF n
<1> DEFINE H == {i \in 0..n : Xor(F[i], G[i + 1]) = Xor(Parity, G[0])}
<1>6. 0 \in H
  <2>1. 0 \in 0..n /\ 0 + 1 \in 0..(n + 1)
    BY <1>1
  <2>2. G[0] = Xor(kw[0], G[0 + 1])
    BY <1>4, <2>1
  <2>3. QED
    BY <1>2, <1>3, <1>5, <2>1, <2>2
<1>7. ASSUME NEW i \in 1..n, i - 1 \in H PROVE i \in H
  <2>1. i \in 0..n /\ i - 1 \in 0..n /\ i + 1 \in 0..(n + 1) /\ (i - 1) + 1 = i
    BY <1>1
  <2>2. Xor(F[i - 1], G[i]) = Xor(Parity, G[0])
    BY <1>7, <2>1
  <2>3. G[i] = Xor(kw[i], G[i + 1])
    BY <1>4, <2>1
  <2>4. F[i] = Xor(F[i - 1], kw[i])
    BY <1>3
  <2>5. F[i - 1] \in Word /\ kw[i] \in Word /\ G[i + 1] \in Word
    BY <1>2, <2>1
  <2>6. Xor(F[i], G[i + 1]) = Xor(F[i - 1], G[i])
    BY ONLY <1>5, <2>3, <2>4, <2>5
  <2>7. QED
    BY <2>1, <2>2, <2>6
<1>8. n \in H
  <2> HIDE DEF H
  <2>1. 0..n \subseteq H
    BY <1>1, <1>6, <1>7, UpTo
  <2>2. QED
    BY <1>1, <2>1
<1>9. Xor(F[n], Parity) = Xor(Parity, G[0])
  BY <1>4, <1>8
<1>10. F[n] \in Word /\ G[0] \in Word
  BY <1>1, <1>2
<1>11. Xor(Parity, G[0]) = Xor(G[0], Parity)
  BY <1>2, <1>10, Order
<1>12. \A a, b \in Word : Xor(Xor(a, b), b) = a
  BY Arithmetic
<1>13. F[n] = G[0]
  BY ONLY <1>2, <1>9, <1>10, <1>11, <1>12
<1>14. QED
  BY <1>13 DEF n

\* The sums of the paper's key schedule.
AllOf(kw) ==
  CHOOSE f : f = [i \in 0..Width |-> IF i = Width THEN Parity ELSE Xor(kw[i], f[i + 1])]

LEMMA AllIs ==
  ASSUME WordLaws(Word), cipher \in {256, 512, 1024}, NEW kw \in KeyWords
  PROVE  Summed(kw, AllOf(kw))
<1> DEFINE n == Width
           W == [j \in 1..n |-> [d \in Word |-> Xor(kw[n - j], d)]]
           Value(i, d) == IF i = n THEN Parity ELSE Xor(kw[i], d)
           f == AllOf(kw)
<1>1. n \in Nat /\ n > 0
  BY TablesHold
<1>2. /\ Parity \in Word /\ \A i \in 0..n : kw[i] \in Word
      /\ \A d, e \in Word : Xor(d, e) \in Word
  BY Arithmetic DEF KeyWords
<1>3. \A j \in 1..n, d \in Word : Xor(kw[n - j], d) \in Word
  <2>1. \A j \in 1..n : n - j \in 0..n
    BY <1>1
  <2>2. QED
    BY <1>2, <2>1
<1>4. W \in [1..n -> [Word -> Word]]
  BY <1>3
<1>5. \A j \in 1..n, d \in Word : W[j][d] = Xor(kw[n - j], d)
  OBVIOUS
<1>6. (\A d : Value(n, d) = Parity) /\ \A i : i # n => \A d : Value(i, d) = Xor(kw[i], d)
  OBVIOUS
<1>7. f = CHOOSE g : g = [i \in 0..n |-> Value(i, g[i + 1])]
  BY DEF AllOf
<1> HIDE DEF n, W, Value, f
<1>8. PICK G \in [0..n -> Word] : Follows(W, n, Parity, G)
  <2>1. n \in Nat /\ Parity \in Word
    BY <1>1, <1>2
  <2>2. QED
    BY ONLY <1>4, <2>1, Recursion
<1> DEFINE F == [i \in 0..n |-> G[n - i]]
<1>9. \A i \in 0..n : F[i] = Value(i, F[i + 1])
  <2>1. SUFFICES ASSUME NEW i \in 0..n PROVE F[i] = Value(i, F[i + 1])
    OBVIOUS
  <2>2. F[i] = G[n - i]
    OBVIOUS
  <2>3. CASE i = n
    <3>1. n - i = 0
      BY <1>1, <2>3
    <3>2. QED
      BY <1>6, <1>8, <2>2, <2>3, <3>1 DEF Follows
  <2>4. CASE i # n
    <3>1. i + 1 \in 0..n /\ n - i \in 1..n /\ n - (i + 1) = (n - i) - 1 /\ n - (n - i) = i
          /\ (n - i) - 1 \in 0..n
      BY <1>1, <2>4
    <3>2. F[i + 1] = G[(n - i) - 1]
      BY <3>1
    <3>3. G[(n - i) - 1] \in Word
      BY <3>1
    <3>4. G[n - i] = Xor(kw[i], G[(n - i) - 1])
      BY <1>5, <1>8, <3>1, <3>3 DEF Follows
    <3> HIDE DEF F
    <3>5. QED
      BY <1>6, <2>2, <2>4, <3>2, <3>4
  <2>5. QED
    BY <2>3, <2>4
<1>10. F = [i \in 0..n |-> Value(i, F[i + 1])]
  BY <1>9
<1> HIDE DEF F
<1>11. f = [i \in 0..n |-> Value(i, f[i + 1])]
  <2>1. \E g : g = [i \in 0..n |-> Value(i, g[i + 1])]
    BY ONLY <1>10
  <2>2. QED
    BY ONLY <1>7, <2>1
<1>12. \A i \in 0..n : f[i] = Value(i, f[i + 1])
  BY ONLY <1>11
<1>13. f[n] = Parity
  BY <1>1, <1>6, <1>12
<1>14. ASSUME NEW i \in 0..(n - 1) PROVE f[i] = Xor(kw[i], f[i + 1])
  <2>1. i \in 0..n /\ i # n
    BY <1>1
  <2>2. QED
    BY <1>6, <1>12, <2>1
<1>15. \A i \in 0..n : f[i] \in Word
  <2> DEFINE H == {j \in 0..n : f[n - j] \in Word}
  <2>1. 0 \in H
    BY <1>1, <1>2, <1>13
  <2>2. ASSUME NEW j \in 1..n, j - 1 \in H PROVE j \in H
    <3>1. j \in 0..n /\ n - j \in 0..(n - 1) /\ n - (j - 1) = (n - j) + 1 /\ n - j \in 0..n
      BY <1>1
    <3>2. f[(n - j) + 1] \in Word
      BY <2>2, <3>1
    <3>3. kw[n - j] \in Word
      BY <1>2, <3>1
    <3>4. f[n - j] \in Word
      BY <1>2, <1>14, <3>1, <3>2, <3>3
    <3>5. QED
      BY <3>1, <3>4
  <2> HIDE DEF H
  <2>3. 0..n \subseteq H
    BY <1>1, <2>1, <2>2, UpTo
  <2>4. ASSUME NEW i \in 0..n PROVE f[i] \in Word
    <3>1. n - i \in 0..n /\ n - (n - i) = i
      BY <1>1
    <3>2. n - i \in H
      BY <2>3, <3>1
    <3>3. QED
      BY <3>1, <3>2 DEF H
  <2>5. QED
    BY <2>4
<1>16. f \in [0..n -> Word]
  <2>1. f = [i \in 0..n |-> f[i]]
    BY <1>11
  <2>2. QED
    BY <1>15, <2>1
<1>17. QED
  BY <1>13, <1>14, <1>16 DEF Summed, n, f

\* What the code adds with the arguments of subkey s is the paper's subkey.
LEMMA SubkeyIs ==
  ASSUME WordLaws(Word), OrderLaws(Word), cipher \in {256, 512, 1024},
         NEW kw \in KeyWords, ParityOf(kw), NEW tw \in TweakWords, TweakOf(tw),
         NEW s \in Nat, NEW p, ArgsOf(p, s, Width), NEW w \in 0..(Width - 1)
  PROVE  Subkey(kw, tw, s)[w] = InjectedBy(kw, tw, p, w)
<1> DEFINE Base(i) == IF (s + i) % (Width + 1) = Width THEN AllOf(kw)[0]
                                                    ELSE kw[(s + i) % (Width + 1)]
           Twist(i) == IF i % 3 = 2 THEN Xor(tw[1], tw[0]) ELSE tw[i % 3]
<1>1. Width \in {4, 8, 16}
  BY TablesHold
<1>2. Subkey(kw, tw, s) =
        [i \in 0..(Width - 1) |->
           CASE i = Width - 3 -> Plus(Base(i), Twist(s))
             [] i = Width - 2 -> Plus(Base(i), Twist(s + 1))
             [] i = Width - 1 -> Plus(Base(i), Number(s))
             [] OTHER         -> Base(i)]
  BY DEF Subkey, Width, AllOf
<1>3. \A i : Base(i) = kw[(s + i) % (Width + 1)]
  <2>1. Summed(kw, AllOf(kw))
    BY AllIs
  <2>2. PICK F : Sums(kw, F) /\ kw[Width] = F[Width - 1]
    BY DEF ParityOf
  <2>3. kw[Width] = AllOf(kw)[0]
    BY <2>1, <2>2, SameParity
  <2>4. QED
    BY <2>3
<1>4. \A i : Twist(i) = tw[i % 3]
  <2>1. tw[0] \in Word /\ tw[1] \in Word
    BY DEF TweakWords
  <2>2. tw[2] = Xor(tw[1], tw[0])
    BY <2>1, Order DEF TweakOf
  <2>3. QED
    BY <2>2
<1> HIDE DEF Base, Twist
<1>5. Subkey(kw, tw, s)[w] =
           CASE w = Width - 3 -> Plus(Base(w), Twist(s))
             [] w = Width - 2 -> Plus(Base(w), Twist(s + 1))
             [] w = Width - 1 -> Plus(Base(w), Number(s))
             [] OTHER         -> Base(w)
  BY <1>2
<1>6. CASE w < Width - 3
  <2>1. p[w + 1] = (s + w) % (Width + 1)
    BY <1>1, <1>6 DEF ArgsOf
  <2>2. w # Width - 3 /\ w # Width - 2 /\ w # Width - 1
    BY <1>1, <1>6
  <2>3. QED
    BY <1>3, <1>5, <1>6, <2>1, <2>2 DEF InjectedBy
<1>7. CASE w = Width - 3
  <2>1. ~(w < Width - 3)
    BY <1>1, <1>7
  <2>2. p[Width - 2] = (s + w) % (Width + 1) /\ p[Width - 1] = s % 3
    BY <1>7 DEF ArgsOf
  <2>3. w # Width - 2 /\ w # Width - 1
    BY <1>1, <1>7
  <2>4. Subkey(kw, tw, s)[w] = Plus(Base(w), Twist(s))
    BY ONLY <1>5, <1>7, <2>3
  <2>5. Base(w) = kw[p[Width - 2]] /\ Twist(s) = tw[p[Width - 1]]
    BY <1>3, <1>4, <2>2
  <2>6. InjectedBy(kw, tw, p, w) = Plus(kw[p[Width - 2]], tw[p[Width - 1]])
    BY ONLY <1>7, <2>1, <2>3 DEF InjectedBy
  <2>7. QED
    BY <2>4, <2>5, <2>6
<1>8. CASE w = Width - 2
  <2>1. ~(w < Width - 3) /\ w # Width - 3
    BY <1>1, <1>8
  <2>2. p[Width] = (s + w) % (Width + 1) /\ p[Width + 1] = (s + 1) % 3
    BY <1>8 DEF ArgsOf
  <2>3. w # Width - 1
    BY <1>1, <1>8
  <2>4. Subkey(kw, tw, s)[w] = Plus(Base(w), Twist(s + 1))
    BY ONLY <1>5, <1>8, <2>1, <2>3
  <2>5. Base(w) = kw[p[Width]] /\ Twist(s + 1) = tw[p[Width + 1]]
    BY <1>3, <1>4, <2>2
  <2>6. InjectedBy(kw, tw, p, w) = Plus(kw[p[Width]], tw[p[Width + 1]])
    BY ONLY <1>8, <2>1, <2>3 DEF InjectedBy
  <2>7. QED
    BY <2>4, <2>5, <2>6
<1>9. CASE w = Width - 1
  <2>1. ~(w < Width - 3) /\ w # Width - 3 /\ w # Width - 2
    BY <1>1, <1>9
  <2>2. QED
    BY <1>3, <1>5, <1>9, <2>1 DEF InjectedBy, ArgsOf
<1>10. QED
  BY <1>1, <1>6, <1>7, <1>8, <1>9

-----------------------------------------------------------------------------
(* The rounds *)

LEMMA MovedIn ==
  ASSUME cipher \in {256, 512, 1024}, NEW i \in 0..(Width - 1)
  PROVE  /\ \A r \in 0..4 : Moved(r, i) \in 0..(Width - 1)
         /\ \A r \in 1..4 : Moved(r - 1, Perm(i)) = Moved(r, i)
         /\ Moved(0, i) = i /\ Moved(4, i) = i
<1>1. Turns(Permutation, Width)
  BY PaperHolds DEF PaperFits
<1>2. /\ Perm(i) \in 0..(Width - 1) /\ Perm(Perm(i)) \in 0..(Width - 1)
      /\ Perm(Perm(Perm(i))) \in 0..(Width - 1) /\ Perm(Perm(Perm(Perm(i)))) = i
  BY <1>1 DEF Turns, Perm
<1>3. \A r \in 0..4 : r = 0 \/ r = 1 \/ r = 2 \/ r = 3 \/ r = 4
  OBVIOUS
<1>4. \A w : /\ Moved(0, w) = w /\ Moved(1, w) = Perm(w) /\ Moved(2, w) = Perm(Perm(w))
             /\ Moved(3, w) = Perm(Perm(Perm(w))) /\ Moved(4, w) = Perm(Perm(Perm(Perm(w))))
  BY DEF Moved
<1>5. \A r \in 0..4 : Moved(r, i) \in 0..(Width - 1)
  BY <1>2, <1>3, <1>4
<1>6. \A r \in 1..4 : Moved(r - 1, Perm(i)) = Moved(r, i)
  <2>1. ASSUME NEW r \in 1..4 PROVE Moved(r - 1, Perm(i)) = Moved(r, i)
    <3>1. CASE r = 1
      BY <1>4, <3>1
    <3>2. CASE r = 2
      BY <1>4, <3>2
    <3>3. CASE r = 3
      BY <1>4, <3>3
    <3>4. CASE r = 4
      BY <1>4, <3>4
    <3>5. QED
      BY <3>1, <3>2, <3>3, <3>4
  <2>2. QED
    BY <2>1
<1>7. QED
  BY <1>2, <1>4, <1>5, <1>6

\* The mixes of a round are those of the paper's, with the words renamed.
LEMMA RoundMixes ==
  ASSUME cipher \in {256, 512, 1024}, NEW c \in 1..Count, NEW r \in 1..4,
         NEW j \in 0..(Pairs - 1), NEW d, d = (4 * (c - 1)) + (r - 1)
  PROVE  MixOf(Table(c, r)[j + 1], Rotations[(d % 8) + 1][j + 1],
               Moved(r - 1, 2 * j), Moved(r - 1, (2 * j) + 1))
<1> DEFINE h == IF c % 2 = 1 THEN 1 ELSE 2
           b == IF c % 2 = 1 THEN 0 ELSE 4
<1>1. Count \in {18, 20}
  BY TableFits
<1>2. d % 8 = b + (r - 1)
  <2>1. CASE c % 2 = 1
    BY <1>1, <2>1
  <2>2. CASE c % 2 # 1
    BY <1>1, <2>2
  <2>3. QED
    BY <2>1, <2>2
<1>3. Renamed(Mixes[h], Permutation, Rotations, b, Width)
  <2>1. /\ Renamed(Mixes[1], Permutation, Rotations, 0, Width)
        /\ Renamed(Mixes[2], Permutation, Rotations, 4, Width)
    BY PaperHolds DEF PaperFits
  <2>2. QED
    BY <2>1
<1>4. Table(c, r) = Mixes[h][r] /\ b \in Nat
  BY DEF Table
<1> HIDE DEF h, b
<1>5. j \in 0..((Width \div 2) - 1)
  BY DEF Pairs
<1>6. /\ MixOf(Mixes[h][1][j + 1], Rotations[b + 1][j + 1], 2 * j, (2 * j) + 1)
      /\ MixOf(Mixes[h][2][j + 1], Rotations[b + 2][j + 1],
               Perm(2 * j), Perm((2 * j) + 1))
      /\ MixOf(Mixes[h][3][j + 1], Rotations[b + 3][j + 1],
               Perm(Perm(2 * j)), Perm(Perm((2 * j) + 1)))
      /\ MixOf(Mixes[h][4][j + 1], Rotations[b + 4][j + 1],
               Perm(Perm(Perm(2 * j))), Perm(Perm(Perm((2 * j) + 1))))
  BY <1>3, <1>5 DEF Renamed, Perm
<1>7. \A w : /\ Moved(0, w) = w /\ Moved(1, w) = Perm(w) /\ Moved(2, w) = Perm(Perm(w))
             /\ Moved(3, w) = Perm(Perm(Perm(w)))
  BY DEF Moved
<1>8. (d % 8) + 1 = b + r
  BY <1>2, <1>4
<1>9. CASE r = 1
  BY <1>4, <1>6, <1>7, <1>8, <1>9
<1>10. CASE r = 2
  BY <1>4, <1>6, <1>7, <1>8, <1>10
<1>11. CASE r = 3
  BY <1>4, <1>6, <1>7, <1>8, <1>11
<1>12. CASE r = 4
  BY <1>4, <1>6, <1>7, <1>8, <1>12
<1>13. QED
  BY <1>9, <1>10, <1>11, <1>12

\* Round r of call c, which the paper calls d, makes y of x with the words of a
\* added; z has the sums in the paper's places.
RoundOf(c, r, d, x, y, a, z) ==
  /\ c \in 1..Count /\ r \in 1..4 /\ d = (4 * (c - 1)) + (r - 1)
  /\ x \in WordBlock /\ a \in WordBlock /\ z \in WordBlock
  /\ PartMixed(Table(c, r), a, x, y, Pairs)
  /\ \A i \in 0..(Width - 1) : z[i] = Plus(x[Moved(r - 1, i)], a[Moved(r - 1, i)])

\* The block y of the code in the paper's places after r rounds.
Placed(r, y) == [i \in 0..(Width - 1) |-> y[Moved(r, i)]]

\* What the round makes of x is what the paper's makes of the same words in
\* their places.
LEMMA RoundIs ==
  ASSUME WordLaws(Word), OrderLaws(Word), cipher \in {256, 512, 1024},
         NEW c, NEW r, NEW d, NEW x, NEW y, NEW a, NEW z, RoundOf(c, r, d, x, y, a, z)
  PROVE  MixRound(z, d) = Placed(r, y)
<1> c \in 1..Count /\ r \in 1..4 /\ d = (4 * (c - 1)) + (r - 1)
  BY DEF RoundOf
<1> x \in WordBlock /\ a \in WordBlock /\ z \in WordBlock
  BY DEF RoundOf
<1> PartMixed(Table(c, r), a, x, y, Pairs)
  BY DEF RoundOf
<1> \A i \in 0..(Width - 1) : z[i] = Plus(x[Moved(r - 1, i)], a[Moved(r - 1, i)])
  BY DEF RoundOf
<1> DEFINE Sum(j) == Plus(z[2 * j], z[(2 * j) + 1])
           New(i) == IF i % 2 = 0 THEN Sum(i \div 2)
                     ELSE Xor(Rotl(z[i], Rotations[(d % 8) + 1][(i \div 2) + 1]),
                                  Sum(i \div 2))
<1>1. Width \in {4, 8, 16} /\ Pairs = Width \div 2
  BY TableFits DEF Pairs
<1>2. DOMAIN z = 0..(Width - 1)
  BY DEF WordBlock
<1>3. MixRound(z, d) =
        [i \in 0..(Width - 1) |-> [q \in 0..(Width - 1) |-> New(q)][Permutation[i + 1]]]
  BY <1>2 DEF MixRound
<1>4. ASSUME NEW q \in 0..(Width - 1) PROVE New(q) = y[Moved(r - 1, q)]
  <2> DEFINE j == q \div 2
             m == Table(c, r)[j + 1]
             first == Moved(r - 1, 2 * j)
             other == Moved(r - 1, (2 * j) + 1)
  <2>1. /\ j \in 0..(Pairs - 1) /\ 2 * j \in 0..(Width - 1) /\ (2 * j) + 1 \in 0..(Width - 1)
        /\ IF q % 2 = 0 THEN q = 2 * j ELSE q = (2 * j) + 1
    BY <1>1
  <2> HIDE DEF j
  <2>2. MixOf(m, Rotations[(d % 8) + 1][j + 1], first, other)
    <3>1. j \in 0..(Pairs - 1) /\ d = (4 * (c - 1)) + (r - 1)
      BY <2>1
    <3> HIDE DEF m, first, other
    <3>2. MixOf(Table(c, r)[j + 1], Rotations[(d % 8) + 1][j + 1],
                Moved(r - 1, 2 * j), Moved(r - 1, (2 * j) + 1))
      BY ONLY cipher \in {256, 512, 1024}, c \in 1..Count, r \in 1..4, <3>1, RoundMixes
    <3>3. QED
      BY <3>2 DEF m, first, other
  <2>3. MixedIn(x, y, m, a)
    <3>1. Len(Table(c, r)) = Pairs /\ Pairs \in Nat
      BY <1>1, TableFits
    <3>2. j + 1 \in 1..Len(Table(c, r)) /\ j + 1 <= Pairs
      BY <2>1, <3>1
    <3>3. QED
      BY <3>2 DEF PartMixed
  <2>4. first \in 0..(Width - 1) /\ other \in 0..(Width - 1)
    <3>1. r - 1 \in 0..4
      OBVIOUS
    <3>2. QED
      BY <2>1, <3>1, MovedIn
  <2>5. z[2 * j] = Plus(x[first], a[first]) /\ z[(2 * j) + 1] = Plus(x[other], a[other])
    BY <2>1
  <2> HIDE DEF first, other, m
  <2>6. /\ x[first] \in Word /\ x[other] \in Word /\ a[first] \in Word /\ a[other] \in Word
    BY <2>4 DEF WordBlock
  <2>7. z[(2 * j) + 1] \in Word
    BY <2>1 DEF WordBlock
  <2>8. Plus(x[first], Plus(z[(2 * j) + 1], a[first])) = Sum(j)
    <3>1. (\A u, v \in Word : Plus(u, v) = Plus(v, u))
      BY Order
    <3>2. \A u, v, w \in Word : Plus(u, Plus(v, w)) = Plus(Plus(u, v), w)
      BY Order
    <3>3. Plus(z[(2 * j) + 1], a[first]) = Plus(a[first], z[(2 * j) + 1])
      BY ONLY <2>6, <2>7, <3>1
    <3>4. Plus(x[first], Plus(a[first], z[(2 * j) + 1]))
            = Plus(Plus(x[first], a[first]), z[(2 * j) + 1])
      BY ONLY <2>6, <2>7, <3>2
    <3>5. QED
      BY <2>5, <3>3, <3>4
  <2>9. /\ y[first] = Sum(j)
        /\ y[other] = Xor(Rotl(z[(2 * j) + 1], Rotations[(d % 8) + 1][j + 1]), Sum(j))
    <3>1. m[1] = first /\ m[2] = other /\ m[3] = Rotations[(d % 8) + 1][j + 1]
      BY <2>2 DEF MixOf
    <3>2. /\ y[first] = Plus(x[first], Plus(z[(2 * j) + 1], a[first]))
          /\ y[other] = Xor(Rotl(z[(2 * j) + 1], m[3]), y[first])
      BY <2>3, <2>5, <3>1 DEF MixedIn
    <3>3. QED
      BY <2>8, <3>1, <3>2
  <2> HIDE DEF Sum
  <2>10. CASE q % 2 = 0
    <3>1. New(q) = Sum(j)
      BY <2>10 DEF j
    <3>2. y[Moved(r - 1, q)] = y[first]
      BY <2>1, <2>10 DEF first
    <3>3. QED
      BY <2>9, <3>1, <3>2
  <2>11. CASE q % 2 # 0
    <3>1. New(q) = Xor(Rotl(z[q], Rotations[(d % 8) + 1][j + 1]), Sum(j))
      BY <2>11 DEF j
    <3>2. q = (2 * j) + 1
      BY <2>1, <2>11
    <3>3. y[Moved(r - 1, q)] = y[other]
      BY <3>2 DEF other
    <3>4. QED
      BY <2>9, <3>1, <3>2, <3>3
  <2>12. QED
    BY <2>10, <2>11
<1> HIDE DEF New
<1>5. ASSUME NEW i \in 0..(Width - 1)
      PROVE  [q \in 0..(Width - 1) |-> New(q)][Permutation[i + 1]] = y[Moved(r, i)]
  <2>1. 1 \in 0..4 /\ Moved(1, i) = Perm(i)
    BY DEF Moved
  <2>2. Perm(i) \in 0..(Width - 1)
    BY <2>1, MovedIn
  <2>3. Moved(r - 1, Perm(i)) = Moved(r, i)
    BY MovedIn
  <2>4. Permutation[i + 1] = Perm(i)
    BY DEF Perm
  <2>5. QED
    BY <1>4, <2>2, <2>3, <2>4
<1> DEFINE Output(i) == [q \in 0..(Width - 1) |-> New(q)][Permutation[i + 1]]
<1>6. MixRound(z, d) = [i \in 0..(Width - 1) |-> Output(i)]
  BY <1>3
<1>7. \A i \in 0..(Width - 1) : Output(i) = y[Moved(r, i)]
  BY <1>5
<1> HIDE DEF Output
<1>8. QED
  BY ONLY <1>6, <1>7 DEF Placed

\* The block before round d in the paper's places: that of the code, renamed.
Image(tr, d) == Placed(d % 4, tr[d + 1])

\* What the paper makes of the block x in the round that leads to block d.
PaperRound(kw, tw, d, x) ==
  MixRound(IF (d - 1) % 4 = 0 THEN AddWords(x, Subkey(kw, tw, (d - 1) \div 4)) ELSE x,
              d - 1)

\* The blocks of the trail are those of the paper.
LEMMA ImageIs ==
  ASSUME WordLaws(Word), OrderLaws(Word), cipher \in {256, 512, 1024},
         NEW kw \in KeyWords, ParityOf(kw), NEW tw \in TweakWords, TweakOf(tw),
         NEW tr \in Seq(WordBlock), Len(tr) = (4 * Count) + 1, RoundsMade(kw, tw, tr, Len(tr)),
         NEW d \in 1..(4 * Count)
  PROVE  Image(tr, d) = PaperRound(kw, tw, d, Image(tr, d - 1))
<1> DEFINE c == ((d - 1) \div 4) + 1
           r == ((d - 1) % 4) + 1
           x == tr[d]
           y == tr[d + 1]
           a == Added(kw, tw, c, r)
           Z == [i \in 0..(Width - 1) |-> Plus(x[Moved(r - 1, i)], a[Moved(r - 1, i)])]
<1>1. Width \in {4, 8, 16} /\ Count \in {18, 20}
  BY TableFits
<1>2. /\ c \in 1..Count /\ r \in 1..4 /\ d - 1 = (4 * (c - 1)) + (r - 1)
      /\ At(c, r) = d /\ (d - 1) \div 4 = c - 1 /\ (d - 1) % 4 = r - 1
      /\ d % 4 = (IF r = 4 THEN 0 ELSE r) /\ c - 1 \in Nat
  BY <1>1 DEF At
<1>3. x \in WordBlock /\ y \in WordBlock
  BY <1>1
<1> HIDE DEF c, r
<1>4. a \in WordBlock
  BY <1>2, AddedIn
<1>5. PartMixed(Table(c, r), a, x, y, Pairs)
  <2>1. At(c, r) < Len(tr)
    BY <1>1, <1>2
  <2>2. PartMixed(Table(c, r), Added(kw, tw, c, r), tr[At(c, r)], tr[At(c, r) + 1], Pairs)
    BY <1>2, <2>1 DEF RoundsMade
  <2>3. QED
    BY <1>2, <2>2
<1>6. \A i \in 0..(Width - 1) : a[i] = IF r = 1 THEN InjectedBy(kw, tw, Calls[c], i) ELSE Zero
  BY DEF Added
<1> HIDE DEF a, x, y
<1>7. \A i \in 0..(Width - 1) : Moved(r - 1, i) \in 0..(Width - 1)
  <2>1. r - 1 \in 0..4
    BY <1>2
  <2>2. QED
    BY <2>1, MovedIn
<1>8. Z \in WordBlock
  <2>1. \A u, v \in Word : Plus(u, v) \in Word
    BY Arithmetic
  <2>2. \A i \in 0..(Width - 1) : x[i] \in Word /\ a[i] \in Word
    BY <1>3, <1>4 DEF WordBlock
  <2>3. \A i \in 0..(Width - 1) : Plus(x[Moved(r - 1, i)], a[Moved(r - 1, i)]) \in Word
    BY <1>7, <2>1, <2>2
  <2>4. QED
    BY <2>3 DEF WordBlock
<1>9. MixRound(Z, d - 1) = Placed(r, y)
  <2>1. \A i \in 0..(Width - 1) : Z[i] = Plus(x[Moved(r - 1, i)], a[Moved(r - 1, i)])
    OBVIOUS
  <2> HIDE DEF Z
  <2>2. RoundOf(c, r, d - 1, x, y, a, Z)
    BY <1>2, <1>3, <1>4, <1>5, <1>8, <2>1 DEF RoundOf
  <2>3. QED
    BY ONLY WordLaws(Word), OrderLaws(Word), cipher \in {256, 512, 1024}, <2>2, RoundIs
<1>10. Image(tr, d - 1) = [i \in 0..(Width - 1) |-> x[Moved(r - 1, i)]]
  BY <1>2 DEF Image, Placed, x
<1>11. Z = IF (d - 1) % 4 = 0 THEN AddWords(Image(tr, d - 1), Subkey(kw, tw, (d - 1) \div 4))
           ELSE Image(tr, d - 1)
  <2>1. CASE r = 1
    <3>1. (d - 1) % 4 = 0 /\ (d - 1) \div 4 = c - 1 /\ r - 1 = 0
      BY <1>2, <2>1
    <3>2. ArgsOf(Calls[c], c - 1, Width)
      BY <1>2, PaperHolds DEF PaperFits, Count
    <3>3. ASSUME NEW i \in 0..(Width - 1)
          PROVE  Plus(x[Moved(r - 1, i)], a[Moved(r - 1, i)])
                   = Plus(x[Moved(r - 1, i)], Subkey(kw, tw, c - 1)[i])
      <4>1. Subkey(kw, tw, c - 1)[i] = InjectedBy(kw, tw, Calls[c], i)
        <5>1. c - 1 \in Nat
          BY <1>2
        <5>2. QED
          BY ONLY WordLaws(Word), OrderLaws(Word), cipher \in {256, 512, 1024},
                  kw \in KeyWords, ParityOf(kw), tw \in TweakWords, TweakOf(tw),
                  <3>2, <5>1, i \in 0..(Width - 1), SubkeyIs
      <4>2. Moved(r - 1, i) = i
        BY <3>1, MovedIn
      <4>3. QED
        BY <1>6, <2>1, <4>1, <4>2
    <3> DEFINE v == Image(tr, d - 1)
               s == Subkey(kw, tw, c - 1)
    <3>9. v = [i \in 0..(Width - 1) |-> x[Moved(r - 1, i)]]
      BY <1>10
    <3> HIDE DEF v, s
    <3>4. DOMAIN v = 0..(Width - 1) /\ \A i \in 0..(Width - 1) : v[i] = x[Moved(r - 1, i)]
      BY ONLY <3>9
    <3>5. AddWords(v, s) = [i \in 0..(Width - 1) |-> Plus(v[i], s[i])]
      BY ONLY <3>4 DEF AddWords
    <3>6. \A i \in 0..(Width - 1) : Plus(x[Moved(r - 1, i)], a[Moved(r - 1, i)]) = Plus(v[i], s[i])
      BY <3>3, <3>4 DEF s
    <3>7. Z = [i \in 0..(Width - 1) |-> Plus(v[i], s[i])]
      BY <3>6
    <3> HIDE DEF Z
    <3>8. QED
      BY <3>1, <3>5, <3>7 DEF v, s
  <2>2. CASE r # 1
    <3>1. (d - 1) % 4 # 0
      BY <1>2, <2>2
    <3>2. ASSUME NEW i \in 0..(Width - 1)
          PROVE  Plus(x[Moved(r - 1, i)], a[Moved(r - 1, i)]) = x[Moved(r - 1, i)]
      <4>1. a[Moved(r - 1, i)] = Zero /\ x[Moved(r - 1, i)] \in Word
        BY <1>3, <1>6, <1>7, <2>2 DEF WordBlock
      <4>2. \A u \in Word : Plus(u, Zero) = u
        BY Order
      <4>3. QED
        BY <4>1, <4>2
    <3>3. Z = [i \in 0..(Width - 1) |-> x[Moved(r - 1, i)]]
      BY <3>2
    <3> HIDE DEF Z
    <3>4. QED
      BY <1>10, <3>1, <3>3
  <2>3. QED
    BY <2>1, <2>2
<1>12. Image(tr, d) = Placed(r, y)
  <2>1. \A i \in 0..(Width - 1) : Moved(d % 4, i) = Moved(r, i)
    <3>1. CASE r = 4
      BY <1>2, <3>1, MovedIn
    <3>2. CASE r # 4
      BY <1>2, <3>2
    <3>3. QED
      BY <3>1, <3>2
  <2>2. QED
    BY <2>1 DEF Image, Placed, y
<1> HIDE DEF Z
<1>13. QED
  BY <1>9, <1>11, <1>12 DEF PaperRound

\* The block that an encryption writes is the paper's.
LEMMA ReferenceIs ==
  ASSUME WordLaws(Word), OrderLaws(Word), cipher \in {256, 512, 1024},
         NEW kw \in KeyWords, ParityOf(kw), NEW tw \in TweakWords, TweakOf(tw),
         NEW tr \in Seq(WordBlock), Len(tr) = (4 * Count) + 1, RoundsMade(kw, tw, tr, Len(tr)),
         NEW block \in WordBlock,
         \A w \in 0..(Width - 1) :
           block[w] = Plus(tr[Len(tr)][w], InjectedBy(kw, tw, LastArgs, w))
  PROVE  Reference(tr[1], kw, tw) = block
<1> DEFINE n == 4 * Count
           Value(d, v) == IF d = 0 THEN tr[1] ELSE PaperRound(kw, tw, d, v)
           f == CHOOSE f : f = [d \in 0..n |-> Value(d, f[d - 1])]
           F == [d \in 0..n |-> Image(tr, d)]
<1>1. /\ Width \in {4, 8, 16} /\ Count \in {18, 20} /\ n \in Nat /\ n > 0
      /\ n % 4 = 0 /\ n + 1 = Len(tr)
  BY TableFits
<1>2. Rounds = n /\ Rounds \div 4 = Count
  BY PaperHolds
<1>3. Reference(tr[1], kw, tw) = AddWords(f[n], Subkey(kw, tw, Count))
  <2> HIDE DEF n
  <2>1. QED
    BY <1>2 DEF Reference, PaperRound
<1>4. Value(0, F[0 - 1]) = tr[1] /\ \A d \in 1..n : \A v : Value(d, v) = PaperRound(kw, tw, d, v)
  BY <1>1
<1>5. \A d \in 1..n : Image(tr, d) = PaperRound(kw, tw, d, Image(tr, d - 1))
  BY ImageIs
<1>6. Image(tr, 0) = tr[1]
  <2>1. tr[1] \in [0..(Width - 1) -> Word] /\ 0 % 4 = 0 /\ 0 + 1 = 1
    BY <1>1 DEF WordBlock
  <2>2. \A i \in 0..(Width - 1) : Moved(0, i) = i
    BY DEF Moved
  <2>3. \A i \in 0..(Width - 1) : tr[0 + 1][Moved(0 % 4, i)] = tr[1][i]
    BY <2>1, <2>2
  <2>4. tr[1] = [i \in 0..(Width - 1) |-> tr[1][i]]
    <3> DEFINE b == tr[1]
    <3>1. b \in [0..(Width - 1) -> Word]
      BY <2>1
    <3> HIDE DEF b
    <3>2. b = [i \in 0..(Width - 1) |-> b[i]]
      BY ONLY <3>1
    <3>3. QED
      BY <3>2 DEF b
  <2>5. QED
    BY ONLY <2>3, <2>4 DEF Image, Placed
<1>7. \A v : Value(0, v) = tr[1]
  OBVIOUS
<1> HIDE DEF Value, n
<1>10. \A d \in 0..n : F[d] = Image(tr, d)
  OBVIOUS
<1> HIDE DEF F
<1>8. \A d \in 0..n : F[d] = Value(d, F[d - 1])
  <2>1. ASSUME NEW d \in 1..n PROVE F[d] = Value(d, F[d - 1])
    <3>1. d \in 0..n /\ d - 1 \in 0..n
      BY <1>1
    <3>2. F[d] = Image(tr, d) /\ F[d - 1] = Image(tr, d - 1)
      BY <1>10, <3>1
    <3>3. QED
      BY <1>4, <1>5, <3>2
  <2>2. F[0] = Value(0, F[0 - 1])
    <3>1. 0 \in 0..n
      BY <1>1
    <3>2. QED
      BY <1>6, <1>7, <1>10, <3>1
  <2>3. \A d \in 0..n : d = 0 \/ d \in 1..n
    BY <1>1
  <2>4. QED
    BY ONLY <2>1, <2>2, <2>3
<1>9. F = [d \in 0..n |-> Value(d, F[d - 1])]
  <2>1. F = [d \in 0..n |-> F[d]]
    BY DEF F
  <2>2. QED
    BY ONLY <1>8, <2>1
<1>11. f = [d \in 0..n |-> Value(d, f[d - 1])]
  <2>1. \E g : g = [d \in 0..n |-> Value(d, g[d - 1])]
    BY ONLY <1>9
  <2>2. QED
    BY ONLY <2>1 DEF f
<1> HIDE DEF f
<1>12. f[n] = F[n]
  <2> DEFINE H == {d \in 0..n : f[d] = F[d]}
  <2>1. \A d \in 0..n : f[d] = Value(d, f[d - 1])
    BY ONLY <1>11
  <2>2. 0 \in H
    BY <1>1, <1>7, <1>8, <2>1
  <2>3. ASSUME NEW d \in 1..n, d - 1 \in H PROVE d \in H
    <3>1. d \in 0..n /\ f[d - 1] = F[d - 1]
      BY <2>3
    <3>2. QED
      BY <1>8, <2>1, <3>1
  <2> HIDE DEF H
  <2>4. 0..n \subseteq H
    <3>1. n \in Nat
      BY <1>1
    <3>2. QED
      BY ONLY <2>2, <2>3, <3>1, UpTo
  <2>5. n \in H
    BY <1>1, <2>4
  <2>6. QED
    BY <2>5 DEF H
<1>13. F[n] = tr[n + 1]
  <2>1. n \in 0..n /\ tr[n + 1] \in [0..(Width - 1) -> Word]
    BY <1>1 DEF WordBlock
  <2>2. \A i \in 0..(Width - 1) : Moved(n % 4, i) = i
    BY <1>1 DEF Moved
  <2>3. \A i \in 0..(Width - 1) : tr[n + 1][Moved(n % 4, i)] = tr[n + 1][i]
    BY <2>2
  <2>4. tr[n + 1] = [i \in 0..(Width - 1) |-> tr[n + 1][i]]
    <3> DEFINE b == tr[n + 1]
    <3>1. b \in [0..(Width - 1) -> Word]
      BY <2>1
    <3> HIDE DEF b
    <3>2. b = [i \in 0..(Width - 1) |-> b[i]]
      BY ONLY <3>1
    <3>3. QED
      BY <3>2 DEF b
  <2>5. Image(tr, n) = tr[n + 1]
    BY ONLY <2>3, <2>4 DEF Image, Placed
  <2>6. QED
    BY <1>10, <2>1, <2>5
<1>14. ASSUME NEW w \in 0..(Width - 1)
       PROVE  Subkey(kw, tw, Count)[w] = InjectedBy(kw, tw, LastArgs, w)
  <2>1. ArgsOf(LastArgs, Count, Width) /\ Count \in Nat
    BY <1>1, PaperHolds DEF PaperFits, Count
  <2>2. QED
    BY ONLY WordLaws(Word), OrderLaws(Word), cipher \in {256, 512, 1024},
            kw \in KeyWords, ParityOf(kw), tw \in TweakWords, TweakOf(tw),
            <2>1, w \in 0..(Width - 1), SubkeyIs
<1>15. AddWords(tr[n + 1], Subkey(kw, tw, Count))
         = [w \in 0..(Width - 1) |-> Plus(tr[n + 1][w], Subkey(kw, tw, Count)[w])]
  <2>1. DOMAIN tr[n + 1] = 0..(Width - 1)
    BY <1>1 DEF WordBlock
  <2>2. QED
    BY <2>1 DEF AddWords
<1>16. \A w \in 0..(Width - 1) : block[w] = Plus(tr[n + 1][w], Subkey(kw, tw, Count)[w])
  BY <1>1, <1>14
<1>17. block = [w \in 0..(Width - 1) |-> block[w]]
  BY DEF WordBlock
<1>18. QED
  BY ONLY <1>3, <1>12, <1>13, <1>15, <1>16, <1>17

-----------------------------------------------------------------------------
(* The schedule *)

\* The schedule that encrypts has the words that the paper derives from the
\* key and the tweak, and so had that of the last encryption.
ScheduleInv ==
  /\ keyed => ParityOf(k)
  /\ TweakOf(t)
  /\ phase = "mixing" => keyed
  /\ last.k # <<>> => ParityOf(last.k) /\ TweakOf(last.t)

\* Steps that keep the schedule and the last encryption.
LEMMA ScheduleStays ==
  ASSUME cipher' = cipher, k' = k, t' = t, keyed' = keyed, last' = last,
         ScheduleInv, phase' = "mixing" => keyed
  PROVE  ScheduleInv'
<1>1. Width' = Width
  BY Steady
<1>2. \A kw : ParityOf(kw)' = ParityOf(kw)
  BY <1>1 DEF ParityOf, Sums
<1>3. QED
  BY <1>2 DEF ScheduleInv, TweakOf

\* tfN_set_key and tfN_set_tweak add the last word of each.
LEMMA ScheduleSet ==
  ASSUME InputsFit, WordLaws(Word), cipher \in {256, 512, 1024}, cipher \in Ciphers,
         ScheduleInv, SetKey \/ SetTweak
  PROVE  ScheduleInv'
<1>1. phase = "idle" /\ cipher' = cipher /\ phase' = phase /\ last' = last
  BY DEF SetKey, SetTweak
<1>2. Width' = Width /\ Width \in {4, 8, 16}
  BY <1>1, Steady, TableFits
<1>3. \A kw : ParityOf(kw)' = ParityOf(kw)
  BY <1>2 DEF ParityOf, Sums
<1>4. CASE SetKey
  <2>1. PICK kk \in Keys(cipher) :
          k' = [i \in 0..Width |-> IF i = Width THEN ParityWord(kk) ELSE kk[i]]
    BY <1>4 DEF SetKey, Width
  <2>2. t' = t
    BY <1>4 DEF SetKey
  <2>3. kk \in WordBlock
    BY DEF InputsFit, WordBlock, Width
  <2>4. PICK F : Sums(kk, F) /\ ParityWord(kk) = F[Width - 1]
    BY <2>3, ParitySums
  <2>5. k'[Width] = F[Width - 1] /\ \A i \in 0..(Width - 1) : k'[i] = kk[i]
    <3>1. Width \in 0..Width /\ \A i \in 0..(Width - 1) : i \in 0..Width /\ i # Width
      BY <1>2
    <3>2. QED
      BY <2>1, <2>4, <3>1
  <2>6. Sums(k', F)
    <3>1. 0 \in 0..(Width - 1) /\ \A i \in 1..(Width - 1) : i \in 0..(Width - 1)
      BY <1>2
    <3>2. QED
      BY <2>4, <2>5, <3>1 DEF Sums
  <2>7. ParityOf(k')
    BY <2>5, <2>6 DEF ParityOf
  <2>8. ParityOf(k)'
    BY <1>2, <2>7 DEF ParityOf, Sums
  <2>9. QED
    BY <1>1, <1>3, <2>2, <2>8 DEF ScheduleInv, TweakOf
<1>5. CASE SetTweak
  <2>1. PICK w \in Tweaks :
          t' = [i \in 0..2 |-> IF i = 2 THEN Xor(w[1], w[2]) ELSE w[i + 1]]
    BY <1>5 DEF SetTweak
  <2>2. k' = k /\ keyed' = keyed
    BY <1>5 DEF SetTweak
  <2>3. t'[2] = Xor(w[1], w[2]) /\ t'[0] = w[1] /\ t'[1] = w[2]
    BY <2>1
  <2>4. TweakOf(t)'
    BY <2>3 DEF TweakOf
  <2>5. QED
    BY <1>1, <1>3, <2>2, <2>4 DEF ScheduleInv, TweakOf
<1>6. QED
  BY <1>4, <1>5

LEMMA ScheduleNext ==
  ASSUME InputsFit, WordLaws(Word), cipher \in {256, 512, 1024}, cipher \in Ciphers,
         ScheduleInv, [Next]_vars
  PROVE  ScheduleInv'
<1>1. CASE SetKey \/ SetTweak
  BY <1>1, ScheduleSet
<1>2. ASSUME NEW block, BeginEncrypt(block) \/ BeginDecrypt(block)
      PROVE  ScheduleInv'
  <2>1. /\ cipher' = cipher /\ k' = k /\ t' = t /\ keyed' = keyed /\ last' = last
        /\ keyed
    BY <1>2 DEF BeginEncrypt, BeginDecrypt, Begin
  <2>2. QED
    BY <2>1, ScheduleStays
<1>3. CASE Encrypt \/ Decrypt \/ EndDecrypt \/ UNCHANGED vars
  <2>1. /\ cipher' = cipher /\ k' = k /\ t' = t /\ keyed' = keyed /\ last' = last
        /\ phase' = phase \/ phase' = "idle"
    BY <1>3 DEF Encrypt, Decrypt, EndDecrypt, vars
  <2>2. phase' = "mixing" => keyed
    BY <2>1 DEF ScheduleInv
  <2>3. QED
    BY <2>1, <2>2, ScheduleStays
<1>4. CASE EndEncrypt
  <2>1. /\ phase = "mixing" /\ phase' = "idle" /\ cipher' = cipher
        /\ k' = k /\ t' = t /\ keyed' = keyed
        /\ last' = [plain |-> source, cipher |-> o', k |-> k, t |-> t]
    BY <1>4 DEF EndEncrypt
  <2>2. last'.k = k /\ last'.t = t
    BY <2>1
  <2>3. ParityOf(k) /\ TweakOf(t)
    BY <2>1 DEF ScheduleInv
  <2>4. \A kw : ParityOf(kw)' = ParityOf(kw)
    <3>1. Width' = Width
      BY <2>1, Steady
    <3>2. QED
      BY <3>1 DEF ParityOf, Sums
  <2>5. QED
    BY <2>1, <2>2, <2>3, <2>4 DEF ScheduleInv, TweakOf
<1>5. QED
  BY <1>1, <1>2, <1>3, <1>4 DEF Next

\* Every block that tfN_encrypt writes is the one that the Skein paper defines:
\* for each of the three ciphers, with the tables of their files, every key,
\* tweak and block, and every arithmetic of words in which sums and exclusive
\* ors do not depend on the order of their terms.
THEOREM EncryptionIsThreefish ==
  ASSUME WordLaws(Word), OrderLaws(Word)
  PROVE  Spec => []AsSpecified
<1> InputsFit
  BY ThreefishAssumption
<1>1. Init => CipherInv /\ ScheduleInv
  <2>1. SUFFICES ASSUME Init PROVE ScheduleInv
    BY CipherInit
  <2>2. /\ keyed = FALSE /\ phase = "idle" /\ last.k = <<>>
        /\ t[0] = Zero /\ t[1] = Zero /\ t[2] = Zero
    BY <2>1 DEF Init
  <2>3. Zero \in Word
    BY Arithmetic
  <2>4. Xor(Zero, Zero) = Zero
    BY <2>3, Order
  <2>5. QED
    BY <2>2, <2>4 DEF ScheduleInv, TweakOf
<1>2. (CipherInv /\ ScheduleInv) /\ [Next]_vars => (CipherInv /\ ScheduleInv)'
  <2>1. SUFFICES ASSUME CipherInv, ScheduleInv, [Next]_vars PROVE (CipherInv /\ ScheduleInv)'
    OBVIOUS
  <2>2. cipher \in Ciphers /\ cipher \in {256, 512, 1024}
    BY <2>1 DEF CipherInv, InputsFit
  <2>3. CipherInv'
    BY <2>1, CipherNext
  <2>4. ScheduleInv'
    BY <2>1, <2>2, ScheduleNext
  <2>5. QED
    BY <2>3, <2>4
<1>3. CipherInv /\ ScheduleInv => AsSpecified
  <2>1. SUFFICES ASSUME CipherInv, ScheduleInv, phase = "idle", trail # <<>>
                 PROVE  last.cipher = Reference(last.plain, last.k, last.t)
    BY DEF AsSpecified
  <2>2. cipher \in {256, 512, 1024} /\ Recorded
    BY <2>1 DEF CipherInv, InputsFit, Fresh
  <2>3. /\ last.k \in KeyWords /\ last.t \in TweakWords /\ last.cipher \in WordBlock
        /\ trail \in Seq(WordBlock) /\ last.plain = trail[1]
        /\ RoundsMade(last.k, last.t, trail, Len(trail))
        /\ \A w \in 0..(Width - 1) :
             last.cipher[w] = Plus(trail[Len(trail)][w], InjectedBy(last.k, last.t, LastArgs, w))
    BY <2>2 DEF Recorded
  <2>4. Len(trail) = (4 * Count) + 1
    <3>1. Count \in {18, 20} /\ Len(trail) = At(Count + 1, 1)
      BY <2>2, TableFits DEF Recorded
    <3>2. QED
      BY <3>1 DEF At
  <2>5. ParityOf(last.k) /\ TweakOf(last.t)
    BY <2>1, <2>2, <2>3, FreshOrNot DEF ScheduleInv
  <2>6. Reference(trail[1], last.k, last.t) = last.cipher
    BY ONLY WordLaws(Word), OrderLaws(Word), <2>2, <2>3, <2>4, <2>5, ReferenceIs
  <2>7. QED
    BY <2>3, <2>6
<1>4. QED
  BY <1>1, <1>2, <1>3, PTL DEF Spec

-----------------------------------------------------------------------------
(* Rijndael: bytes, their digits, and exclusive or *)

Places == {1, 2, 4, 8, 16, 32, 64, 128}
Bit(a, p) == (a \div p) % 2 = 1

LEMMA SameBits ==
  ASSUME NEW a \in Byte, NEW b \in Byte, \A p \in Places : Bit(a, p) <=> Bit(b, p)
  PROVE  a = b
  BY SMTT(30) DEF Byte, Places, Bit

LEMMA Digits ==
  ASSUME NEW x1 \in 0..1, NEW x2 \in 0..1, NEW x4 \in 0..1, NEW x8 \in 0..1,
         NEW x16 \in 0..1, NEW x32 \in 0..1, NEW x64 \in 0..1, NEW x128 \in 0..1, NEW c,
         c = x1 + 2*x2 + 4*x4 + 8*x8 + 16*x16 + 32*x32 + 64*x64 + 128*x128
  PROVE  /\ c \in Byte
         /\ Bit(c, 1) <=> x1 = 1
         /\ Bit(c, 2) <=> x2 = 1
         /\ Bit(c, 4) <=> x4 = 1
         /\ Bit(c, 8) <=> x8 = 1
         /\ Bit(c, 16) <=> x16 = 1
         /\ Bit(c, 32) <=> x32 = 1
         /\ Bit(c, 64) <=> x64 = 1
         /\ Bit(c, 128) <=> x128 = 1
  BY SMTT(30) DEF Byte, Bit

LEMMA XorBits ==
  ASSUME NEW a \in Byte, NEW b \in Byte
  PROVE  /\ XorByte(a, b) \in Byte
         /\ \A p \in Places : Bit(XorByte(a, b), p) <=> ~(Bit(a, p) <=> Bit(b, p))
<1> DEFINE x(p) == ((a \div p) + (b \div p)) % 2
<1>1. \A p \in Places : x(p) \in 0..1 /\ (x(p) = 1 <=> ~(Bit(a, p) <=> Bit(b, p)))
  <2> SUFFICES ASSUME NEW p \in Places
               PROVE x(p) \in 0..1 /\ (x(p) = 1 <=> ~(Bit(a, p) <=> Bit(b, p)))
    OBVIOUS
  <2>1. a \div p \in Int /\ b \div p \in Int
    BY DEF Byte, Places
  <2> DEFINE s == a \div p
             tt == b \div p
  <2> HIDE DEF s, tt
  <2>2. (s + tt) % 2 \in 0..1 /\ ((s + tt) % 2 = 1 <=> ~(s % 2 = 1 <=> tt % 2 = 1))
    BY <2>1 DEF s, tt
  <2>3. QED
    BY <2>2 DEF s, tt, Bit
<1>2. XorByte(a, b) = x(1) + 2*x(2) + 4*x(4) + 8*x(8) + 16*x(16) + 32*x(32) + 64*x(64) + 128*x(128)
  BY <1>1 DEF XorByte, XorTable, Places
<1> HIDE DEF x
<1>3. \A p \in Places : x(p) \in 0..1
  BY <1>1
<1>4. /\ XorByte(a, b) \in Byte
      /\ Bit(XorByte(a, b), 1) <=> x(1) = 1
      /\ Bit(XorByte(a, b), 2) <=> x(2) = 1
      /\ Bit(XorByte(a, b), 4) <=> x(4) = 1
      /\ Bit(XorByte(a, b), 8) <=> x(8) = 1
      /\ Bit(XorByte(a, b), 16) <=> x(16) = 1
      /\ Bit(XorByte(a, b), 32) <=> x(32) = 1
      /\ Bit(XorByte(a, b), 64) <=> x(64) = 1
      /\ Bit(XorByte(a, b), 128) <=> x(128) = 1
  BY <1>2, <1>3, Digits DEF Places
<1>5. QED
  BY <1>1, <1>4 DEF Places

LEMMA DoubleBits ==
  ASSUME NEW b \in Byte, NEW c, c = IF b < 128 THEN 2 * b ELSE (2 * b) - 256
  PROVE  /\ c \in Byte
         /\ ~Bit(c, 1)
         /\ Bit(c, 2) <=> Bit(b, 1)
         /\ Bit(c, 4) <=> Bit(b, 2)
         /\ Bit(c, 8) <=> Bit(b, 4)
         /\ Bit(c, 16) <=> Bit(b, 8)
         /\ Bit(c, 32) <=> Bit(b, 16)
         /\ Bit(c, 64) <=> Bit(b, 32)
         /\ Bit(c, 128) <=> Bit(b, 64)
         /\ Bit(b, 128) <=> ~(b < 128)
  BY SMTT(30) DEF Byte, Bit

LEMMA TwiceBits ==
  ASSUME NEW b \in Byte
  PROVE  /\ Twice[b] \in Byte
         /\ Bit(Twice[b], 1) <=> Bit(b, 128)
         /\ Bit(Twice[b], 2) <=> ~(Bit(b, 1) <=> Bit(b, 128))
         /\ Bit(Twice[b], 4) <=> Bit(b, 2)
         /\ Bit(Twice[b], 8) <=> ~(Bit(b, 4) <=> Bit(b, 128))
         /\ Bit(Twice[b], 16) <=> ~(Bit(b, 8) <=> Bit(b, 128))
         /\ Bit(Twice[b], 32) <=> Bit(b, 16)
         /\ Bit(Twice[b], 64) <=> Bit(b, 32)
         /\ Bit(Twice[b], 128) <=> Bit(b, 64)
<1> DEFINE c == IF b < 128 THEN 2 * b ELSE (2 * b) - 256
<1>1. Twice[b] = IF b < 128 THEN c ELSE XorByte(c, 27)
  BY DEF Twice
<1>2. 27 \in Byte /\ Bit(27, 1) /\ Bit(27, 2) /\ ~Bit(27, 4) /\ Bit(27, 8) /\ Bit(27, 16)
      /\ ~Bit(27, 32) /\ ~Bit(27, 64) /\ ~Bit(27, 128)
  BY DEF Byte, Bit
<1> HIDE DEF c
<1>3. CASE b < 128
  BY <1>1, <1>3, DoubleBits DEF c
<1>4. CASE ~(b < 128)
  BY <1>1, <1>2, <1>4, DoubleBits, XorBits DEF c, Places
<1>5. QED
  BY <1>3, <1>4

\* What a sum of bytes is at one place.
LEMMA XorAt ==
  \A p \in Places : \A a, b \in Byte :
     XorByte(a, b) \in Byte /\ (Bit(XorByte(a, b), p) <=> ~(Bit(a, p) <=> Bit(b, p)))
  BY XorBits
LEMMA EqualAt ==
  \A a, b \in Byte : (\A p \in Places : Bit(a, p) <=> Bit(b, p)) => a = b
  BY SameBits

LEMMA XorLaws ==
  ASSUME NEW a \in Byte, NEW b \in Byte, NEW c \in Byte
  PROVE  /\ XorByte(a, b) = XorByte(b, a)
         /\ XorByte(XorByte(a, b), c) = XorByte(a, XorByte(b, c))
         /\ XorByte(a, a) = 0
         /\ XorByte(a, 0) = a
         /\ XorByte(XorByte(a, b), b) = a
<1>0. 0 \in Byte /\ \A p \in Places : ~Bit(0, p)
  BY DEF Byte, Places, Bit
<1> DEFINE ab == XorByte(a, b)
           bc == XorByte(b, c)
<1>1. ab \in Byte /\ \A p \in Places : Bit(ab, p) <=> ~(Bit(a, p) <=> Bit(b, p))
  BY XorBits
<1>2. bc \in Byte /\ \A p \in Places : Bit(bc, p) <=> ~(Bit(b, p) <=> Bit(c, p))
  BY XorBits
<1> HIDE DEF Bit, Places, Byte, XorByte, ab, bc
<1>3. ab = XorByte(b, a)
  <2>1. XorByte(b, a) \in Byte /\ \A p \in Places : Bit(XorByte(b, a), p) <=> ~(Bit(b, p) <=> Bit(a, p))
    BY XorBits
  <2>2. QED
    BY <1>1, <2>1, EqualAt
<1>4. XorByte(ab, c) = XorByte(a, bc)
  <2>1. /\ XorByte(ab, c) \in Byte
        /\ \A p \in Places : Bit(XorByte(ab, c), p) <=> ~(Bit(ab, p) <=> Bit(c, p))
    BY <1>1, XorBits
  <2>2. /\ XorByte(a, bc) \in Byte
        /\ \A p \in Places : Bit(XorByte(a, bc), p) <=> ~(Bit(a, p) <=> Bit(bc, p))
    BY <1>2, XorBits
  <2>3. QED
    BY <1>1, <1>2, <2>1, <2>2, EqualAt
<1>5. XorByte(a, a) = 0
  <2>1. XorByte(a, a) \in Byte /\ \A p \in Places : Bit(XorByte(a, a), p) <=> FALSE
    BY XorBits
  <2>2. QED
    BY <1>0, <2>1, SameBits
<1>6. XorByte(a, 0) = a
  <2>1. XorByte(a, 0) \in Byte /\ \A p \in Places : Bit(XorByte(a, 0), p) <=> Bit(a, p)
    BY <1>0, XorBits
  <2>2. QED
    BY <2>1, SameBits
<1>7. XorByte(ab, b) = a
  <2>1. XorByte(ab, b) \in Byte /\ \A p \in Places : Bit(XorByte(ab, b), p) <=> ~(Bit(ab, p) <=> Bit(b, p))
    BY <1>1, XorBits
  <2>2. QED
    BY <1>1, <2>1, EqualAt
<1>8. QED
  BY <1>3, <1>4, <1>5, <1>6, <1>7 DEF ab, bc

LEMMA TwiceAdds ==
  \A a, b \in Byte : Twice[XorByte(a, b)] = XorByte(Twice[a], Twice[b])
<1>1. SUFFICES ASSUME NEW a \in Byte, NEW b \in Byte
               PROVE  Twice[XorByte(a, b)] = XorByte(Twice[a], Twice[b])
  OBVIOUS
<1> DEFINE c == XorByte(a, b)
<1>2. /\ c \in Byte
      /\ \A p \in Places : Bit(c, p) <=> ~(Bit(a, p) <=> Bit(b, p))
  BY XorBits
<1> HIDE DEF c
<1>3. Twice[a] \in Byte /\ Twice[b] \in Byte /\ Twice[c] \in Byte
  BY <1>2, TwiceBits
<1> DEFINE d == XorByte(Twice[a], Twice[b])
<1>4. /\ d \in Byte
      /\ \A p \in Places : Bit(d, p) <=> ~(Bit(Twice[a], p) <=> Bit(Twice[b], p))
  BY <1>3, XorBits
<1> HIDE DEF d
<1>5. \A p \in Places : Bit(Twice[c], p) <=> Bit(d, p)
  BY <1>2, <1>4, TwiceBits DEF Places
<1>6. Twice[c] = d
  BY <1>3, <1>4, <1>5, SameBits
<1>7. QED
  BY <1>6 DEF c, d

LEMMA XorRotates ==
  \A a, b, c, d \in Byte : Xor4(a, b, c, d) = Xor4(b, c, d, a)
<1> HIDE DEF Bit, Places, Byte, XorByte
<1>1. QED
  BY ONLY XorAt, EqualAt DEF Xor4
LEMMA PairsRegroup ==
  ASSUME NEW a \in Byte, NEW b \in Byte, NEW c \in Byte, NEW d \in Byte
  PROVE  XorByte(XorByte(a, b), XorByte(c, d)) = XorByte(XorByte(a, c), XorByte(b, d))
<1> HIDE DEF Bit, Places, Byte, XorByte
<1>1. QED
  BY ONLY XorAt, EqualAt, a \in Byte, b \in Byte, c \in Byte, d \in Byte
PairsRegrouped(a, b, c, d) == XorByte(XorByte(a, b), XorByte(c, d)) = XorByte(XorByte(a, c), XorByte(b, d))
LEMMA PairsOf ==
  ASSUME NEW a \in Byte, NEW b \in Byte, NEW c \in Byte, NEW d \in Byte
  PROVE  PairsRegrouped(a, b, c, d)
  BY PairsRegroup DEF PairsRegrouped

\* The same of three pairs, and of four.
TriplesRegrouped(a, b, c, d, e, f) ==
  XorByte(XorByte(a, b), XorByte(XorByte(c, d), XorByte(e, f)))
    = XorByte(XorByte(a, XorByte(c, e)), XorByte(b, XorByte(d, f)))
LEMMA TriplesRegroup ==
  ASSUME NEW a \in Byte, NEW b \in Byte, NEW c \in Byte, NEW d \in Byte, NEW e \in Byte, NEW f \in Byte
  PROVE  TriplesRegrouped(a, b, c, d, e, f)
<1>1. XorByte(XorByte(c, d), XorByte(e, f)) = XorByte(XorByte(c, e), XorByte(d, f))
  BY PairsRegroup
<1>2. XorByte(c, e) \in Byte /\ XorByte(d, f) \in Byte
  BY XorBits
<1>3. QED
  BY <1>1, <1>2, PairsRegroup DEF TriplesRegrouped
SumsRegrouped(a, b, c, d, e, f, g, h) ==
  Xor4(XorByte(a, e), XorByte(b, f), XorByte(c, g), XorByte(d, h))
    = XorByte(Xor4(a, b, c, d), Xor4(e, f, g, h))
LEMMA XorOfSums ==
  ASSUME NEW a \in Byte, NEW b \in Byte, NEW c \in Byte, NEW d \in Byte,
         NEW e \in Byte, NEW f \in Byte, NEW g \in Byte, NEW h \in Byte
  PROVE  SumsRegrouped(a, b, c, d, e, f, g, h)
<1>1. /\ XorByte(XorByte(a, e), XorByte(b, f)) = XorByte(XorByte(a, b), XorByte(e, f))
      /\ XorByte(XorByte(c, g), XorByte(d, h)) = XorByte(XorByte(c, d), XorByte(g, h))
  BY PairsRegroup
<1> DEFINE ab == XorByte(a, b)
           cd == XorByte(c, d)
           ef == XorByte(e, f)
           gh == XorByte(g, h)
<1>2. ab \in Byte /\ cd \in Byte /\ ef \in Byte /\ gh \in Byte
  BY XorBits
<1> HIDE DEF ab, cd, ef, gh
<1>3. XorByte(XorByte(ab, ef), XorByte(cd, gh)) = XorByte(XorByte(ab, cd), XorByte(ef, gh))
  BY <1>2, PairsRegroup
<1>4. QED
  BY <1>1, <1>3 DEF SumsRegrouped, Xor4, ab, cd, ef, gh

\* The products of the tables in terms of doubling.
LEMMA Products ==
  ASSUME NEW b \in Byte
  PROVE  LET b2 == Twice[b]
             b4 == Twice[b2]
             b8 == Twice[b4]
         IN /\ {b2, b4, b8} \subseteq Byte
            /\ Times(2, b) = b2
            /\ Times(3, b) = XorByte(b2, b)
            /\ Times(9, b) = XorByte(b8, b)
            /\ Times(11, b) = XorByte(b8, XorByte(b2, b))
            /\ Times(13, b) = XorByte(b8, XorByte(b4, b))
            /\ Times(14, b) = XorByte(b8, XorByte(b4, b2))
<1> DEFINE b2 == Twice[b]
           b4 == Twice[b2]
           b8 == Twice[b4]
           c == Twice[b8]
           Term(n, p, x) == IF (n \div p) % 2 = 1 THEN x ELSE 0
<1>1. b2 \in Byte /\ b4 \in Byte /\ b8 \in Byte /\ c \in Byte
  BY TwiceBits
<1>2. 0 \in Byte /\ Xor4(0, 0, 0, 0) = 0
  <2>1. 0 \in Byte
    BY DEF Byte
  <2>2. XorByte(0, 0) = 0
    BY <2>1, XorLaws
  <2>3. QED
    BY <2>1, <2>2 DEF Xor4
<1>3. ASSUME NEW n \in {2, 3, 9, 11, 13, 14}
      PROVE  Times(n, b) = XorByte(Xor4(Term(n, 1, b), Term(n, 2, b2), Term(n, 4, b4), Term(n, 8, b8)), 0)
  <2>1. n \div 16 = 0 /\ n \div 32 = 0 /\ n \div 64 = 0 /\ n \div 128 = 0
    OBVIOUS
  <2>2. \A x : Term(n, 16, x) = 0 /\ Term(n, 32, x) = 0 /\ Term(n, 64, x) = 0 /\ Term(n, 128, x) = 0
    BY <2>1
  <2> HIDE DEF Term
  <2>3. Times(n, b) = XorByte(Xor4(Term(n, 1, b), Term(n, 2, b2), Term(n, 4, b4), Term(n, 8, b8)),
             Xor4(Term(n, 16, c), Term(n, 32, Twice[c]), Term(n, 64, Twice[Twice[c]]), Term(n, 128, Twice[Twice[Twice[c]]])))
    BY Zenon DEF Times, Term
  <2>4. QED
    BY <1>2, <2>2, <2>3
<1> HIDE DEF b2, b4, b8, c
<1>4. \A x \in Byte : XorByte(x, 0) = x /\ XorByte(0, x) = x
  BY <1>2, XorLaws
<1>5. \A x, y \in Byte : XorByte(x, y) \in Byte /\ XorByte(x, y) = XorByte(y, x)
  BY XorBits, XorLaws
<1>6. \A x, y, z \in Byte : XorByte(XorByte(x, y), z) = XorByte(x, XorByte(y, z))
  BY XorLaws
<1>7. Times(2, b) = b2
  <2>1. Times(2, b) = XorByte(Xor4(0, b2, 0, 0), 0)
    BY <1>3
  <2>2. QED
    BY <1>1, <1>2, <1>4, <2>1 DEF Xor4
<1>8. Times(3, b) = XorByte(b2, b)
  <2>1. Times(3, b) = XorByte(Xor4(b, b2, 0, 0), 0)
    BY <1>3
  <2>2. QED
    BY <1>1, <1>2, <1>4, <1>5, <2>1 DEF Xor4
<1>9. Times(9, b) = XorByte(b8, b)
  <2>1. Times(9, b) = XorByte(Xor4(b, 0, 0, b8), 0)
    BY <1>3
  <2>2. QED
    BY <1>1, <1>2, <1>4, <1>5, <2>1 DEF Xor4
<1>10. Times(11, b) = XorByte(b8, XorByte(b2, b))
  <2>1. Times(11, b) = XorByte(Xor4(b, b2, 0, b8), 0)
    BY <1>3
  <2>2. QED
    BY <1>1, <1>2, <1>4, <1>5, <2>1 DEF Xor4
<1>11. Times(13, b) = XorByte(b8, XorByte(b4, b))
  <2>1. Times(13, b) = XorByte(Xor4(b, 0, b4, b8), 0)
    BY <1>3
  <2>2. QED
    BY <1>1, <1>2, <1>4, <1>5, <1>6, <2>1 DEF Xor4
<1>12. Times(14, b) = XorByte(b8, XorByte(b4, b2))
  <2>1. Times(14, b) = XorByte(Xor4(0, b2, b4, b8), 0)
    BY <1>3
  <2>2. QED
    BY <1>1, <1>2, <1>4, <1>5, <1>6, <2>1 DEF Xor4
<1>13. QED
  BY <1>1, <1>7, <1>8, <1>9, <1>10, <1>11, <1>12 DEF b2, b4, b8


\* A column of MixColumns and one of its inverse, as the tables make them.
Mixing(a, b, c, d) == Xor4(Times(2, a), Times(3, b), c, d)
Unmixing(a, b, c, d) == Xor4(Times(14, a), Times(11, b), Times(13, c), Times(9, d))

LEMMA MixIsByte ==
  ASSUME NEW a \in Byte, NEW b \in Byte, NEW c \in Byte, NEW d \in Byte
  PROVE  Mixing(a, b, c, d) \in Byte /\ Unmixing(a, b, c, d) \in Byte
<1>1. {Times(2, a), Times(3, b), Times(14, a), Times(11, b), Times(13, c), Times(9, d)} \subseteq Byte
  <2>1. Times(2, a) \in Byte /\ Times(14, a) \in Byte
    BY Products, XorBits
  <2>2. Times(3, b) \in Byte /\ Times(11, b) \in Byte
    BY Products, XorBits
  <2>3. Times(13, c) \in Byte /\ Times(9, d) \in Byte
    BY Products, XorBits
  <2>4. QED
    BY <2>1, <2>2, <2>3
<1>2. QED
  BY <1>1, XorBits DEF Mixing, Unmixing, Xor4

\* Products distribute over sums.
LEMMA ProductsAdd ==
  ASSUME NEW a \in Byte, NEW b \in Byte, NEW n \in {9, 11, 13, 14}
  PROVE  Times(n, XorByte(a, b)) = XorByte(Times(n, a), Times(n, b))
<1> DEFINE c == XorByte(a, b)
           a2 == Twice[a]
           b2 == Twice[b]
           a4 == Twice[a2]
           b4 == Twice[b2]
           a8 == Twice[a4]
           b8 == Twice[b4]
<1>1. /\ a \in Byte /\ b \in Byte /\ c \in Byte
      /\ a2 \in Byte /\ b2 \in Byte /\ a4 \in Byte /\ b4 \in Byte /\ a8 \in Byte /\ b8 \in Byte
  BY TwiceBits, XorBits
<1>2. Twice[c] = XorByte(a2, b2) /\ XorByte(a2, b2) \in Byte
  BY <1>1, TwiceAdds, XorBits
<1>3. Twice[Twice[c]] = XorByte(a4, b4) /\ XorByte(a4, b4) \in Byte
  <2>1. a4 = Twice[a2] /\ b4 = Twice[b2]
    OBVIOUS
  <2> HIDE DEF a2, b2, a4, b4, c
  <2>2. Twice[XorByte(a2, b2)] = XorByte(Twice[a2], Twice[b2])
    BY <1>1, TwiceAdds
  <2>3. QED
    BY <1>1, <1>2, <2>1, <2>2, XorBits
<1>4. Twice[Twice[Twice[c]]] = XorByte(a8, b8) /\ XorByte(a8, b8) \in Byte
  <2>1. a8 = Twice[a4] /\ b8 = Twice[b4]
    OBVIOUS
  <2> HIDE DEF a4, b4, a8, b8, c
  <2>2. Twice[XorByte(a4, b4)] = XorByte(Twice[a4], Twice[b4])
    BY <1>1, TwiceAdds
  <2>3. QED
    BY <1>1, <1>3, <2>1, <2>2, XorBits
<1>5. /\ Times(9, a) = XorByte(a8, a)
      /\ Times(11, a) = XorByte(a8, XorByte(a2, a))
      /\ Times(13, a) = XorByte(a8, XorByte(a4, a))
      /\ Times(14, a) = XorByte(a8, XorByte(a4, a2))
  BY Products
<1>6. /\ Times(9, b) = XorByte(b8, b)
      /\ Times(11, b) = XorByte(b8, XorByte(b2, b))
      /\ Times(13, b) = XorByte(b8, XorByte(b4, b))
      /\ Times(14, b) = XorByte(b8, XorByte(b4, b2))
  BY Products
<1> HIDE DEF a2, b2, a4, b4, a8, b8
<1>7. /\ Times(9, c) = XorByte(XorByte(a8, b8), XorByte(a, b))
      /\ Times(11, c) = XorByte(XorByte(a8, b8), XorByte(XorByte(a2, b2), XorByte(a, b)))
      /\ Times(13, c) = XorByte(XorByte(a8, b8), XorByte(XorByte(a4, b4), XorByte(a, b)))
      /\ Times(14, c) = XorByte(XorByte(a8, b8), XorByte(XorByte(a4, b4), XorByte(a2, b2)))
  <2> HIDE DEF c
  <2>1. /\ Times(9, c) = XorByte(XorByte(a8, b8), c)
        /\ Times(11, c) = XorByte(XorByte(a8, b8), XorByte(XorByte(a2, b2), c))
        /\ Times(13, c) = XorByte(XorByte(a8, b8), XorByte(XorByte(a4, b4), c))
        /\ Times(14, c) = XorByte(XorByte(a8, b8), XorByte(XorByte(a4, b4), XorByte(a2, b2)))
    BY <1>1, <1>2, <1>3, <1>4, Products
  <2>2. QED
    BY <2>1 DEF c
<1>8. CASE n = 9
  BY <1>1, <1>5, <1>6, <1>7, <1>8, PairsRegroup DEF c
<1>9. CASE n = 11
  <2>1. TriplesRegrouped(a8, b8, a2, b2, a, b)
    BY <1>1, TriplesRegroup
  <2>2. QED
    BY <1>5, <1>6, <1>7, <1>9, <2>1 DEF c, TriplesRegrouped
<1>10. CASE n = 13
  <2>1. TriplesRegrouped(a8, b8, a4, b4, a, b)
    BY <1>1, TriplesRegroup
  <2>2. QED
    BY <1>5, <1>6, <1>7, <1>10, <2>1 DEF c, TriplesRegrouped
<1>11. CASE n = 14
  <2>1. TriplesRegrouped(a8, b8, a4, b4, a2, b2)
    BY <1>1, TriplesRegroup
  <2>2. QED
    BY <1>5, <1>6, <1>7, <1>11, <2>1 DEF c, TriplesRegrouped
<1>12. QED
  BY <1>8, <1>9, <1>10, <1>11

\* Unmixing goes over a sum of columns.
UnmixAdded(a, b, c, d, e, f, g, h) ==
  Unmixing(XorByte(a, e), XorByte(b, f), XorByte(c, g), XorByte(d, h))
    = XorByte(Unmixing(a, b, c, d), Unmixing(e, f, g, h))
LEMMA UnmixAdds ==
  ASSUME NEW a \in Byte, NEW b \in Byte, NEW c \in Byte, NEW d \in Byte,
         NEW e \in Byte, NEW f \in Byte, NEW g \in Byte, NEW h \in Byte
  PROVE  UnmixAdded(a, b, c, d, e, f, g, h)
<1>1. /\ Times(14, XorByte(a, e)) = XorByte(Times(14, a), Times(14, e))
      /\ Times(11, XorByte(b, f)) = XorByte(Times(11, b), Times(11, f))
      /\ Times(13, XorByte(c, g)) = XorByte(Times(13, c), Times(13, g))
      /\ Times(9, XorByte(d, h)) = XorByte(Times(9, d), Times(9, h))
  BY ProductsAdd
<1>2. \A x \in Byte : {Times(14, x), Times(11, x), Times(13, x), Times(9, x)} \subseteq Byte
  <2>1. SUFFICES ASSUME NEW x \in Byte
                 PROVE {Times(14, x), Times(11, x), Times(13, x), Times(9, x)} \subseteq Byte
    OBVIOUS
  <2>2. QED
    BY Products, XorBits
<1>3. /\ Times(14, a) \in Byte /\ Times(14, e) \in Byte /\ Times(11, b) \in Byte /\ Times(11, f) \in Byte
      /\ Times(13, c) \in Byte /\ Times(13, g) \in Byte /\ Times(9, d) \in Byte /\ Times(9, h) \in Byte
  BY <1>2
<1>4. SumsRegrouped(Times(14, a), Times(11, b), Times(13, c), Times(9, d),
                    Times(14, e), Times(11, f), Times(13, g), Times(9, h))
  BY ONLY <1>3, XorOfSums
<1>5. QED
  BY <1>1, <1>4 DEF Unmixing, SumsRegrouped, UnmixAdded

\* What remains of the sum of a column once the doubled terms are gathered.
RestRegrouped(a, a2, a4, b, b2, c, c4, d) ==
  Xor4(XorByte(a4, a2), XorByte(b2, b), XorByte(c4, c), d)
    = XorByte(XorByte(a4, c4), XorByte(XorByte(a2, b2), XorByte(b, XorByte(c, d))))
LEMMA RestRegroup ==
  ASSUME NEW a \in Byte, NEW a2 \in Byte, NEW a4 \in Byte, NEW b \in Byte, NEW b2 \in Byte,
         NEW c \in Byte, NEW c4 \in Byte, NEW d \in Byte
  PROVE  RestRegrouped(a, a2, a4, b, b2, c, c4, d)
<1> DEFINE x1 == XorByte(a4, a2)
           x2 == XorByte(b2, b)
           x3 == XorByte(c4, c)
           x4 == XorByte(x1, x2)
           x5 == XorByte(x3, d)
           l == XorByte(x4, x5)
           y1 == XorByte(a4, c4)
           y2 == XorByte(a2, b2)
           y3 == XorByte(c, d)
           y4 == XorByte(b, y3)
           y5 == XorByte(y2, y4)
           r == XorByte(y1, y5)
<1>1. /\ x1 \in Byte /\ x2 \in Byte /\ x3 \in Byte
      /\ \A p \in Places : /\ Bit(x1, p) <=> ~(Bit(a4, p) <=> Bit(a2, p))
                           /\ Bit(x2, p) <=> ~(Bit(b2, p) <=> Bit(b, p))
                           /\ Bit(x3, p) <=> ~(Bit(c4, p) <=> Bit(c, p))
  BY XorBits
<1>2. /\ y1 \in Byte /\ y2 \in Byte /\ y3 \in Byte
      /\ \A p \in Places : /\ Bit(y1, p) <=> ~(Bit(a4, p) <=> Bit(c4, p))
                           /\ Bit(y2, p) <=> ~(Bit(a2, p) <=> Bit(b2, p))
                           /\ Bit(y3, p) <=> ~(Bit(c, p) <=> Bit(d, p))
  BY XorBits
<1> HIDE DEF x1, x2, x3, y1, y2, y3
<1>3. /\ x4 \in Byte /\ x5 \in Byte /\ y4 \in Byte
      /\ \A p \in Places : /\ Bit(x4, p) <=> ~(Bit(x1, p) <=> Bit(x2, p))
                           /\ Bit(x5, p) <=> ~(Bit(x3, p) <=> Bit(d, p))
                           /\ Bit(y4, p) <=> ~(Bit(b, p) <=> Bit(y3, p))
  BY <1>1, <1>2, XorBits
<1> HIDE DEF x4, x5, y4
<1>4. /\ l \in Byte /\ y5 \in Byte
      /\ \A p \in Places : /\ Bit(l, p) <=> ~(Bit(x4, p) <=> Bit(x5, p))
                           /\ Bit(y5, p) <=> ~(Bit(y2, p) <=> Bit(y4, p))
  BY <1>2, <1>3, XorBits
<1> HIDE DEF l, y5
<1>5. r \in Byte /\ \A p \in Places : Bit(r, p) <=> ~(Bit(y1, p) <=> Bit(y5, p))
  BY <1>2, <1>4, XorBits
<1> HIDE DEF r
<1>6. ASSUME NEW p \in Places PROVE Bit(l, p) <=> Bit(r, p)
  BY <1>1, <1>2, <1>3, <1>4, <1>5
<1>7. l = r
  BY <1>4, <1>5, <1>6, SameBits
<1>8. QED
  BY <1>7 DEF RestRegrouped, Xor4, l, r, x1, x2, x3, x4, x5, y1, y2, y3, y4, y5

LEMMA TwiceOfFour ==
  ASSUME NEW a \in Byte, NEW b \in Byte, NEW c \in Byte, NEW d \in Byte
  PROVE  /\ Xor4(a, b, c, d) \in Byte
         /\ Twice[Xor4(a, b, c, d)] = Xor4(Twice[a], Twice[b], Twice[c], Twice[d])
<1>1. XorByte(a, b) \in Byte /\ XorByte(c, d) \in Byte
  BY XorBits
<1>2. Twice[XorByte(a, b)] = XorByte(Twice[a], Twice[b]) /\ Twice[XorByte(c, d)] = XorByte(Twice[c], Twice[d])
  BY TwiceAdds
<1>3. Twice[XorByte(XorByte(a, b), XorByte(c, d))] = XorByte(Twice[XorByte(a, b)], Twice[XorByte(c, d)])
  BY <1>1, TwiceAdds
<1>4. QED
  BY <1>1, <1>2, <1>3, XorBits DEF Xor4

\* The inverse of a column in terms of doubling.
UnmixFactored(a, b, c, d) ==
  Unmixing(a, b, c, d)
    = XorByte(Twice[Twice[Twice[Xor4(a, b, c, d)]]],
              XorByte(Twice[Twice[XorByte(a, c)]],
                      XorByte(Twice[XorByte(a, b)], XorByte(b, XorByte(c, d)))))
LEMMA UnmixFactors ==
  ASSUME NEW a \in Byte, NEW b \in Byte, NEW c \in Byte, NEW d \in Byte
  PROVE  UnmixFactored(a, b, c, d)
<1> DEFINE a2 == Twice[a]
           b2 == Twice[b]
           c2 == Twice[c]
           dd2 == Twice[d]
           a4 == Twice[a2]
           b4 == Twice[b2]
           c4 == Twice[c2]
           dd4 == Twice[dd2]
           a8 == Twice[a4]
           b8 == Twice[b4]
           c8 == Twice[c4]
           dd8 == Twice[dd4]
<1>1. /\ a2 \in Byte /\ b2 \in Byte /\ c2 \in Byte /\ dd2 \in Byte
      /\ a4 \in Byte /\ b4 \in Byte /\ c4 \in Byte /\ dd4 \in Byte
      /\ a8 \in Byte /\ b8 \in Byte /\ c8 \in Byte /\ dd8 \in Byte
  BY TwiceBits
<1>2. /\ Times(14, a) = XorByte(a8, XorByte(a4, a2))
      /\ Times(11, b) = XorByte(b8, XorByte(b2, b))
      /\ Times(13, c) = XorByte(c8, XorByte(c4, c))
      /\ Times(9, d) = XorByte(dd8, d)
  BY Products
<1>3. a4 = Twice[a2] /\ c4 = Twice[c2]
  OBVIOUS
<1>4. Twice[Twice[Twice[Xor4(a, b, c, d)]]] = Xor4(a8, b8, c8, dd8)
  <2>1. Xor4(a, b, c, d) \in Byte /\ Twice[Xor4(a, b, c, d)] = Xor4(a2, b2, c2, dd2)
    BY TwiceOfFour
  <2> HIDE DEF a2, b2, c2, dd2
  <2>2. Twice[Xor4(a2, b2, c2, dd2)] = Xor4(a4, b4, c4, dd4)
    BY <1>1, TwiceOfFour
  <2> HIDE DEF a4, b4, c4, dd4
  <2>3. Twice[Xor4(a4, b4, c4, dd4)] = Xor4(a8, b8, c8, dd8)
    BY <1>1, TwiceOfFour
  <2>4. QED
    BY <2>1, <2>2, <2>3
<1>5. Twice[XorByte(a, b)] = XorByte(a2, b2)
  BY TwiceAdds
<1>6. Twice[Twice[XorByte(a, c)]] = XorByte(a4, c4)
  <2>1. Twice[XorByte(a, c)] = XorByte(a2, c2)
    BY TwiceAdds
  <2> HIDE DEF a2, c2, a4, c4
  <2>2. Twice[XorByte(a2, c2)] = XorByte(Twice[a2], Twice[c2])
    BY <1>1, TwiceAdds
  <2>3. QED
    BY <1>3, <2>1, <2>2
<1> HIDE DEF a2, b2, c2, dd2, a4, b4, c4, dd4, a8, b8, c8, dd8
<1> DEFINE a6 == XorByte(a4, a2)
           b3 == XorByte(b2, b)
           c5 == XorByte(c4, c)
<1>7. /\ a6 \in Byte /\ b3 \in Byte /\ c5 \in Byte
  BY <1>1, XorBits
<1>8. SumsRegrouped(a8, b8, c8, dd8, a6, b3, c5, d)
  <2> HIDE DEF a6, b3, c5
  <2>1. QED
    BY <1>1, <1>7, XorOfSums
<1>9. RestRegrouped(a, a2, a4, b, b2, c, c4, d)
  BY <1>1, RestRegroup
<1>10. QED
  BY <1>2, <1>4, <1>5, <1>6, <1>8, <1>9 DEF UnmixFactored, Unmixing, SumsRegrouped, RestRegrouped

\* Terms that cancel each other.
Cancelled(a, b, c, d) ==
  /\ XorByte(XorByte(d, a), XorByte(d, b)) = XorByte(a, b)
  /\ XorByte(XorByte(a, b), XorByte(b, c)) = XorByte(a, c)
  /\ XorByte(XorByte(a, b), a) = b
  /\ XorByte(a, XorByte(XorByte(a, b), XorByte(XorByte(b, c), XorByte(c, d)))) = d
LEMMA Cancel ==
  ASSUME NEW a \in Byte, NEW b \in Byte, NEW c \in Byte, NEW d \in Byte
  PROVE  Cancelled(a, b, c, d)
<1>1. ASSUME NEW x \in Byte, NEW y \in Byte, NEW z \in Byte
      PROVE  XorByte(XorByte(x, y), XorByte(y, z)) = XorByte(x, z)
  <2> DEFINE xy == XorByte(x, y)
             yz == XorByte(y, z)
             xz == XorByte(x, z)
  <2>1. /\ xy \in Byte /\ yz \in Byte /\ xz \in Byte
        /\ \A p \in Places : /\ Bit(xy, p) <=> ~(Bit(x, p) <=> Bit(y, p))
                             /\ Bit(yz, p) <=> ~(Bit(y, p) <=> Bit(z, p))
                             /\ Bit(xz, p) <=> ~(Bit(x, p) <=> Bit(z, p))
    BY XorBits
  <2> HIDE DEF xy, yz, xz
  <2>2. /\ XorByte(xy, yz) \in Byte
        /\ \A p \in Places : Bit(XorByte(xy, yz), p) <=> ~(Bit(xy, p) <=> Bit(yz, p))
    BY <2>1, XorBits
  <2>3. XorByte(xy, yz) = xz
    BY <2>1, <2>2, SameBits
  <2>4. QED
    BY <2>3 DEF xy, yz, xz
<1>2. XorByte(d, a) = XorByte(a, d) /\ XorByte(a, b) = XorByte(b, a)
  BY XorLaws
<1>3. XorByte(XorByte(a, d), XorByte(d, b)) = XorByte(a, b)
  BY <1>1
<1>4. XorByte(XorByte(b, a), a) = b
  BY XorLaws
<1>5. XorByte(XorByte(b, c), XorByte(c, d)) = XorByte(b, d)
  BY <1>1
<1>6. XorByte(XorByte(a, b), XorByte(b, d)) = XorByte(a, d)
  BY <1>1
<1>7. XorByte(a, XorByte(a, d)) = d
  <2>1. XorByte(d, a) \in Byte
    BY XorBits
  <2>2. XorByte(XorByte(d, a), a) = d /\ XorByte(XorByte(d, a), a) = XorByte(a, XorByte(d, a))
    BY <2>1, XorLaws
  <2>3. QED
    BY <1>2, <2>2
<1>8. XorByte(XorByte(a, b), XorByte(b, c)) = XorByte(a, c)
  BY <1>1
<1>9. QED
  BY <1>2, <1>3, <1>4, <1>5, <1>6, <1>7, <1>8 DEF Cancelled

MixDoubled(a, b, c, d) ==
  Mixing(a, b, c, d) = XorByte(Twice[XorByte(a, b)], XorByte(Xor4(a, b, c, d), a))
LEMMA MixDoubles ==
  ASSUME NEW a \in Byte, NEW b \in Byte, NEW c \in Byte, NEW d \in Byte
  PROVE  MixDoubled(a, b, c, d)
<1> DEFINE a2 == Twice[a]
           b2 == Twice[b]
           cd == XorByte(c, d)
           bcd == XorByte(b, cd)
<1>1. a2 \in Byte /\ b2 \in Byte /\ cd \in Byte /\ bcd \in Byte
  BY TwiceBits, XorBits
<1>2. Times(2, a) = a2 /\ Times(3, b) = XorByte(b2, b) /\ Twice[XorByte(a, b)] = XorByte(a2, b2)
  BY Products, TwiceAdds
<1> HIDE DEF a2, b2, cd
<1>3. XorByte(b2, b) \in Byte /\ XorByte(a2, b2) \in Byte /\ XorByte(a, b) \in Byte
  BY <1>1, XorBits
<1>4. XorByte(XorByte(a2, XorByte(b2, b)), cd) = XorByte(XorByte(a2, b2), bcd)
  <2>1. XorByte(a2, XorByte(b2, b)) = XorByte(XorByte(a2, b2), b)
    BY <1>1, XorLaws
  <2>2. XorByte(XorByte(XorByte(a2, b2), b), cd) = XorByte(XorByte(a2, b2), XorByte(b, cd))
    BY <1>1, <1>3, XorLaws
  <2>3. QED
    BY <2>1, <2>2
<1>5. XorByte(XorByte(XorByte(a, b), cd), a) = bcd
  <2>1. XorByte(XorByte(a, b), cd) = XorByte(a, bcd)
    BY <1>1, XorLaws
  <2> HIDE DEF bcd
  <2>2. Cancelled(a, bcd, a, a)
    BY <1>1, Cancel
  <2>3. QED
    BY <2>1, <2>2 DEF Cancelled
<1>6. QED
  BY <1>2, <1>4, <1>5 DEF MixDoubled, Mixing, Xor4, cd

\* MixColumns is undone by its inverse.
Restored(a, b, c, d) ==
  Unmixing(Mixing(a, b, c, d), Mixing(b, c, d, a), Mixing(c, d, a, b), Mixing(d, a, b, c)) = a
LEMMA UnmixRestores ==
  ASSUME NEW a \in Byte, NEW b \in Byte, NEW c \in Byte, NEW d \in Byte
  PROVE  Restored(a, b, c, d)
<1> DEFINE s == Xor4(a, b, c, d)
           m == Mixing(a, b, c, d)
           n == Mixing(b, c, d, a)
           oo == Mixing(c, d, a, b)
           q == Mixing(d, a, b, c)
           ab == XorByte(a, b)
           bc == XorByte(b, c)
           cd == XorByte(c, d)
           da == XorByte(d, a)
           ac == XorByte(a, c)
<1>1. /\ s \in Byte /\ m \in Byte /\ n \in Byte /\ oo \in Byte /\ q \in Byte
      /\ ab \in Byte /\ bc \in Byte /\ cd \in Byte /\ da \in Byte /\ ac \in Byte
  BY MixIsByte, TwiceOfFour, XorBits
<1>2. /\ s = Xor4(a, b, c, d) /\ s = Xor4(b, c, d, a) /\ s = Xor4(c, d, a, b) /\ s = Xor4(d, a, b, c)
  BY XorRotates
<1>3. /\ m = XorByte(Twice[ab], XorByte(s, a))
      /\ n = XorByte(Twice[bc], XorByte(s, b))
      /\ oo = XorByte(Twice[cd], XorByte(s, c))
      /\ q = XorByte(Twice[da], XorByte(s, d))
  <2>1. MixDoubled(a, b, c, d) /\ MixDoubled(b, c, d, a) /\ MixDoubled(c, d, a, b) /\ MixDoubled(d, a, b, c)
    BY MixDoubles
  <2> HIDE DEF s
  <2>2. QED
    BY <1>2, <2>1 DEF MixDoubled
<1>4. /\ XorByte(ab, bc) = ac /\ XorByte(cd, da) = ac /\ XorByte(ab, cd) = s
      /\ XorByte(cd, ab) = s
  <2>1. Cancelled(a, b, c, a) /\ Cancelled(c, d, a, a) /\ XorByte(c, a) = ac /\ XorByte(ab, cd) = XorByte(cd, ab)
    BY <1>1, Cancel, XorLaws
  <2>2. QED
    BY <2>1 DEF Cancelled, Xor4
<1> HIDE DEF s, m, n, oo, q, ab, bc, cd, da, ac
<1>5. /\ XorByte(s, a) \in Byte /\ XorByte(s, b) \in Byte /\ XorByte(s, c) \in Byte /\ XorByte(s, d) \in Byte
      /\ Twice[ab] \in Byte /\ Twice[bc] \in Byte /\ Twice[cd] \in Byte /\ Twice[da] \in Byte
      /\ Twice[s] \in Byte /\ Twice[ac] \in Byte
  BY <1>1, TwiceBits, XorBits
<1>6. /\ XorByte(XorByte(s, a), XorByte(s, b)) = ab
      /\ XorByte(XorByte(s, c), XorByte(s, d)) = cd
      /\ XorByte(XorByte(s, a), XorByte(s, c)) = ac
  <2>1. Cancelled(a, b, a, s) /\ Cancelled(c, d, a, s) /\ Cancelled(a, c, a, s)
    BY <1>1, Cancel
  <2>2. QED
    BY <2>1 DEF Cancelled, ab, cd, ac
<1>7. /\ XorByte(Twice[ab], Twice[bc]) = Twice[ac]
      /\ XorByte(Twice[cd], Twice[da]) = Twice[ac]
      /\ XorByte(Twice[ab], Twice[cd]) = Twice[s]
  BY <1>1, <1>4, TwiceAdds
<1>8. XorByte(m, n) = XorByte(Twice[ac], ab)
  <2>1. XorByte(m, n) = XorByte(XorByte(Twice[ab], Twice[bc]), XorByte(XorByte(s, a), XorByte(s, b)))
    <3>1. PairsRegrouped(Twice[ab], XorByte(s, a), Twice[bc], XorByte(s, b))
      BY <1>5, PairsOf
    <3>2. QED
      BY <1>3, <3>1 DEF PairsRegrouped
  <2>2. QED
    BY <1>6, <1>7, <2>1
<1>9. XorByte(oo, q) = XorByte(Twice[ac], cd)
  <2>1. XorByte(oo, q) = XorByte(XorByte(Twice[cd], Twice[da]), XorByte(XorByte(s, c), XorByte(s, d)))
    <3>1. PairsRegrouped(Twice[cd], XorByte(s, c), Twice[da], XorByte(s, d))
      BY <1>5, PairsOf
    <3>2. QED
      BY <1>3, <3>1 DEF PairsRegrouped
  <2>2. QED
    BY <1>6, <1>7, <2>1
<1>10. XorByte(m, oo) = XorByte(Twice[s], ac)
  <2>1. XorByte(m, oo) = XorByte(XorByte(Twice[ab], Twice[cd]), XorByte(XorByte(s, a), XorByte(s, c)))
    <3>1. PairsRegrouped(Twice[ab], XorByte(s, a), Twice[cd], XorByte(s, c))
      BY <1>5, PairsOf
    <3>2. QED
      BY <1>3, <3>1 DEF PairsRegrouped
  <2>2. QED
    BY <1>6, <1>7, <2>1
<1>11. Xor4(m, n, oo, q) = s
  <2>1. Cancelled(ab, cd, cd, Twice[ac])
    BY <1>1, <1>5, Cancel
  <2>2. QED
    BY <1>4, <1>8, <1>9, <2>1 DEF Cancelled, Xor4
<1>12. XorByte(n, XorByte(oo, q)) = XorByte(Twice[ab], a)
  <2>1. XorByte(oo, q) \in Byte
    BY <1>1, XorBits
  <2>2. XorByte(m, XorByte(n, XorByte(oo, q))) = s /\ XorByte(n, XorByte(oo, q)) \in Byte
    BY <1>1, <1>11, <2>1, XorLaws, XorBits DEF Xor4
  <2> DEFINE r == XorByte(n, XorByte(oo, q))
             v == XorByte(Twice[ab], a)
  <2>3. XorByte(m, v) = s
    <3>1. XorByte(XorByte(Twice[ab], XorByte(s, a)), XorByte(Twice[ab], a)) = XorByte(XorByte(s, a), a)
      <4>1. Cancelled(XorByte(s, a), a, a, Twice[ab])
        BY <1>5, Cancel
      <4>2. QED
        BY <4>1 DEF Cancelled
    <3>2. XorByte(XorByte(s, a), a) = s
      BY <1>1, XorLaws
    <3>3. QED
      BY <1>3, <3>1, <3>2
  <2>4. v \in Byte
    BY <1>5, XorBits
  <2> HIDE DEF r, v
  <2>5. r \in Byte /\ XorByte(m, r) = s
    BY <2>2 DEF r
  <2>6. Cancelled(m, r, m, m) /\ Cancelled(m, v, m, m)
    BY <1>1, <2>4, <2>5, Cancel
  <2>7. r = v
    BY <2>3, <2>5, <2>6 DEF Cancelled
  <2>8. QED
    BY <2>7 DEF r, v
<1> DEFINE x == Twice[Twice[Twice[s]]]
           y == Twice[Twice[ac]]
           z == Twice[ab]
<1>13. x \in Byte /\ y \in Byte /\ z \in Byte
  BY <1>1, TwiceBits
<1>14. Twice[XorByte(m, n)] = XorByte(y, z)
  BY <1>1, <1>5, <1>8, TwiceAdds
<1>15. Twice[Twice[XorByte(m, oo)]] = XorByte(x, y)
  <2>1. Twice[XorByte(m, oo)] = XorByte(Twice[Twice[s]], Twice[ac])
    BY <1>1, <1>5, <1>10, TwiceAdds
  <2>2. Twice[Twice[s]] \in Byte
    BY <1>5, TwiceBits
  <2>3. QED
    BY <1>5, <2>1, <2>2, TwiceAdds
<1>16. UnmixFactored(m, n, oo, q)
  BY <1>1, UnmixFactors
<1>17. Unmixing(m, n, oo, q) = XorByte(x, XorByte(XorByte(x, y), XorByte(XorByte(y, z), XorByte(z, a))))
  BY <1>11, <1>12, <1>14, <1>15, <1>16 DEF UnmixFactored
<1> HIDE DEF x, y, z
<1>18. Cancelled(x, y, z, a)
  BY <1>13, Cancel
<1>19. QED
  BY <1>17, <1>18 DEF Cancelled, Restored, m, n, oo, q

-----------------------------------------------------------------------------
(* The tables and the words that are made of them *)

AesWord == [1..4 -> Byte]
Block == [1..16 -> Byte]

LEMMA WordOfBytes ==
  ASSUME NEW a \in Byte, NEW b \in Byte, NEW c \in Byte, NEW d \in Byte
  PROVE  <<a, b, c, d>> \in AesWord
  BY DEF AesWord

\* The S-box maps bytes to bytes one to one, and d4 is its inverse.
LEMMA SubBytesInverts ==
  /\ \A x \in Byte : e4[x] \in Byte /\ d4[e4[x]] = x
  /\ \A x \in Byte : SBox[x] = e4[x]
<1>1. \A x \in Byte : SubBytes[x + 1] \in Byte
  BY DEF SubBytes, Byte
<1>2. \A x, y \in Byte : SubBytes[x + 1] = SubBytes[y + 1] => x = y
  BY SMTT(60) DEF SubBytes, Byte
<1>3. \A x \in Byte : e4[x] = SubBytes[x + 1]
  BY DEF e4
<1>4. ASSUME NEW x \in Byte PROVE d4[e4[x]] = x
  <2>1. e4[x] \in Byte
    BY <1>1, <1>3
  <2>2. d4[e4[x]] = CHOOSE y \in Byte : e4[y] = e4[x]
    BY <2>1 DEF d4
  <2>3. \A y \in Byte : e4[y] = e4[x] => y = x
    BY <1>2, <1>3
  <2>4. QED
    BY <2>2, <2>3
<1>5. QED
  BY <1>1, <1>3, <1>4, SubBytesAssumption

LEMMA XorOfWords ==
  ASSUME NEW a \in AesWord, NEW b \in AesWord
  PROVE  /\ XorWords(a, b) \in AesWord
         /\ \A r \in 1..4 : XorWords(a, b)[r] = XorByte(a[r], b[r])
<1>1. \A r \in 1..4 : a[r] \in Byte /\ b[r] \in Byte
  BY DEF AesWord
<1>2. \A r \in 1..4 : XorByte(a[r], b[r]) \in Byte
  BY <1>1, XorBits
<1>3. XorWords(a, b) \in AesWord
  BY <1>2, WordOfBytes DEF XorWords
<1>4. \A r \in 1..4 : XorWords(a, b)[r] = XorByte(a[r], b[r])
  BY DEF XorWords
<1>5. QED
  BY <1>3, <1>4

\* The tables of the encryption make a column of MixColumns.
MadeByE(u1, u2, u3, u4) ==
  LET x1 == e4[u1]
      x2 == e4[u2]
      x3 == e4[u3]
      x4 == e4[u4]
      v == XorFour(e0[u1], e1[u2], e2[u3], e3[u4])
  IN /\ v \in AesWord
     /\ v[1] = Mixing(x1, x2, x3, x4)
     /\ v[2] = Mixing(x2, x3, x4, x1)
     /\ v[3] = Mixing(x3, x4, x1, x2)
     /\ v[4] = Mixing(x4, x1, x2, x3)
LEMMA ColumnOfE ==
  ASSUME NEW u1 \in Byte, NEW u2 \in Byte, NEW u3 \in Byte, NEW u4 \in Byte
  PROVE  MadeByE(u1, u2, u3, u4)
<1> DEFINE x1 == e4[u1]
           x2 == e4[u2]
           x3 == e4[u3]
           x4 == e4[u4]
           v == XorFour(e0[u1], e1[u2], e2[u3], e3[u4])
<1>1. x1 \in Byte /\ x2 \in Byte /\ x3 \in Byte /\ x4 \in Byte
  BY SubBytesInverts
<1>2. /\ Twice[x1] = Times(2, x1) /\ Twice[x2] = Times(2, x2)
      /\ Twice[x3] = Times(2, x3) /\ Twice[x4] = Times(2, x4)
  BY <1>1, Products
<1>3. /\ e0[u1] = <<Times(2, x1), x1, x1, Times(3, x1)>>
      /\ e1[u2] = <<Times(3, x2), Times(2, x2), x2, x2>>
      /\ e2[u3] = <<x3, Times(3, x3), Times(2, x3), x3>>
      /\ e3[u4] = <<x4, x4, Times(3, x4), Times(2, x4)>>
  BY <1>2 DEF e0, e1, e2, e3, RotatedRight
<1> HIDE DEF x1, x2, x3, x4
<1>4. v = <<Xor4(Times(2, x1), Times(3, x2), x3, x4), Xor4(x1, Times(2, x2), Times(3, x3), x4),
            Xor4(x1, x2, Times(2, x3), Times(3, x4)), Xor4(Times(3, x1), x2, x3, Times(2, x4))>>
  BY <1>3 DEF XorFour, XorWords, Xor4
<1>5. \A x \in Byte : Times(2, x) \in Byte /\ Times(3, x) \in Byte
  <2>1. SUFFICES ASSUME NEW x \in Byte PROVE Times(2, x) \in Byte /\ Times(3, x) \in Byte
    OBVIOUS
  <2>2. QED
    BY Products, XorBits
<1>6. /\ Times(2, x1) \in Byte /\ Times(2, x2) \in Byte /\ Times(2, x3) \in Byte /\ Times(2, x4) \in Byte
      /\ Times(3, x1) \in Byte /\ Times(3, x2) \in Byte /\ Times(3, x3) \in Byte /\ Times(3, x4) \in Byte
  BY <1>1, <1>5
<1>7. Xor4(x1, Times(2, x2), Times(3, x3), x4) = Mixing(x2, x3, x4, x1)
  BY <1>1, <1>6, XorRotates DEF Mixing
<1>8. Xor4(x1, x2, Times(2, x3), Times(3, x4)) = Mixing(x3, x4, x1, x2)
  <2>1. Xor4(x1, x2, Times(2, x3), Times(3, x4)) = Xor4(x2, Times(2, x3), Times(3, x4), x1)
    BY <1>1, <1>6, XorRotates
  <2>2. Xor4(x2, Times(2, x3), Times(3, x4), x1) = Xor4(Times(2, x3), Times(3, x4), x1, x2)
    BY <1>1, <1>6, XorRotates
  <2>3. QED
    BY <2>1, <2>2 DEF Mixing
<1>9. Xor4(Times(3, x1), x2, x3, Times(2, x4)) = Mixing(x4, x1, x2, x3)
  <2>1. Xor4(Times(2, x4), Times(3, x1), x2, x3) = Xor4(Times(3, x1), x2, x3, Times(2, x4))
    BY <1>1, <1>6, XorRotates
  <2>2. QED
    BY <2>1 DEF Mixing
<1>10. Mixing(x1, x2, x3, x4) = Xor4(Times(2, x1), Times(3, x2), x3, x4)
  BY DEF Mixing
<1>11. /\ Mixing(x1, x2, x3, x4) \in Byte /\ Mixing(x2, x3, x4, x1) \in Byte
       /\ Mixing(x3, x4, x1, x2) \in Byte /\ Mixing(x4, x1, x2, x3) \in Byte
  BY <1>1, MixIsByte
<1>12. v = <<Mixing(x1, x2, x3, x4), Mixing(x2, x3, x4, x1), Mixing(x3, x4, x1, x2), Mixing(x4, x1, x2, x3)>>
  BY <1>4, <1>7, <1>8, <1>9, <1>10
<1> HIDE DEF v
<1>13. v \in AesWord
  BY <1>11, <1>12, WordOfBytes
<1>14. QED
  BY <1>12, <1>13 DEF MadeByE, x1, x2, x3, x4, v

\* Those of the decryption make a column of its inverse.
MadeByD(u1, u2, u3, u4) ==
  LET x1 == d4[u1]
      x2 == d4[u2]
      x3 == d4[u3]
      x4 == d4[u4]
      v == XorFour(d0[u1], d1[u2], d2[u3], d3[u4])
  IN /\ v \in AesWord
     /\ v[1] = Unmixing(x1, x2, x3, x4)
     /\ v[2] = Unmixing(x2, x3, x4, x1)
     /\ v[3] = Unmixing(x3, x4, x1, x2)
     /\ v[4] = Unmixing(x4, x1, x2, x3)
LEMMA ColumnOfD ==
  ASSUME NEW u1 \in Byte, NEW u2 \in Byte, NEW u3 \in Byte, NEW u4 \in Byte,
         d4[u1] \in Byte, d4[u2] \in Byte, d4[u3] \in Byte, d4[u4] \in Byte
  PROVE  MadeByD(u1, u2, u3, u4)
<1> DEFINE x1 == d4[u1]
           x2 == d4[u2]
           x3 == d4[u3]
           x4 == d4[u4]
           v == XorFour(d0[u1], d1[u2], d2[u3], d3[u4])
<1>1. x1 \in Byte /\ x2 \in Byte /\ x3 \in Byte /\ x4 \in Byte
  OBVIOUS
<1>2. /\ d0[u1] = <<Times(14, x1), Times(9, x1), Times(13, x1), Times(11, x1)>>
      /\ d1[u2] = <<Times(11, x2), Times(14, x2), Times(9, x2), Times(13, x2)>>
      /\ d2[u3] = <<Times(13, x3), Times(11, x3), Times(14, x3), Times(9, x3)>>
      /\ d3[u4] = <<Times(9, x4), Times(13, x4), Times(11, x4), Times(14, x4)>>
  BY DEF d0, d1, d2, d3, RotatedRight
<1> HIDE DEF x1, x2, x3, x4
<1>3. v = <<Xor4(Times(14, x1), Times(11, x2), Times(13, x3), Times(9, x4)),
            Xor4(Times(9, x1), Times(14, x2), Times(11, x3), Times(13, x4)),
            Xor4(Times(13, x1), Times(9, x2), Times(14, x3), Times(11, x4)),
            Xor4(Times(11, x1), Times(13, x2), Times(9, x3), Times(14, x4))>>
  BY <1>2 DEF XorFour, XorWords, Xor4
<1>4. ASSUME NEW x \in Byte
      PROVE  Times(9, x) \in Byte /\ Times(11, x) \in Byte /\ Times(13, x) \in Byte /\ Times(14, x) \in Byte
  BY Products, XorBits
<1>5. /\ Times(9, x1) \in Byte /\ Times(11, x1) \in Byte /\ Times(13, x1) \in Byte
      /\ Times(9, x2) \in Byte /\ Times(14, x2) \in Byte /\ Times(13, x2) \in Byte
      /\ Times(9, x3) \in Byte /\ Times(11, x3) \in Byte /\ Times(14, x3) \in Byte
      /\ Times(11, x4) \in Byte /\ Times(13, x4) \in Byte /\ Times(14, x4) \in Byte
  BY <1>1, <1>4
<1>6. Xor4(Times(9, x1), Times(14, x2), Times(11, x3), Times(13, x4)) = Unmixing(x2, x3, x4, x1)
  BY <1>5, XorRotates DEF Unmixing
<1>7. Xor4(Times(13, x1), Times(9, x2), Times(14, x3), Times(11, x4)) = Unmixing(x3, x4, x1, x2)
  <2>1. Xor4(Times(13, x1), Times(9, x2), Times(14, x3), Times(11, x4))
          = Xor4(Times(9, x2), Times(14, x3), Times(11, x4), Times(13, x1))
    BY <1>5, XorRotates
  <2>2. Xor4(Times(9, x2), Times(14, x3), Times(11, x4), Times(13, x1))
          = Xor4(Times(14, x3), Times(11, x4), Times(13, x1), Times(9, x2))
    BY <1>5, XorRotates
  <2>3. QED
    BY <2>1, <2>2 DEF Unmixing
<1>8. Xor4(Times(11, x1), Times(13, x2), Times(9, x3), Times(14, x4)) = Unmixing(x4, x1, x2, x3)
  <2>1. Xor4(Times(14, x4), Times(11, x1), Times(13, x2), Times(9, x3))
          = Xor4(Times(11, x1), Times(13, x2), Times(9, x3), Times(14, x4))
    BY <1>5, XorRotates
  <2>2. QED
    BY <2>1 DEF Unmixing
<1>9. Unmixing(x1, x2, x3, x4) = Xor4(Times(14, x1), Times(11, x2), Times(13, x3), Times(9, x4))
  BY DEF Unmixing
<1>10. /\ Unmixing(x1, x2, x3, x4) \in Byte /\ Unmixing(x2, x3, x4, x1) \in Byte
       /\ Unmixing(x3, x4, x1, x2) \in Byte /\ Unmixing(x4, x1, x2, x3) \in Byte
  BY <1>1, MixIsByte
<1>11. v = <<Unmixing(x1, x2, x3, x4), Unmixing(x2, x3, x4, x1), Unmixing(x3, x4, x1, x2), Unmixing(x4, x1, x2, x3)>>
  BY <1>3, <1>6, <1>7, <1>8, <1>9
<1> HIDE DEF v
<1>12. v \in AesWord
  BY <1>10, <1>11, WordOfBytes
<1>13. QED
  BY <1>11, <1>12 DEF MadeByD, x1, x2, x3, x4, v

\* The key of a round between is put through the inverse of a column.
ColumnUnmixed(a) ==
  /\ Column(a) \in AesWord
  /\ Column(a)[1] = Unmixing(a[1], a[2], a[3], a[4])
  /\ Column(a)[2] = Unmixing(a[2], a[3], a[4], a[1])
  /\ Column(a)[3] = Unmixing(a[3], a[4], a[1], a[2])
  /\ Column(a)[4] = Unmixing(a[4], a[1], a[2], a[3])
LEMMA ColumnUnmixes ==
  ASSUME NEW a \in AesWord
  PROVE  ColumnUnmixed(a)
<1>1. a[1] \in Byte /\ a[2] \in Byte /\ a[3] \in Byte /\ a[4] \in Byte
  BY DEF AesWord
<1>2. /\ e4[a[1]] \in Byte /\ e4[a[2]] \in Byte /\ e4[a[3]] \in Byte /\ e4[a[4]] \in Byte
      /\ d4[e4[a[1]]] = a[1] /\ d4[e4[a[2]]] = a[2] /\ d4[e4[a[3]]] = a[3] /\ d4[e4[a[4]]] = a[4]
  BY <1>1, SubBytesInverts
<1>3. MadeByD(e4[a[1]], e4[a[2]], e4[a[3]], e4[a[4]])
  BY <1>1, <1>2, ColumnOfD
<1>4. QED
  BY <1>2, <1>3 DEF MadeByD, ColumnUnmixed, Column

-----------------------------------------------------------------------------
(* States of a block, and words that hold them *)

\* The place of row r in column c of a state.
PlaceOf(r, c) == (4 * c) + r + 1

LEMMA Places16 ==
  /\ \A r, c \in 0..3 : PlaceOf(r, c) \in 1..16
  /\ \A i \in 1..16 : (i - 1) % 4 \in 0..3 /\ (i - 1) \div 4 \in 0..3
                      /\ i = PlaceOf((i - 1) % 4, (i - 1) \div 4)
  BY DEF PlaceOf

\* What each operation on a state makes of it.
LEMMA SubShiftAt ==
  ASSUME NEW s \in Block
  PROVE  /\ SubShift(s) \in Block
         /\ \A r, c \in 0..3 : SubShift(s)[PlaceOf(r, c)] = e4[s[PlaceOf(r, (c + r) % 4)]]
<1>1. \A i \in 1..16 : s[i] \in Byte /\ SBox[s[i]] = e4[s[i]] /\ e4[s[i]] \in Byte
  BY SubBytesInverts DEF Block
<1>2. SubShift(s) = <<SBox[s[1]], SBox[s[6]], SBox[s[11]], SBox[s[16]],
                      SBox[s[5]], SBox[s[10]], SBox[s[15]], SBox[s[4]],
                      SBox[s[9]], SBox[s[14]], SBox[s[3]], SBox[s[8]],
                      SBox[s[13]], SBox[s[2]], SBox[s[7]], SBox[s[12]]>>
  BY DEF SubShift, State, ByteAt
<1>3. SubShift(s) = <<e4[s[1]], e4[s[6]], e4[s[11]], e4[s[16]],
                      e4[s[5]], e4[s[10]], e4[s[15]], e4[s[4]],
                      e4[s[9]], e4[s[14]], e4[s[3]], e4[s[8]],
                      e4[s[13]], e4[s[2]], e4[s[7]], e4[s[12]]>>
  BY <1>1, <1>2
<1>4. QED
  BY <1>1, <1>3 DEF PlaceOf, Block

LEMMA MixColumnsAt ==
  ASSUME NEW s \in Block
  PROVE  /\ MixColumns(s) \in Block
         /\ \A r, c \in 0..3 :
              MixColumns(s)[PlaceOf(r, c)]
                = Mixing(s[PlaceOf(r, c)], s[PlaceOf((r + 1) % 4, c)],
                         s[PlaceOf((r + 2) % 4, c)], s[PlaceOf((r + 3) % 4, c)])
<1>1. MixColumns(s) = <<Mixing(s[1], s[2], s[3], s[4]), Mixing(s[2], s[3], s[4], s[1]),
                        Mixing(s[3], s[4], s[1], s[2]), Mixing(s[4], s[1], s[2], s[3]),
                        Mixing(s[5], s[6], s[7], s[8]), Mixing(s[6], s[7], s[8], s[5]),
                        Mixing(s[7], s[8], s[5], s[6]), Mixing(s[8], s[5], s[6], s[7]),
                        Mixing(s[9], s[10], s[11], s[12]), Mixing(s[10], s[11], s[12], s[9]),
                        Mixing(s[11], s[12], s[9], s[10]), Mixing(s[12], s[9], s[10], s[11]),
                        Mixing(s[13], s[14], s[15], s[16]), Mixing(s[14], s[15], s[16], s[13]),
                        Mixing(s[15], s[16], s[13], s[14]), Mixing(s[16], s[13], s[14], s[15])>>
  BY DEF MixColumns, State, ByteAt, Mixing
<1>2. ASSUME NEW i \in Byte, NEW j \in Byte, NEW ck \in Byte, NEW l \in Byte
      PROVE  /\ Mixing(i, j, ck, l) \in Byte /\ Mixing(j, ck, l, i) \in Byte
             /\ Mixing(ck, l, i, j) \in Byte /\ Mixing(l, i, j, ck) \in Byte
  BY MixIsByte
<1>3. ASSUME NEW r \in 0..3, NEW c \in 0..3
      PROVE  MixColumns(s)[PlaceOf(r, c)]
                = Mixing(s[PlaceOf(r, c)], s[PlaceOf((r + 1) % 4, c)],
                         s[PlaceOf((r + 2) % 4, c)], s[PlaceOf((r + 3) % 4, c)])
  BY <1>1 DEF PlaceOf
<1>4. MixColumns(s) \in Block
  <2>1. /\ s[1] \in Byte /\ s[2] \in Byte /\ s[3] \in Byte /\ s[4] \in Byte
        /\ s[5] \in Byte /\ s[6] \in Byte /\ s[7] \in Byte /\ s[8] \in Byte
        /\ s[9] \in Byte /\ s[10] \in Byte /\ s[11] \in Byte /\ s[12] \in Byte
        /\ s[13] \in Byte /\ s[14] \in Byte /\ s[15] \in Byte /\ s[16] \in Byte
    BY DEF Block
  <2>2. /\ Mixing(s[1], s[2], s[3], s[4]) \in Byte /\ Mixing(s[2], s[3], s[4], s[1]) \in Byte
        /\ Mixing(s[3], s[4], s[1], s[2]) \in Byte /\ Mixing(s[4], s[1], s[2], s[3]) \in Byte
    BY ONLY <1>2, <2>1
  <2>3. /\ Mixing(s[5], s[6], s[7], s[8]) \in Byte /\ Mixing(s[6], s[7], s[8], s[5]) \in Byte
        /\ Mixing(s[7], s[8], s[5], s[6]) \in Byte /\ Mixing(s[8], s[5], s[6], s[7]) \in Byte
    BY ONLY <1>2, <2>1
  <2>4. /\ Mixing(s[9], s[10], s[11], s[12]) \in Byte /\ Mixing(s[10], s[11], s[12], s[9]) \in Byte
        /\ Mixing(s[11], s[12], s[9], s[10]) \in Byte /\ Mixing(s[12], s[9], s[10], s[11]) \in Byte
    BY ONLY <1>2, <2>1
  <2>5. /\ Mixing(s[13], s[14], s[15], s[16]) \in Byte /\ Mixing(s[14], s[15], s[16], s[13]) \in Byte
        /\ Mixing(s[15], s[16], s[13], s[14]) \in Byte /\ Mixing(s[16], s[13], s[14], s[15]) \in Byte
    BY ONLY <1>2, <2>1
  <2>6. QED
    BY ONLY <1>1, <2>2, <2>3, <2>4, <2>5 DEF Block
<1>5. QED
  BY <1>3, <1>4

LEMMA AddRoundKeyAt ==
  ASSUME NEW s \in Block, NEW rk, NEW i \in Nat, \A c \in 0..3 : rk[(4 * i) + c] \in AesWord
  PROVE  /\ AddRoundKey(s, rk, i) \in Block
         /\ \A r, c \in 0..3 :
              AddRoundKey(s, rk, i)[PlaceOf(r, c)] = XorByte(s[PlaceOf(r, c)], rk[(4 * i) + c][r + 1])
<1> DEFINE Cell(r, c) == XorByte(s[PlaceOf(r, c)], rk[(4 * i) + c][r + 1])
<1>1. AddRoundKey(s, rk, i)
        = <<Cell(0, 0), Cell(1, 0), Cell(2, 0), Cell(3, 0), Cell(0, 1), Cell(1, 1), Cell(2, 1), Cell(3, 1),
            Cell(0, 2), Cell(1, 2), Cell(2, 2), Cell(3, 2), Cell(0, 3), Cell(1, 3), Cell(2, 3), Cell(3, 3)>>
  BY DEF AddRoundKey, State, ByteAt, PlaceOf
<1>2. \A r, c \in 0..3 : Cell(r, c) \in Byte
  <2>1. SUFFICES ASSUME NEW r \in 0..3, NEW c \in 0..3 PROVE Cell(r, c) \in Byte
    OBVIOUS
  <2>2. s[PlaceOf(r, c)] \in Byte
    BY Places16 DEF Block
  <2>3. rk[(4 * i) + c][r + 1] \in Byte
    BY DEF AesWord
  <2>4. QED
    BY <2>2, <2>3, XorBits
<1> HIDE DEF Cell
<1>3. AddRoundKey(s, rk, i) \in Block
  BY <1>1, <1>2 DEF Block
<1>4. \A r, c \in 0..3 : AddRoundKey(s, rk, i)[PlaceOf(r, c)] = Cell(r, c)
  BY <1>1 DEF PlaceOf
<1>5. QED
  BY <1>3, <1>4 DEF Cell

\* Four words hold a state when word c has its column c.
Holds(v, s) == \A r, c \in 0..3 : v[c][r + 1] = s[PlaceOf(r, c)]

LEMMA BytesHold ==
  ASSUME NEW s \in Block, NEW v, Holds(v, s)
  PROVE  Bytes(v) = s
<1>1. ASSUME NEW i \in 1..16 PROVE v[(i - 1) \div 4][((i - 1) % 4) + 1] = s[i]
  BY Places16 DEF Holds
<1>2. s = [i \in 1..16 |-> s[i]]
  BY DEF Block
<1>3. QED
  BY <1>1, <1>2 DEF Bytes

-----------------------------------------------------------------------------
(* The schedule of a key, and the states of a block *)

IsKey(ck) == Len(ck) \in {16, 24, 32} /\ ck \in [1..Len(ck) -> Byte]
RoundsFor(ck) == RoundsOf(8 * Len(ck))

\* What the loops of the expansion make for the three lengths of a key.
LEMMA Lengths ==
  ASSUME NEW ck, IsKey(ck)
  PROVE  /\ WordsOfKey(ck) \in {4, 6, 8} /\ RoundsFor(ck) \in {10, 12, 14} /\ WordsToMake(ck) \in Nat
         /\ WordsOfKey(ck) + WordsToMake(ck) = (4 * RoundsFor(ck)) + 4
         /\ Len(ck) = 4 * WordsOfKey(ck)
         /\ \A i \in 1..WordsToMake(ck) :
              LET j == WordsOfKey(ck) + i - 1
              IN j % WordsOfKey(ck) = 0 => j \div WordsOfKey(ck) \in 1..10
<1>1. CASE Len(ck) = 16
  <2>1. WordsOfKey(ck) = 4 /\ RoundsFor(ck) = 10 /\ WordsToMake(ck) = 40
    BY <1>1 DEF WordsOfKey, WordsToMake, RoundsFor, RoundsOf
  <2>2. QED
    BY <1>1, <2>1
<1>2. CASE Len(ck) = 24
  <2>1. WordsOfKey(ck) = 6 /\ RoundsFor(ck) = 12 /\ WordsToMake(ck) = 46
    BY <1>2 DEF WordsOfKey, WordsToMake, RoundsFor, RoundsOf
  <2>2. QED
    BY <1>2, <2>1
<1>3. CASE Len(ck) = 32
  <2>1. WordsOfKey(ck) = 8 /\ RoundsFor(ck) = 14 /\ WordsToMake(ck) = 52
    BY <1>3 DEF WordsOfKey, WordsToMake, RoundsFor, RoundsOf
  <2>2. QED
    BY <1>3, <2>1
<1>4. QED
  BY <1>1, <1>2, <1>3 DEF IsKey

LEMMA NextIsWord ==
  ASSUME NEW rk \in Seq(AesWord), NEW n \in {4, 6, 8}, NEW j \in Nat, Len(rk) >= n,
         j % n = 0 => j \div n \in 1..10
  PROVE  NextWord(rk, n, j) \in AesWord
<1> DEFINE temp == rk[Len(rk)]
           old == rk[Len(rk) + 1 - n]
           v1 == <<XorByte(e4[temp[2]], rcon[j \div n]), e4[temp[3]], e4[temp[4]], e4[temp[1]]>>
           v2 == <<e4[temp[1]], e4[temp[2]], e4[temp[3]], e4[temp[4]]>>
<1>1. temp \in AesWord /\ old \in AesWord
  BY ElementOfSeq
<1>2. temp[1] \in Byte /\ temp[2] \in Byte /\ temp[3] \in Byte /\ temp[4] \in Byte
  BY <1>1 DEF AesWord
<1>3. e4[temp[1]] \in Byte /\ e4[temp[2]] \in Byte /\ e4[temp[3]] \in Byte /\ e4[temp[4]] \in Byte
  BY <1>2, SubBytesInverts
<1> HIDE DEF temp, old
<1>4. v2 \in AesWord
  BY <1>3, WordOfBytes
<1>5. CASE j % n = 0
  <2>1. rcon[j \div n] \in Byte
    <3>1. /\ rcon[1] \in Byte /\ rcon[2] \in Byte /\ rcon[3] \in Byte /\ rcon[4] \in Byte
          /\ rcon[5] \in Byte /\ rcon[6] \in Byte /\ rcon[7] \in Byte /\ rcon[8] \in Byte
          /\ rcon[9] \in Byte /\ rcon[10] \in Byte
      BY DEF rcon, Byte
    <3>2. j \div n \in 1..10
      BY <1>5
    <3>3. ASSUME NEW i \in 1..10 PROVE rcon[i] \in Byte
      BY ONLY <3>1, i \in 1..10
    <3>4. QED
      BY <3>2, <3>3
  <2>2. XorByte(e4[temp[2]], rcon[j \div n]) \in Byte
    BY <1>3, <2>1, XorBits
  <2>3. v1 \in AesWord
    BY <1>3, <2>2, WordOfBytes
  <2>4. NextWord(rk, n, j) = XorWords(old, v1)
    BY <1>5 DEF NextWord, temp, old
  <2> HIDE DEF v1
  <2>5. QED
    BY <1>1, <2>3, <2>4, XorOfWords
<1>6. CASE j % n # 0
  <2>1. NextWord(rk, n, j) = XorWords(old, v2) \/ NextWord(rk, n, j) = XorWords(old, temp)
    BY <1>6 DEF NextWord, temp, old
  <2> HIDE DEF v2
  <2>2. XorWords(old, v2) \in AesWord /\ XorWords(old, temp) \in AesWord
    BY <1>1, <1>4, XorOfWords
  <2>3. QED
    BY <2>1, <2>2
<1>7. QED
  BY <1>5, <1>6

\* The expansion makes four words for each round and four more.
LEMMA ExpandedIsWords ==
  ASSUME NEW ck, IsKey(ck)
  PROVE  Expanded(ck) \in [0..((4 * RoundsFor(ck)) + 3) -> AesWord]
<1> DEFINE n == WordsOfKey(ck)
           m == WordsToMake(ck)
           S == {rk \in Seq(AesWord) : Len(rk) >= n}
           a == [j \in 1..n |-> BigEndian(ck, j - 1)]
           Value(i, d) == IF i = 0 THEN a ELSE Append(d, NextWord(d, n, n + i - 1))
           W == [i \in 1..m |-> [d \in S |-> Append(d, NextWord(d, n, n + i - 1))]]
           f == CHOOSE g : g = [i \in 0..m |-> Value(i, g[i - 1])]
<1>1. n \in {4, 6, 8} /\ m \in Nat /\ n + m = (4 * RoundsFor(ck)) + 4
  BY Lengths
<1>2. \A i \in 1..m : (n + i - 1) % n = 0 => (n + i - 1) \div n \in 1..10
  BY Lengths
<1>3. a \in S /\ Len(a) = n
  <2>1. ASSUME NEW j \in 1..n PROVE BigEndian(ck, j - 1) \in AesWord
    <3>1. Len(ck) = 4 * n /\ ck \in [1..Len(ck) -> Byte]
      BY Lengths DEF IsKey
    <3>2. /\ (4 * (j - 1)) + 1 \in 1..Len(ck) /\ (4 * (j - 1)) + 2 \in 1..Len(ck)
          /\ (4 * (j - 1)) + 3 \in 1..Len(ck) /\ (4 * (j - 1)) + 4 \in 1..Len(ck)
      BY <1>1, <3>1
    <3>3. QED
      BY <3>1, <3>2, WordOfBytes DEF BigEndian
  <2>2. a \in [1..n -> AesWord]
    BY <2>1
  <2> HIDE DEF a
  <2>3. a \in Seq(AesWord) /\ Len(a) = n
    BY <1>1, <2>2
  <2>4. QED
    BY <1>1, <2>3
<1> HIDE DEF n, m, a
<1>4. ASSUME NEW i \in 1..m, NEW d \in S
      PROVE  /\ Append(d, NextWord(d, n, n + i - 1)) \in S
             /\ Len(Append(d, NextWord(d, n, n + i - 1))) = Len(d) + 1
  <2>1. d \in Seq(AesWord) /\ Len(d) \in Nat /\ Len(d) >= n /\ n + i - 1 \in Nat
    BY <1>1
  <2>2. (n + i - 1) % n = 0 => (n + i - 1) \div n \in 1..10
    BY <1>2
  <2>3. NextWord(d, n, n + i - 1) \in AesWord
    BY <1>1, <2>1, <2>2, NextIsWord
  <2> DEFINE x == NextWord(d, n, n + i - 1)
  <2>4. x \in AesWord
    BY <2>3
  <2> HIDE DEF x
  <2>5. Append(d, x) \in Seq(AesWord) /\ Len(Append(d, x)) = Len(d) + 1
    BY <2>1, <2>4, AppendProperties
  <2>6. Append(d, x) \in S
    BY <1>1, <2>1, <2>5
  <2>7. QED
    BY <2>5, <2>6 DEF x
<1>5. W \in [1..m -> [S -> S]]
  BY <1>4
<1>6. \A i \in 1..m : \A d \in S : W[i][d] = Append(d, NextWord(d, n, n + i - 1))
  OBVIOUS
<1>7. \A d : Value(0, d) = a
  OBVIOUS
<1>8. \A i \in 1..m : \A d : Value(i, d) = Append(d, NextWord(d, n, n + i - 1))
  BY <1>1
<1>9. Expanding(ck) = f
  BY DEF Expanding, n, m, a
<1> HIDE DEF W, S, Value
<1>10. PICK F \in [0..m -> S] : Follows(W, m, a, F)
  BY <1>1, <1>3, <1>5, Recursion
<1>11. \A i \in 0..m : F[i] = Value(i, F[i - 1])
  <2>1. F[0] = Value(0, F[0 - 1])
    BY <1>7, <1>10 DEF Follows
  <2>2. ASSUME NEW i \in 1..m PROVE F[i] = Value(i, F[i - 1])
    <3>1. F[i - 1] \in S
      BY <1>1
    <3>2. QED
      BY <1>6, <1>8, <1>10, <3>1 DEF Follows
  <2>3. QED
    BY <1>1, <2>1, <2>2
<1>12. F = [i \in 0..m |-> Value(i, F[i - 1])]
  BY <1>11
<1>13. f = [i \in 0..m |-> Value(i, f[i - 1])]
  <2>1. \E g : g = [i \in 0..m |-> Value(i, g[i - 1])]
    BY ONLY <1>12
  <2>2. QED
    BY ONLY <2>1 DEF f
<1> HIDE DEF f
<1>14. f[m] \in S /\ Len(f[m]) = n + m
  <2> DEFINE H == {i \in 0..m : f[i] \in S /\ Len(f[i]) = n + i}
  <2>1. 0 \in H
    BY <1>1, <1>3, <1>7, <1>13
  <2>2. ASSUME NEW i \in 1..m, i - 1 \in H PROVE i \in H
    <3>1. i \in 0..m /\ f[i - 1] \in S /\ Len(f[i - 1]) = n + i - 1
      BY <1>1, <2>2
    <3>2. f[i] = Append(f[i - 1], NextWord(f[i - 1], n, n + i - 1))
      <4>1. f[i] = Value(i, f[i - 1])
        BY ONLY <1>13, <3>1
      <4>2. QED
        BY <1>8, <4>1
    <3>3. f[i] \in S /\ Len(f[i]) = Len(f[i - 1]) + 1
      BY <1>4, <3>1, <3>2
    <3>4. Len(f[i]) = n + i
      BY <1>1, <3>1, <3>3
    <3>5. QED
      BY <3>1, <3>3, <3>4
  <2> HIDE DEF H
  <2>3. 0..m \subseteq H
    BY <1>1, <2>1, <2>2, UpTo
  <2>4. QED
    BY <1>1, <2>3 DEF H
<1>15. f[m] \in Seq(AesWord) /\ Len(f[m]) = (4 * RoundsFor(ck)) + 4
  BY <1>1, <1>14 DEF S
<1>16. Expanded(ck) = [j \in 0..(Len(f[m]) - 1) |-> f[m][j + 1]]
  BY <1>9 DEF Expanded, m
<1> DEFINE all == f[m]
<1>17. all \in Seq(AesWord) /\ Len(all) = (4 * RoundsFor(ck)) + 4 /\ RoundsFor(ck) \in Nat
  BY <1>15, Lengths
<1>18. Expanded(ck) = [j \in 0..(Len(all) - 1) |-> all[j + 1]]
  BY <1>16
<1> HIDE DEF all
<1>19. \A j \in 0..(Len(all) - 1) : all[j + 1] \in AesWord
  BY <1>17, ElementOfSeq
<1>20. Len(all) - 1 = (4 * RoundsFor(ck)) + 3
  BY <1>17
<1>21. QED
  BY <1>18, <1>19, <1>20

LEMMA RoundKey ==
  ASSUME NEW ck, IsKey(ck), NEW i \in 0..RoundsFor(ck)
  PROVE  \A c \in 0..3 : Expanded(ck)[(4 * i) + c] \in AesWord
<1>1. RoundsFor(ck) \in Nat
  BY Lengths
<1>2. \A c \in 0..3 : (4 * i) + c \in 0..((4 * RoundsFor(ck)) + 3)
  BY <1>1
<1>3. QED
  BY <1>2, ExpandedIsWords

LEMMA RoundStays ==
  ASSUME NEW ck, IsKey(ck), NEW s \in Block, NEW i \in 1..RoundsFor(ck)
  PROVE  RoundResult(s, Expanded(ck), RoundsFor(ck), i) \in Block
<1>1. i \in Nat /\ i \in 0..RoundsFor(ck) /\ RoundsFor(ck) \in Nat
  BY Lengths
<1>2. \A c \in 0..3 : Expanded(ck)[(4 * i) + c] \in AesWord
  BY <1>1, RoundKey
<1>3. SubShift(s) \in Block
  BY SubShiftAt
<1>4. MixColumns(SubShift(s)) \in Block
  BY <1>3, MixColumnsAt
<1>5. /\ AddRoundKey(SubShift(s), Expanded(ck), i) \in Block
      /\ AddRoundKey(MixColumns(SubShift(s)), Expanded(ck), i) \in Block
  BY <1>1, <1>2, <1>3, <1>4, AddRoundKeyAt
<1>6. QED
  BY <1>5 DEF RoundResult

\* The states after the key was added and i rounds were made.
Passed(s, plain, rk, n, i) ==
  /\ s \in Seq(Block) /\ Len(s) = i + 1
  /\ s[1] = AddRoundKey(plain, rk, 0)
  /\ \A j \in 1..i : s[j + 1] = RoundResult(s[j], rk, n, j)

LEMMA PassedOn ==
  ASSUME NEW s, NEW plain, NEW rk, NEW n, NEW i \in Nat \ {0}, Passed(s, plain, rk, n, i - 1),
         RoundResult(s[Len(s)], rk, n, i) \in Block
  PROVE  Passed(Append(s, RoundResult(s[Len(s)], rk, n, i)), plain, rk, n, i)
<1> DEFINE x == RoundResult(s[Len(s)], rk, n, i)
           tt == Append(s, x)
<1>1. s \in Seq(Block) /\ Len(s) = i /\ x \in Block
  BY DEF Passed
<1>2. x = RoundResult(s[i], rk, n, i)
  BY <1>1
<1> HIDE DEF x
<1>3. tt \in Seq(Block) /\ Len(tt) = i + 1 /\ tt[i + 1] = x /\ \A j \in 1..i : tt[j] = s[j]
  BY <1>1, AppendProperties
<1> HIDE DEF tt
<1>4. tt[1] = AddRoundKey(plain, rk, 0)
  BY <1>3 DEF Passed
<1>5. ASSUME NEW j \in 1..i PROVE tt[j + 1] = RoundResult(tt[j], rk, n, j)
  <2>1. CASE j = i
    BY <1>2, <1>3, <2>1
  <2>2. CASE j # i
    <3>1. j \in 1..(i - 1) /\ j + 1 \in 1..i
      BY <2>2
    <3>2. tt[j] = s[j] /\ tt[j + 1] = s[j + 1]
      BY <1>3, <3>1
    <3>3. s[j + 1] = RoundResult(s[j], rk, n, j)
      BY <3>1 DEF Passed
    <3>4. QED
      BY <3>2, <3>3
  <2>3. QED
    BY <2>1, <2>2
<1>6. QED
  BY <1>3, <1>4, <1>5 DEF Passed, tt, x

LEMMA StatesPassed ==
  ASSUME NEW ck, IsKey(ck), NEW plain \in Block
  PROVE  Passed(States(plain, ck), plain, Expanded(ck), RoundsFor(ck), RoundsFor(ck))
<1> DEFINE n == RoundsFor(ck)
           rk == Expanded(ck)
           S == {s \in Seq(Block) : Len(s) >= 1}
           a == <<AddRoundKey(plain, rk, 0)>>
           Value(i, d) == IF i = 0 THEN a ELSE Append(d, RoundResult(d[Len(d)], rk, n, i))
           W == [i \in 1..n |-> [d \in S |-> Append(d, RoundResult(d[Len(d)], rk, n, i))]]
           f == CHOOSE g : g = [i \in 0..n |-> Value(i, g[i - 1])]
<1>1. n \in Nat
  BY Lengths
<1>2. a \in S /\ Passed(a, plain, rk, n, 0)
  <2>1. \A c \in 0..3 : Expanded(ck)[(4 * 0) + c] \in AesWord
    BY <1>1, RoundKey
  <2>2. AddRoundKey(plain, rk, 0) \in Block
    BY <2>1, AddRoundKeyAt
  <2>3. QED
    BY <2>2 DEF Passed
<1>3. States(plain, ck) = f[n]
  BY DEF States, RoundsFor
<1>4. ASSUME NEW i \in 1..n, NEW d \in S
      PROVE  /\ RoundResult(d[Len(d)], rk, n, i) \in Block
             /\ Append(d, RoundResult(d[Len(d)], rk, n, i)) \in S
  <2>1. d \in Seq(Block) /\ Len(d) \in Nat /\ Len(d) >= 1
    OBVIOUS
  <2>2. d[Len(d)] \in Block
    BY <2>1, ElementOfSeq
  <2>3. RoundResult(d[Len(d)], rk, n, i) \in Block
    BY <2>2, RoundStays
  <2> DEFINE x == RoundResult(d[Len(d)], rk, n, i)
  <2>4. x \in Block
    BY <2>3
  <2> HIDE DEF x
  <2>5. Append(d, x) \in Seq(Block) /\ Len(Append(d, x)) = Len(d) + 1
    BY <2>1, <2>4, AppendProperties
  <2>6. Append(d, x) \in S
    BY <2>1, <2>5
  <2>7. QED
    BY <2>3, <2>6 DEF x
<1> HIDE DEF n, rk, a
<1>5. W \in [1..n -> [S -> S]]
  BY <1>4
<1>6. \A i \in 1..n : \A d \in S : W[i][d] = Append(d, RoundResult(d[Len(d)], rk, n, i))
  OBVIOUS
<1>7. \A d : Value(0, d) = a
  OBVIOUS
<1>8. \A i \in 1..n : \A d : Value(i, d) = Append(d, RoundResult(d[Len(d)], rk, n, i))
  BY <1>1
<1> HIDE DEF W, S, Value
<1>9. PICK F \in [0..n -> S] : Follows(W, n, a, F)
  BY <1>1, <1>2, <1>5, Recursion
<1>10. \A i \in 0..n : F[i] = Value(i, F[i - 1])
  <2>1. F[0] = Value(0, F[0 - 1])
    BY <1>7, <1>9 DEF Follows
  <2>2. ASSUME NEW i \in 1..n PROVE F[i] = Value(i, F[i - 1])
    <3>1. F[i - 1] \in S
      BY <1>1
    <3>2. QED
      BY <1>6, <1>8, <1>9, <3>1 DEF Follows
  <2>3. QED
    BY <1>1, <2>1, <2>2
<1>11. F = [i \in 0..n |-> Value(i, F[i - 1])]
  BY <1>10
<1>12. f = [i \in 0..n |-> Value(i, f[i - 1])]
  <2>1. \E g : g = [i \in 0..n |-> Value(i, g[i - 1])]
    BY ONLY <1>11
  <2>2. QED
    BY ONLY <2>1 DEF f
<1> HIDE DEF f
<1>13. f[n] \in S /\ Passed(f[n], plain, rk, n, n)
  <2> DEFINE H == {i \in 0..n : f[i] \in S /\ Passed(f[i], plain, rk, n, i)}
  <2>1. 0 \in H
    BY <1>1, <1>2, <1>7, <1>12
  <2>2. ASSUME NEW i \in 1..n, i - 1 \in H PROVE i \in H
    <3>1. i \in 0..n /\ i \in Nat \ {0} /\ f[i - 1] \in S /\ Passed(f[i - 1], plain, rk, n, i - 1)
      BY <1>1, <2>2
    <3>2. f[i] = Append(f[i - 1], RoundResult(f[i - 1][Len(f[i - 1])], rk, n, i))
      <4>1. f[i] = Value(i, f[i - 1])
        BY ONLY <1>12, <3>1
      <4>2. QED
        BY <1>8, <4>1
    <3>3. RoundResult(f[i - 1][Len(f[i - 1])], rk, n, i) \in Block /\ f[i] \in S
      BY <1>4, <3>1, <3>2
    <3>4. Passed(f[i], plain, rk, n, i)
      BY <3>1, <3>2, <3>3, PassedOn
    <3>5. QED
      BY <3>1, <3>3, <3>4
  <2> HIDE DEF H
  <2>3. 0..n \subseteq H
    BY <1>1, <2>1, <2>2, UpTo
  <2>4. QED
    BY <1>1, <2>3 DEF H
<1>14. QED
  BY <1>3, <1>13 DEF n, rk

\* The states of a block: the key is added, rounds follow, the last is the cipher text.
LEMMA StatesOf ==
  ASSUME NEW ck, IsKey(ck), NEW plain \in Block
  PROVE  /\ \A i \in 1..(RoundsFor(ck) + 1) : States(plain, ck)[i] \in Block
         /\ States(plain, ck)[1] = AddRoundKey(plain, Expanded(ck), 0)
         /\ \A i \in 1..RoundsFor(ck) :
              States(plain, ck)[i + 1] = RoundResult(States(plain, ck)[i], Expanded(ck), RoundsFor(ck), i)
         /\ Cipher(plain, ck) = States(plain, ck)[RoundsFor(ck) + 1]
<1>1. Passed(States(plain, ck), plain, Expanded(ck), RoundsFor(ck), RoundsFor(ck))
  BY StatesPassed
<1> DEFINE s == States(plain, ck)
<1>2. s \in Seq(Block) /\ Len(s) = RoundsFor(ck) + 1
  BY <1>1 DEF Passed
<1> HIDE DEF s
<1>3. \A i \in 1..(RoundsFor(ck) + 1) : s[i] \in Block
  BY <1>2, ElementOfSeq
<1>4. QED
  BY <1>1, <1>3 DEF Passed, s, Cipher, RoundsFor

-----------------------------------------------------------------------------
(* What the rounds of the code make of a state *)

LEMMA HoldsColumns ==
  ASSUME NEW s, NEW v,
         \A c \in 0..3 : /\ v[c][1] = s[PlaceOf(0, c)] /\ v[c][2] = s[PlaceOf(1, c)]
                         /\ v[c][3] = s[PlaceOf(2, c)] /\ v[c][4] = s[PlaceOf(3, c)]
  PROVE  Holds(v, s)
<1>1. SUFFICES ASSUME NEW r \in 0..3, NEW c \in 0..3 PROVE v[c][r + 1] = s[PlaceOf(r, c)]
  BY DEF Holds
<1>2. r = 0 \/ r = 1 \/ r = 2 \/ r = 3
  OBVIOUS
<1>3. 0 + 1 = 1 /\ 1 + 1 = 2 /\ 2 + 1 = 3 /\ 3 + 1 = 4
  OBVIOUS
<1>4. QED
  BY <1>2, <1>3

LEMMA MixedColumn ==
  ASSUME NEW s \in Block, NEW c \in 0..3
  PROVE  LET x0 == s[PlaceOf(0, c)]
             x1 == s[PlaceOf(1, c)]
             x2 == s[PlaceOf(2, c)]
             x3 == s[PlaceOf(3, c)]
             tt == MixColumns(s)
         IN /\ tt[PlaceOf(0, c)] = Mixing(x0, x1, x2, x3) /\ tt[PlaceOf(1, c)] = Mixing(x1, x2, x3, x0)
            /\ tt[PlaceOf(2, c)] = Mixing(x2, x3, x0, x1) /\ tt[PlaceOf(3, c)] = Mixing(x3, x0, x1, x2)
<1>1. /\ (0 + 1) % 4 = 1 /\ (0 + 2) % 4 = 2 /\ (0 + 3) % 4 = 3
      /\ (1 + 1) % 4 = 2 /\ (1 + 2) % 4 = 3 /\ (1 + 3) % 4 = 0
      /\ (2 + 1) % 4 = 3 /\ (2 + 2) % 4 = 0 /\ (2 + 3) % 4 = 1
      /\ (3 + 1) % 4 = 0 /\ (3 + 2) % 4 = 1 /\ (3 + 3) % 4 = 2
      /\ 0 \in 0..3 /\ 1 \in 0..3 /\ 2 \in 0..3 /\ 3 \in 0..3
  OBVIOUS
<1>2. \A r \in 0..3 : MixColumns(s)[PlaceOf(r, c)]
                        = Mixing(s[PlaceOf(r, c)], s[PlaceOf((r + 1) % 4, c)],
                                 s[PlaceOf((r + 2) % 4, c)], s[PlaceOf((r + 3) % 4, c)])
  BY MixColumnsAt
<1>3. MixColumns(s)[PlaceOf(0, c)]
        = Mixing(s[PlaceOf(0, c)], s[PlaceOf((0 + 1) % 4, c)], s[PlaceOf((0 + 2) % 4, c)], s[PlaceOf((0 + 3) % 4, c)])
  BY ONLY <1>1, <1>2
<1>4. MixColumns(s)[PlaceOf(1, c)]
        = Mixing(s[PlaceOf(1, c)], s[PlaceOf((1 + 1) % 4, c)], s[PlaceOf((1 + 2) % 4, c)], s[PlaceOf((1 + 3) % 4, c)])
  BY ONLY <1>1, <1>2
<1>5. MixColumns(s)[PlaceOf(2, c)]
        = Mixing(s[PlaceOf(2, c)], s[PlaceOf((2 + 1) % 4, c)], s[PlaceOf((2 + 2) % 4, c)], s[PlaceOf((2 + 3) % 4, c)])
  BY ONLY <1>1, <1>2
<1>6. MixColumns(s)[PlaceOf(3, c)]
        = Mixing(s[PlaceOf(3, c)], s[PlaceOf((3 + 1) % 4, c)], s[PlaceOf((3 + 2) % 4, c)], s[PlaceOf((3 + 3) % 4, c)])
  BY ONLY <1>1, <1>2
<1>7. QED
  BY <1>1, <1>3, <1>4, <1>5, <1>6

\* The cells of a column of a state are bytes.
LEMMA CellsAreBytes ==
  ASSUME NEW s \in Block, NEW c \in 0..3
  PROVE  /\ s[PlaceOf(0, c)] \in Byte /\ s[PlaceOf(1, c)] \in Byte
         /\ s[PlaceOf(2, c)] \in Byte /\ s[PlaceOf(3, c)] \in Byte
<1>1. /\ PlaceOf(0, c) \in 1..16 /\ PlaceOf(1, c) \in 1..16
      /\ PlaceOf(2, c) \in 1..16 /\ PlaceOf(3, c) \in 1..16
  BY DEF PlaceOf
<1>2. QED
  BY <1>1 DEF Block

\* Four words v to which the key of round i is added.
Keyed(v, rk, i) == [j \in 0..3 |-> XorWords(v[j], rk[(4 * i) + j])]

LEMMA KeyedHolds ==
  ASSUME NEW s \in Block, NEW v, Holds(v, s), \A j \in 0..3 : v[j] \in AesWord,
         NEW rk, NEW i \in Nat, \A j \in 0..3 : rk[(4 * i) + j] \in AesWord
  PROVE  Holds(Keyed(v, rk, i), AddRoundKey(s, rk, i))
<1>1. SUFFICES ASSUME NEW r \in 0..3, NEW c \in 0..3
               PROVE Keyed(v, rk, i)[c][r + 1] = AddRoundKey(s, rk, i)[PlaceOf(r, c)]
  BY DEF Holds
<1>2. Keyed(v, rk, i)[c] = XorWords(v[c], rk[(4 * i) + c])
  BY DEF Keyed
<1>3. v[c] \in AesWord /\ rk[(4 * i) + c] \in AesWord /\ r + 1 \in 1..4
  OBVIOUS
<1>4. XorWords(v[c], rk[(4 * i) + c])[r + 1] = XorByte(v[c][r + 1], rk[(4 * i) + c][r + 1])
  BY <1>3, XorOfWords
<1>5. v[c][r + 1] = s[PlaceOf(r, c)]
  BY DEF Holds
<1>6. QED
  BY <1>2, <1>4, <1>5, AddRoundKeyAt

\* What the words hold at the places that a round reads.
LEMMA ShiftedReads ==
  ASSUME NEW s \in Block, Holds(aes_words, s), NEW c \in 0..3, NEW r \in 0..3
  PROVE  /\ Shifted(c, r) \in Byte
         /\ e4[Shifted(c, r)] = SubShift(s)[PlaceOf(r, c)]
<1>1. (c + r) % 4 \in 0..3
  OBVIOUS
<1>2. Shifted(c, r) = s[PlaceOf(r, (c + r) % 4)]
  BY <1>1 DEF Shifted, Holds
<1>3. PlaceOf(r, (c + r) % 4) \in 1..16
  BY <1>1, Places16
<1>4. QED
  BY <1>2, <1>3, SubShiftAt DEF Block

LEMMA UnshiftedReads ==
  ASSUME NEW s \in Block, Holds(aes_words, SubShift(s)), NEW c \in 0..3, NEW r \in 0..3
  PROVE  /\ Unshifted(c, r) \in Byte
         /\ d4[Unshifted(c, r)] = s[PlaceOf(r, c)]
         /\ d4[Unshifted(c, r)] \in Byte
<1>1. (c + 4 - r) % 4 \in 0..3 /\ (((c + 4 - r) % 4) + r) % 4 = c
  OBVIOUS
<1>2. Unshifted(c, r) = SubShift(s)[PlaceOf(r, (c + 4 - r) % 4)]
  BY <1>1 DEF Unshifted, Holds
<1>3. SubShift(s)[PlaceOf(r, (c + 4 - r) % 4)] = e4[s[PlaceOf(r, c)]]
  BY <1>1, SubShiftAt
<1>4. s[PlaceOf(r, c)] \in Byte
  BY Places16 DEF Block
<1>5. QED
  BY <1>2, <1>3, <1>4, SubBytesInverts

\* The words of a round before its key is added.
MadeByRound == [j \in 0..3 |-> XorFour(e0[Shifted(j, 0)], e1[Shifted(j, 1)], e2[Shifted(j, 2)], e3[Shifted(j, 3)])]
MadeByLast == [j \in 0..3 |-> [r \in 1..4 |-> e4[Shifted(j, r - 1)]]]
MadeByInverse == [j \in 0..3 |-> XorFour(d0[Unshifted(j, 0)], d1[Unshifted(j, 1)],
                                         d2[Unshifted(j, 2)], d3[Unshifted(j, 3)])]
MadeByInverseLast == [j \in 0..3 |-> [r \in 1..4 |-> d4[Unshifted(j, r - 1)]]]

LEMMA RoundMakes ==
  ASSUME NEW s \in Block, Holds(aes_words, s)
  PROVE  Holds(MadeByRound, MixColumns(SubShift(s))) /\ \A j \in 0..3 : MadeByRound[j] \in AesWord
<1> DEFINE ss == SubShift(s)
<1>1. ss \in Block
  BY SubShiftAt
<1>2. ASSUME NEW c \in 0..3
      PROVE  /\ MadeByRound[c] \in AesWord
             /\ MadeByRound[c][1] = MixColumns(ss)[PlaceOf(0, c)]
             /\ MadeByRound[c][2] = MixColumns(ss)[PlaceOf(1, c)]
             /\ MadeByRound[c][3] = MixColumns(ss)[PlaceOf(2, c)]
             /\ MadeByRound[c][4] = MixColumns(ss)[PlaceOf(3, c)]
  <2>1. /\ Shifted(c, 0) \in Byte /\ e4[Shifted(c, 0)] = ss[PlaceOf(0, c)]
        /\ Shifted(c, 1) \in Byte /\ e4[Shifted(c, 1)] = ss[PlaceOf(1, c)]
        /\ Shifted(c, 2) \in Byte /\ e4[Shifted(c, 2)] = ss[PlaceOf(2, c)]
        /\ Shifted(c, 3) \in Byte /\ e4[Shifted(c, 3)] = ss[PlaceOf(3, c)]
    BY ShiftedReads
  <2>2. MadeByE(Shifted(c, 0), Shifted(c, 1), Shifted(c, 2), Shifted(c, 3))
    BY <2>1, ColumnOfE
  <2>3. MadeByRound[c] = XorFour(e0[Shifted(c, 0)], e1[Shifted(c, 1)], e2[Shifted(c, 2)], e3[Shifted(c, 3)])
    BY DEF MadeByRound
  <2> HIDE DEF ss
  <2>4. QED
    BY <1>1, <2>1, <2>2, <2>3, MixedColumn DEF MadeByE
<1>3. QED
  BY <1>2, HoldsColumns

LEMMA LastMakes ==
  ASSUME NEW s \in Block, Holds(aes_words, s)
  PROVE  Holds(MadeByLast, SubShift(s)) /\ \A j \in 0..3 : MadeByLast[j] \in AesWord
<1>1. ASSUME NEW c \in 0..3, NEW r \in 0..3
      PROVE  MadeByLast[c][r + 1] = SubShift(s)[PlaceOf(r, c)]
  <2>1. MadeByLast[c][r + 1] = e4[Shifted(c, r)]
    BY DEF MadeByLast
  <2>2. QED
    BY <2>1, ShiftedReads
<1>2. ASSUME NEW c \in 0..3 PROVE MadeByLast[c] \in AesWord
  <2>1. ASSUME NEW r \in 1..4 PROVE e4[Shifted(c, r - 1)] \in Byte
    <3>1. r - 1 \in 0..3
      OBVIOUS
    <3>2. Shifted(c, r - 1) \in Byte
      BY <3>1, ShiftedReads
    <3>3. QED
      BY <3>2, SubBytesInverts
  <2>2. QED
    BY <2>1 DEF MadeByLast, AesWord
<1>3. QED
  BY <1>1, <1>2 DEF Holds

LEMMA InverseLastMakes ==
  ASSUME NEW s \in Block, Holds(aes_words, SubShift(s))
  PROVE  Holds(MadeByInverseLast, s) /\ \A j \in 0..3 : MadeByInverseLast[j] \in AesWord
<1>1. ASSUME NEW c \in 0..3, NEW r \in 0..3
      PROVE  MadeByInverseLast[c][r + 1] = s[PlaceOf(r, c)]
  <2>1. MadeByInverseLast[c][r + 1] = d4[Unshifted(c, r)]
    BY DEF MadeByInverseLast
  <2>2. QED
    BY <2>1, UnshiftedReads
<1>2. ASSUME NEW c \in 0..3 PROVE MadeByInverseLast[c] \in AesWord
  <2>1. ASSUME NEW r \in 1..4 PROVE d4[Unshifted(c, r - 1)] \in Byte
    <3>1. r - 1 \in 0..3
      OBVIOUS
    <3>2. QED
      BY <3>1, UnshiftedReads
  <2>2. QED
    BY <2>1 DEF MadeByInverseLast, AesWord
<1>3. QED
  BY <1>1, <1>2 DEF Holds

\* The inverse of MixColumns on a column to which a key was added, and the
\* inverse on the key, give the byte there was before MixColumns.
Undone(a, b, c, d, e, f, g, h) ==
  XorByte(Unmixing(XorByte(Mixing(a, b, c, d), e), XorByte(Mixing(b, c, d, a), f),
                   XorByte(Mixing(c, d, a, b), g), XorByte(Mixing(d, a, b, c), h)),
          Unmixing(e, f, g, h)) = a
LEMMA MixUndone ==
  ASSUME NEW a \in Byte, NEW b \in Byte, NEW c \in Byte, NEW d \in Byte,
         NEW e \in Byte, NEW f \in Byte, NEW g \in Byte, NEW h \in Byte
  PROVE  Undone(a, b, c, d, e, f, g, h)
<1> DEFINE m == Mixing(a, b, c, d)
           n == Mixing(b, c, d, a)
           oo == Mixing(c, d, a, b)
           q == Mixing(d, a, b, c)
           u == Unmixing(e, f, g, h)
<1>1. m \in Byte /\ n \in Byte /\ oo \in Byte /\ q \in Byte /\ u \in Byte
  BY MixIsByte
<1>2. Unmixing(m, n, oo, q) = a
  BY UnmixRestores DEF Restored
<1> HIDE DEF m, n, oo, q
<1>3. Unmixing(XorByte(m, e), XorByte(n, f), XorByte(oo, g), XorByte(q, h)) = XorByte(a, u)
  <2>1. /\ m \in Byte /\ n \in Byte /\ oo \in Byte /\ q \in Byte
        /\ e \in Byte /\ f \in Byte /\ g \in Byte /\ h \in Byte
    BY <1>1
  <2>2. UnmixAdded(m, n, oo, q, e, f, g, h)
    BY ONLY <2>1, UnmixAdds
  <2>3. QED
    BY <1>2, <2>2 DEF UnmixAdded
<1>4. XorByte(XorByte(a, u), u) = a
  BY <1>1, XorLaws
<1>5. QED
  BY <1>3, <1>4 DEF Undone, m, n, oo, q

\* A round of the decryption: from the state behind a round of the encryption,
\* put through SubBytes and ShiftRows, to the one before that round.
LEMMA InverseMakes ==
  ASSUME NEW s \in Block, NEW rk, NEW m \in Nat, \A c \in 0..3 : rk[(4 * m) + c] \in AesWord,
         Holds(aes_words, SubShift(AddRoundKey(MixColumns(SubShift(s)), rk, m))),
         NEW dk, NEW i \in Nat, \A c \in 0..3 : dk[(4 * i) + c] = Column(rk[(4 * m) + c])
  PROVE  Holds(Keyed(MadeByInverse, dk, i), SubShift(s))
<1> DEFINE ss == SubShift(s)
           tt == AddRoundKey(MixColumns(ss), rk, m)
<1>1. ss \in Block /\ MixColumns(ss) \in Block
  BY SubShiftAt, MixColumnsAt
<1>2. tt \in Block
  BY <1>1, AddRoundKeyAt
<1>3. SUFFICES ASSUME NEW c \in 0..3
               PROVE  /\ Keyed(MadeByInverse, dk, i)[c][1] = ss[PlaceOf(0, c)]
                      /\ Keyed(MadeByInverse, dk, i)[c][2] = ss[PlaceOf(1, c)]
                      /\ Keyed(MadeByInverse, dk, i)[c][3] = ss[PlaceOf(2, c)]
                      /\ Keyed(MadeByInverse, dk, i)[c][4] = ss[PlaceOf(3, c)]
  BY HoldsColumns
<1> DEFINE x0 == ss[PlaceOf(0, c)]
           x1 == ss[PlaceOf(1, c)]
           x2 == ss[PlaceOf(2, c)]
           x3 == ss[PlaceOf(3, c)]
           ck == rk[(4 * m) + c]
           v == MadeByInverse[c]
<1>4. x0 \in Byte /\ x1 \in Byte /\ x2 \in Byte /\ x3 \in Byte
  BY <1>1, CellsAreBytes
<1>5. ck \in AesWord /\ ck[1] \in Byte /\ ck[2] \in Byte /\ ck[3] \in Byte /\ ck[4] \in Byte
  BY DEF AesWord
<1>6. /\ tt[PlaceOf(0, c)] = XorByte(Mixing(x0, x1, x2, x3), ck[1])
      /\ tt[PlaceOf(1, c)] = XorByte(Mixing(x1, x2, x3, x0), ck[2])
      /\ tt[PlaceOf(2, c)] = XorByte(Mixing(x2, x3, x0, x1), ck[3])
      /\ tt[PlaceOf(3, c)] = XorByte(Mixing(x3, x0, x1, x2), ck[4])
  <2>1. \A r \in 0..3 : tt[PlaceOf(r, c)] = XorByte(MixColumns(ss)[PlaceOf(r, c)], ck[r + 1])
    BY <1>1, AddRoundKeyAt
  <2> HIDE DEF tt, ck
  <2>2. /\ tt[PlaceOf(0, c)] = XorByte(MixColumns(ss)[PlaceOf(0, c)], ck[1])
        /\ tt[PlaceOf(1, c)] = XorByte(MixColumns(ss)[PlaceOf(1, c)], ck[2])
        /\ tt[PlaceOf(2, c)] = XorByte(MixColumns(ss)[PlaceOf(2, c)], ck[3])
        /\ tt[PlaceOf(3, c)] = XorByte(MixColumns(ss)[PlaceOf(3, c)], ck[4])
    <3>1. /\ 0 \in 0..3 /\ 1 \in 0..3 /\ 2 \in 0..3 /\ 3 \in 0..3
          /\ 0 + 1 = 1 /\ 1 + 1 = 2 /\ 2 + 1 = 3 /\ 3 + 1 = 4
      OBVIOUS
    <3>2. QED
      BY ONLY <2>1, <3>1
  <2> HIDE DEF ss
  <2>3. QED
    BY <1>1, <2>2, MixedColumn
<1>7. /\ v \in AesWord
      /\ v[1] = Unmixing(tt[PlaceOf(0, c)], tt[PlaceOf(1, c)], tt[PlaceOf(2, c)], tt[PlaceOf(3, c)])
      /\ v[2] = Unmixing(tt[PlaceOf(1, c)], tt[PlaceOf(2, c)], tt[PlaceOf(3, c)], tt[PlaceOf(0, c)])
      /\ v[3] = Unmixing(tt[PlaceOf(2, c)], tt[PlaceOf(3, c)], tt[PlaceOf(0, c)], tt[PlaceOf(1, c)])
      /\ v[4] = Unmixing(tt[PlaceOf(3, c)], tt[PlaceOf(0, c)], tt[PlaceOf(1, c)], tt[PlaceOf(2, c)])
  <2>1. Holds(aes_words, SubShift(tt))
    OBVIOUS
  <2> HIDE DEF tt
  <2>2. /\ Unshifted(c, 0) \in Byte /\ d4[Unshifted(c, 0)] = tt[PlaceOf(0, c)] /\ d4[Unshifted(c, 0)] \in Byte
        /\ Unshifted(c, 1) \in Byte /\ d4[Unshifted(c, 1)] = tt[PlaceOf(1, c)] /\ d4[Unshifted(c, 1)] \in Byte
        /\ Unshifted(c, 2) \in Byte /\ d4[Unshifted(c, 2)] = tt[PlaceOf(2, c)] /\ d4[Unshifted(c, 2)] \in Byte
        /\ Unshifted(c, 3) \in Byte /\ d4[Unshifted(c, 3)] = tt[PlaceOf(3, c)] /\ d4[Unshifted(c, 3)] \in Byte
    BY <1>2, <2>1, UnshiftedReads
  <2>3. MadeByD(Unshifted(c, 0), Unshifted(c, 1), Unshifted(c, 2), Unshifted(c, 3))
    BY <2>2, ColumnOfD
  <2>4. v = XorFour(d0[Unshifted(c, 0)], d1[Unshifted(c, 1)], d2[Unshifted(c, 2)], d3[Unshifted(c, 3)])
    BY DEF MadeByInverse
  <2> HIDE DEF v
  <2>5. QED
    BY <2>2, <2>3, <2>4 DEF MadeByD
<1>8. /\ Column(ck) \in AesWord
      /\ Column(ck)[1] = Unmixing(ck[1], ck[2], ck[3], ck[4])
      /\ Column(ck)[2] = Unmixing(ck[2], ck[3], ck[4], ck[1])
      /\ Column(ck)[3] = Unmixing(ck[3], ck[4], ck[1], ck[2])
      /\ Column(ck)[4] = Unmixing(ck[4], ck[1], ck[2], ck[3])
  BY <1>5, ColumnUnmixes DEF ColumnUnmixed
<1>9. /\ Undone(x0, x1, x2, x3, ck[1], ck[2], ck[3], ck[4])
      /\ Undone(x1, x2, x3, x0, ck[2], ck[3], ck[4], ck[1])
      /\ Undone(x2, x3, x0, x1, ck[3], ck[4], ck[1], ck[2])
      /\ Undone(x3, x0, x1, x2, ck[4], ck[1], ck[2], ck[3])
  BY <1>4, <1>5, MixUndone
<1>10. Keyed(MadeByInverse, dk, i)[c] = XorWords(v, Column(ck))
  BY DEF Keyed
<1> HIDE DEF x0, x1, x2, x3, ck, v, tt
<1>11. /\ XorWords(v, Column(ck))[1] = XorByte(v[1], Column(ck)[1])
       /\ XorWords(v, Column(ck))[2] = XorByte(v[2], Column(ck)[2])
       /\ XorWords(v, Column(ck))[3] = XorByte(v[3], Column(ck)[3])
       /\ XorWords(v, Column(ck))[4] = XorByte(v[4], Column(ck)[4])
  BY DEF XorWords
<1>12. /\ XorByte(v[1], Column(ck)[1]) = x0 /\ XorByte(v[2], Column(ck)[2]) = x1
       /\ XorByte(v[3], Column(ck)[3]) = x2 /\ XorByte(v[4], Column(ck)[4]) = x3
  BY <1>6, <1>7, <1>8, <1>9 DEF Undone
<1>13. QED
  BY <1>10, <1>11, <1>12 DEF x0, x1, x2, x3

\* Keys that agree in the words of a round do the same in it.
LEMMA KeyedSame ==
  ASSUME NEW v, NEW rk, NEW i \in Nat, NEW dk, NEW m \in Nat,
         \A j \in 0..3 : rk[(4 * i) + j] = dk[(4 * m) + j]
  PROVE  Keyed(v, rk, i) = Keyed(v, dk, m)
<1>1. ASSUME NEW j \in 0..3 PROVE XorWords(v[j], rk[(4 * i) + j]) = XorWords(v[j], dk[(4 * m) + j])
  OBVIOUS
<1>2. QED
  BY <1>1 DEF Keyed

\* The key of a round, added once more, is taken off.
LEMMA KeyedBack ==
  ASSUME NEW s \in Block, NEW v, \A j \in 0..3 : v[j] \in AesWord,
         NEW rk, NEW i \in Nat, \A j \in 0..3 : rk[(4 * i) + j] \in AesWord,
         Holds(v, AddRoundKey(s, rk, i))
  PROVE  Holds(Keyed(v, rk, i), s)
<1>1. SUFFICES ASSUME NEW r \in 0..3, NEW c \in 0..3
               PROVE Keyed(v, rk, i)[c][r + 1] = s[PlaceOf(r, c)]
  BY DEF Holds
<1> DEFINE x == s[PlaceOf(r, c)]
           ck == rk[(4 * i) + c]
           y == ck[r + 1]
<1>2. v[c] \in AesWord /\ ck \in AesWord /\ r + 1 \in 1..4
  OBVIOUS
<1>3. x \in Byte /\ y \in Byte
  BY <1>2, Places16 DEF Block, AesWord
<1>4. Keyed(v, rk, i)[c] = XorWords(v[c], ck)
  BY DEF Keyed
<1>5. v[c][r + 1] = XorByte(x, y)
  BY AddRoundKeyAt DEF Holds
<1> HIDE DEF x, ck
<1>6. XorWords(v[c], ck)[r + 1] = XorByte(v[c][r + 1], y)
  BY <1>2, XorOfWords
<1> HIDE DEF y
<1>7. XorByte(XorByte(x, y), y) = x
  BY <1>3, XorLaws
<1>8. QED
  BY <1>4, <1>5, <1>6, <1>7 DEF x

\* The words of a block.
WordsOfBlock(block) == [j \in 0..3 |-> BigEndian(block, j)]

LEMMA BlockHolds ==
  ASSUME NEW block \in Block
  PROVE  Holds(WordsOfBlock(block), block) /\ \A j \in 0..3 : WordsOfBlock(block)[j] \in AesWord
<1>1. ASSUME NEW c \in 0..3
      PROVE  WordsOfBlock(block)[c] = <<block[PlaceOf(0, c)], block[PlaceOf(1, c)],
                                        block[PlaceOf(2, c)], block[PlaceOf(3, c)]>>
  <2>1. /\ PlaceOf(0, c) = (4 * c) + 1 /\ PlaceOf(1, c) = (4 * c) + 2
        /\ PlaceOf(2, c) = (4 * c) + 3 /\ PlaceOf(3, c) = (4 * c) + 4
    BY DEF PlaceOf
  <2>2. QED
    BY <2>1 DEF WordsOfBlock, BigEndian
<1>2. ASSUME NEW c \in 0..3
      PROVE  /\ WordsOfBlock(block)[c] \in AesWord
             /\ WordsOfBlock(block)[c][1] = block[PlaceOf(0, c)]
             /\ WordsOfBlock(block)[c][2] = block[PlaceOf(1, c)]
             /\ WordsOfBlock(block)[c][3] = block[PlaceOf(2, c)]
             /\ WordsOfBlock(block)[c][4] = block[PlaceOf(3, c)]
  <2> DEFINE a == block[PlaceOf(0, c)]
             b == block[PlaceOf(1, c)]
             d == block[PlaceOf(2, c)]
             e == block[PlaceOf(3, c)]
             v == WordsOfBlock(block)[c]
  <2>1. a \in Byte /\ b \in Byte /\ d \in Byte /\ e \in Byte
    BY CellsAreBytes
  <2>2. v = <<a, b, d, e>>
    BY <1>1
  <2> HIDE DEF a, b, d, e, v
  <2>3. v \in AesWord /\ v[1] = a /\ v[2] = b /\ v[3] = d /\ v[4] = e
    BY <2>1, <2>2, WordOfBytes
  <2>4. QED
    BY <2>3 DEF a, b, d, e, v
<1>3. QED
  BY <1>2, HoldsColumns

\* The key of round i of a decryption is that of round n - i.
InvertedKey(rk, n, i, c) ==
  Inverted(rk, n)[(4 * i) + c]
    = IF i \in 1..(n - 1) THEN Column(rk[(4 * (n - i)) + c]) ELSE rk[(4 * (n - i)) + c]
LEMMA InvertedKeys ==
  ASSUME NEW n \in Nat, NEW rk, DOMAIN rk = 0..((4 * n) + 3), NEW i \in 0..n, NEW c \in 0..3
  PROVE  InvertedKey(rk, n, i, c)
<1>1. /\ (4 * i) + c \in 0..((4 * n) + 3)
      /\ ((4 * i) + c) \div 4 = i /\ ((4 * i) + c) % 4 = c
  OBVIOUS
<1>2. Reversed(rk, n, (4 * i) + c) = rk[(4 * (n - i)) + c]
  BY <1>1 DEF Reversed
<1>3. MixedInDecryption((4 * i) + c, n) <=> i \in 1..(n - 1)
  BY <1>1 DEF MixedInDecryption
<1>4. QED
  BY <1>1, <1>2, <1>3 DEF Inverted, InvertedKey

-----------------------------------------------------------------------------
(* The invariant of the cipher *)

\* The schedule is of the key that was set last, for the use it was set for.
ScheduleIn ==
  /\ role \in {"none", "encrypt", "decrypt"}
  /\ role # "none" => IsKey(key) /\ rounds = RoundsFor(key)
  /\ role = "encrypt" => \A j \in 0..((4 * rounds) + 3) : rd_key[j] = Expanded(key)[j]
  /\ role = "decrypt" => \A j \in 0..((4 * rounds) + 3) : rd_key[j] = Inverted(Expanded(key), rounds)[j]

\* The words hold the state behind the rounds that were made.
EncryptingIn ==
  aes_phase = "encrypting" =>
    /\ role = "encrypt" /\ given \in Block /\ aes_round \in 1..rounds
    /\ Holds(aes_words, States(given, key)[aes_round])

\* Whatever block the given one is the cipher text of, the words hold the state
\* of that block before as many rounds, put through SubBytes and ShiftRows.
DecryptingIn ==
  aes_phase = "decrypting" =>
    /\ role = "decrypt" /\ given \in Block /\ aes_round \in 1..rounds
    /\ \A p \in Block : Cipher(p, key) = given
         => Holds(aes_words, SubShift(States(p, key)[rounds - aes_round + 1]))

LastIn ==
  \/ aes_last.plain = <<>> /\ aes_last.cipher = <<>>
  \/ /\ aes_last.plain \in Block /\ aes_last.cipher \in Block
     /\ aes_last.cipher = Cipher(aes_last.plain, aes_last.key)

OpenedIn ==
  \/ opened.plain = <<>> /\ opened.cipher = <<>>
  \/ /\ opened.cipher \in Block
     /\ \A p \in Block : Cipher(p, opened.key) = opened.cipher => opened.plain = p

AesInv ==
  /\ aes_phase \in {"idle", "encrypting", "decrypting"}
  /\ ScheduleIn /\ EncryptingIn /\ DecryptingIn /\ LastIn /\ OpenedIn

LEMMA NoBlockIsEmpty == <<>> \notin Block
<1>1. SUFFICES ASSUME <<>> \in Block PROVE FALSE
  OBVIOUS
<1> DEFINE e == <<>>
<1>2. e \in Block /\ DOMAIN e = {}
  BY <1>1
<1> HIDE DEF e
<1>3. DOMAIN e = 1..16
  BY <1>2 DEF Block
<1>4. 1 \in 1..16
  OBVIOUS
<1>5. QED
  BY <1>2, <1>3, <1>4

LEMMA InputsAre ==
  /\ \A ck \in AesKeys : IsKey(ck)
  /\ \A block \in AesBlocks : block \in Block
<1>1. 0..255 = Byte
  BY DEF Byte
<1>2. QED
  BY <1>1, AesAssumption DEF AesInputsFit, IsKey, Block

\* The keys of the rounds, once the schedule is filled.
LEMMA KeyInUse ==
  ASSUME ScheduleIn, role # "none"
  PROVE  /\ IsKey(key) /\ rounds = RoundsFor(key) /\ rounds \in 10..14
         /\ \A i \in 0..rounds : \A c \in 0..3 : Expanded(key)[(4 * i) + c] \in AesWord
         /\ role = "encrypt" => \A i \in 0..rounds : \A c \in 0..3 :
              rd_key[(4 * i) + c] = Expanded(key)[(4 * i) + c]
         /\ role = "decrypt" => \A i \in 0..rounds : \A c \in 0..3 :
              rd_key[(4 * i) + c] = IF i \in 1..(rounds - 1)
                                    THEN Column(Expanded(key)[(4 * (rounds - i)) + c])
                                    ELSE Expanded(key)[(4 * (rounds - i)) + c]
<1>1. IsKey(key) /\ rounds = RoundsFor(key)
  BY DEF ScheduleIn
<1>2. rounds \in 10..14 /\ rounds \in Nat
  BY <1>1, Lengths
<1>3. \A i \in 0..rounds : \A c \in 0..3 : Expanded(key)[(4 * i) + c] \in AesWord
  BY <1>1, RoundKey
<1>4. \A i \in 0..rounds : \A c \in 0..3 : (4 * i) + c \in 0..((4 * rounds) + 3)
  BY <1>2
<1>5. DOMAIN Expanded(key) = 0..((4 * rounds) + 3)
  BY <1>1, ExpandedIsWords
<1>6. ASSUME role = "encrypt", NEW i \in 0..rounds, NEW c \in 0..3
      PROVE  rd_key[(4 * i) + c] = Expanded(key)[(4 * i) + c]
  BY <1>4, <1>6 DEF ScheduleIn
<1>7. ASSUME role = "decrypt", NEW i \in 0..rounds, NEW c \in 0..3
      PROVE  rd_key[(4 * i) + c] = IF i \in 1..(rounds - 1)
                                   THEN Column(Expanded(key)[(4 * (rounds - i)) + c])
                                   ELSE Expanded(key)[(4 * (rounds - i)) + c]
  <2>1. rd_key[(4 * i) + c] = Inverted(Expanded(key), rounds)[(4 * i) + c]
    BY <1>4, <1>7 DEF ScheduleIn
  <2> DEFINE rk == Expanded(key)
  <2>2. DOMAIN rk = 0..((4 * rounds) + 3)
    BY <1>5
  <2> HIDE DEF rk
  <2>3. InvertedKey(rk, rounds, i, c)
    BY <1>2, <1>7, <2>2, InvertedKeys
  <2>4. QED
    BY <2>1, <2>3 DEF InvertedKey, rk
<1>8. QED
  BY <1>1, <1>2, <1>3, <1>6, <1>7

\* The first key of an encryption, and each round of it.
LEMMA EncryptionGoesOn ==
  ASSUME AesInv, aes_phase = "encrypting"
  PROVE  /\ States(given, key)[aes_round] \in Block
         /\ rounds \in 10..14 /\ aes_round \in 1..rounds
         /\ aes_round < rounds =>
              Holds(Keyed(MadeByRound, rd_key, aes_round), States(given, key)[aes_round + 1])
         /\ aes_round >= rounds => Holds(Keyed(MadeByLast, rd_key, rounds), Cipher(given, key))
         /\ Cipher(given, key) \in Block
<1> DEFINE rk == Expanded(key)
           s == States(given, key)[aes_round]
<1>1. /\ role = "encrypt" /\ given \in Block /\ aes_round \in 1..rounds /\ Holds(aes_words, s)
      /\ ScheduleIn
  BY DEF AesInv, EncryptingIn
<1>2. /\ IsKey(key) /\ rounds = RoundsFor(key) /\ rounds \in 10..14
      /\ \A c \in 0..3 : rk[(4 * aes_round) + c] \in AesWord
      /\ \A c \in 0..3 : rd_key[(4 * aes_round) + c] = rk[(4 * aes_round) + c]
  <2>1. aes_round \in 0..rounds
    BY <1>1
  <2>2. QED
    BY <1>1, <2>1, KeyInUse
<1>3. /\ s \in Block /\ States(given, key)[aes_round + 1] \in Block
      /\ States(given, key)[rounds + 1] \in Block
      /\ States(given, key)[aes_round + 1] = RoundResult(s, rk, rounds, aes_round)
      /\ Cipher(given, key) = States(given, key)[rounds + 1]
  <2>1. aes_round \in 1..(rounds + 1) /\ aes_round + 1 \in 1..(rounds + 1) /\ rounds + 1 \in 1..(rounds + 1)
    BY <1>1, <1>2
  <2>2. QED
    BY <1>1, <1>2, <2>1, StatesOf
<1>4. SubShift(s) \in Block /\ MixColumns(SubShift(s)) \in Block
  BY <1>3, SubShiftAt, MixColumnsAt
<1>5. aes_round \in Nat
  BY <1>1, <1>2
<1> HIDE DEF rk
<1>6. ASSUME NEW v PROVE Keyed(v, rd_key, aes_round) = Keyed(v, rk, aes_round)
  BY <1>2, <1>5, KeyedSame
<1>7. ASSUME aes_round < rounds
      PROVE  Holds(Keyed(MadeByRound, rd_key, aes_round), States(given, key)[aes_round + 1])
  <2>1. RoundResult(s, rk, rounds, aes_round) = AddRoundKey(MixColumns(SubShift(s)), rk, aes_round)
    BY <1>7 DEF RoundResult
  <2> HIDE DEF s
  <2>2. Holds(MadeByRound, MixColumns(SubShift(s))) /\ \A j \in 0..3 : MadeByRound[j] \in AesWord
    BY <1>1, <1>3, RoundMakes
  <2>3. Holds(Keyed(MadeByRound, rk, aes_round), AddRoundKey(MixColumns(SubShift(s)), rk, aes_round))
    BY <1>2, <1>4, <1>5, <2>2, KeyedHolds
  <2>4. QED
    BY <1>3, <1>6, <2>1, <2>3
<1>8. ASSUME aes_round >= rounds
      PROVE  Holds(Keyed(MadeByLast, rd_key, rounds), Cipher(given, key))
  <2>1. aes_round = rounds
    BY <1>1, <1>2, <1>8
  <2>2. RoundResult(s, rk, rounds, aes_round) = AddRoundKey(SubShift(s), rk, aes_round)
    BY <2>1, <1>2 DEF RoundResult
  <2> HIDE DEF s
  <2>3. Holds(MadeByLast, SubShift(s)) /\ \A j \in 0..3 : MadeByLast[j] \in AesWord
    BY <1>1, <1>3, LastMakes
  <2>4. Holds(Keyed(MadeByLast, rk, aes_round), AddRoundKey(SubShift(s), rk, aes_round))
    BY <1>2, <1>4, <1>5, <2>3, KeyedHolds
  <2>5. QED
    BY <1>3, <1>6, <2>1, <2>2, <2>4
<1>9. QED
  BY <1>1, <1>2, <1>3, <1>7, <1>8

LEMMA EncryptionBegins ==
  ASSUME AesInv, role = "encrypt", NEW block \in Block
  PROVE  /\ Holds(Keyed(WordsOfBlock(block), rd_key, 0), States(block, key)[1])
         /\ 1 \in 1..rounds
<1> DEFINE rk == Expanded(key)
<1>1. /\ IsKey(key) /\ rounds = RoundsFor(key) /\ rounds \in 10..14
      /\ \A c \in 0..3 : rk[(4 * 0) + c] \in AesWord
      /\ \A c \in 0..3 : rd_key[(4 * 0) + c] = rk[(4 * 0) + c]
  <2>1. ScheduleIn
    BY DEF AesInv
  <2>2. rounds \in 10..14
    BY <2>1, KeyInUse
  <2>3. 0 \in 0..rounds
    BY <2>2
  <2>4. QED
    BY <2>1, <2>3, KeyInUse
<1>2. States(block, key)[1] = AddRoundKey(block, rk, 0)
  BY <1>1, StatesOf
<1>3. Holds(WordsOfBlock(block), block) /\ \A j \in 0..3 : WordsOfBlock(block)[j] \in AesWord
  BY BlockHolds
<1> HIDE DEF rk
<1>4. Keyed(WordsOfBlock(block), rd_key, 0) = Keyed(WordsOfBlock(block), rk, 0)
  BY <1>1, KeyedSame
<1>5. Holds(Keyed(WordsOfBlock(block), rk, 0), AddRoundKey(block, rk, 0))
  BY <1>1, <1>3, KeyedHolds
<1>6. QED
  BY <1>1, <1>2, <1>4, <1>5

\* The same of the decryption of a block that p was encrypted to.
LEMMA DecryptionBegins ==
  ASSUME AesInv, role = "decrypt", NEW block \in Block, NEW p \in Block, Cipher(p, key) = block
  PROVE  Holds(Keyed(WordsOfBlock(block), rd_key, 0), SubShift(States(p, key)[rounds]))
<1> DEFINE rk == Expanded(key)
           s == States(p, key)[rounds]
<1>1. /\ IsKey(key) /\ rounds = RoundsFor(key) /\ rounds \in 10..14
      /\ \A c \in 0..3 : rk[(4 * rounds) + c] \in AesWord
      /\ \A c \in 0..3 : rd_key[(4 * 0) + c] = rk[(4 * rounds) + c]
  <2>1. ScheduleIn
    BY DEF AesInv
  <2>2. rounds \in 10..14
    BY <2>1, KeyInUse
  <2>3. 0 \in 0..rounds /\ rounds \in 0..rounds /\ 0 \notin 1..(rounds - 1) /\ rounds - 0 = rounds
    BY <2>2
  <2>4. \A c \in 0..3 : rd_key[(4 * 0) + c] = rk[(4 * (rounds - 0)) + c]
    BY <2>1, <2>3, KeyInUse
  <2>5. IsKey(key) /\ rounds = RoundsFor(key) /\ \A c \in 0..3 : rk[(4 * rounds) + c] \in AesWord
    BY <2>1, <2>3, KeyInUse
  <2>6. QED
    BY <2>2, <2>3, <2>4, <2>5
<1>2. s \in Block /\ block = AddRoundKey(SubShift(s), rk, rounds)
  <2>1. rounds \in 1..(rounds + 1) /\ rounds \in 1..rounds
    BY <1>1
  <2>2. States(p, key)[rounds] \in Block /\ block = RoundResult(States(p, key)[rounds], rk, rounds, rounds)
    BY <1>1, <2>1, StatesOf
  <2>3. QED
    BY <1>1, <2>2 DEF RoundResult
<1>3. SubShift(s) \in Block
  BY <1>2, SubShiftAt
<1>4. Holds(WordsOfBlock(block), block) /\ \A j \in 0..3 : WordsOfBlock(block)[j] \in AesWord
  BY BlockHolds
<1> HIDE DEF rk
<1>5. Keyed(WordsOfBlock(block), rd_key, 0) = Keyed(WordsOfBlock(block), rk, rounds)
  BY <1>1, KeyedSame
<1> HIDE DEF s
<1>6. Holds(Keyed(WordsOfBlock(block), rk, rounds), SubShift(s))
  BY <1>1, <1>2, <1>3, <1>4, KeyedBack
<1>7. QED
  BY <1>5, <1>6 DEF s

LEMMA DecryptionGoesOn ==
  ASSUME AesInv, aes_phase = "decrypting", NEW p \in Block, Cipher(p, key) = given
  PROVE  /\ aes_round < rounds =>
              Holds(Keyed(MadeByInverse, rd_key, aes_round), SubShift(States(p, key)[rounds - aes_round]))
         /\ aes_round >= rounds => Holds(Keyed(MadeByInverseLast, rd_key, rounds), p)
<1> DEFINE rk == Expanded(key)
           m == rounds - aes_round
           tt == States(p, key)[m + 1]
<1>1. /\ role = "decrypt" /\ given \in Block /\ aes_round \in 1..rounds /\ Holds(aes_words, SubShift(tt))
      /\ ScheduleIn
  BY DEF AesInv, DecryptingIn
<1>2. IsKey(key) /\ rounds = RoundsFor(key) /\ rounds \in 10..14
  BY <1>1, KeyInUse
<1>3. /\ aes_round \in 0..rounds /\ aes_round \in Nat /\ m \in 0..rounds /\ m \in Nat
      /\ m + 1 \in 1..(rounds + 1)
  BY <1>1, <1>2
<1>4. /\ \A c \in 0..3 : rk[(4 * m) + c] \in AesWord
      /\ \A c \in 0..3 : rd_key[(4 * aes_round) + c]
           = IF aes_round \in 1..(rounds - 1) THEN Column(rk[(4 * m) + c]) ELSE rk[(4 * m) + c]
  BY <1>1, <1>3, KeyInUse
<1>5. tt \in Block
  BY <1>2, <1>3, StatesOf
<1>6. ASSUME aes_round < rounds
      PROVE  Holds(Keyed(MadeByInverse, rd_key, aes_round), SubShift(States(p, key)[rounds - aes_round]))
  <2> DEFINE s == States(p, key)[m]
  <2>1. m \in 1..rounds /\ m < rounds /\ m \in 1..(rounds + 1) /\ aes_round \in 1..(rounds - 1)
    BY <1>1, <1>2, <1>6
  <2>2. s \in Block /\ tt = RoundResult(s, rk, rounds, m)
    BY <1>2, <2>1, StatesOf
  <2>3. tt = AddRoundKey(MixColumns(SubShift(s)), rk, m)
    BY <2>1, <2>2 DEF RoundResult
  <2>4. \A c \in 0..3 : rd_key[(4 * aes_round) + c] = Column(rk[(4 * m) + c])
    BY <1>4, <2>1
  <2> HIDE DEF rk, m, tt, s
  <2>5. Holds(Keyed(MadeByInverse, rd_key, aes_round), SubShift(s))
    BY <1>1, <1>3, <1>4, <2>2, <2>3, <2>4, InverseMakes
  <2>6. QED
    BY <2>5 DEF s, m
<1>7. ASSUME aes_round >= rounds
      PROVE  Holds(Keyed(MadeByInverseLast, rd_key, rounds), p)
  <2>1. aes_round = rounds /\ m = 0 /\ aes_round \notin 1..(rounds - 1)
    BY <1>1, <1>2, <1>7
  <2>2. tt = AddRoundKey(p, rk, 0)
    BY <1>2, <2>1, StatesOf
  <2>3. \A c \in 0..3 : rd_key[(4 * aes_round) + c] = rk[(4 * m) + c]
    BY <1>4, <2>1
  <2> HIDE DEF rk, tt
  <2>4. Holds(MadeByInverseLast, tt) /\ \A j \in 0..3 : MadeByInverseLast[j] \in AesWord
    BY <1>1, <1>5, InverseLastMakes
  <2> HIDE DEF m
  <2>5. Keyed(MadeByInverseLast, rd_key, aes_round) = Keyed(MadeByInverseLast, rk, m)
    BY <1>3, <2>3, KeyedSame
  <2>6. Holds(Keyed(MadeByInverseLast, rk, m), p)
    BY <1>3, <1>4, <2>1, <2>2, <2>4, KeyedBack
  <2>7. QED
    BY <2>1, <2>5, <2>6
<1>8. QED
  BY <1>6, <1>7

LEMMA AesInitInv == AesInit => AesInv
  BY DEF AesInit, AesInv, ScheduleIn, EncryptingIn, DecryptingIn, LastIn, OpenedIn

\* Setting a key, in either direction, leaves the words behind the new ones
\* as they were and makes those of the new key.
LEMMA RekeyStep ==
  ASSUME AesInv, NEW ck \in AesKeys, SetEncryptKey(ck) \/ SetDecryptKey(ck)
  PROVE  AesInv'
<1>1. IsKey(ck)
  BY InputsAre
<1> DEFINE n == RoundsFor(ck)
           rk == Expanded(ck)
           dk == Inverted(rk, n)
<1>2. n \in Nat /\ n \in 10..14
  BY <1>1, Lengths
<1>3. DOMAIN rk = 0..((4 * n) + 3)
  BY <1>1, ExpandedIsWords
<1>4. DOMAIN dk = 0..((4 * n) + 3)
  BY <1>3 DEF Inverted
<1>5. \A j \in 0..((4 * n) + 3) : j \in 0..59
  BY <1>2
<1>6. /\ aes_phase = "idle" /\ aes_phase' = aes_phase /\ rounds' = n /\ key' = ck
      /\ aes_last' = aes_last /\ opened' = opened
  BY DEF SetEncryptKey, SetDecryptKey, Rekeyed, RoundsFor
<1>7. \/ role' = "encrypt" /\ rd_key' = Overlaid(rk)
      \/ role' = "decrypt" /\ rd_key' = Overlaid(dk)
  BY DEF SetEncryptKey, SetDecryptKey, RoundsFor
<1> HIDE DEF n, rk, dk
<1>8. ASSUME NEW q, DOMAIN q = 0..((4 * n) + 3)
      PROVE  \A j \in 0..((4 * n) + 3) : Overlaid(q)[j] = q[j]
  BY <1>5, <1>8 DEF Overlaid
<1>9. ScheduleIn'
  <2>1. CASE role' = "encrypt" /\ rd_key' = Overlaid(rk)
    <3>1. \A j \in 0..((4 * n) + 3) : Overlaid(rk)[j] = rk[j]
      BY <1>3, <1>8
    <3>2. QED
      BY <1>1, <1>6, <2>1, <3>1 DEF ScheduleIn, rk, n
  <2>2. CASE role' = "decrypt" /\ rd_key' = Overlaid(dk)
    <3>1. \A j \in 0..((4 * n) + 3) : Overlaid(dk)[j] = dk[j]
      BY <1>4, <1>8
    <3>2. QED
      BY <1>1, <1>6, <2>2, <3>1 DEF ScheduleIn, rk, dk, n
  <2>3. QED
    BY <1>7, <2>1, <2>2
<1>10. EncryptingIn' /\ DecryptingIn'
  BY <1>6 DEF EncryptingIn, DecryptingIn
<1>11. LastIn' /\ OpenedIn'
  BY <1>6 DEF AesInv, LastIn, OpenedIn
<1>12. QED
  BY <1>6, <1>9, <1>10, <1>11 DEF AesInv

LEMMA AesBeginEncryptStep ==
  ASSUME AesInv, NEW block \in Block, AesBeginEncrypt(block)
  PROVE  AesInv'
<1>1. /\ role = "encrypt" /\ aes_phase' = "encrypting" /\ given' = block /\ aes_round' = 1
      /\ UNCHANGED <<rounds, rd_key, role, key, aes_last, opened>>
      /\ aes_words' = [j \in 0..3 |-> XorWords(BigEndian(block, j), rd_key[j])]
  BY DEF AesBeginEncrypt, AesBegin
<1>2. aes_words' = Keyed(WordsOfBlock(block), rd_key, 0)
  BY <1>1 DEF Keyed, WordsOfBlock
<1>3. Holds(Keyed(WordsOfBlock(block), rd_key, 0), States(block, key)[1]) /\ 1 \in 1..rounds
  BY <1>1, EncryptionBegins
<1>4. ScheduleIn' /\ LastIn' /\ OpenedIn'
  BY <1>1 DEF AesInv, ScheduleIn, LastIn, OpenedIn
<1>5. EncryptingIn'
  BY <1>1, <1>2, <1>3 DEF EncryptingIn
<1>6. DecryptingIn'
  BY <1>1 DEF DecryptingIn
<1>7. QED
  BY <1>1, <1>4, <1>5, <1>6 DEF AesInv

LEMMA AesBeginDecryptStep ==
  ASSUME AesInv, NEW block \in Block, AesBeginDecrypt(block)
  PROVE  AesInv'
<1>1. /\ role = "decrypt" /\ aes_phase' = "decrypting" /\ given' = block /\ aes_round' = 1
      /\ UNCHANGED <<rounds, rd_key, role, key, aes_last, opened>>
      /\ aes_words' = [j \in 0..3 |-> XorWords(BigEndian(block, j), rd_key[j])]
  BY DEF AesBeginDecrypt, AesBegin
<1>2. aes_words' = Keyed(WordsOfBlock(block), rd_key, 0)
  BY <1>1 DEF Keyed, WordsOfBlock
<1>3. rounds \in 10..14
  BY <1>1, KeyInUse DEF AesInv
<1>4. 1 \in 1..rounds /\ rounds - 1 + 1 = rounds
  BY <1>3
<1>5. ASSUME NEW p \in Block, Cipher(p, key) = block
      PROVE  Holds(aes_words', SubShift(States(p, key)[rounds - 1 + 1]))
  BY <1>1, <1>2, <1>4, <1>5, DecryptionBegins
<1>6. ScheduleIn' /\ LastIn' /\ OpenedIn'
  BY <1>1 DEF AesInv, ScheduleIn, LastIn, OpenedIn
<1>7. DecryptingIn'
  BY <1>1, <1>4, <1>5 DEF DecryptingIn
<1>8. EncryptingIn'
  BY <1>1 DEF EncryptingIn
<1>9. QED
  BY <1>1, <1>6, <1>7, <1>8 DEF AesInv

LEMMA EncryptRoundStep == AesInv /\ EncryptRound => AesInv'
<1> SUFFICES ASSUME AesInv, EncryptRound PROVE AesInv'
  OBVIOUS
<1>1. /\ aes_phase = "encrypting" /\ aes_round < rounds /\ aes_round' = aes_round + 1
      /\ UNCHANGED <<rounds, rd_key, role, aes_phase, key, given, aes_last, opened>>
  BY DEF EncryptRound
<1>2. aes_words' = Keyed(MadeByRound, rd_key, aes_round)
  BY DEF EncryptRound, Keyed, MadeByRound
<1>3. /\ rounds \in 10..14 /\ aes_round \in 1..rounds
      /\ Holds(aes_words', States(given, key)[aes_round + 1])
  BY <1>1, <1>2, EncryptionGoesOn
<1>4. aes_round + 1 \in 1..rounds
  BY <1>1, <1>3
<1>5. EncryptingIn'
  BY <1>1, <1>3, <1>4 DEF AesInv, EncryptingIn
<1>6. ScheduleIn' /\ DecryptingIn' /\ LastIn' /\ OpenedIn'
  BY <1>1 DEF AesInv, ScheduleIn, DecryptingIn, LastIn, OpenedIn
<1>7. QED
  BY <1>1, <1>5, <1>6 DEF AesInv

LEMMA EncryptLastStep == AesInv /\ EncryptLast => AesInv'
<1> SUFFICES ASSUME AesInv, EncryptLast PROVE AesInv'
  OBVIOUS
<1>1. /\ aes_phase = "encrypting" /\ aes_round >= rounds /\ aes_phase' = "idle"
      /\ aes_last' = [plain |-> given, cipher |-> Bytes(aes_words'), key |-> key]
      /\ UNCHANGED <<rounds, rd_key, role, key, given, opened>>
  BY DEF EncryptLast
<1>2. aes_words' = Keyed(MadeByLast, rd_key, rounds)
  BY DEF EncryptLast, Keyed, MadeByLast
<1>3. Holds(aes_words', Cipher(given, key)) /\ Cipher(given, key) \in Block
  BY <1>1, <1>2, EncryptionGoesOn
<1>4. Bytes(aes_words') = Cipher(given, key)
  BY <1>3, BytesHold
<1>5. given \in Block
  BY <1>1 DEF AesInv, EncryptingIn
<1>6. LastIn'
  BY <1>1, <1>3, <1>4, <1>5 DEF LastIn
<1>7. ScheduleIn' /\ EncryptingIn' /\ DecryptingIn' /\ OpenedIn'
  BY <1>1 DEF AesInv, ScheduleIn, EncryptingIn, DecryptingIn, OpenedIn
<1>8. QED
  BY <1>1, <1>6, <1>7 DEF AesInv

LEMMA DecryptRoundStep == AesInv /\ DecryptRound => AesInv'
<1> SUFFICES ASSUME AesInv, DecryptRound PROVE AesInv'
  OBVIOUS
<1>1. /\ aes_phase = "decrypting" /\ aes_round < rounds /\ aes_round' = aes_round + 1
      /\ UNCHANGED <<rounds, rd_key, role, aes_phase, key, given, aes_last, opened>>
  BY DEF DecryptRound
<1>2. aes_words' = Keyed(MadeByInverse, rd_key, aes_round)
  BY DEF DecryptRound, Keyed, MadeByInverse
<1>3. role = "decrypt" /\ given \in Block /\ aes_round \in 1..rounds
  BY <1>1 DEF AesInv, DecryptingIn
<1>4. rounds \in 10..14
  BY <1>3, KeyInUse DEF AesInv
<1>5. aes_round + 1 \in 1..rounds /\ rounds - (aes_round + 1) + 1 = rounds - aes_round
  BY <1>1, <1>3, <1>4
<1>6. ASSUME NEW p \in Block, Cipher(p, key) = given
      PROVE  Holds(aes_words', SubShift(States(p, key)[rounds - (aes_round + 1) + 1]))
  BY <1>1, <1>2, <1>5, <1>6, DecryptionGoesOn
<1>7. DecryptingIn'
  BY <1>1, <1>3, <1>5, <1>6 DEF DecryptingIn
<1>8. ScheduleIn' /\ EncryptingIn' /\ LastIn' /\ OpenedIn'
  BY <1>1 DEF AesInv, ScheduleIn, EncryptingIn, LastIn, OpenedIn
<1>9. QED
  BY <1>1, <1>7, <1>8 DEF AesInv

LEMMA DecryptLastStep == AesInv /\ DecryptLast => AesInv'
<1> SUFFICES ASSUME AesInv, DecryptLast PROVE AesInv'
  OBVIOUS
<1>1. /\ aes_phase = "decrypting" /\ aes_round >= rounds /\ aes_phase' = "idle"
      /\ opened' = [plain |-> Bytes(aes_words'), cipher |-> given, key |-> key]
      /\ UNCHANGED <<rounds, rd_key, role, key, given, aes_last>>
  BY DEF DecryptLast
<1>2. aes_words' = Keyed(MadeByInverseLast, rd_key, rounds)
  BY DEF DecryptLast, Keyed, MadeByInverseLast
<1>3. given \in Block
  BY <1>1 DEF AesInv, DecryptingIn
<1>4. ASSUME NEW p \in Block, Cipher(p, key) = given
      PROVE  Bytes(aes_words') = p
  <2>1. Holds(aes_words', p)
    BY <1>1, <1>2, <1>4, DecryptionGoesOn
  <2>2. QED
    BY <2>1, BytesHold
<1>5. OpenedIn'
  BY <1>1, <1>3, <1>4 DEF OpenedIn
<1>6. ScheduleIn' /\ EncryptingIn' /\ DecryptingIn' /\ LastIn'
  BY <1>1 DEF AesInv, ScheduleIn, EncryptingIn, DecryptingIn, LastIn
<1>7. QED
  BY <1>1, <1>5, <1>6 DEF AesInv

LEMMA AesStep == AesInv /\ [AesNext]_aes_vars => AesInv'
<1> SUFFICES ASSUME AesInv, [AesNext]_aes_vars PROVE AesInv'
  OBVIOUS
<1>1. ASSUME NEW ck \in AesKeys, SetEncryptKey(ck) \/ SetDecryptKey(ck) PROVE AesInv'
  BY <1>1, RekeyStep
<1>2. ASSUME NEW block \in AesBlocks, AesBeginEncrypt(block) \/ AesBeginDecrypt(block) PROVE AesInv'
  BY <1>2, InputsAre, AesBeginEncryptStep, AesBeginDecryptStep
<1>3. ASSUME aes_last.cipher # <<>>, AesBeginDecrypt(aes_last.cipher) PROVE AesInv'
  <2>1. aes_last.cipher \in Block
    BY <1>3 DEF AesInv, LastIn
  <2>2. QED
    BY <1>3, <2>1, AesBeginDecryptStep
<1>4. CASE EncryptRound \/ EncryptLast \/ DecryptRound \/ DecryptLast
  BY <1>4, EncryptRoundStep, EncryptLastStep, DecryptRoundStep, DecryptLastStep
<1>5. CASE UNCHANGED aes_vars
  BY <1>5 DEF aes_vars, AesInv, ScheduleIn, EncryptingIn, DecryptingIn, LastIn, OpenedIn
<1>6. QED
  BY <1>1, <1>2, <1>3, <1>4, <1>5 DEF AesNext

LEMMA AesInvHolds == AesSpec => []AesInv
<1>1. AesInit => AesInv
  BY AesInitInv
<1>2. AesInv /\ [AesNext]_aes_vars => AesInv'
  BY AesStep
<1>3. QED
  BY <1>1, <1>2, PTL DEF AesSpec

\* Every block that is encrypted is what FIPS 197 makes of it under the schedule
\* of its key, whichever of the three lengths the key has and whatever longer or
\* shorter key the handle held before: the tables, the order in which the rounds
\* read the words, the key words each round takes, and the rounds that
\* aes_encrypt leaves out for the shorter keys.
THEOREM EncryptionIsAes == AesSpec => []AesAsSpecified
<1>1. AesInv => AesAsSpecified
  <2>1. SUFFICES ASSUME AesInv, given = aes_last.plain, given # <<>>
                 PROVE  aes_last.cipher = Cipher(aes_last.plain, aes_last.key)
    BY DEF AesAsSpecified
  <2>2. QED
    BY <2>1 DEF AesInv, LastIn
<1>2. QED
  BY <1>1, AesInvHolds, PTL

\* A block that was encrypted is given back by aes_decrypt with the schedule of
\* aes_set_decrypt_key for the same key, whatever happened in between.
THEOREM AesDecryptionUndoes == AesSpec => []AesRoundTrip
<1>1. AesInv => AesRoundTrip
  <2>1. SUFFICES ASSUME AesInv, opened.cipher = aes_last.cipher, opened.key = aes_last.key
                 PROVE  opened.plain = aes_last.plain
    BY DEF AesRoundTrip
  <2>2. QED
    BY <2>1, NoBlockIsEmpty DEF AesInv, LastIn, OpenedIn
<1>2. QED
  BY <1>1, AesInvHolds, PTL
==============================================================================
