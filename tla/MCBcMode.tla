------------------------------ MODULE MCBcMode ------------------------------
(***************************************************************************)
(* An instance of BcMode for TLC.  A block is three bits, exclusive or is  *)
(* symmetric difference, and bits 0 and 1 are the counter, so that it      *)
(* wraps within a message; the cipher is a permutation without structure.  *)
(***************************************************************************)
EXTENDS BcMode

MCBlocks    == SUBSET (0..2)
MCZero      == {}
MCXor(x, y) == (x \ y) \union (y \ x)

Value(x) == (IF 0 \in x THEN 1 ELSE 0) + (IF 1 \in x THEN 2 ELSE 0) + (IF 2 \in x THEN 4 ELSE 0)
Bits(v)  == {b \in 0..2 : (v \div 2^b) % 2 = 1}

Permuted  == <<5, 0, 3, 6, 2, 7, 1, 4>>
MCEnc(x)  == Bits(Permuted[Value(x) + 1])
MCDec(x)  == CHOOSE y \in MCBlocks : MCEnc(y) = x

MCCtrAdd(x, n) == (x \intersect {2}) \union Bits((Value(x \ {2}) + n) % 4)

MCMessage(k) == Bits((3 * k + 1) % 8)
MCIVs        == {{0, 1, 2}, {0}}
=============================================================================
