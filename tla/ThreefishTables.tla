--------------------------- MODULE ThreefishTables ---------------------------
(****************************************************************************)
(* What the three ciphers of the Threefish family say in their macros.      *)
(* MixesN[h][r] are the mixes <<w1, w2, rotation>> of round r of the macros *)
(* m1 (h = 1) and m2 (h = 2), UnmixesN those of u1 and u2, in the order of  *)
(* the code.  CallsN are the arguments with which the encryption calls m1   *)
(* and m2 in turn, UncallsN those of the decryption, which begins with u2:  *)
(* the indices of the key words and of the tweak words that the first round *)
(* of a call adds, and the number of the call.                              *)
(****************************************************************************)
EXTENDS Naturals, Sequences

(* The rotations are the constants r01 to r16 of the file. *)
Mixes256 ==
  <<<<<<<<0, 1, 14>>, <<2, 3, 16>>>>,
     <<<<0, 3, 52>>, <<2, 1, 57>>>>,
     <<<<0, 1, 23>>, <<2, 3, 40>>>>,
     <<<<0, 3, 5>>, <<2, 1, 37>>>>>>,
   <<<<<<0, 1, 25>>, <<2, 3, 33>>>>,
     <<<<0, 3, 46>>, <<2, 1, 12>>>>,
     <<<<0, 1, 58>>, <<2, 3, 22>>>>,
     <<<<0, 3, 32>>, <<2, 1, 32>>>>>>>>

Unmixes256 ==
  <<<<<<<<0, 3, 5>>, <<2, 1, 37>>>>,
     <<<<0, 1, 23>>, <<2, 3, 40>>>>,
     <<<<0, 3, 52>>, <<2, 1, 57>>>>,
     <<<<0, 1, 14>>, <<2, 3, 16>>>>>>,
   <<<<<<0, 3, 32>>, <<2, 1, 32>>>>,
     <<<<0, 1, 58>>, <<2, 3, 22>>>>,
     <<<<0, 3, 46>>, <<2, 1, 12>>>>,
     <<<<0, 1, 25>>, <<2, 3, 33>>>>>>>>

Calls256 ==
  <<<<0, 1, 0, 2, 1, 3, 0>>, <<1, 2, 1, 3, 2, 4, 1>>, <<2, 3, 2, 4, 0, 0, 2>>,
    <<3, 4, 0, 0, 1, 1, 3>>, <<4, 0, 1, 1, 2, 2, 4>>, <<0, 1, 2, 2, 0, 3, 5>>,
    <<1, 2, 0, 3, 1, 4, 6>>, <<2, 3, 1, 4, 2, 0, 7>>, <<3, 4, 2, 0, 0, 1, 8>>,
    <<4, 0, 0, 1, 1, 2, 9>>, <<0, 1, 1, 2, 2, 3, 10>>, <<1, 2, 2, 3, 0, 4, 11>>,
    <<2, 3, 0, 4, 1, 0, 12>>, <<3, 4, 1, 0, 2, 1, 13>>, <<4, 0, 2, 1, 0, 2, 14>>,
    <<0, 1, 0, 2, 1, 3, 15>>, <<1, 2, 1, 3, 2, 4, 16>>, <<2, 3, 2, 4, 0, 0, 17>>>>

Uncalls256 ==
  <<<<2, 3, 2, 4, 0, 0, 17>>, <<1, 2, 1, 3, 2, 4, 16>>, <<0, 1, 0, 2, 1, 3, 15>>,
    <<4, 0, 2, 1, 0, 2, 14>>, <<3, 4, 1, 0, 2, 1, 13>>, <<2, 3, 0, 4, 1, 0, 12>>,
    <<1, 2, 2, 3, 0, 4, 11>>, <<0, 1, 1, 2, 2, 3, 10>>, <<4, 0, 0, 1, 1, 2, 9>>,
    <<3, 4, 2, 0, 0, 1, 8>>, <<2, 3, 1, 4, 2, 0, 7>>, <<1, 2, 0, 3, 1, 4, 6>>,
    <<0, 1, 2, 2, 0, 3, 5>>, <<4, 0, 1, 1, 2, 2, 4>>, <<3, 4, 0, 0, 1, 1, 3>>,
    <<2, 3, 2, 4, 0, 0, 2>>, <<1, 2, 1, 3, 2, 4, 1>>, <<0, 1, 0, 2, 1, 3, 0>>>>

(* The rotations are the constants r01 to r32 of the file. *)
Mixes512 ==
  <<<<<<<<0, 1, 46>>, <<2, 3, 36>>, <<4, 5, 19>>, <<6, 7, 37>>>>,
     <<<<2, 1, 33>>, <<4, 7, 27>>, <<6, 5, 14>>, <<0, 3, 42>>>>,
     <<<<4, 1, 17>>, <<6, 3, 49>>, <<0, 5, 36>>, <<2, 7, 39>>>>,
     <<<<6, 1, 44>>, <<0, 7, 9>>, <<2, 5, 54>>, <<4, 3, 56>>>>>>,
   <<<<<<0, 1, 39>>, <<2, 3, 30>>, <<4, 5, 34>>, <<6, 7, 24>>>>,
     <<<<2, 1, 13>>, <<4, 7, 50>>, <<6, 5, 10>>, <<0, 3, 17>>>>,
     <<<<4, 1, 25>>, <<6, 3, 29>>, <<0, 5, 39>>, <<2, 7, 43>>>>,
     <<<<6, 1, 8>>, <<0, 7, 35>>, <<2, 5, 56>>, <<4, 3, 22>>>>>>>>

Unmixes512 ==
  <<<<<<<<6, 1, 44>>, <<0, 7, 9>>, <<2, 5, 54>>, <<4, 3, 56>>>>,
     <<<<4, 1, 17>>, <<6, 3, 49>>, <<0, 5, 36>>, <<2, 7, 39>>>>,
     <<<<2, 1, 33>>, <<4, 7, 27>>, <<6, 5, 14>>, <<0, 3, 42>>>>,
     <<<<0, 1, 46>>, <<2, 3, 36>>, <<4, 5, 19>>, <<6, 7, 37>>>>>>,
   <<<<<<6, 1, 8>>, <<0, 7, 35>>, <<2, 5, 56>>, <<4, 3, 22>>>>,
     <<<<4, 1, 25>>, <<6, 3, 29>>, <<0, 5, 39>>, <<2, 7, 43>>>>,
     <<<<2, 1, 13>>, <<4, 7, 50>>, <<6, 5, 10>>, <<0, 3, 17>>>>,
     <<<<0, 1, 39>>, <<2, 3, 30>>, <<4, 5, 34>>, <<6, 7, 24>>>>>>>>

Calls512 ==
  <<<<0, 1, 2, 3, 4, 5, 0, 6, 1, 7, 0>>, <<1, 2, 3, 4, 5, 6, 1, 7, 2, 8, 1>>,
    <<2, 3, 4, 5, 6, 7, 2, 8, 0, 0, 2>>, <<3, 4, 5, 6, 7, 8, 0, 0, 1, 1, 3>>,
    <<4, 5, 6, 7, 8, 0, 1, 1, 2, 2, 4>>, <<5, 6, 7, 8, 0, 1, 2, 2, 0, 3, 5>>,
    <<6, 7, 8, 0, 1, 2, 0, 3, 1, 4, 6>>, <<7, 8, 0, 1, 2, 3, 1, 4, 2, 5, 7>>,
    <<8, 0, 1, 2, 3, 4, 2, 5, 0, 6, 8>>, <<0, 1, 2, 3, 4, 5, 0, 6, 1, 7, 9>>,
    <<1, 2, 3, 4, 5, 6, 1, 7, 2, 8, 10>>, <<2, 3, 4, 5, 6, 7, 2, 8, 0, 0, 11>>,
    <<3, 4, 5, 6, 7, 8, 0, 0, 1, 1, 12>>, <<4, 5, 6, 7, 8, 0, 1, 1, 2, 2, 13>>,
    <<5, 6, 7, 8, 0, 1, 2, 2, 0, 3, 14>>, <<6, 7, 8, 0, 1, 2, 0, 3, 1, 4, 15>>,
    <<7, 8, 0, 1, 2, 3, 1, 4, 2, 5, 16>>, <<8, 0, 1, 2, 3, 4, 2, 5, 0, 6, 17>>>>

Uncalls512 ==
  <<<<8, 0, 1, 2, 3, 4, 2, 5, 0, 6, 17>>, <<7, 8, 0, 1, 2, 3, 1, 4, 2, 5, 16>>,
    <<6, 7, 8, 0, 1, 2, 0, 3, 1, 4, 15>>, <<5, 6, 7, 8, 0, 1, 2, 2, 0, 3, 14>>,
    <<4, 5, 6, 7, 8, 0, 1, 1, 2, 2, 13>>, <<3, 4, 5, 6, 7, 8, 0, 0, 1, 1, 12>>,
    <<2, 3, 4, 5, 6, 7, 2, 8, 0, 0, 11>>, <<1, 2, 3, 4, 5, 6, 1, 7, 2, 8, 10>>,
    <<0, 1, 2, 3, 4, 5, 0, 6, 1, 7, 9>>, <<8, 0, 1, 2, 3, 4, 2, 5, 0, 6, 8>>,
    <<7, 8, 0, 1, 2, 3, 1, 4, 2, 5, 7>>, <<6, 7, 8, 0, 1, 2, 0, 3, 1, 4, 6>>,
    <<5, 6, 7, 8, 0, 1, 2, 2, 0, 3, 5>>, <<4, 5, 6, 7, 8, 0, 1, 1, 2, 2, 4>>,
    <<3, 4, 5, 6, 7, 8, 0, 0, 1, 1, 3>>, <<2, 3, 4, 5, 6, 7, 2, 8, 0, 0, 2>>,
    <<1, 2, 3, 4, 5, 6, 1, 7, 2, 8, 1>>, <<0, 1, 2, 3, 4, 5, 0, 6, 1, 7, 0>>>>

(* The rotations are the constants r01 to r64 of the file. *)
Mixes1024 ==
  <<<<<<<<0, 1, 24>>, <<2, 3, 13>>, <<4, 5, 8>>, <<6, 7, 47>>, <<8, 9, 8>>, <<10, 11, 17>>, <<12, 13, 22>>, <<14, 15, 37>>>>,
     <<<<0, 9, 38>>, <<2, 13, 19>>, <<6, 11, 10>>, <<4, 15, 55>>, <<10, 7, 49>>, <<12, 3, 18>>, <<14, 5, 23>>, <<8, 1, 52>>>>,
     <<<<0, 7, 33>>, <<2, 5, 4>>, <<4, 3, 51>>, <<6, 1, 13>>, <<12, 15, 34>>, <<14, 13, 41>>, <<8, 11, 59>>, <<10, 9, 17>>>>,
     <<<<0, 15, 5>>, <<2, 11, 20>>, <<6, 13, 48>>, <<4, 9, 41>>, <<14, 1, 47>>, <<8, 5, 28>>, <<10, 3, 16>>, <<12, 7, 25>>>>>>,
   <<<<<<0, 1, 41>>, <<2, 3, 9>>, <<4, 5, 37>>, <<6, 7, 31>>, <<8, 9, 12>>, <<10, 11, 47>>, <<12, 13, 44>>, <<14, 15, 30>>>>,
     <<<<0, 9, 16>>, <<2, 13, 34>>, <<6, 11, 56>>, <<4, 15, 51>>, <<10, 7, 4>>, <<12, 3, 53>>, <<14, 5, 42>>, <<8, 1, 41>>>>,
     <<<<0, 7, 31>>, <<2, 5, 44>>, <<4, 3, 47>>, <<6, 1, 46>>, <<12, 15, 19>>, <<14, 13, 42>>, <<8, 11, 44>>, <<10, 9, 25>>>>,
     <<<<0, 15, 9>>, <<2, 11, 48>>, <<6, 13, 35>>, <<4, 9, 52>>, <<14, 1, 23>>, <<8, 5, 31>>, <<10, 3, 37>>, <<12, 7, 20>>>>>>>>

Unmixes1024 ==
  <<<<<<<<0, 15, 5>>, <<2, 11, 20>>, <<6, 13, 48>>, <<4, 9, 41>>, <<14, 1, 47>>, <<8, 5, 28>>, <<10, 3, 16>>, <<12, 7, 25>>>>,
     <<<<0, 7, 33>>, <<2, 5, 4>>, <<4, 3, 51>>, <<6, 1, 13>>, <<12, 15, 34>>, <<14, 13, 41>>, <<8, 11, 59>>, <<10, 9, 17>>>>,
     <<<<0, 9, 38>>, <<2, 13, 19>>, <<6, 11, 10>>, <<4, 15, 55>>, <<10, 7, 49>>, <<12, 3, 18>>, <<14, 5, 23>>, <<8, 1, 52>>>>,
     <<<<0, 1, 24>>, <<2, 3, 13>>, <<4, 5, 8>>, <<6, 7, 47>>, <<8, 9, 8>>, <<10, 11, 17>>, <<12, 13, 22>>, <<14, 15, 37>>>>>>,
   <<<<<<0, 15, 9>>, <<2, 11, 48>>, <<6, 13, 35>>, <<4, 9, 52>>, <<14, 1, 23>>, <<8, 5, 31>>, <<10, 3, 37>>, <<12, 7, 20>>>>,
     <<<<0, 7, 31>>, <<2, 5, 44>>, <<4, 3, 47>>, <<6, 1, 46>>, <<12, 15, 19>>, <<14, 13, 42>>, <<8, 11, 44>>, <<10, 9, 25>>>>,
     <<<<0, 9, 16>>, <<2, 13, 34>>, <<6, 11, 56>>, <<4, 15, 51>>, <<10, 7, 4>>, <<12, 3, 53>>, <<14, 5, 42>>, <<8, 1, 41>>>>,
     <<<<0, 1, 41>>, <<2, 3, 9>>, <<4, 5, 37>>, <<6, 7, 31>>, <<8, 9, 12>>, <<10, 11, 47>>, <<12, 13, 44>>, <<14, 15, 30>>>>>>>>

Calls1024 ==
  <<<<0, 1, 2, 3, 4, 5, 6, 7, 8, 9, 10, 11, 12, 13, 0, 14, 1, 15, 0>>,
    <<1, 2, 3, 4, 5, 6, 7, 8, 9, 10, 11, 12, 13, 14, 1, 15, 2, 16, 1>>,
    <<2, 3, 4, 5, 6, 7, 8, 9, 10, 11, 12, 13, 14, 15, 2, 16, 0, 0, 2>>,
    <<3, 4, 5, 6, 7, 8, 9, 10, 11, 12, 13, 14, 15, 16, 0, 0, 1, 1, 3>>,
    <<4, 5, 6, 7, 8, 9, 10, 11, 12, 13, 14, 15, 16, 0, 1, 1, 2, 2, 4>>,
    <<5, 6, 7, 8, 9, 10, 11, 12, 13, 14, 15, 16, 0, 1, 2, 2, 0, 3, 5>>,
    <<6, 7, 8, 9, 10, 11, 12, 13, 14, 15, 16, 0, 1, 2, 0, 3, 1, 4, 6>>,
    <<7, 8, 9, 10, 11, 12, 13, 14, 15, 16, 0, 1, 2, 3, 1, 4, 2, 5, 7>>,
    <<8, 9, 10, 11, 12, 13, 14, 15, 16, 0, 1, 2, 3, 4, 2, 5, 0, 6, 8>>,
    <<9, 10, 11, 12, 13, 14, 15, 16, 0, 1, 2, 3, 4, 5, 0, 6, 1, 7, 9>>,
    <<10, 11, 12, 13, 14, 15, 16, 0, 1, 2, 3, 4, 5, 6, 1, 7, 2, 8, 10>>,
    <<11, 12, 13, 14, 15, 16, 0, 1, 2, 3, 4, 5, 6, 7, 2, 8, 0, 9, 11>>,
    <<12, 13, 14, 15, 16, 0, 1, 2, 3, 4, 5, 6, 7, 8, 0, 9, 1, 10, 12>>,
    <<13, 14, 15, 16, 0, 1, 2, 3, 4, 5, 6, 7, 8, 9, 1, 10, 2, 11, 13>>,
    <<14, 15, 16, 0, 1, 2, 3, 4, 5, 6, 7, 8, 9, 10, 2, 11, 0, 12, 14>>,
    <<15, 16, 0, 1, 2, 3, 4, 5, 6, 7, 8, 9, 10, 11, 0, 12, 1, 13, 15>>,
    <<16, 0, 1, 2, 3, 4, 5, 6, 7, 8, 9, 10, 11, 12, 1, 13, 2, 14, 16>>,
    <<0, 1, 2, 3, 4, 5, 6, 7, 8, 9, 10, 11, 12, 13, 2, 14, 0, 15, 17>>,
    <<1, 2, 3, 4, 5, 6, 7, 8, 9, 10, 11, 12, 13, 14, 0, 15, 1, 16, 18>>,
    <<2, 3, 4, 5, 6, 7, 8, 9, 10, 11, 12, 13, 14, 15, 1, 16, 2, 0, 19>>>>

Uncalls1024 ==
  <<<<2, 3, 4, 5, 6, 7, 8, 9, 10, 11, 12, 13, 14, 15, 1, 16, 2, 0, 19>>,
    <<1, 2, 3, 4, 5, 6, 7, 8, 9, 10, 11, 12, 13, 14, 0, 15, 1, 16, 18>>,
    <<0, 1, 2, 3, 4, 5, 6, 7, 8, 9, 10, 11, 12, 13, 2, 14, 0, 15, 17>>,
    <<16, 0, 1, 2, 3, 4, 5, 6, 7, 8, 9, 10, 11, 12, 1, 13, 2, 14, 16>>,
    <<15, 16, 0, 1, 2, 3, 4, 5, 6, 7, 8, 9, 10, 11, 0, 12, 1, 13, 15>>,
    <<14, 15, 16, 0, 1, 2, 3, 4, 5, 6, 7, 8, 9, 10, 2, 11, 0, 12, 14>>,
    <<13, 14, 15, 16, 0, 1, 2, 3, 4, 5, 6, 7, 8, 9, 1, 10, 2, 11, 13>>,
    <<12, 13, 14, 15, 16, 0, 1, 2, 3, 4, 5, 6, 7, 8, 0, 9, 1, 10, 12>>,
    <<11, 12, 13, 14, 15, 16, 0, 1, 2, 3, 4, 5, 6, 7, 2, 8, 0, 9, 11>>,
    <<10, 11, 12, 13, 14, 15, 16, 0, 1, 2, 3, 4, 5, 6, 1, 7, 2, 8, 10>>,
    <<9, 10, 11, 12, 13, 14, 15, 16, 0, 1, 2, 3, 4, 5, 0, 6, 1, 7, 9>>,
    <<8, 9, 10, 11, 12, 13, 14, 15, 16, 0, 1, 2, 3, 4, 2, 5, 0, 6, 8>>,
    <<7, 8, 9, 10, 11, 12, 13, 14, 15, 16, 0, 1, 2, 3, 1, 4, 2, 5, 7>>,
    <<6, 7, 8, 9, 10, 11, 12, 13, 14, 15, 16, 0, 1, 2, 0, 3, 1, 4, 6>>,
    <<5, 6, 7, 8, 9, 10, 11, 12, 13, 14, 15, 16, 0, 1, 2, 2, 0, 3, 5>>,
    <<4, 5, 6, 7, 8, 9, 10, 11, 12, 13, 14, 15, 16, 0, 1, 1, 2, 2, 4>>,
    <<3, 4, 5, 6, 7, 8, 9, 10, 11, 12, 13, 14, 15, 16, 0, 0, 1, 1, 3>>,
    <<2, 3, 4, 5, 6, 7, 8, 9, 10, 11, 12, 13, 14, 15, 2, 16, 0, 0, 2>>,
    <<1, 2, 3, 4, 5, 6, 7, 8, 9, 10, 11, 12, 13, 14, 1, 15, 2, 16, 1>>,
    <<0, 1, 2, 3, 4, 5, 6, 7, 8, 9, 10, 11, 12, 13, 0, 14, 1, 15, 0>>>>
=============================================================================
