---------------------------- MODULE BlockCiphers ----------------------------
(****************************************************************************)
(* The block ciphers a handle can be created with: one of Threefish, with   *)
(* the constants of MCThreefish, or AES with keys of its three sizes.       *)
(****************************************************************************)
EXTENDS MCThreefish, Aes

VARIABLE family     \* the cipher of the handle, "threefish" or "aes"

(* _plain, _key_N and _cipher_N of aes.c. *)
Plain == <<0, 0, 0, 0, 0, 0, 0, 0, 0, 0, 0, 0, 0, 0, 0, 0>>
Key128 == <<16, 165, 136, 105, 215, 75, 229, 163, 116, 207, 134, 124, 251, 71, 56, 89>>
Key192 == <<233, 240, 101, 215, 193, 53, 115, 88, 127, 120, 117, 53, 125, 251, 177, 108,
            83, 72, 159, 106, 75, 208, 247, 205>>
Key256 == <<196, 123, 2, 148, 219, 187, 238, 15, 236, 71, 87, 242, 47, 254, 238, 53,
            135, 202, 71, 48, 195, 211, 59, 105, 29, 243, 139, 171, 7, 107, 197, 88>>
Out128 == <<109, 37, 30, 105, 68, 176, 81, 224, 78, 170, 111, 180, 219, 247, 132, 101>>
Out192 == <<9, 86, 37, 156, 156, 213, 207, 208, 24, 28, 202, 83, 56, 12, 222, 6>>
Out256 == <<70, 242, 251, 52, 45, 111, 10, 180, 119, 71, 111, 197, 1, 36, 44, 95>>

MCAesKeys == {Key128, Key192, Key256}
MCAesBlocks == {Plain, <<0, 17, 34, 51, 68, 85, 102, 119, 136, 153, 170, 187, 204, 221, 238, 255>>}

-----------------------------------------------------------------------------

(* A handle has one cipher; the variables of the other one stay as they are. *)
BlockInit ==
    /\ family \in {"threefish", "aes"}
    /\ Init /\ AesInit
    /\ family = "aes" => cipher = 256

BlockNext ==
    \/ family = "threefish" /\ Next /\ UNCHANGED <<family, aes_vars>>
    \/ family = "aes" /\ AesNext /\ UNCHANGED <<family, vars>>

BlockSpec == BlockInit /\ [][BlockNext]_<<family, vars, aes_vars>>

-----------------------------------------------------------------------------

(* All ciphers answer the questions of their unit tests as those tests      *)
(* expect: tfN_encrypt of threefishN.c, aesN_encrypt of aes.c.              *)
UnitTests ==
    /\ KnownAnswer
    /\ \A test \in {<<Key128, Out128>>, <<Key192, Out192>>, <<Key256, Out256>>} :
          aes_last.plain = Plain /\ aes_last.key = test[1] => aes_last.cipher = test[2]
=============================================================================
