------------------------------- MODULE BcMode -------------------------------
(***************************************************************************)
(* The block cipher handle of src/blockcipher/blockcipher.c with the modes *)
(* of src/blockcipher/modes: k_bcmode_update processes a call block by     *)
(* block in the calling thread, or cuts it into one part per worker of the *)
(* workbench, each with an IV of its own.                                  *)
(*                                                                         *)
(* A worker's step is one block: workers interleave in any way that        *)
(* JobPool allows.  The cipher is an arbitrary permutation of the blocks.  *)
(* k_bcmode_set_tweak is not an action: it checks the tweak size that is   *)
(* stored, which is 0 until it has succeeded, so it never changes a thing. *)
(***************************************************************************)
EXTENDS Integers, Sequences, FiniteSets

CONSTANTS
  Blocks,            \* values of a block
  Zero,              \* the block of zeros
  Xor(_, _),
  Enc(_), Dec(_),    \* the cipher under the caller's key
  CtrAdd(_, _),      \* the block whose counter is that much larger, mod 2^64
  Message(_),        \* the blocks the caller passes, by their position
  IVs,               \* the IVs it sets
  Threads,           \* how many threads a workbench may get to run
  MinBlocks,         \* 512: blocks per thread that make a call parallel
  MaxBlocks,         \* bound: blocks between two settings of an IV
  LargeSerial        \* whether a call that is large enough to be parallel is
                     \* also made in a mode that cannot be

ASSUME BcModeAssumption ==
  /\ Zero \in Blocks /\ IVs \subseteq Blocks
  /\ \A x, y \in Blocks : Xor(x, y) \in Blocks /\ Xor(Xor(x, y), y) = x
  /\ \A x \in Blocks : Xor(x, Zero) = x
  /\ \A x \in Blocks : Enc(x) \in Blocks /\ Dec(x) \in Blocks /\ Dec(Enc(x)) = x
  /\ \A x \in Blocks, n \in 0..MaxBlocks : CtrAdd(x, n) \in Blocks
  /\ \A x \in Blocks : CtrAdd(x, 0) = x
  /\ \A x \in Blocks, m, n \in 0..MaxBlocks :
       m + n <= MaxBlocks => CtrAdd(CtrAdd(x, m), n) = CtrAdd(x, m + n)
  /\ \A k \in 1..MaxBlocks : Message(k) \in Blocks
  /\ Threads \subseteq Nat \ {0}
  /\ MinBlocks \in Nat \ {0} /\ MaxBlocks \in Nat
  /\ LargeSerial \in BOOLEAN

Modes == {"noop", "ecb", "cbc", "cfb", "ofb", "ctr"}
Dirs  == {"enc", "dec"}

\* The flags of struct bcmode_desc.  The wrong EncryptTransform forgets CFB.
KeystreamModes == {"ofb", "ctr"}
IvPrepared     == {"cbc", "cfb", "ctr"}

EncryptTransformOnly == {"ofb", "ctr"}
EncryptTransform     == {"cfb", "ofb", "ctr"}

\* The wrong one also splits CFB encryption, which chains.
ParallelBoth(m, d) == m \notin {"ofb", "cbc"} \/ (m = "cbc" /\ d = "dec")
Parallel(m, d)     == m \in {"noop", "ecb", "ctr"} \/ (m \in {"cbc", "cfb"} /\ d = "dec")

VARIABLES
  mode,       \* c->mode, or "none"
  keytype,    \* c->keytype
  keyed,      \* c->keysize is not 0
  schedule,   \* what the key schedule was made for
  threads,    \* c->worker_threads
  ivs,        \* c->worker_ivs
  backup,     \* c->iv_backup
  pc,         \* "idle", or "run" within k_bcmode_update
  how,        \* its buffers: "copy", "inplace", or "null" for no input
  src, dst,   \* input and output, as many blocks as the call has
  parts,      \* the jobs: first block, less one, and number of blocks
  done,       \* blocks each job has processed
  iv0,        \* history: the IV when it was last set
  inp, outp   \* history: the blocks passed and produced since

vars == <<mode, keytype, keyed, schedule, threads, ivs, backup, pc, how, src,
          dst, parts, done, iv0, inp, outp>>
keyVars  == <<keytype, keyed, schedule>>
modeVars == <<mode, threads>>
callVars == <<pc, how, src, dst, parts, done>>

Workers == 0..(Len(parts) - 1)

-----------------------------------------------------------------------------
(* Setting up *)

\* From here on the stream of blocks is a new one, with the IV v.
NewStream(v) == iv0' = v /\ inp' = <<>> /\ outp' = <<>>

\* An IV for each thread.
NewIvs(n) == [w \in 0..(n - 1) |-> Zero]

\* k_bc_init: the mode NOOP without workers.
Init ==
  /\ mode = "noop" /\ threads = 1
  /\ keytype = "enc" /\ keyed = FALSE /\ schedule = "none"
  /\ ivs = NewIvs(1) /\ backup = Zero
  /\ pc = "idle" /\ how = "copy" /\ src = <<>> /\ dst = <<>>
  /\ parts = <<>> /\ done = <<>>
  /\ iv0 = Zero /\ inp = <<>> /\ outp = <<>>

\* k_bcmode_set_mode with n threads, 1 when the mode is never parallel or the
\* caller asked for none.  The schedule survives, the size of the key does not.
SetMode(m, n) ==
  /\ pc = "idle"
  /\ n > 1 => Parallel(m, "enc") \/ Parallel(m, "dec")
  /\ mode' = m /\ threads' = n
  /\ ivs' = NewIvs(n) /\ backup' = Zero
  /\ keyed' = FALSE
  /\ NewStream(Zero)
  /\ UNCHANGED <<keytype, schedule, callVars>>

\* An unknown mode, no memory, or no worker that runs.
SetModeFail ==
  /\ pc = "idle"
  /\ mode' = "none" /\ threads' = 1
  /\ ivs' = <<>> /\ backup' = Zero
  /\ keyed' = FALSE
  /\ NewStream(Zero)
  /\ UNCHANGED <<keytype, schedule, callVars>>

\* k_bcmode_set_key.
SetKey(d) ==
  /\ pc = "idle" /\ mode # "none"
  /\ keytype' = d /\ keyed' = TRUE
  /\ schedule' = IF d = "dec" /\ mode \notin EncryptTransform THEN "dec" ELSE "enc"
  /\ NewStream(ivs[0])
  /\ UNCHANGED <<modeVars, ivs, backup, callVars>>

\* No mode is set, or the size of the key is not supported.
SetKeyFail ==
  /\ pc = "idle"
  /\ keytype' = "enc" /\ keyed' = FALSE
  /\ UNCHANGED <<modeVars, schedule, ivs, backup, callVars, iv0, inp, outp>>

SetIv(v) ==
  /\ pc = "idle" /\ mode # "none"
  /\ ivs' = [ivs EXCEPT ![0] = v]
  /\ NewStream(v)
  /\ UNCHANGED <<modeVars, keyVars, backup, callVars>>

BackupIv ==
  /\ pc = "idle" /\ mode # "none"
  /\ backup' = ivs[0]
  /\ UNCHANGED <<modeVars, keyVars, ivs, callVars, iv0, inp, outp>>

RestoreIv ==
  /\ pc = "idle" /\ mode # "none"
  /\ ivs' = [ivs EXCEPT ![0] = backup]
  /\ NewStream(backup)
  /\ UNCHANGED <<modeVars, keyVars, backup, callVars>>

-----------------------------------------------------------------------------
(* A call: k_bcmode_update *)

\* get_blocks_per_worker; the wrong one loses what is left over.
BlocksEven(n, w) == n \div threads

BlocksOf(n, w) == n \div threads + (IF n % threads >= w + 1 THEN 1 ELSE 0)

\* distribute_work: where the part of each worker begins, and the parts.
FirstOf(n) ==
  LET f[w \in 0..threads] == IF w = 0 THEN 0 ELSE f[w - 1] + BlocksOf(n, w - 1)
  IN  f

Distributed(n) ==
  LET used == CHOOSE k \in 1..threads :
                /\ k = threads \/ FirstOf(n)[k] >= n
                /\ \A j \in 1..(k - 1) : FirstOf(n)[j] < n
  IN  [j \in 1..used |-> [first |-> FirstOf(n)[j - 1], n |-> BlocksOf(n, j - 1)]]

Large(n) == threads > 1 /\ n \div threads >= MinBlocks

\* A large call in a direction that cannot be split has no part at all.
PartsOf(n) ==
  IF ~Large(n) THEN <<[first |-> 0, n |-> n]>>
  ELSE IF Parallel(mode, keytype) THEN Distributed(n) ELSE <<>>

\* mode->prepare_iv, before any worker begins: worker w > 0 gets the block of
\* input before its part, or the counter that its part begins with.
ChainedIv(p, in) == in[p.first]
CounterIv(p)     == CtrAdd(ivs[0], p.first)

PrepareIvs(ps, in) ==
  ivs' = [w \in DOMAIN ivs |->
            IF w = 0 \/ w >= Len(ps) \/ mode \notin IvPrepared THEN ivs[w]
            ELSE IF mode = "ctr" THEN CounterIv(ps[w + 1]) ELSE ChainedIv(ps[w + 1], in)]

\* The callers have set a key, and pass no input only to the modes that
\* k_bcmode_produces_keystream names.
BeginUpdate(n, h) ==
  /\ pc = "idle" /\ mode # "none" /\ keyed
  /\ Len(inp) + n <= MaxBlocks
  /\ h = "null" => mode \in KeystreamModes
  /\ Large(n) /\ ~LargeSerial => Parallel(mode, keytype)
  /\ pc' = "run" /\ how' = h
  /\ src' = [j \in 1..n |-> IF h = "null" THEN Zero ELSE Message(Len(inp) + j)]
  /\ dst' = IF h = "inplace" THEN src' ELSE [j \in 1..n |-> Zero]
  /\ parts' = PartsOf(n) /\ done' = [j \in 1..Len(parts') |-> 0]
  /\ PrepareIvs(parts', src')
  /\ UNCHANGED <<modeVars, keyVars, backup, iv0, inp, outp>>

\* The cipher with the schedule the handle has; with the other one a block is
\* not what the cipher makes of it.
Encrypt(x) == IF schedule = "enc" THEN Enc(x) ELSE x
Decrypt(x) == IF schedule = "dec" THEN Dec(x) ELSE x

Xored(e, x) == IF how = "null" THEN e ELSE Xor(e, x)

\* mode->encrypt and mode->decrypt: the block that x becomes, and the next IV.
Noop(v, x) == [out |-> x, iv |-> v]
Ecb(v, x)  == [out |-> IF keytype = "enc" THEN Encrypt(x) ELSE Decrypt(x), iv |-> v]

Chained(o) == [out |-> o, iv |-> o]
Cbc(v, x)  == IF keytype = "enc" THEN Chained(Encrypt(Xor(v, x)))
                                 ELSE [out |-> Xor(Decrypt(x), v), iv |-> x]
Cfb(v, x)  == IF keytype = "enc" THEN Chained(Xor(Encrypt(v), x))
                                 ELSE [out |-> Xor(Encrypt(v), x), iv |-> x]

Ofb(v, x)  == [out |-> Xored(Encrypt(v), x), iv |-> Encrypt(v)]
Ctr(v, x)  == [out |-> Xored(Encrypt(v), x), iv |-> CtrAdd(v, 1)]

Transform(v, x) ==
  CASE mode = "noop" -> Noop(v, x) [] mode = "ecb" -> Ecb(v, x)
    [] mode = "cbc"  -> Cbc(v, x)  [] mode = "cfb" -> Cfb(v, x)
    [] mode = "ofb"  -> Ofb(v, x)  [] mode = "ctr" -> Ctr(v, x)

\* The IV a worker uses: the chaining directions always use the first.
IvOf(w) ==
  IF mode = "ofb" \/ (mode \in {"cbc", "cfb"} /\ keytype = "enc") THEN 0 ELSE w

\* parallel_worker, or the loop of k_bcmode_update: the next block of worker w.
ProcessBlock(w) ==
  /\ pc = "run" /\ w \in Workers
  /\ done[w + 1] < parts[w + 1].n
  /\ LET b == parts[w + 1].first + done[w + 1] + 1
         x == IF how = "inplace" THEN dst[b] ELSE src[b]
         r == Transform(ivs[IvOf(w)], x)
     IN  /\ dst' = [dst EXCEPT ![b] = r.out]
         /\ ivs' = [ivs EXCEPT ![IvOf(w)] = r.iv]
  /\ done' = [done EXCEPT ![w + 1] = @ + 1]
  /\ UNCHANGED <<modeVars, keyVars, backup, pc, how, src, parts, iv0, inp, outp>>

\* "set main iv to the one produced by the last worker"; the wrong one keeps
\* that of the first.
LastIvKept == ivs' = ivs

LastIv ==
  ivs' = IF Len(parts) > 1 /\ mode \in IvPrepared
         THEN [ivs EXCEPT ![0] = ivs[Len(parts) - 1]] ELSE ivs

\* workbench_join has returned.
EndUpdate ==
  /\ pc = "run" /\ \A w \in Workers : done[w + 1] = parts[w + 1].n
  /\ pc' = "idle" /\ LastIv
  /\ inp' = inp \o src /\ outp' = outp \o dst
  /\ how' = "copy" /\ src' = <<>> /\ dst' = <<>> /\ parts' = <<>> /\ done' = <<>>
  /\ UNCHANGED <<modeVars, keyVars, backup, iv0>>

SetUp == \/ \E m \in Modes, n \in Threads \union {1} : SetMode(m, n)
         \/ SetModeFail \/ SetKeyFail \/ BackupIv \/ RestoreIv
         \/ \E d \in Dirs : SetKey(d)
         \/ \E v \in IVs : SetIv(v)

Update == \/ \E n \in 0..MaxBlocks, h \in {"copy", "inplace", "null"} : BeginUpdate(n, h)
          \/ \E w \in Workers : ProcessBlock(w)
          \/ EndUpdate

Next == SetUp \/ Update
Spec == Init /\ [][Next]_vars

-----------------------------------------------------------------------------
(* Properties *)

\* The k-th block of a stream by the definition of its mode.
Before(s, k) == IF k = 1 THEN iv0 ELSE s[k - 1]

Standard(k) ==
  CASE mode = "noop" -> inp[k]
    [] mode = "ecb"  -> IF keytype = "enc" THEN Enc(inp[k]) ELSE Dec(inp[k])
    [] mode = "cbc"  -> IF keytype = "enc" THEN Enc(Xor(Before(outp, k), inp[k]))
                                           ELSE Xor(Dec(inp[k]), Before(inp, k))
    [] mode = "cfb"  -> Xor(Enc(Before(IF keytype = "enc" THEN outp ELSE inp, k)), inp[k])
    [] mode = "ofb"  -> Xor(Enc(IF k = 1 THEN iv0 ELSE Xor(outp[k - 1], inp[k - 1])), inp[k])
    [] mode = "ctr"  -> Xor(Enc(CtrAdd(iv0, k - 1)), inp[k])

\* However a stream is cut into calls and a call into parts, in place or not,
\* in whatever order the workers run, each block is what its mode defines: the
\* tests require it of every mode, with max_workers 0 (modes/tests.c:103).  It
\* does not hold with LargeSerial: a call that is large enough for all threads,
\* in a mode or a direction that chains, processes nothing (blockcipher.c:471).
AsStandard ==
  pc = "idle" /\ keyed => \A k \in 1..Len(inp) : outp[k] = Standard(k)

\* No two workers use the same IV or the same block, so the jobs of a call may
\* run at the same time without a lock.
JobsDisjoint ==
  pc = "run" =>
    \A v, w \in Workers : v # w =>
      /\ IvOf(v) # IvOf(w)
      /\ LET p == parts[v + 1]  q == parts[w + 1]
         IN  p.first + p.n <= q.first \/ q.first + q.n <= p.first

\* While the handle has a key, its schedule is the one that the mode's
\* transform for the direction of the key needs, whatever was set before.
KeyFits ==
  keyed => schedule = IF keytype = "enc" \/ mode \in {"cfb", "ofb", "ctr"}
                      THEN "enc" ELSE "dec"

=============================================================================
