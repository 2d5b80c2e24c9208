--------------------------------- MODULE Prng ---------------------------------
(***************************************************************************)
(* The random number handle of src/prng/prng.c over the word cache of the  *)
(* platform's source (platform.c) and the Mersenne twister (mt19937.c).    *)
(*                                                                         *)
(* A byte of the source is the number of its place in the source, from 1.  *)
(* A word of the twister is the number of its place in the recurrence      *)
(*     x[n + N] = x[n + M] ^ twist(upper bit of x[n], lower bits of x[n+1])*)
(* and Wrong when it was made from any other words; tempering maps a word  *)
(* to its bytes one to one.                                                *)
(***************************************************************************)
EXTENDS Integers, Sequences, FiniteSets

CONSTANTS
  CacheItems,     \* cacheitems: words that one refill of the cache reads
  WordBytes,      \* bytes of a word
  N, M,           \* length of the twister's state, distance of its middle word
  Requests,       \* sizes of the requests, in bytes
  MaxGiven, MaxWords,     \* bounds: bytes given, words of the twister
  MaxHandles, MaxSeeds    \* bounds: handles, seeds of one state

ASSUME PrngAssumption ==
  /\ {CacheItems, WordBytes, N, M} \subseteq Nat \ {0} /\ M < N
  /\ Requests \subseteq Nat /\ {MaxGiven, MaxWords, MaxHandles, MaxSeeds} \subseteq Nat

CacheBytes == CacheItems * WordBytes
Stale == 0      \* the byte of a cache that was never filled
Wrong == -1     \* a word of no place in the recurrence
Empty == -2     \* a word of a state that was never seeded: 0

VARIABLES
  prng,           \* c->prng: "none", "platform" or "mt19937"
  fds,            \* the random devices that are open
  cache, cacheFill,
  source,         \* the bytes of the source read so far
  failed,         \* history: a refill ended before the cache was full
  mt, mti, initialized,
  seeds,          \* history: how often the state was seeded, 0 to 2
  wanted,         \* bytes that the call in progress has still to give
  given,          \* history: the bytes given by the platform's source
  handles,        \* history: how many were made
  words           \* history: the words the twister gave since it was seeded

platformVars == <<cache, cacheFill, source, failed, given>>
twisterVars == <<mt, mti, initialized, seeds, words>>
random_vars == <<prng, fds, platformVars, twisterVars, wanted, handles>>

-----------------------------------------------------------------------------
(* The platform's source *)

(* The loop of read() calls puts `total' bytes into the cache: all it asks *)
(* for, or fewer when a call fails or finds the end.  The fill count is    *)
(* set to the same value in either case.                                   *)
Filled(total) ==
  [i \in 1..CacheBytes |-> IF i <= total THEN source + i ELSE cache[i]]

WordOf(bytes, item) == SubSeq(bytes, (item * WordBytes) + 1, (item + 1) * WordBytes)

PopsLate == cacheFill   \* mutant: the word is taken before the count goes down
Pops == cacheFill - 1
CountAfterRefill == CacheItems - 1

Smaller(a, b) == IF a <= b THEN a ELSE b

(* Only the first bytes of the last word are given when the request is not *)
(* a number of whole words.                                                *)
Give(word) ==
  LET n == Smaller(wanted, WordBytes)
  IN /\ given' = given \o SubSeq(word, 1, n)
     /\ wanted' = wanted - n

PlatformUpdate ==
  /\ prng = "platform" /\ wanted > 0
  /\ \/ /\ cacheFill > 0
        /\ cacheFill' = cacheFill - 1
        /\ Give(WordOf(cache, Pops))
        /\ UNCHANGED <<cache, source, failed>>
     \/ /\ cacheFill = 0
        /\ \E total \in 0..CacheBytes :
             /\ cache' = Filled(total)
             /\ source' = source + total
             /\ failed' = (failed \/ total < CacheBytes)
        /\ cacheFill' = CountAfterRefill
        /\ Give(WordOf(cache', cacheFill'))
  /\ UNCHANGED <<prng, fds, twisterVars, handles>>

-----------------------------------------------------------------------------
(* The Mersenne twister *)

(* The word that follows in the recurrence, from the words it is made of.  *)
Twist(upper, lower, middle) ==
  IF upper >= 0 /\ lower = upper + 1 /\ middle = upper + M THEN upper + N
  ELSE Wrong

(* Mutant: every word from the old state. *)
RenewedAside(state) ==
  [kk \in 0..(N - 1) |-> Twist(state[kk], state[(kk + 1) % N], state[(kk + M) % N])]

(* The state is renewed in place, word by word: the first words take their *)
(* middle word from the old state, the later ones and the last one, whose  *)
(* lower bits are those of the new first word, from the new.               *)
Renewed(state) ==
  LET after[n \in 0..N] ==
        IF n = 0 THEN state
        ELSE LET s  == after[n - 1]
                 kk == n - 1
             IN  [s EXCEPT ![kk] = Twist(s[kk], s[(kk + 1) % N], s[(kk + M) % N])]
  IN  after[N]

Seeded == [i \in 0..(N - 1) |-> i]

NeedsWords == mti >= N

TwisterUpdate ==
  /\ prng = "mt19937" /\ wanted > 0
  /\ LET seedsItself == NeedsWords /\ ~initialized
         state == IF seedsItself THEN Seeded ELSE mt
         ready == IF NeedsWords THEN Renewed(state) ELSE state
         next == IF NeedsWords THEN 0 ELSE mti
     IN /\ mt' = ready
        /\ mti' = next + 1
        /\ initialized' = (initialized \/ seedsItself)
        /\ seeds' = IF seedsItself THEN seeds + 1 ELSE seeds
        /\ words' = IF seedsItself THEN <<ready[next]>> ELSE Append(words, ready[next])
  /\ wanted' = wanted - Smaller(wanted, WordBytes)
  /\ UNCHANGED <<prng, fds, platformVars, handles>>

-----------------------------------------------------------------------------
(* The handle *)

RandomInit ==
  /\ prng = "none" /\ fds = {} /\ handles = 0
  /\ cache = [i \in 1..CacheBytes |-> Stale] /\ cacheFill = 0
  /\ source = 0 /\ failed = FALSE
  /\ mt = [i \in 0..(N - 1) |-> Empty] /\ mti = 0 /\ initialized = FALSE
  /\ seeds = 0
  /\ wanted = 0 /\ given = <<>> /\ words = <<>>

(* k_prng_init: the context is zeroed memory, and for the platform's       *)
(* source the devices are opened one after the other.                      *)
PrngInit(alg) ==
  /\ prng = "none" /\ handles < MaxHandles
  /\ handles' = handles + 1
  /\ cache' = [i \in 1..CacheBytes |-> Stale] /\ cacheFill' = 0
  /\ mt' = [i \in 0..(N - 1) |-> Empty] /\ mti' = 0 /\ initialized' = FALSE
  /\ seeds' = 0 /\ words' = <<>>
  /\ prng' = IF alg = "platform" THEN "opening" ELSE alg
  /\ UNCHANGED <<fds, source, failed, given, wanted>>

OpenUrandom ==
  /\ prng = "opening" /\ fds = {}
  /\ fds' = {"urandom"}
  /\ UNCHANGED <<prng, platformVars, twisterVars, wanted, handles>>

OpenRandom ==
  /\ prng = "opening" /\ fds = {"urandom"}
  /\ fds' = fds \cup {"random"}
  /\ prng' = "platform"
  /\ UNCHANGED <<platformVars, twisterVars, wanted, handles>>

(* Mutant: the devices are closed when both were opened. *)
ClosedTogether == IF Cardinality(fds) = 2 THEN {} ELSE fds
(* k_prng_finish closes each descriptor that is not -1. *)
Closed == {}

(* One of the opens fails, and k_prng_init cleans up with k_prng_finish.   *)
OpenFails ==
  /\ prng = "opening"
  /\ prng' = "none" /\ fds' = Closed
  /\ UNCHANGED <<platformVars, twisterVars, wanted, handles>>

Finish ==
  /\ prng \in {"platform", "mt19937"} /\ wanted = 0
  /\ prng' = "none" /\ fds' = Closed
  /\ UNCHANGED <<platformVars, twisterVars, wanted, handles>>

(* Only the twister takes a seed. *)
SetSeed ==
  /\ prng = "mt19937" /\ wanted = 0 /\ seeds < MaxSeeds
  /\ mt' = Seeded /\ mti' = N /\ initialized' = TRUE
  /\ seeds' = seeds + 1 /\ words' = <<>>
  /\ UNCHANGED <<prng, fds, platformVars, wanted, handles>>

(* k_prng_update asks for one word after the other. *)
Update(bytes) ==
  /\ prng \in {"platform", "mt19937"} /\ wanted = 0
  /\ Len(given) + bytes <= MaxGiven /\ Len(words) + bytes <= MaxWords
  /\ wanted' = bytes
  /\ UNCHANGED <<prng, fds, platformVars, twisterVars, handles>>

RandomNext ==
  \/ \E alg \in {"platform", "mt19937"} : PrngInit(alg)
  \/ OpenUrandom \/ OpenRandom \/ OpenFails \/ Finish \/ SetSeed
  \/ \E bytes \in Requests : Update(bytes)
  \/ PlatformUpdate \/ TwisterUpdate

RandomSpec == RandomInit /\ [][RandomNext]_random_vars

-----------------------------------------------------------------------------

(* Until a read has failed or come short, every byte given comes from the  *)
(* source and none is given twice, across refills of the cache, requests   *)
(* of odd sizes, and handles: what k_pres_* takes nonces and salts for.    *)
FreshBytes ==
  ~failed => \A i \in DOMAIN given :
               given[i] # Stale /\ \A j \in 1..(i - 1) : given[j] # given[i]

(* Once it is seeded, by its caller or by itself, the twister gives the    *)
(* words of the recurrence one after the other: the in-place renewal reads *)
(* old words before and new ones after it has written them.                *)
InRecurrence ==
  initialized => \A i \in DOMAIN words : words[i] = N + (i - 1)

(* A handle that could not be made or is finished leaves no device open.   *)
NoDeviceLeft == prng = "none" => fds = {}
=============================================================================
