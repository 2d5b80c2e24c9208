# libk in TLA+

TLA+ models of libk, a C library of cryptographic primitives with a resource
container on top of them. The modules are translated from the C source; they are
checked by TLC on small instances, and some of what they show is proved with TLAPS
for every instance. `PROJECT.json` maps every definition to the lines it stands for.

## The system

| part | source | state | operations |
|---|---|---|---|
| resource container | `src/utils/pres.c`, `include/libk/internal/pres.h` | the container file, its backup `<name>.meta`, a temporary file while one is created; the handle `struct pres_file_t`: running counters, the headers it will write, the resource table, a hash and a file offset | create, open, add (init, append, commit, rollback, `add_file`), delete, export, map, repack, close |
| file transactions | `src/utils/tfile.c` | a pool of open transactions (descriptor, name, temporary name); an `atexit` handler | `k_tcreat`, `k_tcommit_and_close`, `k_trollback_and_close`, `__cleanup` |
| memory pool | `src/utils/mempool.c` | an array, its length, a mutex | `pool_append`, `pool_cut`, `pool_getmem`, ... |
| workbench | `src/utils/workbench.c` | a bounded buffer of jobs, two counters, a mutex, three condition variables, the worker threads | create, set_worker, commit, join, delete |
| block cipher handle | `src/blockcipher/blockcipher.c`, `modes/*.c` | cipher, mode, key schedule, direction, an IV per worker, the workbench | create, set_mode, set_key, set_tweak, IV calls, update |
| stream cipher | `src/streamcipher/` | a block of key stream and how much of it is used | create, set_key, update |
| random numbers | `src/prng/` | a word cache over a source | init, update |
| hashes | `src/hash/` | a block buffer, a counter, the chaining value | init, reset, update, final |
| ciphers | `src/blockcipher/ciphers/` | a key schedule | set key, set tweak, encrypt, decrypt |
| key derivation | `src/kderive/simple.c` | none | one function |
| file descriptions | `src/pres/` | a registry of open containers | register, close; open, read, write are stubs |
| utilities | `src/utils/{mem,err,ioutils,ntwrap}.c` | allocation counters, a thread-local error code | |
| ktool | `src/ktool/main.c`, `src/utils/ioutils.c` | one open container, the working directory | imp, imps, add, delid, rep, exp, expid, ls |
| .NET bindings, tests, benchmarks | `src/bindings`, ... | | callers of the library |

**How they interact.** `k_pres_create` gets its descriptor from `k_tcreat`, and
`k_pres_close` ends in `k_tcommit_and_close` for every container, also for one that
was opened in place and that `tfile` never heard of. `tfile` keeps its transactions
in a `mempool`, by descriptor number. `k_bcmode_update` splits large inputs into
jobs for the `workbench`; the parameters of the jobs are on the stack of
`process_block_parallel`, so that `workbench_join` is what keeps them alive.
The container hashes every resource with `src/hash` and encrypts it with
`src/streamcipher`, which sits on the block cipher handle. ktool's signal handler
calls `exit`, which runs the `atexit` handler of `tfile` at any point. Its commands
change the working directory while a container is open, whose backup may have a
relative name. The compression of Skein is a call of Threefish, with the position in the
message as tweak. The key of a container comes from a password through
`src/kderive/simple.c`, which hashes again and again in one handle.

**What is hard.** A container opened for writing is overwritten in place, so a crash
is repaired only by `.meta` (ordering, crash recovery, partial failure). Commits
that fail are undone by arithmetic on five counters. One hash and one file offset
serve resources under construction, exports and verification (stale state). The pool
of transactions is compacted while it is walked; a descriptor number outlives its
descriptor; a signal may come between any two effects. The workbench has one mutex,
three conditions signalled one thread at a time, spurious wakeups and a worker
function that is changed without the lock. ktool's commands are killed between any two
effects, and the next one must not take what they leave for something else. The rest is
boundary arithmetic: block buffers, work split over threads, caches over sources that fail,
ciphers unrolled by hand. The full list, line
by line, is under `hazards` in `PROJECT.json`.

**What makes each part correct.** Container: whatever a session does and wherever it
stops, the resources committed before are in the file or can be restored, a close
that succeeds leaves exactly what was acknowledged. Transactions: a name changes only
to the whole file written for it, nothing temporary outlives an orderly exit.
Workbench: join returns when, and only when, every job has run once. Block cipher
handle: the parallel path computes what the serial one does. Buffers (stream cipher,
hashes): the result does not depend on how the input was cut into calls. Random numbers: no
word is given twice. Ciphers: the unrolled code computes what the standards define, and
decryption undoes encryption. ktool: a command replaces a container as a whole, by what it
should, or leaves it and its backup so that the next command can tell.

## The modules

| module | models |
|---|---|
| `ResourceStore` | what a container promises: a list of slots that changes one slot at a time, or is replaced as a whole by one that was composed apart |
| `Pres` | `pres.c`: one process, every effect on the file system a step of its own; implements `ResourceStore` |
| `MCPres` | instances of `Pres` |
| `JobPool` | what a workbench promises: submitted jobs run once, a round ends when all have run |
| `Workbench` | `workbench.c` and the round of `process_block_parallel`; implements `JobPool` |
| `MCWorkbench` | an instance of `Workbench` |
| `Tfile` | `tfile.c` over the array of `mempool.c`, a signal at any effect, other threads |
| `BcMode` | `blockcipher.c` and `modes/*.c`: setting up a handle, one call of `k_bcmode_update` block by block, in one thread or split over the workers |
| `MCBcMode` | an instance of `BcMode` with three-bit blocks |
| `StreamCipher` | `streamcipher.c`, `arc4.c`: handles, the unfinished block, ARC4 |
| `MCStreamCipher` | an instance of it with bytes of two bits |
| `Hash` | `hash.c`, Skein and SHA1 down to their compressions, `kderive/simple.c` |
| `MCHash` | passwords and salts for it |
| `Threefish`, `ThreefishTables` | the three Threefish ciphers; the tables are the arguments of the macros in the code |
| `Word64` | words of 64 bits, as four numbers that TLC can hold |
| `Aes` | `aes.c` |
| `MCThreefish`, `BlockCiphers` | Threefish on real words; the handle of `blockcipher.c` with a cipher of either family |
| `Prng` | `prng.c`, `platform.c`, `mt19937.c` |
| `Ktool` | the commands of ktool over a tree of files, with what they call of `pres.c`, `tfile.c` and `ioutils.c` |
| `MCKtool` | small trees and command lines for it |
| `PresProofs`, `WorkbenchProofs`, `TfileProofs`, `BcModeProofs`, `BlockCipherProofs`, `StreamCipherProofs`, `HashPrngProofs`, `KtoolProofs` | theorems about the modules they are named after; `BlockCipherProofs` is about `Threefish` and `Aes`, `HashPrngProofs` about `Hash` and `Prng`, whose specification is named `RandomSpec` to stand beside `Spec` of `Hash` |

`ResourceStore`, `Pres` and `Ktool` are three levels of the same thing: slots, the bytes of
one container, whole containers among files. `JobPool` and `Workbench` are two; `BcMode` uses
of the pool what `JobPool` promises, `StreamCipher` uses of a mode what `BcMode` shows, and
`Hash` takes a compression for what `Threefish` computes.

### Pres

A file is a size and one cell per offset. Headers, the head of the table, table
entries and units of data take one cell each: the layout, the order of writes and the
arithmetic on offsets are the code's, byte sizes are not. A cell that holds a
structure holds it with its digest, so that "the digest matches" is "the cell is of
that kind". A digest of data is the sequence of units that were hashed. Encryption,
uuids and the static part of the header are left out: they never change after create.

`cur` are the four running counters of `struct pres_file_t`; `hdr` are the same
numbers in the headers the handle will write; `table`, `pos`, `dsize`, `hash` are
the fields of those names. `res` is what the caller of the three add functions is
doing and `app` the locals of an append. `acked` is a history variable: the slots
that the calls which reported success amount to.

A call is split where it has an effect on the file system, so that a crash or a
failure comes between any two effects:

* `k_pres_create`: `Create` (the temporary file and `.meta`).
* `k_pres_open` for writing: `OpenProbe`, `OpenUnprobe` (the `O_EXCL` probe of `.meta` and
  its removal), `OpenRead` (verify, read, write `.meta`), `OpenFail`.
* adding: `InitNewResource`, `AppendStart`, `AppendBlock` (one round of the loop over
  I/O buffers), `AppendRest`, `AppendFail`, `CommitNewResource`, `CommitRefused`
  (fsync), `CommitUndone` (the backup failed), `CallRollback`, and for `k_pres_add_file`
  the two ways it ends early, `AddFileRefused` and `AddFileReadError`.
* `Delete`, `Export`.
* `k_pres_close`: `CloseHeader`, `CloseDetachedHeader`, `CloseTable`, `CloseCommit` (plain
  close, or rename over the name), `CloseUnlink` (of `.meta`), `CloseFail`,
  `CloseRenameFail`.
* `Crash`: the process ends, from any point.

Writing `.meta` is one step: `_commit_meta_data` writes a transaction and renames it,
and what `Tfile` shows of a commit (`CommitExact`) is why it may be one. The page cache
survives: the model is about processes that are killed, not about power loss.

### Workbench

What a thread does between `pthread_mutex_lock` and `pthread_mutex_unlock` or
`pthread_cond_wait` is one action; `wb->workerfn`, which is read and written without the
lock, has actions of its own. A waiting thread is in the wait set of its condition; a
signal removes one thread of the set if there is one, and a wait may end by itself.
The caller does what `process_block_parallel` does: set the function, commit n jobs,
join; after any number of rounds it may delete the workbench. `given` and `runs` are
history.

### Tfile

The pool is the array with what is left behind its end, because the exit handler reads
there. A descriptor is the lowest free number. Each of `fchmod`, `close`, `rename`,
`unlink` and the cut of the pool is a step; `Exit` may interrupt any of them when
signals are on, `ExitLocked` is the same while the mutex of the pool is held.

### BcMode

The handle is `mode`, `keytype`, `keyed` (`keysize` is not 0), `threads`, the IVs of the
workers `ivs` and `backup`; `schedule` remembers which of the two key set-ups made the key
schedule, and a block put through the wrong one is not what the cipher makes of it. The
setting-up calls are one action each, with their failures (`SetModeFail` leaves no mode,
`SetKeyFail` no key). A call of `k_bcmode_update` is `BeginUpdate` (split the blocks as
`distribute_work` does, prepare the IVs of the workers), `ProcessBlock(w)` for one block of
one part, in any order of the parts, and `EndUpdate` (the IV of the last worker becomes the
first). Which jobs run at once is `JobPool`'s business; `BcMode` lets all of them. Buffers are
separate, the same (`inplace`) or absent (key stream). The cipher, the exclusive or
and the counter are operators with assumed laws. `iv0`, `inp` and `outp` are the
stream since the IV was last set, which `AsStandard` compares with the mode's definition.
`k_bcmode_set_tweak` has no action: it looks at the stored tweak size, which is 0 until the
call has succeeded, and so it always fails.

### StreamCipher

A byte of output is the pair of the byte that came in and the byte of keystream it was made
from, so that a byte of keystream left out or used twice shows. The state is that of
`struct k_sc_t`: the unfinished block, how much of it is used and left, and the IV of the
block cipher with its backup, here the number of blocks since the nonce was set. One call
of `k_sc_update` is one action, `UpdateBlock`, in the parts the code has: finish the
block at hand, whole blocks, begin another. ARC4 is modelled with its permutation.
`BlockStream` and `Arc4Stream` compare with definitions that know nothing of calls;
`Arc4Stream` speaks only of keys that `xorb_64` mixes in as they are (`Even`, see below).

### Hash

The state of a hash is the chain of what was compressed into it, with the position and the
flags of Skein's tweak. `SkeinUpdate`, `SkeinFinal`, `SkeinOutput`, `Sha1Update` and
`Sha1Final` follow the buffers, with what SHA1's compression leaves in its buffer (`Junk`).
`DeriveSimple` and `DeriveSkein` are the loops of the key derivation. The references (`SkeinOf`,
`Sha1Of`, `KeyOf`) are functions of the whole message.

### Threefish, Aes, BlockCiphers

`Threefish` steps through an encryption call of a macro by call of a macro (`m1`, `m2`, ...), with
the words renamed as the arguments of the macros rename them; `ThreefishTables` holds these
arguments as data. Its words are a parameter: `Word64` makes them real ones. `Aes` steps
round by round on the key schedule and the eight look-up tables. These, `e0` .. `e3` and `d0`
.. `d3`, are given by the formula from which they are made, which agrees with each of the
256 entries of each table in the source; `e4` and `d4` are the S-box itself. Setting a key in a
handle is an action: a schedule is written over that of the key before, of another size
perhaps. `AsSpecified` and `AesAsSpecified` are written from the definitions of the ciphers:
Threefish without the renaming of words and with its key schedule as a recurrence, AES as
SubBytes, ShiftRows, MixColumns and AddRoundKey on a state of four rows and columns of bytes.

### Prng

A byte of the platform's source is the number of its place in the source; a word of the
twister is that of its place in the recurrence, and `Wrong` when it is made of the wrong
words. A refill of the cache brings any number of bytes (`read` fails or ends). A handle
opens two devices one after the other, each may fail. The arithmetic of
seeding is left out: a seed starts a new sequence.

### Ktool

A file is a plain one, a directory, a backup, or a container: its table of resources, whole
or torn. A command is one process, in the order of `main.c`, with a step for each of its
effects on files and for each failure that the code answers; `Kill` comes between any two. The
state of the process is its working directory `cwd`, the container it creates (`new`) and the
one it reads (`old`), where it is in a walk (`seen`) or a table (`i`). `before`, `quiet` and
`missed` are history: the files as the command found them, whether anything has failed,
and what a walk skipped. `Resolve` is evaluated when the code resolves a name, which is what
a changed working directory changes. What happens inside a container is `Pres`; temporary
files are `Tfile`.

## The runs

| run | bounds | shows |
|---|---|---|
| `pres` | 2 names, 2 entries, resources of 0 or 3 units, I/O buffer of 2, every failure that a call reports (`read` and `abandon` are not, see below), crash | `TypeOK`, `BackupCurrent`, `Recoverable`, `AckedStored`, `ClosedReadable`; `StoreSpec`: every step changes the container, as a user can restore it, by one slot or not at all |
| `pres_abandon` | resources of 3 units, read errors, abandoned resources, create over a damaged container | what was committed stays recoverable and exportable when stray bytes stay in the data pool |
| `workbench` | 3 workers, buffer of 2, 2 rounds of up to 3 jobs | safety (`JoinSafe`, `ExactlyOnce`, `Accounting`, `NoLostWakeup`), liveness (`RoundEnds`, `DeleteEnds`), refinement (`PoolSpec`) |
| `tfile` | 2 names, 4 descriptors, 3 transactions of which 2 open at once, all failures, signals, another thread | `PoolMatches`, `CommitExact`, `NoLeak` |
| `bcmode` | up to 5 blocks between two settings of an IV, 1 to 3 threads, 1 block per thread makes a call parallel, 2 IVs | `AsStandard`, `JobsDisjoint`, `KeyFits` |
| `stream` | blocks of 3 bytes, streams of up to 7, ARC4 with 4 entries and words of 2 bytes, keys of 1 to 3 | a stream does not depend on its cuts: `BlockStream`; for a key shorter than a word or of whole words, `Arc4Stream` |
| `hash` | blocks of 2, 3 and 4 bytes, messages of up to 13 in calls of up to 7, digests of one and of several blocks, a length that overflows its lower word | `SkeinDigest`, `Sha1Digest`, `DerivedKey` |
| `ciphers` | all rounds of every cipher, 64-bit and 32-bit words, the keys and blocks of the unit tests and others, up to two blocks per handle | `UnitTests` (the answers the tests of the repository name), `AsSpecified`, `RoundTrip`, `AesAsSpecified`, `AesRoundTrip` |
| `prng` | a cache of 2 words, a twister of 4 words with its middle at 2, requests of odd sizes, 2 handles | `FreshBytes`, `InRecurrence`, `NoDeviceLeft` |
| `ktool` | 2 commands in a row, out of every kind, on trees with and without a container, one of them within the directory that is imported, or with a file or directory there of a backup's name, every failure, kills | `Guarded`, `ImportOutcome`, `RepackOutcome`, `ExportOutcome` |
| `pres_long_append` | one append of two I/O buffers | **violated**: the resource that was committed cannot be exported |
| `ktool_import` | one import, no failures | **violated**: an import relative to a directory says that it went well and holds nothing |

A run that is violated refutes a sentence of the repository, which the finding quotes.

**Why the bounds are enough.** `pres`: two table entries are the least with which a deleted, an
intact and a new resource meet; a resource of three units with a buffer of two is
written as a block and a rest, or in several calls; a resource of no units is the empty
case. `workbench`: three workers with a buffer of two have a worker left over when the buffer is
full, and two rounds let a late worker of the first meet the second. `tfile`: with two open
transactions a cut has an element to move; the exit handler fails with three (see below),
which is why the run has two at once. `bcmode`: five blocks are cut
into parts of two, two and one, or of three and two, and into several calls, serial and
parallel, that continue each other; the counter of two bits wraps within them. `MinBlocks`
is 512 in the code: it only decides which calls are parallel. `LargeSerial` is FALSE: a call
of that kind does nothing (see below). `stream`: seven bytes are two blocks and a byte, with a
block finished by up to three calls; the keys of ARC4 are shorter than a word, a word, or a
word and a rest, and for the last `Arc4Stream` claims nothing: without its condition the run
violates it (see below). `hash`: thirteen bytes are at least three blocks of every hash; a
message ends before, at and after the end of a block, and where SHA1's padding needs a block
more; 2^29 is 8 in the instance, and a call is shorter than that (see below). Salts of
`k_key_derive_simple1024` are as long as a digest (see below). `ciphers`: the second block comes
after the first or after another key; the words are not abstracted. `prng`: both loops of the
renewal and its last word occur with four words, and eleven words are two
renewals; seven bytes are two refills. `ktool`: the second command meets all
that the first can leave; three resources are the least with a deleted or damaged one before
a good one; the trees hold hidden files, a resource whose name is a directory of another,
and two of the same name; in an imported directory the name of a backup is free, a file's or a directory's.

**Deadlock** is not checked where the program may stop for good: a `Pres` session whose damaged
container nobody repairs, a freed workbench, a dead process, and where the bounds are used up
(`prng`, `ciphers`, `ktool`). `bcmode`, `stream` and `hash` check it.

**Fairness.** Only `Workbench` claims liveness: a thread that is neither waiting nor joined on
is scheduled and gets the mutex in the end (the steps of a call and of each worker are weakly
fair); nothing is assumed of when the caller starts a round or deletes, nor of spurious
wakeups. The other parts wait for nobody, and a process may always be killed.

## What is proved

`WorkbenchProofs`, for every finite set of workers, every buffer size and any number of
rounds and jobs: the five invariants of the run, and that every step is a step of
`JobPool` or a stutter. None of the invariants is inductive alone: that `nworking` counts
says nothing of which jobs are counted. `IInv` says that each given job is at every
moment in exactly one place (`BufferHolds`, `WorkersHold`, `NotTwice`, `NotLost`,
`Numbered`), what the caller's position says of the counters (`Phases`), and that who waits
has a reason (`NoLostWakeup`). It rests on `WorkbenchAssumption` alone.

`PresProofs`, for every set of names and sizes, every buffer size, table size and set of
faults: `TypeOK` and `BackupCurrent`. For the undo of a failed commit to be exact the
counters have to satisfy the arithmetic of the layout (`Arith`). A handle gets its
counters from a file, so every file that can be opened has to satisfy it too
(`Openable`); these were written by a close in three steps, over a file that might have
held anything (`Progress`). That chain is the invariant.

The second part of the module goes on from there to what a user of a container relies on: `Recoverable`,
`AckedStored`, `ClosedReadable`, `CommittedExports`, and that every step is a step of
`ResourceStore` or a stutter (`StoreSpec`). The idea is where the data are: those of the
committed entries lie in the data pool in front of the table (`Held`), and all that a session
writes goes to the headers or behind the pool. So a write never harms them, and it does not matter how
far a session had come when it ended (`DataInv`). For `AckedStored` and the refinement, `ReportInv`
adds that the table in memory is what the successful calls amount to, and that nothing lies
behind the table that a close will write (`Tight`).

These theorems do not say that nothing can go wrong; what they assume is each time something that the
code reaches and where the property fails (see below). All of them assume `ShortAppends`, no
append of two full I/O buffers (`pres.c:200`, the run `pres_long_append`). `Recoverable` and
`CommittedExports` need no more. `AckedStored`, `ClosedReadable` and the refinement are of the behaviours
whose steps are `Told`: no `read` of a file fails in its midst, where `add_file` returns 0 and has added
nothing (`pres.c:358`, against `pres.h:254`), and no close abandons a resource. After either the container is
closed with success and does not open; with the fault `read` TLC finds all three violated, with
`abandon` the last two (`AckedStored` still holds there in TLC's bounds, and is not proved). The refinement also needs
`KeepsBackup`: no creation over a damaged container, which replaces its backup (`pres.c:939`).
`Told` and `KeepsBackup` are conditions on steps, so a theorem speaks of a behaviour with any set of faults
as long as these do not occur in it; `RunIsTold` says that in the faults of the run `pres` they cannot.
What is left when they do occur, the run `pres_abandon` checks.

`StreamCipherProofs`, for every block size, every set of nonces and keys and any length of a
stream: `BlockStream`, `Arc4Stream` and `TypeOK`. For a block cipher's handle `IInv` ties
the unfinished block to the stream: while there is one, the bytes of it that are used and
those that are left make a block, and the blocks that the IV counts with the used bytes
are exactly what was given out (`Spent`). That holds through the three parts of a call because
each is a lemma about a length and a block size (division with rest). For ARC4, `Arc4Inv` says
that the context is the one that the bytes given out so far lead to; then the key schedule and the
generator, which swap in place, are compared step by step with those of the
definition. Both are recursive functions; that such a function is defined follows from a set in which its
steps stay (`Recursion`), and that two are equal, because no number is the least at which
they differ (`UpTo`). `Arc4Stream` itself speaks only of keys of whole words, or shorter than one (`Even`): of
others `xorb_64` mixes the last bytes in at the wrong place (`xor.h:44-53`). All is from
`StreamCipherAssumption`, which has the nonces not empty because `k_sc_init` refuses those
(`streamcipher.c:59`).

`HashPrngProofs`, of `Hash`, for blocks, messages, calls and digests of any size and any number of rounds:
`SkeinDigest`, `Sha1Digest` and `DerivedKey`. While a message comes, the chain is that of its first
blocks and the buffer holds the bytes behind them. Skein keeps back a block that may be
the last (`SkeinState`: as many blocks are done as fit into all bytes but one); SHA1
compresses it at once, and the place in its buffer is nothing but the remainder of the count
(`Sha1State`). Each part of a call is a lemma: it fills the buffer up, takes whole
blocks from the caller and keeps the rest. SHA1's padding is a loop of calls, whose length
is computed (`PadZeros`), and the length that it writes is that of the count before it, whose two
words are compared with a division (`Counts`). `Sha1Digest` assumes `ShortUpdates`, no call of
`LowCount` bytes, from which on the carry is wrong (`sha1.c:115`, see below), and `DerivedKey`
assumes `WholeSalts`, salts as long as a digest, as `pres.c` has them: behind a shorter one
`k_key_derive_simple1024` hashes memory that nothing has written. The rest is from `HashAssumption`.

`TfileProofs`, for every set of names, any number of descriptors and transactions and every set
of faults: `PoolMatches` and `CommitExact`, and `NoLeak` where no more than two transactions are
recorded at once (`MaxPool <= 2`): ktool has no more, a container that it creates and the backup of
it; of three the exit handler skips one (see below). While a call runs, its transaction is in between (its
descriptor closed, its file renamed, its element still in the array), so `IInv` says of all
others that they have their descriptor and their file (`Untouched`), that no two share a file
(`OwnFiles`), and which element of the array the running call works on (`Phases`). A descriptor is
closed twice on some ways out; that harms no other because it is of no transaction. Once the
exit handler runs the invariant is given up: no call returns any more, and it renames nothing. For
`NoLeak`, `LeakInv` says whose each temporary file is, and what the handler has still to do
(`CleanInv`): it cuts the array it walks, but the second element of two stays where it was.

`BcModeProofs`, for every cipher, every set of blocks and any number of threads, three invariants one on
another. The key (`IInv`, for `KeyFits`): a handle without a mode has no key. The cut
(`CutInv`, for `JobsDisjoint`): the jobs of a call lie one behind the other and cover it, so that no two
workers share a block or an IV. The stream (`StreamIInv`, for `AsStandard`): what has been
processed is what the mode defines, each worker has the IV for the block that it
takes next, and the blocks that nobody has taken are still those of the input, also
when it is overwritten in place. Of the cipher it needs that decryption undoes encryption, of the exclusive
or that it undoes itself, of the counter that adding is additive (`BcModeAssumption`); for the three Threefish ciphers
and for AES the first is a theorem (below). `AsStandard` does not hold of every call that the
code accepts: one that is large enough for all threads, in a direction that is serial, does nothing
(`blockcipher.c:471-478`, see below). So `StreamIsStandard` is of the behaviours in which each call has a
part to process (`CallHasPart`); `SplitCallsHaveParts` says that these are all when no caller makes such a
call, as in the run (`LargeSerial` FALSE). `KeyFits` and `JobsDisjoint` hold with such calls as well.

`BlockCipherProofs`, of `Threefish`, for the three ciphers with the tables of their files and every key,
tweak and block: `RoundTrip` (`DecryptionUndoes`) and `AsSpecified` (`EncryptionIsThreefish`). The mixes of a round have
no word in common and name every word (`Fits`); the tables of the decryption are those of the encryption from behind
(`TablesFit`). So the blocks of an encryption are each the round of the one before (`RoundsMade`), a round in
progress has made some of its words (`PartMixed`), and a decryption at round d has the words it has
unmixed from before the round and the others from behind it (`PartUnmixed`); `CipherInv` says this for each phase. For the
paper's cipher, the code leaves words in place where the paper moves them: its mixes are
those of the paper with the words renamed (`Renamed`), four rounds of renaming give every word its
place again (`Turns`), and the arguments of the calls are the subkeys one after the other (`ArgsOf`). The parity word of
the code is summed from the front and that of the paper from behind (`SameParity`). The
hypotheses are about the arithmetic of `uint64_t`: its operations undo one another
(`WordLaws`), and sums and exclusive ors do not depend on the order of their terms (`OrderLaws`). Real words
satisfy them; TLC evaluates them on words where carries run through (`SampleLaws`). Keys, tweaks and blocks are
of their sizes (`InputsFit`, by `ThreefishAssumption`).

Of `Aes`, for every key of 16, 24 or 32 bytes and every block: `AesAsSpecified` (`EncryptionIsAes`) and `AesRoundTrip`
(`AesDecryptionUndoes`), from the digits of a byte upwards. The exclusive or is computed digit by digit (`XorBits`), so
its laws follow (`XorLaws`); doubling goes over sums (`TwiceAdds`), and every product the tables hold is a sum of doublings
(`Products`). The four tables of a round, added, are a column of MixColumns of the S-box (`ColumnOfE`), those of the
decryption a column of its inverse (`ColumnOfD`), and that inverse gives a column back (`UnmixRestores`). The expansion makes words for all
rounds of each key length (`ExpandedIsWords`), which also bounds the index of `rcon`. `AesInv` says that the schedule is
of the key that was set last, in the order of its use; that in an encryption the words hold the state of FIPS 197 behind
the rounds made; and that in a decryption, for whatever block has the given one as its cipher
text, they hold the state of that block before as many rounds, put through SubBytes and ShiftRows. The keys between the first round and
the last pass through the inverse of MixColumns, which is why the inverse may be applied to the state before the key is added
(`MixUndone`). That the S-box is one to one is proved from its 256 entries (`SubBytesInverts`); that they are
the entries that FIPS 197 defines is `SubBytesAssumption`, a statement without variables or constants that TLC evaluates. The expansion of
the key is no part of the comparison: `Cipher` takes it from the code, and `UnitTests` checks it.

`HashPrngProofs`, of `Prng`, for every size of the cache, of a word and of the twister, every set of requests and
any number of handles: `FreshBytes`, `InRecurrence` and `NoDeviceLeft`. `IInv` says that the bytes that were
given and those that wait in the cache are different places of the source, none of them
behind where it is read next. For the twister, `TwisterInv` says that its state is a whole stretch of the
recurrence; the renewal in place then reads each word before it is overwritten or
after it is renewed, as the recurrence needs, which is a lemma per loop about the place of a word.

`KtoolProofs`, for every tree of files and all command lines, failures, kills and numbers of commands:
`Guarded`, `RepackOutcome`, `ExportOutcome` and `ImportOutcome`. A container is torn by one
command and found by later ones, so `IInv` says which
containers can be torn at all (those that command lines name), where the working directory
is in each phase, and whose backup a command removes: its own, or that of a container in
`Astray`. That two containers in one directory have different backups is
`KtoolAssumption`: the names differ, and both get the same suffix. The outcomes rest on what
every command keeps (`FilesInv`): the files are a tree in which the process has its place
(`TreeInv`), tables are sequences of entries (`TableInv`), loops are within them (`LoopInv`), and a
repack has copied the live entries of those it has passed (`RepackInv`). An export
(`ExportInv`) has written each name of the entries behind it, and what it has written is all there
is in the new directory, so that nothing stands in the way of a name that is no directory of another. An import
(`ImportInv`) holds one entry for each file its walk has seen, and the
files are those that the command found but for backups: of the container, and, when the name is
relative, of that name in the imported directory, which the walk may meet as well. The initial
trees are assumed to be trees with whole containers (`TreesAssumption`).

Model-checked only:

* The liveness properties and the liveness half of `PoolSpec`: fairness is out of the prover's reach.
* The answers of the unit tests (`UnitTests`): of given bytes, which evaluation settles; `SubBytesAssumption` likewise.

Where a proof needs induction it is over numbers, from the least counterexample.

## What the code does that its callers would not expect

Two of these have runs. The others were met while the modules were written; the models
have the steps that lead to them, except where it says so.

* Container: `total` is not reset between two I/O buffers (`pres.c:200`, run `pres_long_append`).
  An `add_file` whose `read` fails after some data returns 0 (`pres.c:351-359`), where `pres.h:254`
  says that 0 is for a file that was added, and the container that is then closed does not
  open. `AckedStored` and `ClosedReadable` fail with it, and are claimed without it. A creating session that fails at its close leaves
  `.meta` behind (`pres.c:1048-1054`, against `pres.h:210-213`), which blocks the healthy
  container. A container opened for writing is changed in place, so that between the first
  write over its table and the end of close its name holds a file that does not open, where
  `pres.h:229` promises "no state in between" (`Recoverable` says what is true: `.meta`
  restores it). `k_pres_create` over a container that a stopped writer left replaces the
  backup that could repair it (`pres.c:939`). A crash between probe and its removal blocks a
  healthy container (`pres.c:711`).
* Transactions: the exit handler walks an array that it compacts, and with three open
  transactions skips one and frees another twice (`tfile.c:176-185`; the run has two). A rollback closes its
  descriptor number twice (`tfile.c:317-319`, `331-333`). A signal handler that exits while
  the thread it interrupted holds the lock of the pool waits for ever (`main.c:37`,
  `mempool.c:75-135`). A signal between `mkstemp` and `pool_append` leaves a file nobody knows
  of (`tfile.c:259`).
* Modes: a call with more than one thread, 512 blocks per thread and a mode that is serial in
  that direction processes nothing (`blockcipher.c:471-478`, constant `LargeSerial`), and
  `AsStandard` fails: it is claimed of the calls that have a part.
  `k_bcmode_set_tweak` looks at the stored tweak size, which is 0 until the call has
  succeeded, and so it never does (`blockcipher.c:383`; there is no action for it).
* Stream cipher: `xorb_64` takes what is left over behind the last whole word from the
  beginning again (`xor.h:44-53`), so that an ARC4 key of, say, 12 bytes is mixed in wrongly
  (`Mixed` does so; the run sets such a key, and `Arc4Stream` leaves it out).
* Hashes: one update of 2^29 bytes or more, with a carry, counts it twice (`sha1.c:115-117`;
  calls of the run are shorter). `k_hash_finish` looks into `c->hash` before it knows that there is one
  (`hash.c:77`; not modelled, it needs an unknown algorithm). `k_key_derive_simple1024` hashes as many bytes
  behind the password as a digest has, of which a shorter salt fills only the first
  (`simple.c:44`; `SimpleInput` has them as `Junk`).
* Random numbers: a refill that comes short marks the cache full (`platform.c:64`), which is why
  `FreshBytes` stops speaking then. A twister without a seed gives 624 words made of zeros
  before it seeds itself (`mt19937.c:104`). `mt19937_init` scales the index of its key twice
  (`mt19937.c:77`; not modelled, as no other arithmetic of the seed).
* ktool: an import to a relative name with a directory in it holds nothing (`main.c:170`, run
  `ktool_import`). To a name without one it leaves `<name>.meta` where ktool was started and
  the next `add` is refused. What it does remove is the file of that name in the imported
  directory: the backup of another container there, which may be damaged (`Guarded` leaves
  these, `Astray`, out). A plain file of that name is overwritten by the backup before the
  walk comes to it, and the container may hold the backup in its place; a directory or a read-only
  file of that name makes the walk skip every file (`ImportOutcome` allows
  both, and no more). An export into which a name stands in the way of a directory does
  not come back out of the directories it was in, and the next resource goes below them, with
  exit status 0 (`ioutils.c:140`, `ExportStrays`). `export_all` always returns 0; of two
  resources with one name the older is exported, since its file is read-only. `add` and `delid`
  do not look at the result of close; a failed `imp` or `rep` leaves `.meta`.

## What is not modelled

* Two processes that work on one container at once (`pres.c:702`), reads and exports between the init
  and the commit of a resource (`pres.c:1314`), encryption of a container: the digests are over
  what is stored, and the stream under it is what `StreamCipher` shows.
* Single failures beside those that are: of `close()` for a container changed in place and of a write
  over a header that comes short (the backup covers both), of the last `chdir` back (`ioutils.c:156`), of a
  `chdir` behind a `mkdir` that succeeded (the model leaves no directory), of `nftw` itself, and directories
  it cannot read (`ioutils.c:225-229`). A file that `add_file` reads in part and reports as added is
  a step of `Pres`; `Ktool` has only the one that cannot be read at all.
* `k_bcmode_update` without a key, and SHA1 at other lengths than 160 bits.
* The compression of SHA1, the arithmetic of a seed, tempering: arithmetic on words that no
  other state depends on.
* The memory pool used by several threads (`mempool.c:117` reads the size before it takes the lock): only
  `tfile.c` uses it, from one thread.
* `mem.c`, `err.c`, `ntwrap.c`: statistics, thread-local codes, another system's calls. `src/pres`:
  stubs that nothing calls.
* The .NET bindings, tests and benchmarks: no state of the library.

## Plan

1. Done: the container, transactions, the workbench and the block cipher modes, with the
   first proofs.
2. Done: the stream cipher with its proof, hashes and key derivation, the block ciphers, random
   numbers, ktool.
3. Done: proofs about `Tfile`, `BcMode`, `Prng`, `StreamCipher`, `Ktool`, `Hash`, `Threefish` and `Aes`, and of what a
   container promises.
4. Two processes on one container; the pool under several threads.
