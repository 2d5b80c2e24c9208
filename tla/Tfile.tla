-------------------------------- MODULE Tfile --------------------------------
(***************************************************************************)
(* The file transactions of src/utils/tfile.c.  k_tcreat opens a temporary *)
(* file and records it in a pool; k_tcommit_and_close renames it over the  *)
(* file it was made for, k_trollback_and_close removes it, and an exit     *)
(* handler removes what is left.  The pool is an array in memory that      *)
(* pool_cut compacts, leaving what was behind the last element in place.   *)
(*                                                                         *)
(* The thread that uses the library runs one call at a time and may be     *)
(* interrupted by a signal between any two effects of it (ktool's handler  *)
(* calls exit); other threads of the process open and close files of their *)
(* own.  A descriptor is a small number, the lowest that is free.          *)
(***************************************************************************)
EXTENDS Integers, Sequences

CONSTANTS
  Names,      \* files that transactions are made for
  MaxFd,      \* bound: descriptors are 1..MaxFd
  MaxTemps,   \* bound: transactions begun
  MaxPool,    \* bound: transactions recorded at the same time
  Faults      \* what the environment does

FaultKinds == {"append", "chmod", "rename", "signal", "threads"}

ASSUME TfileAssumption ==
  /\ MaxFd \in Nat \ {0} /\ MaxTemps \in Nat /\ MaxPool \in Nat
  /\ Faults \subseteq FaultKinds

VARIABLES
  dir,      \* what each name holds: 0, or the temporary file renamed over it
  temps,    \* the temporary files that exist under their own name
  ntemp,    \* transactions begun
  fds,      \* what each descriptor is open on
  mem, n,   \* the pool: its array, with what is left behind the end; its length
  inited,   \* tfile_init
  pc,       \* where the running call is
  arg,      \* the entry the running call works on
  i,        \* index of that entry in the pool; that of the exit handler's loop
  nfiles,   \* how often that loop is to run
  asked,    \* history: the descriptor the running call was given
  handles,  \* history: the transactions whose descriptor the caller holds
  ub        \* history: an entry was used whose names had been freed

vars == <<dir, temps, ntemp, fds, mem, n, inited, pc, arg, i, nfiles,
          asked, handles, ub>>
call == <<arg, i, asked>>
pool == <<mem, n>>

Fds     == 1..MaxFd
Free    == [is |-> "free", id |-> 0]
Plain   == [is |-> "plain", id |-> 0]   \* opened by the caller without k_tcreat
Other   == [is |-> "other", id |-> 0]   \* opened by another thread
Temp(t) == [is |-> "temp", id |-> t]

\* struct tfile_t
NoEntry == [fd |-> 0, name |-> "none", tmp |-> 0, freed |-> TRUE]

Init ==
  /\ dir = [x \in Names |-> 0] /\ temps = {} /\ ntemp = 0
  /\ fds = [d \in Fds |-> Free]
  /\ mem = <<>> /\ n = 0 /\ inited = FALSE
  /\ pc = "run" /\ arg = NoEntry /\ i = 0 /\ nfiles = 0 /\ asked = 0
  /\ handles = {} /\ ub = FALSE

HasFree == \E d \in Fds : fds[d] = Free
Lowest  == CHOOSE d \in Fds : fds[d] = Free /\ \A e \in Fds : fds[e] = Free => d <= e

\* close: of a descriptor that is not open, it does nothing.
Closed(d) == [fds EXCEPT ![d] = Free]

-----------------------------------------------------------------------------
(* The pool: mempool.c on elements of one size *)

Appended(m, k, e) == [j \in 1..(IF k + 1 > Len(m) THEN k + 1 ELSE Len(m)) |->
                        IF j = k + 1 THEN e ELSE m[j]]

\* pool_cut at element j: the elements behind it move, the last one stays
\* where it was too.  CutLast, a wrong one, drops the last element instead.
CutLast(m, k, j) == m

Cut(m, k, j) == [l \in 1..Len(m) |-> IF j <= l /\ l < k THEN m[l + 1] ELSE m[l]]

\* The first element with descriptor d, or 0; a wrong search from the end.
LastOf(d) ==
  IF \E j \in 1..n : mem[j].fd = d THEN n ELSE 0

IndexOf(d) ==
  IF \E j \in 1..n : mem[j].fd = d
  THEN CHOOSE j \in 1..n : mem[j].fd = d /\ \A l \in 1..(j - 1) : mem[l].fd # d
  ELSE 0

PoolCut ==
  IF i >= 1 /\ i <= n THEN mem' = Cut(mem, n, i) /\ n' = n - 1
                      ELSE UNCHANGED pool

\* The names of entry e are freed wherever a copy of it is left.
FreeNames(m, e) ==
  [j \in 1..Len(m) |-> IF m[j].tmp = e.tmp THEN [m[j] EXCEPT !.freed = TRUE] ELSE m[j]]

-----------------------------------------------------------------------------
(* k_tcreat *)

\* Up to mkstemp.  What fails before it has no effect.
Mkstemp(x) ==
  /\ pc = "run" /\ HasFree
  /\ ntemp < MaxTemps /\ n < MaxPool
  /\ inited' = TRUE
  /\ ntemp' = ntemp + 1 /\ temps' = temps \union {ntemp'}
  /\ fds' = [fds EXCEPT ![Lowest] = Temp(ntemp')]
  /\ arg' = [fd |-> Lowest, name |-> x, tmp |-> ntemp', freed |-> FALSE]
  /\ pc' = "creat"
  /\ UNCHANGED <<dir, pool, i, nfiles, asked, handles, ub>>

\* pool_append, the last step, so that there is nothing to take back.
PoolAppend ==
  /\ pc = "creat"
  /\ mem' = Appended(mem, n, arg) /\ n' = n + 1
  /\ handles' = handles \union {arg}
  /\ pc' = "run" /\ arg' = NoEntry
  /\ UNCHANGED <<dir, temps, ntemp, fds, inited, i, nfiles, asked, ub>>

PoolAppendFail ==
  /\ pc = "creat" /\ "append" \in Faults
  /\ fds' = Closed(arg.fd)
  /\ temps' = temps \ {arg.tmp}
  /\ pc' = "run" /\ arg' = NoEntry
  /\ UNCHANGED <<dir, ntemp, pool, inited, i, nfiles, asked, handles, ub>>

-----------------------------------------------------------------------------
(* k_tcommit_and_close and k_trollback_and_close of descriptor d, one that    *)
(* k_tcreat gave out or another one that the caller has open                  *)

CallersFds == {h.fd : h \in handles} \union {d \in Fds : fds[d] = Plain}

Begin(d, found, lost) ==
  /\ pc = "run" /\ d \in CallersFds
  /\ i' = IndexOf(d) /\ asked' = d
  /\ IF i' # 0 THEN arg' = mem[i'] /\ pc' = found
               ELSE arg' = [NoEntry EXCEPT !.fd = d] /\ pc' = lost
  /\ UNCHANGED <<dir, temps, ntemp, fds, pool, inited, nfiles, handles, ub>>

TCommit(d) == Begin(d, "chmod", "close")

\* Not initialised, k_trollback_and_close closes the descriptor and goes on.
TRollback(d) == Begin(d, "rollback", IF inited THEN "close" ELSE "closetwice")

\* tcommit_one: fchmod, close, rename, pool_cut; trollback_one if one fails.
Chmod ==
  /\ pc = "chmod"
  /\ \/ pc' = "commit"
     \/ pc' = "rollback" /\ "chmod" \in Faults
  /\ UNCHANGED <<dir, temps, ntemp, fds, pool, inited, call, nfiles, handles, ub>>

CommitClose ==
  /\ pc = "commit"
  /\ fds' = Closed(arg.fd)
  /\ pc' = "rename"
  /\ UNCHANGED <<dir, temps, ntemp, pool, inited, call, nfiles, handles, ub>>

Rename ==
  /\ pc = "rename"
  /\ \/ /\ dir' = [dir EXCEPT ![arg.name] = arg.tmp] /\ temps' = temps \ {arg.tmp}
        /\ pc' = "cut"
     \/ "rename" \in Faults /\ pc' = "rollback" /\ UNCHANGED <<dir, temps>>
  /\ UNCHANGED <<ntemp, fds, pool, inited, call, nfiles, handles, ub>>

\* trollback_one.  Its close is the second one when the rename failed.
RollbackClose ==
  /\ pc = "rollback"
  /\ fds' = Closed(arg.fd)
  /\ pc' = "unlink"
  /\ UNCHANGED <<dir, temps, ntemp, pool, inited, call, nfiles, handles, ub>>

Unlink ==
  /\ pc = "unlink"
  /\ temps' = temps \ {arg.tmp}
  /\ pc' = "cut"
  /\ UNCHANGED <<dir, ntemp, fds, pool, inited, call, nfiles, handles, ub>>

Return == pc' = "run" /\ arg' = NoEntry /\ i' = 0 /\ asked' = 0

\* free, free, pool_cut, and the return.
CutAndReturn ==
  /\ pc = "cut"
  /\ PoolCut
  /\ handles' = {h \in handles : h.fd # asked}
  /\ Return
  /\ UNCHANGED <<dir, temps, ntemp, fds, inited, nfiles, ub>>

\* "fd wasn't opened by tcreat(), simply close it"
SimplyClose ==
  /\ pc \in {"close", "closetwice"}
  /\ fds' = Closed(arg.fd)
  /\ IF pc = "closetwice"
     THEN pc' = "close" /\ UNCHANGED <<call, handles>>
     ELSE Return /\ handles' = {h \in handles : h.fd # asked}
  /\ UNCHANGED <<dir, temps, ntemp, pool, inited, nfiles, ub>>

-----------------------------------------------------------------------------
(* The caller, other threads, the end of the process *)

\* The caller opens a file without k_tcreat: a container to be changed in place.
OpenPlain ==
  /\ pc = "run" /\ HasFree /\ \A d \in Fds : fds[d] # Plain
  /\ fds' = [fds EXCEPT ![Lowest] = Plain]
  /\ UNCHANGED <<dir, temps, ntemp, pool, inited, pc, call, nfiles, handles, ub>>

OtherThread ==
  /\ "threads" \in Faults /\ pc # "dead"
  /\ \/ /\ HasFree /\ \A d \in Fds : fds[d] # Other
        /\ fds' = [fds EXCEPT ![Lowest] = Other]
     \/ \E d \in Fds : fds[d] = Other /\ fds' = Closed(d)
  /\ UNCHANGED <<dir, temps, ntemp, pool, inited, pc, call, nfiles, handles, ub>>

\* exit, called by the program or by its signal handler: the atexit handler
\* __cleanup, registered by the first k_tcreat, begins.
Exit ==
  /\ pc = "run" \/ ("signal" \in Faults /\
                    pc \in {"creat", "chmod", "commit", "rename", "rollback",
                            "unlink", "cut", "close", "closetwice"})
  /\ pc' = "cleanup"
  /\ i' = 1 /\ nfiles' = n
  /\ UNCHANGED <<dir, temps, ntemp, fds, pool, inited, arg, asked, handles, ub>>

\* The same while the interrupted call is in pool_append or pool_cut and holds
\* the lock of the pool, which __cleanup asks for first.
ExitLocked ==
  /\ "signal" \in Faults /\ pc \in {"creat", "cut"}
  /\ pc' = "stuck"
  /\ UNCHANGED <<dir, temps, ntemp, fds, pool, inited, call, nfiles, handles, ub>>

\* One element of the loop of __cleanup: trollback_one, on the array that
\* earlier rounds have compacted.
Cleanup ==
  /\ pc = "cleanup" /\ i <= nfiles
  /\ LET e == mem[i] IN
       /\ ub' = (ub \/ e.freed)
       /\ fds' = Closed(e.fd)
       /\ temps' = IF e.freed THEN temps ELSE temps \ {e.tmp}
       /\ n' = IF i <= n THEN n - 1 ELSE n
       /\ mem' = FreeNames(IF i <= n THEN Cut(mem, n, i) ELSE mem, e)
  /\ i' = i + 1
  /\ UNCHANGED <<dir, ntemp, inited, pc, arg, nfiles, asked, handles>>

Terminate ==
  /\ pc = "cleanup" /\ i > nfiles
  /\ pc' = "dead"
  /\ UNCHANGED <<dir, temps, ntemp, fds, pool, inited, call, nfiles, handles, ub>>

Creat  == (\E x \in Names : Mkstemp(x)) \/ PoolAppend \/ PoolAppendFail
Finish == (\E d \in Fds : TCommit(d) \/ TRollback(d)) \/ Chmod \/ CommitClose
          \/ Rename \/ RollbackClose \/ Unlink \/ CutAndReturn \/ SimplyClose
End    == Exit \/ ExitLocked \/ Cleanup \/ Terminate

Next == Creat \/ Finish \/ End \/ OpenPlain \/ OtherThread

Spec == Init /\ [][Next]_vars

-----------------------------------------------------------------------------
(* Properties *)

\* Between two calls the pool is exactly the transactions whose descriptors the
\* caller holds, one entry each, and each descriptor is open on the temporary
\* file of its entry: no call, and no failed call, leaves anything behind.
PoolMatches ==
  pc = "run" =>
    /\ {mem[j] : j \in 1..n} = handles
    /\ \A j, k \in 1..n : j # k => mem[j].fd # mem[k].fd
    /\ \A h \in handles : fds[h.fd] = Temp(h.tmp) /\ h.tmp \in temps

\* A file changes only while the transaction that was made for it is being
\* committed, from what it was to the whole of what was written.
CommitExact ==
  [][\A x \in Names : dir'[x] # dir[x] =>
       \E h \in handles : h.fd = asked /\ h.name = x /\ h.tmp = dir'[x]]_vars

\* The file of a transaction that was begun and not committed does not outlive
\* a process that calls exit between two calls (arg would be the entry of an
\* interrupted one), nor does the exit handler use names it has freed.
NoLeak == pc = "dead" /\ arg = NoEntry => temps = {} /\ ~ub

=============================================================================
