---------------------------- MODULE TfileProofs ----------------------------
(***************************************************************************)
(* The transactions of Tfile, proved for every set of names, any number of *)
(* descriptors and of transactions and every set of faults: between calls  *)
(* the pool is what the caller holds, and a name changes only to the file  *)
(* that was written for it; and, where no more than two are open at once,  *)
(* a process that exits leaves no temporary file behind.                   *)
(***************************************************************************)
EXTENDS Tfile, WellFoundedInduction, TLAPS

Entries == [fd : Fds, name : Names, tmp : Nat, freed : BOOLEAN]
Files   == [is : {"free", "plain", "other", "temp"}, id : Nat]

\* Between two calls, in k_tcreat, and where a transaction is ended.
Between   == {"run", "creat"}
Finishing == {"chmod", "commit", "rename", "rollback", "unlink", "cut"}
Closing   == {"close", "closetwice"}

Types ==
  /\ dir \in [Names -> Nat] /\ ntemp \in Nat
  /\ fds \in [Fds -> Files]
  /\ mem \in Seq(Entries) /\ n \in Nat /\ n <= Len(mem)
  /\ asked \in Nat

\* The elements of the array that count are the caller's transactions.
Recorded ==
  /\ \A j \in 1..n : mem[j] \in handles
  /\ \A h \in handles : \E j \in 1..n : mem[j] = h
  /\ \A j, k \in 1..n : j # k => mem[j].fd # mem[k].fd

\* No two transactions have the same temporary file.
OwnFiles ==
  /\ \A h \in handles : h.tmp \in 1..ntemp
  /\ \A g, h \in handles : g.tmp = h.tmp => g = h

\* A transaction that no call is ending has its file, open.
Untouched ==
  \A h \in handles : h.fd # asked => fds[h.fd] = Temp(h.tmp) /\ h.tmp \in temps

\* What a running call works on.
Phases ==
  /\ pc \in Between => asked = 0
  /\ pc = "creat" =>
       /\ arg \in Entries /\ fds[arg.fd] = Temp(arg.tmp)
       /\ arg.tmp \in temps /\ arg.tmp \in 1..ntemp
       /\ \A h \in handles : h.tmp # arg.tmp
  /\ pc \in Finishing => i \in 1..n /\ arg = mem[i] /\ asked = arg.fd
  /\ pc \in Closing =>
       asked = arg.fd /\ asked \in Fds /\ \A h \in handles : h.fd # asked

\* While no exit handler runs, and it never stops running.
Transactions == Types /\ Recorded /\ OwnFiles /\ Untouched /\ Phases

Ending == {"cleanup", "dead", "stuck"}

IInv ==
  /\ dir \in [Names -> Nat]
  /\ pc \in Between \cup Finishing \cup Closing \cup Ending
  /\ pc \notin Ending => Transactions

-----------------------------------------------------------------------------
(* Descriptors, arrays *)

Less == {ss \in Nat \X Nat : ss[1] < ss[2]}

\* A set of numbers has a least one.
LEMMA Least ==
  ASSUME NEW T, T \subseteq Nat, T # {}
  PROVE  \E x \in T : \A y \in T : x <= y
<1>1. IsWellFoundedOn(Less, Nat)
  BY NatLessThanWellFounded DEF OpToRel, Less
<1>2. PICK x \in T : \A y \in T : <<y, x>> \notin Less
  BY <1>1, WFMin
<1>3. ASSUME NEW y \in T PROVE x <= y
  <2>1. ~(y < x)
    BY <1>2 DEF Less
  <2>2. QED
    BY <2>1
<1>4. QED
  BY <1>3

\* open gives out a descriptor that is free.
LEMMA LowestIsFree ==
  ASSUME HasFree
  PROVE  Lowest \in Fds /\ fds[Lowest] = Free
<1>1. {d \in Fds : fds[d] = Free} # {} /\ {d \in Fds : fds[d] = Free} \subseteq Nat
  BY DEF HasFree, Fds
<1>2. \E d \in {d \in Fds : fds[d] = Free} : \A e \in {e \in Fds : fds[e] = Free} : d <= e
  BY <1>1, Least
<1>3. \E d \in Fds : fds[d] = Free /\ \A e \in Fds : fds[e] = Free => d <= e
  BY <1>2
<1>4. QED
  BY <1>3 DEF Lowest

\* The search finds the descriptor, when it is in the pool, where it is.
LEMMA Found ==
  ASSUME NEW d, n \in Nat, \A j, k \in 1..n : j # k => mem[j].fd # mem[k].fd
  PROVE  /\ IndexOf(d) # 0 => IndexOf(d) \in 1..n /\ mem[IndexOf(d)].fd = d
         /\ IndexOf(d) = 0 => \A j \in 1..n : mem[j].fd # d
<1>1. CASE \E j \in 1..n : mem[j].fd = d
  <2>1. PICK j \in 1..n : mem[j].fd = d
    BY <1>1
  <2>2. \A l \in 1..(j - 1) : l \in 1..n /\ l # j
    OBVIOUS
  <2>3. \E k \in 1..n : mem[k].fd = d /\ \A l \in 1..(k - 1) : mem[l].fd # d
    BY <2>1, <2>2
  <2>4. IndexOf(d) \in 1..n /\ mem[IndexOf(d)].fd = d
    BY <1>1, <2>3 DEF IndexOf
  <2>5. QED
    BY <2>4
<1>2. CASE ~\E j \in 1..n : mem[j].fd = d
  BY <1>2 DEF IndexOf
<1>3. QED
  BY <1>1, <1>2

\* pool_append: one element more, the others as they were.
LEMMA AppendedArray ==
  ASSUME NEW m \in Seq(Entries), NEW k \in Nat, k <= Len(m), NEW e \in Entries
  PROVE  /\ Appended(m, k, e) \in Seq(Entries)
         /\ k + 1 <= Len(Appended(m, k, e))
         /\ Appended(m, k, e)[k + 1] = e
         /\ \A j \in 1..k : Appended(m, k, e)[j] = m[j]
<1> DEFINE L == IF k + 1 > Len(m) THEN k + 1 ELSE Len(m)
           f == [j \in 1..L |-> IF j = k + 1 THEN e ELSE m[j]]
<1>2. L \in Nat /\ k + 1 <= L
  OBVIOUS
<1>3. \A j \in 1..L : j # k + 1 => j \in 1..Len(m)
  OBVIOUS
<1>4. f \in [1..L -> Entries]
  BY <1>3
<1>5. f \in Seq(Entries) /\ Len(f) = L
  BY <1>2, <1>4
<1>6. Appended(m, k, e) = f
  BY DEF Appended
<1>7. k + 1 \in 1..L /\ \A j \in 1..k : j \in 1..L /\ j # k + 1
  BY <1>2
<1>8. f[k + 1] = e /\ \A j \in 1..k : f[j] = m[j]
  BY <1>7
<1>9. QED
  BY <1>2, <1>5, <1>6, <1>8

\* pool_cut: the others, each once.
LEMMA CutArray ==
  ASSUME NEW m \in Seq(Entries), NEW k \in Nat, k <= Len(m), NEW c \in 1..k
  PROVE  /\ Cut(m, k, c) \in Seq(Entries) /\ Len(Cut(m, k, c)) = Len(m)
         /\ \A j \in 1..(k - 1) :
              Cut(m, k, c)[j] = IF j < c THEN m[j] ELSE m[j + 1]
<1> DEFINE f == [l \in 1..Len(m) |-> IF c <= l /\ l < k THEN m[l + 1] ELSE m[l]]
<1>1. Len(m) \in Nat /\ \A l \in 1..Len(m) : l < k => l + 1 \in 1..Len(m)
  OBVIOUS
<1>2. f \in [1..Len(m) -> Entries]
  BY <1>1
<1>3. f \in Seq(Entries) /\ Len(f) = Len(m)
  BY <1>1, <1>2
<1>4. ASSUME NEW j \in 1..(k - 1)
      PROVE  f[j] = IF j < c THEN m[j] ELSE m[j + 1]
  <2>1. j \in 1..Len(m) /\ j < k
    OBVIOUS
  <2>2. QED
    BY <2>1
<1>5. QED
  BY <1>3, <1>4 DEF Cut

-----------------------------------------------------------------------------
(* The invariant *)

\* The pool of a process that starts is empty, and the caller holds nothing.
LEMMA InitHolds == Init => IInv
<1> SUFFICES ASSUME Init PROVE IInv
  OBVIOUS
<1>1. mem \in Seq(Entries) /\ n = 0 /\ Len(mem) = 0
  BY DEF Init
<1>2. Types
  BY <1>1 DEF Init, Types, Files, Free
<1>3. Recorded /\ OwnFiles /\ Untouched
  BY <1>1 DEF Init, Recorded, OwnFiles, Untouched
<1>4. Phases
  BY DEF Init, Phases, Between, Finishing, Closing
<1>5. QED
  BY <1>2, <1>3, <1>4 DEF Init, IInv, Transactions, Types, Between

\* What the caller has is typed.
LEMMA HandleType ==
  ASSUME Types, Recorded, NEW h \in handles
  PROVE  h \in Entries
<1>1. PICK j \in 1..n : mem[j] = h
  BY DEF Recorded
<1>2. j \in 1..Len(mem)
  BY DEF Types
<1>3. QED
  BY <1>1, <1>2 DEF Types

\* k_tcreat makes its temporary file under a number and a descriptor that no
\* transaction has.
LEMMA MkstempHolds ==
  ASSUME IInv, NEW x \in Names, Mkstemp(x)
  PROVE  IInv'
<1>1. Transactions /\ pc = "run" /\ asked = 0
  BY DEF IInv, Mkstemp, Transactions, Phases, Between, Ending
<1>2. Lowest \in Fds /\ fds[Lowest] = Free
  BY LowestIsFree DEF Mkstemp
<1>3. fds \in [Fds -> Files] /\ ntemp \in Nat /\ Fds \subseteq Nat \ {0}
  BY <1>1 DEF Transactions, Types, Fds
<1>4. Temp(ntemp + 1) \in Files
  BY <1>3 DEF Temp, Files
<1>5. Types'
  BY <1>1, <1>2, <1>3, <1>4 DEF Mkstemp, Types, Transactions, pool
<1>6. Recorded'
  BY <1>1 DEF Mkstemp, Recorded, Transactions, pool
<1>7. OwnFiles'
  BY <1>1, <1>3 DEF Mkstemp, OwnFiles, Transactions, pool
<1>8. ASSUME NEW h \in handles
      PROVE  fds'[h.fd] = Temp(h.tmp) /\ h.tmp \in temps'
  <2>1. h \in Entries /\ h.fd \in Fds /\ h.fd # 0
    BY <1>1, <1>3, HandleType DEF Transactions, Entries
  <2>2. fds[h.fd] = Temp(h.tmp) /\ h.tmp \in temps
    BY <1>1, <2>1 DEF Transactions, Untouched
  <2>3. h.fd # Lowest
    BY <1>2, <2>2 DEF Temp, Free
  <2>4. QED
    BY <1>2, <1>3, <2>1, <2>2, <2>3 DEF Mkstemp
<1>9. Untouched'
  BY <1>8 DEF Mkstemp, Untouched
<1>10. Phases'
  <2>1. arg' \in Entries
    BY <1>2, <1>3 DEF Mkstemp, Entries
  <2>2. fds'[arg'.fd] = Temp(arg'.tmp) /\ arg'.tmp = ntemp + 1
    BY <1>2, <1>3 DEF Mkstemp
  <2>3. \A h \in handles : h.tmp # ntemp + 1
    BY <1>1, <1>3 DEF Transactions, OwnFiles
  <2>4. arg'.tmp \in temps' /\ arg'.tmp \in 1..ntemp'
    BY <1>3, <2>2 DEF Mkstemp
  <2>5. QED
    BY <1>1, <2>1, <2>2, <2>3, <2>4 DEF Mkstemp, Phases, Between, Finishing, Closing
<1>11. QED
  BY <1>5, <1>6, <1>7, <1>9, <1>10
     DEF IInv, Transactions, Types, Mkstemp, Between

\* k_tcreat ends with one element more, which the caller now holds.
LEMMA PoolAppendHolds ==
  ASSUME IInv, PoolAppend
  PROVE  IInv'
<1>1. Transactions /\ pc = "creat" /\ asked = 0
  BY DEF IInv, PoolAppend, Transactions, Phases, Between, Ending
<1>2. /\ mem \in Seq(Entries) /\ n \in Nat /\ n <= Len(mem)
      /\ Fds \subseteq Nat \ {0}
  BY <1>1 DEF Transactions, Types, Fds
<1>3. /\ arg \in Entries /\ arg.fd \in Fds /\ fds[arg.fd] = Temp(arg.tmp)
      /\ arg.tmp \in temps /\ arg.tmp \in 1..ntemp
      /\ \A h \in handles : h.tmp # arg.tmp
  BY <1>1 DEF Transactions, Phases, Entries
<1>4. /\ mem' \in Seq(Entries) /\ n' = n + 1 /\ n' <= Len(mem')
      /\ mem'[n + 1] = arg /\ \A j \in 1..n : mem'[j] = mem[j]
  <2>1. /\ Appended(mem, n, arg) \in Seq(Entries)
        /\ n + 1 <= Len(Appended(mem, n, arg))
        /\ Appended(mem, n, arg)[n + 1] = arg
        /\ \A j \in 1..n : Appended(mem, n, arg)[j] = mem[j]
    BY <1>2, <1>3, AppendedArray
  <2>2. mem' = Appended(mem, n, arg) /\ n' = n + 1
    BY DEF PoolAppend
  <2>3. QED
    BY <2>1, <2>2
<1>5. ASSUME NEW h \in handles
      PROVE  /\ h.fd # 0 /\ h.fd # arg.fd
             /\ fds[h.fd] = Temp(h.tmp) /\ h.tmp \in temps
  <2>1. h \in Entries /\ h.fd \in Fds /\ h.fd # 0
    BY <1>1, <1>2, HandleType DEF Transactions, Entries
  <2>2. fds[h.fd] = Temp(h.tmp) /\ h.tmp \in temps
    BY <1>1, <2>1 DEF Transactions, Untouched
  <2>3. Temp(h.tmp) # Temp(arg.tmp)
    BY <1>3 DEF Temp
  <2>4. QED
    BY <1>3, <2>1, <2>2, <2>3
<1>6. Types'
  BY <1>1, <1>2, <1>4 DEF PoolAppend, Types, Transactions
<1>7. Recorded'
  <2>1. \A j \in 1..n : mem[j] \in handles
    BY <1>1 DEF Transactions, Recorded
  <2>2. ASSUME NEW j \in 1..(n + 1)
        PROVE  (j \in 1..n /\ mem'[j] = mem[j]) \/ (j = n + 1 /\ mem'[j] = arg)
    BY <1>2, <1>4
  <2>3. \A j \in 1..n' : mem'[j] \in handles'
    BY <1>4, <2>1, <2>2 DEF PoolAppend
  <2>4. \A h \in handles' : \E j \in 1..n' : mem'[j] = h
    <3>1. n + 1 \in 1..n' /\ 1..n \subseteq 1..n'
      BY <1>2, <1>4
    <3>2. \A h \in handles : \E j \in 1..n : mem[j] = h
      BY <1>1 DEF Transactions, Recorded
    <3>3. QED
      BY <1>4, <3>1, <3>2 DEF PoolAppend
  <2>5. \A j, k \in 1..n' : j # k => mem'[j].fd # mem'[k].fd
    <3>1. \A j, k \in 1..n : j # k => mem[j].fd # mem[k].fd
      BY <1>1 DEF Transactions, Recorded
    <3>2. \A j \in 1..n : mem[j].fd # arg.fd
      BY <1>5, <2>1
    <3>3. QED
      BY <1>4, <2>2, <3>1, <3>2
  <2>6. QED
    BY <2>3, <2>4, <2>5 DEF Recorded
<1>8. OwnFiles'
  BY <1>1, <1>3 DEF PoolAppend, OwnFiles, Transactions
<1>9. Untouched'
  BY <1>3, <1>5 DEF PoolAppend, Untouched
<1>10. Phases'
  BY <1>1 DEF PoolAppend, Phases, Between, Finishing, Closing
<1>11. QED
  BY <1>6, <1>7, <1>8, <1>9, <1>10
     DEF IInv, Transactions, Types, PoolAppend, Between

\* k_tcreat takes its own file and descriptor back, and no other.
LEMMA PoolAppendFailHolds ==
  ASSUME IInv, PoolAppendFail
  PROVE  IInv'
<1>1. Transactions /\ pc = "creat" /\ asked = 0
  BY DEF IInv, PoolAppendFail, Transactions, Phases, Between, Ending
<1>2. /\ arg \in Entries /\ arg.fd \in Fds /\ fds[arg.fd] = Temp(arg.tmp)
      /\ \A h \in handles : h.tmp # arg.tmp
  BY <1>1 DEF Transactions, Phases, Entries
<1>3. fds \in [Fds -> Files] /\ Fds \subseteq Nat \ {0}
  BY <1>1 DEF Transactions, Types, Fds
<1>4. Types'
  BY <1>1, <1>3 DEF PoolAppendFail, Types, Transactions, Closed, Files, Free, pool
<1>5. Recorded' /\ OwnFiles'
  BY <1>1 DEF PoolAppendFail, Recorded, OwnFiles, Transactions, pool
<1>6. ASSUME NEW h \in handles
      PROVE  fds'[h.fd] = Temp(h.tmp) /\ h.tmp \in temps'
  <2>1. h \in Entries /\ h.fd \in Fds /\ h.fd # 0
    BY <1>1, <1>3, HandleType DEF Transactions, Entries
  <2>2. fds[h.fd] = Temp(h.tmp) /\ h.tmp \in temps
    BY <1>1, <2>1 DEF Transactions, Untouched
  <2>3. Temp(h.tmp) # Temp(arg.tmp)
    BY <1>2 DEF Temp
  <2>4. QED
    BY <1>2, <1>3, <2>1, <2>2, <2>3 DEF PoolAppendFail, Closed
<1>7. Untouched'
  BY <1>6 DEF PoolAppendFail, Untouched
<1>8. Phases'
  BY <1>1 DEF PoolAppendFail, Phases, Between, Finishing, Closing
<1>9. QED
  BY <1>4, <1>5, <1>7, <1>8
     DEF IInv, Transactions, Types, PoolAppendFail, Between

\* A call on a descriptor, in whatever way it ends it.
LEMMA BeginHolds ==
  ASSUME IInv, NEW d \in Fds, NEW found \in Finishing, NEW lost \in Closing,
         Begin(d, found, lost)
  PROVE  IInv'
<1>1. Transactions /\ pc = "run" /\ asked = 0
  BY DEF IInv, Begin, Transactions, Phases, Between, Ending
<1>2. /\ n \in Nat /\ Fds \subseteq Nat \ {0}
      /\ \A j, k \in 1..n : j # k => mem[j].fd # mem[k].fd
  BY <1>1 DEF Transactions, Types, Recorded, Fds
<1>3. /\ IndexOf(d) # 0 => IndexOf(d) \in 1..n /\ mem[IndexOf(d)].fd = d
      /\ IndexOf(d) = 0 => \A j \in 1..n : mem[j].fd # d
  BY <1>2, Found
<1>4. Types' /\ Recorded' /\ OwnFiles'
  BY <1>1, <1>2 DEF Begin, Types, Recorded, OwnFiles, Transactions, pool
<1>5. Untouched'
  <2>1. \A h \in handles : h.fd # 0
    BY <1>1, <1>2, HandleType DEF Transactions, Entries
  <2>2. QED
    BY <1>1, <2>1 DEF Begin, Untouched, Transactions
<1>6. CASE i' # 0
  <2>1. pc' \in Finishing /\ arg' = mem[i'] /\ i' = IndexOf(d) /\ asked' = d
    BY <1>6 DEF Begin
  <2>2. pc' \notin Between /\ pc' # "creat" /\ pc' \notin Closing /\ pc' \notin Ending
    BY <2>1 DEF Finishing, Between, Closing, Ending
  <2>3. mem' = mem /\ n' = n
    BY DEF Begin, pool
  <2>4. Phases'
    BY <1>3, <1>6, <2>1, <2>2, <2>3 DEF Phases
  <2>5. QED
    BY <1>4, <1>5, <2>1, <2>2, <2>4 DEF IInv, Transactions, Types
<1>7. CASE i' = 0
  <2>1. pc' \in Closing /\ arg' = [NoEntry EXCEPT !.fd = d] /\ IndexOf(d) = 0 /\ asked' = d
    BY <1>7 DEF Begin
  <2>2. pc' \notin Between /\ pc' # "creat" /\ pc' \notin Finishing /\ pc' \notin Ending
    BY <2>1 DEF Finishing, Between, Closing, Ending
  <2>3. \A h \in handles : h.fd # d
    BY <1>1, <1>3, <2>1 DEF Transactions, Recorded
  <2>4. arg'.fd = d /\ handles' = handles
    BY <2>1 DEF NoEntry, Begin
  <2>5. Phases'
    BY <2>1, <2>2, <2>3, <2>4 DEF Phases
  <2>6. QED
    BY <1>4, <1>5, <2>1, <2>2, <2>5 DEF IInv, Transactions, Types
<1>8. QED
  BY <1>6, <1>7

\* Within commit and rollback, what is done to the descriptor and the file of
\* the transaction at hand does nothing to the others.
LEMMA OthersKept ==
  ASSUME IInv, pc \in Finishing, pc' \in Finishing,
         dir' \in [Names -> Nat],
         fds' \in {fds, Closed(arg.fd)},
         temps' \in {temps, temps \ {arg.tmp}},
         UNCHANGED <<ntemp, mem, n, arg, i, asked, handles>>
  PROVE  IInv'
<1>1. Transactions /\ pc \notin Ending
  BY DEF IInv, Finishing, Ending
<1>2. i \in 1..n /\ arg = mem[i] /\ asked = arg.fd /\ arg \in handles
  BY <1>1 DEF Transactions, Phases, Recorded
<1>3. arg \in Entries /\ arg.fd \in Fds /\ Fds \subseteq Nat \ {0} /\ fds \in [Fds -> Files]
  <2>1. arg \in Entries
    BY <1>1, <1>2, HandleType DEF Transactions
  <2>2. QED
    BY <1>1, <2>1 DEF Transactions, Types, Entries, Fds
<1>4. Types'
  BY <1>1, <1>3 DEF Types, Transactions, Closed, Files, Free
<1>5. Recorded' /\ OwnFiles'
  BY <1>1 DEF Recorded, OwnFiles, Transactions
<1>6. ASSUME NEW h \in handles, h.fd # asked
      PROVE  fds'[h.fd] = Temp(h.tmp) /\ h.tmp \in temps'
  <2>1. fds[h.fd] = Temp(h.tmp) /\ h.tmp \in temps
    BY <1>1, <1>6 DEF Transactions, Untouched
  <2>2. h \in Entries /\ h.fd \in Fds
    BY <1>1, HandleType DEF Transactions, Entries
  <2>3. h.tmp # arg.tmp
    BY <1>1, <1>2, <1>6 DEF Transactions, OwnFiles
  <2>4. QED
    BY <1>2, <1>3, <1>6, <2>1, <2>2, <2>3 DEF Closed
<1>7. Untouched'
  BY <1>6 DEF Untouched
<1>8. Phases'
  BY <1>2 DEF Phases, Between, Finishing, Closing
<1>9. QED
  BY <1>4, <1>5, <1>7, <1>8 DEF IInv, Transactions

\* The steps of a commit and of a rollback before the cut of the pool.
LEMMA FinishHolds ==
  ASSUME IInv, Chmod \/ CommitClose \/ Rename \/ RollbackClose \/ Unlink
  PROVE  IInv'
<1>1. dir \in [Names -> Nat] /\ (pc \in Finishing => arg \in Entries)
  <2>1. dir \in [Names -> Nat]
    BY DEF IInv
  <2>2. ASSUME pc \in Finishing PROVE arg \in Entries
    <3>1. Transactions
      BY <2>2 DEF IInv, Finishing, Ending
    <3>2. arg \in handles
      BY <2>2, <3>1 DEF Transactions, Phases, Recorded
    <3>3. QED
      BY <3>1, <3>2, HandleType DEF Transactions
  <2>3. QED
    BY <2>1, <2>2
<1>2. CASE Chmod
  BY <1>2, <1>1, OthersKept DEF Chmod, Finishing, pool, call
<1>3. CASE CommitClose
  BY <1>3, <1>1, OthersKept DEF CommitClose, Finishing, pool, call
<1>4. CASE Rename
  <2>1. dir' \in [Names -> Nat]
    BY <1>1, <1>4 DEF Rename, Entries, Finishing
  <2>2. QED
    BY <1>4, <2>1, OthersKept DEF Rename, Finishing, pool, call
<1>5. CASE RollbackClose
  BY <1>5, <1>1, OthersKept DEF RollbackClose, Finishing, pool, call
<1>6. CASE Unlink
  BY <1>6, <1>1, OthersKept DEF Unlink, Finishing, pool, call
<1>7. QED
  BY <1>2, <1>3, <1>4, <1>5, <1>6

\* The cut removes the element of the call, and no other, from the pool.
LEMMA CutAndReturnHolds ==
  ASSUME IInv, CutAndReturn
  PROVE  IInv'
<1>1. Transactions /\ pc = "cut" /\ pc \in Finishing
  BY DEF IInv, CutAndReturn, Ending, Finishing
<1>2. /\ i \in 1..n /\ arg = mem[i] /\ asked = arg.fd
      /\ mem \in Seq(Entries) /\ n \in Nat /\ n <= Len(mem)
  BY <1>1 DEF Transactions, Phases, Types
<1>3. /\ mem' \in Seq(Entries) /\ Len(mem') = Len(mem) /\ n' = n - 1
      /\ \A j \in 1..(n - 1) : mem'[j] = IF j < i THEN mem[j] ELSE mem[j + 1]
  <2>1. mem' = Cut(mem, n, i) /\ n' = n - 1
    BY <1>2 DEF CutAndReturn, PoolCut
  <2>2. QED
    BY <1>2, <2>1, CutArray
<1>4. /\ \A j, k \in 1..n : j # k => mem[j].fd # mem[k].fd
      /\ \A j \in 1..n : mem[j] \in handles
      /\ \A h \in handles : \E j \in 1..n : mem[j] = h
  BY <1>1 DEF Transactions, Recorded
<1>5. handles' = {h \in handles : h.fd # mem[i].fd}
  BY <1>2 DEF CutAndReturn
\* Element j of the new array is element From(j) of the old one.
<1> DEFINE From(j) == IF j < i THEN j ELSE j + 1
<1>6. \A j \in 1..(n - 1) : From(j) \in 1..n /\ From(j) # i /\ mem'[j] = mem[From(j)]
  BY <1>2, <1>3
<1>7. \A j, k \in 1..(n - 1) : j # k => From(j) # From(k)
  BY <1>2
<1>8. \A k \in 1..n : k # i => \E j \in 1..(n - 1) : From(j) = k
  <2> SUFFICES ASSUME NEW k \in 1..n, k # i PROVE \E j \in 1..(n - 1) : From(j) = k
    OBVIOUS
  <2>1. CASE k < i
    BY <1>2, <2>1
  <2>2. CASE k > i
    <3>1. k - 1 \in 1..(n - 1) /\ From(k - 1) = k
      BY <1>2, <2>2
    <3>2. QED
      BY <3>1
  <2>3. QED
    BY <1>2, <2>1, <2>2
<1> HIDE DEF From
<1>9. Recorded'
  <2>1. \A j \in 1..n' : mem'[j] \in handles'
    BY <1>2, <1>3, <1>4, <1>5, <1>6
  <2>2. ASSUME NEW h \in handles' PROVE \E j \in 1..n' : mem'[j] = h
    <3>1. PICK k \in 1..n : mem[k] = h
      BY <1>4, <1>5
    <3>2. k # i
      BY <1>5, <3>1
    <3>3. PICK j \in 1..(n - 1) : From(j) = k
      BY <1>8, <3>2
    <3>4. QED
      BY <1>3, <1>6, <3>1, <3>3
  <2>3. \A j, k \in 1..n' : j # k => mem'[j].fd # mem'[k].fd
    BY <1>3, <1>4, <1>6, <1>7
  <2>4. QED
    BY <2>1, <2>2, <2>3 DEF Recorded
<1>10. Types'
  BY <1>1, <1>2, <1>3 DEF CutAndReturn, Return, Types, Transactions
<1>11. OwnFiles'
  BY <1>1, <1>5 DEF CutAndReturn, OwnFiles, Transactions
<1>12. Untouched'
  BY <1>1, <1>2, <1>5 DEF CutAndReturn, Untouched, Transactions
<1>13. Phases'
  BY DEF CutAndReturn, Return, Phases, Between, Finishing, Closing
<1>14. QED
  BY <1>9, <1>10, <1>11, <1>12, <1>13
     DEF IInv, Transactions, Types, CutAndReturn, Return, Between

\* A descriptor that is not in the pool is no transaction's, closed once or twice.
LEMMA SimplyCloseHolds ==
  ASSUME IInv, SimplyClose
  PROVE  IInv'
<1>1. Transactions /\ pc \in Closing
  BY DEF IInv, SimplyClose, Ending, Closing
<1>2. asked = arg.fd /\ asked \in Fds /\ \A h \in handles : h.fd # asked
  BY <1>1 DEF Transactions, Phases
<1>3. fds \in [Fds -> Files]
  BY <1>1 DEF Transactions, Types
<1>4. handles' = handles
  BY <1>2 DEF SimplyClose
<1>5. Types'
  BY <1>1, <1>2, <1>3 DEF SimplyClose, Types, Transactions, Closed, Files, Free, Return, call, pool
<1>6. Recorded' /\ OwnFiles'
  BY <1>1, <1>4 DEF SimplyClose, Recorded, OwnFiles, Transactions, pool
<1>7. ASSUME NEW h \in handles
      PROVE  fds'[h.fd] = Temp(h.tmp) /\ h.tmp \in temps'
  <2>1. fds[h.fd] = Temp(h.tmp) /\ h.tmp \in temps /\ h.fd # arg.fd
    BY <1>1, <1>2 DEF Transactions, Untouched
  <2>2. h.fd \in Fds
    BY <1>1, HandleType DEF Transactions, Entries
  <2>3. QED
    BY <1>2, <1>3, <2>1, <2>2 DEF SimplyClose, Closed
<1>8. Untouched'
  BY <1>4, <1>7 DEF Untouched
<1>9. Phases' /\ pc' \in Between \cup Closing
  BY <1>2, <1>4 DEF SimplyClose, Return, Phases, Between, Finishing, Closing, call
<1>10. QED
  BY <1>5, <1>6, <1>8, <1>9 DEF IInv, Transactions, Types

\* A descriptor goes from free to open elsewhere, or back: of no transaction.
LEMMA ElsewhereKept ==
  ASSUME IInv, pc \notin Ending,
         NEW d \in Fds, fds[d] \in {Free, Other}, NEW f \in {Free, Plain, Other},
         fds' = [fds EXCEPT ![d] = f],
         UNCHANGED <<dir, temps, ntemp, mem, n, pc, arg, i, asked, handles>>
  PROVE  IInv'
<1>1. Transactions
  BY DEF IInv
<1>2. fds \in [Fds -> Files] /\ f \in Files
  BY <1>1 DEF Transactions, Types, Files, Free, Plain, Other
<1>3. Types'
  BY <1>1, <1>2 DEF Types, Transactions
<1>4. Recorded' /\ OwnFiles'
  BY <1>1 DEF Recorded, OwnFiles, Transactions
<1>5. \A e \in Fds, t \in Nat : fds[e] = Temp(t) => fds'[e] = Temp(t)
  <2>1. \A t \in Nat : Temp(t) # fds[d]
    BY DEF Temp, Free, Other
  <2>2. QED
    BY <1>2, <2>1
<1>6. \A h \in handles : h.fd \in Fds /\ h.tmp \in Nat
  BY <1>1, HandleType DEF Transactions, Entries
<1>7. Untouched'
  BY <1>1, <1>5, <1>6 DEF Untouched, Transactions
<1>8. Phases'
  <2>1. arg \in Entries => arg.fd \in Fds /\ arg.tmp \in Nat
    BY DEF Entries
  <2>2. pc = "creat" => arg \in Entries /\ fds'[arg.fd] = Temp(arg.tmp)
    BY <1>1, <1>5, <2>1 DEF Phases, Transactions
  <2>3. QED
    BY <1>1, <2>2 DEF Phases, Transactions
<1>9. QED
  BY <1>3, <1>4, <1>7, <1>8 DEF IInv, Transactions

\* What the caller and other threads open without k_tcreat.
LEMMA ElsewhereHolds ==
  ASSUME IInv, OpenPlain \/ OtherThread
  PROVE  IInv'
<1>1. CASE OpenPlain
  <2>1. Lowest \in Fds /\ fds[Lowest] = Free
    BY <1>1, LowestIsFree DEF OpenPlain
  <2>2. pc \notin Ending
    BY <1>1 DEF OpenPlain, Ending
  <2>3. QED
    BY <1>1, <2>1, <2>2, ElsewhereKept DEF OpenPlain, pool, call
<1>2. CASE OtherThread /\ pc \in Ending
  BY <1>2 DEF OtherThread, IInv
<1>3. CASE OtherThread /\ pc \notin Ending
  <2>1. CASE HasFree /\ fds' = [fds EXCEPT ![Lowest] = Other]
    <3>1. Lowest \in Fds /\ fds[Lowest] = Free
      BY <2>1, LowestIsFree
    <3>2. QED
      BY <1>3, <2>1, <3>1, ElsewhereKept DEF OtherThread, pool, call
  <2>2. CASE \E d \in Fds : fds[d] = Other /\ fds' = Closed(d)
    <3>1. PICK d \in Fds : fds[d] = Other /\ fds' = Closed(d)
      BY <2>2
    <3>2. QED
      BY <1>3, <3>1, ElsewhereKept DEF OtherThread, Closed, pool, call
  <2>3. QED
    BY <1>3, <2>1, <2>2 DEF OtherThread
<1>4. QED
  BY <1>1, <1>2, <1>3

\* From the exit handler there is no way back, and it renames nothing.
LEMMA EndHolds ==
  ASSUME IInv, End
  PROVE  IInv'
<1>1. dir' = dir /\ pc' \in Ending
  BY DEF End, Exit, ExitLocked, Cleanup, Terminate, Ending
<1>2. QED
  BY <1>1 DEF IInv

\* Every step keeps the invariant.
LEMMA NextHolds ==
  ASSUME IInv, [Next]_vars
  PROVE  IInv'
<1>1. CASE UNCHANGED vars
  BY <1>1 DEF IInv, vars, Transactions, Types, Recorded, OwnFiles, Untouched, Phases
<1>2. ASSUME NEW d \in Fds, TCommit(d) \/ TRollback(d)
      PROVE  IInv'
  <2>1. "chmod" \in Finishing /\ "rollback" \in Finishing
        /\ "close" \in Closing /\ "closetwice" \in Closing
    BY DEF Finishing, Closing
  <2>2. CASE TCommit(d)
    BY <2>1, <2>2, BeginHolds DEF TCommit
  <2>3. CASE TRollback(d)
    BY <2>1, <2>3, BeginHolds DEF TRollback
  <2>4. QED
    BY <1>2, <2>2, <2>3
<1>3. CASE Creat
  BY <1>3, MkstempHolds, PoolAppendHolds, PoolAppendFailHolds DEF Creat
<1>4. CASE Finish
  BY <1>2, <1>4, FinishHolds, CutAndReturnHolds, SimplyCloseHolds DEF Finish
<1>5. CASE End \/ OpenPlain \/ OtherThread
  BY <1>5, EndHolds, ElsewhereHolds
<1>6. QED
  BY <1>1, <1>3, <1>4, <1>5 DEF Next

-----------------------------------------------------------------------------
(* What the process leaves behind *)

\* While a process works, a temporary file is that of a transaction the caller
\* holds or of the k_tcreat that runs, and no names have been freed.
LeftInv ==
  /\ ~ub
  /\ n <= MaxPool /\ (pc = "creat" => n < MaxPool /\ ~arg.freed)
  /\ \A h \in handles : ~h.freed
  /\ \A t \in temps : (\E h \in handles : h.tmp = t) \/ (pc = "creat" /\ arg.tmp = t)
  /\ pc = "cut" => arg.tmp \notin temps

\* What the exit handler has still to do.  It cuts the array it walks, but the
\* second element of two is where it was.
CleanInv ==
  pc = "cleanup" /\ arg = NoEntry =>
    /\ ~ub
    /\ nfiles \in 0..2 /\ i \in 1..(nfiles + 1)
    /\ i = 1 => /\ n = nfiles /\ mem \in Seq(Entries) /\ n <= Len(mem)
                /\ \A j, k \in 1..nfiles : mem[j].tmp = mem[k].tmp => j = k
    /\ \A j \in i..nfiles : ~mem[j].freed
    /\ \A t \in temps : \E j \in i..nfiles : mem[j].tmp = t

LeakInv == (pc \notin Ending => LeftInv) /\ CleanInv /\ NoLeak

\* The calls of the library have an entry at hand while they run.
LEMMA AtHand ==
  ASSUME IInv, pc \notin Ending, arg = NoEntry
  PROVE  pc = "run"
<1>1. Transactions /\ pc \in Between \cup Finishing \cup Closing
  BY DEF IInv
<1>2. Fds \subseteq Nat \ {0} /\ arg.fd = 0
  BY DEF Fds, NoEntry
<1>3. pc # "creat"
  BY <1>1, <1>2 DEF Transactions, Phases, Entries
<1>4. pc \notin Finishing
  <2>1. \A j \in 1..n : mem[j].fd # 0
    BY <1>1, <1>2, HandleType DEF Transactions, Recorded, Entries
  <2>2. QED
    BY <1>1, <1>2, <2>1 DEF Transactions, Phases
<1>5. pc \notin Closing
  BY <1>1, <1>2 DEF Transactions, Phases
<1>6. QED
  BY <1>1, <1>3, <1>4, <1>5 DEF Between

\* k_tcreat.
LEMMA CreatLeaves ==
  ASSUME IInv, LeakInv, Creat
  PROVE  LeakInv'
<1>1. Transactions /\ LeftInv /\ pc \in {"run", "creat"} /\ n \in Nat /\ MaxPool \in Nat
  BY TfileAssumption
     DEF IInv, LeakInv, Creat, Mkstemp, PoolAppend, PoolAppendFail, Ending, Transactions, Types
<1>2. pc' \in {"run", "creat"} /\ pc' \notin Ending
  BY DEF Creat, Mkstemp, PoolAppend, PoolAppendFail, Ending
<1>3. LeftInv'
  <2>1. CASE \E x \in Names : Mkstemp(x)
    BY <1>1, <2>1 DEF Mkstemp, LeftInv, pool
  <2>2. CASE PoolAppend
    BY <1>1, <2>2 DEF PoolAppend, LeftInv
  <2>3. CASE PoolAppendFail
    BY <1>1, <2>3 DEF PoolAppendFail, LeftInv, pool
  <2>4. QED
    BY <2>1, <2>2, <2>3 DEF Creat
<1>4. QED
  BY <1>2, <1>3 DEF LeakInv, CleanInv, NoLeak

\* A transaction is looked up and ended.
LEMMA FinishLeaves ==
  ASSUME IInv, LeakInv, Finish
  PROVE  LeakInv'
<1>1. /\ Transactions /\ LeftInv
      /\ pc \in {"run", "chmod", "commit", "rename", "rollback", "unlink", "cut", "close", "closetwice"}
  BY DEF IInv, LeakInv, Finish, TCommit, TRollback, Begin, Chmod, CommitClose, Rename, RollbackClose,
         Unlink, CutAndReturn, SimplyClose, Ending
<1>2. pc' \notin Ending /\ pc' # "creat" /\ UNCHANGED ub
  BY DEF Finish, TCommit, TRollback, Begin, Chmod, CommitClose, Rename, RollbackClose,
         Unlink, CutAndReturn, SimplyClose, Ending, Return
<1>3. LeftInv'
  <2>1. CASE \E d \in Fds : TCommit(d) \/ TRollback(d)
    <3>1. UNCHANGED <<temps, n, handles>> /\ pc = "run" /\ pc' # "cut"
      BY <2>1 DEF TCommit, TRollback, Begin, pool
    <3>2. QED
      BY <1>1, <1>2, <3>1 DEF LeftInv
  <2>2. CASE Chmod \/ CommitClose \/ RollbackClose
    <3>1. UNCHANGED <<temps, n, handles>> /\ pc # "creat" /\ pc' # "cut"
      BY <2>2 DEF Chmod, CommitClose, RollbackClose, pool
    <3>2. QED
      BY <1>1, <1>2, <3>1 DEF LeftInv
  <2>3. CASE Rename \/ Unlink
    <3>1. /\ UNCHANGED <<n, handles, arg>> /\ pc # "creat"
          /\ temps' = temps \ {arg.tmp} \/ (temps' = temps /\ pc' # "cut")
      BY <2>3 DEF Rename, Unlink, pool, call
    <3>2. QED
      BY <1>1, <1>2, <3>1 DEF LeftInv
  <2>4. CASE CutAndReturn
    <3>1. /\ UNCHANGED temps /\ pc = "cut" /\ pc' = "run"
          /\ handles' = {h \in handles : h.fd # asked}
      BY <2>4 DEF CutAndReturn, Return
    <3>2. i \in 1..n /\ arg = mem[i] /\ asked = arg.fd /\ n \in Nat
      BY <1>1, <3>1 DEF Transactions, Phases, Finishing, Types
    <3>3. n' = n - 1
      BY <2>4, <3>2 DEF CutAndReturn, PoolCut
    <3>4. ASSUME NEW h \in handles, h.fd = asked PROVE h = arg
      BY <1>1, <3>2, <3>4 DEF Transactions, Recorded
    <3>5. \A t \in temps : \E h \in handles' : h.tmp = t
      BY <1>1, <3>1, <3>4 DEF LeftInv
    <3>6. n' <= MaxPool
      BY <1>1, <3>2, <3>3, TfileAssumption DEF LeftInv
    <3>7. QED
      BY <1>1, <1>2, <3>1, <3>5, <3>6 DEF LeftInv
  <2>5. CASE SimplyClose
    <3>1. UNCHANGED <<temps, n>> /\ pc \in Closing /\ pc' # "cut"
          /\ handles' \in {handles, {h \in handles : h.fd # asked}}
      BY <2>5 DEF SimplyClose, pool, Closing, Return
    <3>2. \A h \in handles : h.fd # asked
      BY <1>1, <3>1 DEF Transactions, Phases
    <3>3. handles' = handles /\ pc # "creat"
      BY <3>1, <3>2 DEF Closing
    <3>4. QED
      BY <1>1, <1>2, <3>1, <3>3 DEF LeftInv
  <2>6. QED
    BY <2>1, <2>2, <2>3, <2>4, <2>5 DEF Finish
<1>4. QED
  BY <1>2, <1>3 DEF LeakInv, CleanInv, NoLeak, Ending

\* exit between two calls has all that is left before it.
LEMMA ExitLeaves ==
  ASSUME MaxPool <= 2, IInv, LeakInv, Exit
  PROVE  LeakInv'
<1>1. pc \notin Ending /\ LeftInv /\ Transactions /\ pc' = "cleanup" /\ pc' \in Ending
  BY DEF Exit, Ending, LeakInv, IInv
<1>2. ASSUME arg = NoEntry PROVE CleanInv'
  <2>1. pc = "run"
    BY <1>1, <1>2, AtHand
  <2>2. /\ UNCHANGED <<temps, mem, n, arg, ub, handles>> /\ i' = 1 /\ nfiles' = n
    BY DEF Exit, pool
  <2>3. n \in 0..2 /\ n <= Len(mem) /\ mem \in Seq(Entries)
    BY <1>1, TfileAssumption DEF LeftInv, Transactions, Types
  <2>4. ASSUME NEW j \in 1..n, NEW k \in 1..n, mem[j].tmp = mem[k].tmp PROVE j = k
    <3>1. mem[j] = mem[k]
      BY <1>1, <2>4 DEF Transactions, Recorded, OwnFiles
    <3>2. QED
      BY <1>1, <3>1 DEF Transactions, Recorded
  <2>5. \A j \in 1..n : ~mem[j].freed
    BY <1>1 DEF LeftInv, Transactions, Recorded
  <2>6. \A t \in temps : \E j \in 1..n : mem[j].tmp = t
    <3>1. ASSUME NEW t \in temps PROVE \E j \in 1..n : mem[j].tmp = t
      <4>1. PICK h \in handles : h.tmp = t
        BY <1>1, <2>1 DEF LeftInv
      <4>2. PICK j \in 1..n : mem[j] = h
        BY <1>1 DEF Transactions, Recorded
      <4>3. QED
        BY <4>1, <4>2
    <3>2. QED
      BY <3>1
  <2>7. ~ub /\ 1 \in 1..(n + 1)
    BY <1>1, <2>3 DEF LeftInv
  <2>8. QED
    BY <2>2, <2>3, <2>4, <2>5, <2>6, <2>7 DEF CleanInv
<1>3. arg' = arg
  BY DEF Exit
<1>4. QED
  BY <1>1, <1>2, <1>3 DEF LeakInv, CleanInv, NoLeak

\* One round of the exit handler: what it has moved it does not look at again.
LEMMA CleanupLeaves ==
  ASSUME LeakInv, Cleanup
  PROVE  LeakInv'
<1>1. pc = "cleanup" /\ pc' = "cleanup" /\ arg' = arg /\ pc \in Ending
  BY DEF Cleanup, Ending
<1>2. ASSUME arg = NoEntry PROVE CleanInv'
  <2> DEFINE e == mem[i]  m == IF i <= n THEN Cut(mem, n, i) ELSE mem
  <2>1. /\ ~ub /\ nfiles \in 0..2 /\ i \in 1..nfiles
        /\ i = 1 => /\ n = nfiles /\ mem \in Seq(Entries) /\ n <= Len(mem)
                    /\ \A j, k \in 1..nfiles : mem[j].tmp = mem[k].tmp => j = k
        /\ \A j \in i..nfiles : ~mem[j].freed
        /\ \A t \in temps : \E j \in i..nfiles : mem[j].tmp = t
    BY <1>1, <1>2 DEF LeakInv, CleanInv, Cleanup
  <2>2. ~e.freed
    BY <2>1
  <2>3. /\ ~ub' /\ temps' = temps \ {e.tmp} /\ nfiles' = nfiles /\ i' = i + 1
        /\ mem' = FreeNames(m, e)
    BY <2>1, <2>2 DEF Cleanup
  <2>4. CASE i = nfiles
    <3>1. temps' = {}
      <4>1. ASSUME NEW t \in temps PROVE t = e.tmp
        <5>1. PICK j \in i..nfiles : mem[j].tmp = t
          BY <2>1
        <5>2. j = i
          BY <2>1, <2>4
        <5>3. QED
          BY <5>1, <5>2
      <4>2. QED
        BY <2>3, <4>1
    <3>2. i'..nfiles' = {} /\ i' \in 1..(nfiles' + 1) /\ i' # 1
      BY <2>1, <2>3, <2>4
    <3>3. QED
      BY <2>1, <2>3, <3>1, <3>2 DEF CleanInv
  <2>5. CASE i # nfiles
    <3>1. i = 1 /\ nfiles = 2 /\ n = 2
      BY <2>1, <2>5
    <3>2. i' = 2 /\ i'..nfiles' = {2}
      BY <2>3, <3>1
    <3>3. mem \in Seq(Entries) /\ 2 <= Len(mem) /\ mem[2].tmp # e.tmp
      BY <2>1, <3>1
    <3>4. m = Cut(mem, 2, 1) /\ Len(m) = Len(mem) /\ m[2] = mem[2]
      <4>1. m = Cut(mem, 2, 1)
        BY <3>1
      <4>2. Len(Cut(mem, 2, 1)) = Len(mem)
        BY <3>3, CutArray
      <4>3. Cut(mem, 2, 1)[2] = mem[2]
        BY <3>3 DEF Cut
      <4>4. QED
        BY <4>1, <4>2, <4>3
    <3>5. mem'[2] = mem[2]
      <4> HIDE DEF m, e
      <4>1. 2 \in 1..Len(m)
        BY <3>3, <3>4
      <4>2. FreeNames(m, e)[2] = m[2]
        BY <3>3, <3>4, <4>1 DEF FreeNames
      <4>3. QED
        BY <2>3, <3>4, <4>2
    <3>6. ASSUME NEW t \in temps, t # e.tmp PROVE mem[2].tmp = t
      <4>1. PICK j \in i..nfiles : mem[j].tmp = t
        BY <2>1
      <4>2. j = 1 \/ j = 2
        BY <3>1
      <4>3. QED
        BY <3>1, <3>6, <4>1, <4>2
    <3>7. ~mem[2].freed
      BY <2>1, <3>1
    <3>8. \A t \in temps' : \E j \in i'..nfiles' : mem'[j].tmp = t
      BY <2>3, <3>2, <3>5, <3>6
    <3>9. \A j \in i'..nfiles' : ~mem'[j].freed
      BY <3>2, <3>5, <3>7
    <3>10. ~ub' /\ nfiles' \in 0..2 /\ i' \in 1..(nfiles' + 1) /\ i' # 1
      BY <2>3, <3>1
    <3>11. QED
      BY <3>8, <3>9, <3>10 DEF CleanInv
  <2>6. QED
    BY <2>4, <2>5
<1>3. QED
  BY <1>1, <1>2 DEF LeakInv, CleanInv, NoLeak

\* The caller, other threads, the end.
LEMMA OthersLeave ==
  ASSUME LeakInv, ExitLocked \/ Terminate \/ OpenPlain \/ OtherThread \/ UNCHANGED vars
  PROVE  LeakInv'
<1>1. CASE ExitLocked
  BY <1>1 DEF ExitLocked, LeakInv, CleanInv, NoLeak, Ending
<1>2. CASE Terminate
  <2>1. pc = "cleanup" /\ pc' = "dead" /\ pc' \in Ending /\ i > nfiles /\ UNCHANGED <<arg, temps, ub>>
    BY <1>2 DEF Terminate, call, Ending
  <2>2. arg = NoEntry => ~ub /\ i..nfiles = {} /\ \A t \in temps : \E j \in i..nfiles : mem[j].tmp = t
    <3>1. arg = NoEntry => nfiles \in 0..2 /\ i \in 1..(nfiles + 1)
      BY <2>1 DEF LeakInv, CleanInv
    <3>2. arg = NoEntry => i..nfiles = {}
      BY <2>1, <3>1
    <3>3. QED
      BY <2>1, <3>2 DEF LeakInv, CleanInv
  <2>3. QED
    BY <2>1, <2>2 DEF LeakInv, CleanInv, NoLeak
<1>3. CASE OpenPlain \/ OtherThread \/ UNCHANGED vars
  <2>1. UNCHANGED <<temps, mem, n, pc, arg, i, nfiles, handles, ub>>
    BY <1>3 DEF OpenPlain, OtherThread, vars, pool, call
  <2>2. QED
    BY <2>1 DEF LeakInv, LeftInv, CleanInv, NoLeak
<1>4. QED
  BY <1>1, <1>2, <1>3

-----------------------------------------------------------------------------
(* Theorems *)

\* The invariant of the transactions: what the pool holds, which descriptor and
\* file each of them has, and what a running call (k_tcreat, k_tcommit_and_close,
\* k_trollback_and_close) has done of its own.
THEOREM Invariant == Spec => []IInv
  BY InitHolds, NextHolds, PTL DEF Spec

\* Between two calls the pool is what the caller holds, one entry for each
\* descriptor, which is open on the temporary file of its entry.
THEOREM PoolIsWhatIsHeld == Spec => []PoolMatches
<1>1. ASSUME IInv PROVE PoolMatches
  <2>1. SUFFICES ASSUME pc = "run"
                 PROVE  /\ {mem[j] : j \in 1..n} = handles
                        /\ \A j, k \in 1..n : j # k => mem[j].fd # mem[k].fd
                        /\ \A h \in handles : fds[h.fd] = Temp(h.tmp) /\ h.tmp \in temps
    BY DEF PoolMatches
  <2>2. Transactions /\ asked = 0
    BY <1>1, <2>1 DEF IInv, Transactions, Phases, Between, Ending
  <2>3. {mem[j] : j \in 1..n} = handles
    BY <2>2 DEF Transactions, Recorded
  <2>4. \A j, k \in 1..n : j # k => mem[j].fd # mem[k].fd
    BY <2>2 DEF Transactions, Recorded
  <2>5. \A h \in handles : h.fd # 0
    BY <2>2, HandleType DEF Transactions, Entries, Fds
  <2>6. \A h \in handles : fds[h.fd] = Temp(h.tmp) /\ h.tmp \in temps
    BY <2>2, <2>5 DEF Transactions, Untouched
  <2>7. QED
    BY <2>3, <2>4, <2>6
<1>2. QED
  BY <1>1, Invariant, PTL

\* A name changes only by the commit of the transaction made for it, to the file
\* that was written: whatever else is open, whatever fails, whenever the process
\* exits.
THEOREM CommitsAreExact == Spec => CommitExact
<1> DEFINE Exact == \A x \in Names : dir'[x] # dir[x] =>
                      \E h \in handles : h.fd = asked /\ h.name = x /\ h.tmp = dir'[x]
<1>1. ASSUME IInv, [Next]_vars PROVE [Exact]_vars
  <2>1. CASE Rename
    <3>1. Transactions /\ pc \in Finishing
      BY <1>1, <2>1 DEF IInv, Rename, Finishing, Ending
    <3>2. arg \in handles /\ arg.fd = asked
      BY <3>1 DEF Transactions, Phases, Recorded
    <3>3. dir' = [dir EXCEPT ![arg.name] = arg.tmp] \/ dir' = dir
      BY <2>1 DEF Rename
    <3>4. dir \in [Names -> Nat]
      BY <1>1 DEF IInv
    <3>5. ASSUME NEW x \in Names, dir'[x] # dir[x]
          PROVE  arg.name = x /\ arg.tmp = dir'[x]
      BY <3>3, <3>4, <3>5
    <3>6. QED
      BY <3>2, <3>5
  <2>2. CASE UNCHANGED dir
    BY <2>2
  <2>3. Rename \/ UNCHANGED dir
    BY <1>1 DEF Next, vars, Creat, Mkstemp, PoolAppend, PoolAppendFail, Finish, TCommit,
         TRollback, Begin, Chmod, CommitClose, RollbackClose, Unlink, CutAndReturn,
         SimplyClose, End, Exit, ExitLocked, Cleanup, Terminate, OpenPlain, OtherThread
  <2>4. QED
    BY <2>1, <2>2, <2>3
<1>2. QED
  BY <1>1, Invariant, PTL DEF Spec, CommitExact

\* With at most two transactions open at once, as in every command of ktool (a
\* container that is created and its backup), exit between two calls removes the
\* temporary files of all of them, and uses no names that it has freed.  With
\* three the handler would skip one.
THEOREM ExitLeavesNothing == ASSUME MaxPool <= 2 PROVE Spec => []NoLeak
<1>1. Init => LeakInv
  <2>1. Init => n = 0 /\ ~ub /\ handles = {} /\ temps = {} /\ pc = "run"
    BY DEF Init
  <2>2. QED
    BY <2>1, TfileAssumption DEF LeakInv, LeftInv, CleanInv, NoLeak
<1>2. IInv /\ LeakInv /\ [Next]_vars => LeakInv'
  BY CreatLeaves, FinishLeaves, ExitLeaves, CleanupLeaves, OthersLeave DEF Next, End
<1>3. LeakInv => NoLeak
  BY DEF LeakInv
<1>4. QED
  BY <1>1, <1>2, <1>3, Invariant, PTL DEF Spec

=============================================================================
