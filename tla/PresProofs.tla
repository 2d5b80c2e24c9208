------------------------------ MODULE PresProofs ------------------------------
(***************************************************************************)
(* Proofs about Pres, for every set of names and sizes, every table and    *)
(* buffer size and every set of faults.                                    *)
(*                                                                         *)
(* The first part proves that the backup is current.  For the undo of a    *)
(* failed commit to be exact the counters must satisfy the arithmetic of   *)
(* the layout; a handle gets its counters from a file, so the files that   *)
(* can be opened must satisfy it too; these were written by a close, in    *)
(* three steps, over a file that might have held anything.                 *)
(*                                                                         *)
(* The second part proves what Pres promises its user: whatever a session  *)
(* does and wherever it stops, what was committed before can be repaired   *)
(* from the backup; a close that succeeds leaves what was acknowledged;    *)
(* and Pres implements ResourceStore.  The heart of it is where the data   *)
(* are.  Those of the committed entries lie in the data pool, in front of  *)
(* the table; everything a session writes goes to the two headers or       *)
(* behind the pool.  So no write harms them, and it does not matter which  *)
(* writes had been done when a process ended.                              *)
(***************************************************************************)
EXTENDS Pres, SequenceTheorems, TLAPS

-----------------------------------------------------------------------------
(* Cells, images and sequences *)

\* The facts about the constants that the proofs use.
LEMMA ConstantFacts ==
  /\ Iobuf \in Nat \ {0} /\ MaxFile \in Nat
  /\ 0 \in Offsets /\ 1 \in Offsets
  BY PresAssumption DEF Offsets, PoolStart, TblSize

\* What the kind of a cell says of its fields.
LEMMA CellFacts ==
  ASSUME NEW c \in Cells
  PROVE  /\ c.kind = "hdr"  => c.filesize \in Nat
         /\ c.kind = "dhdr" => c.rstart \in Nat /\ c.psize \in Nat
         /\ c.kind = "tbl"  => c.entries \in Nat
         /\ c.kind = "ent"  => c.entry \in Entries
         /\ c.kind = "data" => c.unit \in Units
  BY DEF Cells

\* A hole in a file reads as zeros.
LEMMA ZeroIsCell == Zero \in Cells /\ Zero.kind = "zero"
  BY DEF Zero, Cells

\* What a container is written from are cells.
LEMMA CellsMade ==
  /\ \A c \in Counters : HdrCell(c) \in Cells /\ DhdrCell(c) \in Cells /\ TblCell(c) \in Cells
  /\ \A e \in Entries : EntCell(e) \in Cells
  /\ \A u \in Units : DataCell(u) \in Cells
  BY DEF Cells, Counters, HdrCell, DhdrCell, TblCell, EntCell, DataCell

\* An entry overwritten by memset(0) is an entry.
LEMMA DeletedIsEntry == Deleted \in Entries /\ Deleted.id = 0
  BY DEF Deleted, Entries

\* Reading at any offset yields a cell, an entry or a unit.
LEMMA ReadingCells ==
  ASSUME NEW f \in Images, NEW o
  PROVE  Cell(f, o) \in Cells /\ EntryAt(f, o) \in Entries /\ UnitAt(f, o) \in Units
<1>1. Cell(f, o) \in Cells
  BY ZeroIsCell DEF Cell, Images
<1> QED
  BY <1>1, CellFacts, DeletedIsEntry DEF EntryAt, UnitAt, NoUnit, Units

\* A write leaves a file of cells.
LEMMA WriteImage ==
  ASSUME NEW f \in Images, NEW off \in Nat, NEW s \in Seq(Cells)
  PROVE  Write(f, off, s) \in Images
<1>1. CASE s = <<>>
  BY <1>1 DEF Write
<1>2. CASE s # <<>>
  <2> DEFINE g == Write(f, off, s)
  <2>1. g.size \in Nat
    BY <1>2 DEF Write, Images
  <2>2. ASSUME NEW o \in Offsets
        PROVE  (IF off <= o /\ o < off + Len(s) THEN s[o - off + 1] ELSE f.at[o]) \in Cells
    <3>1. f.at[o] \in Cells /\ o \in Nat
      BY ConstantFacts DEF Images, Offsets
    <3>2. off <= o /\ o < off + Len(s) => o - off + 1 \in 1..Len(s)
      BY <3>1
    <3> QED
      BY <3>1, <3>2
  <2> QED
    BY <1>2, <2>1, <2>2 DEF Write, Images
<1> QED
  BY <1>1, <1>2

\* ftruncate leaves a file of cells.
LEMMA TruncateImage ==
  ASSUME NEW f \in Images, NEW n \in Nat
  PROVE  Truncate(f, n) \in Images
  BY ZeroIsCell DEF Truncate, Images

\* A new file is a file of cells.
LEMMA EmptyImage == Empty \in Images
  BY ZeroIsCell DEF Empty, Images

\* A buffer of units is written as as many cells.
LEMMA DataCellsSeq ==
  ASSUME NEW us \in Seq(Units)
  PROVE  DataCells(us) \in Seq(Cells) /\ Len(DataCells(us)) = Len(us)
  BY CellsMade DEF DataCells

\* A table is written as its head and one cell per entry.
LEMMA TableCellsSeq ==
  ASSUME NEW c \in Counters, NEW t \in Seq(Entries), Len(t) = c.entries
  PROVE  /\ TableCells(c, t) \in Seq(Cells)
         /\ Len(TableCells(c, t)) = 1 + c.entries
<1>1. ASSUME NEW j \in 1..(1 + c.entries)
      PROVE  (IF j = 1 THEN TblCell(c) ELSE EntCell(t[j - 1])) \in Cells
  BY CellsMade DEF Counters
<1>2. c.entries \in Nat
  BY DEF Counters
<1> QED
  BY <1>1, <1>2 DEF TableCells

\* The blocks of an append lie within what was handed over.
LEMMA BlockBounds ==
  ASSUME NEW n \in Nat, NEW j \in Nat
  PROVE  /\ n \div Iobuf \in Nat /\ (n \div Iobuf) * Iobuf <= n
         /\ n < (n \div Iobuf) * Iobuf + Iobuf /\ (n \div Iobuf) * Iobuf \in Nat
         /\ j < n \div Iobuf => (j + 1) * Iobuf <= n /\ j * Iobuf \in Nat
<1>1. /\ n \div Iobuf \in Nat /\ (n \div Iobuf) * Iobuf <= n
      /\ n < (n \div Iobuf) * Iobuf + Iobuf /\ (n \div Iobuf) * Iobuf \in Nat
  BY ConstantFacts
<1>2. ASSUME NEW d \in Nat, j < d, d * Iobuf <= n
      PROVE  (j + 1) * Iobuf <= n /\ j * Iobuf \in Nat
  BY <1>2, ConstantFacts
<1> QED
  BY <1>1, <1>2

\* The part of a sequence from a to b.
LEMMA SubSeqTyped ==
  ASSUME NEW S, NEW s \in Seq(S), NEW a \in Nat \ {0}, NEW b \in Nat,
         b <= Len(s), a <= b + 1
  PROVE  /\ SubSeq(s, a, b) \in Seq(S)
         /\ Len(SubSeq(s, a, b)) = b - a + 1
  OBVIOUS

\* A round of the append loop hashes a whole block and writes what `total' leaves.
LEMMA BlockTyped ==
  ASSUME TypeOK, app.i < Blocks
  PROVE  /\ Block \in Seq(Units) /\ Len(Block) = Iobuf
         /\ BlockTail \in Seq(Units) /\ Len(BlockTail) = Iobuf - app.total
<1>1. app.src \in Seq(Units) /\ app.i \in Nat /\ app.total \in {0, Iobuf}
  BY DEF TypeOK
<1>2. Len(app.src) \in Nat
  BY <1>1
<1>3. (app.i + 1) * Iobuf <= Len(app.src) /\ app.i * Iobuf \in Nat
  BY <1>1, <1>2, BlockBounds DEF Blocks
<1>4. (app.i + 1) * Iobuf = app.i * Iobuf + Iobuf
  BY <1>1, ConstantFacts
<1>5. Block \in Seq(Units) /\ Len(Block) = Iobuf
  <2> DEFINE lo == app.i * Iobuf
  <2>1. lo \in Nat /\ lo + Iobuf <= Len(app.src) /\ Iobuf \in Nat \ {0}
    BY <1>3, <1>4, ConstantFacts
  <2>2. Block = SubSeq(app.src, lo + 1, lo + Iobuf)
    BY <1>4 DEF Block
  <2> HIDE DEF lo
  <2> QED
    BY <1>1, <2>1, <2>2, SubSeqTyped
<1> QED
  BY <1>1, <1>5, ConstantFacts, SubSeqTyped DEF BlockTail

\* The last write of an append is what the blocks have left.
LEMMA RestTyped ==
  ASSUME TypeOK
  PROVE  /\ Rest \in Seq(Units)
         /\ Len(Rest) = Len(app.src) - Blocks * Iobuf
         /\ Blocks * Iobuf \in Nat /\ Blocks * Iobuf <= Len(app.src)
<1>1. app.src \in Seq(Units) /\ Len(app.src) \in Nat
  BY DEF TypeOK
<1>2. Blocks \in Nat /\ Blocks * Iobuf <= Len(app.src) /\ Blocks * Iobuf \in Nat
  BY <1>1, BlockBounds, ConstantFacts DEF Blocks
<1> QED
  BY <1>1, <1>2, SubSeqTyped DEF Rest

-----------------------------------------------------------------------------
(* The inductive invariant *)

\* The layout: the table behind the data pool, nothing behind the table.
Arith(c) ==
  /\ c.rstart = PoolStart + c.psize
  /\ c.filesize = c.rstart + TblSize + c.entries * EntSize

\* A handle's counters.
HandleOK ==
  InSession => /\ Arith(cur) /\ Len(table) = cur.entries
               /\ mode \in {"inplace", "created"}

\* What close has written so far.
Image == IF pc = "unlink" THEN file ELSE Backing

Progress ==
  /\ pc \in {"hdr", "dhdr", "rtbl", "unlink"} => Image.at[0] = HdrCell(hdr)
  /\ pc \in {"dhdr", "rtbl", "unlink"} => Image.at[1] = DhdrCell(hdr)
  /\ pc \in {"rtbl", "unlink"} =>
       (hdr.rstart \in Offsets => Image.at[hdr.rstart] = TblCell(hdr))

\* A container that the next k_pres_open may read.
Openable ==
  /\ pc \in {"probed", "opening"} => meta.own \in {"none", "empty"}
  /\ meta.own \in {"none", "empty"} /\ Valid(file) => Arith(CountersOf(file))

\* The entry that a commit makes has a name from outside.
Named == pc \in {"resource", "append"} => res.name \in Names

IInv == TypeOK /\ BackupCurrent /\ HandleOK /\ Named /\ Progress /\ Openable

-----------------------------------------------------------------------------
(* What the steps are made of *)

\* A file that opens has counters and a table.
LEMMA ReadTyped ==
  ASSUME NEW f \in Images, Valid(f)
  PROVE  /\ CountersOf(f) \in Counters
         /\ TableOf(f) \in Seq(Entries)
         /\ Len(TableOf(f)) = CountersOf(f).entries
<1>1. f.at[0] \in Cells /\ f.at[1] \in Cells
  BY ConstantFacts DEF Images
<1>2. f.at[0].filesize \in Nat /\ f.at[1].rstart \in Nat /\ f.at[1].psize \in Nat
  BY <1>1, CellFacts DEF Valid, HeaderOK, DetachedHeaderOK
<1>3. Cell(f, f.at[1].rstart).entries \in Nat
  BY ReadingCells, CellFacts DEF Valid, TableOK
<1>4. CountersOf(f) \in Counters
  BY <1>2, <1>3 DEF CountersOf, Counters
<1>5. \A i \in 1..CountersOf(f).entries : EntryAt(f, f.at[1].rstart + i) \in Entries
  BY ReadingCells
<1>6. CountersOf(f).entries \in Nat
  BY <1>4 DEF Counters
<1> HIDE DEF CountersOf
<1> QED
  BY <1>4, <1>5, <1>6 DEF TableOf

\* The layout holds for a fresh container; a commit keeps it, and its undo
\* restores what the commit changed.
LEMMA FreshCounters == Fresh \in Counters /\ Arith(Fresh) /\ Fresh.entries = 0
  BY DEF Fresh, Counters, Arith, PoolStart, TblSize, EntSize

\* A commit keeps the layout, and the undo of a commit restores the counters.
LEMMA AdvanceFacts ==
  ASSUME NEW c \in Counters, NEW size \in Nat
  PROVE  /\ Advance(c, size) \in Counters
         /\ Arith(Advance(c, size))
         /\ Advance(c, size).entries = c.entries + 1
         /\ Arith(c) => Retreat(Advance(c, size), size) = c
  BY DEF Counters, Advance, Retreat, Arith, PoolStart, TblSize, EntSize

\* What a write changes of an image.
LEMMA WriteCells ==
  ASSUME NEW f \in Images, NEW off \in Nat, NEW s \in Seq(Cells), NEW o \in Offsets
  PROVE  /\ o = off /\ s # <<>> => Write(f, off, s).at[o] = s[1]
         /\ o < off => Write(f, off, s).at[o] = f.at[o]
         /\ o >= off + Len(s) => Write(f, off, s).at[o] = f.at[o]
<1>1. o \in Nat /\ Len(s) \in Nat
  BY ConstantFacts DEF Offsets
<1>2. CASE s = <<>>
  BY <1>1, <1>2 DEF Write
<1>3. CASE s # <<>>
  BY <1>1, <1>3 DEF Write
<1> QED
  BY <1>2, <1>3

\* The handle's file is replaced by f, the other one stays.
LEMMA SetBackingFacts ==
  ASSUME TypeOK, NEW f \in Images, SetBacking(f), mode' = mode
  PROVE  /\ file' \in Images /\ temp' \in Images /\ Backing' = f
         /\ mode # "inplace" => file' = file
  BY DEF TypeOK, SetBacking, Backing

\* What TypeOK says of the handle, for use in typing the writes.
LEMMA BackingTyped ==
  ASSUME TypeOK
  PROVE  /\ Backing \in Images /\ Image \in Images
         /\ Owner \in {"file", "temp"}
         /\ cur \in Counters /\ cur.rstart \in Nat /\ cur.entries \in Nat
         /\ hdr \in Counters /\ hdr.rstart \in Nat /\ hdr.entries \in Nat
  BY DEF TypeOK, Backing, Image, Owner, Counters

\* What _commit_meta_data writes is a backup.
LEMMA MetaTyped ==
  ASSUME NEW o \in {"none", "empty", "file", "temp"}, NEW c \in Counters,
         NEW t \in Seq(Entries)
  PROVE  Meta(o, c, t) \in Metas
  BY DEF Meta, Metas

\* So are the absent and the empty backup.
LEMMA NoMetaTyped ==
  /\ NoMeta \in Metas /\ Probe \in Metas
  /\ NoMeta.own = "none" /\ Probe.own = "empty"
<1>1. [filesize |-> 0, rstart |-> 0, psize |-> 0, entries |-> 0] \in Counters
  BY DEF Counters
<1>2. <<>> \in Seq(Entries)
  OBVIOUS
<1>3. NoMeta = Meta("none", NoMeta.hdr, <<>>) /\ Probe = Meta("empty", NoMeta.hdr, <<>>)
  BY DEF NoMeta, Probe, Meta
<1>4. NoMeta.hdr \in Counters
  BY <1>1 DEF NoMeta
<1>5. NoMeta.own = "none" /\ Probe.own = "empty"
  BY DEF NoMeta, Probe
<1> QED
  BY <1>2, <1>3, <1>4, <1>5, MetaTyped

\* The entry that a commit makes is one.
LEMMA NewEntryTyped ==
  ASSUME TypeOK, res.name \in Names
  PROVE  NewEntry \in Entries
<1>1. cur.entries + 1 \in Nat /\ cur.psize \in Nat
  BY BackingTyped DEF Counters
<1>2. dsize \in Nat /\ hash \in Seq(Units)
  BY DEF TypeOK
<1> QED
  BY <1>1, <1>2 DEF NewEntry, Entries

-----------------------------------------------------------------------------
(* Frames: what most steps do not touch *)

Working == {"idle", "resource", "append"}

\* In a session the backup is that of a session.
LEMMA BusyMeta ==
  ASSUME IInv, InSession
  PROVE  /\ cur = hdr /\ meta = Meta(Owner, hdr, table)
         /\ meta.own = Owner /\ Owner \in {"file", "temp"}
         /\ mode \in {"inplace", "created"}
         /\ Arith(cur) /\ Len(table) = cur.entries
  BY DEF IInv, BackupCurrent, HandleOK, Meta, Owner

\* A step between calls on resources: only files and the resource change.
LEMMA WorkingStep ==
  ASSUME IInv, pc \in Working, pc' \in Working, UNCHANGED <<meta, handle>>
  PROVE  BackupCurrent' /\ HandleOK' /\ Progress' /\ Openable'
<1>1. InSession /\ InSession'
  BY DEF Working, InSession
<1>2. BackupCurrent' /\ HandleOK'
  BY <1>1, BusyMeta DEF BackupCurrent, HandleOK, handle, Owner
<1>3. Progress' /\ Openable'
  BY <1>1, BusyMeta DEF Progress, Openable, Working, handle
<1> QED
  BY <1>2, <1>3

\* A step that commits the numbers c and the table t to the backup.
LEMMA CommitStep ==
  ASSUME IInv, pc \in Working, pc' \in Working, NEW c \in Counters, NEW t,
         cur' = c, hdr' = c, table' = t, mode' = mode, meta' = Meta(Owner, c, t),
         Arith(c), Len(t) = c.entries
  PROVE  BackupCurrent' /\ HandleOK' /\ Progress' /\ Openable'
<1>1. InSession /\ InSession'
  BY DEF Working, InSession
<1>2. BackupCurrent'
  BY <1>1 DEF BackupCurrent, Owner
<1>3. HandleOK'
  <2>1. Arith(cur)'
    BY DEF Arith
  <2> QED
    BY <1>1, <2>1, BusyMeta DEF HandleOK
<1>4. meta'.own \in {"file", "temp"}
  BY <1>1, BusyMeta DEF Meta
<1>5. Progress' /\ Openable'
  BY <1>4 DEF Progress, Openable, Working
<1> QED
  BY <1>2, <1>3, <1>5

\* A session ends and leaves its backup, and the container as it found it
\* when the backup is none of it.
LEMMA EndStep ==
  ASSUME IInv, Forget, UNCHANGED meta,
         meta.own \in {"none", "empty"} => UNCHANGED file,
         file' \in Images, temp' \in Images
  PROVE  IInv'
<1>1. TypeOK'
  <2>1. Fresh \in Counters
    BY FreshCounters
  <2>2. NoRes \in [name : Names \union {"none"}, len : Nat, done : Nat,
                   by : {"none", "add_file", "caller"}]
    BY DEF NoRes
  <2>3. NoApp \in [src : Seq(Units), i : Nat, total : {0, Iobuf}]
    BY DEF NoApp
  <2>4. meta' \in Metas
    BY DEF IInv, TypeOK
  <2> QED
    BY <2>1, <2>2, <2>3, <2>4 DEF TypeOK, Forget
<1>2. BackupCurrent' /\ HandleOK' /\ Named' /\ Progress'
  BY DEF BackupCurrent, HandleOK, Named, Progress, InSession, Forget
<1>3. Openable'
  BY DEF IInv, Openable, Forget, Valid, HeaderOK, DetachedHeaderOK, TableOK,
         CountersOf, Arith, Cell, EntryAt
<1> QED
  BY <1>1, <1>2, <1>3 DEF IInv

-----------------------------------------------------------------------------
(* Opening and creating *)

\* The invariant holds before the first container exists.
LEMMA IInvInit == Init => IInv
<1> SUFFICES ASSUME Init PROVE IInv
  OBVIOUS
<1>1. TypeOK
  <2>1. Fresh \in Counters /\ Empty \in Images /\ NoMeta \in Metas
    BY FreshCounters, EmptyImage, NoMetaTyped
  <2>2. NoRes \in [name : Names \union {"none"}, len : Nat, done : Nat,
                   by : {"none", "add_file", "caller"}]
    BY DEF NoRes
  <2>3. NoApp \in [src : Seq(Units), i : Nat, total : {0, Iobuf}]
    BY DEF NoApp
  <2> QED
    BY <2>1, <2>2, <2>3 DEF TypeOK, Init
<1>2. BackupCurrent /\ HandleOK /\ Named /\ Progress
  BY DEF BackupCurrent, HandleOK, Named, Progress, InSession, Init
<1>3. ~Valid(file)
  BY DEF Init, Valid, HeaderOK, Empty, PoolStart
<1>4. Openable
  BY <1>3 DEF Openable, Init
<1> QED
  BY <1>1, <1>2, <1>4 DEF IInv

\* k_pres_create starts a session on an empty temporary file.
LEMMA CreateStep == IInv /\ Create => IInv'
<1> SUFFICES ASSUME IInv, Create PROVE IInv'
  OBVIOUS
<1>1. TypeOK'
  <2>1. Fresh \in Counters /\ Empty \in Images /\ <<>> \in Seq(Entries)
    BY FreshCounters, EmptyImage
  <2>2. Meta("temp", Fresh, <<>>) \in Metas
    BY <2>1, MetaTyped
  <2> QED
    BY <2>1, <2>2 DEF IInv, TypeOK, Create, PoolStart
<1>2. BackupCurrent' /\ Named' /\ Progress'
  BY DEF BackupCurrent, Named, Progress, Create, Owner
<1>3. HandleOK'
  <2>1. Arith(cur)' /\ cur'.entries = 0
    BY FreshCounters DEF Create, Arith
  <2> QED
    BY <2>1 DEF HandleOK, Create
<1>4. Openable'
  BY DEF Openable, Create, Meta
<1> QED
  BY <1>1, <1>2, <1>3, <1>4 DEF IInv

\* The container is not touched before it is read.
LEMMA ProbeStep == IInv /\ (OpenProbe \/ OpenUnprobe \/ OpenFail) => IInv'
<1> SUFFICES ASSUME IInv, OpenProbe \/ OpenUnprobe \/ OpenFail PROVE IInv'
  OBVIOUS
<1> USE DEF OpenProbe, OpenUnprobe, OpenFail
<1>1. UNCHANGED <<file, temp, handle, pending>>
  BY DEF disk
<1>2. meta' \in Metas /\ meta'.own \in {"none", "empty"}
  BY NoMetaTyped DEF IInv, TypeOK, Openable, disk
<1>3. meta.own \in {"none", "empty"}
  BY NoMetaTyped DEF IInv, Openable
<1>4. TypeOK'
  BY <1>1, <1>2 DEF IInv, TypeOK, handle, pending
<1>5. BackupCurrent' /\ HandleOK' /\ Named' /\ Progress'
  BY DEF BackupCurrent, HandleOK, Named, Progress, InSession
<1>6. Openable'
  BY <1>1, <1>2, <1>3 DEF IInv, Openable, Valid, HeaderOK, DetachedHeaderOK, TableOK,
         CountersOf, Arith, Cell, EntryAt
<1> QED
  BY <1>4, <1>5, <1>6 DEF IInv

\* A handle gets the counters of the file it was opened on, and backs them up.
LEMMA OpenReadStep == IInv /\ OpenRead => IInv'
<1> SUFFICES ASSUME IInv, OpenRead PROVE IInv'
  OBVIOUS
<1> DEFINE c == CountersOf(file)
           t == TableOf(file)
<1>1. c \in Counters /\ t \in Seq(Entries) /\ Len(t) = c.entries
  BY ReadTyped DEF IInv, TypeOK, OpenRead
<1>2. Arith(c)
  BY DEF IInv, Openable, OpenRead
<1>3. /\ cur' = c /\ hdr' = c /\ table' = t /\ mode' = "inplace" /\ pc' = "idle"
      /\ meta' = Meta("file", c, t) /\ pos' = PoolStart + c.psize
      /\ UNCHANGED <<file, temp, dsize, hash, res, app>>
  BY DEF OpenRead
<1> HIDE DEF c, t
<1>4. TypeOK'
  <2>1. Meta("file", c, t) \in Metas /\ PoolStart + c.psize \in Nat
    BY <1>1, MetaTyped DEF Counters, PoolStart
  <2> QED
    BY <1>1, <1>3, <2>1 DEF IInv, TypeOK
<1>5. BackupCurrent' /\ Named' /\ Progress'
  BY <1>3 DEF BackupCurrent, Named, Progress, Owner
<1>6. HandleOK'
  <2>1. Arith(cur)'
    BY <1>2, <1>3 DEF Arith
  <2> QED
    BY <1>1, <1>3, <2>1 DEF HandleOK
<1>7. Openable'
  BY <1>3 DEF Openable, Meta
<1> QED
  BY <1>4, <1>5, <1>6, <1>7 DEF IInv

-----------------------------------------------------------------------------
(* Adding a resource *)

\* The data of a resource are units.
LEMMA ContentTyped ==
  ASSUME NEW r \in Names, NEW n \in Nat
  PROVE  Content(r, n) \in Seq(Units) /\ Len(Content(r, n)) = n
  BY DEF Content, Units

\* k_pres_init_new_resource touches nothing but the resource under construction.
LEMMA InitNewResourceStep ==
  ASSUME IInv, NEW r \in Names, NEW n \in Lens, NEW by \in {"add_file", "caller"},
         InitNewResource(r, n, by)
  PROVE  IInv'
<1>1. pc = "idle" /\ pc' = "resource" /\ UNCHANGED <<meta, handle, file, temp, app>>
  BY DEF InitNewResource, disk
<1>2. pos' \in Nat /\ hash' \in Seq(Units) /\ dsize' \in Nat
  BY BackingTyped DEF InitNewResource, StartPos, StartHash, IInv
<1>3. res' \in [name : Names \union {"none"}, len : Nat, done : Nat,
                by : {"none", "add_file", "caller"}] /\ res'.name \in Names
  BY PresAssumption DEF InitNewResource
<1>4. TypeOK'
  BY <1>1, <1>2, <1>3 DEF IInv, TypeOK, handle
<1>5. BackupCurrent' /\ HandleOK' /\ Progress' /\ Openable'
  BY <1>1, WorkingStep DEF Working
<1> QED
  BY <1>3, <1>4, <1>5 DEF IInv, Named

\* A caller hands over units of the resource.
LEMMA AppendStartStep ==
  ASSUME IInv, NEW n \in AppendLens, AppendStart(n)
  PROVE  IInv'
<1>1. pc = "resource" /\ pc' = "append"
      /\ UNCHANGED <<meta, handle, file, temp, pos, dsize, hash>>
  BY DEF AppendStart, disk
<1>2. res.len \in Nat /\ res.done \in Nat /\ n \in Nat /\ res.name \in Names
  BY <1>1, PresAssumption DEF IInv, TypeOK, Named
<1>3. res.done + n <= res.len
  BY DEF AppendStart
<1>4. SubSeq(Content(res.name, res.len), res.done + 1, res.done + n) \in Seq(Units)
  <2>1. Content(res.name, res.len) \in Seq(Units) /\ Len(Content(res.name, res.len)) = res.len
    BY <1>2, ContentTyped
  <2>2. res.done + 1 \in Nat \ {0} /\ res.done + n \in Nat /\ res.done + 1 <= res.done + n + 1
    BY <1>2
  <2> QED
    BY <1>3, <2>1, <2>2, SubSeqTyped
<1>5. app' \in [src : Seq(Units), i : Nat, total : {0, Iobuf}]
  BY <1>4 DEF AppendStart
<1>6. res' \in [name : Names \union {"none"}, len : Nat, done : Nat,
                by : {"none", "add_file", "caller"}] /\ res'.name \in Names
  <2>1. res \in [name : Names \union {"none"}, len : Nat, done : Nat,
                 by : {"none", "add_file", "caller"}]
    BY DEF IInv, TypeOK
  <2>2. res' = [res EXCEPT !.done = @ + n] /\ res.done + n \in Nat
    BY <1>2 DEF AppendStart
  <2> QED
    BY <1>2, <2>1, <2>2
<1>7. TypeOK'
  BY <1>1, <1>5, <1>6 DEF IInv, TypeOK, handle
<1>8. BackupCurrent' /\ HandleOK' /\ Progress' /\ Openable'
  BY <1>1, WorkingStep DEF Working
<1> QED
  BY <1>6, <1>7, <1>8 DEF IInv, Named

\* Writing a sequence of units at the file offset.
LEMMA DataWritten ==
  ASSUME IInv, InSession, NEW us \in Seq(Units),
         SetBacking(Write(Backing, pos, DataCells(us))), mode' = mode
  PROVE  file' \in Images /\ temp' \in Images
<1>1. Write(Backing, pos, DataCells(us)) \in Images
  BY BackingTyped, DataCellsSeq, WriteImage DEF IInv, TypeOK
<1> QED
  BY <1>1, SetBackingFacts DEF IInv

\* A block changes the file, the hash and the offset only.
LEMMA AppendBlockStep == IInv /\ AppendBlock => IInv'
<1> SUFFICES ASSUME IInv, AppendBlock PROVE IInv'
  OBVIOUS
<1>1. pc = "append" /\ pc' = "append" /\ UNCHANGED <<meta, handle, dsize, res>>
      /\ app.i < Blocks
  BY DEF AppendBlock
<1>2. TypeOK'
  <2>1. /\ Block \in Seq(Units) /\ BlockTail \in Seq(Units) /\ Len(BlockTail) \in Nat
    BY <1>1, BlockTyped DEF IInv
  <2>2. file' \in Images /\ temp' \in Images
    BY <1>1, <2>1, DataWritten DEF AppendBlock, InSession, handle
  <2>3. hash' \in Seq(Units) /\ pos' \in Nat
    BY <2>1 DEF AppendBlock, IInv, TypeOK
  <2>4. app' \in [src : Seq(Units), i : Nat, total : {0, Iobuf}]
    <3>1. app \in [src : Seq(Units), i : Nat, total : {0, Iobuf}]
      BY DEF IInv, TypeOK
    <3>2. app' = [app EXCEPT !.i = @ + 1, !.total = Iobuf]
      BY DEF AppendBlock
    <3>3. app' = [src |-> app.src, i |-> app.i + 1, total |-> Iobuf]
      BY <3>1, <3>2
    <3>4. app.i + 1 \in Nat /\ app.src \in Seq(Units)
      BY <3>1
    <3> QED
      BY <3>3, <3>4
  <2> QED
    BY <1>1, <2>2, <2>3, <2>4 DEF IInv, TypeOK, handle
<1>3. BackupCurrent' /\ HandleOK' /\ Progress' /\ Openable'
  BY <1>1, WorkingStep DEF Working
<1> QED
  BY <1>1, <1>2, <1>3 DEF IInv, Named

\* So does the rest, which ends the call.
LEMMA AppendRestStep == IInv /\ AppendRest => IInv'
<1> SUFFICES ASSUME IInv, AppendRest PROVE IInv'
  OBVIOUS
<1>1. pc = "append" /\ pc' = "resource" /\ UNCHANGED <<meta, handle, res>>
  BY DEF AppendRest
<1>2. TypeOK'
  <2>1. Rest \in Seq(Units) /\ Len(Rest) \in Nat /\ app.total \in Nat
    BY RestTyped, ConstantFacts DEF IInv, TypeOK
  <2>2. file' \in Images /\ temp' \in Images
    BY <1>1, <2>1, DataWritten DEF AppendRest, InSession, handle
  <2>3. hash' \in Seq(Units) /\ pos' \in Nat /\ dsize' \in Nat
    BY <2>1 DEF AppendRest, IInv, TypeOK
  <2>4. app' \in [src : Seq(Units), i : Nat, total : {0, Iobuf}]
    BY DEF AppendRest, NoApp
  <2> QED
    BY <1>1, <2>2, <2>3, <2>4 DEF IInv, TypeOK, handle
<1>3. BackupCurrent' /\ HandleOK' /\ Progress' /\ Openable'
  BY <1>1, WorkingStep DEF Working
<1> QED
  BY <1>1, <1>2, <1>3 DEF IInv, Named

\* Whatever gives up a resource: the file is cut to some size or left alone.
LEMMA GiveUpStep ==
  ASSUME IInv, pc \in {"resource", "append"}, GiveUp, UNCHANGED <<meta, handle, dsize>>,
         file' \in Images, temp' \in Images, pos' \in Nat, hash' \in Seq(Units)
  PROVE  IInv'
<1>1. NoRes \in [name : Names \union {"none"}, len : Nat, done : Nat,
                 by : {"none", "add_file", "caller"}]
  BY DEF NoRes
<1>2. NoApp \in [src : Seq(Units), i : Nat, total : {0, Iobuf}]
  BY DEF NoApp
<1>3. TypeOK'
  BY <1>1, <1>2 DEF IInv, TypeOK, handle, GiveUp
<1>4. BackupCurrent' /\ HandleOK' /\ Progress' /\ Openable'
  BY WorkingStep DEF Working, GiveUp
<1> QED
  BY <1>3, <1>4 DEF IInv, Named, GiveUp

\* k_pres_rollback leaves files and an offset.
LEMMA RollbackTyped ==
  ASSUME TypeOK, Rollback, mode' = mode
  PROVE  file' \in Images /\ temp' \in Images /\ pos' \in Nat
  BY BackingTyped, TruncateImage, SetBackingFacts DEF Rollback

\* A failed write gives the resource up.
LEMMA AppendFailStep == IInv /\ AppendFail => IInv'
<1> SUFFICES ASSUME IInv, AppendFail PROVE IInv'
  OBVIOUS
<1>1. hash' \in Seq(Units)
  <2>1. hash \in Seq(Units)
    BY DEF IInv, TypeOK
  <2>2. CASE app.i < Blocks
    <3>1. hash' = hash \o Block /\ Block \in Seq(Units)
      BY <2>2, BlockTyped DEF AppendFail, IInv
    <3> QED
      BY <2>1, <3>1
  <2>3. CASE ~(app.i < Blocks)
    <3>1. hash' = hash \o Rest /\ Rest \in Seq(Units)
      BY <2>3, RestTyped DEF AppendFail, IInv
    <3> QED
      BY <2>1, <3>1
  <2> QED
    BY <2>2, <2>3
<1>2. pc \in {"resource", "append"} /\ GiveUp /\ Rollback
      /\ UNCHANGED <<meta, handle, dsize>>
  BY DEF AppendFail
<1>3. file' \in Images /\ temp' \in Images /\ pos' \in Nat
  BY <1>2, RollbackTyped DEF IInv, handle
<1> QED
  BY <1>1, <1>2, <1>3, GiveUpStep

\* So do a refused commit, a rollback and a file that cannot be read.
LEMMA RefusedStep ==
  IInv /\ (CommitRefused \/ CallRollback \/ AddFileRefused \/ AddFileReadError) => IInv'
<1>1. ASSUME IInv, CommitRefused \/ CallRollback PROVE IInv'
  <2>1. pc \in {"resource", "append"} /\ GiveUp /\ Rollback
        /\ UNCHANGED <<meta, handle, dsize, hash>>
    BY <1>1 DEF CommitRefused, CallRollback
  <2>2. file' \in Images /\ temp' \in Images /\ pos' \in Nat
    BY <1>1, <2>1, RollbackTyped DEF IInv, handle
  <2>3. hash' \in Seq(Units)
    BY <1>1, <2>1 DEF IInv, TypeOK
  <2> QED
    BY <1>1, <2>1, <2>2, <2>3, GiveUpStep
<1>2. ASSUME IInv, AddFileRefused \/ AddFileReadError PROVE IInv'
  <2>1. pc \in {"resource", "append"} /\ GiveUp
        /\ UNCHANGED <<meta, handle, dsize, hash, pos, file, temp>>
    BY <1>2 DEF AddFileRefused, AddFileReadError, disk
  <2>2. file' \in Images /\ temp' \in Images /\ pos' \in Nat /\ hash' \in Seq(Units)
    BY <1>2, <2>1 DEF IInv, TypeOK
  <2> QED
    BY <1>2, <2>1, <2>2, GiveUpStep
<1> QED
  BY <1>1, <1>2

-----------------------------------------------------------------------------
(* Committing, deleting and exporting *)

\* A commit advances the counters, the table and the backup together.
LEMMA CommitNewResourceStep == IInv /\ CommitNewResource => IInv'
<1> SUFFICES ASSUME IInv, CommitNewResource PROVE IInv'
  OBVIOUS
<1> DEFINE c == Advance(cur, dsize)
           t == Append(table, NewEntry)
<1>1. pc = "resource" /\ pc' = "idle" /\ GiveUp /\ mode' = mode
      /\ UNCHANGED <<file, temp, pos, dsize, hash>>
      /\ cur' = c /\ hdr' = c /\ table' = t /\ meta' = Meta(Owner, c, t)
  BY DEF CommitNewResource, GiveUp
<1>2. InSession /\ res.name \in Names
  BY <1>1 DEF InSession, IInv, Named
<1>3. c \in Counters /\ Arith(c) /\ c.entries = cur.entries + 1
  BY AdvanceFacts DEF IInv, TypeOK
<1>4. t \in Seq(Entries) /\ Len(t) = c.entries
  <2>1. NewEntry \in Entries /\ table \in Seq(Entries)
    BY <1>2, NewEntryTyped DEF IInv, TypeOK
  <2>2. Len(table) = cur.entries
    BY <1>2, BusyMeta
  <2> QED
    BY <1>3, <2>1, <2>2
<1> HIDE DEF c, t
<1>5. Meta(Owner, c, t) \in Metas
  BY <1>3, <1>4, BackingTyped, MetaTyped DEF IInv
<1>6. TypeOK'
  <2>1. NoRes \in [name : Names \union {"none"}, len : Nat, done : Nat,
                   by : {"none", "add_file", "caller"}]
    BY DEF NoRes
  <2>2. NoApp \in [src : Seq(Units), i : Nat, total : {0, Iobuf}]
    BY DEF NoApp
  <2> QED
    BY <1>1, <1>3, <1>4, <1>5, <2>1, <2>2 DEF IInv, TypeOK, GiveUp
<1>7. BackupCurrent' /\ HandleOK' /\ Progress' /\ Openable'
  BY <1>1, <1>3, <1>4, CommitStep DEF Working
<1> QED
  BY <1>1, <1>6, <1>7 DEF IInv, Named

\* The undo restores the counters, so nothing but the file has changed.
LEMMA CommitUndoneStep == IInv /\ CommitUndone => IInv'
<1> SUFFICES ASSUME IInv, CommitUndone PROVE IInv'
  OBVIOUS
<1>1. pc = "resource" /\ GiveUp /\ UNCHANGED <<meta, mode, hdr, table, dsize, hash>>
  BY DEF CommitUndone
<1>2. Arith(cur) /\ cur \in Counters /\ dsize \in Nat
  BY <1>1, BusyMeta DEF InSession, IInv, TypeOK
<1>3. cur' = cur
  BY <1>2, AdvanceFacts DEF CommitUndone
<1>4. SetBacking(Truncate(Backing, cur.rstart)) /\ pos' = cur.rstart
  BY <1>3 DEF CommitUndone
<1>5. file' \in Images /\ temp' \in Images /\ pos' \in Nat
  BY <1>1, <1>4, RollbackTyped DEF Rollback, IInv
<1>6. hash' \in Seq(Units)
  BY <1>1 DEF IInv, TypeOK
<1> QED
  BY <1>1, <1>3, <1>5, <1>6, GiveUpStep DEF handle

\* A deletion rewrites one entry and the backup.
LEMMA DeleteStep ==
  ASSUME IInv, NEW i \in Nat, Delete(i)
  PROVE  IInv'
<1> DEFINE t == [table EXCEPT ![i] = Deleted]
<1>1. pc \in Working /\ pc' = pc /\ UNCHANGED <<file, temp, mode, cur, pending>>
      /\ hdr' = cur /\ table' = t /\ meta' = Meta(Owner, cur, t)
  BY DEF Delete, Working
<1>2. Arith(cur) /\ cur \in Counters /\ Len(table) = cur.entries
  BY <1>1, BusyMeta DEF InSession, Working, IInv, TypeOK
<1>3. t \in Seq(Entries) /\ Len(t) = cur.entries
  <2>1. table \in Seq(Entries)
    BY DEF IInv, TypeOK
  <2> QED
    BY <2>1, <1>2, DeletedIsEntry, ExceptSeq DEF Delete
<1> HIDE DEF t
<1>4. Meta(Owner, cur, t) \in Metas
  BY <1>2, <1>3, BackingTyped, MetaTyped DEF IInv
<1>5. TypeOK'
  BY <1>1, <1>2, <1>3, <1>4 DEF IInv, TypeOK, pending
<1>6. BackupCurrent' /\ HandleOK' /\ Progress' /\ Openable'
  BY <1>1, <1>2, <1>3, CommitStep
<1> QED
  BY <1>1, <1>5, <1>6 DEF IInv, Named, pending

\* An export moves the offset and uses the hash, nothing else.
LEMMA ExportStep ==
  ASSUME IInv, NEW i \in Nat, Export(i)
  PROVE  IInv'
<1>1. pc = "idle" /\ pc' = "idle" /\ UNCHANGED <<file, temp, meta, handle, dsize, res, app>>
      /\ i \in 1..cur.entries
  BY DEF Export, disk
<1>2. table[i] \in Entries
  <2>1. Len(table) = cur.entries
    BY <1>1, BusyMeta DEF InSession
  <2> QED
    BY <1>1, <2>1 DEF IInv, TypeOK
<1>3. table[i].off \in Nat /\ table[i].size \in Nat
  BY <1>2 DEF Entries
<1>4. pos' \in Nat
  <2>1. PoolStart + table[i].off + table[i].size \in Nat
    BY <1>3 DEF PoolStart
  <2>2. pos \in Nat
    BY DEF IInv, TypeOK
  <2> QED
    BY <2>1, <2>2 DEF Export
<1>5. hash' \in Seq(Units)
  <2>1. Backing \in Images
    BY BackingTyped DEF IInv
  <2>2. \A j \in 1..table[i].size :
          UnitAt(Backing, PoolStart + table[i].off + j - 1) \in Units
    BY <2>1, ReadingCells
  <2> QED
    BY <1>3, <2>2 DEF Export, DataOf
<1>6. TypeOK'
  BY <1>1, <1>4, <1>5 DEF IInv, TypeOK, handle
<1>7. BackupCurrent' /\ HandleOK' /\ Progress' /\ Openable'
  BY <1>1, WorkingStep DEF Working
<1> QED
  BY <1>1, <1>6, <1>7 DEF IInv, Named

-----------------------------------------------------------------------------
(* Closing *)

\* The frame of a step of close on the handle's file.
LEMMA CloseFrame ==
  ASSUME IInv, InSession, pc' \in {"hdr", "dhdr", "rtbl", "unlink"},
         UNCHANGED <<meta, handle>>
  PROVE  BackupCurrent' /\ HandleOK' /\ Openable'
<1>1. InSession'
  BY DEF InSession
<1>2. BackupCurrent' /\ HandleOK'
  BY <1>1, BusyMeta DEF BackupCurrent, HandleOK, handle, Owner
<1>3. Openable'
  BY BusyMeta DEF Openable
<1> QED
  BY <1>2, <1>3

\* Close writes the header at offset 0 ...
LEMMA CloseHeaderStep == IInv /\ CloseHeader => IInv'
<1> SUFFICES ASSUME IInv, CloseHeader PROVE IInv'
  OBVIOUS
<1> DEFINE s == <<HdrCell(hdr)>>
           g == Write(Backing, 0, s)
<1>1. InSession /\ pc' = "hdr" /\ SetBacking(g) /\ res' = NoRes /\ app' = NoApp
      /\ UNCHANGED <<meta, handle, pos, dsize, hash>>
  BY DEF CloseHeader, InSession
<1>2. Backing \in Images /\ s \in Seq(Cells) /\ s # <<>> /\ s[1] = HdrCell(hdr)
  BY BackingTyped, CellsMade DEF IInv
<1> HIDE DEF s
<1>3. g \in Images /\ g.at[0] = HdrCell(hdr)
  BY <1>2, WriteImage, WriteCells, ConstantFacts
<1> HIDE DEF g
<1>4. file' \in Images /\ temp' \in Images /\ Backing' = g
  BY <1>1, <1>3, SetBackingFacts DEF IInv, handle
<1>5. NoRes \in [name : Names \union {"none"}, len : Nat, done : Nat,
                 by : {"none", "add_file", "caller"}]
  BY DEF NoRes
<1>6. NoApp \in [src : Seq(Units), i : Nat, total : {0, Iobuf}]
  BY DEF NoApp
<1>7. TypeOK'
  BY <1>1, <1>4, <1>5, <1>6 DEF IInv, TypeOK, handle
<1>8. BackupCurrent' /\ HandleOK' /\ Openable'
  BY <1>1, CloseFrame
<1>9. Progress' /\ Named'
  BY <1>1, <1>3, <1>4 DEF Progress, Named, Image, HdrCell, handle
<1> QED
  BY <1>7, <1>8, <1>9 DEF IInv

\* ... the detached header behind it ...
LEMMA CloseDetachedHeaderStep == IInv /\ CloseDetachedHeader => IInv'
<1> SUFFICES ASSUME IInv, CloseDetachedHeader PROVE IInv'
  OBVIOUS
<1> DEFINE s == <<DhdrCell(hdr)>>
           g == Write(Backing, 1, s)
<1>1. pc = "hdr" /\ InSession /\ pc' = "dhdr" /\ SetBacking(g)
      /\ UNCHANGED <<meta, handle, pending>>
  BY DEF CloseDetachedHeader, InSession
<1>2. Backing \in Images /\ s \in Seq(Cells) /\ s # <<>> /\ s[1] = DhdrCell(hdr)
  BY BackingTyped, CellsMade DEF IInv
<1> HIDE DEF s
<1>3. g \in Images /\ g.at[1] = DhdrCell(hdr) /\ g.at[0] = Backing.at[0]
  BY <1>2, WriteImage, WriteCells, ConstantFacts
<1> HIDE DEF g
<1>4. file' \in Images /\ temp' \in Images /\ Backing' = g
  BY <1>1, <1>3, SetBackingFacts DEF IInv, handle
<1>5. TypeOK'
  BY <1>1, <1>4 DEF IInv, TypeOK, handle, pending
<1>6. BackupCurrent' /\ HandleOK' /\ Openable'
  BY <1>1, CloseFrame
<1>7. Backing.at[0] = HdrCell(hdr)
  BY <1>1 DEF IInv, Progress, Image
<1>8. Progress' /\ Named'
  BY <1>1, <1>3, <1>4, <1>7 DEF Progress, Named, Image, HdrCell, DhdrCell, handle
<1> QED
  BY <1>5, <1>6, <1>8 DEF IInv

\* The table lies behind both headers: writing it leaves them.
LEMMA CloseTableStep == IInv /\ CloseTable => IInv'
<1> SUFFICES ASSUME IInv, CloseTable PROVE IInv'
  OBVIOUS
<1> DEFINE s == TableCells(hdr, table)
           g == Write(Backing, cur.rstart, s)
<1>1. pc = "dhdr" /\ InSession /\ pc' = "rtbl" /\ SetBacking(g)
      /\ UNCHANGED <<meta, handle, pending>>
  BY DEF CloseTable, InSession
<1>2. cur = hdr /\ Arith(cur) /\ Len(table) = hdr.entries /\ table \in Seq(Entries)
  BY <1>1, BusyMeta DEF IInv, TypeOK
<1>3. Backing \in Images /\ hdr \in Counters /\ hdr.rstart \in Nat /\ cur.rstart \in Nat
      /\ hdr.entries \in Nat /\ hdr.rstart >= 2
  BY <1>2, BackingTyped DEF IInv, Arith, PoolStart, Counters
<1>4. s \in Seq(Cells) /\ Len(s) = 1 + hdr.entries /\ s # <<>>
  BY <1>2, <1>3, TableCellsSeq
<1>5. s[1] = TblCell(hdr)
  BY <1>3 DEF TableCells
<1> HIDE DEF s
<1>6. g \in Images
  BY <1>3, <1>4, WriteImage
<1>7. g.at[0] = Backing.at[0] /\ g.at[1] = Backing.at[1]
  BY <1>2, <1>3, <1>4, WriteCells, ConstantFacts
<1>8. hdr.rstart \in Offsets => g.at[hdr.rstart] = TblCell(hdr)
  BY <1>2, <1>3, <1>4, <1>5, WriteCells
<1> HIDE DEF g
<1>9. file' \in Images /\ temp' \in Images /\ Backing' = g
  BY <1>1, <1>6, SetBackingFacts DEF IInv, handle
<1>10. TypeOK'
  BY <1>1, <1>9 DEF IInv, TypeOK, handle, pending
<1>11. BackupCurrent' /\ HandleOK' /\ Openable'
  BY <1>1, CloseFrame
<1>12. Backing.at[0] = HdrCell(hdr) /\ Backing.at[1] = DhdrCell(hdr)
  BY <1>1 DEF IInv, Progress, Image
<1>13. Progress' /\ Named'
  BY <1>1, <1>7, <1>8, <1>9, <1>12
     DEF Progress, Named, Image, HdrCell, DhdrCell, TblCell, handle
<1> QED
  BY <1>10, <1>11, <1>13 DEF IInv

\* ... and, for a container that was created, moves the file over its name.
LEMMA CloseCommitStep == IInv /\ CloseCommit => IInv'
<1> SUFFICES ASSUME IInv, CloseCommit PROVE IInv'
  OBVIOUS
<1>1. pc = "rtbl" /\ InSession /\ pc' = "unlink" /\ UNCHANGED <<meta, handle, pending>>
  BY DEF CloseCommit, InSession
<1>2. file' \in Images /\ temp' \in Images /\ file' = Backing
  BY <1>1, BusyMeta, EmptyImage DEF CloseCommit, IInv, TypeOK, Backing
<1>3. TypeOK'
  BY <1>1, <1>2 DEF IInv, TypeOK, handle, pending
<1>4. BackupCurrent' /\ HandleOK' /\ Openable'
  BY <1>1, CloseFrame
<1>5. /\ Backing.at[0] = HdrCell(hdr) /\ Backing.at[1] = DhdrCell(hdr)
      /\ hdr.rstart \in Offsets => Backing.at[hdr.rstart] = TblCell(hdr)
  BY <1>1 DEF IInv, Progress, Image
<1>6. Progress' /\ Named'
  BY <1>1, <1>2, <1>5 DEF Progress, Named, Image, HdrCell, DhdrCell, TblCell, handle
<1> QED
  BY <1>3, <1>4, <1>6 DEF IInv

\* What a finished close has written opens with the handle's numbers.
LEMMA WrittenCounters ==
  ASSUME IInv, pc = "unlink", Valid(file)
  PROVE  CountersOf(file) = hdr /\ Arith(hdr)
<1>1. file.at[0] = HdrCell(hdr) /\ file.at[1] = DhdrCell(hdr)
      /\ (hdr.rstart \in Offsets => file.at[hdr.rstart] = TblCell(hdr))
  BY DEF IInv, Progress, Image
<1>2. file.at[1].rstart = hdr.rstart /\ file.at[1].psize = hdr.psize
      /\ file.at[0].filesize = hdr.filesize
  BY <1>1 DEF HdrCell, DhdrCell
<1>3. Cell(file, hdr.rstart).kind = "tbl"
  BY <1>2 DEF Valid, TableOK
<1>4. hdr.rstart \in Offsets
  BY <1>3, ZeroIsCell DEF Cell
<1>5. Cell(file, hdr.rstart).entries = hdr.entries
  BY <1>1, <1>4 DEF Cell, TblCell
<1>6. CountersOf(file) = hdr
  BY <1>2, <1>5, BackingTyped DEF CountersOf, IInv, Counters
<1>7. Arith(hdr)
  BY BusyMeta DEF InSession
<1> QED
  BY <1>6, <1>7

\* Once the backup is gone, the file that is left has the layout, if it opens.
LEMMA CloseUnlinkStep == IInv /\ CloseUnlink => IInv'
<1> SUFFICES ASSUME IInv, CloseUnlink PROVE IInv'
  OBVIOUS
<1>1. pc = "unlink" /\ meta' = NoMeta /\ Forget /\ UNCHANGED <<file, temp>>
  BY DEF CloseUnlink, BackupDone
<1>2. TypeOK'
  <2>1. Fresh \in Counters /\ NoMeta \in Metas
    BY FreshCounters, NoMetaTyped
  <2>2. NoRes \in [name : Names \union {"none"}, len : Nat, done : Nat,
                   by : {"none", "add_file", "caller"}]
    BY DEF NoRes
  <2>3. NoApp \in [src : Seq(Units), i : Nat, total : {0, Iobuf}]
    BY DEF NoApp
  <2> QED
    BY <1>1, <2>1, <2>2, <2>3 DEF IInv, TypeOK, Forget
<1>3. BackupCurrent' /\ HandleOK' /\ Named' /\ Progress'
  BY <1>1 DEF BackupCurrent, HandleOK, Named, Progress, InSession, Forget
<1>4. Valid(file) => Arith(CountersOf(file))
  BY <1>1, WrittenCounters
<1>5. Openable'
  BY <1>1, <1>4 DEF Openable, Forget, Valid, HeaderOK, DetachedHeaderOK, TableOK,
         CountersOf, Arith, Cell, EntryAt
<1> QED
  BY <1>2, <1>3, <1>5 DEF IInv

\* A failed close of an opened container leaves its backup with it.
LEMMA CloseFailStep == IInv /\ CloseFail => IInv'
<1> SUFFICES ASSUME IInv, CloseFail PROVE IInv'
  OBVIOUS
<1>1. InSession /\ Forget /\ UNCHANGED meta /\ temp' \in Images
  BY EmptyImage DEF CloseFail, InSession
<1>2. meta.own \in {"file", "temp"}
  BY <1>1, BusyMeta
<1>3. file' \in Images
  <2>1. CASE UNCHANGED file
    BY <2>1 DEF IInv, TypeOK
  <2>2. ASSUME NEW k \in 0..cur.entries,
               file' = Write(file, cur.rstart, SubSeq(TableCells(hdr, table), 1, k))
        PROVE  file' \in Images
    <3>1. TableCells(hdr, table) \in Seq(Cells)
          /\ Len(TableCells(hdr, table)) = 1 + cur.entries
      BY <1>1, BusyMeta, BackingTyped, TableCellsSeq DEF IInv, TypeOK
    <3>2. k \in Nat /\ k <= 1 + cur.entries /\ cur.rstart \in Nat
      BY BackingTyped DEF IInv
    <3>3. SubSeq(TableCells(hdr, table), 1, k) \in Seq(Cells)
      BY <3>1, <3>2, SubSeqTyped
    <3> QED
      BY <2>2, <3>2, <3>3, WriteImage DEF IInv, TypeOK
  <2> QED
    BY <2>1, <2>2 DEF CloseFail
<1> QED
  BY <1>1, <1>2, <1>3, EndStep

\* So does the end of the process.
LEMMA CrashStep == IInv /\ (CloseRenameFail \/ Crash) => IInv'
<1> SUFFICES ASSUME IInv, CloseRenameFail \/ Crash PROVE IInv'
  OBVIOUS
<1>1. Forget /\ UNCHANGED <<file, meta>> /\ temp' = Empty
  BY DEF CloseRenameFail, Crash
<1>2. file' \in Images /\ temp' \in Images
  BY <1>1, EmptyImage DEF IInv, TypeOK
<1> QED
  BY <1>1, <1>2, EndStep

-----------------------------------------------------------------------------
(* The theorems *)

\* Every step of a session, every failure and a crash keep the invariant.
LEMMA IInvNext == IInv /\ [Next]_vars => IInv'
<1> SUFFICES ASSUME IInv, [Next]_vars PROVE IInv'
  OBVIOUS
<1>1. CASE Create
  BY <1>1, CreateStep
<1>2. CASE Open
  BY <1>2, ProbeStep, OpenReadStep DEF Open
<1>3. CASE Add
  BY <1>3, InitNewResourceStep, AppendStartStep, AppendBlockStep, AppendRestStep,
     AppendFailStep, CommitNewResourceStep, RefusedStep, CommitUndoneStep DEF Add
<1>4. CASE Close
  BY <1>4, CloseHeaderStep, CloseDetachedHeaderStep, CloseTableStep, CloseCommitStep,
     CloseUnlinkStep, CloseFailStep, CrashStep DEF Close
<1>5. CASE Crash
  BY <1>5, CrashStep
<1>6. CASE \E i \in 1..MaxEntries : Delete(i) \/ Export(i)
  BY <1>6, PresAssumption, DeleteStep, ExportStep
<1>7. CASE UNCHANGED vars
  BY <1>7 DEF vars, IInv, TypeOK, BackupCurrent, HandleOK, Named, Progress, Openable,
     InSession, Owner, Image, Backing, Arith, Valid, HeaderOK, DetachedHeaderOK,
     TableOK, CountersOf, Cell, EntryAt
<1> QED
  BY <1>1, <1>2, <1>3, <1>4, <1>5, <1>6, <1>7 DEF Next

\* IInv holds in every reachable state of every instance.
THEOREM Invariant == Spec => []IInv
  BY IInvInit, IInvNext, PTL DEF Spec

\* Every counter, offset, entry and cell stays of its type: the subtractions
\* of the undo never pass zero, and no file yields a handle that is not one.
THEOREM TypeCorrect == Spec => []TypeOK
<1>1. IInv => TypeOK
  BY DEF IInv
<1> QED
  BY Invariant, <1>1, PTL

\* The handle, the headers it would write and the backup agree between any
\* two steps, in a session of any length and after any failures: a commit
\* that fails is undone exactly, and .meta is never behind the handle.
THEOREM BackupIsCurrent == Spec => []BackupCurrent
<1>1. IInv => BackupCurrent
  BY DEF IInv
<1> QED
  BY Invariant, <1>1, PTL

-----------------------------------------------------------------------------
(* What is assumed *)

\* No call of k_pres_append_to_new_resource with two full I/O buffers: the
\* second one is not written (pres.c:200).  k_pres_add_file makes none.
ShortAppends == \A n \in AppendLens : n < 2 * Iobuf

\* A step that does not hide a failure from the caller of pres.c: no read() of
\* a file fails in its midst, for which k_pres_add_file returns 0 all the same
\* (pres.c:351-359), and no close abandons a resource.  Both leave stray data in the
\* pool, and the container does not open.
Told == ~AddFileReadError /\ ~(CloseHeader /\ pc = "resource")

\* A step that does not create over a damaged container: k_pres_create would
\* replace the backup that can repair it (pres.c:939).
KeepsBackup == ~(Create /\ meta.own = "file")

-----------------------------------------------------------------------------
(* The invariant of the data *)

\* The data of every entry of t that is not deleted is in f ...
Held(t, f) == \A i \in 1..Len(t) : t[i].id # 0 => Intact(t[i], f)

\* ... within a pool of p units.
InPool(t, p) == \A i \in 1..Len(t) : t[i].id # 0 => t[i].off + t[i].size <= p

\* A container and its backup: what it lists is there.
BackupHeld == meta.own = "file" => Held(meta.table, file)

\* The same for a session's own table and file, which has room for the table.
SessionHeld ==
  InSession => /\ Held(table, Image) /\ InPool(table, cur.psize)
               /\ cur.filesize <= MaxFile

\* A container that the next k_pres_open may read.
ReadableHeld ==
  meta.own \in {"none", "empty"} /\ Valid(file) =>
    /\ Held(TableOf(file), file) /\ InPool(TableOf(file), CountersOf(file).psize)
    /\ CountersOf(file).filesize <= MaxFile

\* The entries that a close has written.
EntriesWritten ==
  pc \in {"rtbl", "unlink"} =>
    \A i \in 1..hdr.entries : Image.at[hdr.rstart + i] = EntCell(table[i])

\* us are the units of r behind the first d.
Run(us, r, d) == \A j \in 1..Len(us) : us[j] = <<r, d + j>>

\* The first k units of a resource have been hashed and are behind the pool,
\* and the file offset is behind them.
Taken(k) ==
  /\ pos = cur.rstart + k
  /\ Len(hash) = k
  /\ \A j \in 1..k : /\ hash[j] = <<res.name, j>>
                     /\ Cell(Backing, cur.rstart + j - 1) = DataCell(hash[j])

\* A resource under construction.
Building ==
  /\ pc \in {"resource", "append"} =>
       /\ res.len \in Lens /\ res.done <= res.len
       /\ cur.rstart + res.len + TblSize + (cur.entries + 1) * EntSize <= MaxFile
  /\ pc = "resource" => dsize = res.done /\ Taken(dsize)
  /\ pc = "append" =>
       /\ Len(app.src) < 2 * Iobuf /\ dsize + Len(app.src) = res.done
       /\ Run(app.src, res.name, dsize)
       /\ (app.i = 0 /\ app.total = 0) \/ (app.i = 1 /\ app.total = Iobuf /\ app.i <= Blocks)
       /\ Taken(dsize + app.total)

DataInv == BackupHeld /\ SessionHeld /\ ReadableHeld /\ EntriesWritten /\ Building

-----------------------------------------------------------------------------
(* The invariant of a session all of whose failures are reported *)

\* The slots of a table whose data is there.
SlotsIn(t) ==
  [i \in 1..Len(t) |-> IF t[i].id = 0 THEN Hole
                       ELSE [name |-> t[i].name, data |-> t[i].digest]]

\* Nothing lies behind the table that a close will write or has written, but
\* for the resource under construction.
Tight ==
  /\ pc \in {"idle", "hdr", "dhdr"} => Backing.size <= cur.filesize
  /\ pc \in {"resource", "append"} => Backing.size <= cur.filesize \/ Backing.size <= pos
  /\ pc \in {"rtbl", "unlink"} => Image.size = cur.filesize

ReportInv ==
  /\ InSession => acked = SlotsIn(table)
  /\ ~InSession => mode = "none"
  /\ Tight

-----------------------------------------------------------------------------
(* Where the data are *)

\* f and g agree on what lies in a pool that ends before offset r.
Agree(f, g, r) ==
  \A o \in Offsets : PoolStart <= o /\ o < r => g.at[o] = f.at[o]

\* An entry keeps its data in a file that agrees on its place.
LEMMA IntactKept ==
  ASSUME NEW f, NEW g, NEW r \in Nat, Agree(f, g, r), NEW e \in Entries,
         PoolStart + e.off + e.size <= r, Intact(e, f)
  PROVE  Intact(e, g)
<1>1. e.off \in Nat /\ e.size \in Nat
  BY DEF Entries
<1>2. ASSUME NEW j \in 1..e.size
      PROVE  Cell(g, PoolStart + e.off + j - 1) = Cell(f, PoolStart + e.off + j - 1)
  <2>1. PoolStart <= PoolStart + e.off + j - 1 /\ PoolStart + e.off + j - 1 < r
    BY <1>1 DEF PoolStart
  <2> QED
    BY <2>1 DEF Cell, Agree
<1> QED
  BY <1>1, <1>2 DEF Intact

\* So does a table.
LEMMA HeldKept ==
  ASSUME NEW f, NEW g, NEW p \in Nat, Agree(f, g, PoolStart + p),
         NEW t \in Seq(Entries), Held(t, f), InPool(t, p)
  PROVE  Held(t, g)
<1> SUFFICES ASSUME NEW i \in 1..Len(t), t[i].id # 0 PROVE Intact(t[i], g)
  BY DEF Held
<1>1. t[i] \in Entries /\ Intact(t[i], f) /\ t[i].off + t[i].size <= p
  BY DEF Held, InPool
<1>2. PoolStart + p \in Nat /\ PoolStart + t[i].off + t[i].size <= PoolStart + p
  BY <1>1 DEF Entries, PoolStart
<1> QED
  BY <1>1, <1>2, IntactKept

\* What is written behind the pool or in front of it is not in it.
LEMMA WriteAgrees ==
  ASSUME NEW f \in Images, NEW off \in Nat, NEW s \in Seq(Cells), NEW r \in Nat,
         off >= r \/ off + Len(s) <= PoolStart
  PROVE  Agree(f, Write(f, off, s), r)
<1> SUFFICES ASSUME NEW o \in Offsets, PoolStart <= o, o < r
             PROVE  Write(f, off, s).at[o] = f.at[o]
  BY DEF Agree
<1>1. o < off \/ o >= off + Len(s)
  BY DEF Offsets, PoolStart
<1> QED
  BY <1>1, WriteCells

\* Cutting a file behind the pool leaves the pool.
LEMMA TruncateAgrees ==
  ASSUME NEW f \in Images, NEW n \in Nat
  PROVE  Agree(f, Truncate(f, n), n)
  BY DEF Agree, Truncate

\* What a write makes of the cells that it covers.
LEMMA WrittenCells ==
  ASSUME NEW f \in Images, NEW off \in Nat, NEW s \in Seq(Cells),
         NEW j \in 1..Len(s), off + j - 1 \in Offsets
  PROVE  Write(f, off, s).at[off + j - 1] = s[j]
<1>1. s # <<>> /\ off <= off + j - 1 /\ off + j - 1 < off + Len(s)
  OBVIOUS
<1>2. (off + j - 1) - off + 1 = j
  OBVIOUS
<1> QED
  BY <1>1, <1>2 DEF Write

\* The size of a file after a write.
LEMMA WrittenSize ==
  ASSUME NEW f \in Images, NEW off \in Nat, NEW s \in Seq(Cells)
  PROVE  /\ f.size \in Nat
         /\ s = <<>> => Write(f, off, s).size = f.size
         /\ s # <<>> => Write(f, off, s).size = IF off + Len(s) > f.size
                                                THEN off + Len(s) ELSE f.size
  BY DEF Write, Images

-----------------------------------------------------------------------------
(* Frames *)

\* In a session the pool ends where the table begins.
LEMMA SessionFacts ==
  ASSUME IInv, DataInv, InSession
  PROVE  /\ cur.rstart = PoolStart + cur.psize /\ cur.psize \in Nat /\ cur.entries \in Nat
         /\ cur.rstart \in Nat /\ cur.filesize \in Nat /\ cur = hdr
         /\ cur.filesize = cur.rstart + 1 + cur.entries
         /\ table \in Seq(Entries) /\ Len(table) = cur.entries
         /\ Image \in Images /\ Backing \in Images
         /\ Held(table, Image) /\ InPool(table, cur.psize) /\ cur.filesize <= MaxFile
         /\ mode \in {"inplace", "created"} /\ meta = Meta(Owner, hdr, table)
         /\ meta.own = Owner /\ meta.table = table
<1>1. cur \in Counters /\ table \in Seq(Entries) /\ Image \in Images /\ Backing \in Images
  BY BackingTyped DEF IInv, TypeOK
<1>2. cur = hdr /\ meta = Meta(Owner, hdr, table) /\ mode \in {"inplace", "created"}
      /\ Arith(cur) /\ Len(table) = cur.entries
  BY BusyMeta
<1>3. Held(table, Image) /\ InPool(table, cur.psize) /\ cur.filesize <= MaxFile
  BY DEF DataInv, SessionHeld
<1>4. cur.rstart = PoolStart + cur.psize /\ cur.filesize = cur.rstart + 1 + cur.entries
      /\ cur.psize \in Nat /\ cur.entries \in Nat /\ cur.rstart \in Nat /\ cur.filesize \in Nat
  BY <1>1, <1>2 DEF Arith, Counters, TblSize, EntSize
<1>5. meta.own = Owner /\ meta.table = table
  BY <1>2 DEF Meta
<1> QED
  BY <1>1, <1>2, <1>3, <1>4, <1>5

\* Within a session, before its file has been committed.
InCall == {"idle", "resource", "append", "hdr", "dhdr", "rtbl"}

\* A step that leaves the backup and the table alone and writes outside the pool.
LEMMA PoolKept ==
  ASSUME IInv, DataInv, pc \in InCall, pc' \in InCall,
         UNCHANGED <<meta, handle>>,
         NEW g \in Images, SetBacking(g), Agree(Backing, g, cur.rstart)
  PROVE  BackupHeld' /\ SessionHeld' /\ ReadableHeld'
<1>1. InSession /\ Image = Backing
  BY DEF InSession, InCall, Image
<1>2. Held(table, g)
  BY <1>1, SessionFacts, HeldKept
<1>3. Backing' = g /\ Image' = g /\ table' = table /\ cur' = cur
  BY DEF SetBacking, Backing, Image, InCall, handle
<1>4. SessionHeld'
  BY <1>1, <1>2, <1>3, SessionFacts DEF SessionHeld
<1>5. BackupHeld'
  <2>1. meta' = meta /\ meta.table = table
    BY <1>1, SessionFacts
  <2>2. meta.own = "file" => file' = g
    BY <1>1, SessionFacts DEF Owner, SetBacking
  <2> QED
    BY <1>2, <2>1, <2>2 DEF BackupHeld
<1>6. ReadableHeld'
  BY <1>1, SessionFacts DEF ReadableHeld, Owner
<1> QED
  BY <1>4, <1>5, <1>6

\* A step that leaves the files alone, too.
LEMMA FilesKept ==
  ASSUME IInv, DataInv, pc \in InCall, pc' \in InCall,
         UNCHANGED <<meta, handle, file, temp>>
  PROVE  BackupHeld' /\ SessionHeld' /\ ReadableHeld'
<1>1. InSession /\ Image = Backing
  BY DEF InSession, InCall, Image
<1>2. SetBacking(Backing) /\ Backing \in Images /\ Agree(Backing, Backing, cur.rstart)
  BY <1>1, SessionFacts DEF SetBacking, Backing, Agree
<1> QED
  BY <1>2, PoolKept

\* A session that ends leaves what its backup lists, and any other file.
LEMMA EndKept ==
  ASSUME IInv, DataInv, Forget, UNCHANGED meta,
         UNCHANGED file \/ (meta.own = "file" /\ Held(meta.table, file'))
  PROVE  DataInv'
<1>1. pc' = "closed"
  BY DEF Forget
<1>2. SessionHeld' /\ EntriesWritten' /\ Building'
  BY <1>1 DEF SessionHeld, EntriesWritten, Building, InSession
<1>3. BackupHeld'
  BY DEF BackupHeld, DataInv
<1>4. ReadableHeld'
  BY DEF ReadableHeld, DataInv
<1> QED
  BY <1>2, <1>3, <1>4 DEF DataInv

-----------------------------------------------------------------------------
(* Opening and creating *)

\* Before the first container there are no data.
LEMMA DataInit == Init => DataInv
<1> SUFFICES ASSUME Init PROVE DataInv
  OBVIOUS
<1>1. pc = "closed" /\ meta = NoMeta /\ file = Empty
  BY DEF Init
<1>2. ~Valid(file)
  BY <1>1 DEF Valid, HeaderOK, Empty, PoolStart
<1> QED
  BY <1>1, <1>2, NoMetaTyped DEF DataInv, BackupHeld, SessionHeld, ReadableHeld,
     EntriesWritten, Building, InSession

\* k_pres_create starts with an empty table, and takes the backup's place.
LEMMA DataCreate == IInv /\ DataInv /\ Create => DataInv'
<1> SUFFICES ASSUME IInv, DataInv, Create PROVE DataInv'
  OBVIOUS
<1>1. pc' = "idle" /\ cur' = Fresh /\ table' = <<>> /\ meta' = Meta("temp", Fresh, <<>>)
  BY DEF Create
<1>2. meta'.own = "temp"
  BY <1>1 DEF Meta
<1>3. Fresh.filesize <= MaxFile
  BY PresAssumption DEF Fresh
<1>4. SessionHeld'
  BY <1>1, <1>3 DEF SessionHeld, Held, InPool
<1> QED
  BY <1>1, <1>2, <1>4 DEF DataInv, BackupHeld, ReadableHeld, EntriesWritten, Building

\* Looking for a backup touches none and no container.
LEMMA DataProbe == IInv /\ DataInv /\ (OpenProbe \/ OpenUnprobe \/ OpenFail) => DataInv'
<1> SUFFICES ASSUME IInv, DataInv, OpenProbe \/ OpenUnprobe \/ OpenFail PROVE DataInv'
  OBVIOUS
<1> USE DEF OpenProbe, OpenUnprobe, OpenFail
<1>1. pc' \in {"probed", "opening", "closed"} /\ UNCHANGED file
  BY DEF disk
<1>2. meta.own \in {"none", "empty"} /\ meta'.own \in {"none", "empty"}
  BY NoMetaTyped DEF IInv, Openable, disk
<1>3. ReadableHeld'
  BY <1>1, <1>2 DEF ReadableHeld, DataInv
<1> QED
  BY <1>1, <1>2, <1>3 DEF DataInv, BackupHeld, SessionHeld, EntriesWritten, Building, InSession

\* A session starts from a container that holds what its table lists.
LEMMA DataOpenRead == IInv /\ DataInv /\ OpenRead => DataInv'
<1> SUFFICES ASSUME IInv, DataInv, OpenRead PROVE DataInv'
  OBVIOUS
<1> DEFINE c == CountersOf(file)
           t == TableOf(file)
<1>1. meta.own \in {"none", "empty"} /\ Valid(file)
  BY DEF IInv, Openable, OpenRead
<1>2. Held(t, file) /\ InPool(t, c.psize) /\ c.filesize <= MaxFile
  BY <1>1 DEF DataInv, ReadableHeld
<1>3. pc' = "idle" /\ mode' = "inplace" /\ cur' = c /\ table' = t
      /\ meta' = Meta("file", c, t) /\ file' = file
  BY DEF OpenRead
<1> HIDE DEF c, t
<1>4. Image' = file
  BY <1>3 DEF Image, Backing
<1>5. meta'.own = "file" /\ meta'.table = t
  BY <1>3 DEF Meta
<1>6. SessionHeld' /\ BackupHeld'
  BY <1>2, <1>3, <1>4, <1>5 DEF SessionHeld, BackupHeld
<1> QED
  BY <1>3, <1>5, <1>6 DEF DataInv, ReadableHeld, EntriesWritten, Building

-----------------------------------------------------------------------------
(* Adding a resource *)

\* Two sequences, one behind the other.
LEMMA ConcatFacts ==
  ASSUME NEW S, NEW s \in Seq(S), NEW t \in Seq(S)
  PROVE  /\ Len(s \o t) = Len(s) + Len(t) /\ Len(s) \in Nat /\ Len(t) \in Nat
         /\ \A j \in 1..Len(s) : (s \o t)[j] = s[j]
         /\ \A j \in 1..(Len(s) + Len(t)) :
              j > Len(s) => j - Len(s) \in 1..Len(t) /\ (s \o t)[j] = t[j - Len(s)]
  OBVIOUS

\* Units written at the file offset and hashed are taken.
LEMMA TakenMore ==
  ASSUME IInv, DataInv, InSession, NEW k \in Nat, Taken(k), NEW us \in Seq(Units),
         Run(us, res.name, k), cur.rstart + k + Len(us) <= MaxFile,
         NEW m, m = k + Len(us),
         SetBacking(Write(Backing, pos, DataCells(us))),
         hash' = hash \o us, pos' = pos + Len(us), UNCHANGED <<handle, res>>
  PROVE  Taken(m)'
<1> DEFINE s == DataCells(us)
           g == Write(Backing, pos, s)
<1>1. Backing \in Images /\ cur.rstart \in Nat /\ hash \in Seq(Units)
  BY SessionFacts DEF IInv, TypeOK
<1>2. pos = cur.rstart + k /\ Len(hash) = k /\ Len(us) \in Nat
  BY DEF Taken
<1>3. s \in Seq(Cells) /\ Len(s) = Len(us) /\ \A j \in 1..Len(us) : s[j] = DataCell(us[j])
  BY DataCellsSeq DEF DataCells
<1> HIDE DEF s
<1>4. g \in Images
  BY <1>1, <1>2, <1>3, WriteImage
<1>5. Backing' = g
  BY <1>4, SetBackingFacts DEF IInv, handle, s, g
<1>6. ASSUME NEW j \in 1..(k + Len(us))
      PROVE  /\ hash'[j] = <<res.name, j>>
             /\ Cell(g, cur.rstart + j - 1) = DataCell(hash'[j])
  <2>1. cur.rstart + j - 1 \in Offsets
    <3>1. \A r, l, q \in Nat : r + k + l <= q =>
            \A i \in 1..(k + l) : r + i - 1 \in 0..q
      OBVIOUS
    <3> QED
      BY <1>1, <1>2, <3>1, ConstantFacts DEF Offsets
  <2>2. CASE j <= k
    <3>1. j \in 1..k /\ hash'[j] = hash[j]
      BY <1>1, <1>2, <2>2, ConcatFacts
    <3>2. hash[j] = <<res.name, j>> /\ Cell(Backing, cur.rstart + j - 1) = DataCell(hash[j])
      BY <3>1 DEF Taken
    <3>3. cur.rstart + j - 1 < pos /\ pos \in Nat
      BY <1>1, <1>2, <2>2
    <3>4. g.at[cur.rstart + j - 1] = Backing.at[cur.rstart + j - 1]
      BY <1>1, <1>3, <2>1, <3>3, WriteCells
    <3> QED
      BY <2>1, <3>1, <3>2, <3>4 DEF Cell
  <2>3. CASE j > k
    <3>1. j - k \in 1..Len(us) /\ k + (j - k) = j
      BY <1>2, <2>3
    <3>2. hash'[j] = us[j - k]
      BY <1>1, <1>2, <2>3, ConcatFacts
    <3>3. us[j - k] = <<res.name, j>>
      BY <3>1 DEF Run
    <3>4. pos + (j - k) - 1 = cur.rstart + j - 1 /\ pos \in Nat
      <4>1. cur.rstart \in Nat /\ pos = cur.rstart + k /\ j \in Nat /\ k \in Nat
        BY <1>1, <1>2
      <4>2. \A r, a, b \in Nat : (r + a) + (b - a) - 1 = r + b - 1 /\ r + a \in Nat
        OBVIOUS
      <4> QED
        BY <4>1, <4>2
    <3>5. pos + (j - k) - 1 \in Offsets /\ j - k \in 1..Len(s)
      BY <1>3, <2>1, <3>1, <3>4
    <3>6. g.at[pos + (j - k) - 1] = s[j - k]
      BY <1>1, <1>3, <3>4, <3>5, WrittenCells
    <3> QED
      BY <1>3, <2>1, <3>1, <3>2, <3>3, <3>4, <3>6 DEF Cell
  <2> QED
    BY <1>2, <2>2, <2>3
<1>7. Len(hash') = k + Len(us)
  BY <1>1, <1>2, ConcatFacts
<1>8. pos' = cur.rstart + (k + Len(us))
  BY <1>1, <1>2
<1> HIDE DEF g
<1>9. cur' = cur /\ res' = res
  BY DEF handle
<1> QED
  BY <1>5, <1>6, <1>7, <1>8, <1>9 DEF Taken

\* k_pres_init_new_resource starts at the end of the pool with a fresh hash.
LEMMA DataInitNewResource ==
  ASSUME IInv, DataInv, NEW r \in Names, NEW n \in Lens, NEW by \in {"add_file", "caller"},
         InitNewResource(r, n, by)
  PROVE  DataInv'
<1>1. /\ pc = "idle" /\ pc' = "resource" /\ UNCHANGED <<meta, handle, file, temp>>
      /\ pos' = cur.rstart /\ hash' = <<>> /\ dsize' = 0
      /\ res' = [name |-> r, len |-> n, done |-> 0, by |-> by]
      /\ cur.rstart + n + TblSize + (cur.entries + 1) * EntSize <= MaxFile
  BY DEF InitNewResource, disk, StartPos, StartHash
<1>2. BackupHeld' /\ SessionHeld' /\ ReadableHeld'
  BY <1>1, FilesKept DEF InCall
<1>3. cur' = cur /\ cur.rstart \in Nat /\ n \in Nat
  BY <1>1, BackingTyped, PresAssumption DEF handle, IInv
<1>4. Taken(0)'
  BY <1>1, <1>3 DEF Taken
<1>5. Building'
  BY <1>1, <1>3, <1>4 DEF Building
<1>6. EntriesWritten'
  BY <1>1 DEF EntriesWritten
<1> QED
  BY <1>2, <1>5, <1>6 DEF DataInv

\* A part of the units of a resource.
LEMMA PartRun ==
  ASSUME NEW s \in Seq(Units), NEW r, NEW d \in Nat, Run(s, r, d),
         NEW a \in Nat \ {0}, NEW b \in Nat, a <= b + 1, b <= Len(s), NEW e, e = d + a - 1
  PROVE  /\ SubSeq(s, a, b) \in Seq(Units) /\ Len(SubSeq(s, a, b)) = b - a + 1
         /\ Run(SubSeq(s, a, b), r, e)
<1>1. SubSeq(s, a, b) \in Seq(Units) /\ Len(SubSeq(s, a, b)) = b - a + 1
  BY SubSeqTyped
<1>2. ASSUME NEW j \in 1..(b - a + 1)
      PROVE  SubSeq(s, a, b)[j] = s[a + j - 1] /\ a + j - 1 \in 1..Len(s)
             /\ d + (a + j - 1) = e + j
  OBVIOUS
<1> QED
  BY <1>1, <1>2 DEF Run

\* What is handed over are the next units of the resource.
LEMMA DataAppendStart ==
  ASSUME ShortAppends, IInv, DataInv, NEW n \in AppendLens, AppendStart(n)
  PROVE  DataInv'
<1>1. /\ pc = "resource" /\ pc' = "append"
      /\ UNCHANGED <<meta, handle, file, temp, pos, dsize, hash>>
      /\ app' = [src |-> SubSeq(Content(res.name, res.len), res.done + 1, res.done + n),
                 i |-> 0, total |-> 0]
      /\ res.done + n <= res.len
      /\ res' = [res EXCEPT !.done = @ + n]
  BY DEF AppendStart, disk
<1>2. BackupHeld' /\ SessionHeld' /\ ReadableHeld'
  BY <1>1, FilesKept DEF InCall
<1>3. /\ res \in [name : Names \union {"none"}, len : Nat, done : Nat,
                  by : {"none", "add_file", "caller"}]
      /\ n \in Nat /\ n < 2 * Iobuf /\ dsize \in Nat
  BY PresAssumption DEF IInv, TypeOK, ShortAppends
<1>4. /\ res'.done = res.done + n /\ res'.len = res.len /\ res'.name = res.name
      /\ res.done \in Nat /\ res.len \in Nat /\ n \in Nat
  BY <1>1, <1>3
<1>5. dsize = res.done /\ Taken(dsize)
      /\ cur.rstart + res.len + TblSize + (cur.entries + 1) * EntSize <= MaxFile
      /\ res.len \in Lens
  BY <1>1 DEF DataInv, Building
<1>6. Len(app'.src) = n /\ Run(app'.src, res.name, dsize)
  <2> DEFINE all == Content(res.name, res.len)
  <2>1. all \in Seq(Units) /\ Len(all) = res.len
    BY <1>1, <1>3, ContentTyped DEF IInv, Named
  <2>2. Run(all, res.name, 0)
    BY <1>3, <2>1 DEF Content, Run
  <2>3. app'.src = SubSeq(all, res.done + 1, res.done + n)
    BY <1>1
  <2>4. /\ res.done + 1 \in Nat \ {0} /\ res.done + n \in Nat
        /\ res.done + 1 <= (res.done + n) + 1 /\ res.done + n <= Len(all)
        /\ (res.done + n) - (res.done + 1) + 1 = n /\ dsize = 0 + (res.done + 1) - 1
    BY <1>1, <1>4, <1>5, <2>1
  <2> HIDE DEF all
  <2> QED
    BY <2>1, <2>2, <2>3, <2>4, PartRun
<1>7. dsize + 0 = dsize /\ app'.i = 0 /\ app'.total = 0
  BY <1>1, <1>3
<1>8. cur' = cur /\ Backing' = Backing
  BY <1>1 DEF handle, Backing
<1>9. Taken(dsize + app.total)'
  BY <1>1, <1>4, <1>5, <1>7, <1>8 DEF Taken
<1>10. Building'
  BY <1>1, <1>3, <1>4, <1>5, <1>6, <1>7, <1>8, <1>9 DEF Building
<1>11. EntriesWritten'
  BY <1>1 DEF EntriesWritten
<1> QED
  BY <1>2, <1>10, <1>11 DEF DataInv

\* What an append has left to do: with less than two full buffers there is one
\* block at most, and `total' is fresh when it is written.
LEMMA AppendFacts ==
  ASSUME IInv, DataInv, pc = "append"
  PROVE  /\ app.src \in Seq(Units) /\ Len(app.src) \in Nat /\ dsize \in Nat
         /\ Blocks \in {0, 1} /\ Blocks * Iobuf <= Len(app.src) /\ Iobuf \in Nat \ {0}
         /\ app.i < Blocks => /\ app.i = 0 /\ app.total = 0 /\ Blocks = 1
                              /\ Block = SubSeq(app.src, 1, Iobuf) /\ BlockTail = Block
         /\ app.i = Blocks => app.total = Blocks * Iobuf
         /\ Run(app.src, res.name, dsize)
         /\ dsize + Len(app.src) = res.done /\ res.done <= res.len
         /\ cur.rstart + dsize + Len(app.src) <= MaxFile
         /\ Taken(dsize + app.total) /\ res.len \in Nat /\ res.done \in Nat
<1>1. app.src \in Seq(Units) /\ Len(app.src) \in Nat /\ dsize \in Nat /\ app.i \in Nat
      /\ app.total \in {0, Iobuf} /\ res.len \in Nat /\ res.done \in Nat
  BY DEF IInv, TypeOK
<1>2. /\ Len(app.src) < 2 * Iobuf
      /\ (app.i = 0 /\ app.total = 0) \/ (app.i = 1 /\ app.total = Iobuf /\ app.i <= Blocks)
      /\ Run(app.src, res.name, dsize)
      /\ dsize + Len(app.src) = res.done /\ res.done <= res.len
      /\ cur.rstart + res.len + TblSize + (cur.entries + 1) * EntSize <= MaxFile
      /\ Taken(dsize + app.total)
  BY DEF DataInv, Building
<1>3. Blocks \in Nat /\ Blocks * Iobuf <= Len(app.src) /\ Iobuf \in Nat \ {0}
  BY <1>1, BlockBounds, ConstantFacts DEF Blocks
<1>4. Blocks \in {0, 1}
  <2>1. ASSUME Blocks >= 2 PROVE 2 * Iobuf <= Blocks * Iobuf
    BY <1>3, <2>1
  <2> QED
    BY <1>1, <1>2, <1>3, <2>1
<1>5. ASSUME app.i < Blocks
      PROVE  /\ app.i = 0 /\ app.total = 0 /\ Blocks = 1
             /\ Block = SubSeq(app.src, 1, Iobuf) /\ BlockTail = Block
  <2>1. app.i = 0 /\ app.total = 0 /\ Blocks = 1
    BY <1>1, <1>2, <1>4, <1>5
  <2>2. app.i * Iobuf + 1 = 1 /\ (app.i + 1) * Iobuf = Iobuf
    BY <1>3, <2>1
  <2>3. Block = SubSeq(app.src, 1, Iobuf)
    BY <2>2 DEF Block
  <2>4. Block \in Seq(Units) /\ Len(Block) = Iobuf
    BY <1>5, BlockTyped DEF IInv
  <2>5. BlockTail = SubSeq(Block, 1, Len(Block))
    BY <2>1, <2>4 DEF BlockTail
  <2>6. BlockTail = Block
    BY <2>4, <2>5
  <2> QED
    BY <2>1, <2>3, <2>6
<1>6. app.i = Blocks => app.total = Blocks * Iobuf
  BY <1>2, <1>3, <1>4
<1>7. cur.rstart + dsize + Len(app.src) <= MaxFile
  <2>1. \A r, l, e, m, d, s \in Nat :
          r + l + TblSize + (e + 1) * EntSize <= m /\ d + s <= l => r + d + s <= m
    BY DEF TblSize, EntSize
  <2>2. cur.rstart \in Nat /\ cur.entries \in Nat /\ MaxFile \in Nat
        /\ Len(app.src) \in Nat /\ dsize \in Nat /\ res.len \in Nat
    BY <1>1, BackingTyped, ConstantFacts DEF IInv
  <2>3. cur.rstart + res.len + TblSize + (cur.entries + 1) * EntSize <= MaxFile
        /\ dsize + Len(app.src) <= res.len
    BY <1>2
  <2> QED
    BY <2>1, <2>2, <2>3
<1> QED
  BY <1>1, <1>2, <1>3, <1>4, <1>5, <1>6, <1>7

\* Data are written behind the pool.
LEMMA PoolWrite ==
  ASSUME IInv, DataInv, pc \in InCall, pc' \in InCall, UNCHANGED <<meta, handle>>,
         NEW us \in Seq(Units), pos >= cur.rstart, pos \in Nat,
         SetBacking(Write(Backing, pos, DataCells(us)))
  PROVE  BackupHeld' /\ SessionHeld' /\ ReadableHeld'
<1> DEFINE g == Write(Backing, pos, DataCells(us))
<1>1. InSession
  BY DEF InSession, InCall
<1>2. Backing \in Images /\ DataCells(us) \in Seq(Cells) /\ cur.rstart \in Nat
  BY <1>1, SessionFacts, DataCellsSeq
<1>3. g \in Images /\ Agree(Backing, g, cur.rstart)
  BY <1>2, WriteImage, WriteAgrees
<1> QED
  BY <1>3, PoolKept

\* A block: hashed, written behind the pool, taken.
LEMMA DataAppendBlock == IInv /\ DataInv /\ AppendBlock => DataInv'
<1> SUFFICES ASSUME IInv, DataInv, AppendBlock PROVE DataInv'
  OBVIOUS
<1>1. /\ pc = "append" /\ pc' = "append" /\ app.i < Blocks /\ hash' = hash \o Block
      /\ SetBacking(Write(Backing, pos, DataCells(BlockTail)))
      /\ pos' = pos + Len(BlockTail)
      /\ app' = [app EXCEPT !.i = @ + 1, !.total = Iobuf]
      /\ UNCHANGED <<meta, handle, dsize, res>>
  BY DEF AppendBlock
<1>2. InSession
  BY <1>1 DEF InSession
<1>3. app.total = 0 /\ BlockTail = Block /\ Block = SubSeq(app.src, 1, Iobuf) /\ Blocks = 1
      /\ app.i = 0 /\ Iobuf \in Nat \ {0} /\ Iobuf <= Len(app.src) /\ dsize \in Nat
      /\ app.src \in Seq(Units) /\ Run(app.src, res.name, dsize)
  BY <1>1, AppendFacts
<1>4. Block \in Seq(Units) /\ Len(Block) = Iobuf /\ Run(Block, res.name, dsize)
  <2>1. 1 \in Nat \ {0} /\ 1 <= Iobuf + 1 /\ dsize = dsize + 1 - 1 /\ Iobuf - 1 + 1 = Iobuf
    BY <1>3
  <2> QED
    BY <1>3, <2>1, PartRun
<1>5. Taken(dsize) /\ cur.rstart \in Nat /\ pos = cur.rstart + dsize
  <2>1. Taken(dsize + app.total) /\ dsize + app.total = dsize
    BY <1>1, <1>3, AppendFacts
  <2> QED
    BY <1>2, <2>1, SessionFacts DEF Taken
<1>6. cur.rstart + dsize + Len(Block) <= MaxFile /\ pos \in Nat /\ pos >= cur.rstart
  <2>1. cur.rstart + dsize + Len(app.src) <= MaxFile
    BY <1>1, AppendFacts
  <2>2. Len(Block) <= Len(app.src) /\ Len(Block) \in Nat /\ Len(app.src) \in Nat
    BY <1>3, <1>4
  <2>3. cur.rstart \in Nat /\ dsize \in Nat /\ pos = cur.rstart + dsize /\ MaxFile \in Nat
    BY <1>3, <1>5, ConstantFacts
  <2> QED
    BY <2>1, <2>2, <2>3
<1>7. ASSUME NEW m, m = dsize + Iobuf PROVE Taken(m)'
  <2>1. SetBacking(Write(Backing, pos, DataCells(Block))) /\ pos' = pos + Len(Block)
        /\ UNCHANGED <<handle, res>> /\ hash' = hash \o Block
    BY <1>1, <1>3
  <2>2. dsize \in Nat /\ m = dsize + Len(Block)
    BY <1>3, <1>4, <1>7
  <2> QED
    BY <1>2, <1>4, <1>5, <1>6, <2>1, <2>2, TakenMore
<1>8. BackupHeld' /\ SessionHeld' /\ ReadableHeld'
  <2>1. SetBacking(Write(Backing, pos, DataCells(Block))) /\ UNCHANGED <<meta, handle>>
        /\ pc \in InCall /\ pc' \in InCall
    BY <1>1, <1>3 DEF InCall
  <2> QED
    BY <1>4, <1>6, <2>1, PoolWrite
<1>9. app'.src = app.src /\ app'.i = 1 /\ app'.total = Iobuf
  <2>1. app \in [src : Seq(Units), i : Nat, total : {0, Iobuf}]
    BY DEF IInv, TypeOK
  <2> QED
    BY <1>1, <1>3, <2>1
<1>10. Blocks' = 1
  BY <1>3, <1>9 DEF Blocks
<1>11. Taken(dsize + app.total)'
  BY <1>1, <1>7, <1>9
<1>12. Building'
  BY <1>1, <1>9, <1>10, <1>11 DEF Building, DataInv, handle
<1>13. EntriesWritten'
  BY <1>1 DEF EntriesWritten
<1> QED
  BY <1>8, <1>12, <1>13 DEF DataInv

\* The rest, likewise.
LEMMA DataAppendRest == IInv /\ DataInv /\ AppendRest => DataInv'
<1> SUFFICES ASSUME IInv, DataInv, AppendRest PROVE DataInv'
  OBVIOUS
<1>1. /\ pc = "append" /\ pc' = "resource" /\ app.i = Blocks /\ hash' = hash \o Rest
      /\ SetBacking(Write(Backing, pos, DataCells(Rest)))
      /\ pos' = pos + Len(Rest) /\ dsize' = dsize + app.total + Len(Rest)
      /\ UNCHANGED <<meta, handle, res>>
  BY DEF AppendRest
<1>2. InSession
  BY <1>1 DEF InSession
<1> DEFINE k == Blocks * Iobuf
<1>3. /\ app.total = k /\ k \in Nat /\ k <= Len(app.src) /\ Len(app.src) \in Nat
      /\ dsize \in Nat /\ app.src \in Seq(Units) /\ Run(app.src, res.name, dsize)
      /\ Taken(dsize + k) /\ dsize + Len(app.src) = res.done
  BY <1>1, AppendFacts, ConstantFacts
<1>4. Rest = SubSeq(app.src, k + 1, Len(app.src))
  BY DEF Rest
<1> HIDE DEF k
<1>5. Rest \in Seq(Units) /\ Len(Rest) = Len(app.src) - k /\ Run(Rest, res.name, dsize + k)
  <2>1. \A n \in Nat : /\ k + 1 \in Nat \ {0} /\ dsize + k = dsize + (k + 1) - 1
                       /\ k <= n => k + 1 <= n + 1
                       /\ n - (k + 1) + 1 = n - k
    <3>1. k \in Nat /\ dsize \in Nat
      BY <1>3
    <3> QED
      BY <3>1
  <2> QED
    BY <1>3, <1>4, <2>1, PartRun
<1>6. dsize + k \in Nat /\ (dsize + k) + Len(Rest) = res.done /\ dsize' = (dsize + k) + Len(Rest)
  <2>1. \A d, n, c \in Nat : d + c \in Nat /\ (d + c) + (n - c) = d + n
    OBVIOUS
  <2>2. dsize \in Nat /\ k \in Nat /\ Len(app.src) \in Nat /\ Len(Rest) = Len(app.src) - k
        /\ dsize + Len(app.src) = res.done
    BY <1>3, <1>5
  <2>3. dsize' = (dsize + k) + Len(Rest)
    BY <1>1, <1>3
  <2>4. (dsize + k) + (Len(app.src) - k) = dsize + Len(app.src) /\ dsize + k \in Nat
    BY <2>1, <2>2
  <2> QED
    BY <2>2, <2>3, <2>4
<1>7. /\ cur.rstart \in Nat /\ pos \in Nat /\ pos >= cur.rstart
      /\ cur.rstart + (dsize + k) + Len(Rest) <= MaxFile
  <2>1. cur.rstart + dsize + Len(app.src) <= MaxFile /\ cur.rstart \in Nat
    BY <1>1, <1>2, AppendFacts, SessionFacts
  <2>2. Len(Rest) = Len(app.src) - k /\ k \in Nat /\ Len(app.src) \in Nat /\ dsize \in Nat
        /\ MaxFile \in Nat
    BY <1>3, <1>5, ConstantFacts
  <2>3. pos = cur.rstart + (dsize + k)
    BY <1>3 DEF Taken
  <2> QED
    BY <2>1, <2>2, <2>3
<1>8. ASSUME NEW m, m = (dsize + k) + Len(Rest) PROVE Taken(m)'
  <2>1. SetBacking(Write(Backing, pos, DataCells(Rest))) /\ pos' = pos + Len(Rest)
        /\ UNCHANGED <<handle, res>> /\ hash' = hash \o Rest
    BY <1>1
  <2>2. Taken(dsize + k) /\ dsize + k \in Nat
    BY <1>3, <1>6
  <2> QED
    BY <1>2, <1>5, <1>7, <1>8, <2>1, <2>2, TakenMore
<1>9. BackupHeld' /\ SessionHeld' /\ ReadableHeld'
  BY <1>1, <1>5, <1>7, PoolWrite DEF InCall
<1>10. dsize' = res'.done /\ Taken(dsize)'
  BY <1>1, <1>6, <1>8
<1>11. Building'
  BY <1>1, <1>10 DEF Building, DataInv, handle
<1>12. EntriesWritten'
  BY <1>1 DEF EntriesWritten
<1> QED
  BY <1>9, <1>11, <1>12 DEF DataInv

\* Whatever gives a resource up cuts the file behind the pool, or does not.
LEMMA DataGiveUp ==
  ASSUME IInv, DataInv, pc \in {"resource", "append"}, GiveUp, UNCHANGED <<meta, handle>>,
         SetBacking(Truncate(Backing, cur.rstart)) \/ UNCHANGED <<file, temp>>
  PROVE  DataInv'
<1>1. pc \in InCall /\ pc' \in InCall /\ pc' = "idle"
  BY DEF InCall, GiveUp
<1>2. Building' /\ EntriesWritten'
  BY <1>1 DEF Building, EntriesWritten
<1>3. BackupHeld' /\ SessionHeld' /\ ReadableHeld'
  <2>1. CASE SetBacking(Truncate(Backing, cur.rstart))
    <3>1. Backing \in Images /\ cur.rstart \in Nat
      BY BackingTyped DEF IInv
    <3>2. Truncate(Backing, cur.rstart) \in Images
          /\ Agree(Backing, Truncate(Backing, cur.rstart), cur.rstart)
      BY <3>1, TruncateImage, TruncateAgrees
    <3> QED
      BY <1>1, <2>1, <3>2, PoolKept
  <2>2. CASE UNCHANGED <<file, temp>>
    BY <1>1, <2>2, FilesKept
  <2> QED
    BY <2>1, <2>2
<1> QED
  BY <1>2, <1>3 DEF DataInv

\* So every failure of an append or a commit leaves the data where they were.
LEMMA DataFailures ==
  IInv /\ DataInv /\ (AppendFail \/ CommitRefused \/ CommitUndone \/ CallRollback
                      \/ AddFileRefused \/ AddFileReadError) => DataInv'
<1>1. ASSUME IInv, DataInv, AppendFail \/ CommitRefused \/ CallRollback PROVE DataInv'
  <2>1. pc \in {"resource", "append"} /\ GiveUp /\ UNCHANGED <<meta, handle>>
        /\ SetBacking(Truncate(Backing, cur.rstart))
    BY <1>1 DEF AppendFail, CommitRefused, CallRollback, Rollback
  <2> QED
    BY <1>1, <2>1, DataGiveUp
<1>2. ASSUME IInv, DataInv, CommitUndone PROVE DataInv'
  <2>1. pc = "resource" /\ GiveUp /\ UNCHANGED <<meta, mode, hdr, table>>
    BY <1>2 DEF CommitUndone
  <2>2. cur' = cur
    <3>1. Arith(cur) /\ cur \in Counters /\ dsize \in Nat
      BY <1>2, <2>1, BusyMeta DEF InSession, IInv, TypeOK
    <3> QED
      BY <1>2, <3>1, AdvanceFacts DEF CommitUndone
  <2>3. SetBacking(Truncate(Backing, cur.rstart))
    BY <1>2, <2>2 DEF CommitUndone
  <2> QED
    BY <1>2, <2>1, <2>2, <2>3, DataGiveUp DEF handle
<1>3. ASSUME IInv, DataInv, AddFileRefused \/ AddFileReadError PROVE DataInv'
  <2>1. pc \in {"resource", "append"} /\ GiveUp /\ UNCHANGED <<meta, handle, file, temp>>
    BY <1>3 DEF AddFileRefused, AddFileReadError, disk
  <2> QED
    BY <1>3, <2>1, DataGiveUp
<1> QED
  BY <1>1, <1>2, <1>3

-----------------------------------------------------------------------------
(* Committing, deleting and exporting *)

\* A new table in the backup, whose data are in the file as it is.
LEMMA TableReplaced ==
  ASSUME IInv, DataInv, pc \in InCall, UNCHANGED <<file, temp, mode>>,
         pc' \in {"idle", "resource"},
         NEW c, NEW t, meta' = Meta(Owner, c, t), cur' = c, table' = t,
         Held(t, Backing), InPool(t, c.psize), c.filesize <= MaxFile
  PROVE  BackupHeld' /\ SessionHeld' /\ ReadableHeld' /\ EntriesWritten'
<1>1. InSession /\ Owner \in {"file", "temp"}
  BY BackingTyped DEF InSession, InCall, IInv
<1>2. meta'.own = Owner /\ meta'.table = t
  BY DEF Meta
<1>3. Backing' = Backing /\ Image' = Backing
  BY DEF Backing, Image
<1>4. SessionHeld'
  BY <1>3 DEF SessionHeld
<1>5. BackupHeld'
  BY <1>2, <1>3 DEF BackupHeld, Owner, Backing
<1> QED
  BY <1>1, <1>2, <1>4, <1>5 DEF ReadableHeld, EntriesWritten

\* A commit lists what has been taken, and nothing else changes.
LEMMA DataCommitNewResource == IInv /\ DataInv /\ CommitNewResource => DataInv'
<1> SUFFICES ASSUME IInv, DataInv, CommitNewResource PROVE DataInv'
  OBVIOUS
<1> DEFINE c == Advance(cur, dsize)
           t == Append(table, NewEntry)
<1>1. pc = "resource" /\ pc' = "idle" /\ UNCHANGED <<file, temp, mode>>
      /\ cur' = c /\ table' = t /\ meta' = Meta(Owner, c, t)
      /\ res.done = res.len
  BY DEF CommitNewResource, GiveUp
<1>2. InSession /\ pc \in InCall /\ Image = Backing
  BY <1>1 DEF InSession, InCall, Image
<1>3. /\ cur.rstart = PoolStart + cur.psize /\ cur.psize \in Nat /\ cur.entries \in Nat
      /\ table \in Seq(Entries) /\ Held(table, Backing) /\ InPool(table, cur.psize)
  BY <1>2, SessionFacts
<1>4. dsize = res.done /\ Taken(dsize) /\ dsize \in Nat
      /\ cur.rstart + res.len + TblSize + (cur.entries + 1) * EntSize <= MaxFile
  BY <1>1 DEF DataInv, Building, IInv, TypeOK
<1>5. /\ NewEntry \in Entries /\ NewEntry.off = cur.psize /\ NewEntry.size = dsize
      /\ NewEntry.digest = hash
  BY <1>1, NewEntryTyped DEF NewEntry, IInv, Named
<1>6. Intact(NewEntry, Backing)
  BY <1>3, <1>4, <1>5 DEF Intact, Taken
<1>7. c.psize = cur.psize + dsize
      /\ c.filesize = PoolStart + c.psize + TblSize + (cur.entries + 1) * EntSize
  BY DEF Advance
<1>8. c.filesize <= MaxFile
  BY <1>1, <1>3, <1>4, <1>7 DEF PoolStart, TblSize, EntSize
<1>9. ASSUME NEW i \in 1..Len(t), t[i].id # 0
      PROVE  Intact(t[i], Backing) /\ t[i].off + t[i].size <= cur.psize + dsize
  <2>1. CASE i \in 1..Len(table)
    <3>1. t[i] = table[i] /\ table[i] \in Entries
      BY <1>3, <1>5, <2>1
    <3>2. Intact(table[i], Backing) /\ table[i].off + table[i].size <= cur.psize
      BY <1>3, <1>9, <2>1, <3>1 DEF Held, InPool
    <3>3. table[i].off \in Nat /\ table[i].size \in Nat
      BY <3>1 DEF Entries
    <3> QED
      BY <1>3, <1>4, <3>1, <3>2, <3>3
  <2>2. CASE i \notin 1..Len(table)
    <3>1. t[i] = NewEntry
      BY <1>3, <1>5, <2>2
    <3> QED
      BY <1>3, <1>4, <1>5, <1>6, <3>1
  <2> QED
    BY <2>1, <2>2
<1> HIDE DEF t
<1>10. Held(t, Backing) /\ InPool(t, c.psize)
  BY <1>7, <1>9 DEF Held, InPool
<1> HIDE DEF c
<1>11. BackupHeld' /\ SessionHeld' /\ ReadableHeld' /\ EntriesWritten'
  BY <1>1, <1>2, <1>8, <1>10, TableReplaced
<1>12. Building'
  BY <1>1 DEF Building
<1> QED
  BY <1>11, <1>12 DEF DataInv

\* A deletion unlists one entry.
LEMMA DataDelete ==
  ASSUME IInv, DataInv, NEW i \in Nat, Delete(i)
  PROVE  DataInv'
<1> DEFINE t == [table EXCEPT ![i] = Deleted]
<1>1. pc \in {"idle", "resource"} /\ pc' = pc /\ UNCHANGED <<file, temp, mode, cur, pending>>
      /\ table' = t /\ meta' = Meta(Owner, cur, t) /\ i \in 1..cur.entries
  BY DEF Delete
<1>2. InSession /\ pc \in InCall /\ Image = Backing
  BY <1>1 DEF InSession, InCall, Image
<1>3. table \in Seq(Entries) /\ Held(table, Backing) /\ InPool(table, cur.psize)
      /\ cur.filesize <= MaxFile /\ Len(table) = cur.entries
  BY <1>2, SessionFacts
<1>4. Held(t, Backing) /\ InPool(t, cur.psize)
  <2>1. Len(t) = Len(table)
    BY <1>3
  <2>2. ASSUME NEW j \in 1..Len(table) PROVE t[j] = IF j = i THEN Deleted ELSE table[j]
    BY <1>3
  <2> QED
    BY <1>3, <2>1, <2>2, DeletedIsEntry DEF Held, InPool
<1> HIDE DEF t
<1>5. BackupHeld' /\ SessionHeld' /\ ReadableHeld' /\ EntriesWritten'
  BY <1>1, <1>2, <1>3, <1>4, TableReplaced
<1>6. Building'
  BY <1>1 DEF Building, DataInv, Taken, Backing, pending
<1> QED
  BY <1>5, <1>6 DEF DataInv

\* An export reads.
LEMMA DataExport ==
  ASSUME IInv, DataInv, NEW i \in Nat, Export(i)
  PROVE  DataInv'
<1>1. pc = "idle" /\ pc' = "idle" /\ UNCHANGED <<meta, handle, file, temp>>
  BY DEF Export, disk
<1>2. BackupHeld' /\ SessionHeld' /\ ReadableHeld'
  BY <1>1, FilesKept DEF InCall
<1> QED
  BY <1>1, <1>2 DEF DataInv, EntriesWritten, Building

-----------------------------------------------------------------------------
(* Closing *)

\* The headers are written in front of the pool.
LEMMA DataCloseHeaders == IInv /\ DataInv /\ (CloseHeader \/ CloseDetachedHeader) => DataInv'
<1> SUFFICES ASSUME IInv, DataInv, CloseHeader \/ CloseDetachedHeader PROVE DataInv'
  OBVIOUS
<1>1. pc \in InCall /\ pc' \in {"hdr", "dhdr"} /\ UNCHANGED <<meta, handle>>
  BY DEF CloseHeader, CloseDetachedHeader, InCall
<1>2. Building' /\ EntriesWritten'
  BY <1>1 DEF Building, EntriesWritten
<1>3. Backing \in Images /\ <<HdrCell(hdr)>> \in Seq(Cells) /\ <<DhdrCell(hdr)>> \in Seq(Cells)
      /\ cur.rstart \in Nat
  BY BackingTyped, CellsMade DEF IInv
<1>4. ASSUME NEW off \in {0, 1}, NEW s \in Seq(Cells), Len(s) = 1,
             SetBacking(Write(Backing, off, s))
      PROVE  BackupHeld' /\ SessionHeld' /\ ReadableHeld'
  <2>1. off + Len(s) <= PoolStart /\ off \in Nat
    BY <1>4 DEF PoolStart
  <2>2. Write(Backing, off, s) \in Images /\ Agree(Backing, Write(Backing, off, s), cur.rstart)
    BY <1>3, <2>1, WriteImage, WriteAgrees
  <2> QED
    BY <1>1, <1>4, <2>2, PoolKept DEF InCall
<1>5. BackupHeld' /\ SessionHeld' /\ ReadableHeld'
  BY <1>3, <1>4 DEF CloseHeader, CloseDetachedHeader
<1> QED
  BY <1>2, <1>5 DEF DataInv

\* The table is written behind it, all entries of it.
LEMMA DataCloseTable == IInv /\ DataInv /\ CloseTable => DataInv'
<1> SUFFICES ASSUME IInv, DataInv, CloseTable PROVE DataInv'
  OBVIOUS
<1> DEFINE s == TableCells(hdr, table)
           g == Write(Backing, cur.rstart, s)
<1>1. pc = "dhdr" /\ pc' = "rtbl" /\ SetBacking(g) /\ UNCHANGED <<meta, handle, pending>>
  BY DEF CloseTable
<1>2. InSession /\ pc \in InCall /\ pc' \in InCall
  BY <1>1 DEF InSession, InCall
<1>3. /\ cur = hdr /\ cur.rstart \in Nat /\ hdr.entries \in Nat /\ Backing \in Images
      /\ table \in Seq(Entries) /\ Len(table) = hdr.entries
      /\ hdr.rstart + 1 + hdr.entries <= MaxFile
  BY <1>2, SessionFacts
<1>4. s \in Seq(Cells) /\ Len(s) = 1 + hdr.entries
  BY <1>3, TableCellsSeq, BackingTyped DEF IInv
<1>5. ASSUME NEW i \in 1..hdr.entries PROVE s[i + 1] = EntCell(table[i])
  BY <1>3 DEF TableCells
<1> HIDE DEF s
<1>6. g \in Images /\ Agree(Backing, g, cur.rstart)
  BY <1>3, <1>4, WriteImage, WriteAgrees
<1>7. ASSUME NEW i \in 1..hdr.entries PROVE g.at[hdr.rstart + i] = EntCell(table[i])
  <2>1. i + 1 \in 1..Len(s) /\ cur.rstart + (i + 1) - 1 = hdr.rstart + i
        /\ hdr.rstart + i \in Offsets
    BY <1>3, <1>4, ConstantFacts DEF Offsets
  <2>2. g.at[cur.rstart + (i + 1) - 1] = s[i + 1]
    BY <1>3, <1>4, <2>1, WrittenCells
  <2> QED
    BY <1>5, <2>1, <2>2
<1> HIDE DEF g
<1>8. BackupHeld' /\ SessionHeld' /\ ReadableHeld'
  BY <1>1, <1>2, <1>6, PoolKept
<1>9. EntriesWritten'
  <2>1. Image' = g
    BY <1>1, <1>6, SetBackingFacts DEF Image, handle, IInv
  <2> QED
    BY <1>1, <1>7, <2>1 DEF EntriesWritten, handle
<1>10. Building'
  BY <1>1 DEF Building
<1> QED
  BY <1>8, <1>9, <1>10 DEF DataInv

\* The rename moves the session's file, as it is.
LEMMA DataCloseCommit == IInv /\ DataInv /\ CloseCommit => DataInv'
<1> SUFFICES ASSUME IInv, DataInv, CloseCommit PROVE DataInv'
  OBVIOUS
<1>1. pc = "rtbl" /\ pc' = "unlink" /\ UNCHANGED <<meta, handle>>
  BY DEF CloseCommit
<1>2. InSession /\ Image = Backing
  BY <1>1 DEF InSession, Image
<1>3. Image' = Backing
  BY <1>1, <1>2, SessionFacts DEF CloseCommit, Image, Backing
<1>4. SessionHeld' /\ EntriesWritten'
  BY <1>1, <1>2, <1>3 DEF DataInv, SessionHeld, EntriesWritten, handle
<1>5. BackupHeld'
  BY <1>1, <1>2, SessionFacts DEF DataInv, BackupHeld, CloseCommit, Owner
<1>6. meta'.own \in {"file", "temp"}
  BY <1>1, <1>2, BusyMeta
<1> QED
  BY <1>1, <1>4, <1>5, <1>6 DEF DataInv, ReadableHeld, Building

\* A finished close has left the session's counters, table and data.
LEMMA ClosedFile ==
  ASSUME IInv, DataInv, pc = "unlink", Valid(file)
  PROVE  CountersOf(file) = hdr /\ TableOf(file) = table
<1>1. CountersOf(file) = hdr
  BY WrittenCounters
<1>2. InSession /\ Image = file
  BY DEF InSession, Image
<1>3. /\ cur = hdr /\ hdr.rstart \in Nat /\ hdr.entries \in Nat /\ table \in Seq(Entries)
      /\ Len(table) = hdr.entries /\ hdr.rstart + 1 + hdr.entries <= MaxFile
  BY <1>2, SessionFacts
<1>4. file.at[1].rstart = hdr.rstart
  BY <1>1 DEF CountersOf
<1>5. ASSUME NEW i \in 1..hdr.entries PROVE EntryAt(file, hdr.rstart + i) = table[i]
  <2>1. hdr.rstart + i \in Offsets
    BY <1>3, ConstantFacts DEF Offsets
  <2>2. file.at[hdr.rstart + i] = EntCell(table[i])
    BY <1>2 DEF DataInv, EntriesWritten
  <2> QED
    BY <2>1, <2>2 DEF EntryAt, Cell, EntCell
<1>6. TableOf(file) = [i \in 1..hdr.entries |-> table[i]]
  BY <1>1, <1>4, <1>5 DEF TableOf
<1> QED
  BY <1>1, <1>3, <1>6

\* Without a backup the container holds what its table lists.
LEMMA DataCloseUnlink == IInv /\ DataInv /\ CloseUnlink => DataInv'
<1> SUFFICES ASSUME IInv, DataInv, CloseUnlink PROVE DataInv'
  OBVIOUS
<1>1. pc = "unlink" /\ meta' = NoMeta /\ pc' = "closed" /\ UNCHANGED file
  BY DEF CloseUnlink, BackupDone, Forget
<1>2. InSession /\ Image = file
  BY <1>1 DEF InSession, Image
<1>3. cur = hdr /\ Held(table, file) /\ InPool(table, hdr.psize) /\ hdr.filesize <= MaxFile
  BY <1>2, SessionFacts
<1>4. Valid(file) => /\ Held(TableOf(file), file) /\ InPool(TableOf(file), CountersOf(file).psize)
                     /\ CountersOf(file).filesize <= MaxFile
  BY <1>1, <1>3, ClosedFile
<1>5. ReadableHeld'
  BY <1>1, <1>4 DEF ReadableHeld
<1>6. BackupHeld'
  BY <1>1, NoMetaTyped DEF BackupHeld
<1> QED
  BY <1>1, <1>5, <1>6 DEF DataInv, SessionHeld, EntriesWritten, Building, InSession

\* A close that fails, in the middle of the table even, leaves the pool.
LEMMA DataCloseFail == IInv /\ DataInv /\ CloseFail => DataInv'
<1> SUFFICES ASSUME IInv, DataInv, CloseFail PROVE DataInv'
  OBVIOUS
<1>1. InSession /\ Forget /\ UNCHANGED meta /\ pc \in InCall
  BY DEF CloseFail, InSession, InCall
<1>2. ASSUME NEW k \in 0..cur.entries, mode = "inplace",
             file' = Write(file, cur.rstart, SubSeq(TableCells(hdr, table), 1, k))
      PROVE  meta.own = "file" /\ Held(meta.table, file')
  <2>1. /\ cur.rstart = PoolStart + cur.psize /\ cur.rstart \in Nat /\ cur.entries \in Nat
        /\ cur = hdr /\ cur.psize \in Nat
        /\ table \in Seq(Entries) /\ Len(table) = hdr.entries
        /\ meta.own = Owner /\ meta.table = table
        /\ Held(table, Image) /\ InPool(table, cur.psize)
    BY <1>1, SessionFacts
  <2>2. Image = file /\ Owner = "file" /\ file \in Images
    BY <1>1, <1>2 DEF Image, Backing, Owner, InCall, IInv, TypeOK
  <2>3. TableCells(hdr, table) \in Seq(Cells) /\ Len(TableCells(hdr, table)) = 1 + cur.entries
    BY <2>1, BackingTyped, TableCellsSeq DEF IInv
  <2>4. k \in Nat /\ k <= 1 + cur.entries /\ 1 <= k + 1
    BY <2>1
  <2>5. SubSeq(TableCells(hdr, table), 1, k) \in Seq(Cells)
    BY <2>3, <2>4, SubSeqTyped
  <2>6. Agree(file, file', cur.rstart)
    <3> DEFINE s == SubSeq(TableCells(hdr, table), 1, k)
    <3>1. s \in Seq(Cells) /\ file' = Write(file, cur.rstart, s)
      BY <1>2, <2>5
    <3> HIDE DEF s
    <3> QED
      BY <2>1, <2>2, <3>1, WriteAgrees
  <2>7. Held(table, file')
    BY <2>1, <2>2, <2>6, HeldKept
  <2> QED
    BY <2>1, <2>2, <2>7
<1>3. UNCHANGED file \/ (meta.own = "file" /\ Held(meta.table, file'))
  BY <1>2 DEF CloseFail
<1> QED
  BY <1>1, <1>3, EndKept

\* So does the end of the process, wherever it comes.
LEMMA DataCrash == IInv /\ DataInv /\ (CloseRenameFail \/ Crash) => DataInv'
<1> SUFFICES ASSUME IInv, DataInv, CloseRenameFail \/ Crash PROVE DataInv'
  OBVIOUS
<1>1. Forget /\ UNCHANGED <<file, meta>>
  BY DEF CloseRenameFail, Crash
<1> QED
  BY <1>1, EndKept

-----------------------------------------------------------------------------
(* The data are where the tables say *)

\* Every step of a session, every failure and a crash keep the invariant.
LEMMA DataNext == ShortAppends /\ IInv /\ DataInv /\ [Next]_vars => DataInv'
<1> SUFFICES ASSUME ShortAppends, IInv, DataInv, [Next]_vars PROVE DataInv'
  OBVIOUS
<1>1. CASE Create
  BY <1>1, DataCreate
<1>2. CASE Open
  BY <1>2, DataProbe, DataOpenRead DEF Open
<1>3. CASE Add
  BY <1>3, DataInitNewResource, DataAppendStart, DataAppendBlock, DataAppendRest,
     DataFailures, DataCommitNewResource DEF Add
<1>4. CASE Close
  BY <1>4, DataCloseHeaders, DataCloseTable, DataCloseCommit, DataCloseUnlink,
     DataCloseFail, DataCrash DEF Close
<1>5. CASE Crash
  BY <1>5, DataCrash
<1>6. CASE \E i \in 1..MaxEntries : Delete(i) \/ Export(i)
  BY <1>6, PresAssumption, DataDelete, DataExport
<1>7. CASE UNCHANGED vars
  BY <1>7 DEF vars, DataInv, BackupHeld, SessionHeld, ReadableHeld, EntriesWritten,
     Building, Taken, InSession, Image, Backing, Blocks
<1> QED
  BY <1>1, <1>2, <1>3, <1>4, <1>5, <1>6, <1>7 DEF Next

\* DataInv holds in every reachable state of every instance with short appends.
THEOREM DataInvariant == ASSUME ShortAppends PROVE Spec => [](IInv /\ DataInv)
<1>1. Init => IInv /\ DataInv
  BY IInvInit, DataInit
<1>2. (IInv /\ DataInv) /\ [Next]_vars => (IInv /\ DataInv)'
  BY IInvNext, DataNext
<1> QED
  BY <1>1, <1>2, PTL DEF Spec

\* A backup lists only what is in the container, whatever a session has done to
\* the file and wherever it ended: it can be repaired.
THEOREM BackupRecovers == ASSUME ShortAppends PROVE Spec => []Recoverable
<1>1. IInv /\ DataInv => Recoverable
  BY DEF DataInv, BackupHeld, Held, Recoverable
<1> QED
  BY DataInvariant, <1>1, PTL

\* What a commit has reported stored can be exported, to the end of the session.
THEOREM CommittedCanBeExported == ASSUME ShortAppends PROVE Spec => []CommittedExports
<1>1. ASSUME IInv, DataInv PROVE CommittedExports
  <2> SUFFICES ASSUME Writing, NEW i \in 1..cur.entries, table[i].id # 0
               PROVE  Intact(table[i], Backing)
    BY DEF CommittedExports
  <2>1. InSession /\ Image = Backing
    BY DEF Writing, Image
  <2>2. Held(table, Backing) /\ Len(table) = cur.entries
    BY <1>1, <2>1, SessionFacts
  <2> QED
    BY <2>2 DEF Held
<1> QED
  BY DataInvariant, <1>1, PTL

-----------------------------------------------------------------------------
(* What a session acknowledges *)

\* What a reader makes of a table whose data are there.
LEMMA SlotsHeld ==
  ASSUME NEW t, NEW f, Held(t, f)
  PROVE  Slots(t, f) = SlotsIn(t)
  BY DEF Slots, SlotOf, SlotsIn, Held

\* Slots are named sequences of units.
SlotSet == [name : Names \union {"deleted"}, data : Seq(Units)]

\* The slots of a table are, and what is added to a container.
LEMMA SlotsTyped ==
  /\ \A t \in Seq(Entries) : SlotsIn(t) \in Seq(SlotSet) /\ Len(SlotsIn(t)) = Len(t)
  /\ \A r \in Names, n \in Nat : Slot(r, n) \in SlotSet
<1>1. ASSUME NEW t \in Seq(Entries)
      PROVE  SlotsIn(t) \in Seq(SlotSet) /\ Len(SlotsIn(t)) = Len(t)
  <2>1. ASSUME NEW i \in 1..Len(t)
        PROVE  (IF t[i].id = 0 THEN Hole
                ELSE [name |-> t[i].name, data |-> t[i].digest]) \in SlotSet
    <3>1. t[i] \in Entries
      BY ElementOfSeq
    <3>2. t[i].name \in Names \union {"deleted"} /\ t[i].digest \in Seq(Units)
      BY <3>1 DEF Entries
    <3>3. <<>> \in Seq(Units)
      OBVIOUS
    <3> QED
      BY <3>2, <3>3 DEF SlotSet, Hole
  <2>2. Len(t) \in Nat
    OBVIOUS
  <2> QED
    BY <2>1, <2>2 DEF SlotsIn
<1>2. ASSUME NEW r \in Names, NEW n \in Nat PROVE Slot(r, n) \in SlotSet
  BY ContentTyped DEF Slot, SlotSet
<1> QED
  BY <1>1, <1>2

\* The slots of a table that a commit has extended.
LEMMA SlotsAppended ==
  ASSUME NEW t \in Seq(Entries), NEW e \in Entries, e.id # 0,
         NEW r \in Names, NEW n \in Nat, e.name = r, e.digest = Content(r, n)
  PROVE  SlotsIn(Append(t, e)) = Append(SlotsIn(t), Slot(r, n))
<1> DEFINE s == SlotsIn(t)
           u == SlotsIn(Append(t, e))
           v == Append(s, Slot(r, n))
<1>1. /\ Append(t, e) \in Seq(Entries) /\ Len(Append(t, e)) = Len(t) + 1 /\ Len(t) \in Nat
      /\ Append(t, e)[Len(t) + 1] = e /\ \A i \in 1..Len(t) : Append(t, e)[i] = t[i]
  OBVIOUS
<1>2. s \in Seq(SlotSet) /\ Len(s) = Len(t) /\ Slot(r, n) \in SlotSet
      /\ u \in Seq(SlotSet) /\ Len(u) = Len(t) + 1
  BY <1>1, SlotsTyped
<1>3. /\ v \in Seq(SlotSet) /\ Len(v) = Len(t) + 1
      /\ v[Len(t) + 1] = Slot(r, n) /\ \A i \in 1..Len(t) : v[i] = s[i]
  <2> HIDE DEF s
  <2> QED
    BY <1>2, AppendProperties
<1>4. ASSUME NEW i \in 1..(Len(t) + 1) PROVE u[i] = v[i]
  <2>1. CASE i \in 1..Len(t)
    <3>1. u[i] = s[i]
      BY <1>1, <2>1 DEF SlotsIn
    <3> QED
      BY <1>3, <2>1, <3>1
  <2>2. CASE i \notin 1..Len(t)
    <3>1. i = Len(t) + 1 /\ u[i] = [name |-> e.name, data |-> e.digest]
      BY <1>1, <2>2 DEF SlotsIn
    <3> QED
      BY <1>3, <3>1 DEF Slot
  <2> QED
    BY <2>1, <2>2
<1> HIDE DEF u, v
<1>5. u = v
  BY <1>2, <1>3, <1>4, SeqEqual
<1> QED
  BY <1>5 DEF u, v

\* Writing up to n leaves a file that ends at n or before ...
LEMMA ShortWrite ==
  ASSUME NEW f \in Images, NEW off \in Nat, NEW s \in Seq(Cells), NEW n \in Nat,
         f.size <= n, off + Len(s) <= n
  PROVE  Write(f, off, s).size <= n
  BY WrittenSize

\* ... and cutting it at n one that ends there.
LEMMA TruncatedSize ==
  ASSUME NEW f, NEW n
  PROVE  Truncate(f, n).size = n
  BY DEF Truncate

\* A step within a session that commits nothing.
LEMMA ReportKept ==
  ASSUME ReportInv, InSession, InSession', UNCHANGED <<acked, table>>, Tight'
  PROVE  ReportInv'
  BY DEF ReportInv

\* A session that ends, or has not begun.
LEMMA ReportOutside ==
  ASSUME pc' \in {"closed", "probed", "opening"}, mode' = "none"
  PROVE  ReportInv'
  BY DEF ReportInv, Tight, InSession

\* Outside of sessions nothing is promised.
LEMMA ReportOthers ==
  /\ Init => ReportInv
  /\ ReportInv /\ (OpenProbe \/ OpenUnprobe \/ OpenFail) => ReportInv'
  /\ ReportInv /\ (CloseUnlink \/ CloseFail \/ CloseRenameFail \/ Crash) => ReportInv'
<1>1. Init => ReportInv
  BY DEF Init, ReportInv, Tight, InSession
<1>2. ReportInv /\ (OpenProbe \/ OpenUnprobe \/ OpenFail) => ReportInv'
  BY ReportOutside DEF OpenProbe, OpenUnprobe, OpenFail, ReportInv, InSession, handle
<1>3. ReportInv /\ (CloseUnlink \/ CloseFail \/ CloseRenameFail \/ Crash) => ReportInv'
  BY ReportOutside DEF CloseUnlink, CloseFail, CloseRenameFail, Crash, Forget
<1> QED
  BY <1>1, <1>2, <1>3

\* A created container has no slots, an opened one those that it holds.
LEMMA ReportStart == IInv /\ DataInv /\ (Create \/ OpenRead) => ReportInv'
<1>1. ASSUME Create PROVE ReportInv'
  <2>1. pc' = "idle" /\ mode' = "created" /\ temp' = Empty /\ table' = <<>> /\ acked' = <<>>
        /\ cur' = Fresh
    BY <1>1 DEF Create
  <2>2. acked' = SlotsIn(table')
    BY <2>1 DEF SlotsIn
  <2>3. Backing'.size = 0 /\ cur'.filesize = 3
    BY <2>1 DEF Backing, Empty, Fresh, PoolStart, TblSize
  <2>4. Tight'
    BY <2>1, <2>3 DEF Tight
  <2> QED
    BY <2>1, <2>2, <2>4 DEF ReportInv, InSession
<1>2. ASSUME IInv, DataInv, OpenRead PROVE ReportInv'
  <2>1. /\ pc' = "idle" /\ mode' = "inplace" /\ file' = file /\ table' = TableOf(file)
        /\ acked' = Slots(TableOf(file), file) /\ cur' = CountersOf(file) /\ Valid(file)
    BY <1>2 DEF OpenRead
  <2>2. Held(TableOf(file), file)
    BY <1>2, <2>1 DEF DataInv, ReadableHeld, IInv, Openable, OpenRead
  <2>3. acked' = SlotsIn(table')
    BY <2>1, <2>2, SlotsHeld
  <2>4. file.size \in Nat /\ cur'.filesize = file.size
    BY <1>2, <2>1 DEF Valid, HeaderOK, CountersOf, IInv, TypeOK, Images
  <2>5. Tight'
    BY <2>1, <2>4 DEF Tight, Backing
  <2> QED
    BY <2>1, <2>3, <2>5 DEF ReportInv, InSession
<1> QED
  BY <1>1, <1>2

\* What begins a resource, or hands over units of it, writes nothing.
LEMMA ReportBegin ==
  /\ \A r \in Names, n \in Lens, by \in {"add_file", "caller"} :
       ReportInv /\ InitNewResource(r, n, by) => ReportInv'
  /\ \A n \in AppendLens : ReportInv /\ AppendStart(n) => ReportInv'
<1>1. ASSUME ReportInv, NEW r \in Names, NEW n \in Lens, NEW by \in {"add_file", "caller"},
             InitNewResource(r, n, by)
      PROVE  ReportInv'
  <2>1. pc = "idle" /\ pc' = "resource" /\ UNCHANGED <<file, temp, mode, cur, table, acked>>
    BY <1>1 DEF InitNewResource, disk, handle
  <2>2. Tight' /\ InSession /\ InSession'
    BY <1>1, <2>1 DEF ReportInv, Tight, Backing, InSession
  <2> QED
    BY <1>1, <2>1, <2>2, ReportKept
<1>2. ASSUME ReportInv, NEW n \in AppendLens, AppendStart(n) PROVE ReportInv'
  <2>1. pc = "resource" /\ pc' = "append"
        /\ UNCHANGED <<file, temp, mode, cur, table, acked, pos>>
    BY <1>2 DEF AppendStart, disk, handle
  <2>2. Tight' /\ InSession /\ InSession'
    BY <1>2, <2>1 DEF ReportInv, Tight, Backing, InSession
  <2> QED
    BY <1>2, <2>1, <2>2, ReportKept
<1> QED
  BY <1>1, <1>2

\* What an append writes ends at the file offset, or within the old container.
LEMMA ReportAppend ==
  ASSUME IInv, DataInv, ReportInv, pc = "append", pc' \in {"resource", "append"},
         NEW us \in Seq(Units), SetBacking(Write(Backing, pos, DataCells(us))),
         pos' = pos + Len(us), UNCHANGED <<handle, acked>>
  PROVE  ReportInv'
<1> DEFINE g == Write(Backing, pos, DataCells(us))
<1>1. InSession /\ InSession' /\ UNCHANGED <<mode, table, cur>>
  BY DEF InSession, handle
<1>2. Backing \in Images /\ pos \in Nat /\ DataCells(us) \in Seq(Cells)
      /\ Len(DataCells(us)) = Len(us) /\ Len(us) \in Nat /\ cur.filesize \in Nat
  BY <1>1, SessionFacts, DataCellsSeq DEF IInv, TypeOK
<1>3. g \in Images /\ Backing.size \in Nat
  BY <1>2, WriteImage DEF Images
<1>4. Backing' = g
  BY <1>1, <1>3, SetBackingFacts DEF IInv
<1>5. g.size = Backing.size \/ g.size = pos'
  BY <1>2, WrittenSize
<1> HIDE DEF g
<1>6. Backing.size <= cur.filesize \/ Backing.size <= pos
  BY DEF ReportInv, Tight
<1>7. pos <= pos' /\ pos' \in Nat
  BY <1>2
<1>8. Backing'.size <= cur'.filesize \/ Backing'.size <= pos'
  BY <1>1, <1>2, <1>3, <1>4, <1>5, <1>6, <1>7
<1>9. Tight'
  BY <1>8 DEF Tight
<1> QED
  BY <1>1, <1>9, ReportKept

\* A failure cuts off what it leaves behind, or has written nothing yet.
LEMMA ReportFailures ==
  Told /\ IInv /\ DataInv /\ ReportInv
    /\ (AppendFail \/ CommitRefused \/ CommitUndone \/ CallRollback
        \/ AddFileRefused \/ AddFileReadError) => ReportInv'
<1> SUFFICES ASSUME Told, IInv, DataInv, ReportInv,
                    AppendFail \/ CommitRefused \/ CommitUndone \/ CallRollback
                    \/ AddFileRefused \/ AddFileReadError
             PROVE  ReportInv'
  OBVIOUS
<1>1. ~AddFileReadError
  BY DEF Told
<1>2. pc \in {"resource", "append"} /\ pc' = "idle" /\ UNCHANGED <<mode, table, acked>>
  BY <1>1 DEF AppendFail, CommitRefused, CommitUndone, CallRollback, AddFileRefused,
     GiveUp, handle
<1>3. InSession /\ InSession'
  BY <1>2 DEF InSession
<1>4. /\ cur.rstart \in Nat /\ cur.entries \in Nat /\ Backing \in Images
      /\ cur.filesize = cur.rstart + 1 + cur.entries
  BY <1>3, SessionFacts
<1>5. cur' = cur
  <2>1. CASE CommitUndone
    <3>1. Arith(cur) /\ cur \in Counters /\ dsize \in Nat
      BY <1>3, BusyMeta DEF IInv, TypeOK
    <3> QED
      BY <2>1, <3>1, AdvanceFacts DEF CommitUndone
  <2>2. CASE ~CommitUndone
    BY <1>1, <2>2 DEF AppendFail, CommitRefused, CallRollback, AddFileRefused, handle
  <2> QED
    BY <2>1, <2>2
<1>6. Backing'.size <= cur.filesize
  <2>1. CASE AddFileRefused
    <3>1. pc = "resource" /\ res.done = 0 /\ UNCHANGED <<file, temp>>
      BY <2>1 DEF AddFileRefused, disk
    <3>2. pos = cur.rstart
      BY <1>4, <3>1 DEF DataInv, Building, Taken
    <3>3. Backing.size <= cur.filesize \/ Backing.size <= pos
      BY <3>1 DEF ReportInv, Tight
    <3>4. Backing.size \in Nat
      BY <1>4 DEF Images
    <3>5. Backing.size <= cur.filesize
      BY <1>4, <3>2, <3>3, <3>4
    <3> QED
      BY <1>2, <3>1, <3>5 DEF Backing
  <2>2. CASE ~AddFileRefused
    <3>1. SetBacking(Truncate(Backing, cur.rstart))
      BY <1>1, <1>5, <2>2 DEF AppendFail, CommitRefused, CommitUndone, CallRollback, Rollback
    <3>2. Truncate(Backing, cur.rstart) \in Images
      BY <1>4, TruncateImage
    <3>3. Backing' = Truncate(Backing, cur.rstart)
      BY <1>2, <3>1, <3>2, SetBackingFacts DEF IInv
    <3> QED
      BY <1>4, <3>3, TruncatedSize
  <2> QED
    BY <2>1, <2>2
<1>7. Tight'
  BY <1>2, <1>5, <1>6 DEF Tight
<1> QED
  BY <1>2, <1>3, <1>7, ReportKept

\* A commit adds the slot that its caller handed over.
LEMMA ReportCommit == IInv /\ DataInv /\ ReportInv /\ CommitNewResource => ReportInv'
<1> SUFFICES ASSUME IInv, DataInv, ReportInv, CommitNewResource PROVE ReportInv'
  OBVIOUS
<1>1. /\ pc = "resource" /\ pc' = "idle" /\ UNCHANGED <<file, temp, mode>>
      /\ cur' = Advance(cur, dsize) /\ table' = Append(table, NewEntry)
      /\ acked' = Append(acked, Slot(res.name, res.len)) /\ res.done = res.len
  BY DEF CommitNewResource, GiveUp
<1>2. InSession /\ InSession'
  BY <1>1 DEF InSession
<1>3. /\ cur.rstart \in Nat /\ cur.entries \in Nat /\ cur.psize \in Nat /\ Backing \in Images
      /\ cur.filesize = cur.rstart + 1 + cur.entries /\ cur.rstart = PoolStart + cur.psize
      /\ table \in Seq(Entries)
  BY <1>2, SessionFacts
<1>4. dsize = res.len /\ Taken(dsize) /\ dsize \in Nat /\ hash \in Seq(Units)
  BY <1>1 DEF DataInv, Building, IInv, TypeOK
<1>5. NewEntry \in Entries /\ NewEntry.id # 0 /\ NewEntry.name = res.name
      /\ NewEntry.digest = hash
  BY <1>1, <1>3, NewEntryTyped DEF NewEntry, IInv, Named
<1>6. hash = Content(res.name, res.len)
  <2>1. Len(hash) = res.len /\ \A j \in 1..res.len : hash[j] = <<res.name, j>>
    BY <1>4 DEF Taken
  <2>2. hash = [j \in 1..Len(hash) |-> hash[j]]
    BY <1>4
  <2> QED
    BY <2>1, <2>2 DEF Content
<1>7. SlotsIn(Append(table, NewEntry)) = Append(SlotsIn(table), Slot(res.name, res.len))
  <2>1. res.name \in Names /\ res.len \in Nat
    BY <1>1, <1>4 DEF IInv, Named
  <2> QED
    BY <1>3, <1>5, <1>6, <2>1, SlotsAppended
<1>8. acked' = SlotsIn(table')
  BY <1>1, <1>2, <1>7 DEF ReportInv
<1>9. Tight'
  <2>1. Backing.size <= cur.filesize \/ Backing.size <= pos
    BY <1>1 DEF ReportInv, Tight
  <2>2. Backing.size \in Nat /\ pos = cur.rstart + dsize
    BY <1>3, <1>4 DEF Images, Taken
  <2>3. cur'.filesize = PoolStart + (cur.psize + dsize) + TblSize + (cur.entries + 1) * EntSize
    BY <1>1 DEF Advance
  <2>4. \A b, r, p, e, d \in Nat :
          (b <= r + 1 + e \/ b <= r + d) /\ r = PoolStart + p =>
            b <= PoolStart + (p + d) + TblSize + (e + 1) * EntSize
    BY DEF PoolStart, TblSize, EntSize
  <2>5. Backing.size <= cur'.filesize
    <3>1. /\ Backing.size \in Nat /\ cur.rstart \in Nat /\ cur.psize \in Nat
          /\ cur.entries \in Nat /\ dsize \in Nat /\ cur.rstart = PoolStart + cur.psize
      BY <1>3, <1>4, <2>2
    <3>2. Backing.size <= cur.rstart + 1 + cur.entries \/ Backing.size <= cur.rstart + dsize
      BY <1>3, <2>1, <2>2
    <3> QED
      BY <2>3, <2>4, <3>1, <3>2
  <2> QED
    BY <1>1, <2>5 DEF Tight, Backing
<1> QED
  BY <1>1, <1>2, <1>8, <1>9 DEF ReportInv

\* A deletion makes a hole.
LEMMA ReportDelete ==
  ASSUME IInv, DataInv, ReportInv, NEW i \in Nat, Delete(i)
  PROVE  ReportInv'
<1>1. /\ pc \in {"idle", "resource"} /\ pc' = pc /\ UNCHANGED <<file, temp, mode, cur, pos>>
      /\ table' = [table EXCEPT ![i] = Deleted] /\ acked' = [acked EXCEPT ![i] = Hole]
      /\ i \in 1..cur.entries
  BY DEF Delete, pending
<1>2. InSession /\ InSession'
  BY <1>1 DEF InSession
<1>3. table \in Seq(Entries) /\ Len(table) = cur.entries /\ acked = SlotsIn(table)
  BY <1>2, SessionFacts DEF ReportInv
<1>4. acked' = SlotsIn(table')
  <2>1. Len(table') = Len(table)
        /\ \A j \in 1..Len(table) : table'[j] = IF j = i THEN Deleted ELSE table[j]
    BY <1>1, <1>3
  <2>2. acked' = [j \in 1..Len(table) |-> IF j = i THEN Hole ELSE acked[j]]
    BY <1>1, <1>3 DEF SlotsIn
  <2>3. ASSUME NEW j \in 1..Len(table)
        PROVE  (IF table'[j].id = 0 THEN Hole
                ELSE [name |-> table'[j].name, data |-> table'[j].digest])
               = IF j = i THEN Hole ELSE acked[j]
    BY <1>3, <2>1, DeletedIsEntry DEF SlotsIn
  <2> QED
    BY <2>1, <2>2, <2>3 DEF SlotsIn
<1>5. Tight'
  BY <1>1 DEF ReportInv, Tight, Backing
<1> QED
  BY <1>2, <1>4, <1>5 DEF ReportInv

\* An export changes neither.
LEMMA ReportExport ==
  ASSUME ReportInv, NEW i \in Nat, Export(i)
  PROVE  ReportInv'
<1>1. pc = "idle" /\ pc' = "idle" /\ UNCHANGED <<file, temp, mode, cur, table, acked>>
  BY DEF Export, disk, handle
<1>2. Tight' /\ InSession /\ InSession'
  BY <1>1 DEF ReportInv, Tight, Backing, InSession
<1> QED
  BY <1>1, <1>2, ReportKept

\* A close starts from a container with nothing behind its table.
LEMMA ReportCloseHeaders ==
  Told /\ IInv /\ DataInv /\ ReportInv /\ (CloseHeader \/ CloseDetachedHeader)
    => ReportInv'
<1> SUFFICES ASSUME Told, IInv, DataInv, ReportInv, CloseHeader \/ CloseDetachedHeader
             PROVE  ReportInv'
  OBVIOUS
<1>1. pc \in {"idle", "hdr"} /\ pc' \in {"hdr", "dhdr"}
      /\ UNCHANGED <<mode, cur, table, acked>>
  BY DEF CloseHeader, CloseDetachedHeader, Told, handle
<1>2. InSession /\ InSession'
  BY <1>1 DEF InSession
<1>3. /\ Backing \in Images /\ cur.filesize \in Nat /\ cur.filesize >= 2
      /\ <<HdrCell(hdr)>> \in Seq(Cells) /\ <<DhdrCell(hdr)>> \in Seq(Cells)
  BY <1>2, SessionFacts, BackingTyped, CellsMade DEF PoolStart, IInv
<1>4. Backing.size <= cur.filesize
  BY <1>1 DEF ReportInv, Tight
<1>5. ASSUME NEW off \in {0, 1}, NEW s \in Seq(Cells), Len(s) = 1,
             SetBacking(Write(Backing, off, s))
      PROVE  Backing'.size <= cur.filesize
  <2>1. off \in Nat /\ off + Len(s) <= cur.filesize
    BY <1>3, <1>5
  <2>2. Write(Backing, off, s) \in Images /\ Write(Backing, off, s).size <= cur.filesize
    BY <1>3, <1>4, <2>1, WriteImage, ShortWrite
  <2> QED
    BY <1>1, <1>5, <2>2, SetBackingFacts DEF IInv
<1>6. Backing'.size <= cur.filesize
  BY <1>3, <1>5 DEF CloseHeader, CloseDetachedHeader
<1>7. Tight'
  BY <1>1, <1>6 DEF Tight
<1> QED
  BY <1>1, <1>2, <1>7, ReportKept

\* The table is the end of the file.
LEMMA ReportCloseTable == IInv /\ DataInv /\ ReportInv /\ CloseTable => ReportInv'
<1> SUFFICES ASSUME IInv, DataInv, ReportInv, CloseTable PROVE ReportInv'
  OBVIOUS
<1> DEFINE s == TableCells(hdr, table)
           g == Write(Backing, cur.rstart, s)
<1>1. pc = "dhdr" /\ pc' = "rtbl" /\ SetBacking(g) /\ UNCHANGED <<mode, cur, table, acked>>
  BY DEF CloseTable, handle
<1>2. InSession /\ InSession'
  BY <1>1 DEF InSession
<1>3. /\ cur = hdr /\ cur.rstart \in Nat /\ hdr.entries \in Nat /\ Backing \in Images
      /\ table \in Seq(Entries) /\ Len(table) = hdr.entries
      /\ cur.filesize = cur.rstart + 1 + hdr.entries
  BY <1>2, SessionFacts
<1>4. s \in Seq(Cells) /\ Len(s) = 1 + hdr.entries /\ s # <<>>
  BY <1>3, TableCellsSeq, BackingTyped DEF IInv
<1> HIDE DEF s
<1>5. Backing.size <= cur.filesize /\ Backing.size \in Nat
  BY <1>1, <1>3 DEF ReportInv, Tight, Images
<1>6. g \in Images /\ g.size = cur.filesize
  <2>1. g \in Images
    BY <1>3, <1>4, WriteImage
  <2>2. g.size = IF cur.rstart + Len(s) > Backing.size THEN cur.rstart + Len(s)
                 ELSE Backing.size
    BY <1>3, <1>4, WrittenSize
  <2>3. cur.rstart + Len(s) = cur.filesize /\ cur.filesize \in Nat
    BY <1>3, <1>4
  <2> HIDE DEF g
  <2> QED
    BY <1>5, <2>1, <2>2, <2>3
<1> HIDE DEF g
<1>7. Image' = g
  BY <1>1, <1>6, SetBackingFacts DEF Image, IInv
<1>8. Tight'
  BY <1>1, <1>6, <1>7 DEF Tight
<1> QED
  BY <1>1, <1>2, <1>8, ReportKept

\* So it is after the rename.
LEMMA ReportCloseCommit == IInv /\ DataInv /\ ReportInv /\ CloseCommit => ReportInv'
<1> SUFFICES ASSUME IInv, DataInv, ReportInv, CloseCommit PROVE ReportInv'
  OBVIOUS
<1>1. pc = "rtbl" /\ pc' = "unlink" /\ UNCHANGED <<mode, cur, table, acked>>
  BY DEF CloseCommit, handle
<1>2. InSession /\ InSession' /\ Image = Backing
  BY <1>1 DEF InSession, Image
<1>3. Image' = Image
  BY <1>1, <1>2, SessionFacts DEF CloseCommit, Image, Backing
<1>4. Tight'
  BY <1>1, <1>3 DEF ReportInv, Tight
<1> QED
  BY <1>1, <1>2, <1>4, ReportKept

\* The three together.
StoreInv == IInv /\ DataInv /\ ReportInv

\* Every step keeps it.
LEMMA StoreInvNext ==
  ShortAppends /\ StoreInv /\ [Next /\ Told]_vars => StoreInv'
<1> SUFFICES ASSUME ShortAppends, IInv, DataInv, ReportInv, [Next /\ Told]_vars
             PROVE  StoreInv'
  BY DEF StoreInv
<1>1. ReportInv'
  <2>1. CASE Create
    BY <2>1, ReportStart
  <2>2. CASE Open
    BY <2>2, ReportStart, ReportOthers DEF Open
  <2>3. CASE Add /\ Told
    <3>1. CASE \E r \in Names, n \in Lens, by \in {"add_file", "caller"} :
                 InitNewResource(r, n, by)
      BY <3>1, ReportBegin
    <3>2. CASE \E n \in AppendLens : AppendStart(n)
      BY <3>2, ReportBegin
    <3>3. CASE AppendBlock
      <4>1. BlockTail \in Seq(Units)
        BY <3>3, BlockTyped DEF AppendBlock, IInv
      <4> QED
        BY <3>3, <4>1, ReportAppend DEF AppendBlock
    <3>4. CASE AppendRest
      <4>1. Rest \in Seq(Units)
        BY <3>4, RestTyped DEF AppendRest, IInv
      <4> QED
        BY <3>4, <4>1, ReportAppend DEF AppendRest
    <3> QED
      BY <2>3, <3>1, <3>2, <3>3, <3>4, ReportFailures, ReportCommit DEF Add
  <2>4. CASE Close /\ Told
    BY <2>4, ReportCloseHeaders, ReportCloseTable, ReportCloseCommit, ReportOthers DEF Close
  <2>5. CASE Crash
    BY <2>5, ReportOthers
  <2>6. CASE \E i \in 1..MaxEntries : Delete(i) \/ Export(i)
    BY <2>6, PresAssumption, ReportDelete, ReportExport
  <2>7. CASE UNCHANGED vars
    BY <2>7 DEF vars, ReportInv, Tight, InSession, Image, Backing
  <2> QED
    BY <2>1, <2>2, <2>3, <2>4, <2>5, <2>6, <2>7 DEF Next
<1> QED
  BY <1>1, IInvNext, DataNext DEF StoreInv

\* It holds in every state of a behaviour that hides no failure.
THEOREM StoreInvariant ==
  ASSUME ShortAppends
  PROVE  Spec /\ [][Told]_vars => []StoreInv
<1>1. Init => StoreInv
  BY IInvInit, DataInit, ReportOthers DEF StoreInv
<1>2. StoreInv /\ [Next]_vars /\ [Told]_vars => StoreInv'
  BY StoreInvNext
<1> QED
  BY <1>1, <1>2, PTL DEF Spec

\* What a session's successful calls were told is what its file holds, as long as
\* no failure was hidden from it.
THEOREM AcknowledgedIsStored ==
  ASSUME ShortAppends
  PROVE  Spec /\ [][Told]_vars => []AckedStored
<1>1. ASSUME StoreInv PROVE AckedStored
  <2> SUFFICES ASSUME Writing PROVE Slots(table, Backing) = acked
    BY DEF AckedStored
  <2>1. InSession /\ Image = Backing
    BY DEF Writing, Image
  <2>2. Held(table, Backing) /\ acked = SlotsIn(table)
    BY <1>1, <2>1, SessionFacts DEF StoreInv, ReportInv
  <2> QED
    BY <2>2, SlotsHeld
<1> QED
  BY StoreInvariant, <1>1, PTL

\* The file that a finished close has left opens, and holds that.
LEMMA ClosedOpens == StoreInv => ClosedReadable
<1> SUFFICES ASSUME IInv, DataInv, ReportInv, pc = "unlink"
             PROVE  Valid(file) /\ Slots(TableOf(file), file) = acked
  BY DEF StoreInv, ClosedReadable
<1>1. InSession /\ Image = file
  BY DEF InSession, Image
<1>2. /\ cur = hdr /\ cur.rstart = PoolStart + cur.psize /\ cur.psize \in Nat
      /\ hdr.entries \in Nat /\ hdr.rstart \in Nat /\ hdr.filesize \in Nat
      /\ hdr.filesize = hdr.rstart + 1 + hdr.entries /\ hdr.filesize <= MaxFile
      /\ table \in Seq(Entries) /\ Len(table) = hdr.entries
      /\ Held(table, file) /\ InPool(table, cur.psize) /\ file \in Images
  BY <1>1, SessionFacts
<1>3. file.size = hdr.filesize /\ file.at[0] = HdrCell(hdr) /\ file.at[1] = DhdrCell(hdr)
      /\ hdr.rstart \in Offsets /\ file.at[hdr.rstart] = TblCell(hdr)
  <2>1. hdr.rstart \in Offsets
    BY <1>2, ConstantFacts DEF Offsets
  <2> QED
    BY <1>1, <1>2, <2>1 DEF ReportInv, Tight, IInv, Progress
<1>4. HeaderOK(file)
  BY <1>2, <1>3 DEF HeaderOK, HdrCell, PoolStart
<1>5. DetachedHeaderOK(file)
  BY <1>2, <1>3 DEF DetachedHeaderOK, DhdrCell, PoolStart, TblSize
<1>6. TableOK(file)
  <2>1. file.at[1].rstart = hdr.rstart /\ Cell(file, hdr.rstart) = TblCell(hdr)
    BY <1>3 DEF DhdrCell, Cell
  <2>2. TblCell(hdr).kind = "tbl" /\ TblCell(hdr).entries = hdr.entries
    BY DEF TblCell
  <2>3. ASSUME NEW i \in 1..hdr.entries
        PROVE  /\ Cell(file, hdr.rstart + i).kind \in {"ent", "zero"}
               /\ EntryAt(file, hdr.rstart + i) = table[i]
               /\ table[i].id # 0 => PoolStart + table[i].off + table[i].size <= file.size
    <3>1. hdr.rstart + i \in Offsets
      BY <1>2, ConstantFacts DEF Offsets
    <3>2. file.at[hdr.rstart + i] = EntCell(table[i])
      BY <1>1 DEF DataInv, EntriesWritten
    <3>3. Cell(file, hdr.rstart + i) = EntCell(table[i])
      BY <3>1, <3>2 DEF Cell
    <3>4. table[i] \in Entries
      BY <1>2, ElementOfSeq
    <3>5. table[i].off \in Nat /\ table[i].size \in Nat
      BY <3>4 DEF Entries
    <3>6. table[i].id # 0 => table[i].off + table[i].size <= cur.psize
      BY <1>2 DEF InPool
    <3>7. table[i].id # 0 => PoolStart + table[i].off + table[i].size <= file.size
      <4>1. \A o, s, p, r, e \in Nat :
              o + s <= p /\ r = PoolStart + p => PoolStart + o + s <= r + 1 + e
        BY DEF PoolStart
      <4>2. /\ hdr.rstart = PoolStart + cur.psize /\ hdr.rstart \in Nat /\ cur.psize \in Nat
            /\ hdr.entries \in Nat /\ file.size = hdr.rstart + 1 + hdr.entries
        BY <1>2, <1>3
      <4> QED
        BY <3>5, <3>6, <4>1, <4>2
    <3> QED
      BY <3>3, <3>7 DEF EntCell, EntryAt
  <2> QED
    BY <2>1, <2>2, <2>3 DEF TableOK
<1>7. Valid(file)
  BY <1>4, <1>5, <1>6 DEF Valid
<1>8. TableOf(file) = table
  BY <1>7, ClosedFile
<1>9. acked = SlotsIn(table)
  BY <1>1 DEF ReportInv
<1> QED
  BY <1>2, <1>7, <1>8, <1>9, SlotsHeld

\* So a container whose close has succeeded opens without its backup, as long as
\* no read error was hidden and no resource abandoned: either can leave one that
\* does not open.
THEOREM ClosedCanBeRead ==
  ASSUME ShortAppends
  PROVE  Spec /\ [][Told]_vars => []ClosedReadable
  BY StoreInvariant, ClosedOpens, PTL

-----------------------------------------------------------------------------
(* Pres implements ResourceStore *)

\* Both views in terms of what has been acknowledged: it is in the container
\* at once in a session in place, and in the draft until the rename otherwise.
Views ==
  /\ InSession /\ (mode = "inplace" \/ pc = "unlink") => StoreView = Store!Holding(acked)
  /\ DraftView = IF mode = "created" /\ pc # "unlink" THEN Store!Holding(acked)
                 ELSE Store!Nothing

\* That is what the invariant makes of the views.
LEMMA ViewsHold == StoreInv => Views
<1> SUFFICES ASSUME StoreInv PROVE Views
  OBVIOUS
<1>1. IInv /\ DataInv /\ ReportInv
  BY DEF StoreInv
<1>2. ASSUME InSession
      PROVE  /\ meta.own = Owner /\ meta.table = table /\ mode \in {"inplace", "created"}
             /\ Slots(table, Image) = acked
  BY <1>1, <1>2, SessionFacts, SlotsHeld DEF ReportInv
<1>3. ASSUME InSession, mode = "inplace" PROVE StoreView = Store!Holding(acked)
  BY <1>2, <1>3 DEF StoreView, Owner, Image, Backing, Store!Holding
<1>4. ASSUME pc = "unlink", mode # "inplace" PROVE StoreView = Store!Holding(acked)
  <2>1. Valid(file) /\ Slots(TableOf(file), file) = acked
    BY <1>4, ClosedOpens DEF ClosedReadable
  <2>2. meta.own = "temp"
    BY <1>2, <1>4 DEF InSession, Owner
  <2> QED
    BY <2>1, <2>2 DEF StoreView, Store!Holding
<1>5. ASSUME mode = "created", pc # "unlink" PROVE DraftView = Store!Holding(acked)
  <2>1. InSession
    BY <1>1, <1>5 DEF ReportInv
  <2> QED
    BY <1>2, <1>5, <2>1 DEF DraftView, Image, Backing, Store!Holding
<1>6. ~(mode = "created" /\ pc # "unlink") => DraftView = Store!Nothing
  BY DEF DraftView, Store!Nothing
<1> QED
  BY <1>3, <1>4, <1>5, <1>6 DEF Views, InSession

\* A step that leaves the backup's table, and a container without backup.
LEMMA StoreKept ==
  ASSUME DataInv, DataInv', meta'.own = meta.own, meta'.table = meta.table,
         meta.own = "file" \/ UNCHANGED file
  PROVE  StoreView' = StoreView
<1>1. CASE meta.own = "file"
  <2>1. Slots(meta.table, file) = SlotsIn(meta.table)
    BY <1>1, SlotsHeld DEF DataInv, BackupHeld
  <2>2. Slots(meta'.table, file') = SlotsIn(meta'.table)
    BY <1>1, SlotsHeld DEF DataInv, BackupHeld
  <2> QED
    BY <1>1, <2>1, <2>2 DEF StoreView
<1>2. CASE meta.own # "file"
  BY <1>2 DEF StoreView
<1> QED
  BY <1>1, <1>2

\* A step within a session that commits nothing.
LEMMA ViewsKept ==
  ASSUME StoreInv, DataInv', Views, Views', InSession, InSession', pc # "unlink", pc' # "unlink",
         UNCHANGED <<meta, mode, acked>>, mode = "inplace" \/ UNCHANGED file
  PROVE  UNCHANGED <<StoreView, DraftView>>
<1>1. meta.own = Owner
  BY SessionFacts DEF StoreInv
<1>2. StoreView' = StoreView
  BY <1>1, StoreKept DEF StoreInv, Owner
<1>3. DraftView' = DraftView
  BY DEF Views
<1> QED
  BY <1>2, <1>3

\* A step outside of sessions, or one that ends a session without the rename.
LEMMA ViewsDropped ==
  ASSUME StoreInv, DataInv', Views, Views', mode' = "none",
         meta'.own = meta.own, meta'.table = meta.table,
         meta.own = "file" \/ UNCHANGED file
  PROVE  [Store!Next]_(Store!vars)
<1>1. StoreView' = StoreView
  BY StoreKept DEF StoreInv
<1>2. DraftView' = Store!Nothing
  BY DEF Views
<1>3. CASE mode = "created" /\ pc # "unlink"
  <2>1. DraftView.live
    BY <1>3 DEF Views, Store!Holding
  <2> QED
    BY <1>1, <1>2, <2>1 DEF Store!Next, Store!Discard
<1>4. CASE ~(mode = "created" /\ pc # "unlink")
  BY <1>1, <1>2, <1>4 DEF Views, Store!vars
<1> QED
  BY <1>3, <1>4

\* A commit or a deletion is one step of the container or of the draft.
LEMMA ViewsGrown ==
  ASSUME StoreInv, Views, Views', pc \in {"idle", "resource"}, pc' \in {"idle", "resource"},
         UNCHANGED <<file, mode>>, meta'.own = meta.own,
         \/ \E r \in Names, n \in Lens : acked' = Append(acked, Store!Slot(r, n))
         \/ \E i \in DOMAIN acked : acked' = [acked EXCEPT ![i] = Store!Hole]
  PROVE  Store!Next
<1>1. InSession /\ InSession'
  BY DEF InSession
<1>2. Store!Grown(Store!Holding(acked), Store!Holding(acked'))
  BY DEF Store!Grown, Store!Added, Store!Punched, Store!Holding
<1>3. mode \in {"inplace", "created"} /\ meta.own = Owner
  BY <1>1, SessionFacts DEF StoreInv
<1>4. CASE mode = "inplace"
  <2>1. StoreView = Store!Holding(acked) /\ StoreView' = Store!Holding(acked')
        /\ DraftView = Store!Nothing /\ DraftView' = Store!Nothing
    BY <1>1, <1>4 DEF Views
  <2>2. Store!Edit
    BY <1>2, <2>1 DEF Store!Edit, Store!Nothing
  <2> QED
    BY <2>2 DEF Store!Next
<1>5. CASE mode = "created"
  <2>1. DraftView = Store!Holding(acked) /\ DraftView' = Store!Holding(acked')
    BY <1>5 DEF Views
  <2>2. StoreView' = StoreView
    BY <1>3, <1>5 DEF StoreView, Owner
  <2>3. Store!Compose
    BY <1>2, <2>1, <2>2 DEF Store!Compose
  <2> QED
    BY <2>3 DEF Store!Next
<1> QED
  BY <1>3, <1>4, <1>5

\* Opening and creating: only k_pres_create begins a draft.
LEMMA StoreOpen ==
  ASSUME StoreInv, StoreInv', Views, Views', Create \/ Open, KeepsBackup
  PROVE  [Store!Next]_(Store!vars)
<1>1. CASE Create
  <2>1. /\ pc = "closed" /\ pc' = "idle" /\ mode' = "created" /\ acked' = <<>>
        /\ meta' = Meta("temp", Fresh, <<>>) /\ UNCHANGED file /\ meta.own # "file"
    BY <1>1 DEF Create, KeepsBackup
  <2>2. mode = "none"
    BY <2>1 DEF StoreInv, ReportInv, InSession
  <2>3. DraftView = Store!Nothing /\ DraftView' = Store!Holding(<<>>)
    BY <2>1, <2>2 DEF Views
  <2>4. StoreView' = StoreView
    BY <2>1 DEF StoreView, Meta
  <2> QED
    BY <2>3, <2>4 DEF Store!Next, Store!Begin, Store!Nothing
<1>2. CASE OpenProbe \/ OpenUnprobe \/ OpenFail
  <2>1. pc \in {"closed", "probed", "opening"} /\ UNCHANGED <<file, mode>>
    BY <1>2 DEF OpenProbe, OpenUnprobe, OpenFail, disk, handle
  <2>2. meta.own \in {"none", "empty"} /\ meta'.own \in {"none", "empty"}
    BY <1>2, NoMetaTyped DEF OpenProbe, OpenUnprobe, OpenFail, StoreInv, IInv, Openable, disk
  <2>3. mode = "none"
    BY <2>1 DEF StoreInv, ReportInv, InSession
  <2>4. StoreView' = StoreView
    BY <2>1, <2>2 DEF StoreView
  <2>5. DraftView' = DraftView
    BY <2>1, <2>3 DEF Views
  <2> QED
    BY <2>4, <2>5 DEF Store!vars
<1>3. CASE OpenRead
  <2>1. /\ pc = "opening" /\ pc' = "idle" /\ mode' = "inplace" /\ Valid(file)
        /\ acked' = Slots(TableOf(file), file)
    BY <1>3 DEF OpenRead
  <2>2. meta.own \in {"none", "empty"} /\ mode = "none"
    BY <2>1 DEF StoreInv, IInv, Openable, ReportInv, InSession
  <2>3. StoreView = Store!Holding(acked')
    BY <2>1, <2>2 DEF StoreView, Store!Holding
  <2>4. StoreView' = Store!Holding(acked')
    BY <2>1 DEF Views, InSession
  <2>5. DraftView' = DraftView
    BY <2>1, <2>2 DEF Views
  <2> QED
    BY <2>3, <2>4, <2>5 DEF Store!vars
<1> QED
  BY <1>1, <1>2, <1>3 DEF Open

\* Adding: nothing is seen of a resource before its commit.
LEMMA StoreAdd ==
  ASSUME StoreInv, StoreInv', Views, Views', Add, Told
  PROVE  [Store!Next]_(Store!vars)
<1>1. CASE CommitNewResource
  <2>1. /\ pc = "resource" /\ pc' = "idle" /\ UNCHANGED <<file, mode>>
        /\ acked' = Append(acked, Slot(res.name, res.len))
        /\ meta' = Meta(Owner, cur', table')
    BY <1>1 DEF CommitNewResource, GiveUp
  <2>2. res.name \in Names /\ res.len \in Lens
    BY <2>1 DEF StoreInv, IInv, Named, DataInv, Building
  <2>3. meta.own = Owner /\ meta'.own = Owner
    BY <2>1, SessionFacts DEF StoreInv, InSession, Meta
  <2>4. Slot(res.name, res.len) = Store!Slot(res.name, res.len)
    BY DEF Slot, Content, Store!Slot, Store!Content
  <2> QED
    BY <2>1, <2>2, <2>3, <2>4, ViewsGrown
<1>2. CASE ~CommitNewResource
  <2>1. ~AddFileReadError
    BY DEF Told
  <2>2. /\ InSession /\ InSession' /\ pc # "unlink" /\ pc' # "unlink"
        /\ UNCHANGED <<meta, mode, acked>>
    BY <1>2, <2>1 DEF Add, InitNewResource, AppendStart, AppendBlock, AppendRest, AppendFail,
       CommitRefused, CommitUndone, AddFileRefused, CallRollback, GiveUp, InSession,
       handle, disk
  <2>3. mode = "inplace" \/ UNCHANGED file
    BY <1>2, <2>1 DEF Add, InitNewResource, AppendStart, AppendBlock, AppendRest, AppendFail,
       CommitRefused, CommitUndone, AddFileRefused, CallRollback, Rollback, SetBacking, disk
  <2>4. UNCHANGED <<StoreView, DraftView>>
    BY <2>2, <2>3, ViewsKept DEF StoreInv
  <2> QED
    BY <2>4 DEF Store!vars
<1> QED
  BY <1>1, <1>2

\* Closing: only the rename publishes, and what fails before it changes nothing.
LEMMA StoreClose ==
  ASSUME StoreInv, StoreInv', Views, Views', ClosedReadable, Close \/ Crash
  PROVE  [Store!Next]_(Store!vars)
<1>1. CASE CloseHeader \/ CloseDetachedHeader \/ CloseTable
  <2>1. /\ InSession /\ InSession' /\ pc # "unlink" /\ pc' # "unlink"
        /\ UNCHANGED <<meta, mode, acked>> /\ (mode = "inplace" \/ UNCHANGED file)
    BY <1>1 DEF CloseHeader, CloseDetachedHeader, CloseTable, InSession, handle, SetBacking
  <2>2. UNCHANGED <<StoreView, DraftView>>
    BY <2>1, ViewsKept DEF StoreInv
  <2> QED
    BY <2>2 DEF Store!vars
<1>2. CASE CloseCommit
  <2>1. pc = "rtbl" /\ pc' = "unlink" /\ UNCHANGED <<meta, mode, acked>>
        /\ InSession /\ InSession'
    BY <1>2 DEF CloseCommit, handle, InSession
  <2>2. mode \in {"inplace", "created"}
    BY <2>1, SessionFacts DEF StoreInv
  <2>3. StoreView' = Store!Holding(acked) /\ DraftView' = Store!Nothing
    BY <2>1 DEF Views
  <2>4. CASE mode = "created"
    <3>1. DraftView = Store!Holding(acked)
      BY <2>1, <2>4 DEF Views
    <3> QED
      BY <2>3, <3>1 DEF Store!Next, Store!Publish, Store!Holding
  <2>5. CASE mode = "inplace"
    <3>1. DraftView = Store!Nothing /\ StoreView = Store!Holding(acked)
      BY <2>1, <2>5 DEF Views
    <3> QED
      BY <2>3, <3>1 DEF Store!vars
  <2> QED
    BY <2>2, <2>4, <2>5
<1>3. CASE CloseUnlink
  <2>1. pc = "unlink" /\ meta' = NoMeta /\ mode' = "none" /\ UNCHANGED <<file, acked>>
    BY <1>3 DEF CloseUnlink, BackupDone, Forget
  <2>2. StoreView = Store!Holding(acked) /\ DraftView = Store!Nothing
        /\ DraftView' = Store!Nothing
    BY <2>1 DEF Views, InSession
  <2>3. StoreView' = Store!Holding(acked)
    BY <2>1, NoMetaTyped DEF StoreView, ClosedReadable, Store!Holding
  <2> QED
    BY <2>2, <2>3 DEF Store!vars
<1>4. CASE CloseFail \/ CloseRenameFail \/ Crash
  <2>1. mode' = "none" /\ UNCHANGED meta /\ (mode = "inplace" \/ UNCHANGED file)
    BY <1>4 DEF CloseFail, CloseRenameFail, Crash, Forget
  <2>2. meta.own = "file" \/ UNCHANGED file
    <3>1. CASE InSession
      BY <2>1, <3>1, SessionFacts DEF StoreInv, Owner
    <3>2. CASE ~InSession
      BY <1>4, <3>2 DEF CloseFail, CloseRenameFail, Crash, InSession
    <3> QED
      BY <3>1, <3>2
  <2> QED
    BY <2>1, <2>2, ViewsDropped DEF StoreInv
<1> QED
  BY <1>1, <1>2, <1>3, <1>4 DEF Close

\* Deleting is a step of its own, exporting none.
LEMMA StoreDelete ==
  ASSUME StoreInv, StoreInv', Views, Views', NEW i \in Nat, Delete(i) \/ Export(i)
  PROVE  [Store!Next]_(Store!vars)
<1>1. CASE Delete(i)
  <2>1. /\ pc \in {"idle", "resource"} /\ pc' \in {"idle", "resource"} /\ UNCHANGED <<file, mode>>
        /\ acked' = [acked EXCEPT ![i] = Hole] /\ meta' = Meta(Owner, cur, table')
        /\ i \in 1..cur.entries
    BY <1>1 DEF Delete
  <2>2. InSession
    BY <2>1 DEF InSession
  <2>3. meta.own = Owner /\ meta'.own = Owner /\ Len(table) = cur.entries
    BY <2>1, <2>2, SessionFacts DEF StoreInv, Meta
  <2>4. i \in DOMAIN acked
    BY <2>1, <2>2, <2>3 DEF StoreInv, ReportInv, SlotsIn
  <2>5. Hole = Store!Hole
    BY DEF Hole, Store!Hole
  <2> QED
    BY <2>1, <2>3, <2>4, <2>5, ViewsGrown
<1>2. CASE Export(i)
  <2>1. /\ InSession /\ InSession' /\ pc # "unlink" /\ pc' # "unlink"
        /\ UNCHANGED <<meta, mode, acked, file>>
    BY <1>2 DEF Export, InSession, disk, handle
  <2>2. UNCHANGED <<StoreView, DraftView>>
    BY <2>1, ViewsKept DEF StoreInv
  <2> QED
    BY <2>2 DEF Store!vars
<1> QED
  BY <1>1, <1>2

\* Every step of a session, a failure or a crash is one of ResourceStore or none.
LEMMA StoreStep ==
  StoreInv /\ StoreInv' /\ [Next /\ Told /\ KeepsBackup]_vars => [Store!Next]_(Store!vars)
<1> SUFFICES ASSUME StoreInv, StoreInv', [Next /\ Told /\ KeepsBackup]_vars
             PROVE  [Store!Next]_(Store!vars)
  OBVIOUS
<1>1. Views /\ ClosedReadable
  BY ViewsHold, ClosedOpens
<1>2. Views'
  BY ViewsHold, PTL
<1>3. CASE (Create \/ Open) /\ KeepsBackup
  BY <1>1, <1>2, <1>3, StoreOpen
<1>4. CASE Add /\ Told
  BY <1>1, <1>2, <1>4, StoreAdd
<1>5. CASE Close \/ Crash
  BY <1>1, <1>2, <1>5, StoreClose
<1>6. CASE \E i \in 1..MaxEntries : Delete(i) \/ Export(i)
  BY <1>1, <1>2, <1>6, PresAssumption, StoreDelete
<1>7. CASE UNCHANGED vars
  BY <1>7 DEF vars, Store!vars, StoreView, DraftView
<1> QED
  BY <1>3, <1>4, <1>5, <1>6, <1>7 DEF Next

\* Before the first session there is no container and no draft.
LEMMA StoreInit == Init => Store!Init
<1> SUFFICES ASSUME Init PROVE Store!Init
  OBVIOUS
<1>1. meta.own = "none" /\ mode = "none" /\ file = Empty
  BY NoMetaTyped DEF Init
<1>2. ~Valid(file)
  BY <1>1 DEF Valid, HeaderOK, Empty, PoolStart
<1> QED
  BY <1>1, <1>2 DEF Store!Init, Store!Nothing, StoreView, DraftView

\* The container changes by whole slots, when a call commits one or the rename
\* of a created one does.  A failure that a call reports, a failed close and a
\* crash at any point change nothing that a user who repairs it from its backup
\* would see.  The hypothesis leaves out what does: after a hidden read error or an
\* abandoned resource a close can leave a container that does not open, and
\* creating over a damaged one takes away the backup that repairs it.
THEOREM ImplementsStore ==
  ASSUME ShortAppends
  PROVE  Spec /\ [][Told /\ KeepsBackup]_vars => StoreSpec
<1>1. [Next]_vars /\ [Told /\ KeepsBackup]_vars /\ StoreInv /\ StoreInv' => [Store!Next]_(Store!vars)
  BY StoreStep
<1> QED
  BY StoreInit, StoreInvariant, <1>1, PTL DEF Spec, StoreSpec, Store!Spec

\* Where read() does not fail and sessions finish or roll back what they began,
\* as in the run, every step satisfies the first condition.
THEOREM RunIsTold ==
  ASSUME "read" \notin Faults, "abandon" \notin Faults
  PROVE  Spec => [][Told]_vars
<1>1. ~AddFileReadError
  BY DEF AddFileReadError
<1>2. ~(CloseHeader /\ pc = "resource")
  BY DEF CloseHeader
<1>3. [Next]_vars => [Told]_vars
  BY <1>1, <1>2 DEF Told
<1> QED
  BY <1>3, PTL DEF Spec
=============================================================================
