-------------------------------- MODULE Pres --------------------------------
(***************************************************************************)
(* The resource container of src/utils/pres.c: one process at a time works *)
(* on the container `name', its backup `name.meta' and, while it creates a *)
(* container, a temporary file.                                            *)
(*                                                                         *)
(* A file is a size and a cell per offset.  A header, a detached header,   *)
(* the head of the resource table, a table entry and one unit of data take *)
(* one cell each: the layout, the order of the writes and the arithmetic   *)
(* on offsets are the code's, the byte sizes are not.  A cell that holds a *)
(* structure holds it with the digest the code wrote beside it, so         *)
(* "the digest matches" is "the cell is of that kind"; the digest of data  *)
(* is the sequence of hashed units.  Encryption and uuids are left out.    *)
(*                                                                         *)
(* An action stands for the part of a call up to its next effect on the    *)
(* file system.  A process may be stopped between any two of them.  The    *)
(* page cache is taken to survive: this is about SIGKILL, not power loss.  *)
(***************************************************************************)
EXTENDS Integers, Sequences

CONSTANTS
  Names,            \* resource names
  Lens,             \* sizes of resources, in units
  AppendLens,       \* sizes of one k_pres_append_to_new_resource call
  Iobuf,            \* PRES_IOBUF_SIZE, in units
  MaxEntries,       \* bound: entries of a table
  MaxFile,          \* bound: the largest offset of a file
  Faults,           \* which failures the environment produces
  OverwriteDamaged  \* whether k_pres_create is called over a container that
                    \* a stopped writer left to be repaired

FaultKinds == {"write", "sync", "meta", "rename", "read", "crash", "abandon"}

\* Sizes of the parts of a container other than data, in cells.
PoolStart == 2        \* sz_file_header + sz_detached_hdr
TblSize   == 1        \* sz_res_tbl
EntSize   == 1        \* sz_res_tbl_entry

ASSUME PresAssumption ==
  /\ Iobuf \in Nat \ {0}
  /\ Lens \subseteq Nat
  /\ AppendLens \subseteq Nat \ {0}
  /\ MaxEntries \in Nat
  /\ MaxFile \in Nat /\ MaxFile >= PoolStart + TblSize
  /\ Faults \subseteq FaultKinds
  /\ OverwriteDamaged \in BOOLEAN

VARIABLES
  file,    \* the image of the container under its name
  temp,    \* the image of the temporary file of a creating session
  meta,    \* the .meta file
  pc,      \* where the session is
  mode,    \* how its container was opened
  cur,     \* pf->cur_filesize, cur_rtbl_start, cur_datapoolsize, cur_resentries
  hdr,     \* the same numbers in pf->hdr, pf->dhdr and pf->rtbl
  table,   \* pf->rtbl->table, its first cur_resentries entries
  pos,     \* the file offset of pf->fd
  dsize,   \* data_size of the entry under construction
  hash,    \* what pf->hash was fed since its last reset
  res,     \* the resource under construction, as its caller sees it
  app,     \* the locals of k_pres_append_to_new_resource
  acked    \* history: the slots the session's successful calls amount to

vars == <<file, temp, meta, pc, mode, cur, hdr, table, pos, dsize, hash, res,
          app, acked>>
disk == <<file, temp, meta>>
handle == <<mode, cur, hdr, table>>
pending == <<pos, dsize, hash, res, app>>

-----------------------------------------------------------------------------
(* Files *)

Offsets == 0..MaxFile

Zero         == [kind |-> "zero"]
HdrCell(c)   == [kind |-> "hdr", filesize |-> c.filesize]
DhdrCell(c)  == [kind |-> "dhdr", rstart |-> c.rstart, psize |-> c.psize]
TblCell(c)   == [kind |-> "tbl", entries |-> c.entries]
EntCell(e)   == [kind |-> "ent", entry |-> e]
DataCell(u)  == [kind |-> "data", unit |-> u]

Empty == [size |-> 0, at |-> [o \in Offsets |-> Zero]]

\* lseek(off) and write(s); a gap before off reads as zeros.
Write(f, off, s) ==
  IF s = <<>> THEN f
  ELSE [size |-> IF off + Len(s) > f.size THEN off + Len(s) ELSE f.size,
        at   |-> [o \in Offsets |-> IF off <= o /\ o < off + Len(s)
                                    THEN s[o - off + 1] ELSE f.at[o]]]

\* ftruncate.  TruncateShort, a wrong one, cuts into the last committed unit.
TruncateShort(f, n) ==
  [size |-> n - 1,
   at   |-> [o \in Offsets |-> IF o < n - 1 THEN f.at[o] ELSE Zero]]

Truncate(f, n) ==
  [size |-> n, at |-> [o \in Offsets |-> IF o < n THEN f.at[o] ELSE Zero]]

DataCells(us) == [j \in 1..Len(us) |-> DataCell(us[j])]

\* Table entries.  memset(0) is what marks an entry as deleted.
Deleted == [id |-> 0, name |-> "deleted", off |-> 0, size |-> 0, digest |-> <<>>]

TableCells(c, t) ==
  [j \in 1..(1 + c.entries) |-> IF j = 1 THEN TblCell(c) ELSE EntCell(t[j - 1])]

\* .meta: the two headers and the table, of the file named by own (a note of
\* the model's, the file does not say so).
NoMeta   == [own |-> "none", hdr |-> [filesize |-> 0, rstart |-> 0, psize |-> 0,
                                      entries |-> 0], table |-> <<>>]
Probe    == [NoMeta EXCEPT !.own = "empty"]
Meta(o, c, t) == [own |-> o, hdr |-> c, table |-> t]

Backing == IF mode = "inplace" THEN file ELSE temp
Owner   == IF mode = "inplace" THEN "file" ELSE "temp"

\* The handle's file becomes f.
SetBacking(f) ==
  IF mode = "inplace" THEN file' = f /\ UNCHANGED temp
                      ELSE temp' = f /\ UNCHANGED file

-----------------------------------------------------------------------------
(* Reading a container: what opening one checks *)

\* Behind the end of the file a mapping of it reads as zeros.
Cell(f, o) == IF o \in Offsets THEN f.at[o] ELSE Zero

EntryAt(f, o) == IF Cell(f, o).kind = "ent" THEN Cell(f, o).entry ELSE Deleted

HeaderOK(f) ==
  /\ f.size >= PoolStart
  /\ f.at[0].kind = "hdr"
  /\ f.at[0].filesize = f.size

DetachedHeaderOK(f) ==
  /\ f.at[1].kind = "dhdr"
  /\ f.at[1].rstart + TblSize <= f.size
  /\ PoolStart + f.at[1].psize <= f.size

TableOK(f) ==
  LET start == f.at[1].rstart IN
  /\ Cell(f, start).kind = "tbl"
  /\ \A i \in 1..Cell(f, start).entries :
       /\ Cell(f, start + i).kind \in {"ent", "zero"}   \* id 0: not verified
       /\ LET e == EntryAt(f, start + i)
          IN  e.id # 0 => PoolStart + e.off + e.size <= f.size

Valid(f) == HeaderOK(f) /\ DetachedHeaderOK(f) /\ TableOK(f)

\* What a valid file says of itself.
CountersOf(f) ==
  [filesize |-> f.at[0].filesize, rstart |-> f.at[1].rstart,
   psize |-> f.at[1].psize, entries |-> Cell(f, f.at[1].rstart).entries]

TableOf(f) ==
  [i \in 1..CountersOf(f).entries |-> EntryAt(f, f.at[1].rstart + i)]

\* The data of e is in f, where e says, and has e's digest.
Intact(e, f) ==
  /\ Len(e.digest) = e.size
  /\ \A j \in 1..e.size : Cell(f, PoolStart + e.off + j - 1) = DataCell(e.digest[j])

\* What k_pres_res_map reads of e, and k_pres_export_id feeds to pf->hash.
NoUnit == <<"none", 0>>

UnitAt(f, o) == IF Cell(f, o).kind = "data" THEN Cell(f, o).unit ELSE NoUnit

DataOf(e, f) == [j \in 1..e.size |-> UnitAt(f, PoolStart + e.off + j - 1)]

-----------------------------------------------------------------------------
(* The numbers of a handle *)

\* k_pres_create: _set_file_header.
Fresh == [filesize |-> PoolStart + TblSize, rstart |-> PoolStart, psize |-> 0,
          entries |-> 0]

\* k_pres_commit_new_resource, before and, when the backup failed, after.
\* Three wrong ones: the file size without the table, an undo that leaves the
\* new entry counted, and one that takes the data back twice.
AdvanceWithoutTable(c, size) ==
  LET psize  == c.psize + size
      rstart == PoolStart + psize
  IN  [filesize |-> rstart + c.entries * EntSize,
       rstart |-> rstart, psize |-> psize, entries |-> c.entries + 1]

RetreatStillCounted(c, size) ==
  LET psize  == c.psize - size
      rstart == PoolStart + psize
  IN  [filesize |-> rstart + TblSize + c.entries * EntSize,
       rstart |-> rstart, psize |-> psize, entries |-> c.entries]

RetreatTwice(c, size) ==
  LET psize  == c.psize - 2 * size
      rstart == PoolStart + psize
  IN  [filesize |-> rstart + TblSize + (c.entries - 1) * EntSize,
       rstart |-> rstart, psize |-> psize, entries |-> c.entries - 1]

Advance(c, size) ==
  LET psize  == c.psize + size
      rstart == PoolStart + psize
  IN  [filesize |-> rstart + TblSize + (c.entries + 1) * EntSize,
       rstart |-> rstart, psize |-> psize, entries |-> c.entries + 1]

Retreat(c, size) ==
  LET psize  == c.psize - size
      rstart == PoolStart + psize
  IN  [filesize |-> rstart + TblSize + (c.entries - 1) * EntSize,
       rstart |-> rstart, psize |-> psize, entries |-> c.entries - 1]

\* The wrong one records an absolute offset.
NewEntryAbsolute ==
  [id |-> cur.entries + 1, name |-> res.name, off |-> cur.rstart,
   size |-> dsize, digest |-> hash]

NewEntry == [id |-> cur.entries + 1, name |-> res.name, off |-> cur.psize,
             size |-> dsize, digest |-> hash]

\* The slot a caller was promised, and the slot that an entry of f yields.
Content(r, n) == [j \in 1..n |-> <<r, j>>]
Slot(r, n)    == [name |-> r, data |-> Content(r, n)]
Hole          == [name |-> "deleted", data |-> <<>>]
Damaged       == [name |-> "damaged", data |-> <<>>]

SlotOf(e, f) ==
  IF e.id = 0 THEN Hole
  ELSE IF Intact(e, f) THEN [name |-> e.name, data |-> e.digest] ELSE Damaged

Slots(t, f) == [i \in 1..Len(t) |-> SlotOf(t[i], f)]

NoRes == [name |-> "none", len |-> 0, done |-> 0, by |-> "none"]
NoApp == [src |-> <<>>, i |-> 0, total |-> 0]

-----------------------------------------------------------------------------
\* No container yet.
Init ==
  /\ file = Empty /\ temp = Empty /\ meta = NoMeta
  /\ pc = "closed" /\ mode = "none"
  /\ cur = Fresh /\ hdr = Fresh /\ table = <<>>
  /\ pos = 0 /\ dsize = 0 /\ hash = <<>> /\ res = NoRes /\ app = NoApp
  /\ acked = <<>>

\* The handle's memory is gone; so is its temporary file, which the next
\* session does not know by name.
Forget ==
  /\ pc' = "closed" /\ mode' = "none"
  /\ cur' = Fresh /\ hdr' = Fresh /\ table' = <<>>
  /\ pos' = 0 /\ dsize' = 0 /\ hash' = <<>> /\ res' = NoRes /\ app' = NoApp

\* k_pres_create.  _commit_meta_data replaces a .meta that is there.
Create ==
  /\ pc = "closed"
  /\ meta.own = "file" => OverwriteDamaged
  /\ pc' = "idle" /\ mode' = "created"
  /\ temp' = Empty
  /\ cur' = Fresh /\ hdr' = Fresh /\ table' = <<>>
  /\ pos' = PoolStart
  /\ meta' = Meta("temp", Fresh, <<>>)
  /\ acked' = <<>>
  /\ UNCHANGED <<file, dsize, hash, res, app>>

\* k_pres_open for writing: the O_EXCL probe of .meta ...
OpenProbe ==
  /\ pc = "closed"
  /\ meta = NoMeta
  /\ pc' = "probed" /\ meta' = Probe
  /\ UNCHANGED <<file, temp, handle, pending, acked>>

\* ... which is removed at once ...
OpenUnprobe ==
  /\ pc = "probed"
  /\ pc' = "opening" /\ meta' = NoMeta
  /\ UNCHANGED <<file, temp, handle, pending, acked>>

\* ... then the container is read, verified and its meta data backed up.
OpenRead ==
  /\ pc = "opening" /\ Valid(file)
  /\ pc' = "idle" /\ mode' = "inplace"
  /\ cur' = CountersOf(file) /\ hdr' = CountersOf(file)
  /\ table' = TableOf(file)
  /\ pos' = PoolStart + CountersOf(file).psize
  /\ meta' = Meta("file", CountersOf(file), TableOf(file))
  /\ acked' = Slots(TableOf(file), file)
  /\ UNCHANGED <<file, temp, dsize, hash, res, app>>

OpenFail ==
  /\ pc = "opening"
  /\ Valid(file) => "meta" \in Faults
  /\ pc' = "closed"
  /\ UNCHANGED <<disk, handle, pending, acked>>

\* k_hash_reset before a resource is fed to pf->hash, and lseek to where its
\* data goes; the wrong ones go on from where the last call left off.
GoOnHash  == UNCHANGED hash
StartHash == hash' = <<>>

GoOnPos  == UNCHANGED pos
StartPos == pos' = cur.rstart

\* k_pres_init_new_resource, for the resource r of n units that a caller is
\* about to hand over: k_pres_add_file, or a caller of the three functions.
InitNewResource(r, n, by) ==
  /\ pc = "idle"
  /\ cur.entries < MaxEntries
  /\ cur.rstart + n + TblSize + (cur.entries + 1) * EntSize <= MaxFile
  /\ pc' = "resource"
  /\ StartPos
  /\ StartHash /\ dsize' = 0
  /\ res' = [name |-> r, len |-> n, done |-> 0, by |-> by]
  /\ UNCHANGED <<disk, handle, app, acked>>

\* A call of k_pres_append_to_new_resource with the next n units.  add_file
\* hands over what one read() returned, at most PRES_IOBUF_SIZE.
AppendStart(n) ==
  /\ pc = "resource"
  /\ res.done + n <= res.len
  /\ res.by = "add_file" => n <= Iobuf
  /\ pc' = "append"
  /\ app' = [src |-> SubSeq(Content(res.name, res.len), res.done + 1, res.done + n),
             i |-> 0, total |-> 0]
  /\ res' = [res EXCEPT !.done = @ + n]
  /\ UNCHANGED <<disk, handle, pos, dsize, hash, acked>>

Blocks == Len(app.src) \div Iobuf
Block  == SubSeq(app.src, app.i * Iobuf + 1, (app.i + 1) * Iobuf)
Rest   == SubSeq(app.src, Blocks * Iobuf + 1, Len(app.src))

\* while (total != PRES_IOBUF_SIZE) write(...)
BlockTail == SubSeq(Block, app.total + 1, Iobuf)

\* One round of the loop over the blocks.  `total' is not reset between two
\* rounds.
AppendBlock ==
  /\ pc = "append" /\ app.i < Blocks
  /\ hash' = hash \o Block
  /\ SetBacking(Write(Backing, pos, DataCells(BlockTail)))
  /\ pos' = pos + Len(BlockTail)
  /\ app' = [app EXCEPT !.i = @ + 1, !.total = Iobuf]
  /\ UNCHANGED <<meta, pc, handle, dsize, res, acked>>

\* The rest, and the return.
AppendRest ==
  /\ pc = "append" /\ app.i = Blocks
  /\ hash' = hash \o Rest
  /\ SetBacking(Write(Backing, pos, DataCells(Rest)))
  /\ pos' = pos + Len(Rest)
  /\ dsize' = dsize + app.total + Len(Rest)
  /\ pc' = "resource" /\ app' = NoApp
  /\ UNCHANGED <<meta, handle, res, acked>>

\* k_pres_rollback.
Rollback ==
  /\ SetBacking(Truncate(Backing, cur.rstart))
  /\ pos' = cur.rstart

\* The call under way fails and gives up the resource.
GiveUp == pc' = "idle" /\ res' = NoRes /\ app' = NoApp

AppendFail ==
  /\ pc = "append" /\ "write" \in Faults
  /\ IF app.i < Blocks
     THEN BlockTail # <<>> /\ hash' = hash \o Block
     ELSE Rest # <<>> /\ hash' = hash \o Rest
  /\ Rollback /\ GiveUp
  /\ UNCHANGED <<meta, handle, dsize, acked>>

\* k_pres_commit_new_resource; k_pres_add_file calls it at the end of file.
CommitNewResource ==
  /\ pc = "resource" /\ res.done = res.len
  /\ cur' = Advance(cur, dsize) /\ hdr' = Advance(cur, dsize)
  /\ table' = Append(table, NewEntry)
  /\ meta' = Meta(Owner, cur', table')
  /\ acked' = Append(acked, Slot(res.name, res.len))
  /\ GiveUp
  /\ UNCHANGED <<file, temp, mode, pos, dsize, hash>>

\* Its failures: an empty name, fsync, and _commit_meta_data.
CommitRefused ==
  /\ pc = "resource" /\ res.done = res.len
  /\ "sync" \in Faults
  /\ Rollback /\ GiveUp
  /\ UNCHANGED <<meta, handle, dsize, hash, acked>>

CommitUndone ==
  /\ pc = "resource" /\ res.done = res.len
  /\ "meta" \in Faults
  /\ cur' = Retreat(Advance(cur, dsize), dsize)
  /\ SetBacking(Truncate(Backing, cur'.rstart))
  /\ pos' = cur'.rstart
  /\ GiveUp
  /\ UNCHANGED <<meta, mode, hdr, table, dsize, hash, acked>>

\* k_pres_add_file gives up before it has read anything: the file cannot be
\* opened, it is a hidden one, or the first read() fails.  It returns 1.
AddFileRefused ==
  /\ pc = "resource" /\ res.by = "add_file" /\ res.done = 0
  /\ GiveUp
  /\ UNCHANGED <<disk, handle, pos, dsize, hash, acked>>

\* A later read() fails: it returns what the last append returned, 0.
AddFileReadError ==
  /\ pc = "resource" /\ res.by = "add_file" /\ res.done > 0
  /\ "read" \in Faults
  /\ Len(acked) < MaxEntries              \* bound
  /\ acked' = Append(acked, Slot(res.name, res.len))
  /\ GiveUp
  /\ UNCHANGED <<disk, handle, pos, dsize, hash>>

\* A caller of the three functions changes its mind: k_pres_rollback.
CallRollback ==
  /\ pc = "resource" /\ res.by = "caller"
  /\ Rollback /\ GiveUp
  /\ UNCHANGED <<meta, handle, dsize, hash, acked>>

\* k_pres_delete_id, also while a resource is under construction.
Delete(i) ==
  /\ pc \in {"idle", "resource"}
  /\ i \in 1..cur.entries
  /\ table' = [table EXCEPT ![i] = Deleted]
  /\ hdr' = cur
  /\ meta' = Meta(Owner, cur, table')
  /\ acked' = [acked EXCEPT ![i] = Hole]
  /\ UNCHANGED <<file, temp, pc, mode, cur, pending>>

\* k_pres_export_id of a resource that is not deleted, through the handle that
\* adds resources: it moves its file offset and uses its hash.
Export(i) ==
  /\ pc = "idle" /\ i \in 1..cur.entries /\ table[i].id # 0
  /\ pos' = IF table[i].size = 0 THEN pos
            ELSE PoolStart + table[i].off + table[i].size
  /\ hash' = DataOf(table[i], Backing)
  /\ UNCHANGED <<disk, pc, handle, dsize, res, app, acked>>

\* k_pres_close: _commit_and_close writes the headers ...
CloseHeader ==
  /\ pc = "idle" \/ (pc = "resource" /\ "abandon" \in Faults)
  /\ SetBacking(Write(Backing, 0, <<HdrCell(hdr)>>))
  /\ pc' = "hdr" /\ res' = NoRes /\ app' = NoApp
  /\ UNCHANGED <<meta, handle, pos, dsize, hash, acked>>

CloseDetachedHeader ==
  /\ pc = "hdr"
  /\ SetBacking(Write(Backing, 1, <<DhdrCell(hdr)>>))
  /\ pc' = "dhdr"
  /\ UNCHANGED <<meta, handle, pending, acked>>

\* ... and the table over the end of the data pool ...
CloseTable ==
  /\ pc = "dhdr"
  /\ SetBacking(Write(Backing, cur.rstart, TableCells(hdr, table)))
  /\ pc' = "rtbl"
  /\ UNCHANGED <<meta, handle, pending, acked>>

\* ... then k_tcommit_and_close: a plain close for a container that was
\* opened, a rename over `name' for one that was created ...
CloseCommit ==
  /\ pc = "rtbl"
  /\ IF mode = "created" THEN file' = temp /\ temp' = Empty
                         ELSE UNCHANGED <<file, temp>>
  /\ pc' = "unlink"
  /\ UNCHANGED <<meta, handle, pending, acked>>

\* ... and only then removes the backup.
\* The wrong one does not wait for the table.
BackupDoneEarly == pc = "dhdr"
BackupDone      == pc = "unlink"

CloseUnlink ==
  /\ BackupDone
  /\ meta' = NoMeta
  /\ Forget
  /\ UNCHANGED <<file, temp, acked>>

\* A write of close fails, the one of the table after k of its cells: the
\* descriptor is closed, a temporary file removed, the backup stays.
CloseFail ==
  /\ "write" \in Faults
  /\ \/ pc \in {"idle", "hdr"} /\ UNCHANGED file
     \/ /\ pc = "dhdr"
        /\ IF mode = "inplace"
           THEN \E k \in 0..cur.entries :
                  file' = Write(file, cur.rstart,
                                SubSeq(TableCells(hdr, table), 1, k))
           ELSE UNCHANGED file
  /\ temp' = Empty
  /\ Forget
  /\ UNCHANGED <<meta, acked>>

\* fchmod, close or rename fails in tcommit_one.
CloseRenameFail ==
  /\ pc = "rtbl" /\ mode = "created" /\ "rename" \in Faults
  /\ temp' = Empty
  /\ Forget
  /\ UNCHANGED <<file, meta, acked>>

\* The process ends without k_pres_close: exit, a signal, SIGKILL.
Crash ==
  /\ "crash" \in Faults /\ pc # "closed"
  /\ temp' = Empty
  /\ Forget
  /\ UNCHANGED <<file, meta, acked>>

Open   == OpenProbe \/ OpenUnprobe \/ OpenRead \/ OpenFail
Add    == \/ \E r \in Names, n \in Lens, by \in {"add_file", "caller"} :
               InitNewResource(r, n, by)
          \/ \E n \in AppendLens : AppendStart(n)
          \/ AppendBlock \/ AppendRest \/ AppendFail
          \/ CommitNewResource \/ CommitRefused \/ CommitUndone
          \/ AddFileRefused \/ AddFileReadError \/ CallRollback
Close  == CloseHeader \/ CloseDetachedHeader \/ CloseTable \/ CloseCommit
          \/ CloseUnlink \/ CloseFail \/ CloseRenameFail

Next == \/ Create \/ Open \/ Add \/ Close \/ Crash
        \/ \E i \in 1..MaxEntries : Delete(i) \/ Export(i)

Spec == Init /\ [][Next]_vars

-----------------------------------------------------------------------------
(* Properties *)

InSession == pc \notin {"closed", "probed", "opening"}
Writing   == InSession /\ pc # "unlink"

\* Values of the counters and of the table entries.
Counters == [filesize : Nat, rstart : Nat, psize : Nat, entries : Nat]
Units    == (Names \union {"none"}) \X Nat
Entries  == [id : Nat, name : Names \union {"deleted"}, off : Nat, size : Nat,
             digest : Seq(Units)]
Cells    ==
  [kind : {"zero"}] \union [kind : {"hdr"}, filesize : Nat]
  \union [kind : {"dhdr"}, rstart : Nat, psize : Nat]
  \union [kind : {"tbl"}, entries : Nat] \union [kind : {"ent"}, entry : Entries]
  \union [kind : {"data"}, unit : Units]
Metas    == [own : {"none", "empty", "file", "temp"}, hdr : Counters,
             table : Seq(Entries)]
Images   == [size : Nat, at : [Offsets -> Cells]]

\* The type invariant.
TypeOK ==
  /\ file \in Images /\ temp \in Images
  /\ meta \in Metas
  /\ pc \in {"closed", "probed", "opening", "idle", "resource", "append",
             "hdr", "dhdr", "rtbl", "unlink"}
  /\ mode \in {"none", "inplace", "created"}
  /\ cur \in Counters /\ hdr \in Counters
  /\ table \in Seq(Entries)
  /\ pos \in Nat /\ dsize \in Nat /\ hash \in Seq(Units)
  /\ res \in [name : Names \union {"none"}, len : Nat, done : Nat,
              by : {"none", "add_file", "caller"}]
  /\ app \in [src : Seq(Units), i : Nat, total : {0, Iobuf}]

\* The handle's running counters, the headers it would write and the backup
\* agree between any two steps, whatever failed before: the undo of a failed
\* commit is exact, and the backup is never behind the handle.
BackupCurrent ==
  InSession => cur = hdr /\ meta = Meta(Owner, hdr, table)

\* While a backup of the container exists, whatever a session has done to the
\* file, every resource it lists is in the file with the digest it was
\* committed with: the container can be repaired after a crash.
Recoverable ==
  meta.own = "file" =>
    \A i \in 1..Len(meta.table) :
      meta.table[i].id # 0 => Intact(meta.table[i], file)

\* A session's file holds what its successful calls were told, whatever fails
\* between them, and what an entry's digest says is what was handed over.  It is
\* about failures that calls report: when a read() fails behind the first one,
\* k_pres_add_file returns 0 (pres.c:358) without having added the file, against
\* pres.h:254, and with the fault "read" this does not hold.
AckedStored == Writing => Slots(table, Backing) = acked

\* When close removes the backup, the file can be opened again without it and
\* holds what the session acknowledged.  It does not with the faults "read" and
\* "abandon": what they leave behind the table makes the file longer than it says.
ClosedReadable ==
  pc = "unlink" => Valid(file) /\ Slots(TableOf(file), file) = acked

\* What the container holds for a user who repairs it from its backup, if it
\* has one, and what a creating session has composed so far.
StoreView ==
  IF meta.own = "file"
  THEN [live |-> TRUE, slots |-> Slots(meta.table, file)]
  ELSE IF Valid(file)
       THEN [live |-> TRUE, slots |-> Slots(TableOf(file), file)]
       ELSE [live |-> FALSE, slots |-> <<>>]

DraftView ==
  IF mode = "created" /\ pc # "unlink"
  THEN [live |-> TRUE, slots |-> Slots(table, temp)]
  ELSE [live |-> FALSE, slots |-> <<>>]

\* The container changes by whole slots, only when a call commits one, and a
\* crash, a call that reports a failure and a failed close change nothing of it:
\* every step is a step of ResourceStore or a stutter.
Store     == INSTANCE ResourceStore WITH store <- StoreView, draft <- DraftView
StoreSpec == Store!Spec

\* k_pres_export_id refuses a resource with "data digest does not match"
\* (pres.c:1359): it never does so for one that a commit has just reported stored.
CommittedExports ==
  Writing => \A i \in 1..cur.entries :
               table[i].id # 0 => Intact(table[i], Backing)

=============================================================================
