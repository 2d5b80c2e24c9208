------------------------------- MODULE Ktool -------------------------------
(***************************************************************************)
(* The commands of ktool (src/ktool/main.c) over the file system they work *)
(* on: imp, add, delid, rep, exp, expid and ls, one process after another, *)
(* each starting in the same directory, Home.  What lies inside a container *)
(* is the business of Pres; here a container is its table, and is whole or *)
(* torn (its table overwritten by the data of a new resource).             *)
(*                                                                         *)
(* A path is the sequence of its components below Home.  The point of the  *)
(* module is the working directory: imp, exp and expid change it while a   *)
(* container is open, and relative names are resolved anew at each call.   *)
(* Hidden temporary files are the business of Tfile and left out, and so   *)
(* is encryption.  Users other than root: a file of mode 0400 cannot be    *)
(* opened for writing.                                                     *)
(***************************************************************************)
EXTENDS Integers, Sequences, FiniteSets, SequencesExt

CONSTANTS
  InitialTrees,  \* the file systems the first command may find
  Commands,      \* the command lines that are given
  MetaName,      \* the container's name -> the same with ".meta"
  HiddenNames,   \* the components that begin with a dot
  Faults,        \* which failures the environment produces
  MaxCommands    \* bound: commands in a row

\* The containers that command lines name.
Containers ==
  {c.inpres : c \in {d \in Commands : d.kind # "imp"}}
  \cup {c.outpres : c \in {d \in Commands : d.kind \in {"imp", "rep"}}}

ASSUME KtoolAssumption ==
  /\ \A c \in Commands :
       c.kind \in {"imp", "add", "delid", "rep", "exp", "expid", "ls"}
  /\ \A c \in Containers :
       /\ c.path \in Seq(STRING) /\ c.path # <<>>
       /\ Last(c.path) \in DOMAIN MetaName
  /\ \A c \in Commands :
       c.kind \in {"imp", "exp", "expid"} => c.dir \in Seq(STRING)
  /\ \A n, m \in DOMAIN MetaName : MetaName[n] = MetaName[m] => n = m
  /\ \A n \in DOMAIN MetaName : MetaName[n] \in STRING /\ MetaName[n] # n

VARIABLES
  fs,      \* path -> node
  cwd,     \* the working directory
  pc,      \* where the process is
  cmd,     \* its command line
  new,     \* the container it creates
  old,     \* the container it opened
  seen,    \* the paths nftw has delivered
  i,       \* the loop over the table
  status,  \* how the last command ended
  before,  \* history: fs when the command started
  quiet,   \* history: nothing has failed since
  missed,  \* history: the files a walk had to skip
  given    \* commands so far

vars == <<fs, cwd, pc, cmd, new, old, seen, i, status, before, quiet, missed,
          given>>

-----------------------------------------------------------------------------
(* Files *)

Home == <<>>

Dir            == [kind |-> "dir"]
Plain(d, m)    == [kind |-> "plain", data |-> d, mode |-> m]
Container(t)   == [kind |-> "container", table |-> t, whole |-> TRUE]
Torn(t)        == [kind |-> "container", table |-> t, whole |-> FALSE]
Meta           == [kind |-> "meta"]

Exists(p)  == p \in DOMAIN fs
IsDir(p)   == p = Home \/ (Exists(p) /\ fs[p] = Dir)
IsFile(p)  == Exists(p) /\ fs[p] # Dir
Whole(p)   == IsFile(p) /\ fs[p].kind = "container" /\ fs[p].whole

With(p, n)  == [q \in DOMAIN fs \cup {p} |-> IF q = p THEN n ELSE fs[q]]
Without(p)  == [q \in DOMAIN fs \ {p} |-> fs[q]]

\* unlink, whose result nobody looks at: a directory stays.
Removed(p)  == IF IsFile(p) THEN Without(p) ELSE fs

\* The content of a file, as a resource.
Content(n) == IF n.kind = "plain" THEN n.data ELSE n.kind

\* What is in a directory has one.
IsTree(f) ==
  \A p \in DOMAIN f :
    /\ p \in Seq(STRING) /\ p # Home
    /\ Front(p) = Home \/ (Front(p) \in DOMAIN f /\ f[Front(p)] = Dir)

Below(dir, p) == IsStrictPrefix(dir, p)
Rel(dir, p)   == SubSeq(p, Len(dir) + 1, Len(p))
FilesBelow(f, dir) == {p \in DOMAIN f : Below(dir, p) /\ f[p] # Dir}

\* The command line's name of a container.  "%s.meta" goes by the same name,
\* absolute or not.
Resolve(c)     == IF c.abs THEN c.path ELSE cwd \o c.path
MetaBeside(p)  == Append(Front(p), MetaName[Last(p)])
ResolveMeta(c) == MetaBeside(Resolve(c))

\* k_tcreat: what it can replace.
CanCreate(p) ==
  /\ p # Home
  /\ IsDir(Front(p))
  /\ ~Exists(p) \/ (IsFile(p) /\ (fs[p].kind = "plain" => fs[p].mode # "0400"))

-----------------------------------------------------------------------------
(* Resources *)

Entry(n, b, d) == [name |-> n, base |-> b, data |-> d, intact |-> TRUE]
Deleted        == [name |-> <<>>, base |-> 0, data |-> "none", intact |-> TRUE]

Live(e)     == e # Deleted
LiveIds(t)  == {k \in DOMAIN t : Live(t[k])}
Basename(e) == SubSeq(e.name, e.base + 1, Len(e.name))

\* k_pres_add_file, given `path' with its basename after `base' components:
\* the first component goes, "." of a walk or whatever a caller named.
Stripped(path, base) ==
  IF Len(path) > 1 THEN [name |-> Tail(path), base |-> base - 1]
                   ELSE [name |-> path, base |-> base]

\* Hidden objects are not added.
Hidden(name) == \E k \in DOMAIN name : name[k] \in HiddenNames

\* get_basename_offset; nftw says the same of the files it delivers.
BasenameOffset(path) == Len(path) - 1

\* An entry as k_pres_add_file makes them, or none any more.
IsEntry(e) ==
  e = Deleted \/ (/\ e.name \in Seq(STRING) /\ e.name # <<>>
                 /\ e.base = BasenameOffset(e.name))

ASSUME TreesAssumption ==
  \A f \in InitialTrees :
    /\ IsTree(f)
    /\ \A p \in DOMAIN f :
         f[p].kind = "container" =>
           LET entries == ToSet(f[p].table) IN
           f[p].whole /\ f[p].table \in Seq(entries) /\ \A e \in entries : IsEntry(e)

NoHandle == [mode |-> "none", arg |-> [abs |-> TRUE, path |-> Home],
             target |-> Home, table |-> <<>>]

Handle(m, c, t) == [mode |-> m, arg |-> c, target |-> Resolve(c), table |-> t]

-----------------------------------------------------------------------------
(* Processes *)

Idle == [kind |-> "none"]

Init ==
  /\ fs \in InitialTrees
  /\ cwd = Home /\ pc = "idle" /\ cmd = Idle
  /\ new = NoHandle /\ old = NoHandle
  /\ seen = {} /\ i = 0
  /\ status = "none" /\ before = fs /\ quiet = TRUE /\ missed = {}
  /\ given = 0

\* main: a command line.
Start(c) ==
  /\ pc = "idle" /\ given < MaxCommands
  /\ pc' = "start" /\ cmd' = c
  /\ status' = "running" /\ before' = fs /\ quiet' = TRUE /\ missed' = {}
  /\ given' = given + 1
  /\ UNCHANGED <<fs, cwd, new, old, seen, i>>

Rest == UNCHANGED <<cmd, before, given>>

\* The process is gone, and its handles and working directory with it.
Exit(s) ==
  /\ pc' = "idle" /\ status' = s
  /\ cwd' = Home /\ new' = NoHandle /\ old' = NoHandle
  /\ seen' = {} /\ i' = 0
  /\ UNCHANGED missed /\ Rest

Goto(l) == pc' = l /\ UNCHANGED <<status, missed>> /\ Rest

\* A failure of the environment that the code answers with exit status -1.
Trouble(f) == f \in Faults /\ quiet' = FALSE

Fine == UNCHANGED quiet

Kill ==
  /\ pc # "idle" /\ "kill" \in Faults
  /\ Exit("killed") /\ quiet' = FALSE
  /\ UNCHANGED fs

-----------------------------------------------------------------------------
(* Containers: what the commands call of pres.c *)

\* k_pres_create, which leaves a backup of the empty table under ResolveMeta.
Creatable(c) == CanCreate(Resolve(c)) /\ CanCreate(ResolveMeta(c))

Created(c, l) ==
  /\ Creatable(c)
  /\ new' = Handle("created", c, <<>>)
  /\ fs' = With(ResolveMeta(c), Meta)
  /\ Goto(l) /\ Fine

CreateFails(c) ==
  /\ \/ ~Creatable(c) /\ Fine
     \/ Trouble("create")
  /\ Exit("failed")
  /\ UNCHANGED fs

\* _open_pres_container
ForWriting == cmd.kind \in {"add", "delid"}
Openable   == Whole(Resolve(cmd.inpres))
              /\ (ForWriting => ~Exists(ResolveMeta(cmd.inpres)))

Open ==
  /\ pc = "start" /\ cmd.kind # "imp"
  /\ Openable
  /\ old' = Handle(IF ForWriting THEN "inplace" ELSE "readonly", cmd.inpres,
                   fs[Resolve(cmd.inpres)].table)
  /\ fs' = IF ForWriting THEN With(ResolveMeta(cmd.inpres), Meta) ELSE fs
  /\ Goto(cmd.kind) /\ Fine
  /\ UNCHANGED <<cwd, new, seen, i>>

OpenFails ==
  /\ pc = "start" /\ cmd.kind # "imp"
  /\ \/ ~Openable /\ Fine
     \/ Trouble("open")
  /\ Exit("failed")
  /\ UNCHANGED fs

\* k_pres_commit_new_resource: the entry is in the table once its backup is
\* written, wherever the name of the backup leads by now.
Committed(h, e) == [h EXCEPT !.table = Append(@, e)]

\* _commit_and_close of a created container: the file takes its name, then
\* the backup goes.
Published == With(new.target, Container(new.table))

Unlinked(f, p) == [q \in DOMAIN f \ {p} |-> f[q]]

-----------------------------------------------------------------------------
(* imp: import_directory *)

ImportCreate ==
  /\ pc = "start" /\ cmd.kind = "imp"
  /\ \/ Created(cmd.outpres, "enter") /\ UNCHANGED <<cwd, old, seen, i>>
     \/ CreateFails(cmd.outpres)

ImportEnter ==
  /\ pc = "enter" /\ cmd.kind = "imp"
  /\ \/ IsDir(cmd.dir) /\ cwd' = cmd.dir /\ Goto("walk") /\ Fine
        /\ UNCHANGED <<new, old, seen, i>>
     \/ ~IsDir(cmd.dir) /\ Exit("failed") /\ Fine
     \/ Exit("failed") /\ Trouble("chdir")
  /\ UNCHANGED fs

\* ft_walk: nftw delivers a regular file, in the order of the directories,
\* which is any.  k_pres_add_file returns 1, "skipped", and the walk goes on,
\* for a hidden file (which leaves no trace here), for one that cannot be
\* read at all (a read that fails later is Pres!AddFileReadError), and for one
\* whose data or backup cannot be written ...
Walked(p) == LET path == <<".">> \o Rel(cwd, p) IN Stripped(path, BasenameOffset(path))

ToVisit == {p \in FilesBelow(fs, cwd) \ seen : ~Hidden(Walked(p).name)}

VisitSkips(p) ==
  /\ pc = "walk"
  /\ \/ ~CanCreate(ResolveMeta(new.arg)) /\ Fine
     \/ Trouble("read")
     \/ Trouble("append")
  /\ seen' = seen \cup {p}
  /\ missed' = missed \cup {Rel(cwd, p)}
  /\ Rest
  /\ UNCHANGED <<fs, cwd, pc, new, old, i, status>>

\* ... and 0 for the others: their backup goes wherever its name leads now ...
VisitAdds(p) ==
  /\ pc = "walk"
  /\ CanCreate(ResolveMeta(new.arg))
  /\ seen' = seen \cup {p}
  /\ new' = Committed(new, Entry(Walked(p).name, Walked(p).base, Content(fs[p])))
  /\ fs' = With(ResolveMeta(new.arg), Meta)
  /\ Goto("walk") /\ Fine
  /\ UNCHANGED <<cwd, old, i>>

\* ... and -1 when k_pres_init_new_resource fails, which ends the command.
\* The handle is not closed; the wrong one closes it on the way out.
AbandonAndClose == fs' = Unlinked(Published, ResolveMeta(new.arg))
Abandon         == UNCHANGED fs

VisitFails(p) ==
  /\ pc = "walk"
  /\ Trouble("init")
  /\ Abandon
  /\ Exit("failed")

\* The walk is over when all it started with is delivered; what appeared
\* meanwhile may have been delivered or not.
WalkEnds ==
  /\ pc = "walk"
  /\ ToVisit \cap DOMAIN before = {}
  /\ Goto("publish") /\ Fine
  /\ UNCHANGED <<fs, cwd, new, old, seen, i>>

Visit == (\E p \in ToVisit : VisitSkips(p) \/ VisitAdds(p) \/ VisitFails(p)) \/ WalkEnds

\* k_pres_close, for imp and rep.
Publish ==
  /\ pc = "publish"
  /\ fs' = Published
  /\ Goto("unlink") /\ Fine
  /\ UNCHANGED <<cwd, new, old, seen, i>>

PublishFails ==
  /\ pc = "publish"
  /\ Trouble("close")
  /\ Exit("failed")
  /\ UNCHANGED fs

Unlink ==
  /\ pc = "unlink"
  /\ fs' = Removed(ResolveMeta(new.arg))
  /\ Fine
  /\ IF cmd.kind = "imp" THEN Goto("back") /\ UNCHANGED <<cwd, new, old, seen, i>>
                         ELSE Exit("ok")

ImportBack ==
  /\ pc = "back"
  /\ \/ Exit("ok") /\ Fine
     \/ Exit("failed") /\ Trouble("chdir")
  /\ UNCHANGED fs

-----------------------------------------------------------------------------
(* add and delid *)

\* k_pres_add_file as add_file calls it: skipped ...
Given == Stripped(cmd.file, BasenameOffset(cmd.file))

AddSkips ==
  /\ pc = "add"
  /\ \/ ~IsFile(cmd.file) /\ Fine
     \/ IsFile(cmd.file) /\ Hidden(Given.name) /\ Fine
     \/ Trouble("read")
  /\ Goto("close")
  /\ UNCHANGED <<fs, cwd, new, old, seen, i>>

\* ... or the first byte of data goes over the table in the container ...
AddAppends ==
  /\ pc = "add"
  /\ IsFile(cmd.file) /\ ~Hidden(Given.name)
  /\ fs' = With(old.target, Torn(old.table))
  /\ Goto("added") /\ Fine
  /\ UNCHANGED <<cwd, new, old, seen, i>>

\* ... then the entry is committed; or its data or backup could not be
\* written, which is "skipped", too.
AddCommits ==
  /\ pc = "added"
  /\ old' = Committed(old, Entry(Given.name, Given.base, Content(fs[cmd.file])))
  /\ fs' = With(ResolveMeta(old.arg), Meta)
  /\ Goto("close") /\ Fine
  /\ UNCHANGED <<cwd, new, seen, i>>

AddFails ==
  /\ pc = "added"
  /\ Trouble("append")
  /\ Goto("close")
  /\ UNCHANGED <<fs, cwd, new, old, seen, i>>

\* delete_id; k_pres_delete_id takes the entry back when its backup fails.
DeleteRefused ==
  /\ pc = "delid"
  /\ cmd.id \notin LiveIds(old.table)
  /\ Goto("close") /\ Fine
  /\ UNCHANGED <<fs, cwd, new, old, seen, i>>

Delete ==
  /\ pc = "delid"
  /\ cmd.id \in LiveIds(old.table)
  /\ \/ /\ old' = [old EXCEPT !.table[cmd.id] = Deleted]
        /\ fs' = With(ResolveMeta(old.arg), Meta) /\ Fine
     \/ Trouble("append") /\ UNCHANGED <<fs, old>>
  /\ Goto("close")
  /\ UNCHANGED <<cwd, new, seen, i>>

\* _close_pres_container, whose result add_file and delete_id do not look at:
\* the headers and the table are written over the container ...
CloseWrites ==
  /\ pc = "close"
  /\ fs' = With(old.target, Torn(old.table))
  /\ Goto("closing") /\ Fine
  /\ UNCHANGED <<cwd, new, old, seen, i>>

\* ... and when all is written the backup goes.
CloseEnds ==
  /\ pc = "closing"
  /\ fs' = With(old.target, Container(old.table))
  /\ Goto("unmeta") /\ Fine
  /\ UNCHANGED <<cwd, new, old, seen, i>>

CloseRemoves ==
  /\ pc = "unmeta"
  /\ fs' = Removed(ResolveMeta(old.arg))
  /\ Exit("ended") /\ Fine

\* A close that fails keeps the backup.  The wrong one lets it go whatever
\* came of the writes.
LeavesNothing == fs' = Removed(ResolveMeta(old.arg))
LeavesMeta    == UNCHANGED fs

CloseFails ==
  /\ pc = "closing"
  /\ Trouble("close")
  /\ LeavesMeta
  /\ Exit("ended")

-----------------------------------------------------------------------------
(* rep: k_pres_repack *)

RepackCreate ==
  /\ pc = "rep"
  /\ \/ Created(cmd.outpres, "copy") /\ i' = 1 /\ UNCHANGED <<cwd, old, seen>>
     \/ CreateFails(cmd.outpres)

More == i <= Len(old.table)

\* k_pres_res_open fails for deleted entries, which are skipped.
CopySkips ==
  /\ pc = "copy" /\ More
  /\ ~Live(old.table[i])
  /\ i' = i + 1
  /\ Goto("copy") /\ Fine
  /\ UNCHANGED <<fs, cwd, new, old, seen>>

\* _add_resource_to_new_pres
Copy ==
  /\ pc = "copy" /\ More
  /\ Live(old.table[i]) /\ old.table[i].intact
  /\ new' = Committed(new, old.table[i])
  /\ fs' = With(ResolveMeta(new.arg), Meta)
  /\ i' = i + 1
  /\ Goto("copy") /\ Fine
  /\ UNCHANGED <<cwd, old, seen>>

\* "keep temporary filename on close": is_writable is cleared first.  The
\* wrong one does not.
GiveUpWritable == fs' = Unlinked(Published, ResolveMeta(new.arg))
GiveUp         == UNCHANGED fs

CopyFails ==
  /\ pc = "copy" /\ More
  /\ Live(old.table[i])
  /\ \/ ~old.table[i].intact /\ Fine
     \/ Trouble("append")
  /\ GiveUp
  /\ Exit("failed")

CopyEnds ==
  /\ pc = "copy" /\ ~More
  /\ Goto("publish") /\ Fine
  /\ UNCHANGED <<fs, cwd, new, old, seen, i>>

-----------------------------------------------------------------------------
(* exp, expid and ls *)

IdIsWrong == cmd.kind = "expid" /\ cmd.id \notin DOMAIN old.table

\* mkdir, whose result is not looked at, and chdir.
Entered    == cmd.dir
CanEnter   == IsDir(cmd.dir) \/ (~Exists(cmd.dir) /\ IsDir(Front(cmd.dir)))

ExportEnter ==
  /\ pc \in {"exp", "expid"}
  /\ ~IdIsWrong
  /\ CanEnter
  /\ fs' = IF IsDir(cmd.dir) THEN fs ELSE With(cmd.dir, Dir)
  /\ cwd' = Entered
  /\ i' = IF cmd.kind = "exp" THEN 1 ELSE cmd.id
  /\ Goto("export") /\ Fine
  /\ UNCHANGED <<new, old, seen>>

ExportRefused ==
  /\ pc \in {"exp", "expid"}
  /\ \/ IdIsWrong /\ Fine
     \/ ~CanEnter /\ Fine
     \/ Trouble("chdir")
  /\ Exit("failed")
  /\ UNCHANGED fs

\* What becomes of the loop after one k_pres_export_id: export_all goes on
\* and forgets the result, export_id ends with it.
GoOnAfter(r) ==
  i' = i + 1 /\ Goto("export") /\ UNCHANGED <<new, old, seen>>

After(r) ==
  IF cmd.kind = "exp" THEN GoOnAfter(r) /\ cwd' = cwd ELSE Exit(r)

Exporting == pc = "export" /\ More

ExportDeleted ==
  /\ Exporting /\ ~Live(old.table[i])
  /\ After("failed") /\ Fine
  /\ UNCHANGED fs

\* k_tcreate_dirs: mkdir and chdir, component by component, and back; when it
\* stops at one that is a file, or at one that fails, it does not go back.
Up(name, k) == cwd \o SubSeq(name, 1, k)

DirsMade(name, n) ==
  [p \in DOMAIN fs \cup {Up(name, k) : k \in 1..n} |->
     IF p \in DOMAIN fs THEN fs[p] ELSE Dir]

ExportMakesDirs ==
  LET name == old.table[i].name IN
  /\ Exporting /\ Live(old.table[i])
  /\ cmd.kind = "exp" => \A k \in 1..(Len(name) - 1) : ~IsFile(Up(name, k))
  /\ fs' = IF cmd.kind = "exp" THEN DirsMade(name, Len(name) - 1) ELSE fs
  /\ Goto("write") /\ Fine
  /\ UNCHANGED <<cwd, new, old, seen, i>>

ExportStrays ==
  LET name == old.table[i].name IN
  /\ Exporting /\ Live(old.table[i]) /\ cmd.kind = "exp"
  /\ \E k \in 1..(Len(name) - 1) :
       /\ \A j \in 1..(k - 1) : ~IsFile(Up(name, j))
       /\ IF IsFile(Up(name, k)) THEN Fine ELSE Trouble("chdir")
       /\ fs' = DirsMade(name, k - 1)
       /\ cwd' = Up(name, k - 1)
  /\ GoOnAfter("failed")

\* k_tcreat of the name, with its directories or without, and of mode 0400.
\* The wrong one is always without.
OutNameFlat == cwd \o Basename(old.table[i])

OutName ==
  IF cmd.kind = "exp" THEN cwd \o old.table[i].name ELSE cwd \o Basename(old.table[i])

ExportWrites ==
  /\ pc = "write"
  /\ CanCreate(OutName) /\ old.table[i].intact
  /\ fs' = With(OutName, Plain(old.table[i].data, "0400"))
  /\ After("ok") /\ Fine

ExportFails ==
  /\ pc = "write"
  /\ \/ ~(CanCreate(OutName) /\ old.table[i].intact) /\ Fine
     \/ Trouble("write")
  /\ After("failed")
  /\ UNCHANGED fs

ExportEnds ==
  /\ pc = "export" /\ ~More
  /\ Exit("ok") /\ Fine
  /\ UNCHANGED fs

List ==
  /\ pc = "ls"
  /\ Exit("ok") /\ Fine
  /\ UNCHANGED fs

-----------------------------------------------------------------------------
Import  == ImportCreate \/ ImportEnter \/ Visit \/ ImportBack
Change  == AddSkips \/ AddAppends \/ AddCommits \/ AddFails
           \/ DeleteRefused \/ Delete
           \/ CloseWrites \/ CloseEnds \/ CloseRemoves \/ CloseFails
Repack  == RepackCreate \/ CopySkips \/ Copy \/ CopyFails \/ CopyEnds
Export  == ExportEnter \/ ExportRefused \/ ExportDeleted \/ ExportMakesDirs
           \/ ExportStrays \/ ExportWrites \/ ExportFails \/ ExportEnds

Step == Open \/ OpenFails \/ Import \/ Publish \/ PublishFails \/ Unlink
        \/ Change \/ Repack \/ Export \/ List

Next == (\E c \in Commands : Start(c)) \/ Step \/ Kill

Spec == Init /\ [][Next]_vars

-----------------------------------------------------------------------------
(* Properties *)

Nodes(p) == IF p \in DOMAIN fs THEN {fs[p]} ELSE {}
Was(p)   == IF p \in DOMAIN before THEN {before[p]} ELSE {}

Ended(k) == pc = "idle" /\ cmd.kind = k

\* Where a relative name leads when import has entered the directory.
Astray ==
  {c.dir \o c.outpres.path :
     c \in {d \in Commands : d.kind = "imp" /\ ~d.outpres.abs}}

\* A container whose table is overwritten has its backup beside it, whatever
\* was killed or failed: no later command takes it for one it may write to.
\* Only where an import goes astray it may lose a backup that is not its own
\* (main.c:170).
Guarded ==
  \A p \in DOMAIN fs \ Astray :
    fs[p].kind = "container" /\ ~fs[p].whole => MetaBeside(p) \in DOMAIN fs

\* What a walk of dir should find: the files that were there and are not
\* hidden, under their names below dir.
Expected(dir) ==
  {[name |-> Rel(dir, p), data |-> Content(before[p])] :
     p \in {q \in FilesBelow(before, dir) :
              \A k \in (Len(dir) + 1)..Len(q) : q[k] \notin HiddenNames}}

Stored(t) == {[name |-> e.name, data |-> e.data] : e \in ToSet(t)}

\* Where the backup of the container may be: where the command starts and, of a
\* relative name, in the directory that is imported.
Beside  == MetaBeside(cmd.outpres.path)
Backups == {Beside} \cup (IF cmd.outpres.abs THEN {} ELSE {cmd.dir \o Beside})
OwnMeta == {[name |-> Rel(cmd.dir, m), data |-> "meta"] :
              m \in {b \in Backups : Below(cmd.dir, b)}}

\* Something has its name there and cannot be replaced.
Blocked ==
  LET m == cmd.dir \o Beside IN
  /\ ~cmd.outpres.abs /\ m \in DOMAIN before
  /\ before[m] = Dir \/ (before[m].kind = "plain" /\ before[m].mode = "0400")

\* Import: the container is replaced by one that holds each file once, under
\* its name (and, at most, the backup of itself, which may have taken the place
\* of a file), or it is not touched; it is replaced when the command says so.
\* A file that was "skipped" may miss; a relative name with a directory in it
\* is the business of ImportHoldsAll.
ImportOutcome ==
  Ended("imp") =>
    LET p == cmd.outpres.path IN
    \/ status # "ok" /\ Nodes(p) = Was(p)
    \/ LET stored == Stored(fs[p].table) IN
       /\ Whole(p)
       /\ Cardinality({e.name : e \in ToSet(fs[p].table)}) = Len(fs[p].table)
       /\ stored \subseteq Expected(cmd.dir) \cup OwnMeta
       /\ \A e \in Expected(cmd.dir) :
            \/ e \in stored
            \/ e.name \in missed
            \/ \E o \in OwnMeta \cap stored : o.name = e.name
       /\ quiet /\ (cmd.outpres.abs \/ (Len(p) = 1 /\ ~Blocked)) => missed = {}
       /\ cmd.outpres.abs /\ status = "ok" => ~Exists(MetaBeside(p))

\* The live resources of a table, in order.
LiveEntries(t) ==
  LET kept[k \in 0..Len(t)] ==
        IF k = 0 THEN <<>>
        ELSE IF Live(t[k]) THEN Append(kept[k - 1], t[k]) ELSE kept[k - 1]
  IN  kept[Len(t)]

\* Repack: the container is replaced by the live resources of the old one, in
\* order, even when it is the old one; or it is not touched.
RepackOutcome ==
  Ended("rep") =>
    LET p == cmd.outpres.path
        q == cmd.inpres.path IN
    \/ status # "ok" /\ Nodes(p) = Was(p)
    \/ /\ Nodes(p) = {Container(LiveEntries(before[q].table))}
       /\ status = "ok" => ~Exists(MetaBeside(p))

\* Export into a directory that was not there, of names none of which is a
\* directory of another: every live and undamaged resource is where its name
\* says, unless an earlier one had the name; and export_id says what it did.
TreeLike(t) == \A d, e \in ToSet(t) : ~IsStrictPrefix(d.name, e.name) \/ ~Live(d)

\* A directory that a command can make.
New(d) ==
  /\ d # Home /\ d \notin DOMAIN before
  /\ Front(d) = Home \/ (Front(d) \in DOMAIN before /\ before[Front(d)] = Dir)

ExportOutcome ==
  quiet /\ cmd.kind \in {"exp", "expid"} /\ New(cmd.dir) =>
    LET t == before[cmd.inpres.path].table IN
    /\ Ended("exp") /\ status = "ok" /\ TreeLike(t) =>
         \A k \in DOMAIN t :
           LET e == t[k] IN
           Live(e) /\ e.intact
             /\ (\A j \in 1..(k - 1) : t[j].name = e.name => ~t[j].intact)
           => Nodes(cmd.dir \o e.name) = {Plain(e.data, "0400")}
    /\ Ended("expid") /\ Whole(cmd.inpres.path) =>
         LET good == cmd.id \in DOMAIN t /\ Live(t[cmd.id]) /\ t[cmd.id].intact
         IN  /\ status = "ok" <=> good
             /\ good => Nodes(Append(cmd.dir, Last(t[cmd.id].name)))
                          = {Plain(t[cmd.id].data, "0400")}

\* "import directory to new pres container" (main.c:408): when the command
\* says so and nothing failed, the container holds every file that is not
\* hidden.
ImportHoldsAll ==
  Ended("imp") /\ status = "ok" /\ quiet =>
    /\ Whole(cmd.outpres.path)
    /\ Expected(cmd.dir) \subseteq Stored(fs[cmd.outpres.path].table)
=============================================================================
