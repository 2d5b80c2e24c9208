----------------------------- MODULE KtoolProofs -----------------------------
(***************************************************************************)
(* Proofs about Ktool, for every tree of files, every set of command lines *)
(* and failures, and any number of commands:                               *)
(*   - a torn container has its backup beside it (Guarded),                *)
(*   - repack keeps exactly the live resources, in order (RepackOutcome),  *)
(*   - exports write what the table says under its names (ExportOutcome),  *)
(*   - an import stores every file of the directory once (ImportOutcome).  *)
(***************************************************************************)
EXTENDS Ktool, FiniteSetTheorems, SequenceTheorems, WellFoundedInduction, TLAPS

IsTorn(n) == n.kind = "container" /\ ~n.whole

\* Only containers that command lines name are ever torn.
TornInv == \A p \in DOMAIN fs : IsTorn(fs[p]) => \E c \in Containers : p = c.path

FsInv == TornInv /\ Guarded

IsHandle(h) ==
  h = [mode |-> h.mode, arg |-> h.arg, target |-> h.target, table |-> h.table]

\* Where the working directory is, and which command is at work.
PlaceInv ==
  /\ pc \in {"idle", "start", "rep"} => cwd = Home
  /\ pc # "idle" => cmd \in Commands
  /\ pc = "rep" => cmd.kind = "rep"

\* A container that is changed in place has its backup.
OldInv ==
  pc \in {"add", "added", "delid", "close", "closing", "unmeta"} =>
    /\ cmd \in Commands /\ ForWriting /\ cwd = Home
    /\ IsHandle(old) /\ old.arg = cmd.inpres /\ old.target = cmd.inpres.path
    /\ MetaBeside(old.target) \in DOMAIN fs
    /\ pc = "unmeta" => old.target \in DOMAIN fs /\ ~IsTorn(fs[old.target])

\* A container that is created is whole when its backup goes.
NewInv ==
  pc \in {"enter", "walk", "copy", "publish", "unlink"} =>
    /\ cmd \in Commands /\ cmd.kind \in {"imp", "rep"}
    /\ IsHandle(new) /\ new.arg = cmd.outpres /\ new.target = cmd.outpres.path
    /\ pc \in {"enter", "walk"} => cmd.kind = "imp"
    /\ pc = "copy" => cmd.kind = "rep"
    /\ cmd.kind = "rep" => cwd = Home
    /\ cmd.kind = "imp" /\ pc # "enter" => cwd = cmd.dir
    /\ pc = "unlink" => new.target \in DOMAIN fs /\ ~IsTorn(fs[new.target])

PhaseInv == PlaceInv /\ OldInv /\ NewInv

IInv == FsInv /\ PhaseInv

-----------------------------------------------------------------------------
(* Names *)

\* The first elements of a sequence.
LEMMA Fore ==
  ASSUME NEW s \in Seq(STRING), NEW n \in Nat, n <= Len(s)
  PROVE  /\ SubSeq(s, 1, n) \in Seq(STRING) /\ Len(SubSeq(s, 1, n)) = n
         /\ \A k \in 1..n : SubSeq(s, 1, n)[k] = s[k]
  OBVIOUS

\* Names of backups differ when those of the containers do.
LEMMA MetaDiffers ==
  ASSUME NEW p \in Seq(STRING), NEW q \in Seq(STRING), p # <<>>, q # <<>>,
         Last(p) \in DOMAIN MetaName, Last(q) \in DOMAIN MetaName,
         MetaBeside(p) = MetaBeside(q)
  PROVE  p = q
<1> DEFINE m == Len(p)
           n == Len(q)
<1>1. m \in Nat \ {0} /\ n \in Nat \ {0}
  OBVIOUS
<1>2. /\ Front(p) \in Seq(STRING) /\ Len(Front(p)) = m - 1
      /\ \A k \in 1..(m - 1) : Front(p)[k] = p[k]
      /\ Front(q) \in Seq(STRING) /\ Len(Front(q)) = n - 1
      /\ \A k \in 1..(n - 1) : Front(q)[k] = q[k]
  <2>1. m - 1 \in Nat /\ m - 1 <= Len(p) /\ n - 1 \in Nat /\ n - 1 <= Len(q)
    BY <1>1
  <2> HIDE DEF m, n
  <2>2. Front(p) = SubSeq(p, 1, m - 1) /\ Front(q) = SubSeq(q, 1, n - 1)
    BY DEF Front, m, n
  <2>3. QED
    BY <2>1, <2>2, Fore
<1> DEFINE a == Append(Front(p), MetaName[Last(p)])
           b == Append(Front(q), MetaName[Last(q)])
<1>3. a = b
  BY DEF MetaBeside
<1>4. /\ Len(a) = m /\ a[m] = MetaName[Last(p)] /\ \A k \in 1..(m - 1) : a[k] = p[k]
      /\ Len(b) = n /\ b[n] = MetaName[Last(q)] /\ \A k \in 1..(n - 1) : b[k] = q[k]
  <2> DEFINE x == MetaName[Last(p)]
             y == MetaName[Last(q)]
             f == Front(p)
             g == Front(q)
  <2>1. f \in Seq(STRING \cup {x}) /\ g \in Seq(STRING \cup {y})
    BY <1>2
  <2> HIDE DEF x, y, f, g
  <2>2. Len(Append(f, x)) = Len(f) + 1 /\ Append(f, x)[Len(f) + 1] = x
        /\ \A k \in 1..Len(f) : Append(f, x)[k] = f[k]
    BY <2>1
  <2>3. Len(Append(g, y)) = Len(g) + 1 /\ Append(g, y)[Len(g) + 1] = y
        /\ \A k \in 1..Len(g) : Append(g, y)[k] = g[k]
    BY <2>1
  <2>4. Len(f) = m - 1 /\ Len(g) = n - 1
    BY <1>2 DEF f, g
  <2>5. (m - 1) + 1 = m /\ (n - 1) + 1 = n
    BY <1>1
  <2>6. QED
    BY <1>2, <2>2, <2>3, <2>4, <2>5 DEF x, y, f, g
<1> HIDE DEF a, b
<1>5. m = n /\ MetaName[Last(p)] = MetaName[Last(q)] /\ \A k \in 1..(m - 1) : p[k] = q[k]
  BY <1>3, <1>4
<1>6. p[m] = q[m]
  BY <1>5, KtoolAssumption DEF Last
<1>7. \A k \in 1..m : p[k] = q[k]
  BY <1>1, <1>5, <1>6
<1>8. QED
  BY <1>5, <1>7

\* Names that command lines give to containers.
LEMMA Named ==
  ASSUME NEW c \in Containers
  PROVE  c.path \in Seq(STRING) /\ c.path # <<>> /\ Last(c.path) \in DOMAIN MetaName
  BY KtoolAssumption

\* What a command opens is named by its command line.
LEMMA OldNamed ==
  ASSUME cmd \in Commands, cmd.kind # "imp"
  PROVE  cmd.inpres \in Containers
  BY DEF Containers

\* What a command creates is named by its command line.
LEMMA NewNamed ==
  ASSUME cmd \in Commands, cmd.kind \in {"imp", "rep"}
  PROVE  cmd.outpres \in Containers
  BY DEF Containers

\* At home a relative name is the path.
LEMMA ResolveHome ==
  ASSUME NEW c \in Containers, cwd = Home
  PROVE  Resolve(c) = c.path
<1>1. c.path \in Seq(STRING)
  BY Named
<1>2. <<>> \o c.path = c.path
  BY <1>1
<1>3. QED
  BY <1>2 DEF Resolve, Home

-----------------------------------------------------------------------------
(* Files *)

\* unlink: the other files are as they were.
LEMMA RemovedFacts ==
  ASSUME NEW p
  PROVE  /\ DOMAIN fs \ {p} \subseteq DOMAIN Removed(p) /\ DOMAIN Removed(p) \subseteq DOMAIN fs
         /\ \A q \in DOMAIN Removed(p) : Removed(p)[q] = fs[q]
         /\ p \in DOMAIN Removed(p) => fs[p] = Dir /\ Removed(p) = fs
  BY DEF Removed, Without, IsFile, Exists

\* k_tcreate_dirs: new directories, the files are as they were.
LEMMA DirsMadeFacts ==
  ASSUME NEW name, NEW n
  PROVE  /\ DOMAIN fs \subseteq DOMAIN DirsMade(name, n)
         /\ \A q \in DOMAIN fs : DirsMade(name, n)[q] = fs[q]
         /\ \A q \in DOMAIN DirsMade(name, n) \ DOMAIN fs : DirsMade(name, n)[q] = Dir
  BY DEF DirsMade

\* Nodes that are not torn.
LEMMA NotTorn ==
  /\ ~IsTorn(Dir) /\ ~IsTorn(Meta)
  /\ \A d, m : ~IsTorn(Plain(d, m))
  /\ \A t : ~IsTorn(Container(t))
  BY DEF IsTorn, Dir, Meta, Plain, Container

\* Nothing goes and nothing is torn.
LEMMA Grows ==
  ASSUME FsInv, DOMAIN fs \subseteq DOMAIN fs',
         \A p \in DOMAIN fs' : IsTorn(fs'[p]) => p \in DOMAIN fs /\ fs'[p] = fs[p]
  PROVE  FsInv'
<1>1. TornInv'
  BY DEF FsInv, TornInv
<1>2. Guarded'
  BY DEF FsInv, Guarded, IsTorn
<1>3. QED
  BY <1>1, <1>2 DEF FsInv

\* A step that leaves the files alone.
LEMMA Stays ==
  ASSUME FsInv, UNCHANGED fs
  PROVE  FsInv'
<1>1. TornInv' /\ Guarded'
  BY DEF FsInv, TornInv, Guarded
<1>2. QED
  BY <1>1 DEF FsInv

\* A whole file is written.
LEMMA Writes ==
  ASSUME FsInv, NEW p, NEW n, ~IsTorn(n), fs' = With(p, n)
  PROVE  FsInv' /\ DOMAIN fs' = DOMAIN fs \cup {p} /\ fs'[p] = n
<1>1. /\ DOMAIN fs' = DOMAIN fs \cup {p} /\ fs'[p] = n
      /\ \A q \in DOMAIN fs : q # p => fs'[q] = fs[q]
  BY DEF With
<1>2. QED
  BY <1>1, Grows

\* A container is torn that has its backup.
LEMMA Tears ==
  ASSUME FsInv, NEW c \in Containers, NEW t, fs' = With(c.path, Torn(t)),
         MetaBeside(c.path) \in DOMAIN fs
  PROVE  FsInv' /\ DOMAIN fs \subseteq DOMAIN fs'
<1>1. /\ DOMAIN fs' = DOMAIN fs \cup {c.path}
      /\ \A q \in DOMAIN fs : q # c.path => fs'[q] = fs[q]
  BY DEF With
<1>2. TornInv'
  BY <1>1 DEF FsInv, TornInv
<1>3. Guarded'
  BY <1>1 DEF FsInv, Guarded
<1>4. QED
  BY <1>1, <1>2, <1>3 DEF FsInv

\* A backup goes whose container is whole, or that is not its own.
LEMMA Removes ==
  ASSUME FsInv, NEW c \in Containers, NEW q,
         q = c.path \/ q \in Astray,
         q = c.path => q \in DOMAIN fs /\ ~IsTorn(fs[q]),
         q \in Seq(STRING), q # <<>>, Last(q) \in DOMAIN MetaName,
         fs' = Removed(MetaBeside(q))
  PROVE  FsInv'
<1>1. /\ DOMAIN fs \ {MetaBeside(q)} \subseteq DOMAIN fs' /\ DOMAIN fs' \subseteq DOMAIN fs
      /\ \A p \in DOMAIN fs' : fs'[p] = fs[p]
  BY RemovedFacts
<1>2. TornInv'
  BY <1>1 DEF FsInv, TornInv
<1>3. ASSUME NEW p \in DOMAIN fs' \ Astray, IsTorn(fs'[p])
      PROVE  MetaBeside(p) \in DOMAIN fs'
  <2>1. p \in DOMAIN fs /\ IsTorn(fs[p]) /\ MetaBeside(p) \in DOMAIN fs
    BY <1>1, <1>3 DEF FsInv, Guarded, IsTorn
  <2>2. PICK d \in Containers : p = d.path
    BY <2>1 DEF FsInv, TornInv
  <2>3. p \in Seq(STRING) /\ p # <<>> /\ Last(p) \in DOMAIN MetaName
    BY <2>2, Named
  <2>4. p # q
    BY <1>3, <2>1
  <2>5. QED
    BY <1>1, <2>1, <2>3, <2>4, MetaDiffers
<1>4. Guarded'
  <2>1. Astray' = Astray
    BY DEF Astray
  <2>2. QED
    BY <1>3, <2>1 DEF Guarded, IsTorn
<1>5. QED
  BY <1>2, <1>4 DEF FsInv

-----------------------------------------------------------------------------
(* Steps *)

\* A process that ends leaves nothing to its successor but the files.
LEMMA ExitStep ==
  ASSUME NEW s, Exit(s), FsInv'
  PROVE  IInv'
<1>1. pc' = "idle" /\ cwd' = Home
  BY DEF Exit
<1>2. PhaseInv'
  BY <1>1 DEF PhaseInv, PlaceInv, OldInv, NewInv
<1>3. QED
  BY <1>2 DEF IInv

\* A step to where neither handle is worth a word.
LEMMA PassStep ==
  ASSUME PhaseInv, pc # "idle", NEW l \in {"exp", "expid", "ls", "export", "write", "back"},
         pc' = l, UNCHANGED cmd, FsInv'
  PROVE  IInv'
<1>1. PhaseInv'
  BY DEF PhaseInv, PlaceInv, OldInv, NewInv
<1>2. QED
  BY <1>1 DEF IInv

\* A command line is given.
LEMMA StartStep ==
  ASSUME IInv, NEW c \in Commands, Start(c)
  PROVE  IInv'
<1>1. FsInv'
  BY Stays DEF IInv, Start
<1>2. PhaseInv'
  BY DEF IInv, PhaseInv, PlaceInv, OldInv, NewInv, Start
<1>3. QED
  BY <1>1, <1>2 DEF IInv

\* _open_pres_container, which writes the backup of a container to be changed.
LEMMA OpenStep ==
  ASSUME IInv, Open \/ OpenFails
  PROVE  IInv'
<1>1. CASE OpenFails
  BY <1>1, ExitStep, Stays DEF IInv, OpenFails
<1>2. CASE Open
  <2> DEFINE c == cmd.inpres
  <2>1. /\ pc = "start" /\ cmd.kind # "imp" /\ cmd \in Commands /\ cwd = Home
        /\ pc' = cmd.kind /\ cmd' = cmd /\ cwd' = Home
        /\ cmd.kind \in {"add", "delid", "rep", "exp", "expid", "ls"}
    BY <1>2, KtoolAssumption DEF IInv, PhaseInv, PlaceInv, Open, Goto, Rest
  <2>2. c \in Containers /\ Resolve(c) = c.path
    BY <2>1, OldNamed, ResolveHome
  <2>3. CASE ForWriting
    <3>1. fs' = With(MetaBeside(c.path), Meta)
      BY <1>2, <2>2, <2>3 DEF Open, ResolveMeta
    <3>2. FsInv' /\ MetaBeside(c.path) \in DOMAIN fs'
      BY <3>1, Writes, NotTorn DEF IInv
    <3>3. /\ IsHandle(old') /\ old'.arg = c /\ old'.target = c.path
      BY <1>2, <2>2 DEF Open, Handle, IsHandle
    <3>4. cmd'.kind \in {"add", "delid"} /\ ForWriting'
      BY <2>1, <2>3 DEF ForWriting
    <3>5. OldInv'
      BY <2>1, <3>2, <3>3, <3>4 DEF OldInv
    <3>6. PlaceInv' /\ NewInv'
      BY <2>1, <3>4 DEF PlaceInv, NewInv
    <3>7. QED
      BY <3>2, <3>5, <3>6 DEF IInv, PhaseInv
  <2>4. CASE ~ForWriting
    <3>1. FsInv'
      BY <1>2, <2>4, Stays DEF IInv, Open
    <3>2. cmd.kind \in {"rep", "exp", "expid", "ls"}
      BY <2>1, <2>4 DEF ForWriting
    <3>3. PhaseInv'
      BY <2>1, <3>2 DEF PhaseInv, PlaceInv, OldInv, NewInv
    <3>4. QED
      BY <3>1, <3>3 DEF IInv
  <2>5. QED
    BY <2>3, <2>4
<1>3. QED
  BY <1>1, <1>2

\* A container is created, by imp or rep.
LEMMA CreateStep ==
  ASSUME IInv, cmd \in Commands, NEW l, Created(cmd.outpres, l), UNCHANGED cwd, cwd = Home,
         \/ l = "enter" /\ cmd.kind = "imp"
         \/ l = "copy" /\ cmd.kind = "rep"
  PROVE  IInv'
<1> DEFINE c == cmd.outpres
<1>1. c \in Containers /\ Resolve(c) = c.path
  BY NewNamed, ResolveHome
<1>2. FsInv'
  BY Writes, NotTorn DEF IInv, Created
<1>3. IsHandle(new') /\ new'.arg = c /\ new'.target = c.path
  BY <1>1 DEF Created, Handle, IsHandle
<1>4. pc' = l /\ cmd' = cmd /\ cwd' = Home
  BY DEF Created, Goto, Rest
<1>5. PlaceInv' /\ OldInv' /\ NewInv'
  BY <1>3, <1>4 DEF PlaceInv, OldInv, NewInv
<1>6. QED
  BY <1>2, <1>5 DEF IInv, PhaseInv

\* k_pres_create has failed; the process is gone.
LEMMA CreateFailsStep ==
  ASSUME IInv, NEW c, CreateFails(c)
  PROVE  IInv'
  BY ExitStep, Stays DEF IInv, CreateFails

\* The next entry of a container that is created.
LEMMA CommitStep ==
  ASSUME IInv, NEW e, new' = Committed(new, e), fs' = With(ResolveMeta(new.arg), Meta),
         pc \in {"walk", "copy"}, UNCHANGED <<pc, cwd, cmd>>
  PROVE  IInv'
<1>1. FsInv'
  BY Writes, NotTorn DEF IInv
<1>2. IsHandle(new)
  BY DEF IInv, PhaseInv, NewInv
<1>3. IsHandle(new') /\ new'.arg = new.arg /\ new'.target = new.target
  BY <1>2 DEF IsHandle, Committed
<1>4. PlaceInv' /\ OldInv' /\ NewInv'
  BY <1>3 DEF IInv, PhaseInv, PlaceInv, OldInv, NewInv
<1>5. QED
  BY <1>1, <1>4 DEF IInv, PhaseInv

\* The handles stay, and so do the files.
LEMMA MoveStep ==
  ASSUME IInv, pc \in {"walk", "copy"}, pc' \in {"walk", "copy", "publish"},
         pc' # "publish" => pc' = pc,
         UNCHANGED <<fs, cwd, cmd, new>>
  PROVE  IInv'
<1>1. FsInv'
  BY Stays DEF IInv
<1>2. PlaceInv' /\ OldInv'
  BY DEF IInv, PhaseInv, PlaceInv, OldInv
<1>3. NewInv'
  BY DEF IInv, PhaseInv, NewInv, IsHandle
<1>4. QED
  BY <1>1, <1>2, <1>3 DEF IInv, PhaseInv

\* The steps of import_directory.
LEMMA ImportStep ==
  ASSUME IInv, Import
  PROVE  IInv'
<1>1. CASE ImportCreate
  <2>1. pc = "start" /\ cmd.kind = "imp" /\ cmd \in Commands /\ cwd = Home
    BY <1>1 DEF ImportCreate, IInv, PhaseInv, PlaceInv
  <2>2. QED
    BY <1>1, <2>1, CreateStep, CreateFailsStep DEF ImportCreate
<1>2. CASE ImportEnter
  <2>1. FsInv'
    BY <1>2, Stays DEF IInv, ImportEnter
  <2>2. ASSUME cwd' = cmd.dir, Goto("walk"), UNCHANGED <<new, old, seen, i>> PROVE IInv'
    <3>1. pc = "enter" /\ pc' = "walk" /\ UNCHANGED <<cmd, new>>
      BY <1>2, <2>2 DEF ImportEnter, Goto, Rest
    <3>2. PlaceInv' /\ OldInv' /\ NewInv'
      BY <2>2, <3>1 DEF IInv, PhaseInv, PlaceInv, OldInv, NewInv, IsHandle
    <3>3. QED
      BY <2>1, <3>2 DEF IInv, PhaseInv
  <2>3. QED
    BY <1>2, <2>1, <2>2, ExitStep DEF ImportEnter
<1>3. CASE Visit
  <2>1. ASSUME NEW p \in ToVisit, VisitSkips(p) PROVE IInv'
    BY <2>1, MoveStep DEF VisitSkips, Rest
  <2>2. ASSUME NEW p \in ToVisit, VisitAdds(p) PROVE IInv'
    BY <2>2, CommitStep DEF VisitAdds, Goto, Rest
  <2>3. ASSUME NEW p \in ToVisit, VisitFails(p) PROVE IInv'
    BY <2>3, ExitStep, Stays DEF VisitFails, Abandon, IInv
  <2>4. CASE WalkEnds
    BY <2>4, MoveStep DEF WalkEnds, Goto, Rest
  <2>5. QED
    BY <1>3, <2>1, <2>2, <2>3, <2>4 DEF Visit
<1>4. CASE ImportBack
  BY <1>4, ExitStep, Stays DEF IInv, ImportBack
<1>5. QED
  BY <1>1, <1>2, <1>3, <1>4 DEF Import

\* k_pres_close of a created container gives it its name.
LEMMA PublishStep ==
  ASSUME IInv, Publish
  PROVE  IInv'
<1>1. pc = "publish" /\ pc' = "unlink" /\ UNCHANGED <<cmd, cwd, new>>
  BY DEF Publish, Goto, Rest
<1>2. FsInv' /\ new.target \in DOMAIN fs' /\ ~IsTorn(fs'[new.target])
  <2>1. fs' = With(new.target, Container(new.table)) /\ ~IsTorn(Container(new.table))
    BY NotTorn DEF Publish, Published
  <2>2. FsInv' /\ DOMAIN fs' = DOMAIN fs \cup {new.target} /\ fs'[new.target] = Container(new.table)
    BY <2>1, Writes DEF IInv
  <2>3. QED
    BY <2>1, <2>2
<1>3. PlaceInv' /\ OldInv'
  BY <1>1 DEF IInv, PhaseInv, PlaceInv, OldInv
<1>4. NewInv'
  BY <1>1, <1>2 DEF IInv, PhaseInv, NewInv, IsHandle
<1>5. QED
  BY <1>2, <1>3, <1>4 DEF IInv, PhaseInv

\* The backup that goes is that of the container that was just published, or
\* the import went astray.
LEMMA UnlinkStep ==
  ASSUME IInv, Unlink
  PROVE  IInv'
<1> DEFINE c == cmd.outpres
           q == Resolve(c)
<1>1. /\ pc = "unlink" /\ cmd \in Commands /\ cmd.kind \in {"imp", "rep"}
      /\ new.arg = c /\ c.path \in DOMAIN fs /\ ~IsTorn(fs[c.path])
      /\ cmd.kind = "rep" => cwd = Home
      /\ cmd.kind = "imp" => cwd = cmd.dir
  BY DEF Unlink, IInv, PhaseInv, NewInv
<1>2. c \in Containers /\ c.path \in Seq(STRING) /\ c.path # <<>> /\ Last(c.path) \in DOMAIN MetaName
  BY <1>1, NewNamed, Named
<1>3. fs' = Removed(MetaBeside(q))
  BY <1>1 DEF Unlink, ResolveMeta
<1>4. FsInv'
  <2>1. CASE q = c.path
    BY <1>1, <1>2, <1>3, <2>1, Removes DEF IInv
  <2>2. CASE q # c.path
    <3>1. cmd.kind = "imp" /\ ~c.abs /\ q = cmd.dir \o c.path
      BY <1>1, <1>2, <2>2, ResolveHome DEF Resolve
    <3>2. q \in Astray
      BY <1>1, <3>1 DEF Astray
    <3>3. q \in Seq(STRING) /\ q # <<>> /\ Last(q) \in DOMAIN MetaName
      <4> DEFINE d == cmd.dir
                 p == c.path
      <4>1. d \in Seq(STRING)
        BY <1>1, <3>1, KtoolAssumption
      <4>2. p \in Seq(STRING) /\ p # <<>> /\ p[Len(p)] \in DOMAIN MetaName
        BY <1>2 DEF Last
      <4> HIDE DEF d, p
      <4>3. d \o p \in Seq(STRING) /\ d \o p # <<>> /\ (d \o p)[Len(d \o p)] = p[Len(p)]
        BY <4>1, <4>2
      <4>4. QED
        BY <3>1, <4>2, <4>3 DEF Last, d, p
    <3>4. QED
      BY <1>2, <1>3, <2>2, <3>2, <3>3, Removes DEF IInv
  <2>3. QED
    BY <2>1, <2>2
<1>5. CASE Goto("back")
  BY <1>1, <1>4, <1>5, PassStep DEF IInv, Goto, Rest
<1>6. CASE Exit("ok")
  BY <1>4, <1>6, ExitStep
<1>7. QED
  BY <1>5, <1>6 DEF Unlink

\* A step of add or delid that writes a whole file or none.
LEMMA ChangeStep ==
  ASSUME IInv, pc \in {"add", "added", "delid"}, pc' = "close",
         UNCHANGED <<cwd, cmd>>, FsInv', DOMAIN fs \subseteq DOMAIN fs',
         IsHandle(old') /\ old'.arg = old.arg /\ old'.target = old.target
  PROVE  IInv'
<1>1. PlaceInv' /\ NewInv'
  BY DEF IInv, PhaseInv, PlaceInv, NewInv
<1>2. OldInv'
  BY DEF IInv, PhaseInv, OldInv, ForWriting
<1>3. QED
  BY <1>1, <1>2 DEF IInv, PhaseInv

\* A step that tears the container, whose backup is there.
LEMMA TearStep ==
  ASSUME IInv, pc \in {"add", "close"}, pc' \in {"added", "closing"},
         fs' = With(old.target, Torn(old.table)), UNCHANGED <<cwd, cmd, old>>
  PROVE  IInv'
<1>1. /\ cmd \in Commands /\ cmd.kind # "imp" /\ old.target = cmd.inpres.path
      /\ MetaBeside(old.target) \in DOMAIN fs
  BY DEF IInv, PhaseInv, OldInv, ForWriting
<1>2. FsInv' /\ DOMAIN fs \subseteq DOMAIN fs'
  BY <1>1, OldNamed, Tears DEF IInv
<1>3. PlaceInv' /\ NewInv'
  BY DEF IInv, PhaseInv, PlaceInv, NewInv
<1>4. OldInv'
  BY <1>2 DEF IInv, PhaseInv, OldInv, ForWriting, IsHandle
<1>5. QED
  BY <1>2, <1>3, <1>4 DEF IInv, PhaseInv

\* A new entry or a deleted one, with its backup.
LEMMA EntryStep ==
  ASSUME IInv, pc \in {"added", "delid"}, pc' = "close", UNCHANGED <<cwd, cmd>>,
         fs' = With(ResolveMeta(old.arg), Meta),
         \/ \E e : old' = Committed(old, e)
         \/ old' = [old EXCEPT !.table[cmd.id] = Deleted]
  PROVE  IInv'
<1>1. IsHandle(old)
  BY DEF IInv, PhaseInv, OldInv
<1>2. IsHandle(old') /\ old'.arg = old.arg /\ old'.target = old.target
  BY <1>1 DEF IsHandle, Committed
<1>3. FsInv' /\ DOMAIN fs \subseteq DOMAIN fs'
  BY Writes, NotTorn DEF IInv
<1>4. QED
  BY <1>2, <1>3, ChangeStep

\* A call that was refused or failed.
LEMMA SkipStep ==
  ASSUME IInv, pc \in {"add", "added", "delid"}, pc' = "close", UNCHANGED <<fs, cwd, cmd, old>>
  PROVE  IInv'
<1>1. IsHandle(old')
  BY DEF IInv, PhaseInv, OldInv, IsHandle
<1>2. FsInv'
  BY Stays DEF IInv
<1>3. QED
  BY <1>1, <1>2, ChangeStep

\* k_pres_close of a container changed in place: torn, whole, backup removed.
LEMMA CloseStep ==
  ASSUME IInv, CloseEnds \/ CloseRemoves \/ CloseFails
  PROVE  IInv'
<1>1. CASE CloseEnds
  <2>1. pc = "closing" /\ pc' = "unmeta" /\ UNCHANGED <<cwd, cmd, old>>
    BY <1>1 DEF CloseEnds, Goto, Rest
  <2>2. fs' = With(old.target, Container(old.table)) /\ ~IsTorn(Container(old.table))
    BY <1>1, NotTorn DEF CloseEnds
  <2>3. FsInv' /\ DOMAIN fs' = DOMAIN fs \cup {old.target} /\ fs'[old.target] = Container(old.table)
    BY <2>2, Writes DEF IInv
  <2>4. PlaceInv' /\ NewInv'
    BY <2>1 DEF IInv, PhaseInv, PlaceInv, NewInv
  <2>5. OldInv'
    BY <2>1, <2>2, <2>3 DEF IInv, PhaseInv, OldInv, ForWriting, IsHandle
  <2>6. QED
    BY <2>3, <2>4, <2>5 DEF IInv, PhaseInv
<1>2. CASE CloseRemoves
  <2> DEFINE c == cmd.inpres
  <2>1. /\ cmd \in Commands /\ cmd.kind # "imp" /\ cwd = Home
        /\ old.arg = c /\ c.path \in DOMAIN fs /\ ~IsTorn(fs[c.path])
    BY <1>2 DEF CloseRemoves, IInv, PhaseInv, OldInv, ForWriting
  <2>2. c \in Containers /\ c.path \in Seq(STRING) /\ c.path # <<>> /\ Last(c.path) \in DOMAIN MetaName
    BY <2>1, OldNamed, Named
  <2>3. fs' = Removed(MetaBeside(c.path))
    BY <1>2, <2>1, <2>2, ResolveHome DEF CloseRemoves, ResolveMeta
  <2>4. FsInv'
    BY <2>1, <2>2, <2>3, Removes DEF IInv
  <2>5. QED
    BY <1>2, <2>4, ExitStep DEF CloseRemoves
<1>3. CASE CloseFails
  BY <1>3, ExitStep, Stays DEF CloseFails, LeavesMeta, IInv
<1>4. QED
  BY <1>1, <1>2, <1>3

\* The steps of add_file and delete_id.
LEMMA ChangesStep ==
  ASSUME IInv, Change
  PROVE  IInv'
<1>1. CASE AddSkips
  BY <1>1, SkipStep DEF AddSkips, Goto, Rest
<1>2. CASE AddAppends
  BY <1>2, TearStep DEF AddAppends, Goto, Rest
<1>3. CASE AddCommits
  BY <1>3, EntryStep DEF AddCommits, Goto, Rest
<1>4. CASE AddFails
  BY <1>4, SkipStep DEF AddFails, Goto, Rest
<1>5. CASE DeleteRefused
  BY <1>5, SkipStep DEF DeleteRefused, Goto, Rest
<1>6. CASE Delete
  <2>1. pc = "delid" /\ pc' = "close" /\ UNCHANGED <<cwd, cmd>>
    BY <1>6 DEF Delete, Goto, Rest
  <2>2. \/ old' = [old EXCEPT !.table[cmd.id] = Deleted] /\ fs' = With(ResolveMeta(old.arg), Meta)
        \/ UNCHANGED <<fs, old>>
    BY <1>6 DEF Delete
  <2>3. QED
    BY <2>1, <2>2, EntryStep, SkipStep
<1>7. CASE CloseWrites
  BY <1>7, TearStep DEF CloseWrites, Goto, Rest
<1>8. QED
  BY <1>1, <1>2, <1>3, <1>4, <1>5, <1>6, <1>7, CloseStep DEF Change

\* The steps of repack.
LEMMA RepackStep ==
  ASSUME IInv, Repack
  PROVE  IInv'
<1>1. CASE RepackCreate
  <2>1. pc = "rep" /\ cmd.kind = "rep" /\ cmd \in Commands /\ cwd = Home
    BY <1>1 DEF RepackCreate, IInv, PhaseInv, PlaceInv
  <2>2. QED
    BY <1>1, <2>1, CreateStep, CreateFailsStep DEF RepackCreate
<1>2. CASE CopySkips
  BY <1>2, MoveStep DEF CopySkips, Goto, Rest
<1>3. CASE Copy
  <2>1. pc = "copy" /\ UNCHANGED <<pc, cwd, cmd>>
    BY <1>3 DEF Copy, Goto, Rest
  <2>2. new' = Committed(new, old.table[i]) /\ fs' = With(ResolveMeta(new.arg), Meta)
    BY <1>3 DEF Copy
  <2>3. QED
    BY <2>1, <2>2, CommitStep
<1>4. CASE CopyFails
  BY <1>4, ExitStep, Stays DEF CopyFails, GiveUp, IInv
<1>5. CASE CopyEnds
  BY <1>5, MoveStep DEF CopyEnds, Goto, Rest
<1>6. QED
  BY <1>1, <1>2, <1>3, <1>4, <1>5 DEF Repack

\* Exports make directories and plain files.
LEMMA ExportFiles ==
  ASSUME IInv, Export
  PROVE  FsInv'
<1>1. ASSUME NEW name, NEW n, fs' = DirsMade(name, n) PROVE FsInv'
  <2>1. /\ DOMAIN fs \subseteq DOMAIN fs'
        /\ \A q \in DOMAIN fs : fs'[q] = fs[q]
        /\ \A q \in DOMAIN fs' \ DOMAIN fs : fs'[q] = Dir
    BY <1>1 DEF DirsMade
  <2>2. QED
    BY <2>1, Grows, NotTorn DEF IInv
<1>2. CASE ExportEnter
  BY <1>2, Writes, Stays, NotTorn DEF IInv, ExportEnter
<1>3. CASE ExportMakesDirs
  BY <1>1, <1>3, Stays DEF IInv, ExportMakesDirs
<1>4. CASE ExportStrays
  BY <1>1, <1>4 DEF ExportStrays
<1>5. CASE ExportWrites
  BY <1>5, Writes, NotTorn DEF IInv, ExportWrites
<1>6. CASE ExportRefused \/ ExportDeleted \/ ExportFails \/ ExportEnds
  BY <1>6, Stays DEF IInv, ExportRefused, ExportDeleted, ExportFails, ExportEnds
<1>7. QED
  BY <1>2, <1>3, <1>4, <1>5, <1>6 DEF Export

\* The steps of the exports write plain files and directories only.
LEMMA ExportStep ==
  ASSUME IInv, Export
  PROVE  IInv'
<1>1. FsInv'
  BY ExportFiles
<1>2. pc \in {"exp", "expid", "export", "write"}
  BY DEF Export, ExportEnter, ExportRefused, ExportDeleted, ExportMakesDirs, ExportStrays,
         ExportWrites, ExportFails, ExportEnds, Exporting
<1>3. \/ \E s : Exit(s)
      \/ pc' \in {"export", "write"} /\ UNCHANGED cmd
  BY DEF Export, ExportEnter, ExportRefused, ExportDeleted, ExportMakesDirs, ExportStrays,
         ExportWrites, ExportFails, ExportEnds, After, GoOnAfter, Goto, Rest
<1>4. QED
  BY <1>1, <1>2, <1>3, ExitStep, PassStep DEF IInv

\* Nothing happens.
LEMMA StutterStep ==
  ASSUME IInv, UNCHANGED vars
  PROVE  IInv'
<1>1. FsInv'
  BY Stays DEF IInv, vars
<1>2. PhaseInv'
  BY DEF IInv, PhaseInv, PlaceInv, OldInv, NewInv, ForWriting, IsHandle, vars
<1>3. QED
  BY <1>1, <1>2 DEF IInv

\* Every step keeps the invariant.
LEMMA NextIInv == IInv /\ [Next]_vars => IInv'
<1> SUFFICES ASSUME IInv, [Next]_vars PROVE IInv'
  OBVIOUS
<1>1. CASE PublishFails \/ List \/ Kill
  BY <1>1, ExitStep, Stays DEF IInv, PublishFails, List, Kill
<1>2. CASE Step
  BY <1>1, <1>2, OpenStep, ImportStep, PublishStep, UnlinkStep, ChangesStep, RepackStep,
     ExportStep DEF Step
<1>3. QED
  BY <1>1, <1>2, StartStep, StutterStep DEF Next

\* No container of the first tree is torn.
LEMMA InitIInv == Init => IInv
<1> SUFFICES ASSUME Init PROVE IInv
  OBVIOUS
<1>1. \A p \in DOMAIN fs : ~IsTorn(fs[p])
  BY TreesAssumption DEF Init, IsTorn
<1>2. FsInv
  BY <1>1 DEF FsInv, TornInv, Guarded, IsTorn
<1>3. PhaseInv
  BY DEF Init, PhaseInv, PlaceInv, OldInv, NewInv
<1>4. QED
  BY <1>2, <1>3 DEF IInv

-----------------------------------------------------------------------------
(* Paths *)

\* Sequences that agree everywhere.
LEMMA SameSeq ==
  ASSUME NEW s \in Seq(STRING), NEW t \in Seq(STRING), Len(s) = Len(t),
         \A k \in 1..Len(s) : s[k] = t[k]
  PROVE  s = t
  OBVIOUS

\* One path behind the other.
LEMMA Concat ==
  ASSUME NEW d \in Seq(STRING), NEW n \in Seq(STRING)
  PROVE  /\ d \o n \in Seq(STRING) /\ Len(d \o n) = Len(d) + Len(n)
         /\ \A k \in 1..Len(d) : (d \o n)[k] = d[k]
         /\ \A k \in 1..Len(n) : (d \o n)[Len(d) + k] = n[k]
  OBVIOUS

\* One path is where the other begins.
LEMMA StrictIs ==
  ASSUME NEW s \in Seq(STRING), NEW t \in Seq(STRING)
  PROVE  IsStrictPrefix(s, t) <=> Len(s) < Len(t) /\ \A k \in 1..Len(s) : s[k] = t[k]
<1> DEFINE m == Len(s)  n == Len(t)
<1>1. m \in Nat /\ n \in Nat /\ m <= Len(s)
  OBVIOUS
<1>2. SubSeq(s, 1, Len(s)) = SubSeq(s, 1, m) /\ SubSeq(t, 1, Len(s)) = SubSeq(t, 1, m)
  OBVIOUS
<1>3. IsStrictPrefix(s, t) <=> m <= n /\ SubSeq(s, 1, m) = SubSeq(t, 1, m) /\ s # t
  BY DEF IsStrictPrefix, IsPrefix
<1>4. Len(s) = m /\ Len(t) = n
  OBVIOUS
<1> HIDE DEF m, n
<1>5. SubSeq(s, 1, m) = s
  <2>1. /\ SubSeq(s, 1, m) \in Seq(STRING) /\ Len(SubSeq(s, 1, m)) = m
        /\ \A k \in 1..m : SubSeq(s, 1, m)[k] = s[k]
    BY <1>1, Fore
  <2>2. QED
    BY <1>4, <2>1, SameSeq
<1>6. CASE m <= n
  <2>1. /\ SubSeq(t, 1, m) \in Seq(STRING) /\ Len(SubSeq(t, 1, m)) = m
        /\ \A k \in 1..m : SubSeq(t, 1, m)[k] = t[k]
    BY <1>1, <1>4, <1>6, Fore
  <2>2. SubSeq(s, 1, m) = SubSeq(t, 1, m) <=> \A k \in 1..m : s[k] = t[k]
    <3> DEFINE u == SubSeq(t, 1, m)
    <3>1. u \in Seq(STRING) /\ Len(u) = m /\ \A k \in 1..m : u[k] = t[k]
      BY <2>1
    <3> HIDE DEF u
    <3>2. s = u <=> \A k \in 1..m : s[k] = t[k]
      <4>1. ASSUME \A k \in 1..m : s[k] = t[k] PROVE s = u
        BY <1>4, <3>1, <4>1, SameSeq
      <4>2. QED
        BY <3>1, <4>1
    <3>3. QED
      BY <1>5, <3>2 DEF u
  <2>3. m < n => s # t
    BY <1>1, <1>4
  <2>4. m = n /\ (\A k \in 1..m : s[k] = t[k]) => s = t
    BY <1>4, SameSeq
  <2>5. m < n \/ m = n
    BY <1>1, <1>6
  <2>6. m < n => m # n
    BY <1>1
  <2>7. QED
    BY <1>3, <1>4, <1>6, <2>2, <2>3, <2>4, <2>5, <2>6
<1>7. CASE ~(m <= n)
  <2>1. ~(m < n)
    BY <1>1, <1>7
  <2>2. QED
    BY <1>3, <1>4, <1>7, <2>1
<1>8. QED
  BY <1>6, <1>7

\* What two paths in one directory have to do with each other, they have
\* without it.
LEMMA InOneDir ==
  ASSUME NEW d \in Seq(STRING), NEW m \in Seq(STRING), NEW n \in Seq(STRING)
  PROVE  /\ d \o m = d \o n => m = n
         /\ IsStrictPrefix(d \o m, d \o n) <=> IsStrictPrefix(m, n)
         /\ m # <<>> => Below(d, d \o m)
<1> DEFINE a == d \o m  b == d \o n  l == Len(d)  x == Len(m)  y == Len(n)
<1>1. /\ a \in Seq(STRING) /\ Len(a) = l + x /\ (\A k \in 1..l : a[k] = d[k])
      /\ \A k \in 1..x : a[l + k] = m[k]
  BY Concat
<1>2. /\ b \in Seq(STRING) /\ Len(b) = l + y /\ (\A k \in 1..l : b[k] = d[k])
      /\ \A k \in 1..y : b[l + k] = n[k]
  BY Concat
<1>3. l \in Nat /\ x \in Nat /\ y \in Nat /\ Len(d) = l /\ Len(m) = x /\ Len(n) = y
  OBVIOUS
<1> HIDE DEF a, b, l, x, y
<1>4. a = b => m = n
  <2> SUFFICES ASSUME a = b PROVE m = n
    OBVIOUS
  <2>1. x = y
    BY <1>1, <1>2, <1>3
  <2>2. \A k \in 1..x : m[k] = n[k]
    BY <1>1, <1>2, <2>1
  <2>3. QED
    BY <1>3, <2>1, <2>2, SameSeq
<1>5. IsStrictPrefix(a, b) <=> IsStrictPrefix(m, n)
  <2>1. IsStrictPrefix(a, b) <=> Len(a) < Len(b) /\ \A k \in 1..Len(a) : a[k] = b[k]
    BY <1>1, <1>2, StrictIs
  <2>2. IsStrictPrefix(m, n) <=> x < y /\ \A k \in 1..x : m[k] = n[k]
    BY <1>3, StrictIs
  <2>3. Len(a) < Len(b) <=> x < y
    BY <1>1, <1>2, <1>3
  <2>4. ASSUME x < y, \A k \in 1..Len(a) : a[k] = b[k], NEW k \in 1..x
        PROVE  m[k] = n[k]
    <3>1. l + k \in 1..Len(a) /\ k \in 1..y
      BY <1>1, <1>3, <2>4
    <3>2. QED
      BY <1>1, <1>2, <2>4, <3>1
  <2>5. ASSUME x < y, \A k \in 1..x : m[k] = n[k], NEW k \in 1..Len(a)
        PROVE  a[k] = b[k]
    <3>1. CASE k \in 1..l
      BY <1>1, <1>2, <3>1
    <3>2. CASE k \notin 1..l
      <4>1. k - l \in 1..x /\ k - l \in 1..y /\ k = l + (k - l)
        BY <1>1, <1>3, <2>5, <3>2
      <4>2. a[l + (k - l)] = m[k - l] /\ b[l + (k - l)] = n[k - l]
        BY <1>1, <1>2, <4>1
      <4>3. m[k - l] = n[k - l]
        BY <2>5, <4>1
      <4>4. QED
        BY <4>1, <4>2, <4>3
    <3>3. QED
      BY <3>1, <3>2
  <2>6. QED
    BY <2>1, <2>2, <2>3, <2>4, <2>5
<1>6. m # <<>> => IsStrictPrefix(d, a)
  <2> SUFFICES ASSUME m # <<>> PROVE IsStrictPrefix(d, a)
    OBVIOUS
  <2>1. x # 0
    BY <1>3
  <2>2. Len(d) < Len(a)
    BY <1>1, <1>3, <2>1
  <2>3. \A k \in 1..Len(d) : d[k] = a[k]
    BY <1>1, <1>3
  <2>4. QED
    BY <1>1, <2>2, <2>3, StrictIs
<1>7. QED
  BY <1>4, <1>5, <1>6 DEF a, b, Below

\* The directory of a path.
LEMMA FrontIs ==
  ASSUME NEW p \in Seq(STRING), p # <<>>
  PROVE  /\ Front(p) \in Seq(STRING) /\ Len(Front(p)) = Len(p) - 1
         /\ \A k \in 1..(Len(p) - 1) : Front(p)[k] = p[k]
<1> DEFINE m == Len(p)
<1>1. m - 1 \in Nat /\ m - 1 <= Len(p)
  OBVIOUS
<1>2. Front(p) = SubSeq(p, 1, m - 1)
  BY DEF Front
<1> HIDE DEF m
<1>3. /\ Front(p) \in Seq(STRING) /\ Len(Front(p)) = m - 1
      /\ \A k \in 1..(m - 1) : Front(p)[k] = p[k]
  BY <1>1, <1>2, Fore
<1>4. QED
  BY <1>3 DEF m

\* A path goes on behind its directory.
LEMMA FrontSame ==
  ASSUME NEW p \in Seq(STRING), NEW f \in Seq(STRING), Len(p) = Len(f) + 1,
         \A k \in 1..Len(f) : f[k] = p[k]
  PROVE  p # <<>> /\ Front(p) = f
<1>1. Len(p) # 0 /\ Len(f) \in Nat /\ Len(p) - 1 = Len(f)
  OBVIOUS
<1>2. p # <<>>
  BY <1>1
<1>3. Front(p) \in Seq(STRING) /\ Len(Front(p)) = Len(f)
      /\ \A k \in 1..Len(f) : Front(p)[k] = f[k]
  BY <1>1, <1>2, FrontIs
<1>4. QED
  BY <1>2, <1>3, SameSeq

\* The directories that lead to a name, one in the other.
LEMMA UpIs ==
  ASSUME cwd \in Seq(STRING), NEW n \in Seq(STRING), NEW k \in 0..Len(n)
  PROVE  /\ Up(n, k) \in Seq(STRING)
         /\ k = 0 => Up(n, k) = cwd
         /\ k = Len(n) => Up(n, k) = cwd \o n
         /\ k > 0 => Up(n, k) # <<>> /\ Front(Up(n, k)) = Up(n, k - 1)
         /\ SubSeq(n, 1, k) \in Seq(STRING)
         /\ k > 0 => SubSeq(n, 1, k) # <<>>
         /\ k < Len(n) => IsStrictPrefix(SubSeq(n, 1, k), n)
<1> DEFINE s(j) == SubSeq(n, 1, j)
           l == Len(cwd)
           z == Len(n)
<1>1. ASSUME NEW j \in 0..z
      PROVE  s(j) \in Seq(STRING) /\ Len(s(j)) = j /\ \A x \in 1..j : s(j)[x] = n[x]
  <2>1. j \in Nat /\ j <= Len(n)
    OBVIOUS
  <2>2. QED
    BY <2>1, Fore
<1>2. z \in Nat /\ l \in Nat
  OBVIOUS
<1>3. ASSUME NEW j \in 0..z
      PROVE  /\ Up(n, j) \in Seq(STRING) /\ Len(Up(n, j)) = l + j
             /\ \A x \in 1..l : Up(n, j)[x] = cwd[x]
             /\ \A x \in 1..j : Up(n, j)[l + x] = n[x]
  <2> DEFINE u == s(j)
  <2>1. u \in Seq(STRING) /\ Len(u) = j /\ \A x \in 1..j : u[x] = n[x]
    BY <1>1
  <2>2. Up(n, j) = cwd \o u
    BY DEF Up
  <2> HIDE DEF u
  <2>3. /\ cwd \o u \in Seq(STRING) /\ Len(cwd \o u) = l + Len(u)
        /\ \A x \in 1..l : (cwd \o u)[x] = cwd[x]
        /\ \A x \in 1..Len(u) : (cwd \o u)[l + x] = u[x]
    BY <2>1, Concat DEF l
  <2>4. QED
    BY <2>1, <2>2, <2>3
<1>4. k \in 0..z
  OBVIOUS
<1> HIDE DEF s, l, z
<1>5. k = 0 => Up(n, k) = cwd
  <2> SUFFICES ASSUME k = 0 PROVE Up(n, k) = cwd
    OBVIOUS
  <2>1. Len(Up(n, k)) = l
    BY <1>2, <1>3, <1>4
  <2>2. QED
    BY <1>3, <1>4, <2>1, SameSeq DEF l
<1>6. k = z => Up(n, k) = cwd \o n
  <2> SUFFICES ASSUME k = z PROVE Up(n, k) = cwd \o n
    OBVIOUS
  <2>1. Len(s(k)) = Len(n) /\ s(k) = n
    BY <1>1, <1>4, SameSeq DEF z
  <2>2. QED
    BY <2>1 DEF Up, s
<1>7. k > 0 => Up(n, k) # <<>> /\ Front(Up(n, k)) = Up(n, k - 1)
  <2> SUFFICES ASSUME k > 0 PROVE Up(n, k) # <<>> /\ Front(Up(n, k)) = Up(n, k - 1)
    OBVIOUS
  <2> DEFINE p == Up(n, k)  f == Up(n, k - 1)
  <2>1. k - 1 \in 0..z
    BY <1>2, <1>4
  <2>2. p \in Seq(STRING) /\ Len(p) = l + k /\ (\A x \in 1..l : p[x] = cwd[x])
        /\ \A x \in 1..k : p[l + x] = n[x]
    BY <1>3, <1>4
  <2>3. f \in Seq(STRING) /\ Len(f) = l + (k - 1) /\ (\A x \in 1..l : f[x] = cwd[x])
        /\ \A x \in 1..(k - 1) : f[l + x] = n[x]
    BY <1>3, <2>1
  <2> HIDE DEF p, f
  <2>4. ASSUME NEW x \in 1..Len(f) PROVE f[x] = p[x]
    <3>1. CASE x \in 1..l
      BY <2>2, <2>3, <3>1
    <3>2. CASE x \notin 1..l
      <4>1. x - l \in 1..(k - 1) /\ x - l \in 1..k /\ x = l + (x - l)
        BY <1>2, <1>4, <2>1, <2>3, <3>2
      <4>2. f[l + (x - l)] = n[x - l] /\ p[l + (x - l)] = n[x - l]
        BY <2>2, <2>3, <4>1
      <4>3. QED
        BY <4>1, <4>2
    <3>3. QED
      BY <3>1, <3>2
  <2>5. Len(p) = Len(f) + 1
    BY <1>2, <2>2, <2>3
  <2>6. QED
    BY <2>2, <2>3, <2>4, <2>5, FrontSame DEF p, f
<1>8. k > 0 => s(k) # <<>>
  <2> SUFFICES ASSUME k > 0, s(k) = <<>> PROVE FALSE
    OBVIOUS
  <2>1. Len(s(k)) = k
    BY <1>1, <1>4
  <2>2. Len(s(k)) = 0
    OBVIOUS
  <2>3. QED
    BY <2>1, <2>2
<1>9. k < z => IsStrictPrefix(s(k), n)
  BY <1>1, <1>4, StrictIs DEF z
<1>10. QED
  BY <1>1, <1>3, <1>4, <1>5, <1>6, <1>7, <1>8, <1>9 DEF s, z

\* One more component.
LEMMA OneMore ==
  ASSUME NEW S, NEW d \in Seq(S), NEW x \in S
  PROVE  /\ <<x>> \in Seq(S) /\ Len(<<x>>) = 1 /\ <<x>>[1] = x
         /\ Append(d, x) \in Seq(S) /\ Append(d, x)[Len(d) + 1] = x /\ Len(d) \in Nat
  OBVIOUS

\* A file in a directory.
LEMMA AppendIs ==
  ASSUME NEW d \in Seq(STRING), NEW x \in STRING
  PROVE  /\ Append(d, x) \in Seq(STRING) /\ Append(d, x) # <<>> /\ Front(Append(d, x)) = d
         /\ Below(d, Append(d, x)) /\ d \o <<x>> = Append(d, x)
<1> DEFINE a == Append(d, x)
<1>1. a \in Seq(STRING) /\ Len(a) = Len(d) + 1 /\ \A k \in 1..Len(d) : d[k] = a[k]
  OBVIOUS
<1>2. a # <<>> /\ Front(a) = d
  <2> HIDE DEF a
  <2>1. QED
    BY <1>1, FrontSame
<1>3. Below(d, a)
  <2> HIDE DEF a
  <2>1. Len(d) < Len(a)
    BY <1>1
  <2>2. QED
    BY <1>1, <2>1, StrictIs DEF Below
<1>4. d \o <<x>> = a
  <2> DEFINE b == d \o <<x>>  o == <<x>>
  <2>1. o \in Seq(STRING) /\ Len(o) = 1 /\ o[1] = x
    BY OneMore
  <2>2. b = d \o o
    OBVIOUS
  <2> HIDE DEF b, o
  <2>3. /\ d \o o \in Seq(STRING) /\ Len(d \o o) = Len(d) + Len(o)
        /\ \A k \in 1..Len(d) : (d \o o)[k] = d[k]
        /\ \A k \in 1..Len(o) : (d \o o)[Len(d) + k] = o[k]
    BY <2>1, Concat
  <2>4. 1 \in 1..Len(o)
    BY <2>1
  <2>7. b \in Seq(STRING) /\ Len(b) = Len(d) + 1 /\ b[Len(d) + 1] = x
        /\ \A k \in 1..Len(d) : b[k] = d[k]
    BY <2>1, <2>2, <2>3, <2>4
  <2>8. a[Len(d) + 1] = x /\ Len(d) \in Nat
    BY OneMore
  <2> HIDE DEF a
  <2>5. \A k \in 1..Len(a) : a[k] = b[k]
    <3> DEFINE l == Len(d)
    <3>1. l \in Nat /\ Len(a) = l + 1 /\ (\A k \in 1..l : a[k] = d[k] /\ b[k] = d[k])
          /\ a[l + 1] = x /\ b[l + 1] = x
      BY <1>1, <2>7, <2>8
    <3> HIDE DEF l
    <3>2. \A k \in 1..(l + 1) : k \in 1..l \/ k = l + 1
      BY <3>1
    <3>3. QED
      BY <3>1, <3>2
  <2>6. QED
    BY <1>1, <2>5, <2>7, SameSeq DEF b
<1>5. QED
  BY <1>1, <1>2, <1>3, <1>4

-----------------------------------------------------------------------------
(* Trees *)

\* A name that a command line may give to a container, or lead to.
IsName(p) == p \in Seq(STRING) /\ p # <<>> /\ Last(p) \in DOMAIN MetaName

\* The path of a container, wherever the command is.
LEMMA ResolvedPath ==
  ASSUME NEW c \in Containers, cwd \in Seq(STRING)
  PROVE  IsName(Resolve(c))
<1> DEFINE p == c.path
<1>1. p \in Seq(STRING) /\ p # <<>> /\ p[Len(p)] \in DOMAIN MetaName
  BY Named DEF Last
<1> HIDE DEF p
<1>2. cwd \o p \in Seq(STRING) /\ cwd \o p # <<>> /\ (cwd \o p)[Len(cwd \o p)] = p[Len(p)]
  BY <1>1
<1>3. Resolve(c) = p \/ Resolve(c) = cwd \o p
  BY DEF Resolve, p
<1>4. QED
  BY <1>1, <1>2, <1>3 DEF IsName, Last

\* The backup is in the directory of its container.
LEMMA BackupPath ==
  ASSUME NEW p, IsName(p)
  PROVE  MetaBeside(p) \in Seq(STRING) /\ MetaBeside(p) # Home /\ Front(MetaBeside(p)) = Front(p)
<1>1. Front(p) \in Seq(STRING) /\ MetaName[Last(p)] \in STRING
  BY FrontIs, KtoolAssumption DEF IsName
<1>2. QED
  BY <1>1, AppendIs DEF MetaBeside, Home

\* A directory after the step.
DirAfter(p) == p = Home \/ (p \in DOMAIN fs' /\ fs'[p] = Dir)

\* Directories, and files, are what they were.
DirsStay == \A p : IsDir(p) => DirAfter(p)
Calm ==
  /\ DirsStay
  /\ \A p : IsFile(p) => p \in DOMAIN fs' /\ fs'[p] # Dir
  /\ \A p \in DOMAIN fs' : fs'[p] = Dir => IsDir(p)

\* Something new has a place in the tree.
HasPlace(p) ==
  p \in Seq(STRING) /\ p # Home /\ IsDir(Front(p)) /\ ~(p \in DOMAIN fs /\ fs[p] = Dir)

\* Nodes that are no directories.
LEMMA NotDir ==
  /\ Meta # Dir
  /\ \A d, m : Plain(d, m) # Dir
  /\ \A t : Container(t) # Dir /\ Torn(t) # Dir
<1>1. Dir.kind = "dir" /\ Meta.kind = "meta"
  BY DEF Dir, Meta
<1>2. /\ \A d, m : Plain(d, m).kind = "plain"
      /\ \A t : Container(t).kind = "container" /\ Torn(t).kind = "container"
  BY DEF Plain, Container, Torn
<1>3. QED
  BY <1>1, <1>2

\* What k_tcreat can create has a place.
LEMMA CreatePlace ==
  ASSUME NEW p \in Seq(STRING), CanCreate(p)
  PROVE  HasPlace(p)
  BY DEF CanCreate, HasPlace, IsFile, Exists

\* What is there has a place.
LEMMA FilePlace ==
  ASSUME IsTree(fs), NEW p, IsFile(p)
  PROVE  HasPlace(p)
  BY DEF IsTree, IsFile, Exists, IsDir, HasPlace

\* A file or a directory is put into its place.
LEMMA PutStep ==
  ASSUME IsTree(fs), NEW p, HasPlace(p), NEW n, fs' = With(p, n)
  PROVE  /\ IsTree(fs') /\ DirsStay
         /\ n # Dir => Calm /\ p \in DOMAIN fs' /\ fs'[p] # Dir
         /\ n = Dir => DirAfter(p)
<1>1. /\ DOMAIN fs' = DOMAIN fs \cup {p} /\ fs'[p] = n
      /\ \A q \in DOMAIN fs : q # p => fs'[q] = fs[q]
  BY DEF With
<1>2. DirsStay
  BY <1>1 DEF DirsStay, DirAfter, IsDir, Exists, HasPlace
<1>3. \A q : DirAfter(q) <=> q = Home \/ (q \in DOMAIN fs' /\ fs'[q] = Dir)
  BY DEF DirAfter
<1>4. ASSUME NEW q \in DOMAIN fs'
      PROVE  q \in Seq(STRING) /\ q # Home /\ DirAfter(Front(q))
  <2>1. q \in Seq(STRING) /\ q # Home /\ IsDir(Front(q))
    BY <1>1, <1>4 DEF HasPlace, IsTree, IsDir, Exists
  <2>2. QED
    BY <1>2, <2>1 DEF DirsStay
<1>5. IsTree(fs')
  BY <1>4 DEF IsTree, DirAfter
<1>6. n # Dir => Calm /\ p \in DOMAIN fs' /\ fs'[p] # Dir
  BY <1>1, <1>2 DEF Calm, IsFile, IsDir, Exists
<1>7. n = Dir => DirAfter(p)
  BY <1>1 DEF DirAfter
<1>8. QED
  BY <1>2, <1>5, <1>6, <1>7

\* unlink takes a file, in which nothing is.
LEMMA RemoveStep ==
  ASSUME IsTree(fs), NEW p, fs' = Removed(p)
  PROVE  IsTree(fs') /\ DirsStay
<1>1. DirsStay
  BY RemovedFacts DEF DirsStay, DirAfter, IsDir, Exists, Removed, IsFile, Without
<1>2. ASSUME NEW q \in DOMAIN fs'
      PROVE  q \in Seq(STRING) /\ q # Home /\ DirAfter(Front(q))
  <2>1. q \in DOMAIN fs
    BY RemovedFacts
  <2>2. q \in Seq(STRING) /\ q # Home /\ IsDir(Front(q))
    BY <2>1 DEF IsTree, IsDir, Exists
  <2>3. QED
    BY <1>1, <2>2 DEF DirsStay
<1>3. IsTree(fs')
  BY <1>2 DEF IsTree, DirAfter
<1>4. QED
  BY <1>1, <1>3

\* Directories are made one in the other.
LEMMA DirsStep ==
  ASSUME IsTree(fs), cwd \in Seq(STRING), IsDir(cwd), NEW n \in Seq(STRING), NEW k \in 0..Len(n),
         \A j \in 1..k : ~IsFile(Up(n, j)), fs' = DirsMade(n, k)
  PROVE  IsTree(fs') /\ DirsStay /\ \A j \in 0..k : DirAfter(Up(n, j))
<1>1. /\ DOMAIN fs' = DOMAIN fs \cup {Up(n, j) : j \in 1..k}
      /\ \A q \in DOMAIN fs : fs'[q] = fs[q]
      /\ \A q \in DOMAIN fs' \ DOMAIN fs : fs'[q] = Dir
  BY DEF DirsMade
<1>2. DirsStay
  BY <1>1 DEF DirsStay, DirAfter, IsDir, Exists
<1>3. \A j \in 1..k : DirAfter(Up(n, j))
  BY <1>1 DEF DirAfter, IsFile, Exists
<1>4. DirAfter(cwd)
  BY <1>2 DEF DirsStay
<1>5. \A j \in 0..k : DirAfter(Up(n, j))
  <2> SUFFICES ASSUME NEW j \in 0..k PROVE DirAfter(Up(n, j))
    OBVIOUS
  <2>1. j \in 0..Len(n) /\ (j = 0 \/ j \in 1..k)
    OBVIOUS
  <2>2. j = 0 => Up(n, j) = cwd
    BY <2>1, UpIs
  <2>3. QED
    BY <1>3, <1>4, <2>1, <2>2
<1>6. ASSUME NEW q \in DOMAIN fs'
      PROVE  q \in Seq(STRING) /\ q # Home /\ DirAfter(Front(q))
  <2>1. CASE q \in DOMAIN fs
    <3>1. q \in Seq(STRING) /\ q # Home /\ IsDir(Front(q))
      BY <2>1 DEF IsTree, IsDir, Exists
    <3>2. QED
      BY <1>2, <3>1 DEF DirsStay
  <2>2. CASE q \notin DOMAIN fs
    <3>1. PICK j \in 1..k : q = Up(n, j)
      BY <1>1, <1>6, <2>2
    <3>2. j \in 0..Len(n) /\ j > 0 /\ j - 1 \in 0..k
      OBVIOUS
    <3>3. Up(n, j) \in Seq(STRING) /\ Up(n, j) # <<>> /\ Front(Up(n, j)) = Up(n, j - 1)
      BY <3>2, UpIs
    <3>4. DirAfter(Up(n, j - 1))
      BY <1>5, <3>2
    <3>5. QED
      BY <3>1, <3>3, <3>4 DEF Home
  <2>3. QED
    BY <2>1, <2>2
<1>7. IsTree(fs')
  BY <1>6 DEF IsTree, DirAfter
<1>8. QED
  BY <1>2, <1>5, <1>7

\* The files are a tree, the process is in a directory of it, the container it
\* creates has a place there, and those it changes and their backups are files.
Creating == {"enter", "walk", "copy", "publish"}
Changing == {"add", "added", "delid", "close", "closing", "unmeta"}

TreeInv ==
  /\ IsTree(fs)
  /\ cwd \in Seq(STRING) /\ IsDir(cwd)
  /\ pc \in Creating => HasPlace(new.target)
  /\ pc \in Changing => IsFile(old.target) /\ IsFile(MetaBeside(old.target))
  /\ pc = "added" => cmd.file \in Seq(STRING) /\ cmd.file # <<>>

\* Where the loop over the table is.
LoopInv ==
  /\ pc \in {"exp", "expid"} => cmd.kind = pc
  /\ pc \in {"export", "write"} => cmd.kind \in {"exp", "expid"}
  /\ pc \in {"copy", "export", "write"} => i \in Nat \ {0}
  /\ pc = "write" => i <= Len(old.table) /\ Live(old.table[i])

\* A part of a sequence.
LEMMA Part ==
  ASSUME NEW s \in Seq(STRING), NEW m \in Nat, NEW n \in Nat, m + n <= Len(s)
  PROVE  /\ SubSeq(s, m + 1, m + n) \in Seq(STRING) /\ Len(SubSeq(s, m + 1, m + n)) = n
         /\ \A k \in 1..n : SubSeq(s, m + 1, m + n)[k] = s[m + k]
  OBVIOUS

\* Sequences over any set.
LEMMA AnySeq ==
  ASSUME NEW S, NEW s \in Seq(S), NEW t \in Seq(S)
  PROVE  /\ Len(s) = Len(t) /\ (\A k \in 1..Len(s) : s[k] = t[k]) => s = t
         /\ s \o t \in Seq(S) /\ Len(s \o t) = Len(s) + Len(t)
         /\ \A k \in 1..Len(t) : (s \o t)[Len(s) + k] = t[k]
<1>0. Len(s) \in Nat /\ Len(t) \in Nat
  OBVIOUS
<1>1. Len(s) = Len(t) /\ (\A k \in 1..Len(s) : s[k] = t[k]) => s = t
  OBVIOUS
<1>2. s \o t \in Seq(S) /\ Len(s \o t) = Len(s) + Len(t)
  OBVIOUS
<1>3. ASSUME NEW k \in 1..Len(t) PROVE (s \o t)[Len(s) + k] = t[k]
  <2> DEFINE m == Len(s)  n == Len(t)
  <2>1. m \in Nat /\ n \in Nat /\ k \in 1..n
    BY <1>0
  <2>2. \A x \in 1..(m + n) : (s \o t)[x] = IF x <= m THEN s[x] ELSE t[x - m]
    BY ConcatProperties
  <2> HIDE DEF m, n
  <2>3. m + k \in 1..(m + n) /\ ~(m + k <= m) /\ (m + k) - m = k
    BY <2>1
  <2>4. (s \o t)[m + k] = t[k]
    BY <2>2, <2>3
  <2>5. QED
    BY <2>4 DEF m
<1>4. QED
  BY <1>1, <1>2, <1>3

\* The tail of a path behind its first component.
LEMMA TailIs ==
  ASSUME NEW x, NEW r \in Seq(STRING)
  PROVE  Len(<<x>> \o r) = Len(r) + 1 /\ Tail(<<x>> \o r) = r
<1> DEFINE o == <<x>>  p == o \o r  l == Len(r)  S == STRING \cup {x}
<1>0. r \in Seq(S) /\ x \in S
  OBVIOUS
<1> HIDE DEF S
<1>1. o \in Seq(S) /\ Len(o) = 1
  BY <1>0
<1>2. l \in Nat /\ Len(r) = l
  OBVIOUS
<1> HIDE DEF o, l
<1>3. p \in Seq(S) /\ Len(p) = 1 + l /\ \A k \in 1..l : p[1 + k] = r[k]
  <2>1. /\ o \o r \in Seq(S) /\ Len(o \o r) = Len(o) + Len(r)
        /\ \A k \in 1..Len(r) : (o \o r)[Len(o) + k] = r[k]
    BY <1>0, <1>1, AnySeq
  <2>2. QED
    BY <1>1, <1>2, <2>1
<1> HIDE DEF p
<1>4. p # <<>>
  BY <1>2, <1>3
<1>5. Tail(p) \in Seq(S) /\ Len(Tail(p)) = Len(p) - 1
      /\ \A k \in 1..Len(Tail(p)) : Tail(p)[k] = p[k + 1]
  BY <1>3, <1>4, HeadTailProperties
<1>6. Len(Tail(p)) = l
  BY <1>2, <1>3, <1>5
<1>7. \A k \in 1..l : Tail(p)[k] = r[k]
  BY <1>2, <1>3, <1>5, <1>6
<1>8. Tail(p) = r
  BY <1>0, <1>2, <1>5, <1>6, <1>7, AnySeq
<1>9. Len(p) = l + 1
  BY <1>2, <1>3
<1>10. QED
  BY <1>8, <1>9 DEF o, p, l

\* What lies below a directory, and its path from there.
LEMMA RelIs ==
  ASSUME NEW d \in Seq(STRING), NEW p \in Seq(STRING), Below(d, p)
  PROVE  Rel(d, p) \in Seq(STRING) /\ Rel(d, p) # <<>> /\ d \o Rel(d, p) = p
<1> DEFINE m == Len(d)  l == Len(p)  n == l - m  r == Rel(d, p)
<1>1. Len(d) < Len(p) /\ \A k \in 1..Len(d) : d[k] = p[k]
  BY StrictIs DEF Below
<1>2. m \in Nat /\ l \in Nat /\ n \in Nat /\ n # 0 /\ m + n = l
  BY <1>1
<1>3. r = SubSeq(p, m + 1, m + n)
  BY <1>2 DEF Rel
<1>4. Len(d) = m /\ Len(p) = l
  OBVIOUS
<1> HIDE DEF m, l, n, r
<1>5. r \in Seq(STRING) /\ Len(r) = n /\ \A k \in 1..n : r[k] = p[m + k]
  <2>1. m + n <= Len(p)
    BY <1>2, <1>4
  <2>2. QED
    BY <1>2, <1>3, <2>1, Part
<1>6. r # <<>>
  BY <1>2, <1>5
<1>7. /\ d \o r \in Seq(STRING) /\ Len(d \o r) = m + n
      /\ \A k \in 1..m : (d \o r)[k] = d[k]
      /\ \A k \in 1..n : (d \o r)[m + k] = r[k]
  BY <1>4, <1>5, Concat
<1>8. \A k \in 1..l : (d \o r)[k] = p[k]
  <2> SUFFICES ASSUME NEW k \in 1..l PROVE (d \o r)[k] = p[k]
    OBVIOUS
  <2>1. CASE k \in 1..m
    BY <1>1, <1>4, <1>7, <2>1
  <2>2. CASE k \notin 1..m
    <3>1. k - m \in 1..n /\ k = m + (k - m)
      BY <1>2, <2>2
    <3>2. (d \o r)[m + (k - m)] = p[m + (k - m)]
      BY <1>5, <1>7, <3>1
    <3>3. QED
      BY <3>1, <3>2
  <2>3. QED
    BY <2>1, <2>2
<1>9. d \o r = p
  BY <1>2, <1>4, <1>7, <1>8, SameSeq
<1>10. QED
  BY <1>5, <1>6, <1>9 DEF r

\* The name that a file gets in the container.
LEMMA StrippedIs ==
  ASSUME NEW p \in Seq(STRING), p # <<>>
  PROVE  LET s == Stripped(p, BasenameOffset(p)) IN
         s.name \in Seq(STRING) /\ s.name # <<>> /\ s.base = BasenameOffset(s.name)
<1> DEFINE l == Len(p)  t == Tail(p)
<1>1. l \in Nat /\ l # 0
  OBVIOUS
<1>2. t \in Seq(STRING) /\ Len(t) = l - 1
  BY HeadTailProperties
<1>3. CASE l > 1
  <2>1. Stripped(p, BasenameOffset(p)) = [name |-> t, base |-> (l - 1) - 1]
    BY <1>3 DEF Stripped, BasenameOffset
  <2> HIDE DEF l, t
  <2>2. t # <<>>
    BY <1>1, <1>2, <1>3
  <2>3. QED
    BY <1>2, <2>1, <2>2 DEF BasenameOffset, l, t
<1>4. CASE ~(l > 1)
  BY <1>4 DEF Stripped
<1>5. QED
  BY <1>3, <1>4

\* Such a name makes an entry.
LEMMA MadeEntry ==
  ASSUME NEW s, s.name \in Seq(STRING), s.name # <<>>, s.base = BasenameOffset(s.name), NEW d
  PROVE  IsEntry(Entry(s.name, s.base, d)) /\ Live(Entry(s.name, s.base, d))
  BY DEF IsEntry, Entry, Live, Deleted

\* A walk gives a file its path below the directory.
LEMMA WalkedIs ==
  ASSUME cwd \in Seq(STRING), NEW p \in Seq(STRING), Below(cwd, p)
  PROVE  /\ Walked(p).name = Rel(cwd, p) /\ Walked(p).base = BasenameOffset(Walked(p).name)
         /\ Walked(p).name \in Seq(STRING) /\ Walked(p).name # <<>>
<1> DEFINE r == Rel(cwd, p)  q == <<".">> \o r
<1>1. r \in Seq(STRING) /\ r # <<>>
  BY RelIs
<1> HIDE DEF r
<1>3. Len(q) = Len(r) + 1 /\ Tail(q) = r
  BY <1>1, TailIs
<1>4. Walked(p) = Stripped(q, BasenameOffset(q))
  BY DEF Walked, r
<1> HIDE DEF q
<1>5. Len(r) \in Nat /\ Len(r) # 0
  BY <1>1
<1>6. Len(q) > 1 /\ (Len(q) - 1) - 1 = Len(r) - 1
  BY <1>3, <1>5
<1>7. Walked(p) = [name |-> r, base |-> Len(r) - 1]
  BY <1>3, <1>4, <1>6 DEF Stripped, BasenameOffset
<1>8. QED
  BY <1>1, <1>7 DEF r, BasenameOffset

-----------------------------------------------------------------------------
(* Tables *)

\* A table is a sequence of entries.
IsTable(t) == \E n \in Nat : t = [k \in 1..n |-> t[k]] /\ \A k \in 1..n : IsEntry(t[k])

TableInv ==
  /\ \A p \in DOMAIN fs : fs[p].kind = "container" => IsTable(fs[p].table)
  /\ IsTable(old.table) /\ IsTable(new.table)

\* What is done to tables leaves them tables.
LEMMA TableFacts ==
  ASSUME NEW t, IsTable(t)
  PROVE  /\ Len(t) \in Nat /\ DOMAIN t = 1..Len(t)
         /\ \A k \in 1..Len(t) : IsEntry(t[k])
         /\ \A e : IsEntry(e) => IsTable(Append(t, e))
         /\ \A k, e : IsEntry(e) => IsTable([t EXCEPT ![k] = e])
<1>1. PICK n \in Nat : t = [k \in 1..n |-> t[k]] /\ \A k \in 1..n : IsEntry(t[k])
  BY DEF IsTable
<1>2. DOMAIN t = 1..n /\ Len(t) = n
  BY <1>1
<1>3. ASSUME NEW e, IsEntry(e) PROVE IsTable(Append(t, e))
  <2> DEFINE S == {t[k] : k \in 1..n} \cup {e}
  <2>1. t \in Seq(S)
    BY <1>1
  <2>2. Append(t, e) \in Seq(S)
    BY <2>1
  <2> DEFINE u == Append(t, e)
  <2> HIDE DEF u
  <2>5. \A x \in S : IsEntry(x)
    BY <1>1, <1>3
  <2>3. Len(u) \in Nat /\ u = [k \in 1..Len(u) |-> u[k]] /\ \A k \in 1..Len(u) : u[k] \in S
    <3>1. u \in Seq(S)
      BY <2>2 DEF u
    <3> HIDE DEF S
    <3>2. QED
      BY <3>1
  <2>4. QED
    BY <2>3, <2>5 DEF IsTable, u
<1>4. ASSUME NEW k, NEW e, IsEntry(e) PROVE IsTable([t EXCEPT ![k] = e])
  <2> DEFINE u == [t EXCEPT ![k] = e]
  <2>1. u = [j \in 1..n |-> u[j]] /\ \A j \in 1..n : IsEntry(u[j])
    BY <1>1, <1>2, <1>4
  <2>2. QED
    BY <2>1 DEF IsTable
<1>5. QED
  BY <1>1, <1>2, <1>3, <1>4

\* What a step may do to the files.
FilesStep ==
  \/ UNCHANGED fs
  \/ \E p : fs' = Removed(p)
  \/ \E p, n : fs' = With(p, n) /\ (n.kind = "container" => IsTable(n.table))
  \/ \E name, n : fs' = DirsMade(name, n)

HandlesStep == IsTable(old'.table) /\ IsTable(new'.table)

\* Then every container has a table still.
LEMMA TableStep ==
  ASSUME TableInv, FilesStep, HandlesStep
  PROVE  TableInv'
<1>1. \A p \in DOMAIN fs' : fs'[p].kind = "container" => IsTable(fs'[p].table)
  <2>1. CASE UNCHANGED fs
    BY <2>1 DEF TableInv
  <2>2. ASSUME NEW p, fs' = Removed(p)
        PROVE  \A q \in DOMAIN fs' : fs'[q].kind = "container" => IsTable(fs'[q].table)
    BY <2>2, RemovedFacts DEF TableInv
  <2>3. ASSUME NEW p, NEW n, fs' = With(p, n), n.kind = "container" => IsTable(n.table)
        PROVE  \A q \in DOMAIN fs' : fs'[q].kind = "container" => IsTable(fs'[q].table)
    BY <2>3 DEF TableInv, With
  <2>4. ASSUME NEW name, NEW n, fs' = DirsMade(name, n)
        PROVE  \A q \in DOMAIN fs' : fs'[q].kind = "container" => IsTable(fs'[q].table)
    <3>1. Dir.kind # "container"
      BY DEF Dir
    <3>2. QED
      BY <2>4, <3>1, DirsMadeFacts DEF TableInv
  <2>5. QED
    BY <2>1, <2>2, <2>3, <2>4 DEF FilesStep
<1>2. QED
  BY <1>1 DEF TableInv, HandlesStep

\* The empty table is one.
LEMMA EmptyTable == IsTable(<<>>) /\ IsTable(NoHandle.table)
<1>1. <<>> = [k \in 1..0 |-> <<>>[k]]
  OBVIOUS
<1>2. QED
  BY <1>1 DEF IsTable, NoHandle

\* A process that ends.
LEMMA ExitTables ==
  ASSUME NEW s, Exit(s)
  PROVE  HandlesStep
  BY EmptyTable DEF Exit, HandlesStep

\* Nodes and whether they have tables.
LEMMA Kinds ==
  /\ Dir.kind # "container" /\ Meta.kind # "container"
  /\ \A d, m : Plain(d, m).kind # "container"
  /\ \A t : Container(t).table = t /\ Torn(t).table = t
  BY DEF Dir, Meta, Plain, Container, Torn

\* The backup is written.
LEMMA MetaWritten ==
  ASSUME NEW p, fs' = With(p, Meta)
  PROVE  FilesStep
  BY Kinds DEF FilesStep

\* An entry is committed to a handle.
LEMMA CommittedTable ==
  ASSUME NEW h, IsHandle(h), IsTable(h.table), NEW e, IsEntry(e)
  PROVE  IsTable(Committed(h, e).table) /\ Committed(h, e).table = Append(h.table, e)
<1>1. Committed(h, e).table = Append(h.table, e)
  BY DEF IsHandle, Committed
<1>2. QED
  BY <1>1, TableFacts

\* The steps of opening and creating.
LEMMA OpenTables ==
  ASSUME TableInv, Open \/ OpenFails
  PROVE  TableInv'
<1>1. CASE Open
  <2> DEFINE r == Resolve(cmd.inpres)
  <2>1. r \in DOMAIN fs /\ fs[r].kind = "container"
    BY <1>1 DEF Open, Openable, Whole, IsFile, Exists
  <2>2. old'.table = fs[r].table
    BY <1>1 DEF Open, Handle
  <2>3. HandlesStep
    BY <1>1, <2>1, <2>2 DEF TableInv, HandlesStep, Open
  <2>4. FilesStep
    BY <1>1, MetaWritten DEF Open, FilesStep
  <2>5. QED
    BY <2>3, <2>4, TableStep
<1>2. CASE OpenFails
  BY <1>2, ExitTables, TableStep DEF OpenFails, FilesStep
<1>3. QED
  BY <1>1, <1>2

\* Containers that are created begin with the empty table.
LEMMA CreateTables ==
  ASSUME TableInv, NEW c, \/ CreateFails(c) \/ \E l : Created(c, l) /\ UNCHANGED old
  PROVE  TableInv'
<1>1. CASE CreateFails(c)
  BY <1>1, ExitTables, TableStep DEF CreateFails, FilesStep
<1>2. ASSUME NEW l, Created(c, l), UNCHANGED old PROVE TableInv'
  <2>1. new'.table = <<>>
    BY <1>2 DEF Created, Handle
  <2>2. HandlesStep
    BY <1>2, <2>1, EmptyTable DEF TableInv, HandlesStep
  <2>3. FilesStep
    BY <1>2, MetaWritten DEF Created
  <2>4. QED
    BY <2>2, <2>3, TableStep
<1>3. QED
  BY <1>1, <1>2

\* The steps of imp, and of closing what imp and rep create.
LEMMA ImportTables ==
  ASSUME IInv, TreeInv, TableInv, Import \/ Publish \/ PublishFails \/ Unlink
  PROVE  TableInv'
<1>0. UNCHANGED <<new, old>> => HandlesStep
  BY DEF HandlesStep, TableInv
<1>1. CASE ImportCreate
  BY <1>1, CreateTables DEF ImportCreate
<1>2. CASE ImportEnter
  BY <1>0, <1>2, ExitTables, TableStep DEF ImportEnter, FilesStep
<1>3. CASE Visit
  <2>1. ASSUME NEW p \in ToVisit, VisitSkips(p) PROVE TableInv'
    BY <1>0, <2>1, TableStep DEF VisitSkips, FilesStep
  <2>2. ASSUME NEW p \in ToVisit, VisitAdds(p) PROVE TableInv'
    <3>1. IsHandle(new)
      BY <2>2 DEF VisitAdds, IInv, PhaseInv, NewInv
    <3>5. IsEntry(Entry(Walked(p).name, Walked(p).base, Content(fs[p])))
      <4>1. cwd \in Seq(STRING) /\ p \in Seq(STRING) /\ Below(cwd, p)
        BY DEF ToVisit, FilesBelow, TreeInv, IsTree
      <4>2. QED
        BY <4>1, WalkedIs, MadeEntry
    <3>2. HandlesStep
      BY <2>2, <3>1, <3>5, CommittedTable DEF VisitAdds, TableInv, HandlesStep
    <3>3. FilesStep
      BY <2>2, MetaWritten DEF VisitAdds
    <3>4. QED
      BY <3>2, <3>3, TableStep
  <2>3. ASSUME NEW p \in ToVisit, VisitFails(p) PROVE TableInv'
    BY <2>3, ExitTables, TableStep DEF VisitFails, Abandon, FilesStep
  <2>4. CASE WalkEnds
    BY <1>0, <2>4, TableStep DEF WalkEnds, FilesStep
  <2>5. QED
    BY <1>3, <2>1, <2>2, <2>3, <2>4 DEF Visit
<1>4. CASE ImportBack
  BY <1>4, ExitTables, TableStep DEF ImportBack, FilesStep
<1>5. CASE Publish
  <2>1. FilesStep
    BY <1>5, Kinds DEF Publish, Published, FilesStep, TableInv
  <2>2. QED
    BY <1>0, <1>5, <2>1, TableStep DEF Publish
<1>6. CASE PublishFails
  BY <1>6, ExitTables, TableStep DEF PublishFails, FilesStep
<1>7. CASE Unlink
  <2>1. FilesStep
    BY <1>7 DEF Unlink, FilesStep
  <2>2. HandlesStep
    BY <1>0, <1>7, ExitTables DEF Unlink
  <2>3. QED
    BY <2>1, <2>2, TableStep
<1>8. QED
  BY <1>1, <1>2, <1>3, <1>4, <1>5, <1>6, <1>7 DEF Import

\* The steps of add and delid.
LEMMA ChangeTables ==
  ASSUME IInv, TreeInv, TableInv, Change
  PROVE  TableInv'
<1>0. UNCHANGED <<new, old>> => HandlesStep
  BY DEF HandlesStep, TableInv
<1>1. CASE AddSkips \/ AddFails \/ DeleteRefused
  BY <1>0, <1>1, TableStep DEF AddSkips, AddFails, DeleteRefused, FilesStep
<1>2. CASE AddAppends \/ CloseWrites
  <2>1. FilesStep
    BY <1>2, Kinds DEF AddAppends, CloseWrites, FilesStep, TableInv
  <2>2. QED
    BY <1>0, <1>2, <2>1, TableStep DEF AddAppends, CloseWrites
<1>3. CASE AddCommits
  <2>1. IsHandle(old)
    BY <1>3 DEF AddCommits, IInv, PhaseInv, OldInv
  <2>2. IsEntry(Entry(Given.name, Given.base, Content(fs[cmd.file])))
    <3>1. cmd.file \in Seq(STRING) /\ cmd.file # <<>>
      BY <1>3 DEF AddCommits, TreeInv
    <3>2. QED
      BY <3>1, StrippedIs, MadeEntry DEF Given
  <2>3. HandlesStep
    BY <1>3, <2>1, <2>2, CommittedTable DEF AddCommits, TableInv, HandlesStep
  <2>4. QED
    BY <1>3, <2>3, MetaWritten, TableStep DEF AddCommits
<1>4. CASE Delete
  <2>1. IsHandle(old)
    BY <1>4 DEF Delete, IInv, PhaseInv, OldInv
  <2>2. CASE old' = [old EXCEPT !.table[cmd.id] = Deleted] /\ fs' = With(ResolveMeta(old.arg), Meta)
    <3>1. old'.table = [old.table EXCEPT ![cmd.id] = Deleted]
      BY <2>1, <2>2 DEF IsHandle
    <3>2. HandlesStep
      <4>1. IsTable([old.table EXCEPT ![cmd.id] = Deleted])
        BY TableFacts DEF TableInv, IsEntry
      <4>2. QED
        BY <1>4, <3>1, <4>1 DEF Delete, TableInv, HandlesStep
    <3>3. QED
      BY <2>2, <3>2, MetaWritten, TableStep
  <2>3. CASE UNCHANGED <<fs, old>>
    BY <1>0, <1>4, <2>3, TableStep DEF Delete, FilesStep
  <2>4. QED
    BY <1>4, <2>2, <2>3 DEF Delete
<1>5. CASE CloseEnds
  <2>1. FilesStep
    BY <1>5, Kinds DEF CloseEnds, FilesStep, TableInv
  <2>2. QED
    BY <1>0, <1>5, <2>1, TableStep DEF CloseEnds
<1>6. CASE CloseRemoves
  BY <1>6, ExitTables, TableStep DEF CloseRemoves, FilesStep
<1>7. CASE CloseFails
  BY <1>7, ExitTables, TableStep DEF CloseFails, LeavesMeta, FilesStep
<1>8. QED
  BY <1>1, <1>2, <1>3, <1>4, <1>5, <1>6, <1>7 DEF Change

\* The steps of rep.
LEMMA RepackTables ==
  ASSUME IInv, LoopInv, TableInv, Repack
  PROVE  TableInv'
<1>0. UNCHANGED <<new, old>> => HandlesStep
  BY DEF HandlesStep, TableInv
<1>1. CASE RepackCreate
  BY <1>1, CreateTables DEF RepackCreate
<1>2. CASE CopySkips \/ CopyEnds
  BY <1>0, <1>2, TableStep DEF CopySkips, CopyEnds, FilesStep
<1>3. CASE Copy
  <2>1. IsHandle(new)
    BY <1>3 DEF Copy, IInv, PhaseInv, NewInv
  <2>4. i \in 1..Len(old.table)
    BY <1>3, TableFacts DEF Copy, More, LoopInv, TableInv
  <2>5. IsEntry(old.table[i])
    BY <2>4, TableFacts DEF TableInv
  <2>2. HandlesStep
    BY <1>3, <2>1, <2>5, CommittedTable DEF Copy, TableInv, HandlesStep
  <2>3. QED
    BY <1>3, <2>2, MetaWritten, TableStep DEF Copy
<1>4. CASE CopyFails
  BY <1>4, ExitTables, TableStep DEF CopyFails, GiveUp, FilesStep
<1>5. QED
  BY <1>1, <1>2, <1>3, <1>4 DEF Repack

\* The steps of exp and expid.
LEMMA ExportTables ==
  ASSUME TableInv, Export
  PROVE  TableInv'
<1>0. UNCHANGED <<new, old>> => HandlesStep
  BY DEF HandlesStep, TableInv
<1>1. HandlesStep
  BY <1>0, ExitTables DEF Export, ExportEnter, ExportRefused, ExportDeleted, ExportMakesDirs,
     ExportStrays, ExportWrites, ExportFails, ExportEnds, After, GoOnAfter
<1>2. FilesStep
  <2>1. CASE ExportEnter
    BY <2>1, Kinds DEF ExportEnter, FilesStep
  <2>2. CASE ExportMakesDirs \/ ExportStrays
    BY <2>2 DEF ExportMakesDirs, ExportStrays, FilesStep
  <2>3. CASE ExportWrites
    BY <2>3, Kinds DEF ExportWrites, FilesStep
  <2>4. CASE ExportRefused \/ ExportDeleted \/ ExportFails \/ ExportEnds
    BY <2>4 DEF ExportRefused, ExportDeleted, ExportFails, ExportEnds, FilesStep
  <2>5. QED
    BY <2>1, <2>2, <2>3, <2>4 DEF Export
<1>3. QED
  BY <1>1, <1>2, TableStep

\* Every step keeps the tables.
LEMMA NextTables == IInv /\ TreeInv /\ LoopInv /\ TableInv /\ [Next]_vars => TableInv'
<1> SUFFICES ASSUME IInv, TreeInv, LoopInv, TableInv, [Next]_vars PROVE TableInv'
  OBVIOUS
<1>1. CASE UNCHANGED vars \/ \E c \in Commands : Start(c)
  BY <1>1, TableStep DEF Start, vars, FilesStep, HandlesStep, TableInv
<1>2. CASE List \/ Kill
  BY <1>2, ExitTables, TableStep DEF List, Kill, FilesStep
<1>3. CASE Step
  BY <1>2, <1>3, OpenTables, ImportTables, ChangeTables, RepackTables, ExportTables DEF Step
<1>4. QED
  BY <1>1, <1>2, <1>3 DEF Next
-----------------------------------------------------------------------------
(* Recursive functions *)

\* Less-than on the numbers, as a relation.
Less == {ss \in Nat \X Nat : ss[1] < ss[2]}

\* What holds at 0 and goes over from each number to the next holds up to n.
LEMMA UpTo ==
  ASSUME NEW n \in Nat, NEW H, 0 \in H, \A j \in 1..n : j - 1 \in H => j \in H
  PROVE  0..n \subseteq H
<1> DEFINE T == {j \in 0..n : j \notin H}
<1>1. SUFFICES ASSUME T # {} PROVE FALSE
  OBVIOUS
<1>2. T \subseteq Nat
  OBVIOUS
<1>3. IsWellFoundedOn(Less, Nat)
  BY NatLessThanWellFounded DEF OpToRel, Less
<1>4. PICK x \in T : \A y \in T : <<y, x>> \notin Less
  BY <1>1, <1>2, <1>3, WFMin
<1>5. x \in 1..n /\ x - 1 \in 0..n
  BY <1>4
<1>6. <<x - 1, x>> \in Less
  BY <1>5 DEF Less
<1>7. x - 1 \in H
  BY <1>4, <1>5, <1>6
<1>8. QED
  BY <1>4, <1>5, <1>7

\* F begins with a and goes on by the steps that W names.
Follows(W, n, a, F) == F[0] = a /\ \A j \in 1..n : F[j] = W[j][F[j - 1]]

\* A function that begins in S and whose steps stay in S is defined by them.
LEMMA Recursion ==
  ASSUME NEW S, NEW n \in Nat, NEW a \in S, NEW W \in [1..n -> [S -> S]]
  PROVE  \E F \in [0..n -> S] : Follows(W, n, a, F)
<1> DEFINE Good(k, F) == F[0] = a /\ \A j \in 1..k : F[j] = W[j][F[j - 1]]
           H == {k \in 0..n : \E F \in [0..k -> S] : Good(k, F)}
<1>1. 0 \in H
  <2> DEFINE F == [j \in 0..0 |-> a]
  <2>1. F \in [0..0 -> S] /\ Good(0, F)
    OBVIOUS
  <2> HIDE DEF F
  <2>2. \E E \in [0..0 -> S] : Good(0, E)
    BY <2>1
  <2>3. QED
    BY <2>2
<1>2. ASSUME NEW k \in 1..n, k - 1 \in H
      PROVE  k \in H
  <2>1. PICK F \in [0..(k - 1) -> S] : Good(k - 1, F)
    BY <1>2
  <2> DEFINE G == [j \in 0..k |-> IF j = k THEN W[k][F[k - 1]] ELSE F[j]]
  <2>2. k - 1 \in 0..(k - 1) /\ F[k - 1] \in S
    BY <2>1
  <2>3. W[k][F[k - 1]] \in S
    BY <2>2
  <2>4. G \in [0..k -> S]
    BY <2>3
  <2>5. G[0] = a
    BY <2>1
  <2>6. ASSUME NEW j \in 1..k PROVE G[j] = W[j][G[j - 1]]
    <3>1. j - 1 \in 0..k /\ j - 1 # k /\ j \in 0..k
      OBVIOUS
    <3>2. G[j - 1] = F[j - 1]
      BY <3>1
    <3>3. CASE j = k
      BY <3>1, <3>2, <3>3
    <3>4. CASE j # k
      <4>1. j \in 1..(k - 1)
        BY <3>4
      <4>2. QED
        BY <2>1, <3>1, <3>2, <3>4, <4>1
    <3>5. QED
      BY <3>3, <3>4
  <2> HIDE DEF G
  <2>7. QED
    BY <2>4, <2>5, <2>6
<1>3. n \in H
  <2> HIDE DEF H
  <2>1. 0..n \subseteq H
    BY <1>1, <1>2, UpTo
  <2>2. QED
    BY <2>1
<1>4. QED
  BY <1>3 DEF Follows

-----------------------------------------------------------------------------
(* Repack *)

\* The live ones of the first k entries of a table.
Keep(t, k, s) == IF Live(t[k]) THEN Append(s, t[k]) ELSE s

Kept(t) == CHOOSE f : f = [k \in 0..Len(t) |-> IF k = 0 THEN <<>> ELSE Keep(t, k, f[k - 1])]

\* They are found one after the other.
LEMMA KeptIs ==
  ASSUME NEW t, IsTable(t)
  PROVE  /\ LiveEntries(t) = Kept(t)[Len(t)]
         /\ Kept(t)[0] = <<>>
         /\ \A k \in 1..Len(t) : Kept(t)[k] = Keep(t, k, Kept(t)[k - 1])
<1> DEFINE n == Len(t)  E == {t[k] : k \in 1..n}  S == Seq(E)
           W == [k \in 1..n |-> [s \in S |-> Keep(t, k, s)]]
<1>1. n \in Nat
  BY TableFacts
<1>2. LiveEntries(t) = Kept(t)[n]
  BY DEF LiveEntries, Kept, Keep
<1> HIDE DEF n
<1>3. \A k \in 1..n, s \in S : Keep(t, k, s) \in S
  <2> SUFFICES ASSUME NEW k \in 1..n, NEW s \in S PROVE Keep(t, k, s) \in S
    OBVIOUS
  <2>1. t[k] \in E
    OBVIOUS
  <2> HIDE DEF E
  <2>2. QED
    BY <2>1 DEF Keep
<1>4. <<>> \in S
  OBVIOUS
<1> HIDE DEF S
<1>5. W \in [1..n -> [S -> S]]
  BY <1>3
<1>6. \A k \in 1..n, s \in S : W[k][s] = Keep(t, k, s)
  OBVIOUS
<1> HIDE DEF W
<1>7. PICK F \in [0..n -> S] : Follows(W, n, <<>>, F)
  BY <1>1, <1>4, <1>5, Recursion
<1>8. \A k \in 0..n : F[k] = IF k = 0 THEN <<>> ELSE Keep(t, k, F[k - 1])
  <2> SUFFICES ASSUME NEW k \in 0..n, k # 0 PROVE F[k] = Keep(t, k, F[k - 1])
    BY <1>7 DEF Follows
  <2>1. k \in 1..n /\ k - 1 \in 0..n
    BY <1>1
  <2>2. QED
    BY <1>6, <1>7, <2>1 DEF Follows
<1>9. F = [k \in 0..n |-> IF k = 0 THEN <<>> ELSE Keep(t, k, F[k - 1])]
  BY <1>8
<1>10. Kept(t) = [k \in 0..n |-> IF k = 0 THEN <<>> ELSE Keep(t, k, Kept(t)[k - 1])]
  BY <1>9 DEF Kept, n
<1>11. Kept(t)[0] = <<>>
  <2>1. 0 \in 0..n
    BY <1>1
  <2>2. QED
    BY <1>10, <2>1
<1>12. ASSUME NEW k \in 1..n PROVE Kept(t)[k] = Keep(t, k, Kept(t)[k - 1])
  <2>1. k \in 0..n /\ k # 0
    BY <1>1
  <2>2. QED
    BY <1>10, <2>1
<1>13. QED
  BY <1>2, <1>11, <1>12 DEF n

\* What repack has done so far.
RepackInv ==
  pc # "idle" /\ cmd.kind = "rep" =>
    LET p == cmd.outpres.path IN
    /\ pc \in {"start", "rep", "copy", "publish", "unlink"}
    /\ pc \in {"start", "rep"} => fs = before
    /\ pc # "start" => old.table = before[cmd.inpres.path].table
    /\ pc \in {"copy", "publish"} => Nodes(p) = Was(p)
    /\ pc \in {"copy", "publish", "unlink"} => Nodes(MetaBeside(p)) = {Meta}
    /\ pc = "copy" => i \in 1..(Len(old.table) + 1) /\ new.table = Kept(old.table)[i - 1]
    /\ pc = "publish" => new.table = LiveEntries(old.table)
    /\ pc = "unlink" => Nodes(p) = {Container(LiveEntries(old.table))}

\* A command that is no repack, at work or at its end.
LEMMA NoRepack ==
  ASSUME cmd'.kind # "rep"
  PROVE  RepackInv' /\ RepackOutcome'
  BY DEF RepackInv, RepackOutcome, Ended

\* Of repack, the exits that leave what it was to replace.
LEMMA RepackStops ==
  ASSUME NEW s, s # "ok", Exit(s), UNCHANGED fs, cmd.kind = "rep",
         Nodes(cmd.outpres.path) = Was(cmd.outpres.path)
  PROVE  RepackInv' /\ RepackOutcome'
<1>1. pc' = "idle" /\ status' = s /\ cmd' = cmd /\ before' = before
  BY DEF Exit, Rest
<1>2. Nodes(cmd.outpres.path)' = Was(cmd.outpres.path)'
  BY <1>1 DEF Nodes, Was
<1>3. QED
  BY <1>1, <1>2 DEF RepackInv, RepackOutcome

\* The backup of what repack creates is another file than that.
LEMMA OtherThanMeta ==
  ASSUME NEW c \in Containers
  PROVE  MetaBeside(c.path) # c.path
<1> DEFINE p == c.path  f == Front(p)  m == MetaName[Last(p)]
<1>1. p \in Seq(STRING) /\ p # <<>> /\ m # p[Len(p)]
  BY Named, KtoolAssumption DEF Last
<1> HIDE DEF m
<1>2. MetaBeside(p) = Append(f, m)
  BY DEF MetaBeside, m
<1>3. f = SubSeq(p, 1, Len(p) - 1)
  BY DEF Front
<1> HIDE DEF p, f
<1>4. Len(p) \in Nat /\ Len(p) >= 1
  BY <1>1
<1>5. Len(p) - 1 \in Nat /\ Len(p) - 1 <= Len(p)
  BY <1>4
<1>6. f \in Seq(STRING) /\ Len(f) = Len(p) - 1
  BY <1>1, <1>3, <1>5, Fore
<1>7. Append(f, m)[Len(f) + 1] = m
  BY <1>6
<1>8. Append(f, m)[Len(p)] = m
  BY <1>4, <1>6, <1>7
<1>9. MetaBeside(p) # p
  BY <1>1, <1>2, <1>8
<1>10. QED
  BY <1>9 DEF p

\* Writing or removing the backup leaves the container as it is.
LEMMA NodesKept ==
  ASSUME NEW p, NEW q, p # q, \/ fs' = Removed(q)
                              \/ \E n : fs' = With(q, n)
  PROVE  (IF p \in DOMAIN fs' THEN {fs'[p]} ELSE {}) = Nodes(p)
<1>1. (p \in DOMAIN fs' <=> p \in DOMAIN fs) /\ (p \in DOMAIN fs => fs'[p] = fs[p])
  BY RemovedFacts DEF With
<1>2. QED
  BY <1>1 DEF Nodes

\* A command line is given, and nothing has changed yet.
LEMMA RepackStart ==
  ASSUME NEW c \in Commands, Start(c)
  PROVE  RepackInv' /\ RepackOutcome'
  BY DEF Start, RepackInv, RepackOutcome, Ended

\* _open_pres_container for repack.
LEMMA RepackOpens ==
  ASSUME IInv, RepackInv, cmd.kind = "rep", Open \/ OpenFails
  PROVE  RepackInv' /\ RepackOutcome'
<1> DEFINE q == cmd.inpres.path
<1>1. pc = "start" /\ fs = before /\ cmd \in Commands /\ cwd = Home
  BY DEF Open, OpenFails, RepackInv, IInv, PhaseInv, PlaceInv
<1>2. CASE OpenFails
  <2>1. Nodes(cmd.outpres.path) = Was(cmd.outpres.path)
    BY <1>1 DEF Nodes, Was
  <2>2. QED
    BY <1>2, <2>1, RepackStops DEF OpenFails
<1>3. CASE Open
  <2>1. Resolve(cmd.inpres) = q
    BY <1>1, OldNamed, ResolveHome
  <2>2. ~ForWriting
    BY DEF ForWriting
  <2>3. /\ pc' = "rep" /\ cmd' = cmd /\ before' = before /\ fs' = fs
        /\ old'.table = before[q].table
    BY <1>1, <1>3, <2>1, <2>2 DEF Open, Handle, Goto, Rest
  <2>4. QED
    BY <1>1, <2>3 DEF RepackInv, RepackOutcome, Ended
<1>4. QED
  BY <1>2, <1>3

\* k_pres_create for repack.
LEMMA RepackCreates ==
  ASSUME IInv, TableInv, RepackInv, cmd.kind = "rep", RepackCreate
  PROVE  RepackInv' /\ RepackOutcome'
<1> DEFINE c == cmd.outpres  p == c.path
<1>1. pc = "rep" /\ fs = before /\ cmd \in Commands /\ cwd = Home
      /\ old.table = before[cmd.inpres.path].table
  BY DEF RepackCreate, RepackInv, IInv, PhaseInv, PlaceInv
<1>2. Nodes(p) = Was(p)
  BY <1>1 DEF Nodes, Was
<1>3. CASE CreateFails(c)
  BY <1>2, <1>3, RepackStops DEF CreateFails
<1>4. CASE Created(c, "copy") /\ i' = 1 /\ UNCHANGED <<cwd, old, seen>>
  <2>1. c \in Containers /\ Resolve(c) = p
    BY <1>1, NewNamed, ResolveHome
  <2>2. /\ pc' = "copy" /\ cmd' = cmd /\ before' = before /\ old' = old /\ i' = 1
        /\ new'.table = <<>> /\ fs' = With(MetaBeside(p), Meta)
    BY <1>4, <2>1 DEF Created, Handle, Goto, Rest, ResolveMeta
  <2>3. Nodes(p)' = Was(p)'
    BY <1>2, <2>1, <2>2, OtherThanMeta, NodesKept DEF Nodes, Was
  <2>7. Nodes(MetaBeside(p))' = {Meta}
    BY <2>2 DEF Nodes, With
  <2>4. 1 \in 1..(Len(old.table) + 1)
    BY TableFacts DEF TableInv
  <2>5. Kept(old.table)[1 - 1] = <<>>
    BY KeptIs DEF TableInv
  <2>6. QED
    BY <1>1, <2>2, <2>3, <2>4, <2>5, <2>7 DEF RepackInv, RepackOutcome, Ended
<1>5. QED
  BY <1>3, <1>4 DEF RepackCreate

\* The loop over the table.
LEMMA RepackCopies ==
  ASSUME IInv, TableInv, RepackInv, cmd.kind = "rep",
         CopySkips \/ Copy \/ CopyFails \/ CopyEnds
  PROVE  RepackInv' /\ RepackOutcome'
<1> DEFINE c == cmd.outpres  p == c.path  t == old.table
<1>1. /\ pc = "copy" /\ cmd \in Commands /\ cwd = Home
      /\ new.arg = c /\ IsHandle(new)
      /\ t = before[cmd.inpres.path].table /\ Nodes(p) = Was(p)
      /\ i \in 1..(Len(t) + 1) /\ new.table = Kept(t)[i - 1]
      /\ Nodes(MetaBeside(p)) = {Meta}
  BY DEF CopySkips, Copy, CopyFails, CopyEnds, RepackInv, IInv, PhaseInv, NewInv
<1>2. c \in Containers /\ Resolve(c) = p
  BY <1>1, NewNamed, ResolveHome
<1>3. Len(t) \in Nat /\ LiveEntries(t) = Kept(t)[Len(t)]
      /\ \A k \in 1..Len(t) : Kept(t)[k] = Keep(t, k, Kept(t)[k - 1])
  BY TableFacts, KeptIs DEF TableInv
<1>4. CASE CopyFails
  BY <1>1, <1>4, RepackStops DEF CopyFails, GiveUp
<1>5. CASE CopySkips \/ Copy
  <2>1. /\ pc' = "copy" /\ cmd' = cmd /\ before' = before /\ old' = old /\ i' = i + 1
        /\ i <= Len(t)
    BY <1>1, <1>5 DEF CopySkips, Copy, Goto, Rest, More
  <2>2. i \in 1..Len(t) /\ i' \in 1..(Len(t) + 1) /\ i' - 1 = i
    BY <1>1, <1>3, <2>1
  <2>3. Kept(t)[i' - 1] = Keep(t, i, new.table)
    BY <1>1, <1>3, <2>2
  <2>4. CASE CopySkips
    <3>1. new'.table = Kept(t)[i' - 1] /\ fs' = fs
      BY <2>3, <2>4 DEF CopySkips, Keep
    <3>2. Nodes(p)' = Was(p)' /\ Nodes(MetaBeside(p))' = {Meta}
      BY <1>1, <2>1, <3>1 DEF Nodes, Was
    <3>3. QED
      BY <1>1, <2>1, <2>2, <3>1, <3>2 DEF RepackInv, RepackOutcome, Ended
  <2>5. CASE Copy
    <3>1. new'.table = Append(new.table, t[i])
      <4>1. IsEntry(t[i])
        BY <2>2, TableFacts DEF TableInv
      <4>2. QED
        BY <1>1, <2>5, <4>1, CommittedTable DEF Copy, TableInv
    <3>2. new'.table = Kept(t)[i' - 1]
      BY <2>3, <2>5, <3>1 DEF Copy, Keep
    <3>3. fs' = With(MetaBeside(p), Meta)
      BY <1>1, <1>2, <2>5 DEF Copy, ResolveMeta
    <3>4. Nodes(p)' = Was(p)'
      BY <1>1, <1>2, <2>1, <3>3, OtherThanMeta, NodesKept DEF Nodes, Was
    <3>6. Nodes(MetaBeside(p))' = {Meta}
      BY <2>1, <3>3 DEF Nodes, With
    <3>5. QED
      BY <1>1, <2>1, <2>2, <3>2, <3>4, <3>6 DEF RepackInv, RepackOutcome, Ended
  <2>6. QED
    BY <1>5, <2>4, <2>5
<1>6. CASE CopyEnds
  <2>1. /\ pc' = "publish" /\ cmd' = cmd /\ UNCHANGED <<before, old, new, fs>>
        /\ ~(i <= Len(t))
    BY <1>6 DEF CopyEnds, Goto, Rest, More
  <2>2. i - 1 = Len(t)
    <3> DEFINE n == Len(t)
    <3>1. n \in Nat /\ i \in 1..(n + 1) /\ ~(i <= n)
      BY <1>1, <1>3, <2>1
    <3> HIDE DEF n
    <3>2. i - 1 = n
      BY <3>1
    <3>3. QED
      BY <3>2 DEF n
  <2>3. new'.table = LiveEntries(t)
    BY <1>1, <1>3, <2>1, <2>2
  <2>4. Nodes(p)' = Was(p)' /\ Nodes(MetaBeside(p))' = {Meta}
    BY <1>1, <2>1 DEF Nodes, Was
  <2>5. QED
    BY <1>1, <2>1, <2>3, <2>4 DEF RepackInv, RepackOutcome, Ended
<1>7. QED
  BY <1>4, <1>5, <1>6

\* The new container takes its name, then its backup goes.
LEMMA RepackCloses ==
  ASSUME IInv, RepackInv, cmd.kind = "rep", Publish \/ PublishFails \/ Unlink
  PROVE  RepackInv' /\ RepackOutcome'
<1> DEFINE c == cmd.outpres  p == c.path  t == old.table
<1>1. /\ pc \in {"publish", "unlink"} /\ cmd \in Commands /\ cwd = Home
      /\ new.arg = c /\ new.target = p /\ t = before[cmd.inpres.path].table
      /\ pc = "publish" => Nodes(p) = Was(p) /\ new.table = LiveEntries(t)
      /\ pc = "unlink" => Nodes(p) = {Container(LiveEntries(t))}
      /\ Nodes(MetaBeside(p)) = {Meta}
  BY DEF Publish, PublishFails, Unlink, RepackInv, IInv, PhaseInv, NewInv
<1>2. c \in Containers /\ Resolve(c) = p
  BY <1>1, NewNamed, ResolveHome
<1>3. CASE PublishFails
  BY <1>1, <1>3, RepackStops DEF PublishFails
<1>4. CASE Publish
  <2>1. /\ pc' = "unlink" /\ cmd' = cmd /\ before' = before /\ old' = old
        /\ fs' = With(p, Container(LiveEntries(t)))
    BY <1>1, <1>4 DEF Publish, Published, Goto, Rest
  <2>2. Nodes(p)' = {Container(LiveEntries(t))}
    BY <2>1 DEF Nodes, With
  <2>4. Nodes(MetaBeside(p))' = {Meta}
    BY <1>1, <1>2, <2>1, OtherThanMeta DEF Nodes, With
  <2>3. QED
    BY <1>1, <2>1, <2>2, <2>4 DEF RepackInv, RepackOutcome, Ended
<1>5. CASE Unlink
  <2>1. pc = "unlink"
    BY <1>5 DEF Unlink
  <2>2. /\ pc' = "idle" /\ status' = "ok" /\ cmd' = cmd /\ before' = before
        /\ fs' = Removed(MetaBeside(p))
    BY <1>1, <1>2, <1>5 DEF Unlink, Exit, Rest, ResolveMeta
  <2>3. Nodes(p)' = {Container(LiveEntries(before[cmd.inpres.path].table))}
    BY <1>1, <1>2, <2>1, <2>2, OtherThanMeta, NodesKept DEF Nodes
  <2>4. MetaBeside(p) \notin DOMAIN fs'
    <3>1. Nodes(MetaBeside(p)) = {Meta} /\ Meta # Dir
      <4>1. Meta.kind = "meta" /\ Dir.kind = "dir"
        BY DEF Meta, Dir
      <4>2. QED
        BY <1>1, <4>1
    <3>3. fs[MetaBeside(p)] = Meta
      BY <3>1 DEF Nodes
    <3>2. QED
      BY <2>2, <3>1, <3>3, RemovedFacts
  <2>5. QED
    BY <2>2, <2>3, <2>4 DEF RepackInv, RepackOutcome, Exists
<1>6. QED
  BY <1>3, <1>4, <1>5

\* A process that is killed.
LEMMA RepackKilled ==
  ASSUME RepackInv, cmd.kind = "rep", Kill
  PROVE  RepackInv' /\ RepackOutcome'
<1> DEFINE p == cmd.outpres.path
<1>1. pc # "idle" /\ Exit("killed") /\ UNCHANGED fs
  BY DEF Kill
<1>2. CASE pc # "unlink"
  <2>1. Nodes(p) = Was(p)
    BY <1>1, <1>2 DEF RepackInv, Nodes, Was
  <2>2. QED
    BY <1>1, <2>1, RepackStops
<1>3. CASE pc = "unlink"
  <2>1. Nodes(p) = {Container(LiveEntries(before[cmd.inpres.path].table))}
    BY <1>3 DEF RepackInv
  <2>2. pc' = "idle" /\ status' = "killed" /\ cmd' = cmd /\ before' = before
    BY <1>1 DEF Exit, Rest
  <2>3. Nodes(p)' = {Container(LiveEntries(before[cmd.inpres.path].table))}
    <3>1. fs' = fs
      BY <1>1
    <3>2. Nodes(p)' = Nodes(p)
      BY <2>2, <3>1 DEF Nodes
    <3>3. QED
      BY <2>1, <2>2, <3>2
  <2>4. QED
    BY <2>2, <2>3 DEF RepackInv, RepackOutcome
<1>4. QED
  BY <1>2, <1>3

\* Every step keeps what repack is to do.
LEMMA NextRepack ==
  IInv /\ TableInv /\ RepackInv /\ RepackOutcome /\ [Next]_vars => RepackInv' /\ RepackOutcome'
<1> SUFFICES ASSUME IInv, TableInv, RepackInv, RepackOutcome, [Next]_vars
             PROVE  RepackInv' /\ RepackOutcome'
  OBVIOUS
<1>1. CASE UNCHANGED vars
  BY <1>1 DEF RepackInv, RepackOutcome, Ended, Nodes, Was, Exists, vars
<1>2. CASE \E c \in Commands : Start(c)
  BY <1>2, RepackStart
<1>3. CASE Step \/ Kill
  <2>1. pc # "idle" /\ cmd' = cmd
    BY <1>3 DEF Step, Open, OpenFails, Import, ImportCreate, Created, CreateFails, ImportEnter,
       Visit, VisitSkips, VisitAdds, VisitFails, WalkEnds, ImportBack, Publish, PublishFails, Unlink,
       Change, AddSkips, AddAppends, AddCommits, AddFails, DeleteRefused, Delete, CloseWrites,
       CloseEnds, CloseRemoves, CloseFails, Repack, RepackCreate, CopySkips, Copy, CopyFails,
       CopyEnds, Export, ExportEnter, ExportRefused, ExportDeleted, ExportMakesDirs, ExportStrays,
       ExportWrites, ExportFails, ExportEnds, After, GoOnAfter, Exporting, List, Kill, Exit, Goto, Rest
  <2>2. CASE cmd.kind # "rep"
    BY <2>1, <2>2, NoRepack
  <2>3. CASE cmd.kind = "rep"
    <3>1. pc \in {"start", "rep", "copy", "publish", "unlink"}
      BY <2>1, <2>3 DEF RepackInv
    <3>2. Open \/ OpenFails \/ Publish \/ PublishFails \/ Unlink \/ Repack \/ Kill
      BY <1>3, <2>3, <3>1
         DEF Step, Import, ImportCreate, ImportEnter, Visit, VisitSkips, VisitAdds, VisitFails,
         WalkEnds, ImportBack, Change, AddSkips, AddAppends, AddCommits, AddFails, DeleteRefused,
         Delete, CloseWrites, CloseEnds, CloseRemoves, CloseFails, Export, ExportEnter,
         ExportRefused, ExportDeleted, ExportMakesDirs, ExportStrays, ExportWrites, ExportFails,
         ExportEnds, Exporting, List
    <3>3. QED
      BY <2>3, <3>2, RepackOpens, RepackCreates, RepackCopies, RepackCloses, RepackKilled DEF Repack
  <2>4. QED
    BY <2>2, <2>3
<1>4. QED
  BY <1>1, <1>2, <1>3 DEF Next

\* Tables are sequences at first.
LEMMA InitRepack == Init => TableInv /\ RepackInv /\ RepackOutcome
<1> SUFFICES ASSUME Init PROVE TableInv /\ RepackInv /\ RepackOutcome
  OBVIOUS
<1>1. ASSUME NEW p \in DOMAIN fs, fs[p].kind = "container" PROVE IsTable(fs[p].table)
  <2> DEFINE t == fs[p].table  S == ToSet(t)
  <2>1. t \in Seq(S) /\ \A e \in S : IsEntry(e)
    BY <1>1, TreesAssumption DEF Init
  <2> HIDE DEF t, S
  <2>2. Len(t) \in Nat /\ t = [k \in 1..Len(t) |-> t[k]] /\ \A k \in 1..Len(t) : t[k] \in S
    BY <2>1
  <2>3. QED
    BY <2>1, <2>2 DEF IsTable, t
<1>2. TableInv
  BY <1>1, EmptyTable DEF Init, TableInv
<1>3. RepackInv /\ RepackOutcome
  BY DEF Init, Idle, RepackInv, RepackOutcome, Ended
<1>4. QED
  BY <1>2, <1>3

-----------------------------------------------------------------------------
(* The tree stays one *)

\* A process that ends.
LEMMA TreeExit ==
  ASSUME NEW s, Exit(s), IsTree(fs')
  PROVE  TreeInv' /\ LoopInv'
<1>1. pc' = "idle" /\ cwd' = Home
  BY DEF Exit
<1>2. <<>> \in Seq(STRING)
  OBVIOUS
<1>3. IsTree(fs)' /\ IsDir(cwd)' /\ cwd' \in Seq(STRING)
  BY <1>1, <1>2 DEF IsTree, IsDir, Home
<1>4. QED
  BY <1>1, <1>3 DEF TreeInv, LoopInv, Creating, Changing

\* A step that puts files into place, and goes on with the same containers.
LEMMA CalmStep ==
  ASSUME TreeInv, IsTree(fs'), Calm, UNCHANGED cwd,
         pc' \in Creating => pc \in Creating /\ new'.target = new.target,
         pc' \in Changing => pc \in Changing /\ old'.target = old.target,
         pc' = "added" => cmd'.file \in Seq(STRING) /\ cmd'.file # <<>>
  PROVE  TreeInv'
<1>1. \A p : IsDir(p) => IsDir(p)'
  BY DEF Calm, DirsStay, DirAfter, IsDir, Exists
<1>2. \A p : IsFile(p) => IsFile(p)'
  BY DEF Calm, IsFile, Exists
<1>3. \A p : HasPlace(p) => HasPlace(p)'
  <2> SUFFICES ASSUME NEW p, HasPlace(p) PROVE HasPlace(p)'
    OBVIOUS
  <2>1. p # Home /\ ~IsDir(p)
    BY DEF HasPlace, IsDir, Exists
  <2>2. ~(p \in DOMAIN fs' /\ fs'[p] = Dir)
    BY <2>1 DEF Calm
  <2>3. QED
    BY <1>1, <2>2 DEF HasPlace
<1>4. IsTree(fs)'
  BY DEF IsTree
<1>5. IsDir(cwd)' /\ cwd' \in Seq(STRING)
  BY <1>1 DEF TreeInv
<1>6. pc' \in Creating => HasPlace(new.target)'
  BY <1>3 DEF TreeInv
<1>7. pc' \in Changing => IsFile(old.target)' /\ IsFile(MetaBeside(old.target))'
  <2> SUFFICES ASSUME pc' \in Changing
               PROVE  IsFile(old.target)' /\ IsFile(MetaBeside(old.target))'
    OBVIOUS
  <2>1. IsFile(old.target) /\ IsFile(MetaBeside(old.target)) /\ old'.target = old.target
    BY DEF TreeInv
  <2>2. MetaBeside(old.target)' = MetaBeside(old.target)
    BY <2>1 DEF MetaBeside
  <2>3. QED
    BY <1>2, <2>1, <2>2
<1>8. QED
  BY <1>4, <1>5, <1>6, <1>7 DEF TreeInv

\* A step that leaves the files alone.
LEMMA SameIsCalm ==
  ASSUME TreeInv, UNCHANGED fs
  PROVE  IsTree(fs') /\ Calm
<1>1. IsTree(fs')
  BY DEF TreeInv, IsTree
<1>2. Calm
  BY DEF Calm, DirsStay, DirAfter, IsFile, IsDir, Exists
<1>3. QED
  BY <1>1, <1>2

\* A command line is given.
LEMMA TreeStart ==
  ASSUME TreeInv, NEW c, Start(c)
  PROVE  TreeInv' /\ LoopInv'
<1>1. TreeInv'
  BY SameIsCalm, CalmStep DEF Start, Creating, Changing
<1>2. LoopInv'
  BY DEF Start, LoopInv
<1>3. QED
  BY <1>1, <1>2

\* _open_pres_container
LEMMA TreeOpen ==
  ASSUME IInv, TreeInv, Open \/ OpenFails
  PROVE  TreeInv' /\ LoopInv'
<1>1. CASE OpenFails
  BY <1>1, SameIsCalm, TreeExit DEF OpenFails
<1>2. CASE Open
  <2>0. PICK c, p : c = cmd.inpres /\ p = Resolve(c)
    OBVIOUS
  <2> DEFINE m == MetaBeside(p)
  <2>1. /\ pc = "start" /\ cmd \in Commands /\ cmd.kind # "imp" /\ c \in Containers
        /\ pc' = cmd.kind /\ cmd' = cmd /\ cwd' = cwd /\ old'.target = p
    BY <1>2, <2>0, OldNamed DEF Open, Goto, Rest, Handle, IInv, PhaseInv, PlaceInv
  <2>2. cmd.kind \in {"add", "delid", "rep", "exp", "expid", "ls"}
    BY <2>1, KtoolAssumption
  <2>3. LoopInv'
    BY <2>1, <2>2 DEF LoopInv
  <2>4. CASE ~ForWriting
    <3>1. UNCHANGED fs /\ pc' \notin Changing /\ pc' \notin Creating /\ pc' # "added"
      BY <1>2, <2>1, <2>2, <2>4 DEF Open, ForWriting, Creating, Changing
    <3>2. TreeInv'
      BY <2>1, <3>1, SameIsCalm, CalmStep
    <3>3. QED
      BY <2>3, <3>2
  <2>5. CASE ForWriting
    <3>1. fs' = With(m, Meta) /\ IsFile(p) /\ ~Exists(m)
      BY <1>2, <2>0, <2>5 DEF Open, Openable, Whole, ResolveMeta
    <3>2. HasPlace(p)
      BY <3>1, FilePlace DEF TreeInv
    <3>3. IsName(p)
      BY <2>0, <2>1, ResolvedPath DEF TreeInv
    <3>4. HasPlace(m)
      BY <3>1, <3>2, <3>3, BackupPath DEF HasPlace, Exists
    <3>5. IsTree(fs') /\ Calm /\ m \in DOMAIN fs' /\ fs'[m] # Dir
      BY <3>1, <3>4, PutStep, NotDir DEF TreeInv
    <3>6. IsFile(p)' /\ IsFile(m)'
      BY <3>1, <3>5 DEF Calm, IsFile, Exists
    <3>7. cwd' \in Seq(STRING) /\ IsDir(cwd)'
      BY <2>1, <3>5 DEF TreeInv, Calm, DirsStay, DirAfter, IsDir, Exists
    <3>8. pc' \notin Creating /\ pc' # "added"
      BY <2>1, <2>2, <2>5 DEF ForWriting, Creating
    <3>9. IsFile(old.target)' /\ IsFile(MetaBeside(old.target))'
      <4>1. MetaBeside(old.target)' = m
        BY <2>1 DEF MetaBeside
      <4>2. IsFile(old.target)'
        BY <2>1, <3>6 DEF IsFile, Exists
      <4>3. IsFile(MetaBeside(old.target))'
        BY <3>6, <4>1 DEF IsFile, Exists
      <4>4. QED
        BY <4>2, <4>3
    <3>10. TreeInv'
      BY <3>5, <3>7, <3>8, <3>9 DEF TreeInv, IsTree
    <3>11. QED
      BY <2>3, <3>10
  <2>6. QED
    BY <2>4, <2>5
<1>3. QED
  BY <1>1, <1>2

\* A container is created, by imp or rep.
LEMMA TreeCreate ==
  ASSUME IInv, TreeInv, NEW l \in {"enter", "copy"}, NEW c \in Containers,
         \/ CreateFails(c)
         \/ Created(c, l) /\ UNCHANGED cwd /\ (l = "copy" => i' = 1)
  PROVE  TreeInv' /\ LoopInv'
<1>1. CASE CreateFails(c)
  BY <1>1, SameIsCalm, TreeExit DEF CreateFails
<1>2. CASE Created(c, l) /\ UNCHANGED cwd /\ (l = "copy" => i' = 1)
  <2>0. PICK p : p = Resolve(c)
    OBVIOUS
  <2> DEFINE m == MetaBeside(p)
  <2>1. /\ CanCreate(p) /\ CanCreate(m) /\ fs' = With(m, Meta)
        /\ pc' = l /\ new'.target = p /\ cwd' = cwd
    BY <1>2, <2>0 DEF Created, Creatable, ResolveMeta, Handle, Goto
  <2>2. IsName(p)
    BY <2>0, ResolvedPath DEF TreeInv
  <2>3. HasPlace(p) /\ HasPlace(m)
    BY <2>1, <2>2, BackupPath, CreatePlace DEF IsName
  <2>4. IsTree(fs') /\ Calm
    BY <2>1, <2>3, PutStep, NotDir DEF TreeInv
  <2>5. cwd' \in Seq(STRING) /\ IsDir(cwd)'
    BY <2>1, <2>4 DEF TreeInv, Calm, DirsStay, DirAfter, IsDir, Exists
  <2>6. HasPlace(p)'
    <3>1. p # Home /\ ~IsDir(p) /\ IsDir(Front(p)) /\ p \in Seq(STRING)
      BY <2>3 DEF HasPlace, IsDir, Exists
    <3>2. ~(p \in DOMAIN fs' /\ fs'[p] = Dir) /\ IsDir(Front(p))'
      BY <2>4, <3>1 DEF Calm, DirsStay, DirAfter, IsDir, Exists
    <3>3. QED
      BY <3>1, <3>2 DEF HasPlace
  <2>7. HasPlace(new.target)'
    BY <2>1, <2>6 DEF HasPlace, IsDir, Exists
  <2>8. TreeInv'
    BY <2>1, <2>4, <2>5, <2>7 DEF TreeInv, IsTree, Changing
  <2>9. LoopInv'
    BY <1>2, <2>1 DEF LoopInv
  <2>10. QED
    BY <2>8, <2>9
<1>3. QED
  BY <1>1, <1>2

\* The backup of a container that is created is written again.
LEMMA TreeCommit ==
  ASSUME IInv, TreeInv, cmd.outpres \in Containers, new.arg = cmd.outpres,
         CanCreate(ResolveMeta(new.arg)) \/ IsFile(ResolveMeta(new.arg)),
         fs' = With(ResolveMeta(new.arg), Meta),
         NEW e, new' = Committed(new, e), pc \in Creating, UNCHANGED <<pc, cwd>>
  PROVE  TreeInv'
<1> DEFINE m == ResolveMeta(new.arg)
<1>1. IsName(Resolve(new.arg))
  BY ResolvedPath DEF TreeInv
<1>2. m \in Seq(STRING)
  BY <1>1, BackupPath DEF ResolveMeta
<1>3. HasPlace(m)
  BY <1>2, CreatePlace, FilePlace DEF TreeInv
<1>4. IsTree(fs') /\ Calm
  BY <1>3, PutStep, NotDir DEF TreeInv
<1>5. pc \in {"enter", "walk", "copy", "publish"}
  BY DEF Creating
<1>6. new'.target = new.target
  BY <1>5 DEF Committed, IInv, PhaseInv, NewInv, IsHandle
<1>7. QED
  BY <1>4, <1>5, <1>6, CalmStep DEF Changing

\* The steps of imp.
LEMMA TreeImport ==
  ASSUME IInv, TreeInv, Import
  PROVE  TreeInv' /\ LoopInv'
<1>1. CASE ImportCreate
  <2>1. pc = "start" /\ cmd.kind = "imp" /\ cmd \in Commands
    BY <1>1 DEF ImportCreate, IInv, PhaseInv, PlaceInv
  <2>2. QED
    BY <1>1, <2>1, NewNamed, TreeCreate DEF ImportCreate
<1>2. CASE ImportEnter
  <2>1. IsTree(fs') /\ Calm /\ pc = "enter" /\ cmd \in Commands /\ cmd.kind = "imp"
    BY <1>2, SameIsCalm DEF ImportEnter, IInv, PhaseInv, NewInv
  <2>2. CASE IsDir(cmd.dir) /\ cwd' = cmd.dir /\ Goto("walk") /\ UNCHANGED new
    <3>1. cwd' \in Seq(STRING) /\ IsDir(cwd)'
      BY <1>2, <2>1, <2>2, KtoolAssumption DEF ImportEnter, IsDir, Exists
    <3>2. HasPlace(new.target)'
      BY <1>2, <2>1, <2>2 DEF TreeInv, Creating, HasPlace, IsDir, Exists, ImportEnter
    <3>3. TreeInv'
      BY <2>1, <2>2, <3>1, <3>2 DEF TreeInv, IsTree, Goto, Changing
    <3>4. LoopInv'
      BY <2>2 DEF LoopInv, Goto
    <3>5. QED
      BY <3>3, <3>4
  <2>3. QED
    BY <1>2, <2>1, <2>2, TreeExit DEF ImportEnter
<1>3. CASE Visit
  <2>1. ASSUME NEW p \in ToVisit, VisitSkips(p) PROVE TreeInv' /\ LoopInv'
    <3>1. pc = "walk" /\ pc' = "walk" /\ UNCHANGED <<fs, cwd, new>>
      BY <2>1 DEF VisitSkips
    <3>2. TreeInv'
      BY <3>1, SameIsCalm, CalmStep DEF Creating, Changing
    <3>3. QED
      BY <3>1, <3>2 DEF LoopInv
  <2>2. ASSUME NEW p \in ToVisit, VisitAdds(p) PROVE TreeInv' /\ LoopInv'
    <3>1. /\ pc = "walk" /\ pc' = "walk" /\ cwd' = cwd /\ new.arg = cmd.outpres
          /\ cmd \in Commands /\ cmd.kind = "imp"
          /\ CanCreate(ResolveMeta(new.arg)) /\ fs' = With(ResolveMeta(new.arg), Meta)
      BY <2>2 DEF VisitAdds, Goto, IInv, PhaseInv, NewInv
    <3>2. TreeInv'
      BY <2>2, <3>1, NewNamed, TreeCommit DEF VisitAdds, Creating
    <3>3. QED
      BY <3>1, <3>2 DEF LoopInv
  <2>3. ASSUME NEW p \in ToVisit, VisitFails(p) PROVE TreeInv' /\ LoopInv'
    BY <2>3, SameIsCalm, TreeExit DEF VisitFails, Abandon
  <2>4. CASE WalkEnds
    <3>1. pc = "walk" /\ pc' = "publish" /\ UNCHANGED <<fs, cwd, new>>
      BY <2>4 DEF WalkEnds, Goto
    <3>2. TreeInv'
      BY <3>1, SameIsCalm, CalmStep DEF Creating, Changing
    <3>3. QED
      BY <3>1, <3>2 DEF LoopInv
  <2>5. QED
    BY <1>3, <2>1, <2>2, <2>3, <2>4 DEF Visit
<1>4. CASE ImportBack
  BY <1>4, SameIsCalm, TreeExit DEF ImportBack
<1>5. QED
  BY <1>1, <1>2, <1>3, <1>4 DEF Import

\* A container that was created gets its name, and its backup goes.
LEMMA TreePublish ==
  ASSUME IInv, TreeInv, Publish \/ PublishFails \/ Unlink
  PROVE  TreeInv' /\ LoopInv'
<1>1. CASE PublishFails
  BY <1>1, SameIsCalm, TreeExit DEF PublishFails
<1>2. CASE Publish
  <2>1. pc = "publish" /\ pc' = "unlink" /\ cwd' = cwd /\ HasPlace(new.target)
        /\ fs' = With(new.target, Container(new.table))
    BY <1>2 DEF Publish, Published, Goto, TreeInv, Creating
  <2>2. IsTree(fs') /\ Calm
    BY <2>1, PutStep, NotDir DEF TreeInv
  <2>3. TreeInv' /\ LoopInv'
    BY <2>1, <2>2, CalmStep DEF Creating, Changing, LoopInv
  <2>4. QED
    BY <2>3
<1>3. CASE Unlink
  <2>1. IsTree(fs') /\ DirsStay
    BY <1>3, RemoveStep DEF Unlink, TreeInv
  <2>2. CASE Goto("back") /\ UNCHANGED cwd
    <3>1. cwd' \in Seq(STRING) /\ IsDir(cwd)'
      BY <2>1, <2>2 DEF TreeInv, DirsStay, DirAfter, IsDir, Exists
    <3>2. QED
      BY <2>1, <2>2, <3>1 DEF TreeInv, IsTree, Goto, Creating, Changing, LoopInv
  <2>3. QED
    BY <1>3, <2>1, <2>2, TreeExit DEF Unlink
<1>4. QED
  BY <1>1, <1>2, <1>3

\* The steps of add and delid.
LEMMA TreeChange ==
  ASSUME IInv, TreeInv, TableInv, Change
  PROVE  TreeInv' /\ LoopInv'
<1>1. CASE AddSkips \/ AddFails \/ DeleteRefused
  <2>1. pc \in Changing /\ pc' = "close" /\ UNCHANGED <<fs, cwd, old>>
    BY <1>1 DEF AddSkips, AddFails, DeleteRefused, Goto, Changing
  <2>2. TreeInv'
    BY <2>1, SameIsCalm, CalmStep DEF Creating
  <2>3. QED
    BY <2>1, <2>2 DEF LoopInv
<1>2. CASE AddAppends \/ CloseWrites \/ CloseEnds
  <2>1. /\ pc \in Changing /\ pc' \in {"added", "closing", "unmeta"} /\ UNCHANGED <<cwd, old, cmd>>
        /\ pc' = "added" => IsFile(cmd.file)
        /\ \E t : fs' = With(old.target, Torn(t)) \/ fs' = With(old.target, Container(t))
    BY <1>2 DEF AddAppends, CloseWrites, CloseEnds, Goto, Rest, Changing
  <2>2. HasPlace(old.target)
    BY <2>1, FilePlace DEF TreeInv
  <2>3. IsTree(fs') /\ Calm
    BY <2>1, <2>2, PutStep, NotDir DEF TreeInv
  <2>4. pc' = "added" => cmd'.file \in Seq(STRING) /\ cmd'.file # <<>>
    BY <2>1 DEF TreeInv, IsTree, IsFile, Exists, Home
  <2>5. TreeInv'
    BY <2>1, <2>3, <2>4, CalmStep DEF Creating
  <2>6. QED
    BY <2>1, <2>5 DEF LoopInv
<1>3. CASE AddCommits \/ Delete
  <2>1. /\ pc \in {"added", "delid"} /\ pc' = "close" /\ UNCHANGED cwd
        /\ \/ fs' = With(ResolveMeta(old.arg), Meta)
           \/ UNCHANGED fs
    BY <1>3 DEF AddCommits, Delete, Goto
  <2>2. /\ cmd \in Commands /\ cmd.kind # "imp" /\ cwd = Home
        /\ IsHandle(old) /\ old.arg = cmd.inpres /\ old.target = cmd.inpres.path
    BY <2>1 DEF IInv, PhaseInv, OldInv, ForWriting
  <2>3. old'.target = old.target
    BY <1>3, <2>2 DEF AddCommits, Delete, IsHandle, Committed
  <2>4. ResolveMeta(old.arg) = MetaBeside(old.target)
    BY <2>2, OldNamed, ResolveHome DEF ResolveMeta
  <2>5. HasPlace(MetaBeside(old.target))
    BY <2>1, FilePlace DEF TreeInv, Changing
  <2>6. IsTree(fs') /\ Calm
    BY <2>1, <2>4, <2>5, PutStep, NotDir, SameIsCalm DEF TreeInv
  <2>7. TreeInv'
    BY <2>1, <2>3, <2>6, CalmStep DEF Creating, Changing
  <2>8. QED
    BY <2>1, <2>7 DEF LoopInv
<1>4. CASE CloseRemoves
  BY <1>4, RemoveStep, TreeExit DEF CloseRemoves, TreeInv
<1>5. CASE CloseFails
  BY <1>5, SameIsCalm, TreeExit DEF CloseFails, LeavesMeta
<1>6. QED
  BY <1>1, <1>2, <1>3, <1>4, <1>5 DEF Change

\* The steps of rep.
LEMMA TreeRepack ==
  ASSUME IInv, TreeInv, LoopInv, RepackInv, Repack
  PROVE  TreeInv' /\ LoopInv'
<1>1. CASE RepackCreate
  <2>1. pc = "rep" /\ cmd.kind = "rep" /\ cmd \in Commands
    BY <1>1 DEF RepackCreate, IInv, PhaseInv, PlaceInv
  <2>2. QED
    BY <1>1, <2>1, NewNamed, TreeCreate DEF RepackCreate
<1>2. CASE CopySkips \/ CopyEnds
  <2>1. pc = "copy" /\ pc' \in {"copy", "publish"} /\ UNCHANGED <<fs, cwd, new>> /\ i' \in {i, i + 1}
    BY <1>2 DEF CopySkips, CopyEnds, Goto
  <2>2. TreeInv'
    BY <2>1, SameIsCalm, CalmStep DEF Creating, Changing
  <2>3. LoopInv'
    BY <2>1 DEF LoopInv
  <2>4. QED
    BY <2>2, <2>3
<1>3. CASE Copy
  <2>1. /\ pc = "copy" /\ pc' = "copy" /\ UNCHANGED <<cwd, cmd>> /\ i' = i + 1
        /\ cmd \in Commands /\ cmd.kind = "rep" /\ cwd = Home /\ new.arg = cmd.outpres
        /\ fs' = With(ResolveMeta(new.arg), Meta) /\ \E e : new' = Committed(new, e)
    BY <1>3 DEF Copy, Goto, Rest, IInv, PhaseInv, NewInv
  <2>2. cmd.outpres \in Containers /\ ResolveMeta(new.arg) = MetaBeside(cmd.outpres.path)
    BY <2>1, NewNamed, ResolveHome DEF ResolveMeta
  <2>3. Nodes(MetaBeside(cmd.outpres.path)) = {Meta}
    BY <2>1 DEF RepackInv
  <2>4. IsFile(ResolveMeta(new.arg))
    <3> DEFINE m == ResolveMeta(new.arg)
    <3>1. Nodes(m) = {Meta}
      BY <2>2, <2>3
    <3> HIDE DEF m
    <3>2. m \in DOMAIN fs /\ fs[m] = Meta
      BY <3>1 DEF Nodes
    <3>3. QED
      BY <3>2, NotDir DEF IsFile, Exists, m
  <2>5. TreeInv'
    BY <2>1, <2>2, <2>4, TreeCommit DEF Creating
  <2>6. LoopInv'
    BY <2>1 DEF LoopInv
  <2>7. QED
    BY <2>5, <2>6
<1>4. CASE CopyFails
  BY <1>4, SameIsCalm, TreeExit DEF CopyFails, GiveUp
<1>5. QED
  BY <1>1, <1>2, <1>3, <1>4 DEF Repack

\* A step of the exports to another place in the tree.
LEMMA ExportMove ==
  ASSUME IsTree(fs'), cwd' \in Seq(STRING), DirAfter(cwd'), pc' \in {"export", "write"}
  PROVE  TreeInv'
<1>1. IsTree(fs)' /\ IsDir(cwd)'
  BY DEF IsTree, IsDir, Exists, DirAfter
<1>2. QED
  BY <1>1 DEF TreeInv, Creating, Changing

\* The entry that the loop has come to.
LEMMA LoopEntry ==
  ASSUME TableInv, LoopInv, pc \in {"export", "write"}, More, Live(old.table[i])
  PROVE  /\ i \in 1..Len(old.table)
         /\ old.table[i].name \in Seq(STRING) /\ old.table[i].name # <<>>
         /\ old.table[i].base = BasenameOffset(old.table[i].name)
<1>1. Len(old.table) \in Nat /\ i \in Nat \ {0} /\ i <= Len(old.table)
  BY TableFacts DEF TableInv, LoopInv, More
<1>2. i \in 1..Len(old.table)
  BY <1>1
<1>3. IsEntry(old.table[i])
  BY <1>2, TableFacts DEF TableInv
<1>4. QED
  BY <1>2, <1>3 DEF IsEntry, Live

\* The basename of an entry.
LEMMA BasenameIs ==
  ASSUME NEW e, e.name \in Seq(STRING), e.name # <<>>, e.base = BasenameOffset(e.name)
  PROVE  Basename(e) = <<Last(e.name)>> /\ Last(e.name) \in STRING
<1> DEFINE n == e.name  l == Len(n)  b == Basename(e)
<1>1. l \in Nat /\ l # 0 /\ Len(n) = l /\ n \in Seq(STRING)
  OBVIOUS
<1>2. b = SubSeq(n, (l - 1) + 1, (l - 1) + 1)
  <2>1. l = (l - 1) + 1
    BY <1>1
  <2>2. QED
    BY <2>1 DEF Basename, BasenameOffset
<1> HIDE DEF n, l, b
<1>3. l - 1 \in Nat /\ 1 \in Nat /\ (l - 1) + 1 <= Len(n) /\ 1 \in 1..1
  BY <1>1
<1>4. b \in Seq(STRING) /\ Len(b) = 1 /\ b[1] = n[(l - 1) + 1]
  BY <1>1, <1>2, <1>3, Part
<1>5. (l - 1) + 1 = l /\ n[l] \in STRING
  BY <1>1
<1>6. Last(n) = n[l]
  BY <1>1 DEF Last
<1>7. b = <<Last(n)>>
  <2> DEFINE x == Last(n)  o == <<x>>
  <2>1. o \in Seq(STRING) /\ Len(o) = 1 /\ o[1] = x
    BY <1>1, <1>5, <1>6, OneMore
  <2> HIDE DEF x, o
  <2>2. b = o
    <3>1. \A k \in 1..Len(b) : b[k] = o[k]
      BY <1>4, <1>5, <1>6, <2>1 DEF x
    <3>2. QED
      BY <1>4, <2>1, <3>1, SameSeq
  <2>3. QED
    BY <2>2 DEF x, o
<1>8. QED
  BY <1>5, <1>6, <1>7 DEF n, b

\* The name of what an export writes.
LEMMA OutNameIs ==
  ASSUME TreeInv, NEW e, e = old.table[i], e.name \in Seq(STRING), e.name # <<>>,
         e.base = BasenameOffset(e.name)
  PROVE  /\ OutName \in Seq(STRING)
         /\ cmd.kind = "exp" => OutName = cwd \o e.name
         /\ cmd.kind # "exp" => OutName = Append(cwd, Last(e.name))
<1>1. cwd \in Seq(STRING) /\ cwd \o e.name \in Seq(STRING)
  BY Concat DEF TreeInv
<1>2. Basename(e) = <<Last(e.name)>> /\ Last(e.name) \in STRING
  BY BasenameIs
<1>3. cwd \o Basename(e) = Append(cwd, Last(e.name)) /\ Append(cwd, Last(e.name)) \in Seq(STRING)
  BY <1>1, <1>2, AppendIs
<1>4. QED
  BY <1>1, <1>3 DEF OutName

\* The steps of exp and expid.
LEMMA TreeExport ==
  ASSUME IInv, TreeInv, LoopInv, TableInv, Export
  PROVE  TreeInv' /\ LoopInv'
<1>1. CASE ExportRefused \/ ExportEnds
  <2>1. UNCHANGED fs /\ \E s : Exit(s)
    BY <1>1 DEF ExportRefused, ExportEnds
  <2>2. QED
    BY <2>1, SameIsCalm, TreeExit
<1>2. CASE ExportEnter
  <2>1. /\ pc \in {"exp", "expid"} /\ pc' = "export" /\ cmd' = cmd /\ cwd' = cmd.dir
        /\ cmd.kind = pc /\ cmd \in Commands /\ ~IdIsWrong
        /\ i' = IF cmd.kind = "exp" THEN 1 ELSE cmd.id
    BY <1>2 DEF ExportEnter, Entered, Goto, Rest, LoopInv, IInv, PhaseInv, PlaceInv
  <2>2. cmd.dir \in Seq(STRING)
    BY <2>1, KtoolAssumption
  <2>3. IsTree(fs') /\ DirAfter(cmd.dir)
    <3>1. CASE IsDir(cmd.dir)
      <4>1. UNCHANGED fs
        BY <1>2, <3>1 DEF ExportEnter
      <4>2. QED
        BY <3>1, <4>1, SameIsCalm DEF Calm, DirsStay
    <3>2. CASE ~IsDir(cmd.dir)
      <4>1. fs' = With(cmd.dir, Dir) /\ ~Exists(cmd.dir) /\ IsDir(Front(cmd.dir)) /\ cmd.dir # Home
        BY <1>2, <3>2 DEF ExportEnter, CanEnter, IsDir
      <4>2. HasPlace(cmd.dir)
        BY <2>2, <4>1 DEF HasPlace, Exists
      <4>3. QED
        BY <4>1, <4>2, PutStep DEF TreeInv
    <3>3. QED
      BY <3>1, <3>2
  <2>4. TreeInv'
    BY <2>1, <2>2, <2>3, ExportMove
  <2>5. i' \in Nat \ {0}
    <3>1. Len(old.table) \in Nat /\ DOMAIN old.table = 1..Len(old.table)
      BY TableFacts DEF TableInv
    <3>2. QED
      BY <2>1, <3>1 DEF IdIsWrong
  <2>6. QED
    BY <2>1, <2>4, <2>5 DEF LoopInv
<1>3. CASE ExportDeleted \/ ExportFails \/ ExportWrites
  <2>1. pc \in {"export", "write"} /\ (pc = "write" => More /\ Live(old.table[i]))
        /\ i \in Nat \ {0} /\ cmd.kind \in {"exp", "expid"}
    BY <1>3 DEF ExportDeleted, ExportFails, ExportWrites, Exporting, LoopInv, More
  <2>2. IsTree(fs') /\ DirsStay
    <3>1. CASE UNCHANGED fs
      BY <3>1, SameIsCalm DEF Calm
    <3>2. CASE ExportWrites
      <4>1. pc = "write" /\ CanCreate(OutName)
            /\ \E d : fs' = With(OutName, Plain(d, "0400"))
        BY <3>2 DEF ExportWrites
      <4>2. OutName \in Seq(STRING)
        BY <2>1, <4>1, LoopEntry, OutNameIs
      <4>3. QED
        BY <4>1, <4>2, CreatePlace, PutStep DEF TreeInv
    <3>3. QED
      BY <1>3, <3>1, <3>2 DEF ExportDeleted, ExportFails
  <2>3. CASE cmd.kind = "exp"
    <3>1. pc' = "export" /\ cwd' = cwd /\ i' = i + 1 /\ cmd' = cmd
      BY <1>3, <2>3 DEF ExportDeleted, ExportFails, ExportWrites, After, GoOnAfter, Goto, Rest
    <3>2. TreeInv'
      BY <2>2, <3>1, ExportMove DEF DirsStay, TreeInv
    <3>3. QED
      BY <2>1, <3>1, <3>2 DEF LoopInv
  <2>4. CASE cmd.kind # "exp"
    <3>1. \E s : Exit(s)
      BY <1>3, <2>4 DEF ExportDeleted, ExportFails, ExportWrites, After
    <3>2. QED
      BY <2>2, <3>1, TreeExit
  <2>5. QED
    BY <2>3, <2>4
<1>4. CASE ExportMakesDirs \/ ExportStrays
  <2> DEFINE n == old.table[i].name
  <2>1. /\ pc = "export" /\ More /\ Live(old.table[i]) /\ cmd' = cmd
        /\ old' = old
    BY <1>4 DEF ExportMakesDirs, ExportStrays, Exporting, GoOnAfter, Goto, Rest
  <2>2. n \in Seq(STRING) /\ n # <<>> /\ i \in 1..Len(old.table)
    BY <2>1, LoopEntry
  <2>3. cwd \in Seq(STRING) /\ IsDir(cwd) /\ IsTree(fs)
    BY DEF TreeInv
  <2>4. Len(n) - 1 \in 0..Len(n) /\ Len(n) \in Nat
    <3> DEFINE l == Len(n)
    <3>1. l \in Nat /\ l # 0
      BY <2>2
    <3> HIDE DEF l
    <3>2. l - 1 \in 0..l
      BY <3>1
    <3>3. QED
      BY <3>1, <3>2 DEF l
  <2>5. CASE ExportMakesDirs
    <3>1. pc' = "write" /\ cwd' = cwd /\ i' = i
      BY <2>5 DEF ExportMakesDirs, Goto
    <3>2. IsTree(fs') /\ DirsStay
      <4>1. CASE cmd.kind = "exp"
        <5>1. fs' = DirsMade(n, Len(n) - 1) /\ \A k \in 1..(Len(n) - 1) : ~IsFile(Up(n, k))
          BY <2>5, <4>1 DEF ExportMakesDirs
        <5>2. QED
          BY <2>2, <2>3, <2>4, <5>1, DirsStep
      <4>2. CASE cmd.kind # "exp"
        BY <2>5, <4>2, SameIsCalm DEF ExportMakesDirs, Calm
      <4>3. QED
        BY <4>1, <4>2
    <3>3. TreeInv'
      BY <2>3, <3>1, <3>2, ExportMove DEF DirsStay
    <3>4. LoopInv'
      BY <2>1, <2>2, <3>1 DEF LoopInv
    <3>5. QED
      BY <3>3, <3>4
  <2>6. CASE ExportStrays
    <3>1. PICK k \in 1..(Len(n) - 1) :
            /\ \A j \in 1..(k - 1) : ~IsFile(Up(n, j))
            /\ fs' = DirsMade(n, k - 1) /\ cwd' = Up(n, k - 1)
      BY <2>6 DEF ExportStrays
    <3>2. k - 1 \in 0..Len(n) /\ k - 1 \in 0..(k - 1)
      BY <2>4
    <3>3. IsTree(fs') /\ DirAfter(cwd')
      BY <2>2, <2>3, <3>1, <3>2, DirsStep
    <3>4. cwd' \in Seq(STRING)
      BY <2>2, <2>3, <3>1, <3>2, UpIs
    <3>5. pc' = "export" /\ i' = i + 1
      BY <2>6 DEF ExportStrays, GoOnAfter, Goto
    <3>6. TreeInv'
      BY <3>3, <3>4, <3>5, ExportMove
    <3>7. QED
      BY <2>1, <2>2, <3>5, <3>6 DEF LoopInv
  <2>7. QED
    BY <1>4, <2>5, <2>6
<1>5. QED
  BY <1>1, <1>2, <1>3, <1>4 DEF Export

\* Every step keeps the tree.
LEMMA NextTree ==
  IInv /\ TreeInv /\ LoopInv /\ TableInv /\ RepackInv /\ [Next]_vars => TreeInv' /\ LoopInv'
<1> SUFFICES ASSUME IInv, TreeInv, LoopInv, TableInv, RepackInv, [Next]_vars
             PROVE  TreeInv' /\ LoopInv'
  OBVIOUS
<1>1. CASE UNCHANGED vars
  <2>1. TreeInv'
    BY <1>1, SameIsCalm, CalmStep DEF vars, TreeInv
  <2>2. LoopInv'
    BY <1>1 DEF vars, LoopInv
  <2>3. QED
    BY <2>1, <2>2
<1>2. CASE List \/ Kill
  BY <1>2, SameIsCalm, TreeExit DEF List, Kill
<1>3. CASE Step
  BY <1>2, <1>3, TreeOpen, TreeImport, TreePublish, TreeChange, TreeRepack, TreeExport DEF Step
<1>4. QED
  BY <1>1, <1>2, <1>3, TreeStart DEF Next

\* The first files are a tree.
LEMMA InitTree == Init => TreeInv /\ LoopInv
<1>1. <<>> \in Seq(STRING)
  OBVIOUS
<1>2. QED
  BY <1>1, TreesAssumption DEF Init, TreeInv, LoopInv, Creating, Changing, IsDir, Home

-----------------------------------------------------------------------------
(* Exports *)

\* Nothing is in a directory that is not there.
LEMMA NewIsEmpty ==
  ASSUME IsTree(fs), NEW d \in Seq(STRING), d # Home, d \notin DOMAIN fs, NEW p \in DOMAIN fs
  PROVE  ~Below(d, p)
<1> SUFFICES ASSUME Below(d, p) PROVE FALSE
  OBVIOUS
<1> DEFINE l == Len(p)  m == Len(d)  z == l - m
           H == {j \in 0..z : SubSeq(p, 1, l - j) \in DOMAIN fs}
<1>1. p \in Seq(STRING)
  BY DEF IsTree
<1>2. Len(d) < Len(p) /\ \A k \in 1..Len(d) : d[k] = p[k]
  BY <1>1, StrictIs DEF Below
<1>3. l \in Nat /\ m \in Nat /\ m # 0 /\ m < l /\ Len(p) = l /\ Len(d) = m
  <2>1. m # 0
    BY DEF Home
  <2>2. QED
    BY <1>1, <1>2, <2>1
<1> HIDE DEF l, m
<1>4. z \in Nat /\ z <= l
  BY <1>3
<1>5. ASSUME NEW j \in 0..l
      PROVE  /\ SubSeq(p, 1, j) \in Seq(STRING) /\ Len(SubSeq(p, 1, j)) = j
             /\ \A k \in 1..j : SubSeq(p, 1, j)[k] = p[k]
  <2>1. j \in Nat /\ j <= Len(p)
    BY <1>3
  <2>2. QED
    BY <1>1, <2>1, Fore
<1>6. 0 \in H
  <2>1. l - 0 = l /\ l \in 0..l /\ 0 \in 0..z
    BY <1>3, <1>4
  <2>2. SubSeq(p, 1, l) = p
    BY <1>1, <1>3, <1>5, <2>1, SameSeq
  <2>3. QED
    BY <2>1, <2>2
<1>7. ASSUME NEW j \in 1..z, j - 1 \in H PROVE j \in H
  <2> DEFINE q == SubSeq(p, 1, l - (j - 1))  f == SubSeq(p, 1, l - j)
  <2>1. l - (j - 1) \in 0..l /\ l - j \in 0..l /\ l - (j - 1) = (l - j) + 1 /\ l - j # 0
        /\ j \in 0..z
    BY <1>3, <1>4
  <2>2. q \in DOMAIN fs
    BY <1>7
  <2>3. q \in Seq(STRING) /\ Len(q) = l - (j - 1) /\ \A k \in 1..(l - (j - 1)) : q[k] = p[k]
    BY <1>5, <2>1
  <2>4. f \in Seq(STRING) /\ Len(f) = l - j /\ \A k \in 1..(l - j) : f[k] = p[k]
    BY <1>5, <2>1
  <2> HIDE DEF q, f
  <2>5. Len(q) = Len(f) + 1 /\ \A k \in 1..Len(f) : f[k] = q[k]
    BY <2>1, <2>3, <2>4
  <2>6. Front(q) = f
    BY <2>3, <2>4, <2>5, FrontSame
  <2>7. f # Home
    <3>1. Len(f) # 0
      BY <2>1, <2>4
    <3>2. QED
      BY <3>1 DEF Home
  <2>8. f \in DOMAIN fs
    BY <2>2, <2>6, <2>7 DEF IsTree
  <2>9. QED
    BY <2>1, <2>8 DEF f
<1>8. z \in H
  <2> HIDE DEF z, H
  <2>1. 0..z \subseteq H
    BY <1>4, <1>6, <1>7, UpTo
  <2>2. QED
    BY <1>4, <2>1
<1>9. SubSeq(p, 1, m) \in DOMAIN fs
  <2>1. l - z = m
    BY <1>3
  <2>2. QED
    BY <1>8, <2>1
<1>10. SubSeq(p, 1, m) = d
  <2>1. m \in 0..l
    BY <1>3
  <2>2. QED
    BY <1>2, <1>3, <1>5, <2>1, SameSeq
<1>11. QED
  BY <1>9, <1>10

\* An entry of a table that is not deleted.
LEMMA LiveEntry ==
  ASSUME NEW t, IsTable(t), NEW k \in 1..Len(t), Live(t[k])
  PROVE  t[k].name \in Seq(STRING) /\ t[k].name # <<>>
  BY TableFacts DEF IsEntry, Live

\* In a tree-like table no name is a directory of another.
LEMMA NoClash ==
  ASSUME NEW t, IsTable(t), TreeLike(t), NEW d \in Seq(STRING),
         NEW j \in 1..Len(t), NEW k \in 1..Len(t), Live(t[j]), Live(t[k])
  PROVE  ~IsStrictPrefix(d \o t[j].name, d \o t[k].name)
<1>1. t[j] \in ToSet(t) /\ t[k] \in ToSet(t)
  BY TableFacts DEF ToSet
<1>2. ~IsStrictPrefix(t[j].name, t[k].name)
  BY <1>1 DEF TreeLike
<1>3. QED
  BY <1>2, LiveEntry, InOneDir

\* What exporting all has made in directory d of the first entries of table t.
Sound(e)    == Live(e) /\ e.intact
First(t, k) == \A j \in 1..(k - 1) : t[j].name = t[k].name => ~t[j].intact

MadeDir(d, t, p)  == fs[p] = Dir /\ \E k \in 1..Len(t) :
                       Live(t[k]) /\ IsStrictPrefix(p, d \o t[k].name)
MadeFile(d, t, p) == \E k \in 1..(i - 1) : \E x :
                       Sound(t[k]) /\ p = d \o t[k].name /\ fs[p] = Plain(x, "0400")

Exported(d, t, k) ==
  /\ d \o t[k].name \in DOMAIN fs
  /\ First(t, k) => fs[d \o t[k].name] = Plain(t[k].data, "0400")

AllMade(d, t) ==
  /\ cwd = d /\ i \in 1..(Len(t) + 1)
  /\ \A p \in DOMAIN fs : Below(d, p) => MadeDir(d, t, p) \/ MadeFile(d, t, p)
  /\ \A k \in 1..(i - 1) : Sound(t[k]) => Exported(d, t, k)
  /\ pc = "write" => IsDir(Front(d \o t[i].name))

\* Nothing has been made of the one entry that is exported.
NoneMade(d, t) ==
  /\ cwd = d /\ i = cmd.id /\ i \in DOMAIN t
  /\ \A p \in DOMAIN fs : ~Below(d, p)

ExportInv ==
  pc # "idle" /\ cmd.kind \in {"exp", "expid"} =>
    LET t == old.table
        d == cmd.dir IN
    /\ pc \in {"start", "exp", "expid", "export", "write"}
    /\ pc \in {"start", "exp", "expid"} => fs = before
    /\ pc # "start" => t = before[cmd.inpres.path].table
    /\ pc \in {"export", "write"} /\ quiet /\ New(d) =>
         /\ cmd.kind = "exp" /\ TreeLike(t) => AllMade(d, t)
         /\ cmd.kind = "expid" => NoneMade(d, t)

\* A command that is no export, at work or at its end.
LEMMA NoExport ==
  ASSUME cmd'.kind \notin {"exp", "expid"}
  PROVE  ExportInv' /\ ExportOutcome'
  BY DEF ExportInv, ExportOutcome

\* A command line is given, and nothing has changed yet.
LEMMA ExportStarts ==
  ASSUME NEW c \in Commands, Start(c)
  PROVE  ExportInv' /\ ExportOutcome'
  BY DEF Start, ExportInv, ExportOutcome, Ended

\* A process that fails and says so.
LEMMA ExportStops ==
  ASSUME NEW s, s # "ok", Exit(s), UNCHANGED <<fs, quiet>>,
         quiet /\ cmd.kind = "expid" /\ New(cmd.dir) /\ Whole(cmd.inpres.path) =>
           LET t == before[cmd.inpres.path].table IN
           ~(cmd.id \in DOMAIN t /\ Live(t[cmd.id]) /\ t[cmd.id].intact)
  PROVE  ExportInv' /\ ExportOutcome'
<1>1. pc' = "idle" /\ status' = s /\ cmd' = cmd /\ before' = before
  BY DEF Exit, Rest
<1>2. ExportInv'
  BY <1>1 DEF ExportInv
<1>3. New(cmd.dir)' <=> New(cmd.dir)
  BY <1>1 DEF New
<1>4. Whole(cmd.inpres.path)' <=> Whole(cmd.inpres.path)
  BY <1>1 DEF Whole, IsFile, Exists
<1>5. ExportOutcome'
  BY <1>1, <1>3, <1>4 DEF ExportOutcome, Ended
<1>6. QED
  BY <1>2, <1>5

\* A process that is killed or meets trouble.
LEMMA ExportTroubled ==
  ASSUME ~quiet', NEW s, Exit(s)
  PROVE  ExportInv' /\ ExportOutcome'
  BY DEF Exit, ExportInv, ExportOutcome

\* _open_pres_container for the exports.
LEMMA ExportOpens ==
  ASSUME IInv, ExportInv, cmd.kind \in {"exp", "expid"}, Open \/ OpenFails
  PROVE  ExportInv' /\ ExportOutcome'
<1> DEFINE q == cmd.inpres.path
<1>1. pc = "start" /\ fs = before /\ cmd \in Commands /\ cwd = Home
  BY DEF Open, OpenFails, ExportInv, IInv, PhaseInv, PlaceInv
<1>2. Resolve(cmd.inpres) = q /\ ~ForWriting
  BY <1>1, OldNamed, ResolveHome DEF ForWriting
<1>3. CASE OpenFails
  <2>1. CASE ~Openable /\ Fine
    <3>1. ~Whole(q)
      BY <1>2, <2>1 DEF Openable
    <3>2. QED
      BY <1>3, <2>1, <3>1, ExportStops DEF OpenFails, Fine
  <2>2. CASE Trouble("open")
    BY <1>3, <2>2, ExportTroubled DEF OpenFails, Trouble
  <2>3. QED
    BY <1>3, <2>1, <2>2 DEF OpenFails
<1>4. CASE Open
  <2>1. /\ pc' = cmd.kind /\ cmd' = cmd /\ before' = before /\ fs' = fs
        /\ old'.table = before[q].table
    BY <1>1, <1>2, <1>4 DEF Open, Handle, Goto, Rest
  <2>2. QED
    BY <1>1, <2>1 DEF ExportInv, ExportOutcome, Ended
<1>5. QED
  BY <1>3, <1>4

\* mkdir and chdir.
LEMMA ExportEnters ==
  ASSUME IInv, TreeInv, TableInv, ExportInv, cmd.kind \in {"exp", "expid"},
         ExportEnter \/ ExportRefused
  PROVE  ExportInv' /\ ExportOutcome'
<1>0. PICK d, t : d = cmd.dir /\ t = old.table
  OBVIOUS
<1>1. /\ pc \in {"exp", "expid"} /\ fs = before /\ cmd \in Commands
      /\ t = before[cmd.inpres.path].table
  BY <1>0 DEF ExportEnter, ExportRefused, ExportInv, IInv, PhaseInv, PlaceInv
<1>2. d \in Seq(STRING)
  BY <1>0, <1>1, KtoolAssumption
<1>3. New(d) => CanEnter /\ ~IsDir(d) /\ d # Home /\ d \notin DOMAIN fs
  BY <1>0, <1>1 DEF New, CanEnter, IsDir, Exists
<1>4. CASE ExportRefused
  <2>1. CASE IdIsWrong /\ Fine
    <3>1. cmd.kind = "expid" => cmd.id \notin DOMAIN t
      BY <1>0, <2>1 DEF IdIsWrong
    <3>2. QED
      BY <1>1, <1>4, <2>1, <3>1, ExportStops DEF ExportRefused, Fine
  <2>2. CASE ~CanEnter /\ Fine
    <3>1. ~New(cmd.dir)
      BY <1>0, <1>3, <2>2
    <3>2. QED
      BY <1>4, <2>2, <3>1, ExportStops DEF ExportRefused, Fine
  <2>3. CASE Trouble("chdir")
    BY <1>4, <2>3, ExportTroubled DEF ExportRefused, Trouble
  <2>4. QED
    BY <1>4, <2>1, <2>2, <2>3 DEF ExportRefused
<1>5. CASE ExportEnter
  <2>1. /\ pc' = "export" /\ UNCHANGED <<cmd, before, old, quiet>> /\ cwd' = d
        /\ i' = IF cmd.kind = "exp" THEN 1 ELSE cmd.id
        /\ ~IdIsWrong
    BY <1>0, <1>5 DEF ExportEnter, Entered, Goto, Rest, Fine
  <2>2. ExportOutcome'
    BY <2>1 DEF ExportOutcome, Ended
  <2>3. ASSUME New(d)
        PROVE  \A p \in DOMAIN fs' : ~Below(d, p)
    <3>1. fs' = With(d, Dir)
      BY <1>0, <1>3, <1>5, <2>3 DEF ExportEnter
    <3>2. \A p \in DOMAIN fs : ~Below(d, p)
      BY <1>2, <1>3, <2>3, NewIsEmpty DEF TreeInv
    <3>3. ~Below(d, d)
      BY DEF Below, IsStrictPrefix
    <3>4. QED
      BY <3>1, <3>2, <3>3 DEF With
  <2>4. ASSUME New(d), cmd.kind = "exp" PROVE AllMade(d, t)'
    <3>1. i' = 1 /\ pc' # "write"
      BY <2>1, <2>4
    <3>2. 1 \in 1..(Len(t) + 1) /\ 1..(1 - 1) = {}
      BY <1>0, TableFacts DEF TableInv
    <3>3. \A p \in DOMAIN fs' : ~Below(d, p)
      BY <2>3, <2>4
    <3>4. QED
      BY <2>1, <3>1, <3>2, <3>3 DEF AllMade
  <2>5. ASSUME New(d), cmd.kind = "expid" PROVE NoneMade(d, t)'
    <3>1. i' = cmd.id /\ cmd.id \in DOMAIN t
      BY <1>0, <2>1, <2>5 DEF IdIsWrong
    <3>2. QED
      BY <2>1, <2>3, <2>5, <3>1 DEF NoneMade
  <2>6. New(d)' <=> New(d)
    BY <2>1 DEF New
  <2>7. ExportInv'
    BY <1>0, <1>1, <2>1, <2>4, <2>5, <2>6 DEF ExportInv
  <2>8. QED
    BY <2>2, <2>7
<1>6. QED
  BY <1>4, <1>5

\* Where the property says nothing.
LEMMA ExportVacuous ==
  ASSUME quiet' /\ New(cmd.dir) => cmd.kind = "exp" /\ ~TreeLike(old.table),
         ExportInv, UNCHANGED <<cmd, before>>,
         cmd.kind \in {"exp", "expid"}, pc \in {"export", "write"},
         pc' = "idle" \/ (pc' \in {"export", "write"} /\ UNCHANGED old)
  PROVE  ExportInv' /\ ExportOutcome'
<1>1. New(cmd.dir)' <=> New(cmd.dir)
  BY DEF New
<1>2. ExportInv'
  BY <1>1 DEF ExportInv, TreeLike
<1>3. old.table = before[cmd.inpres.path].table
  BY DEF ExportInv
<1>4. ExportOutcome'
  BY <1>1, <1>3 DEF ExportOutcome, Ended, TreeLike
<1>5. QED
  BY <1>2, <1>4

\* The loop over the table, for one entry or all.
Loop == ExportDeleted \/ ExportMakesDirs \/ ExportStrays \/ ExportWrites \/ ExportFails \/ ExportEnds

\* How it goes on.
LEMMA LoopStep ==
  ASSUME Loop
  PROVE  /\ pc \in {"export", "write"} /\ UNCHANGED <<cmd, before>> /\ (quiet' => quiet)
         /\ pc' = "idle" \/ (pc' \in {"export", "write"} /\ UNCHANGED old)
<1>1. pc \in {"export", "write"} /\ (quiet' => quiet)
  BY DEF Loop, ExportDeleted, ExportMakesDirs, ExportStrays, ExportWrites, ExportFails, ExportEnds,
         Exporting, Fine, Trouble
<1>2. /\ UNCHANGED <<cmd, before>>
      /\ pc' = "idle" \/ (pc' \in {"export", "write"} /\ UNCHANGED old)
  BY DEF Loop, ExportDeleted, ExportMakesDirs, ExportStrays, ExportWrites, ExportFails, ExportEnds,
         After, GoOnAfter, Goto, Exit, Rest
<1>3. QED
  BY <1>1, <1>2

\* k_pres_export_id, for export_id.
LEMMA ExportOne ==
  ASSUME IInv, TreeInv, LoopInv, TableInv, ExportInv, cmd.kind = "expid", Loop
  PROVE  ExportInv' /\ ExportOutcome'
<1>0. PICK d, t : d = cmd.dir /\ t = old.table
  OBVIOUS
<1>1. /\ pc \in {"export", "write"} /\ UNCHANGED <<cmd, before>> /\ (quiet' => quiet)
      /\ pc' = "idle" \/ (pc' \in {"export", "write"} /\ UNCHANGED old)
  BY LoopStep
<1>2. t = before[cmd.inpres.path].table
  BY <1>0, <1>1 DEF ExportInv
<1> SUFFICES ASSUME quiet, New(d) PROVE ExportInv' /\ ExportOutcome'
  BY <1>0, <1>1, ExportVacuous
<1>3. NoneMade(d, t)
  BY <1>0, <1>1 DEF ExportInv
<1>4. cwd = d /\ i = cmd.id /\ i \in DOMAIN t /\ More /\ i \in 1..Len(t)
      /\ \A p \in DOMAIN fs : ~Below(d, p)
  BY <1>0, <1>3, TableFacts DEF NoneMade, More, TableInv
<1>5. CASE ExportEnds \/ ExportStrays
  BY <1>4, <1>5 DEF ExportEnds, ExportStrays
<1>6. CASE ExportDeleted
  <2>1. Exit("failed") /\ UNCHANGED <<fs, quiet>> /\ ~Live(t[cmd.id])
    BY <1>0, <1>4, <1>6 DEF ExportDeleted, After, Fine
  <2>2. QED
    BY <1>2, <2>1, ExportStops
<1>7. CASE ExportMakesDirs
  <2>1. pc' = "write" /\ UNCHANGED <<fs, cwd, i, old, quiet>>
    BY <1>7 DEF ExportMakesDirs, Goto, Fine
  <2>2. NoneMade(d, t)'
    BY <1>1, <1>4, <2>1 DEF NoneMade
  <2>3. ExportInv'
    BY <1>0, <1>1, <1>2, <2>1, <2>2 DEF ExportInv
  <2>4. ExportOutcome'
    BY <2>1 DEF ExportOutcome, Ended
  <2>5. QED
    BY <2>3, <2>4
<1>8. CASE ExportFails \/ ExportWrites
  <2> DEFINE e == t[i]  o == Append(d, Last(e.name))
  <2>1. pc = "write" /\ Live(e)
    BY <1>0, <1>8 DEF ExportFails, ExportWrites, LoopInv
  <2>2. e.name \in Seq(STRING) /\ e.name # <<>> /\ e.base = BasenameOffset(e.name)
    BY <1>0, <1>4, <2>1, LoopEntry
  <2>3. OutName = o
    BY <1>0, <1>4, <2>2, OutNameIs
  <2>4. d \in Seq(STRING) /\ IsDir(d) /\ Last(e.name) \in STRING
    BY <1>4, <2>2, BasenameIs DEF TreeInv
  <2>5. o # <<>> /\ Front(o) = d /\ Below(d, o)
    BY <2>4, AppendIs
  <2>6. CanCreate(o)
    BY <1>4, <2>4, <2>5 DEF CanCreate, Exists, Home
  <2>7. CASE ExportFails
    <3>1. CASE Trouble("write")
      BY <1>8, <2>7, <3>1, ExportTroubled DEF ExportFails, After, Trouble
    <3>2. CASE ~e.intact /\ Fine
      <4>1. Exit("failed") /\ UNCHANGED <<fs, quiet>> /\ ~t[cmd.id].intact
        BY <1>4, <2>7, <3>2 DEF ExportFails, After, Fine
      <4>2. QED
        BY <1>2, <4>1, ExportStops
    <3>3. QED
      BY <1>0, <2>3, <2>6, <2>7, <3>1, <3>2 DEF ExportFails
  <2>8. CASE ExportWrites
    <3>1. e.intact /\ Exit("ok") /\ fs' = With(o, Plain(e.data, "0400"))
      BY <1>0, <2>3, <2>8 DEF ExportWrites, After
    <3>2. pc' = "idle" /\ status' = "ok"
      BY <3>1 DEF Exit
    <3>3. Nodes(Append(d, Last(t[cmd.id].name)))' = {Plain(t[cmd.id].data, "0400")}
      <4>1. o \in DOMAIN fs' /\ fs'[o] = Plain(e.data, "0400")
        BY <3>1 DEF With
      <4>2. QED
        BY <1>1, <1>4, <4>1 DEF Nodes
    <3>4. cmd.id \in DOMAIN t /\ Live(t[cmd.id]) /\ t[cmd.id].intact
      BY <1>4, <2>1, <3>1
    <3>5. ExportInv'
      BY <3>2 DEF ExportInv
    <3>6. ExportOutcome'
      BY <1>0, <1>1, <1>2, <3>2, <3>3, <3>4 DEF ExportOutcome, Ended
    <3>7. QED
      BY <3>5, <3>6
  <2>9. QED
    BY <1>8, <2>7, <2>8
<1>9. QED
  BY <1>5, <1>6, <1>7, <1>8 DEF Loop

\* The entry the loop has come to, and its path.
LEMMA AllEntry ==
  ASSUME TreeInv, TableInv, LoopInv, NEW d, NEW t, t = old.table, AllMade(d, t),
         pc \in {"export", "write"}, More, Live(t[i]), cmd.kind = "exp"
  PROVE  /\ i \in 1..Len(t) /\ t[i].name \in Seq(STRING) /\ t[i].name # <<>>
         /\ d \in Seq(STRING) /\ cwd = d /\ OutName = d \o t[i].name
         /\ d \o t[i].name # Home /\ Below(d, d \o t[i].name)
<1>1. /\ i \in 1..Len(t) /\ t[i].name \in Seq(STRING) /\ t[i].name # <<>>
      /\ t[i].base = BasenameOffset(t[i].name)
  BY LoopEntry
<1>2. d \in Seq(STRING) /\ cwd = d
  BY DEF AllMade, TreeInv
<1>3. OutName = d \o t[i].name
  BY <1>1, <1>2, OutNameIs
<1>4. Below(d, d \o t[i].name)
  BY <1>1, <1>2, InOneDir
<1>5. d \o t[i].name # Home
  <2> DEFINE o == d \o t[i].name
  <2>1. o \in Seq(STRING) /\ d \in Seq(STRING)
    BY <1>1, <1>2, Concat
  <2>2. Len(d) < Len(o)
    BY <1>4, <2>1, StrictIs DEF Below
  <2> HIDE DEF o
  <2>3. Len(o) # 0
    BY <2>1, <2>2
  <2>4. QED
    BY <2>3 DEF o, Home
<1>6. QED
  BY <1>1, <1>2, <1>3, <1>4, <1>5

\* Files come, in their places, and none goes.
LEMMA AllNext ==
  ASSUME TableInv, NEW d, NEW t, NEW j, t = old.table, j = i, AllMade(d, t), UNCHANGED cwd,
         \A p \in DOMAIN fs : p \in DOMAIN fs' /\ fs'[p] = fs[p],
         \A p \in DOMAIN fs' \ DOMAIN fs :
           Below(d, p) => MadeDir(d, t, p)' \/ MadeFile(d, t, p)',
         \/ i' = i /\ pc' = "write" /\ IsDir(Front(d \o t[i].name))'
         \/ i' = i + 1 /\ i \in 1..Len(t) /\ pc' # "write" /\ (Sound(t[j]) => Exported(d, t, j)')
  PROVE  AllMade(d, t)'
<1>1. cwd' = d /\ Len(t) \in Nat /\ i \in 1..(Len(t) + 1)
  BY TableFacts DEF AllMade, TableInv
<1>2. i' \in 1..(Len(t) + 1) /\ 1..(i - 1) \subseteq 1..(i' - 1)
      /\ (i' = i => i' - 1 = i - 1) /\ (i' = i + 1 => \A k \in 1..(i' - 1) : k \in 1..(i - 1) \/ k = i)
  BY <1>1
<1>3. ASSUME NEW p \in DOMAIN fs', Below(d, p)
      PROVE  MadeDir(d, t, p)' \/ MadeFile(d, t, p)'
  <2>1. CASE p \in DOMAIN fs
    <3>1. MadeDir(d, t, p) \/ MadeFile(d, t, p)
      BY <1>3, <2>1 DEF AllMade
    <3>2. fs'[p] = fs[p]
      BY <2>1
    <3>3. QED
      BY <1>2, <3>1, <3>2 DEF MadeDir, MadeFile
  <2>2. QED
    BY <1>3, <2>1
<1>4. ASSUME NEW k \in 1..(i' - 1), Sound(t[k])
      PROVE  Exported(d, t, k)'
  <2>1. CASE k \in 1..(i - 1)
    <3>1. Exported(d, t, k)
      BY <1>4, <2>1 DEF AllMade
    <3>2. QED
      BY <3>1 DEF Exported
  <2>2. CASE k \notin 1..(i - 1)
    <3>1. i' = i + 1 /\ k = j
      BY <1>2, <2>2
    <3>2. ~(i' = i)
      BY <1>1, <3>1
    <3>3. QED
      BY <1>4, <3>1, <3>2
  <2>3. QED
    BY <2>1, <2>2
<1>5. pc' = "write" => i' = i /\ IsDir(Front(d \o t[i].name))'
  <2>1. i' # i + 1 \/ i' # i
    BY <1>1
  <2>2. QED
    BY <2>1
<1>6. pc' = "write" => IsDir(Front(d \o t[i].name))'
  BY <1>5
<1>7. QED
  BY <1>1, <1>2, <1>3, <1>4, <1>5 DEF AllMade

\* An entry that is deleted.
LEMMA AllDeleted ==
  ASSUME TreeInv, TableInv, LoopInv, NEW d, NEW t, t = old.table, AllMade(d, t),
         cmd.kind = "exp", ExportDeleted
  PROVE  AllMade(d, t)'
<1>1. /\ ~Live(t[i]) /\ More /\ UNCHANGED <<fs, cwd>> /\ i' = i + 1 /\ pc' = "export"
  BY DEF ExportDeleted, Exporting, After, GoOnAfter, Goto
<1>2. i \in 1..Len(t)
  <2>1. Len(t) \in Nat /\ i \in 1..(Len(t) + 1) /\ i <= Len(t)
    BY <1>1, TableFacts DEF AllMade, TableInv, More
  <2>2. QED
    BY <2>1
<1>3. PICK j : j = i
  OBVIOUS
<1>4. QED
  BY <1>1, <1>2, <1>3, AllNext DEF Sound

\* The directories of an entry are made.
LEMMA AllDirs ==
  ASSUME TreeInv, TableInv, LoopInv, NEW d, NEW t, t = old.table, AllMade(d, t),
         cmd.kind = "exp", ExportMakesDirs
  PROVE  AllMade(d, t)'
<1> DEFINE n == t[i].name  z == Len(n)
<1>1. /\ Live(t[i]) /\ More /\ pc = "export"
      /\ UNCHANGED <<cwd, i>> /\ pc' = "write"
      /\ \A k \in 1..(z - 1) : ~IsFile(Up(n, k))
      /\ fs' = DirsMade(n, z - 1)
  BY DEF ExportMakesDirs, Exporting, Goto
<1>2. i \in 1..Len(t) /\ n \in Seq(STRING) /\ n # <<>> /\ d \in Seq(STRING) /\ cwd = d
  BY <1>1, AllEntry
<1>3. z \in Nat /\ z # 0 /\ z = Len(n)
  BY <1>2
<1>4. IsTree(fs) /\ cwd \in Seq(STRING) /\ IsDir(cwd)
  BY DEF TreeInv
<1> HIDE DEF n, z
<1>5. z - 1 \in 0..Len(n) /\ z \in 0..Len(n) /\ z > 0 /\ z - 1 \in 0..(z - 1)
  BY <1>3
<1>6. \A j \in 0..(z - 1) : DirAfter(Up(n, j))
  BY <1>1, <1>2, <1>4, <1>5, DirsStep
<1>7. IsDir(Front(d \o n))'
  <2>1. Front(d \o n) = Up(n, z - 1)
    BY <1>2, <1>3, <1>4, <1>5, UpIs
  <2>2. DirAfter(Front(d \o n))
    BY <1>5, <1>6, <2>1
  <2>3. QED
    BY <1>1, <2>2 DEF DirAfter, IsDir, Exists, n
<1>8. \A p \in DOMAIN fs : p \in DOMAIN fs' /\ fs'[p] = fs[p]
  BY <1>1, DirsMadeFacts
<1>9. ASSUME NEW p \in DOMAIN fs' \ DOMAIN fs
      PROVE  MadeDir(d, t, p)'
  <2>1. fs'[p] = Dir /\ \E j \in 1..(z - 1) : p = Up(n, j)
    BY <1>1 DEF DirsMade
  <2>2. PICK j \in 1..(z - 1) : p = Up(n, j)
    BY <2>1
  <2>3. j \in 0..Len(n) /\ j < Len(n)
    BY <1>3
  <2>4. SubSeq(n, 1, j) \in Seq(STRING) /\ IsStrictPrefix(SubSeq(n, 1, j), n)
    BY <1>2, <1>4, <2>3, UpIs
  <2>5. IsStrictPrefix(d \o SubSeq(n, 1, j), d \o n)
    BY <1>2, <2>4, InOneDir
  <2>6. p = d \o SubSeq(n, 1, j)
    BY <1>2, <2>2 DEF Up
  <2>7. Live(t[i]) /\ IsStrictPrefix(p, d \o t[i].name)
    BY <1>1, <2>5, <2>6 DEF n
  <2>8. QED
    BY <1>2, <2>1, <2>7 DEF MadeDir
<1>10. QED
  BY <1>1, <1>7, <1>8, <1>9, AllNext DEF n

\* No directory of an entry is a file.
LEMMA AllStay ==
  ASSUME TreeInv, TableInv, LoopInv, NEW d, NEW t, t = old.table, AllMade(d, t), TreeLike(t),
         cmd.kind = "exp", ExportStrays
  PROVE  ~quiet'
<1> DEFINE n == t[i].name  z == Len(n)
<1>1. Live(t[i]) /\ More /\ pc = "export"
  BY DEF ExportStrays, Exporting
<1>2. i \in 1..Len(t) /\ n \in Seq(STRING) /\ n # <<>> /\ d \in Seq(STRING) /\ cwd = d
  BY <1>1, AllEntry
<1>3. PICK k \in 1..(z - 1) : IF IsFile(Up(n, k)) THEN Fine ELSE Trouble("chdir")
  BY DEF ExportStrays
<1>4. k \in 0..Len(n) /\ k < Len(n) /\ k > 0
  BY <1>2
<1> HIDE DEF n, z
<1> DEFINE u == SubSeq(n, 1, k)  p == d \o u
<1>5. u \in Seq(STRING) /\ u # <<>> /\ IsStrictPrefix(u, n)
  BY <1>2, <1>4, UpIs
<1>6. p = Up(n, k) /\ Below(d, p) /\ IsStrictPrefix(p, d \o n)
  BY <1>2, <1>5, InOneDir DEF Up
<1> HIDE DEF u, p
<1>7. ~IsFile(p)
  <2> SUFFICES ASSUME IsFile(p) PROVE FALSE
    OBVIOUS
  <2>1. p \in DOMAIN fs /\ fs[p] # Dir
    BY DEF IsFile, Exists
  <2>2. MadeFile(d, t, p)
    BY <1>6, <2>1 DEF AllMade, MadeDir
  <2>3. PICK j \in 1..(i - 1) : Live(t[j]) /\ p = d \o t[j].name
    BY <2>2 DEF MadeFile, Sound
  <2>4. j \in 1..Len(t)
    BY <1>2, <2>3, TableFacts DEF TableInv
  <2>5. ~IsStrictPrefix(d \o t[j].name, d \o t[i].name)
    BY <1>1, <1>2, <2>3, <2>4, NoClash DEF TableInv
  <2>6. QED
    BY <1>6, <2>3, <2>5 DEF n
<1>8. QED
  BY <1>3, <1>6, <1>7 DEF Trouble

\* An entry is written, or cannot be.
LEMMA AllWrites ==
  ASSUME TreeInv, TableInv, LoopInv, NEW d, NEW t, t = old.table, AllMade(d, t), TreeLike(t),
         cmd.kind = "exp", quiet', ExportWrites \/ ExportFails
  PROVE  AllMade(d, t)'
<1>0. PICK j : j = i
  OBVIOUS
<1> DEFINE n == t[j].name  o == d \o n
<1>1. pc = "write" /\ i <= Len(t) /\ Live(t[i])
  BY DEF ExportWrites, ExportFails, LoopInv
<1>2. /\ i \in 1..Len(t) /\ n \in Seq(STRING) /\ d \in Seq(STRING) /\ cwd = d /\ OutName = o
      /\ o # Home /\ Below(d, o)
  BY <1>0, <1>1, AllEntry DEF More
<1>3. i' = i + 1 /\ pc' = "export" /\ UNCHANGED cwd
  BY DEF ExportWrites, ExportFails, After, GoOnAfter, Goto
<1>4. i - 1 \in Nat /\ i \in 1..((i + 1) - 1)
  BY <1>2, TableFacts DEF TableInv
<1>5. CASE ExportWrites
  <2>1. CanCreate(o) /\ t[j].intact /\ fs' = With(o, Plain(t[j].data, "0400"))
    BY <1>0, <1>2, <1>5 DEF ExportWrites
  <2>2. o \notin DOMAIN fs
    <3>1. SUFFICES ASSUME o \in DOMAIN fs PROVE FALSE
      OBVIOUS
    <3>2. MadeDir(d, t, o) \/ MadeFile(d, t, o)
      BY <1>2, <3>1 DEF AllMade
    <3>3. fs[o] # Dir /\ (fs[o].kind = "plain" => fs[o].mode # "0400")
      BY <2>1, <3>1 DEF CanCreate, IsFile, Exists
    <3>4. \A x : fs[o] # Plain(x, "0400")
      BY <3>3 DEF Plain
    <3>5. QED
      BY <3>2, <3>3, <3>4 DEF MadeDir, MadeFile
  <2>3. DOMAIN fs' = DOMAIN fs \cup {o} /\ fs'[o] = Plain(t[j].data, "0400")
        /\ \A p \in DOMAIN fs : fs'[p] = fs[p]
    BY <2>1, <2>2 DEF With
  <2>4. \A p \in DOMAIN fs' \ DOMAIN fs : MadeFile(d, t, p)'
    BY <1>0, <1>1, <1>3, <1>4, <2>1, <2>3 DEF MadeFile, Sound
  <2>5. Exported(d, t, j)'
    BY <2>3 DEF Exported
  <2>6. i' = i + 1 /\ i \in 1..Len(t) /\ pc' # "write" /\ (Sound(t[j]) => Exported(d, t, j)')
    BY <1>2, <1>3, <2>5
  <2>7. \A p \in DOMAIN fs : p \in DOMAIN fs' /\ fs'[p] = fs[p]
    BY <2>3
  <2>8. QED
    BY <1>0, <1>3, <2>4, <2>6, <2>7, AllNext
<1>6. CASE ExportFails
  <2>1. UNCHANGED fs /\ (CanCreate(o) => ~t[j].intact)
    BY <1>0, <1>2, <1>6 DEF ExportFails, Trouble
  <2>2. ASSUME Sound(t[j]) PROVE Exported(d, t, j)'
    <3>1. IsDir(Front(o)) /\ ~CanCreate(o)
      BY <1>0, <1>1, <2>1, <2>2 DEF AllMade, Sound
    <3>2. o \in DOMAIN fs
      BY <1>2, <3>1 DEF CanCreate, Exists
    <3>3. ~MadeDir(d, t, o)
      <4> SUFFICES ASSUME MadeDir(d, t, o) PROVE FALSE
        OBVIOUS
      <4>1. PICK k \in 1..Len(t) : Live(t[k]) /\ IsStrictPrefix(o, d \o t[k].name)
        BY DEF MadeDir
      <4>2. ~IsStrictPrefix(d \o t[j].name, d \o t[k].name)
        BY <1>0, <1>1, <1>2, <4>1, NoClash DEF TableInv
      <4>3. QED
        BY <4>1, <4>2
    <3>4. PICK k \in 1..(i - 1) : Sound(t[k]) /\ o = d \o t[k].name
      BY <1>2, <3>2, <3>3 DEF AllMade, MadeFile
    <3>5. k \in 1..Len(t)
      BY <1>2, <3>4, TableFacts DEF TableInv
    <3>6. t[k].name \in Seq(STRING)
      BY <3>4, <3>5, LiveEntry DEF TableInv, Sound
    <3>7. t[k].name = n
      BY <1>2, <3>4, <3>6, InOneDir
    <3>8. ~First(t, j)
      BY <1>0, <3>4, <3>7 DEF First, Sound
    <3>9. QED
      BY <2>1, <3>2, <3>8 DEF Exported
  <2>3. i' = i + 1 /\ i \in 1..Len(t) /\ pc' # "write" /\ (Sound(t[j]) => Exported(d, t, j)')
    BY <1>2, <1>3, <2>2
  <2>4. QED
    BY <1>0, <1>3, <2>1, <2>3, AllNext
<1>7. QED
  BY <1>5, <1>6

\* export_all
LEMMA ExportAll ==
  ASSUME IInv, TreeInv, LoopInv, TableInv, ExportInv, cmd.kind = "exp", Loop
  PROVE  ExportInv' /\ ExportOutcome'
<1>0. PICK d, t : d = cmd.dir /\ t = old.table
  OBVIOUS
<1>1. /\ pc \in {"export", "write"} /\ UNCHANGED <<cmd, before>> /\ (quiet' => quiet)
      /\ pc' = "idle" \/ (pc' \in {"export", "write"} /\ UNCHANGED old)
  BY LoopStep
<1>2. t = before[cmd.inpres.path].table
  BY <1>0, <1>1 DEF ExportInv
<1> SUFFICES ASSUME quiet', New(d), TreeLike(t) PROVE ExportInv' /\ ExportOutcome'
  BY <1>0, <1>1, ExportVacuous
<1>3. AllMade(d, t)
  BY <1>0, <1>1 DEF ExportInv
<1>4. CASE ExportEnds
  <2>1. ~More /\ pc' = "idle" /\ UNCHANGED fs
    BY <1>4 DEF ExportEnds, Exit
  <2>2. Len(t) \in Nat /\ i \in 1..(Len(t) + 1) /\ ~(i <= Len(t)) /\ DOMAIN t = 1..Len(t)
    BY <1>0, <1>3, <2>1, TableFacts DEF AllMade, TableInv, More
  <2>3. i - 1 = Len(t)
    BY <2>2
  <2>4. ASSUME NEW k \in DOMAIN t, Sound(t[k]), First(t, k)
        PROVE  Nodes(d \o t[k].name)' = {Plain(t[k].data, "0400")}
    <3>1. Exported(d, t, k)
      BY <1>3, <2>2, <2>3, <2>4 DEF AllMade
    <3>2. QED
      BY <2>1, <2>4, <3>1 DEF Exported, Nodes
  <2>5. ExportInv'
    BY <2>1 DEF ExportInv
  <2>6. ExportOutcome'
    BY <1>0, <1>1, <1>2, <2>1, <2>4 DEF ExportOutcome, Ended, Sound, First
  <2>7. QED
    BY <2>5, <2>6
<1>5. CASE ~ExportEnds
  <2>1. ~ExportStrays
    BY <1>0, <1>3, AllStay
  <2>2. AllMade(d, t)'
    BY <1>0, <1>3, <1>5, <2>1, AllDeleted, AllDirs, AllWrites DEF Loop
  <2>3. pc' \in {"export", "write"} /\ UNCHANGED old
    BY <1>1, <1>5, <2>1
       DEF Loop, ExportDeleted, ExportMakesDirs, ExportWrites, ExportFails, After, GoOnAfter, Goto
  <2>4. ExportInv'
    BY <1>0, <1>1, <1>2, <2>2, <2>3 DEF ExportInv
  <2>5. ExportOutcome'
    BY <1>1, <2>3 DEF ExportOutcome, Ended
  <2>6. QED
    BY <2>4, <2>5
<1>6. QED
  BY <1>4, <1>5

\* Every step of an export keeps what it has made.
LEMMA NextExport ==
  IInv /\ TreeInv /\ LoopInv /\ TableInv /\ ExportInv /\ ExportOutcome /\ [Next]_vars
    => ExportInv' /\ ExportOutcome'
<1> SUFFICES ASSUME IInv, TreeInv, LoopInv, TableInv, ExportInv, ExportOutcome, [Next]_vars
             PROVE  ExportInv' /\ ExportOutcome'
  OBVIOUS
<1>1. CASE UNCHANGED vars
  <2>1. UNCHANGED <<fs, cwd, pc, cmd, old, i, status, before, quiet>>
    BY <1>1 DEF vars
  <2>2. ExportInv'
    BY <2>1 DEF ExportInv, New, TreeLike, AllMade, NoneMade, MadeDir, MadeFile, Exported, IsDir, Exists
  <2>3. ExportOutcome'
    BY <2>1 DEF ExportOutcome, New, TreeLike, Ended, Nodes, Whole, IsFile, Exists
  <2>4. QED
    BY <2>2, <2>3
<1>2. CASE \E c \in Commands : Start(c)
  BY <1>2, ExportStarts
<1>3. CASE Step \/ Kill
  <2>1. pc # "idle" /\ cmd' = cmd
    BY <1>3 DEF Step, Open, OpenFails, Import, ImportCreate, Created, CreateFails, ImportEnter,
       Visit, VisitSkips, VisitAdds, VisitFails, WalkEnds, ImportBack, Publish, PublishFails, Unlink,
       Change, AddSkips, AddAppends, AddCommits, AddFails, DeleteRefused, Delete, CloseWrites,
       CloseEnds, CloseRemoves, CloseFails, Repack, RepackCreate, CopySkips, Copy, CopyFails,
       CopyEnds, Export, ExportEnter, ExportRefused, ExportDeleted, ExportMakesDirs, ExportStrays,
       ExportWrites, ExportFails, ExportEnds, After, GoOnAfter, Exporting, List, Kill, Exit, Goto, Rest
  <2>2. CASE cmd.kind \notin {"exp", "expid"}
    BY <2>1, <2>2, NoExport
  <2>3. CASE cmd.kind \in {"exp", "expid"}
    <3>1. pc \in {"start", "exp", "expid", "export", "write"}
      BY <2>1, <2>3 DEF ExportInv
    <3>2. Open \/ OpenFails \/ ExportEnter \/ ExportRefused \/ Loop \/ Kill
      BY <1>3, <2>3, <3>1
         DEF Step, Import, ImportCreate, ImportEnter, Visit, VisitSkips, VisitAdds, VisitFails,
         WalkEnds, ImportBack, Publish, PublishFails, Unlink, Change, AddSkips, AddAppends,
         AddCommits, AddFails, DeleteRefused, Delete, CloseWrites, CloseEnds, CloseRemoves,
         CloseFails, Repack, RepackCreate, CopySkips, Copy, CopyFails, CopyEnds, Export, List, Loop
    <3>3. CASE Kill
      BY <3>3, ExportTroubled DEF Kill
    <3>4. QED
      BY <2>3, <3>2, <3>3, ExportOpens, ExportEnters, ExportOne, ExportAll
  <2>4. QED
    BY <2>2, <2>3
<1>4. QED
  BY <1>1, <1>2, <1>3 DEF Next

\* At first there is no export.
LEMMA InitExport == Init => ExportInv /\ ExportOutcome
  BY DEF Init, Idle, ExportInv, ExportOutcome

-----------------------------------------------------------------------------
(* Imports *)

\* The backup of a name within a directory is within it, too.
LEMMA MetaInDir ==
  ASSUME NEW d \in Seq(STRING), NEW p, IsName(p)
  PROVE  /\ IsName(d \o p) /\ MetaBeside(d \o p) = d \o MetaBeside(p)
         /\ Front(d \o p) = d \o Front(p)
<1> DEFINE l == Len(d)  m == Len(p)  q == d \o p  f == Front(p)  x == MetaName[Last(p)]
<1>1. p \in Seq(STRING) /\ m \in Nat /\ m # 0 /\ l \in Nat
  BY DEF IsName
<1>2. /\ q \in Seq(STRING) /\ Len(q) = l + m /\ (\A k \in 1..l : q[k] = d[k])
      /\ \A k \in 1..m : q[l + k] = p[k]
  BY <1>1, Concat
<1>3. f \in Seq(STRING) /\ Len(f) = m - 1 /\ \A k \in 1..(m - 1) : f[k] = p[k]
  BY <1>1, FrontIs DEF IsName
<1>4. Last(p) = p[m] /\ Last(q) = q[Len(q)] /\ x \in STRING
  BY KtoolAssumption DEF Last, IsName
<1>5. Len(d) = l /\ Len(p) = m
  OBVIOUS
<1> HIDE DEF l, m, q, f, x
<1>6. Last(q) = Last(p)
  <2>1. m \in 1..m
    BY <1>1
  <2>2. QED
    BY <1>2, <1>4, <2>1
<1>7. q # <<>>
  <2>1. Len(q) # 0
    BY <1>1, <1>2
  <2>2. QED
    BY <2>1
<1> DEFINE g == d \o f
<1>8. /\ g \in Seq(STRING) /\ Len(g) = l + (m - 1) /\ (\A k \in 1..l : g[k] = d[k])
      /\ \A k \in 1..(m - 1) : g[l + k] = f[k]
  <2>1. /\ g \in Seq(STRING) /\ Len(g) = Len(d) + Len(f) /\ (\A k \in 1..Len(d) : g[k] = d[k])
        /\ \A k \in 1..Len(f) : g[Len(d) + k] = f[k]
    BY <1>3, Concat
  <2>2. QED
    BY <1>3, <1>5, <2>1
<1> HIDE DEF g
<1>9. Front(q) = g
  <2>1. Len(q) = Len(g) + 1
    BY <1>1, <1>2, <1>8
  <2>2. ASSUME NEW k \in 1..Len(g) PROVE g[k] = q[k]
    <3>1. CASE k \in 1..l
      BY <1>2, <1>8, <3>1
    <3>2. CASE k \notin 1..l
      <4>1. k - l \in 1..(m - 1) /\ k - l \in 1..m /\ l + (k - l) = k
        BY <1>1, <1>8, <3>2
      <4>2. g[k] = p[k - l]
        BY <1>3, <1>8, <4>1
      <4>3. q[k] = p[k - l]
        BY <1>2, <4>1
      <4>4. QED
        BY <4>2, <4>3
    <3>3. QED
      BY <3>1, <3>2
  <2>3. QED
    BY <1>2, <1>8, <2>1, <2>2, FrontSame
<1>10. MetaBeside(q) = d \o Append(f, x)
  <2>1. MetaBeside(q) = Append(g, x)
    BY <1>6, <1>9 DEF MetaBeside, x
  <2>2. Append(f, x) = f \o <<x>> /\ Append(g, x) = g \o <<x>>
    BY <1>3, <1>4, <1>8, AppendIs
  <2>5. <<x>> \in Seq(STRING)
    BY <1>4, OneMore
  <2>3. (d \o f) \o <<x>> = d \o (f \o <<x>>)
    BY <1>3, <2>5, ConcatAssociative
  <2>4. QED
    BY <2>1, <2>2, <2>3 DEF g
<1>11. MetaBeside(q) = d \o MetaBeside(p)
  BY <1>10 DEF MetaBeside, f, x
<1>12. QED
  BY <1>2, <1>6, <1>7, <1>9, <1>11 DEF IsName, q, g, f

\* The backups of what is imported into are other files than that.
LEMMA NoBackup ==
  ASSUME cmd \in Commands, cmd.kind = "imp"
  PROVE  cmd.outpres.path \notin Backups
<1> DEFINE p == cmd.outpres.path  d == cmd.dir
<1>1. cmd.outpres \in Containers /\ d \in Seq(STRING)
  BY NewNamed, KtoolAssumption
<1>2. p \in Seq(STRING) /\ p # <<>> /\ IsName(p)
  BY <1>1, Named DEF IsName
<1>3. Beside # p
  BY <1>1, OtherThanMeta DEF Beside
<1>4. d \o Beside # p
  <2>1. CASE d = <<>>
    <3>1. Beside \in Seq(STRING)
      BY <1>2, BackupPath DEF Beside
    <3>2. d \o Beside = Beside
      BY <2>1, <3>1
    <3>3. QED
      BY <1>3, <3>2
  <2>2. CASE d # <<>>
    <3> DEFINE q == d \o p  m == d \o Beside
    <3>1. IsName(q) /\ m = MetaBeside(q) /\ Front(q) = d \o Front(p)
      BY <1>1, <1>2, MetaInDir DEF Beside
    <3>2. m \in Seq(STRING) /\ m # <<>> /\ Front(m) = Front(q)
      BY <3>1, BackupPath DEF Home
    <3>3. Len(m) - 1 = Len(d) + (Len(p) - 1) /\ Len(d) # 0
      <4>1. Len(Front(m)) = Len(m) - 1 /\ Front(p) \in Seq(STRING) /\ Len(Front(p)) = Len(p) - 1
        BY <1>2, <3>2, FrontIs
      <4>2. Len(d \o Front(p)) = Len(d) + Len(Front(p))
        BY <1>1, <4>1, Concat
      <4>3. Len(d) # 0
        BY <1>1, <2>2
      <4>4. QED
        BY <3>1, <3>2, <4>1, <4>2, <4>3
    <3>4. Len(m) \in Nat /\ Len(d) \in Nat /\ Len(p) \in Nat
      BY <1>1, <1>2, <3>2
    <3> DEFINE x == Len(m)  y == Len(d)  z == Len(p)
    <3>5. x - 1 = y + (z - 1) /\ y # 0 /\ x \in Nat /\ y \in Nat /\ z \in Nat
      BY <3>3, <3>4
    <3> HIDE DEF x, y, z
    <3>6. x # z
      BY <3>5
    <3>7. m # p
      BY <3>6 DEF x, z
    <3>8. QED
      BY <3>7
  <2>3. QED
    BY <2>1, <2>2
<1>5. QED
  BY <1>3, <1>4 DEF Backups

\* Where the backup is written during a walk.
LEMMA WalkBackup ==
  ASSUME cmd \in Commands, cmd.kind = "imp", cwd = cmd.dir
  PROVE  /\ cmd.outpres.abs => ResolveMeta(cmd.outpres) = Beside
         /\ ~cmd.outpres.abs => ResolveMeta(cmd.outpres) = cmd.dir \o Beside
         /\ ResolveMeta(cmd.outpres) \in Backups
<1> DEFINE c == cmd.outpres  p == c.path
<1>1. c \in Containers /\ cmd.dir \in Seq(STRING) /\ IsName(p)
  BY NewNamed, Named, KtoolAssumption DEF IsName
<1>2. c.abs => ResolveMeta(c) = Beside
  BY DEF ResolveMeta, Resolve, Beside
<1>3. ~c.abs => ResolveMeta(c) = cmd.dir \o Beside
  <2>1. ~c.abs => ResolveMeta(c) = MetaBeside(cmd.dir \o p)
    BY DEF ResolveMeta, Resolve
  <2>2. QED
    BY <1>1, <2>1, MetaInDir DEF Beside
<1>4. QED
  BY <1>2, <1>3 DEF Backups

\* Hidden files are those of which a component below the directory is.
LEMMA HiddenIs ==
  ASSUME NEW d \in Seq(STRING), NEW q \in Seq(STRING), Below(d, q)
  PROVE  ~Hidden(Rel(d, q)) <=> \A k \in (Len(d) + 1)..Len(q) : q[k] \notin HiddenNames
<1> DEFINE r == Rel(d, q)  l == Len(d)  m == Len(q)
<1>1. r \in Seq(STRING) /\ d \o r = q
  BY RelIs
<1>2. l \in Nat /\ m = l + Len(r) /\ \A k \in 1..Len(r) : q[l + k] = r[k]
  BY <1>1, Concat
<1>3. DOMAIN r = 1..Len(r) /\ Len(r) \in Nat
  BY <1>1
<1> HIDE DEF r, l, m
<1>4. ASSUME Hidden(r) PROVE \E k \in (l + 1)..m : q[k] \in HiddenNames
  <2>1. PICK k \in 1..Len(r) : r[k] \in HiddenNames
    BY <1>3, <1>4 DEF Hidden
  <2>2. l + k \in (l + 1)..m
    BY <1>2, <1>3
  <2>3. QED
    BY <1>2, <2>1, <2>2
<1>5. ASSUME NEW k \in (l + 1)..m, q[k] \in HiddenNames PROVE Hidden(r)
  <2>1. k - l \in 1..Len(r) /\ l + (k - l) = k
    BY <1>2, <1>3
  <2>2. r[k - l] \in HiddenNames
    BY <1>2, <1>5, <2>1
  <2>3. QED
    BY <1>3, <2>1, <2>2 DEF Hidden
<1>6. QED
  BY <1>4, <1>5 DEF r, l, m

\* A table in which no name occurs twice has as many names as entries.
LEMMA NamesCount ==
  ASSUME NEW t, IsTable(t),
         \A j, k \in 1..Len(t) : t[j].name = t[k].name => j = k
  PROVE  Cardinality({e.name : e \in ToSet(t)}) = Len(t)
<1> DEFINE n == Len(t)  S == {e.name : e \in ToSet(t)}  f == [k \in 1..n |-> t[k].name]
<1>1. n \in Nat /\ DOMAIN t = 1..n
  BY TableFacts
<1>2. S = {t[k].name : k \in 1..n}
  BY <1>1 DEF ToSet
<1>3. f \in [1..n -> S] /\ (\A x \in S : \E k \in 1..n : f[k] = x)
  BY <1>2
<1>4. IsInjective(f)
  BY DEF IsInjective
<1>5. f \in Bijection(1..n, S)
  BY <1>3, <1>4 DEF Bijection, Injection, Surjection
<1>6. ExistsBijection(1..n, S)
  BY <1>5 DEF ExistsBijection
<1> HIDE DEF n, S
<1>7. Cardinality(S) = n
  BY <1>1, <1>6, FS_CountingElements
<1>8. QED
  BY <1>7 DEF n, S

\* What a walk of directory d delivers and the import does not leave out.
Found(d, q) == q \in Seq(STRING) /\ Below(d, q) /\ ~Hidden(Rel(d, q))

\* Entry e is of file q: as the command found it, or the backup in its place.
EntryOf(d, q, e) ==
  /\ e.name = Rel(d, q)
  /\ \/ q \in DOMAIN before /\ before[q] # Dir /\ e.data = Content(before[q])
     \/ q \in Backups /\ e.data = "meta"

\* Table t holds files S, each once, except those of the names M.
Holds(d, t, S, M) ==
  /\ \A q \in S : Found(d, q)
  /\ \A j, k \in 1..Len(t) : t[j].name = t[k].name => j = k
  /\ \A k \in 1..Len(t) : \E q \in S : EntryOf(d, q, t[k])
  /\ \A q \in S : Rel(d, q) \in M \/ \E k \in 1..Len(t) : EntryOf(d, q, t[k])

\* The files are those the command found, but for its backups.
FilesKept ==
  /\ DOMAIN before \subseteq DOMAIN fs
  /\ \A q \in DOMAIN fs : \/ q \in DOMAIN before /\ fs[q] = before[q]
                          \/ q \in Backups /\ fs[q] = Meta

\* What the container is to hold in the end.
Imported(t) ==
  /\ Cardinality({e.name : e \in ToSet(t)}) = Len(t)
  /\ Stored(t) \subseteq Expected(cmd.dir) \cup OwnMeta
  /\ \A e \in Expected(cmd.dir) :
       \/ e \in Stored(t)
       \/ e.name \in missed
       \/ \E o \in OwnMeta \cap Stored(t) : o.name = e.name

\* Nothing makes a walk skip files.
Clear == cmd.outpres.abs \/ (Len(cmd.outpres.path) = 1 /\ ~Blocked)

ImportInv ==
  /\ cmd.kind # "imp" \/ pc \in {"idle", "start", "enter"} => seen = {}
  /\ pc # "idle" /\ cmd.kind = "imp" =>
       LET p == cmd.outpres.path IN
       /\ pc \in {"start", "enter", "walk", "publish", "unlink", "back"}
       /\ IsTree(before)
       /\ pc = "start" => fs = before
       /\ pc \in {"enter", "walk", "publish"} => FilesKept
       /\ pc \in {"enter", "walk", "publish", "unlink"} => Nodes(Beside) = {Meta}
       /\ pc = "enter" => new.table = <<>>
       /\ pc = "walk" => Holds(cmd.dir, new.table, seen, missed)
       /\ pc \in {"publish", "unlink", "back"} => Imported(new.table)
       /\ pc \in {"unlink", "back"} => Nodes(p) = {Container(new.table)}
       /\ pc = "back" /\ cmd.outpres.abs => Beside \notin DOMAIN fs
       /\ quiet /\ Clear => missed = {}

\* Where a file came from is told by its name in the container.
LEMMA RelTells ==
  ASSUME NEW d \in Seq(STRING), NEW q, NEW r, Found(d, q), Found(d, r), Rel(d, q) = Rel(d, r)
  PROVE  q = r
<1>1. d \o Rel(d, q) = q /\ d \o Rel(d, r) = r
  BY RelIs DEF Found
<1>2. QED
  BY <1>1

\* A table before and behind one more entry.
LEMMA TableGrows ==
  ASSUME NEW t, IsTable(t), NEW e, IsEntry(e)
  PROVE  /\ Len(Append(t, e)) = Len(t) + 1 /\ Len(t) \in Nat
         /\ \A k \in 1..Len(t) : Append(t, e)[k] = t[k]
         /\ Append(t, e)[Len(t) + 1] = e
<1>1. PICK n \in Nat : t = [k \in 1..n |-> t[k]]
  BY DEF IsTable
<1> DEFINE S == {t[k] : k \in 1..n} \cup {e}
<1>2. t \in Seq(S) /\ e \in S
  BY <1>1
<1> HIDE DEF S
<1>3. QED
  BY <1>2

\* A file is added to what the container holds.
LEMMA HoldsMore ==
  ASSUME NEW d \in Seq(STRING), NEW t, IsTable(t), NEW S, NEW M, Holds(d, t, S, M),
         NEW q, q \notin S, Found(d, q), NEW e, IsEntry(e), EntryOf(d, q, e)
  PROVE  Holds(d, Append(t, e), S \cup {q}, M)
<1> DEFINE u == Append(t, e)  n == Len(t)
<1>1. /\ Len(u) = n + 1 /\ n \in Nat /\ (\A k \in 1..n : u[k] = t[k]) /\ u[n + 1] = e
  BY TableGrows
<1>0. Len(t) = n
  OBVIOUS
<1> HIDE DEF u, n
<1>2. \A k \in 1..Len(u) : (k \in 1..n /\ u[k] = t[k]) \/ (k = n + 1 /\ u[k] = e)
  <2>1. \A k \in 1..Len(u) : k \in 1..n \/ k = n + 1
    BY <1>1
  <2>2. QED
    BY <1>1, <2>1
<1>3. ASSUME NEW k \in 1..n PROVE t[k].name # e.name
  <2>1. PICK r \in S : EntryOf(d, r, t[k])
    BY <1>0, <1>3 DEF Holds
  <2>2. Found(d, r) /\ r # q
    BY <2>1 DEF Holds
  <2>3. t[k].name = Rel(d, r) /\ e.name = Rel(d, q)
    BY <2>1 DEF EntryOf
  <2>4. QED
    BY <2>2, <2>3, RelTells
<1>4. \A j, k \in 1..Len(u) : u[j].name = u[k].name => j = k
  <2> SUFFICES ASSUME NEW j \in 1..Len(u), NEW k \in 1..Len(u), u[j].name = u[k].name PROVE j = k
    OBVIOUS
  <2>1. CASE j \in 1..n /\ k \in 1..n
    BY <1>0, <1>1, <2>1 DEF Holds
  <2>2. CASE ~(j \in 1..n /\ k \in 1..n)
    BY <1>1, <1>2, <1>3, <2>2
  <2>3. QED
    BY <2>1, <2>2
<1>5. \A k \in 1..Len(u) : \E r \in S \cup {q} : EntryOf(d, r, u[k])
  <2> SUFFICES ASSUME NEW k \in 1..Len(u) PROVE \E r \in S \cup {q} : EntryOf(d, r, u[k])
    OBVIOUS
  <2>1. CASE k \in 1..n /\ u[k] = t[k]
    BY <1>0, <2>1 DEF Holds
  <2>2. CASE u[k] = e
    BY <2>2
  <2>3. QED
    BY <1>2, <2>1, <2>2
<1>6. ASSUME NEW r \in S \cup {q}
      PROVE  Rel(d, r) \in M \/ \E k \in 1..Len(u) : EntryOf(d, r, u[k])
  <2>1. n + 1 \in 1..Len(u) /\ \A k \in 1..n : k \in 1..Len(u)
    BY <1>1
  <2>2. CASE r = q
    BY <1>1, <2>1, <2>2
  <2>3. CASE r \in S
    <3>1. Rel(d, r) \in M \/ \E k \in 1..n : EntryOf(d, r, t[k])
      BY <1>0, <2>3 DEF Holds
    <3>2. \A k \in 1..n : u[k] = t[k]
      BY <1>1
    <3>3. QED
      BY <2>1, <3>1, <3>2
  <2>4. QED
    BY <2>2, <2>3
<1>7. \A r \in S \cup {q} : Found(d, r)
  BY DEF Holds
<1>8. QED
  BY <1>4, <1>5, <1>6, <1>7 DEF Holds, u

\* What a file is called in Expected.
LEMMA ExpectedIs ==
  ASSUME IsTree(before), NEW d \in Seq(STRING), NEW q
  PROVE  q \in DOMAIN before /\ before[q] # Dir /\ Found(d, q)
           <=> /\ q \in FilesBelow(before, d)
               /\ \A k \in (Len(d) + 1)..Len(q) : q[k] \notin HiddenNames
<1>1. q \in DOMAIN before => q \in Seq(STRING)
  BY DEF IsTree
<1>2. CASE q \in Seq(STRING) /\ Below(d, q)
  BY <1>2, HiddenIs DEF Found, FilesBelow
<1>3. CASE ~(q \in Seq(STRING) /\ Below(d, q))
  BY <1>1, <1>3 DEF Found, FilesBelow
<1>4. QED
  BY <1>2, <1>3

\* When all files are seen the container holds what it should.
LEMMA HoldsAll ==
  ASSUME IsTree(before), cmd.dir \in Seq(STRING), NEW t, IsTable(t), NEW S,
         Holds(cmd.dir, t, S, missed),
         \A q \in FilesBelow(before, cmd.dir) : Found(cmd.dir, q) => q \in S
  PROVE  Imported(t)
<1> DEFINE d == cmd.dir
<1>1. Cardinality({e.name : e \in ToSet(t)}) = Len(t)
  BY NamesCount DEF Holds
<1>2. ToSet(t) = {t[k] : k \in 1..Len(t)}
  BY TableFacts DEF ToSet
<1>3. \A k \in 1..Len(t) : [name |-> t[k].name, data |-> t[k].data] \in Stored(t)
  BY <1>2 DEF Stored
<1>4. ASSUME NEW x \in Stored(t) PROVE x \in Expected(d) \cup OwnMeta
  <2>1. PICK k \in 1..Len(t) : x = [name |-> t[k].name, data |-> t[k].data]
    BY <1>2, <1>4 DEF Stored
  <2>2. PICK q \in S : EntryOf(d, q, t[k])
    BY DEF Holds
  <2>3. Found(d, q)
    BY DEF Holds
  <2>4. CASE q \in DOMAIN before /\ before[q] # Dir /\ t[k].data = Content(before[q])
    <3>1. q \in FilesBelow(before, d) /\ \A j \in (Len(d) + 1)..Len(q) : q[j] \notin HiddenNames
      BY <2>3, <2>4, ExpectedIs
    <3>2. x = [name |-> Rel(d, q), data |-> Content(before[q])]
      BY <2>1, <2>2, <2>4 DEF EntryOf
    <3>3. QED
      BY <3>1, <3>2 DEF Expected
  <2>5. CASE q \in Backups /\ t[k].data = "meta"
    <3>1. x = [name |-> Rel(d, q), data |-> "meta"]
      BY <2>1, <2>2, <2>5 DEF EntryOf
    <3>2. QED
      BY <2>3, <2>5, <3>1 DEF OwnMeta, Found
  <2>6. QED
    BY <2>2, <2>4, <2>5 DEF EntryOf
<1>5. ASSUME NEW x \in Expected(d)
      PROVE  \/ x \in Stored(t)
             \/ x.name \in missed
             \/ \E o \in OwnMeta \cap Stored(t) : o.name = x.name
  <2>1. PICK q \in FilesBelow(before, d) :
          /\ \A k \in (Len(d) + 1)..Len(q) : q[k] \notin HiddenNames
          /\ x = [name |-> Rel(d, q), data |-> Content(before[q])]
    BY <1>5 DEF Expected
  <2>2. Found(d, q)
    BY <2>1, ExpectedIs
  <2>3. q \in S
    BY <2>1, <2>2
  <2>4. CASE Rel(d, q) \in missed
    BY <2>1, <2>4
  <2>5. CASE \E k \in 1..Len(t) : EntryOf(d, q, t[k])
    <3>1. PICK k \in 1..Len(t) : EntryOf(d, q, t[k])
      BY <2>5
    <3>2. CASE t[k].data = Content(before[q])
      <4>1. x = [name |-> t[k].name, data |-> t[k].data]
        BY <2>1, <3>1, <3>2 DEF EntryOf
      <4>2. QED
        BY <1>3, <4>1
    <3>3. CASE q \in Backups /\ t[k].data = "meta"
      <4> DEFINE o == [name |-> Rel(d, q), data |-> "meta"]
      <4>1. o = [name |-> t[k].name, data |-> t[k].data]
        BY <3>1, <3>3 DEF EntryOf
      <4>2. o \in Stored(t)
        BY <1>3, <4>1
      <4>3. o \in OwnMeta
        BY <2>2, <3>3 DEF OwnMeta, Found
      <4>4. o.name = x.name
        BY <2>1
      <4>5. QED
        BY <4>2, <4>3, <4>4
    <3>4. QED
      BY <3>1, <3>2, <3>3 DEF EntryOf
  <2>6. QED
    BY <2>3, <2>4, <2>5 DEF Holds
<1>6. QED
  BY <1>1, <1>4, <1>5 DEF Imported

\* What does not look at the files is as it was.
LEMMA ImportStays ==
  ASSUME UNCHANGED <<before, cmd>>
  PROVE  /\ Beside' = Beside /\ Backups' = Backups /\ OwnMeta' = OwnMeta
         /\ (Blocked' <=> Blocked) /\ (Clear' <=> Clear)
         /\ \A d : Expected(d)' = Expected(d)
         /\ \A t : Stored(t)' = Stored(t)
         /\ \A d, t, S, M : Holds(d, t, S, M) => Holds(d, t, S, M)'
         /\ UNCHANGED missed => \A t : Imported(t) => Imported(t)'
<1>1. Beside' = Beside /\ Backups' = Backups
  BY DEF Beside, Backups
<1>2. OwnMeta' = OwnMeta /\ (Blocked' <=> Blocked)
  BY <1>1 DEF OwnMeta, Blocked
<1>3. Clear' <=> Clear
  BY <1>2 DEF Clear
<1>4. ASSUME NEW d PROVE Expected(d)' = Expected(d)
  BY DEF Expected, FilesBelow
<1>5. ASSUME NEW t PROVE Stored(t)' = Stored(t)
  BY DEF Stored
<1>6. ASSUME NEW d, NEW t, NEW S, NEW M, Holds(d, t, S, M) PROVE Holds(d, t, S, M)'
  BY <1>1, <1>6 DEF Holds, Found, EntryOf
<1>7. ASSUME UNCHANGED missed, NEW t, Imported(t) PROVE Imported(t)'
  <2>1. Expected(cmd.dir)' = Expected(cmd.dir)
    <3>1. PICK d : d = cmd.dir
      OBVIOUS
    <3>2. QED
      BY <1>4, <3>1
  <2>2. QED
    BY <1>2, <1>5, <1>7, <2>1 DEF Imported
<1>8. QED
  BY <1>1, <1>2, <1>3, <1>4, <1>5, <1>6, <1>7

\* A command that is no import, at work or at its end.
LEMMA NoImport ==
  ASSUME cmd'.kind # "imp", seen' = {}
  PROVE  ImportInv' /\ ImportOutcome'
  BY DEF ImportInv, ImportOutcome, Ended

\* A command line is given, and nothing has changed yet.
LEMMA ImportStarts ==
  ASSUME TreeInv, ImportInv, NEW c \in Commands, Start(c)
  PROVE  ImportInv' /\ ImportOutcome'
<1>1. /\ pc' = "start" /\ fs' = fs /\ before' = fs /\ missed' = {} /\ seen' = {}
  BY DEF Start, ImportInv
<1>2. IsTree(before)'
  BY <1>1 DEF TreeInv, IsTree
<1>3. QED
  BY <1>1, <1>2 DEF ImportInv, ImportOutcome, Ended

\* The exits that leave what the import was to replace.
LEMMA ImportStops ==
  ASSUME NEW s, s # "ok", Exit(s), UNCHANGED fs, cmd \in Commands, cmd.kind = "imp",
         fs = before \/ FilesKept
  PROVE  ImportInv' /\ ImportOutcome'
<1> DEFINE p == cmd.outpres.path
<1>1. pc' = "idle" /\ status' = s /\ cmd' = cmd /\ before' = before /\ seen' = {}
  BY DEF Exit, Rest
<1>2. Nodes(p) = Was(p)
  <2>1. p \notin Backups
    BY NoBackup
  <2>2. QED
    BY <2>1 DEF FilesKept, Nodes, Was
<1>3. Nodes(p)' = Was(p)'
  BY <1>1, <1>2 DEF Nodes, Was
<1>4. QED
  BY <1>1, <1>3 DEF ImportInv, ImportOutcome

\* The exits that leave a new container.
LEMMA ImportDone ==
  ASSUME NEW s, Exit(s), cmd.kind = "imp", NEW t, Imported(t), quiet' => quiet,
         quiet /\ Clear => missed = {},
         cmd.outpres.path \in DOMAIN fs', fs'[cmd.outpres.path] = Container(t),
         cmd.outpres.abs /\ s = "ok" => Beside \notin DOMAIN fs'
  PROVE  ImportInv' /\ ImportOutcome'
<1> DEFINE p == cmd.outpres.path
<1>1. pc' = "idle" /\ status' = s /\ cmd' = cmd /\ UNCHANGED <<before, missed>> /\ seen' = {}
  BY DEF Exit, Rest
<1>2. ImportInv'
  BY <1>1 DEF ImportInv
<1>3. Imported(t)' /\ (Clear' <=> Clear) /\ Beside' = Beside
  BY <1>1, ImportStays
<1>4. fs'[p] = Container(t) /\ Container(t).table = t /\ Whole(p)'
  BY <1>1, NotDir DEF Whole, IsFile, Exists, Container
<1>5. quiet' /\ Clear' => missed' = {}
  BY <1>1, <1>3
<1>6. cmd'.outpres.abs /\ status' = "ok" => ~Exists(Beside)'
  BY <1>1, <1>3 DEF Exists
<1>7. fs'[cmd'.outpres.path].table = t /\ Whole(cmd.outpres.path)'
  BY <1>1, <1>4
<1>8. ImportOutcome'
  BY <1>3, <1>5, <1>6, <1>7 DEF ImportOutcome, Imported, Clear, Beside
<1>9. QED
  BY <1>2, <1>8

\* A backup is written.
LEMMA BackupKept ==
  ASSUME FilesKept, NEW m, m \in Backups, fs' = With(m, Meta), UNCHANGED <<before, cmd>>,
         m = Beside \/ Nodes(Beside) = {Meta}
  PROVE  FilesKept' /\ Nodes(Beside)' = {Meta}
<1>1. /\ DOMAIN fs' = DOMAIN fs \cup {m} /\ fs'[m] = Meta
      /\ \A q \in DOMAIN fs : q # m => fs'[q] = fs[q]
  BY DEF With
<1>2. Backups' = Backups /\ Beside' = Beside
  BY ImportStays
<1>3. FilesKept'
  BY <1>1, <1>2 DEF FilesKept
<1>4. Beside \in DOMAIN fs' /\ fs'[Beside] = Meta
  BY <1>1 DEF Nodes
<1>5. QED
  BY <1>2, <1>3, <1>4 DEF Nodes

\* k_pres_create and chdir.
LEMMA ImportCreates ==
  ASSUME IInv, ImportInv, cmd.kind = "imp", ImportCreate \/ ImportEnter
  PROVE  ImportInv' /\ ImportOutcome'
<1> DEFINE c == cmd.outpres  p == c.path
<1>1. /\ pc \in {"start", "enter"} /\ cmd \in Commands /\ seen = {} /\ IsTree(before)
      /\ quiet /\ Clear => missed = {}
  BY DEF ImportCreate, ImportEnter, IInv, PhaseInv, PlaceInv, ImportInv
<1>2. CASE ImportCreate
  <2>1. pc = "start" /\ fs = before /\ cwd = Home /\ c \in Containers
    BY <1>1, <1>2, NewNamed DEF ImportCreate, ImportInv, IInv, PhaseInv, PlaceInv
  <2>2. CASE CreateFails(c)
    BY <1>1, <2>1, <2>2, ImportStops DEF CreateFails
  <2>3. CASE Created(c, "enter") /\ UNCHANGED <<cwd, old, seen, i>>
    <3>1. Resolve(c) = p
      BY <2>1, ResolveHome
    <3>2. /\ pc' = "enter" /\ UNCHANGED <<cmd, before, missed, quiet, seen>> /\ new'.table = <<>>
          /\ fs' = With(Beside, Meta)
      BY <2>3, <3>1 DEF Created, Handle, Goto, Rest, Fine, ResolveMeta, Beside
    <3>3. FilesKept /\ Beside \in Backups
      BY <2>1 DEF FilesKept, Backups
    <3>4. FilesKept' /\ Nodes(Beside)' = {Meta}
      BY <3>2, <3>3, BackupKept
    <3>5. IsTree(before)' /\ (Clear' <=> Clear)
      BY <1>1, <3>2, ImportStays DEF IsTree
    <3>6. ImportInv'
      BY <1>1, <3>2, <3>4, <3>5 DEF ImportInv
    <3>7. ImportOutcome'
      BY <3>2 DEF ImportOutcome, Ended
    <3>8. QED
      BY <3>6, <3>7
  <2>4. QED
    BY <1>2, <2>2, <2>3 DEF ImportCreate
<1>3. CASE ImportEnter
  <2>1. pc = "enter" /\ FilesKept /\ Nodes(Beside) = {Meta} /\ new.table = <<>>
    BY <1>3 DEF ImportEnter, ImportInv
  <2>2. CASE cwd' = cmd.dir /\ Goto("walk") /\ Fine /\ UNCHANGED <<new, old, seen, i>>
    <3>1. pc' = "walk" /\ UNCHANGED <<fs, cmd, before, missed, quiet, seen, new>>
      BY <1>3, <2>2 DEF ImportEnter, Goto, Rest, Fine
    <3>2. Holds(cmd.dir, new.table, seen, missed)'
      <4>1. Len(<<>>) = 0 /\ 1..0 = {}
        OBVIOUS
      <4>2. new'.table = <<>> /\ seen' = {}
        BY <1>1, <2>1, <3>1
      <4>3. QED
        BY <4>1, <4>2 DEF Holds
    <3>3. FilesKept' /\ Nodes(Beside)' = {Meta} /\ IsTree(before)' /\ (Clear' <=> Clear)
      BY <1>1, <2>1, <3>1, ImportStays DEF FilesKept, Nodes, IsTree
    <3>4. ImportInv'
      BY <1>1, <3>1, <3>2, <3>3 DEF ImportInv
    <3>5. ImportOutcome'
      BY <3>1 DEF ImportOutcome, Ended
    <3>6. QED
      BY <3>4, <3>5
  <2>3. CASE Exit("failed") /\ UNCHANGED fs
    BY <1>1, <2>1, <2>3, ImportStops
  <2>4. QED
    BY <1>3, <2>2, <2>3 DEF ImportEnter
<1>4. QED
  BY <1>2, <1>3

\* Where a walk stands.
LEMMA WalkPlace ==
  ASSUME IInv, TreeInv, ImportInv, pc = "walk"
  PROVE  /\ cmd \in Commands /\ cmd.kind = "imp" /\ cwd = cmd.dir /\ cmd.dir \in Seq(STRING)
         /\ new.arg = cmd.outpres /\ IsHandle(new) /\ IsTree(fs) /\ IsTree(before)
         /\ FilesKept /\ Nodes(Beside) = {Meta} /\ Holds(cmd.dir, new.table, seen, missed)
         /\ (quiet /\ Clear => missed = {})
         /\ ResolveMeta(new.arg) \in Backups
<1>1. /\ cmd \in Commands /\ cmd.kind = "imp" /\ cwd = cmd.dir
      /\ new.arg = cmd.outpres /\ IsHandle(new)
  BY DEF IInv, PhaseInv, NewInv
<1>2. /\ FilesKept /\ Nodes(Beside) = {Meta} /\ Holds(cmd.dir, new.table, seen, missed)
      /\ (quiet /\ Clear => missed = {}) /\ IsTree(before)
  BY <1>1 DEF ImportInv
<1>3. cmd.dir \in Seq(STRING) /\ IsTree(fs)
  BY <1>1 DEF TreeInv
<1>4. ResolveMeta(new.arg) \in Backups
  BY <1>1, WalkBackup
<1>5. QED
  BY <1>1, <1>2, <1>3, <1>4

\* What the walk delivers next.
LEMMA VisitIs ==
  ASSUME IInv, TreeInv, ImportInv, pc = "walk", NEW q
  PROVE  q \in ToVisit <=> q \in DOMAIN fs /\ fs[q] # Dir /\ Found(cmd.dir, q) /\ q \notin seen
<1>1. cwd = cmd.dir /\ cmd.dir \in Seq(STRING) /\ IsTree(fs)
  BY WalkPlace
<1>2. q \in DOMAIN fs => q \in Seq(STRING)
  BY <1>1 DEF IsTree
<1>3. q \in Seq(STRING) /\ Below(cmd.dir, q) => Walked(q).name = Rel(cmd.dir, q)
  BY <1>1, WalkedIs
<1>4. QED
  BY <1>1, <1>2, <1>3 DEF ToVisit, FilesBelow, Found

\* Where nothing is in its way the backup can be written again.
LEMMA ClearWrites ==
  ASSUME IInv, TreeInv, ImportInv, pc = "walk", Clear
  PROVE  CanCreate(ResolveMeta(new.arg))
<1> DEFINE m == ResolveMeta(new.arg)  p == cmd.outpres.path
<1>1. /\ cmd \in Commands /\ cmd.kind = "imp" /\ cwd = cmd.dir /\ cmd.dir \in Seq(STRING)
      /\ new.arg = cmd.outpres /\ IsTree(fs) /\ FilesKept /\ Nodes(Beside) = {Meta}
  BY WalkPlace
<1>2. Beside \in DOMAIN fs /\ fs[Beside] = Meta
  BY <1>1 DEF Nodes
<1>3. Meta # Dir /\ Meta.kind # "plain"
  BY NotDir DEF Meta
<1>4. CASE cmd.outpres.abs
  <2>1. m = Beside
    BY <1>1, <1>4, WalkBackup
  <2>2. QED
    BY <1>1, <1>2, <1>3, <2>1 DEF IsTree, CanCreate, IsDir, IsFile, Exists
<1>5. CASE ~cmd.outpres.abs
  <2>1. m = cmd.dir \o Beside /\ cmd.outpres \in Containers /\ Len(p) = 1 /\ ~Blocked
    BY <1>1, <1>5, WalkBackup, NewNamed DEF Clear
  <2>2. IsName(p) /\ p \in Seq(STRING) /\ p # <<>>
    BY <2>1, Named DEF IsName
  <2>3. Front(p) = <<>>
    <3>1. <<>> \in Seq(STRING) /\ Len(<<>>) = 0 /\ Len(p) = Len(<<>>) + 1
          /\ \A k \in 1..Len(<<>>) : <<>>[k] = p[k]
      BY <2>1
    <3>2. QED
      BY <2>2, <3>1, FrontSame
  <2>4. Front(m) = cmd.dir /\ m # Home
    <3>1. m = MetaBeside(cmd.dir \o p) /\ IsName(cmd.dir \o p)
          /\ Front(cmd.dir \o p) = cmd.dir \o Front(p)
      BY <1>1, <2>1, <2>2, MetaInDir DEF Beside
    <3>2. m # Home /\ Front(m) = cmd.dir \o Front(p)
      BY <3>1, BackupPath
    <3>3. cmd.dir \o <<>> = cmd.dir
      BY <1>1
    <3>4. QED
      BY <2>3, <3>2, <3>3
  <2>5. IsDir(Front(m))
    BY <1>1, <2>4 DEF TreeInv
  <2>6. m \in DOMAIN fs => fs[m] # Dir /\ (fs[m].kind = "plain" => fs[m].mode # "0400")
    BY <1>1, <1>3, <1>5, <2>1 DEF FilesKept, Blocked
  <2>7. QED
    BY <2>4, <2>5, <2>6 DEF CanCreate, IsFile, Exists
<1>6. QED
  BY <1>4, <1>5

\* A file that is skipped.
LEMMA ImportSkips ==
  ASSUME IInv, TreeInv, ImportInv, NEW q \in ToVisit, VisitSkips(q)
  PROVE  ImportInv' /\ ImportOutcome'
<1>1. /\ pc = "walk" /\ pc' = "walk" /\ seen' = seen \cup {q} /\ missed' = missed \cup {Rel(cwd, q)}
      /\ UNCHANGED <<fs, cmd, before, new>>
  BY DEF VisitSkips, Rest
<1>2. /\ cmd.kind = "imp" /\ cwd = cmd.dir /\ IsTree(before)
      /\ FilesKept /\ Nodes(Beside) = {Meta} /\ Holds(cmd.dir, new.table, seen, missed)
  BY <1>1, WalkPlace
<1>3. Found(cmd.dir, q)
  BY <1>1, VisitIs
<1>4. ~(quiet' /\ Clear)
  <2> SUFFICES ASSUME quiet', Clear PROVE FALSE
    OBVIOUS
  <2>1. ~CanCreate(ResolveMeta(new.arg))
    BY DEF VisitSkips, Trouble
  <2>2. QED
    BY <1>1, <2>1, ClearWrites
<1>5. PICK d, t, S, M : d = cmd.dir /\ t = new.table /\ S = seen \cup {q}
                        /\ M = missed \cup {Rel(cmd.dir, q)}
  OBVIOUS
<1>6. Holds(d, t, S, M)
  BY <1>2, <1>3, <1>5 DEF Holds
<1>7. Holds(d, t, S, M)'
  BY <1>1, <1>6, ImportStays
<1>8. FilesKept' /\ Nodes(Beside)' = {Meta} /\ IsTree(before)' /\ (Clear' <=> Clear)
  BY <1>1, <1>2, ImportStays DEF FilesKept, Nodes, IsTree
<1>9. ImportInv'
  BY <1>1, <1>2, <1>4, <1>5, <1>7, <1>8 DEF ImportInv
<1>10. ImportOutcome'
  BY <1>1 DEF ImportOutcome, Ended
<1>11. QED
  BY <1>9, <1>10

\* A file that is added.
LEMMA ImportAdds ==
  ASSUME IInv, TreeInv, TableInv, ImportInv, NEW q \in ToVisit, VisitAdds(q)
  PROVE  ImportInv' /\ ImportOutcome'
<1> DEFINE e == Entry(Walked(q).name, Walked(q).base, Content(fs[q]))
           m == ResolveMeta(new.arg)
<1>1. /\ pc = "walk" /\ pc' = "walk" /\ seen' = seen \cup {q} /\ new' = Committed(new, e)
      /\ fs' = With(m, Meta) /\ UNCHANGED <<cmd, before, missed, quiet>>
  BY DEF VisitAdds, Goto, Rest, Fine
<1>2. /\ cmd.kind = "imp" /\ cwd = cmd.dir /\ cmd.dir \in Seq(STRING) /\ IsTree(fs) /\ IsTree(before)
      /\ FilesKept /\ Nodes(Beside) = {Meta} /\ Holds(cmd.dir, new.table, seen, missed)
      /\ IsHandle(new) /\ m \in Backups /\ (quiet /\ Clear => missed = {})
  BY <1>1, WalkPlace
<1>3. q \in DOMAIN fs /\ fs[q] # Dir /\ Found(cmd.dir, q) /\ q \notin seen
  BY <1>1, VisitIs
<1>4. q \in Seq(STRING) /\ Below(cwd, q) /\ cwd \in Seq(STRING)
  BY <1>2, <1>3 DEF Found
<1>5. IsEntry(e) /\ Walked(q).name = Rel(cmd.dir, q)
  BY <1>2, <1>4, WalkedIs, MadeEntry
<1>6. new'.table = Append(new.table, e)
  BY <1>1, <1>2, <1>5, CommittedTable DEF TableInv
<1>7. EntryOf(cmd.dir, q, e)
  <2>1. e.name = Rel(cmd.dir, q) /\ e.data = Content(fs[q])
    BY <1>5 DEF Entry
  <2>2. Content(Meta) = "meta"
    BY DEF Content, Meta
  <2>3. QED
    BY <1>2, <1>3, <2>1, <2>2 DEF FilesKept, EntryOf
<1> HIDE DEF e, m
<1>8. PICK d, t, S, M : d = cmd.dir /\ t = Append(new.table, e) /\ S = seen \cup {q} /\ M = missed
  OBVIOUS
<1>9. Holds(d, t, S, M)
  BY <1>2, <1>3, <1>5, <1>7, <1>8, HoldsMore DEF TableInv
<1>10. Holds(d, t, S, M)'
  BY <1>1, <1>9, ImportStays
<1>11. FilesKept' /\ Nodes(Beside)' = {Meta}
  BY <1>1, <1>2, BackupKept
<1>12. IsTree(before)' /\ (Clear' <=> Clear)
  BY <1>1, <1>2, ImportStays DEF IsTree
<1>13. ImportInv'
  BY <1>1, <1>2, <1>6, <1>8, <1>10, <1>11, <1>12 DEF ImportInv
<1>14. ImportOutcome'
  BY <1>1 DEF ImportOutcome, Ended
<1>15. QED
  BY <1>13, <1>14

\* The walk is over.
LEMMA ImportWalked ==
  ASSUME IInv, TreeInv, TableInv, ImportInv, WalkEnds
  PROVE  ImportInv' /\ ImportOutcome'
<1>1. /\ pc = "walk" /\ pc' = "publish" /\ UNCHANGED <<fs, cmd, before, missed, quiet, new, seen>>
      /\ ToVisit \cap DOMAIN before = {}
  BY DEF WalkEnds, Goto, Rest, Fine
<1>2. /\ cmd.kind = "imp" /\ cmd.dir \in Seq(STRING) /\ IsTree(before)
      /\ FilesKept /\ Nodes(Beside) = {Meta} /\ Holds(cmd.dir, new.table, seen, missed)
      /\ (quiet /\ Clear => missed = {})
  BY <1>1, WalkPlace
<1>3. ASSUME NEW q \in FilesBelow(before, cmd.dir), Found(cmd.dir, q) PROVE q \in seen
  <2>1. q \in DOMAIN before /\ before[q] # Dir
    BY DEF FilesBelow
  <2>2. q \in DOMAIN fs /\ fs[q] # Dir
    BY <1>2, <2>1, NotDir DEF FilesKept
  <2>3. q \notin ToVisit
    BY <1>1, <2>1
  <2>4. QED
    BY <1>1, <1>3, <2>2, <2>3, VisitIs
<1>4. Imported(new.table)
  BY <1>2, <1>3, HoldsAll DEF TableInv
<1>5. PICK t : t = new.table
  OBVIOUS
<1>6. Imported(t)'
  BY <1>1, <1>4, <1>5, ImportStays
<1>7. FilesKept' /\ Nodes(Beside)' = {Meta} /\ IsTree(before)' /\ (Clear' <=> Clear)
  BY <1>1, <1>2, ImportStays DEF FilesKept, Nodes, IsTree
<1>8. ImportInv'
  BY <1>1, <1>2, <1>5, <1>6, <1>7 DEF ImportInv
<1>9. ImportOutcome'
  BY <1>1 DEF ImportOutcome, Ended
<1>10. QED
  BY <1>8, <1>9

\* The steps of a walk.
LEMMA ImportVisits ==
  ASSUME IInv, TreeInv, TableInv, ImportInv, Visit
  PROVE  ImportInv' /\ ImportOutcome'
<1>1. CASE \E q \in ToVisit : VisitFails(q)
  <2>1. pc = "walk" /\ Exit("failed") /\ UNCHANGED fs
    BY <1>1 DEF VisitFails, Abandon
  <2>2. QED
    BY <2>1, WalkPlace, ImportStops
<1>2. QED
  BY <1>1, ImportSkips, ImportAdds, ImportWalked DEF Visit

\* The new container takes its name, and the backup goes.
LEMMA ImportCloses ==
  ASSUME IInv, ImportInv, cmd.kind = "imp", Publish \/ PublishFails \/ Unlink \/ ImportBack
  PROVE  ImportInv' /\ ImportOutcome'
<1> DEFINE p == cmd.outpres.path
<1>1. /\ pc \in {"publish", "unlink", "back"} /\ cmd \in Commands /\ IsTree(before)
      /\ Imported(new.table) /\ (quiet /\ Clear => missed = {})
      /\ pc = "publish" => FilesKept
      /\ pc \in {"publish", "unlink"} => /\ Nodes(Beside) = {Meta} /\ new.arg = cmd.outpres
                                         /\ new.target = p /\ cwd = cmd.dir
      /\ pc \in {"unlink", "back"} => Nodes(p) = {Container(new.table)}
      /\ pc = "back" /\ cmd.outpres.abs => Beside \notin DOMAIN fs
  BY DEF Publish, PublishFails, Unlink, ImportBack, ImportInv, IInv, PhaseInv, PlaceInv, NewInv
<1>2. p \notin Backups /\ p # Beside
  BY <1>1, NoBackup DEF Backups
<1>3. PICK t : t = new.table
  OBVIOUS
<1>4. CASE PublishFails
  <2>1. Exit("failed") /\ UNCHANGED fs /\ FilesKept
    BY <1>1, <1>4 DEF PublishFails
  <2>2. QED
    BY <1>1, <2>1, ImportStops
<1>5. CASE Publish
  <2>1. /\ pc = "publish" /\ pc' = "unlink" /\ fs' = With(p, Container(t))
        /\ UNCHANGED <<cmd, before, missed, quiet, new, seen>>
    BY <1>1, <1>3, <1>5 DEF Publish, Published, Goto, Rest, Fine
  <2>2. Imported(t)' /\ (Clear' <=> Clear) /\ IsTree(before)' /\ Beside' = Beside
    BY <1>1, <1>3, <2>1, ImportStays DEF IsTree
  <2>3. p \in DOMAIN fs' /\ fs'[p] = Container(t) /\ Beside \in DOMAIN fs' /\ fs'[Beside] = Meta
    BY <1>1, <1>2, <2>1 DEF With, Nodes
  <2>4. Nodes(Beside)' = {Meta} /\ Nodes(p)' = {Container(new'.table)}
    BY <1>3, <2>1, <2>2, <2>3 DEF Nodes
  <2>5. ImportInv'
    BY <1>1, <1>3, <2>1, <2>2, <2>4 DEF ImportInv
  <2>6. ImportOutcome'
    BY <2>1 DEF ImportOutcome, Ended
  <2>7. QED
    BY <2>5, <2>6
<1>6. CASE Unlink
  <2> DEFINE m == ResolveMeta(new.arg)
  <2>1. /\ pc = "unlink" /\ pc' = "back" /\ fs' = Removed(m)
        /\ UNCHANGED <<cmd, before, missed, quiet, new, seen>>
    BY <1>6 DEF Unlink, Goto, Rest, Fine
  <2>2. m \in Backups /\ (cmd.outpres.abs => m = Beside)
    BY <1>1, <2>1, WalkBackup
  <2>3. Imported(t)' /\ (Clear' <=> Clear) /\ IsTree(before)' /\ Beside' = Beside
    BY <1>1, <1>3, <2>1, ImportStays DEF IsTree
  <2> HIDE DEF m
  <2>4. p \in DOMAIN fs /\ fs[p] = Container(t)
    BY <1>1, <1>3, <2>1 DEF Nodes
  <2>5. p \in DOMAIN fs' /\ fs'[p] = Container(t)
    <3>1. p # m
      BY <1>2, <2>2
    <3>2. QED
      BY <2>1, <2>4, <3>1, RemovedFacts
  <2>6. cmd.outpres.abs => Beside \notin DOMAIN fs'
    <3> SUFFICES ASSUME cmd.outpres.abs, Beside \in DOMAIN fs' PROVE FALSE
      OBVIOUS
    <3>1. Beside \in DOMAIN fs /\ fs[Beside] = Meta
      BY <1>1, <2>1 DEF Nodes
    <3>2. fs[Beside] = Dir
      BY <2>1, <2>2, RemovedFacts
    <3>3. QED
      BY <3>1, <3>2, NotDir
  <2>7. Nodes(p)' = {Container(new'.table)}
    BY <1>3, <2>1, <2>5 DEF Nodes
  <2>8. ImportInv'
    BY <1>1, <1>3, <2>1, <2>3, <2>6, <2>7 DEF ImportInv
  <2>9. ImportOutcome'
    BY <2>1 DEF ImportOutcome, Ended
  <2>10. QED
    BY <2>8, <2>9
<1>7. CASE ImportBack
  <2>1. pc = "back" /\ UNCHANGED fs /\ (quiet' => quiet)
    BY <1>7 DEF ImportBack, Fine, Trouble
  <2>2. p \in DOMAIN fs' /\ fs'[p] = Container(t)
    BY <1>1, <1>3, <2>1 DEF Nodes
  <2>3. cmd.outpres.abs => Beside \notin DOMAIN fs'
    BY <1>1, <2>1
  <2>4. Exit("ok") \/ Exit("failed")
    BY <1>7 DEF ImportBack
  <2>5. QED
    BY <1>1, <1>3, <2>1, <2>2, <2>3, <2>4, ImportDone
<1>8. QED
  BY <1>4, <1>5, <1>6, <1>7

\* A process that is killed.
LEMMA ImportKilled ==
  ASSUME IInv, ImportInv, cmd.kind = "imp", Kill
  PROVE  ImportInv' /\ ImportOutcome'
<1> DEFINE p == cmd.outpres.path
<1>1. pc # "idle" /\ Exit("killed") /\ UNCHANGED fs /\ ~quiet' /\ cmd \in Commands
  BY DEF Kill, IInv, PhaseInv, PlaceInv
<1>2. CASE pc \notin {"unlink", "back"}
  <2>1. fs = before \/ FilesKept
    BY <1>1, <1>2 DEF ImportInv
  <2>2. QED
    BY <1>1, <2>1, ImportStops
<1>3. CASE pc \in {"unlink", "back"}
  <2>1. Imported(new.table) /\ Nodes(p) = {Container(new.table)} /\ (quiet /\ Clear => missed = {})
    BY <1>3 DEF ImportInv
  <2>2. PICK t : t = new.table
    OBVIOUS
  <2>3. p \in DOMAIN fs' /\ fs'[p] = Container(t)
    BY <1>1, <2>1, <2>2 DEF Nodes
  <2>4. QED
    BY <1>1, <2>1, <2>2, <2>3, ImportDone
<1>4. QED
  BY <1>2, <1>3

\* A step that changes nothing keeps the outcome.
LEMMA OutcomeStays ==
  ASSUME ImportOutcome, UNCHANGED vars
  PROVE  ImportOutcome'
<1>1. UNCHANGED <<fs, pc, cmd, status, before, quiet, missed>>
  BY DEF vars
<1>2. CASE ~Ended("imp")
  BY <1>1, <1>2 DEF ImportOutcome, Ended
<1>3. CASE Ended("imp")
  <2>1. PICK p, t : p = cmd.outpres.path /\ t = fs[p].table
    OBVIOUS
  <2>2. p = cmd'.outpres.path /\ t = fs'[p].table
    BY <1>1, <2>1
  <2>3. (Clear' <=> Clear) /\ Beside' = Beside /\ (Imported(t) => Imported(t)')
    BY <1>1, ImportStays
  <2>4. Nodes(p)' = Nodes(p) /\ Was(p)' = Was(p) /\ (Whole(p)' <=> Whole(p))
    BY <1>1 DEF Nodes, Was, Whole, IsFile, Exists
  <2>5. CASE status # "ok" /\ Nodes(p) = Was(p)
    BY <1>1, <2>2, <2>4, <2>5 DEF ImportOutcome
  <2>6. CASE ~(status # "ok" /\ Nodes(p) = Was(p))
    <3>1. /\ Whole(p) /\ Imported(t) /\ (quiet /\ Clear => missed = {})
          /\ cmd.outpres.abs /\ status = "ok" => ~Exists(Beside)
      BY <1>3, <2>1, <2>6 DEF ImportOutcome, Imported, Clear, Beside
    <3>2. /\ Whole(p)' /\ Imported(t)' /\ (quiet' /\ Clear' => missed' = {})
          /\ cmd'.outpres.abs /\ status' = "ok" => ~Exists(Beside)'
      BY <1>1, <2>3, <2>4, <3>1 DEF Exists
    <3>3. QED
      BY <2>2, <3>2 DEF ImportOutcome, Imported, Clear, Beside
  <2>7. QED
    BY <2>5, <2>6
<1>4. QED
  BY <1>2, <1>3

\* Every step of an import keeps what it has found.
LEMMA NextImport ==
  IInv /\ TreeInv /\ TableInv /\ ImportInv /\ ImportOutcome /\ [Next]_vars
    => ImportInv' /\ ImportOutcome'
<1> SUFFICES ASSUME IInv, TreeInv, TableInv, ImportInv, ImportOutcome, [Next]_vars
             PROVE  ImportInv' /\ ImportOutcome'
  OBVIOUS
<1>1. CASE UNCHANGED vars
  <2>1. UNCHANGED <<fs, pc, cmd, new, seen, status, before, quiet, missed>>
    BY <1>1 DEF vars
  <2>2. PICK d, t, S, M : d = cmd.dir /\ t = new.table /\ S = seen /\ M = missed
    OBVIOUS
  <2>3. /\ Holds(d, t, S, M) => Holds(d, t, S, M)'
        /\ Imported(t) => Imported(t)'
        /\ (Clear' <=> Clear) /\ Beside' = Beside
    BY <2>1, ImportStays
  <2>4. (FilesKept => FilesKept') /\ (IsTree(before) => IsTree(before)') /\ \A q : Nodes(q)' = Nodes(q)
    BY <2>1, ImportStays DEF FilesKept, IsTree, Nodes
  <2>5. ImportInv'
    BY <2>1, <2>2, <2>3, <2>4 DEF ImportInv
  <2>6. ImportOutcome'
    BY <1>1, OutcomeStays
  <2>7. QED
    BY <2>5, <2>6
<1>2. CASE \E c \in Commands : Start(c)
  BY <1>2, ImportStarts
<1>3. CASE Step \/ Kill
  <2>1. pc # "idle" /\ cmd' = cmd
    BY <1>3 DEF Step, Open, OpenFails, Import, ImportCreate, Created, CreateFails, ImportEnter,
       Visit, VisitSkips, VisitAdds, VisitFails, WalkEnds, ImportBack, Publish, PublishFails, Unlink,
       Change, AddSkips, AddAppends, AddCommits, AddFails, DeleteRefused, Delete, CloseWrites,
       CloseEnds, CloseRemoves, CloseFails, Repack, RepackCreate, CopySkips, Copy, CopyFails,
       CopyEnds, Export, ExportEnter, ExportRefused, ExportDeleted, ExportMakesDirs, ExportStrays,
       ExportWrites, ExportFails, ExportEnds, After, GoOnAfter, Exporting, List, Kill, Exit, Goto, Rest
  <2>2. CASE cmd.kind # "imp"
    <3>1. pc # "walk"
      BY <2>2 DEF IInv, PhaseInv, NewInv
    <3>2. seen' = seen \/ seen' = {}
      BY <1>3, <3>1 DEF Step, Open, OpenFails, Import, ImportCreate, Created, CreateFails, ImportEnter,
       Visit, VisitSkips, VisitAdds, VisitFails, WalkEnds, ImportBack, Publish, PublishFails, Unlink,
       Change, AddSkips, AddAppends, AddCommits, AddFails, DeleteRefused, Delete, CloseWrites,
       CloseEnds, CloseRemoves, CloseFails, Repack, RepackCreate, CopySkips, Copy, CopyFails,
       CopyEnds, Export, ExportEnter, ExportRefused, ExportDeleted, ExportMakesDirs, ExportStrays,
       ExportWrites, ExportFails, ExportEnds, After, GoOnAfter, Exporting, List, Kill, Exit
    <3>3. seen' = {}
      BY <2>2, <3>2 DEF ImportInv
    <3>4. QED
      BY <2>1, <2>2, <3>3, NoImport
  <2>3. CASE cmd.kind = "imp"
    <3>1. pc \in {"start", "enter", "walk", "publish", "unlink", "back"}
      BY <2>1, <2>3 DEF ImportInv
    <3>2. \/ ImportCreate \/ ImportEnter \/ Visit
          \/ Publish \/ PublishFails \/ Unlink \/ ImportBack \/ Kill
      BY <1>3, <2>3, <3>1
         DEF Step, Open, OpenFails, Import, Change, AddSkips, AddAppends, AddCommits, AddFails,
         DeleteRefused, Delete, CloseWrites, CloseEnds, CloseRemoves, CloseFails, Repack,
         RepackCreate, CopySkips, Copy, CopyFails, CopyEnds, Export, ExportEnter, ExportRefused,
         ExportDeleted, ExportMakesDirs, ExportStrays, ExportWrites, ExportFails, ExportEnds,
         Exporting, List
    <3>3. QED
      BY <2>3, <3>2, ImportCreates, ImportVisits, ImportCloses, ImportKilled
  <2>4. QED
    BY <2>2, <2>3
<1>4. QED
  BY <1>1, <1>2, <1>3 DEF Next

\* At first there is no import.
LEMMA InitImport == Init => ImportInv /\ ImportOutcome
  BY DEF Init, Idle, ImportInv, ImportOutcome, Ended

-----------------------------------------------------------------------------
(* Theorems *)

\* The steps of a command keep what they need to know: which file is torn, and
\* whose backup the command will remove.
THEOREM Invariant == Spec => []IInv
<1>1. Init => IInv
  BY InitIInv
<1>2. IInv /\ [Next]_vars => IInv'
  BY NextIInv
<1>3. QED
  BY <1>1, <1>2, PTL DEF Spec

\* Whatever commands of ktool run, fail and are killed, in any number, a torn
\* container has its backup beside it, unless an import went astray there.
THEOREM TornIsGuarded == Spec => []Guarded
<1>1. IInv => Guarded
  BY DEF IInv, FsInv
<1>2. QED
  BY <1>1, Invariant, PTL

\* What the commands before have left: files that are a tree in which the
\* process has its place, whole containers with tables of entries, and a repack
\* that has copied what it should.
FilesInv == TreeInv /\ LoopInv /\ TableInv /\ RepackInv /\ RepackOutcome

\* Whatever commands ran and failed, every file lies in a directory, containers
\* hold sequences of entries, and the name of a container that is created or
\* changed has its place (k_tcreat, mkdir, unlink as ktool calls them).
THEOREM FilesInvariant == Spec => []FilesInv
<1>1. Init => FilesInv
  BY InitTree, InitRepack DEF FilesInv
<1>2. IInv /\ FilesInv /\ [Next]_vars => FilesInv'
  BY NextTree, NextTables, NextRepack DEF FilesInv
<1>3. QED
  BY <1>1, <1>2, Invariant, PTL DEF Spec

\* Whatever fails and whenever it is killed, ktool rep leaves the container it
\* was to replace as it was, or replaces it by one that holds the live
\* resources of the old one in their order, also when both are the same file.
THEOREM RepackIsExact == Spec => []RepackOutcome
<1>1. FilesInv => RepackOutcome
  BY DEF FilesInv
<1>2. QED
  BY <1>1, FilesInvariant, PTL

\* When nothing fails, an export into a new directory writes every live and
\* undamaged resource under its name, the directories of the name made on the
\* way, unless an earlier one has the name; and the export of one resource
\* succeeds exactly when the resource is there and undamaged.
THEOREM ExportIsExact == Spec => []ExportOutcome
<1> DEFINE E == ExportInv /\ ExportOutcome
<1>1. Init => E
  BY InitExport
<1>2. IInv /\ FilesInv /\ E /\ [Next]_vars => E'
  BY NextExport DEF FilesInv
<1>3. E => ExportOutcome
  OBVIOUS
<1> HIDE DEF E
<1>4. QED
  BY <1>1, <1>2, <1>3, Invariant, FilesInvariant, PTL DEF Spec

\* An import makes a container that holds every file of the directory once,
\* under its name, but for those that were "skipped" and the backup of the
\* container itself; or it leaves what was there.
THEOREM ImportIsExact == Spec => []ImportOutcome
<1> DEFINE E == ImportInv /\ ImportOutcome
<1>1. Init => E
  BY InitImport
<1>2. IInv /\ FilesInv /\ E /\ [Next]_vars => E'
  BY NextImport DEF FilesInv
<1>3. E => ImportOutcome
  OBVIOUS
<1> HIDE DEF E
<1>4. QED
  BY <1>1, <1>2, <1>3, Invariant, FilesInvariant, PTL DEF Spec

==============================================================================
