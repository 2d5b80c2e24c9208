------------------------------ MODULE MCKtool ------------------------------
(* Small file systems and command lines for Ktool. *)
EXTENDS Ktool, TLC

MCMetaName == [c |-> "c.meta", n |-> "n.meta"]
MCHidden   == {".h"}

Rl(p) == [abs |-> FALSE, path |-> p]
Ab(p) == [abs |-> TRUE, path |-> p]
C     == Rl(<<"c">>)

\* A directory to import with a hidden file in it.
Files ==
  (<<"in">> :> Dir) @@ (<<"in", "d">> :> Dir)
  @@ (<<"in", "a">> :> Plain("A", "0600"))
  @@ (<<"in", "d", "b">> :> Plain("B", "0600"))
  @@ (<<"in", "d", ".h">> :> Plain("H", "0600"))

\* Containers as earlier commands leave them: of an import with one resource
\* deleted since, with one damaged, and of adding f/d and then, f/d having
\* become a directory, f/d/b.
Bad(e) == [e EXCEPT !.intact = FALSE]

Tables ==
  {<<Entry(<<"d", "b">>, 1, "B"), Deleted, Entry(<<"a">>, 0, "A")>>,
   <<Entry(<<"a">>, 0, "A"), Bad(Entry(<<"d", "b">>, 1, "B")), Entry(<<"a">>, 0, "A2")>>,
   <<Entry(<<"f", "d">>, 1, "D"), Entry(<<"f", "d", "b">>, 2, "B"), Entry(<<"a">>, 0, "A")>>}

\* Trees with a container in the directory that is imported, and with a file
\* or a directory there that has the name of a backup.
MCTrees ==
  {Files, (<<"in", "c">> :> Container(<<>>)) @@ Files}
  \cup {(<<"in", "c.meta">> :> n) @@ Files : n \in {Plain("M", "0600"), Dir}}
  \cup {(<<"c">> :> Container(t)) @@ Files : t \in Tables}

MCCommands ==
  {[kind |-> "imp", dir |-> <<"in">>, outpres |-> p] :
     p \in {C, Ab(<<"c">>), Rl(<<"in", "c">>), Ab(<<"in", "c">>)}}
  \cup {[kind |-> "add", inpres |-> C, file |-> f] :
          f \in {<<"in", "a">>, <<"in", "d", ".h">>, <<"none">>}}
  \cup {[kind |-> "add", inpres |-> Rl(<<"in", "c">>), file |-> <<"in", "a">>]}
  \cup {[kind |-> "delid", inpres |-> C, id |-> k] : k \in 0..2}
  \cup {[kind |-> "rep", inpres |-> C, outpres |-> Rl(<<n>>)] : n \in {"c", "n"}}
  \cup {[kind |-> "exp", inpres |-> C, dir |-> d] :
          d \in {<<"out">>, <<"in">>, <<"in", "a">>}}
  \cup {[kind |-> "expid", inpres |-> C, dir |-> <<"out">>, id |-> k] : k \in 1..4}
  \cup {[kind |-> "ls", inpres |-> C]}
=============================================================================
