------------------------------- MODULE MCPres -------------------------------
(***************************************************************************)
(* Instances of Pres for TLC.  Resource names are model values that Pres   *)
(* only compares, so they may be permuted.  Two names and two entries are  *)
(* the least with which a deleted, an intact and a new resource meet; an   *)
(* I/O buffer of two units makes an append of three a block and a rest.    *)
(***************************************************************************)
EXTENDS Pres, TLC

CONSTANTS a, b

MCNames    == {a, b}
NameSymmetry == Permutations(Names)

\* Everything that can fail and is reported as a failure: not a read() that
\* fails in the midst of a file, nor a resource that is abandoned at close.
ReportedFaults == {"write", "sync", "meta", "rename", "crash"}

\* Two pool units of three, the table and both headers: no file is larger.
MCMaxFile == PoolStart + 2 * 3 + TblSize + 2 * EntSize
=============================================================================
