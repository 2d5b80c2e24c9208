----------------------------- MODULE MCWorkbench -----------------------------
(***************************************************************************)
(* An instance of Workbench for TLC.  A buffer of two jobs and rounds of   *)
(* up to three make commit wait for room; three workers leave one idle     *)
(* while the others work.  Liveness is checked, so nothing is permuted.    *)
(***************************************************************************)
EXTENDS Workbench

CONSTANTS w1, w2, w3, caller

ThreeWorkers == {w1, w2, w3}
=============================================================================
