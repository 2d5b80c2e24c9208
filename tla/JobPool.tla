------------------------------- MODULE JobPool -------------------------------
(***************************************************************************)
(* What a workbench promises process_block_parallel: the jobs of a round   *)
(* may run in any order and at the same time, each of them once, and the   *)
(* round is over when all of them have run; a closed pool runs nothing.    *)
(***************************************************************************)
EXTENDS Integers, FiniteSets

CONSTANTS Jobs

VARIABLES submitted,  \* jobs handed to the pool, ever
          finished,   \* jobs that have run, ever
          open        \* a round is under way

vars == <<submitted, finished, open>>

Init == submitted = {} /\ finished = {} /\ open = FALSE

Begin     == ~open /\ open' = TRUE /\ UNCHANGED <<submitted, finished>>
Submit(j) == /\ open /\ j \notin submitted
             /\ submitted' = submitted \union {j}
             /\ UNCHANGED <<finished, open>>
Finish(j) == /\ j \in submitted \ finished
             /\ finished' = finished \union {j}
             /\ UNCHANGED <<submitted, open>>
End       == /\ open /\ finished = submitted /\ open' = FALSE
             /\ UNCHANGED <<submitted, finished>>

Next == Begin \/ End \/ \E j \in Jobs : Submit(j) \/ Finish(j)

\* Every submitted job runs, and a round that was begun ends.
Spec == /\ Init /\ [][Next]_vars
        /\ WF_vars(End) /\ \A j \in Jobs : WF_vars(Finish(j))
=============================================================================
