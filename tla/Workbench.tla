------------------------------ MODULE Workbench ------------------------------
(***************************************************************************)
(* The thread pool of src/utils/workbench.c and the one thread that uses   *)
(* it: process_block_parallel of src/blockcipher/blockcipher.c, which in   *)
(* each round sets the worker function, commits one job per part of the    *)
(* work, with its parameters on its own stack, and joins.                  *)
(*                                                                         *)
(* Everything between pthread_mutex_lock and pthread_mutex_unlock, or      *)
(* pthread_cond_wait, is one action: all the shared state is accessed      *)
(* under wb->lock, except wb->workerfn, which has an action of its own.    *)
(* A thread that waits on a condition is in its wait set; a signal removes *)
(* one thread of the set, if there is one; a wait may end without one.     *)
(***************************************************************************)
EXTENDS Integers, FiniteSets

CONSTANTS
  Workers,     \* the threads workbench_create could start
  Caller,      \* the thread that owns the workbench
  QueuedJobs,  \* QUEUED_JOBS
  MaxRounds,   \* bound: rounds of work
  MaxParts     \* bound: jobs of a round

ASSUME WorkbenchAssumption ==
  /\ IsFiniteSet(Workers) /\ Workers # {} /\ Caller \notin Workers
  /\ QueuedJobs \in Nat \ {0}
  /\ MaxRounds \in Nat /\ MaxParts \in Nat

Rounds == 1..MaxRounds
Jobs   == [round : Rounds, part : 1..MaxParts]
NoJob  == [round |-> 0, part |-> 0]
Slots  == 0..(QueuedJobs - 1)

VARIABLES
  njobs,     \* jobs in the buffer, or -1 when the workers are to end
  nworking,  \* jobs committed and not finished
  jobBuf,    \* wb->job_buf
  workerfn,  \* wb->workerfn, named by the round that set it
  notfull, notempty, notworking,   \* the wait sets of the conditions
  wpc,       \* where each worker is
  job,       \* worker_arg of each worker
  cpc,       \* where the caller is
  round,     \* the caller's rounds so far
  todo,      \* parts it has still to commit in this round, the next one first
  given,     \* history: the jobs committed so far
  runs       \* history: how often each job was run by its round's function

vars == <<njobs, nworking, jobBuf, workerfn, notfull, notempty, notworking,
          wpc, job, cpc, round, todo, given, runs>>
workerVars == <<wpc, job, runs>>
callerVars == <<cpc, round, todo, workerfn, given>>

\* workbench_create, after its loop.
Init ==
  /\ njobs = 0 /\ nworking = 0 /\ jobBuf = [s \in Slots |-> NoJob]
  /\ workerfn = 0
  /\ notfull = {} /\ notempty = {} /\ notworking = {}
  /\ wpc = [w \in Workers |-> "idle"] /\ job = [w \in Workers |-> NoJob]
  /\ cpc = "ready" /\ round = 0 /\ todo = 0 /\ given = {}
  /\ runs = [j \in Jobs |-> 0]

\* pthread_cond_signal: one waiting thread, if any, stops waiting.
Signalled(waiting, rest) ==
  \/ waiting = {} /\ rest = {}
  \/ \E t \in waiting : rest = waiting \ {t}

\* Who is signalled when a job enters the buffer, when one leaves it and when
\* one is finished; in the wrong ones the call is not there.
WakeNoWorker == UNCHANGED notempty
WakeWorker   == Signalled(notempty, notempty')

WakeNoCommitter == UNCHANGED notfull
WakeCommitter   == Signalled(notfull, notfull')

WakeJoiner == Signalled(notworking, notworking')

\* The conditions the threads wait for.  FullLate allows one job more than the
\* buffer holds, Queued forgets the jobs that are running.
FullLate == njobs > QueuedJobs
Full     == njobs = QueuedJobs

Queued     == njobs > 0
Unfinished == nworking > 0

\* The job a worker takes; BottomJob is not the one that leaves the buffer.
BottomJob == jobBuf[0]
TopJob    == jobBuf[njobs - 1]

\* A worker is done with its job; Lingers does not say so.
Lingers == nworking' = nworking
Leaves  == nworking' = nworking - 1

\* pthread_cond_broadcast(&wb->notempty); WakeOne is a signal.
WakeOne == Signalled(notempty, notempty')
WakeAll == notempty' = {}

-----------------------------------------------------------------------------
(* A worker: _worker_fn *)

\* while (!wb->njobs) pthread_cond_wait(&wb->notempty, &wb->lock)
WaitForJob(w) ==
  /\ wpc[w] = "idle" /\ w \notin notempty
  /\ njobs = 0
  /\ notempty' = notempty \union {w}
  /\ UNCHANGED <<njobs, nworking, jobBuf, notfull, notworking, workerVars,
                 callerVars>>

Exit(w) ==
  /\ wpc[w] = "idle" /\ w \notin notempty
  /\ njobs < 0
  /\ wpc' = [wpc EXCEPT ![w] = "exited"]
  /\ UNCHANGED <<njobs, nworking, jobBuf, notfull, notempty, notworking, job,
                 runs, callerVars>>

TakeJob(w) ==
  /\ wpc[w] = "idle" /\ w \notin notempty
  /\ njobs > 0
  /\ job' = [job EXCEPT ![w] = TopJob]
  /\ njobs' = njobs - 1
  /\ WakeCommitter
  /\ wpc' = [wpc EXCEPT ![w] = "taken"]
  /\ UNCHANGED <<nworking, jobBuf, notempty, notworking, runs, callerVars>>

\* wb->workerfn(worker_arg), without the lock.
RunJob(w) ==
  /\ wpc[w] = "taken"
  /\ runs' = [runs EXCEPT ![job[w]] = IF workerfn = job[w].round THEN @ + 1 ELSE @]
  /\ wpc' = [wpc EXCEPT ![w] = "ran"]
  /\ UNCHANGED <<njobs, nworking, jobBuf, notfull, notempty, notworking, job,
                 callerVars>>

FinishJob(w) ==
  /\ wpc[w] = "ran"
  /\ Leaves
  /\ WakeJoiner
  /\ wpc' = [wpc EXCEPT ![w] = "idle"] /\ job' = [job EXCEPT ![w] = NoJob]
  /\ UNCHANGED <<njobs, jobBuf, notfull, notempty, runs, callerVars>>

-----------------------------------------------------------------------------
(* The caller *)

\* process_block_parallel: workbench_set_worker, then n jobs.
BeginRound(n) ==
  /\ cpc = "ready" /\ round < MaxRounds
  /\ round' = round + 1 /\ workerfn' = round' /\ todo' = n
  /\ cpc' = "commit"
  /\ UNCHANGED <<njobs, nworking, jobBuf, notfull, notempty, notworking, given,
                 workerVars>>

\* workbench_commit.
WaitForRoom ==
  /\ cpc = "commit" /\ todo > 0 /\ Caller \notin notfull
  /\ Full
  /\ notfull' = notfull \union {Caller}
  /\ UNCHANGED <<njobs, nworking, jobBuf, notempty, notworking, workerVars,
                 callerVars>>

Commit ==
  /\ cpc = "commit" /\ todo > 0 /\ Caller \notin notfull
  /\ ~Full
  /\ jobBuf' = [jobBuf EXCEPT ![njobs] = [round |-> round, part |-> todo]]
  /\ njobs' = njobs + 1 /\ nworking' = nworking + 1
  /\ WakeWorker
  /\ todo' = todo - 1 /\ given' = given \union {[round |-> round, part |-> todo]}
  /\ UNCHANGED <<notfull, notworking, cpc, round, workerfn, workerVars>>

\* workbench_join, and the wait of workbench_delete.
BeginJoin ==
  /\ cpc = "commit" /\ todo = 0
  /\ cpc' = "join"
  /\ UNCHANGED <<njobs, nworking, jobBuf, notfull, notempty, notworking, round,
                 todo, workerfn, given, workerVars>>

WaitForWorkers ==
  /\ cpc \in {"join", "delete"} /\ Caller \notin notworking
  /\ Unfinished
  /\ notworking' = notworking \union {Caller}
  /\ UNCHANGED <<njobs, nworking, jobBuf, notfull, notempty, workerVars,
                 callerVars>>

EndJoin ==
  /\ cpc = "join" /\ Caller \notin notworking
  /\ ~Unfinished
  /\ cpc' = "ready"
  /\ UNCHANGED <<njobs, nworking, jobBuf, notfull, notempty, notworking, round,
                 todo, workerfn, given, workerVars>>

\* workbench_delete.
BeginDelete ==
  /\ cpc = "ready"
  /\ cpc' = "delete"
  /\ UNCHANGED <<njobs, nworking, jobBuf, notfull, notempty, notworking, round,
                 todo, workerfn, given, workerVars>>

StopWorkers ==
  /\ cpc = "delete" /\ Caller \notin notworking
  /\ ~Unfinished
  /\ njobs' = -1
  /\ WakeAll
  /\ cpc' = "reap"
  /\ UNCHANGED <<nworking, jobBuf, notfull, notworking, round, todo, workerfn,
                 given, workerVars>>

\* pthread_join of every worker, then the memory is freed.
Free ==
  /\ cpc = "reap" /\ \A w \in Workers : wpc[w] = "exited"
  /\ cpc' = "freed"
  /\ UNCHANGED <<njobs, nworking, jobBuf, notfull, notempty, notworking, round,
                 todo, workerfn, given, workerVars>>

-----------------------------------------------------------------------------
\* pthread_cond_wait may return without a signal.
SpuriousWakeup ==
  \/ /\ \E w \in notempty : notempty' = notempty \ {w}
     /\ UNCHANGED <<njobs, nworking, jobBuf, notfull, notworking, workerVars,
                    callerVars>>
  \/ /\ notfull # {} /\ notfull' = {}
     /\ UNCHANGED <<njobs, nworking, jobBuf, notempty, notworking, workerVars,
                    callerVars>>
  \/ /\ notworking # {} /\ notworking' = {}
     /\ UNCHANGED <<njobs, nworking, jobBuf, notfull, notempty, workerVars,
                    callerVars>>

Worker(w) == WaitForJob(w) \/ Exit(w) \/ TakeJob(w) \/ RunJob(w) \/ FinishJob(w)

\* The steps of a call the caller has made; beginning one is up to it.
InCall == WaitForRoom \/ Commit \/ BeginJoin \/ WaitForWorkers \/ EndJoin
          \/ StopWorkers \/ Free

Next ==
  \/ \E w \in Workers : Worker(w)
  \/ \E n \in 0..MaxParts : BeginRound(n)
  \/ InCall \/ BeginDelete \/ SpuriousWakeup

Spec == Init /\ [][Next]_vars

\* A thread that is neither waiting on a condition nor blocked in
\* pthread_join runs, gets the lock in the end, and a worker function returns.
FairSpec == Spec /\ WF_vars(InCall) /\ \A w \in Workers : WF_vars(Worker(w))

-----------------------------------------------------------------------------
(* Properties *)

Buffered == {jobBuf[s] : s \in {t \in Slots : t < njobs}}
Busy     == {w \in Workers : wpc[w] \in {"taken", "ran"}}
Held     == {job[w] : w \in Busy}

TypeOK ==
  /\ njobs \in -1..QueuedJobs
  /\ nworking \in Nat
  /\ jobBuf \in [Slots -> Jobs \union {NoJob}]
  /\ workerfn \in 0..MaxRounds
  /\ notfull \in SUBSET {Caller} /\ notempty \in SUBSET Workers
  /\ notworking \in SUBSET {Caller}
  /\ wpc \in [Workers -> {"idle", "taken", "ran", "exited"}]
  /\ job \in [Workers -> Jobs \union {NoJob}]
  /\ cpc \in {"ready", "commit", "join", "delete", "reap", "freed"}
  /\ round \in 0..MaxRounds /\ todo \in 0..MaxParts
  /\ runs \in [Jobs -> Nat]
  /\ given \in SUBSET Jobs

\* workbench_join returns, and with it the stack frame that holds the jobs'
\* parameters goes, only when every job committed so far has been run, once and
\* by the function of its own round, and no worker holds or will take one.
JoinSafe ==
  cpc \in {"ready", "delete", "reap", "freed"} =>
    /\ \A j \in given : runs[j] = 1
    /\ Held = {} /\ Buffered = {}

\* No job is run twice, or in two threads at the same time.
ExactlyOnce ==
  /\ \A j \in Jobs : runs[j] <= 1
  /\ \A v, w \in Busy : v # w => job[v] # job[w]
  /\ Held \intersect Buffered = {}

\* nworking, which join waits for, counts the jobs in the buffer and those that
\* workers hold.
Accounting == njobs >= 0 => nworking = njobs + Cardinality(Busy)

\* No wakeup is lost: whoever waits has something to wait for, and while the
\* buffer holds a job, or the workers are to end, some worker is not waiting.
NoLostWakeup ==
  /\ Caller \in notfull => njobs = QueuedJobs
  /\ Caller \in notworking => nworking > 0
  /\ njobs > 0 => \E w \in Workers : w \notin notempty /\ wpc[w] # "exited"
  /\ njobs < 0 => notempty = {}

\* process_block_parallel returns: neither commit at a full buffer nor join
\* blocks for ever.
RoundEnds == cpc = "commit" ~> cpc = "ready"

\* workbench_delete returns: every worker ends.
DeleteEnds == cpc = "delete" ~> cpc = "freed"

\* The workbench implements the pool of jobs.
Pool == INSTANCE JobPool WITH submitted <- given,
                              finished <- {j \in Jobs : runs[j] > 0},
                              open <- cpc \in {"commit", "join"}
PoolSpec == Pool!Spec

=============================================================================
