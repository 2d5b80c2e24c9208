--------------------------- MODULE WorkbenchProofs ---------------------------
(***************************************************************************)
(* Proofs about Workbench, for any number of workers, any buffer, any      *)
(* number of rounds and jobs.  The four invariants that the runs check are *)
(* proved together, from one inductive invariant: that each job given is   *)
(* at every moment in exactly one place, and what the caller's position    *)
(* says of the counters.                                                   *)
(***************************************************************************)
EXTENDS Workbench, FiniteSetTheorems, TLAPS

USE DEF WakeWorker, WakeCommitter, WakeJoiner

-----------------------------------------------------------------------------
(* The inductive invariant *)

\* Jobs in the buffer: of the current round, given, not run, no two the same.
BufferHolds ==
  /\ \A s \in Slots : s < njobs =>
       jobBuf[s] \in given /\ jobBuf[s].round = round /\ runs[jobBuf[s]] = 0
  /\ \A s, t \in Slots : s < njobs /\ t < njobs /\ s # t => jobBuf[s] # jobBuf[t]

\* Jobs that workers hold: before the call not run, after it run once.
WorkersHold ==
  /\ \A w \in Workers : wpc[w] = "taken" =>
       job[w] \in given /\ job[w].round = round /\ runs[job[w]] = 0
  /\ \A w \in Workers : wpc[w] = "ran" => job[w] \in given /\ runs[job[w]] = 1

\* No job is in two places.
NotTwice ==
  /\ \A v, w \in Busy : v # w => job[v] # job[w]
  /\ \A w \in Busy, s \in Slots : s < njobs => job[w] # jobBuf[s]

\* No job is lost.
Queuing(j) == \E s \in Slots : s < njobs /\ jobBuf[s] = j
Running(j) == \E w \in Workers : wpc[w] = "taken" /\ job[w] = j

NotLost ==
  /\ \A j \in Jobs : j \notin given => runs[j] = 0
  /\ \A j \in given : runs[j] = 1 \/ Queuing(j) \/ Running(j)

\* The next job is a new one.
Numbered ==
  \A j \in given : j.round <= round /\ (j.round = round => j.part > todo)

\* What the place of the caller and of a worker says of the counters.
Phases ==
  /\ njobs < 0 <=> cpc \in {"reap", "freed"}
  /\ cpc \in {"ready", "delete", "reap", "freed"} => nworking = 0
  /\ cpc \in {"commit", "join"} => round > 0
  /\ Caller \in notfull => cpc = "commit" /\ todo > 0
  /\ Caller \in notworking => cpc \in {"join", "delete"}
  /\ notempty \subseteq {w \in Workers : wpc[w] = "idle"}
  /\ \A w \in Workers : wpc[w] = "exited" => njobs < 0
  /\ workerfn = round
  /\ njobs < 0 => Busy = {}

IInv ==
  /\ TypeOK /\ BufferHolds /\ WorkersHold /\ NotTwice /\ NotLost /\ Numbered
  /\ Phases /\ Accounting /\ NoLostWakeup

-----------------------------------------------------------------------------
(* Counting the workers that hold a job *)

\* Sets of workers are finite, and so is the number of busy ones.
LEMMA BusyFinite ==
  /\ IsFiniteSet(Busy) /\ Cardinality(Busy) \in Nat
  /\ Cardinality(Busy) = 0 => Busy = {}
<1>1. Busy \subseteq Workers
  BY DEF Busy
<1>2. IsFiniteSet(Busy)
  BY <1>1, WorkbenchAssumption, FS_Subset
<1> QED
  BY <1>2, FS_CardinalityType, FS_EmptySet

\* Taking a job makes one more worker busy.
LEMMA BusyGrows ==
  ASSUME TypeOK, NEW w \in Workers, wpc[w] = "idle",
         wpc' = [wpc EXCEPT ![w] = "taken"]
  PROVE  /\ Busy' = Busy \union {w} /\ w \notin Busy
         /\ Cardinality(Busy') = Cardinality(Busy) + 1
<1>1. Busy' = Busy \union {w} /\ w \notin Busy
  BY DEF Busy, TypeOK
<1> QED
  BY <1>1, BusyFinite, FS_AddElement

\* Finishing one makes it one less.
LEMMA BusyShrinks ==
  ASSUME TypeOK, NEW w \in Workers, wpc[w] = "ran",
         wpc' = [wpc EXCEPT ![w] = "idle"]
  PROVE  /\ Busy' = Busy \ {w} /\ w \in Busy
         /\ Cardinality(Busy') = Cardinality(Busy) - 1
         /\ Cardinality(Busy) > 0
<1>1. Busy' = Busy \ {w} /\ w \in Busy
  BY DEF Busy, TypeOK
<1>2. Cardinality(Busy') = Cardinality(Busy) - 1
  BY <1>1, BusyFinite, FS_RemoveElement
<1>3. Cardinality(Busy) # 0
  BY <1>1, BusyFinite
<1> QED
  BY <1>1, <1>2, <1>3, BusyFinite

\* With no job committed and unfinished there is none in the buffer or held.
LEMMA NothingLeft ==
  ASSUME TypeOK, Accounting, njobs >= 0, nworking = 0
  PROVE  njobs = 0 /\ Busy = {}
  BY BusyFinite DEF TypeOK, Accounting

\* A signal takes at most one thread out of a wait set.
LEMMA SignalledFacts ==
  ASSUME NEW waiting, NEW rest, Signalled(waiting, rest)
  PROVE  /\ rest \subseteq waiting
         /\ waiting # {} => rest # waiting
         /\ \A t : waiting \subseteq {t} => rest = {}
  BY DEF Signalled

-----------------------------------------------------------------------------
(* The inductive invariant holds initially and is preserved by every action *)

\* workbench_create leaves nothing buffered, held or waiting.
LEMMA IInvInit == Init => IInv
<1> SUFFICES ASSUME Init PROVE IInv
  OBVIOUS
<1> USE WorkbenchAssumption DEF Init
<1>1. Busy = {} /\ Cardinality(Busy) = 0
  <2>1. Busy = {}
    BY DEF Busy
  <2> QED
    BY <2>1, FS_EmptySet
<1>2. TypeOK
  BY DEF TypeOK, Rounds
<1>3. BufferHolds /\ WorkersHold /\ NotLost /\ Numbered
  BY DEF BufferHolds, WorkersHold, NotLost, Numbered, Slots
<1>4. NotTwice
  BY <1>1 DEF NotTwice
<1>5. Phases /\ NoLostWakeup
  BY <1>1 DEF Phases, NoLostWakeup
<1>6. Accounting
  BY <1>1 DEF Accounting
<1> QED
  BY <1>2, <1>3, <1>4, <1>5, <1>6 DEF IInv

\* What is said of jobs depends on these variables only.
Places == BufferHolds /\ WorkersHold /\ NotTwice /\ NotLost /\ Numbered /\ Accounting

\* A step that moves no job keeps what is said of the places of jobs.
LEMMA PlacesUnchanged ==
  ASSUME Places,
         UNCHANGED <<njobs, nworking, jobBuf, wpc, job, runs, round, todo, given>>
  PROVE  Places' /\ Busy' = Busy
  BY DEF Places, BufferHolds, WorkersHold, NotTwice, NotLost, Numbered,
         Accounting, Queuing, Running, Busy

\* The waits.  Whoever starts to wait has read its condition under the lock.
LEMMA WaitForJobStep ==
  ASSUME IInv, NEW w \in Workers, WaitForJob(w)  PROVE  IInv'
<1> USE DEF WaitForJob, workerVars, callerVars
<1>1. Places' /\ Busy' = Busy
  BY PlacesUnchanged DEF IInv, Places
<1>2. TypeOK'
  BY DEF IInv, TypeOK
<1>3. Phases'
  BY <1>1 DEF IInv, Phases
<1>4. NoLostWakeup'
  BY DEF IInv, NoLostWakeup
<1> QED
  BY <1>1, <1>2, <1>3, <1>4 DEF IInv, Places

\* A caller waits for room only while the buffer is full.
LEMMA WaitForRoomStep ==
  ASSUME IInv, WaitForRoom  PROVE  IInv'
<1> USE DEF WaitForRoom, workerVars, callerVars
<1>1. Places' /\ Busy' = Busy
  BY PlacesUnchanged DEF IInv, Places
<1>2. TypeOK'
  BY DEF IInv, TypeOK
<1>3. Phases'
  BY <1>1 DEF IInv, Phases
<1>4. NoLostWakeup'
  BY DEF IInv, NoLostWakeup, Full
<1> QED
  BY <1>1, <1>2, <1>3, <1>4 DEF IInv, Places

\* join and delete wait only while a job is unfinished.
LEMMA WaitForWorkersStep ==
  ASSUME IInv, WaitForWorkers  PROVE  IInv'
<1> USE DEF WaitForWorkers, workerVars, callerVars
<1>1. Places' /\ Busy' = Busy
  BY PlacesUnchanged DEF IInv, Places
<1>2. TypeOK'
  BY DEF IInv, TypeOK
<1>3. Phases'
  BY <1>1 DEF IInv, Phases
<1>4. NoLostWakeup'
  BY DEF IInv, NoLostWakeup, Unfinished
<1> QED
  BY <1>1, <1>2, <1>3, <1>4 DEF IInv, Places

\* A wait that ends by itself makes nobody wait.
LEMMA SpuriousWakeupStep ==
  ASSUME IInv, SpuriousWakeup  PROVE  IInv'
<1> USE DEF SpuriousWakeup, workerVars, callerVars
<1>1. Places' /\ Busy' = Busy
  BY PlacesUnchanged DEF IInv, Places
<1>2. TypeOK'
  BY DEF IInv, TypeOK
<1>3. Phases'
  BY <1>1 DEF IInv, Phases
<1>4. NoLostWakeup'
  BY DEF IInv, NoLostWakeup
<1> QED
  BY <1>1, <1>2, <1>3, <1>4 DEF IInv, Places

\* The caller moves on without touching the buffer.
LEMMA BeginJoinStep ==
  ASSUME IInv, BeginJoin  PROVE  IInv'
<1> USE DEF BeginJoin, workerVars
<1>1. Places' /\ Busy' = Busy
  BY PlacesUnchanged DEF IInv, Places
<1>2. TypeOK'
  BY DEF IInv, TypeOK
<1>3. Phases'
  BY <1>1 DEF IInv, Phases, TypeOK
<1>4. NoLostWakeup'
  BY DEF IInv, NoLostWakeup
<1> QED
  BY <1>1, <1>2, <1>3, <1>4 DEF IInv, Places

\* join returns only when nworking is zero.
LEMMA EndJoinStep ==
  ASSUME IInv, EndJoin  PROVE  IInv'
<1> USE DEF EndJoin, workerVars
<1>1. Places' /\ Busy' = Busy
  BY PlacesUnchanged DEF IInv, Places
<1>2. TypeOK'
  BY DEF IInv, TypeOK
<1>3. Phases'
  BY <1>1 DEF IInv, Phases, Unfinished, TypeOK
<1>4. NoLostWakeup'
  BY DEF IInv, NoLostWakeup
<1> QED
  BY <1>1, <1>2, <1>3, <1>4 DEF IInv, Places

\* Nothing is committed any more once workbench_delete is called.
LEMMA BeginDeleteStep ==
  ASSUME IInv, BeginDelete  PROVE  IInv'
<1> USE DEF BeginDelete, workerVars
<1>1. Places' /\ Busy' = Busy
  BY PlacesUnchanged DEF IInv, Places
<1>2. TypeOK'
  BY DEF IInv, TypeOK
<1>3. Phases'
  BY <1>1 DEF IInv, Phases
<1>4. NoLostWakeup'
  BY DEF IInv, NoLostWakeup
<1> QED
  BY <1>1, <1>2, <1>3, <1>4 DEF IInv, Places

\* The memory goes after the workers.
LEMMA FreeStep ==
  ASSUME IInv, Free  PROVE  IInv'
<1> USE DEF Free, workerVars
<1>1. Places' /\ Busy' = Busy
  BY PlacesUnchanged DEF IInv, Places
<1>2. TypeOK'
  BY DEF IInv, TypeOK
<1>3. Phases'
  BY <1>1 DEF IInv, Phases
<1>4. NoLostWakeup'
  BY DEF IInv, NoLostWakeup
<1> QED
  BY <1>1, <1>2, <1>3, <1>4 DEF IInv, Places

\* With nothing unfinished the buffer is empty, and the workers are told to end.
LEMMA StopWorkersStep ==
  ASSUME IInv, StopWorkers  PROVE  IInv'
<1> USE DEF StopWorkers, workerVars, IInv
<1>1. njobs = 0 /\ Busy = {} /\ nworking = 0
  <2>1. njobs >= 0 /\ nworking = 0
    BY DEF Phases, TypeOK
  <2> QED
    BY <2>1, NothingLeft
<1>2. Busy' = {}
  BY <1>1 DEF Busy
<1>3. TypeOK'
  BY WorkbenchAssumption DEF TypeOK, WakeAll
<1>4. BufferHolds' /\ WorkersHold' /\ NotTwice' /\ Numbered'
  BY <1>2 DEF BufferHolds, WorkersHold, NotTwice, Numbered, Slots
<1>5. NotLost'
  BY <1>1 DEF NotLost, Queuing, Running, Slots
<1>6. Phases' /\ NoLostWakeup'
  BY <1>1, <1>2 DEF Phases, NoLostWakeup, WakeAll
<1>7. Accounting'
  BY DEF Accounting
<1> QED
  BY <1>3, <1>4, <1>5, <1>6, <1>7

\* A worker ends only after njobs was set to -1, when it holds no job.
LEMMA ExitStep ==
  ASSUME IInv, NEW w \in Workers, Exit(w)  PROVE  IInv'
<1> USE DEF Exit, callerVars, IInv
<1>1. Busy = {} /\ Busy' = {}
  BY DEF Phases, Busy, TypeOK
<1>2. TypeOK'
  BY DEF TypeOK
<1>3. BufferHolds' /\ Numbered'
  BY DEF BufferHolds, Numbered
<1>4. WorkersHold' /\ NotTwice'
  BY <1>1 DEF WorkersHold, NotTwice, TypeOK
<1>5. NotLost'
  <2>1. \A j : Queuing(j)' <=> Queuing(j)
    BY DEF Queuing
  <2>2. \A j : Running(j) => Running(j)'
    BY <1>1 DEF Running, Busy
  <2> QED
    BY <2>1, <2>2 DEF NotLost
<1>6. Phases' /\ NoLostWakeup'
  BY <1>1 DEF Phases, NoLostWakeup, TypeOK
<1>7. Accounting'
  BY <1>1 DEF Accounting
<1> QED
  BY <1>2, <1>3, <1>4, <1>5, <1>6, <1>7

\* The job leaves the buffer for the worker in one step.
LEMMA TakeJobStep ==
  ASSUME IInv, NEW w \in Workers, TakeJob(w)  PROVE  IInv'
<1> USE DEF TakeJob, callerVars, IInv
<1> DEFINE top == njobs - 1
<1>1. top \in Slots /\ top < njobs /\ njobs' = top /\ njobs \in Nat /\ top \in Nat
  BY WorkbenchAssumption DEF TypeOK, Slots
<1>2. job' = [job EXCEPT ![w] = jobBuf[top]]
  BY DEF TopJob
<1>3. /\ jobBuf[top] \in given /\ jobBuf[top].round = round
      /\ runs[jobBuf[top]] = 0
  BY <1>1 DEF BufferHolds
<1>4. /\ Busy' = Busy \union {w} /\ w \notin Busy
      /\ Cardinality(Busy') = Cardinality(Busy) + 1
  BY BusyGrows
<1>5. /\ job'[w] = jobBuf[top] /\ wpc'[w] = "taken"
      /\ \A v \in Workers : v # w => job'[v] = job[v] /\ wpc'[v] = wpc[v]
  BY <1>2 DEF TypeOK
<1>6. \A s \in Slots : s < njobs' => s < njobs /\ s # top
  BY <1>1 DEF Slots
<1>7. notfull' = {}
  BY SignalledFacts DEF TypeOK
<1>8. TypeOK'
  <2>1. jobBuf[top] \in Jobs \union {NoJob}
    BY <1>1 DEF TypeOK
  <2>2. njobs' \in -1..QueuedJobs
    BY <1>1, WorkbenchAssumption DEF TypeOK
  <2>3. notfull' \in SUBSET {Caller}
    BY <1>7
  <2> QED
    BY <2>1, <2>2, <2>3, <1>2 DEF TypeOK
<1>9. BufferHolds'
  BY <1>6 DEF BufferHolds
<1>10. WorkersHold'
  BY <1>3, <1>5 DEF WorkersHold
<1>11. NotTwice'
  <2>1. \A v \in Busy : job'[v] = job[v] /\ v # w
    BY <1>4, <1>5 DEF Busy
  <2>2. \A v \in Busy : job[v] # jobBuf[top]
    BY <1>1 DEF NotTwice
  <2>3. \A u, v \in Busy' : u # v => job'[u] # job'[v]
    BY <2>1, <2>2, <1>4, <1>5 DEF NotTwice
  <2>4. \A s \in Slots : s < njobs' => jobBuf[top] # jobBuf[s]
    BY <1>1, <1>6 DEF BufferHolds
  <2>5. \A v \in Busy', s \in Slots : s < njobs' => job'[v] # jobBuf'[s]
    BY <2>1, <2>4, <1>4, <1>5, <1>6 DEF NotTwice
  <2> QED
    BY <2>3, <2>5 DEF NotTwice
<1>12. NotLost'
  <2>1. ASSUME NEW j \in given, Queuing(j)  PROVE  Queuing(j)' \/ Running(j)'
    <3>1. PICK s \in Slots : s < njobs /\ jobBuf[s] = j
      BY <2>1 DEF Queuing
    <3>2. CASE s = top
      BY <3>1, <3>2, <1>5 DEF Running
    <3>3. CASE s # top
      BY <3>1, <3>3, <1>1 DEF Queuing, Slots
    <3> QED
      BY <3>2, <3>3
  <2>2. ASSUME NEW j \in given, Running(j)  PROVE  Running(j)'
    BY <2>2, <1>5 DEF Running
  <2> QED
    BY <2>1, <2>2 DEF NotLost
<1>13. Numbered'
  BY DEF Numbered
<1>14. Phases'
  BY <1>1, <1>4, <1>5, <1>7 DEF Phases, TypeOK
<1>15. Accounting'
  BY <1>1, <1>4, BusyFinite DEF Accounting, TypeOK
<1>16. NoLostWakeup'
  BY <1>1, <1>5, <1>7 DEF NoLostWakeup
<1> QED
  BY <1>8, <1>9, <1>10, <1>11, <1>12, <1>13, <1>14, <1>15, <1>16

\* The worker function runs without the lock, and in the round of its job.
LEMMA RunJobStep ==
  ASSUME IInv, NEW w \in Workers, RunJob(w)  PROVE  IInv'
<1> USE DEF RunJob, callerVars, IInv
<1> DEFINE j == job[w]
<1>1. /\ j \in given /\ j \in Jobs /\ runs[j] = 0
      /\ runs' = [runs EXCEPT ![j] = 1]
  <2>1. j \in given /\ j.round = workerfn /\ runs[j] = 0
    BY DEF WorkersHold, Phases
  <2>2. j \in Jobs
    BY <2>1 DEF TypeOK
  <2>3. runs' = [runs EXCEPT ![j] = runs[j] + 1]
    BY <2>1
  <2> QED
    BY <2>1, <2>2, <2>3
<1>2. /\ runs'[j] = 1
      /\ \A k \in Jobs : k # j => runs'[k] = runs[k]
  BY <1>1 DEF TypeOK
<1>3. /\ wpc'[w] = "ran" /\ w \in Busy
      /\ \A v \in Workers : v # w => wpc'[v] = wpc[v]
      /\ Busy' = Busy
  BY DEF TypeOK, Busy
<1>4. TypeOK'
  BY <1>1 DEF TypeOK
<1>5. BufferHolds'
  <2>1. \A s \in Slots : s < njobs => jobBuf[s] # j /\ jobBuf[s] \in Jobs
    BY <1>3 DEF NotTwice, BufferHolds, TypeOK
  <2> QED
    BY <2>1, <1>2 DEF BufferHolds
<1>6. WorkersHold'
  <2>1. \A v \in Busy : v # w => job[v] # j
    BY <1>3 DEF NotTwice
  <2> QED
    BY <2>1, <1>1, <1>2, <1>3 DEF WorkersHold, TypeOK, Busy
<1>7. NotTwice'
  BY <1>3 DEF NotTwice
<1>8. NotLost'
  <2>1. \A k : Queuing(k)' <=> Queuing(k)
    BY DEF Queuing
  <2>2. \A k : k # j /\ Running(k) => Running(k)'
    BY <1>3 DEF Running
  <2>3. \A k \in given : k \in Jobs
    BY DEF TypeOK
  <2> QED
    BY <2>1, <2>2, <2>3, <1>1, <1>2 DEF NotLost
<1>9. Numbered'
  BY DEF Numbered
<1>10. Phases' /\ NoLostWakeup' /\ Accounting'
  BY <1>3 DEF Phases, NoLostWakeup, Accounting, TypeOK
<1> QED
  BY <1>4, <1>5, <1>6, <1>7, <1>8, <1>9, <1>10

\* A worker that has finished is counted out and wakes a waiting caller.
LEMMA FinishJobStep ==
  ASSUME IInv, NEW w \in Workers, FinishJob(w)  PROVE  IInv'
<1> USE DEF FinishJob, Leaves, callerVars, IInv
<1>1. /\ Busy' = Busy \ {w} /\ w \in Busy
      /\ Cardinality(Busy') = Cardinality(Busy) - 1 /\ Cardinality(Busy) > 0
  BY BusyShrinks
<1>2. /\ wpc'[w] = "idle"
      /\ \A v \in Workers : v # w => wpc'[v] = wpc[v] /\ job'[v] = job[v]
  BY DEF TypeOK
<1>3. njobs >= 0 /\ nworking = njobs + Cardinality(Busy)
  BY <1>1 DEF Phases, Accounting, TypeOK
<1>4. nworking' \in Nat /\ nworking > 0
  BY <1>1, <1>3, BusyFinite DEF TypeOK
<1>5. notworking' = {}
  BY SignalledFacts DEF TypeOK
<1>6. TypeOK'
  BY <1>4, <1>5 DEF TypeOK
<1>7. BufferHolds' /\ Numbered'
  BY DEF BufferHolds, Numbered
<1>8. WorkersHold'
  BY <1>2 DEF WorkersHold
<1>9. NotTwice'
  <2>1. \A v \in Busy' : v \in Busy /\ job'[v] = job[v]
    BY <1>1, <1>2 DEF Busy
  <2> QED
    BY <2>1 DEF NotTwice
<1>10. NotLost'
  <2>1. \A k : Queuing(k)' <=> Queuing(k)
    BY DEF Queuing
  <2>2. \A k : Running(k) => Running(k)'
    BY <1>2 DEF Running
  <2> QED
    BY <2>1, <2>2 DEF NotLost
<1>11. Phases'
  BY <1>1, <1>2, <1>4, <1>5 DEF Phases, TypeOK
<1>12. Accounting'
  BY <1>1, <1>3, BusyFinite DEF Accounting, TypeOK
<1>13. NoLostWakeup'
  BY <1>2, <1>5 DEF NoLostWakeup, TypeOK
<1> QED
  BY <1>6, <1>7, <1>8, <1>9, <1>10, <1>11, <1>12, <1>13

\* A round begins with nothing in the buffer and nothing held, so that no job
\* meets the worker function of another round.
LEMMA BeginRoundStep ==
  ASSUME IInv, NEW n \in 0..MaxParts, BeginRound(n)  PROVE  IInv'
<1> USE DEF BeginRound, workerVars, IInv
<1>1. njobs = 0 /\ Busy = {}
  <2>1. njobs >= 0 /\ nworking = 0
    BY DEF Phases, TypeOK
  <2> QED
    BY <2>1, NothingLeft
<1>2. Busy' = {}
  BY <1>1 DEF Busy
<1>3. TypeOK'
  BY WorkbenchAssumption DEF TypeOK
<1>4. BufferHolds' /\ WorkersHold' /\ NotTwice'
  BY <1>1, <1>2 DEF BufferHolds, WorkersHold, NotTwice, Slots, Busy
<1>5. NotLost'
  BY DEF NotLost, Queuing, Running
<1>6. Numbered'
  <2>1. \A j \in given : j.round \in Nat /\ j.round <= round
    BY DEF Numbered, TypeOK, Jobs, Rounds
  <2> QED
    BY <2>1 DEF Numbered, TypeOK
<1>7. Phases' /\ NoLostWakeup'
  BY <1>1, <1>2 DEF Phases, NoLostWakeup, TypeOK
<1>8. Accounting'
  BY <1>1, <1>2 DEF Accounting
<1> QED
  BY <1>3, <1>4, <1>5, <1>6, <1>7, <1>8

\* A new job enters the buffer, behind the others, and a worker is woken.
LEMMA CommitStep ==
  ASSUME IInv, Commit  PROVE  IInv'
<1> USE DEF Commit, workerVars, IInv
<1> DEFINE new == [round |-> round, part |-> todo]
<1>1. njobs \in Slots /\ njobs \in Nat /\ njobs + 1 \in -1..QueuedJobs
  BY WorkbenchAssumption DEF TypeOK, Phases, Slots, Full
<1>2. new \in Jobs /\ new \notin given /\ runs[new] = 0
  <2>1. new \in Jobs
    BY WorkbenchAssumption DEF TypeOK, Phases, Jobs, Rounds
  <2>2. new \notin given
    BY DEF Numbered, TypeOK
  <2> QED
    BY <2>1, <2>2 DEF NotLost
<1>3. /\ jobBuf'[njobs] = new
      /\ \A s \in Slots : s # njobs => jobBuf'[s] = jobBuf[s]
      /\ \A s \in Slots : s < njobs' => s < njobs \/ s = njobs
  BY <1>1 DEF TypeOK, Slots
<1>4. Busy' = Busy
  BY DEF Busy
<1>5. \E w \in Workers : w \notin notempty' /\ wpc'[w] # "exited"
  <2>1. CASE notempty = {}
    <3>1. notempty' = {}
      BY <2>1, SignalledFacts
    <3> QED
      BY <3>1, <1>1, WorkbenchAssumption DEF Phases
  <2>2. CASE notempty # {}
    BY <2>2 DEF Signalled, Phases
  <2> QED
    BY <2>1, <2>2
<1>6. TypeOK'
  <2>1. notempty' \in SUBSET Workers
    BY SignalledFacts DEF TypeOK
  <2>2. todo' \in 0..MaxParts /\ nworking' \in Nat
    BY WorkbenchAssumption DEF TypeOK
  <2> QED
    BY <1>1, <1>2, <2>1, <2>2 DEF TypeOK
<1>7. BufferHolds'
  <2>1. \A s \in Slots : s < njobs => jobBuf[s] # new
    BY <1>2 DEF BufferHolds
  <2>2. \A s \in Slots : s < njobs' =>
          jobBuf'[s] \in given' /\ jobBuf'[s].round = round /\ runs[jobBuf'[s]] = 0
    BY <1>2, <1>3 DEF BufferHolds
  <2>3. \A s, t \in Slots : s < njobs' /\ t < njobs' /\ s # t => jobBuf'[s] # jobBuf'[t]
    BY <2>1, <1>3 DEF BufferHolds
  <2> QED
    BY <2>2, <2>3 DEF BufferHolds
<1>8. WorkersHold'
  BY DEF WorkersHold
<1>9. NotTwice'
  <2>1. \A w \in Busy : job[w] # new
    BY <1>2 DEF WorkersHold, Busy
  <2> QED
    BY <2>1, <1>3, <1>4 DEF NotTwice
<1>10. NotLost'
  <2>1. \A k : Queuing(k) => Queuing(k)'
    BY <1>1, <1>3 DEF Queuing, Slots
  <2>2. \A k : Running(k) => Running(k)'
    BY DEF Running
  <2>3. \A k : k = new => Queuing(k)'
    BY <1>1, <1>3 DEF Queuing
  <2> QED
    BY <2>1, <2>2, <2>3 DEF NotLost
<1>11. Numbered'
  BY DEF Numbered, TypeOK, Jobs
<1>12. Phases'
  BY <1>1, <1>4, SignalledFacts DEF Phases, TypeOK
<1>13. Accounting'
  BY <1>1, <1>4, BusyFinite DEF Accounting, TypeOK
<1>14. NoLostWakeup'
  BY <1>1, <1>5 DEF NoLostWakeup, TypeOK
<1> QED
  BY <1>6, <1>7, <1>8, <1>9, <1>10, <1>11, <1>12, <1>13, <1>14

\* Every step of every thread keeps the invariant.
LEMMA IInvNext == IInv /\ [Next]_vars => IInv'
<1> SUFFICES ASSUME IInv, [Next]_vars PROVE IInv'
  OBVIOUS
<1>1. CASE \E w \in Workers : Worker(w)
  BY <1>1, WaitForJobStep, ExitStep, TakeJobStep, RunJobStep, FinishJobStep DEF Worker
<1>2. CASE \E n \in 0..MaxParts : BeginRound(n)
  BY <1>2, BeginRoundStep
<1>3. CASE InCall
  BY <1>3, WaitForRoomStep, CommitStep, BeginJoinStep, WaitForWorkersStep,
     EndJoinStep, StopWorkersStep, FreeStep DEF InCall
<1>4. CASE BeginDelete \/ SpuriousWakeup
  BY <1>4, BeginDeleteStep, SpuriousWakeupStep
<1>5. CASE UNCHANGED vars
  <2> USE <1>5 DEF vars
  <2>1. Places' /\ Busy' = Busy
    BY PlacesUnchanged DEF IInv, Places
  <2>2. TypeOK' /\ NoLostWakeup'
    BY DEF IInv, TypeOK, NoLostWakeup
  <2>3. Phases'
    BY <2>1 DEF IInv, Phases
  <2> QED
    BY <2>1, <2>2, <2>3 DEF IInv, Places
<1> QED
  BY <1>1, <1>2, <1>3, <1>4, <1>5 DEF Next

\* IInv holds in every reachable state of every instance: any number of workers,
\* any size of the buffer, any rounds.
THEOREM Invariant == Spec => []IInv
  BY IInvInit, IInvNext, PTL DEF Spec

-----------------------------------------------------------------------------
(* What follows from it *)

\* The counters stay in their ranges, the buffer in its bounds: njobs never
\* passes QUEUED_JOBS and never goes below zero while there is work.
THEOREM TypeCorrect == Spec => []TypeOK
<1>1. IInv => TypeOK
  BY DEF IInv
<1> QED
  BY <1>1, Invariant, PTL

\* nworking counts the jobs in the buffer and those that workers hold.
THEOREM NworkingCounts == Spec => []Accounting
<1>1. IInv => Accounting
  BY DEF IInv
<1> QED
  BY <1>1, Invariant, PTL

\* No thread waits without a reason and without somebody to wake it.
THEOREM WakeupsKept == Spec => []NoLostWakeup
<1>1. IInv => NoLostWakeup
  BY DEF IInv
<1> QED
  BY <1>1, Invariant, PTL

\* No job is run twice or held by two threads.
THEOREM RunsOnce == Spec => []ExactlyOnce
<1>1. ASSUME IInv PROVE ExactlyOnce
  <2> USE <1>1 DEF IInv
  <2>1. \A j \in Jobs : runs[j] <= 1
    <3> SUFFICES ASSUME NEW j \in Jobs PROVE runs[j] <= 1
      OBVIOUS
    <3>1. CASE j \notin given
      BY <3>1 DEF NotLost
    <3>2. CASE Queuing(j)
      BY <3>2 DEF Queuing, BufferHolds
    <3>3. CASE Running(j)
      BY <3>3 DEF Running, WorkersHold
    <3> QED
      BY <3>1, <3>2, <3>3 DEF NotLost
  <2>2. Held \intersect Buffered = {}
    BY DEF NotTwice, Held, Buffered
  <2> QED
    BY <2>1, <2>2 DEF ExactlyOnce, NotTwice
<1> QED
  BY <1>1, Invariant, PTL

\* With nothing unfinished, which is when a join ends, there is nothing in the
\* buffer or in a worker's hands.
LEMMA Emptied ==
  ASSUME IInv, nworking = 0
  PROVE  njobs <= 0 /\ Busy = {} /\ \A j \in given : runs[j] = 1
<1> USE DEF IInv
<1>1. njobs <= 0 /\ Busy = {}
  <2>1. CASE njobs < 0
    BY <2>1 DEF Phases, TypeOK
  <2>2. CASE njobs >= 0
    BY <2>2, NothingLeft
  <2> QED
    BY <2>1, <2>2 DEF TypeOK
<1>2. \A j : ~Queuing(j) /\ ~Running(j)
  BY <1>1 DEF Queuing, Running, Busy, Slots, TypeOK
<1> QED
  BY <1>1, <1>2 DEF NotLost

\* process_block_parallel may let its parameters go when join returns.
THEOREM JoinIsSafe == Spec => []JoinSafe
<1>1. ASSUME IInv PROVE JoinSafe
  <2> SUFFICES ASSUME cpc \in {"ready", "delete", "reap", "freed"}
               PROVE  /\ \A j \in given : runs[j] = 1
                      /\ Held = {} /\ Buffered = {}
    BY DEF JoinSafe
  <2>1. njobs <= 0 /\ Busy = {} /\ \A j \in given : runs[j] = 1
    BY <1>1, Emptied DEF IInv, Phases
  <2>2. Held = {} /\ Buffered = {}
    BY <1>1, <2>1 DEF Held, Buffered, Slots, IInv, TypeOK
  <2> QED
    BY <2>1, <2>2
<1> QED
  BY <1>1, Invariant, PTL

-----------------------------------------------------------------------------
(* Every step of the workbench is a step of the pool of jobs, or none *)

\* A new workbench is a new pool.
LEMMA PoolInit == Init => Pool!Init
  BY DEF Init, Pool!Init

\* Committing is submitting, running is finishing, the rest is not seen.
LEMMA PoolStep == IInv /\ [Next]_vars => [Pool!Next]_(Pool!vars)
<1> SUFFICES ASSUME IInv, [Next]_vars PROVE [Pool!Next]_(Pool!vars)
  OBVIOUS
<1> DEFINE finished == {j \in Jobs : runs[j] > 0}
           open     == cpc \in {"commit", "join"}
<1>1. CASE UNCHANGED <<cpc, given, runs>>
  BY <1>1 DEF Pool!vars
<1>2. ASSUME NEW w \in Workers, RunJob(w)  PROVE [Pool!Next]_(Pool!vars)
  <2> DEFINE j == job[w]
  <2>1. j \in given /\ runs[j] = 0 /\ j.round = workerfn
    BY <1>2 DEF IInv, WorkersHold, Phases, RunJob
  <2>2. j \in Jobs
    BY <2>1 DEF IInv, TypeOK
  <2>3. runs' = [runs EXCEPT ![j] = runs[j] + 1]
    BY <1>2, <2>1 DEF RunJob
  <2>4. finished' = finished \union {j} /\ j \notin finished
    BY <2>1, <2>2, <2>3 DEF IInv, TypeOK
  <2>5. given' = given /\ open' = open
    BY <1>2 DEF RunJob, callerVars
  <2>6. \E k \in Jobs : Pool!Finish(k)
    BY <2>1, <2>2, <2>4, <2>5 DEF Pool!Finish
  <2> QED
    BY <2>6 DEF Pool!Next
<1>3. ASSUME NEW n \in 0..MaxParts, BeginRound(n)  PROVE [Pool!Next]_(Pool!vars)
  BY <1>3 DEF BeginRound, workerVars, Pool!Next, Pool!Begin
<1>4. CASE Commit
  <2> DEFINE new == [round |-> round, part |-> todo]
  <2>1. new \in Jobs
    BY <1>4, WorkbenchAssumption DEF Commit, IInv, TypeOK, Phases, Jobs, Rounds
  <2>2. new \notin given
    BY DEF IInv, Numbered, TypeOK
  <2>3. Pool!Submit(new)
    BY <1>4, <2>2 DEF Commit, workerVars, Pool!Submit
  <2> QED
    BY <2>1, <2>3 DEF Pool!Next
<1>5. CASE EndJoin
  <2>1. nworking = 0
    BY <1>5 DEF EndJoin, Unfinished, IInv, TypeOK
  <2>2. \A j \in given : runs[j] = 1
    BY <2>1, Emptied
  <2>3. finished = given
    BY <2>2 DEF IInv, NotLost, TypeOK
  <2>4. Pool!End
    BY <1>5, <2>3 DEF EndJoin, workerVars, Pool!End
  <2> QED
    BY <2>4 DEF Pool!Next
<1>6. CASE BeginJoin \/ BeginDelete \/ StopWorkers \/ Free
  BY <1>6 DEF BeginJoin, BeginDelete, StopWorkers, Free, workerVars, Pool!vars
<1> QED
  BY <1>1, <1>2, <1>3, <1>4, <1>5, <1>6
  DEF Next, Worker, InCall, vars, WaitForJob, Exit, TakeJob, FinishJob,
      WaitForRoom, WaitForWorkers, SpuriousWakeup, workerVars, callerVars

\* The workbench keeps the pool's safety; that rounds end is checked by TLC.
THEOREM ImplementsPool == Spec => Pool!Init /\ [][Pool!Next]_(Pool!vars)
  BY PoolInit, PoolStep, Invariant, PTL DEF Spec
=============================================================================
