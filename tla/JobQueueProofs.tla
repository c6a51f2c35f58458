--------------------------- MODULE JobQueueProofs ----------------------------
(***************************************************************************)
(* Proofs about JobWorker with a single worker process, as the deployment  *)
(* runs it: the structs it holds are never stale, what it repeats is due   *)
(* to crashes, and its tables implement the abstract queue of JobQueue.    *)
(* Any sets of jobs and workers, any limits and number of crashes.  With a *)
(* second process none of this holds (run job_worker_overlap).             *)
(*                                                                         *)
(* AInv adds to IInv what a lone process knows: nobody else writes a row   *)
(* between its selection and its record (SnapshotCurrent), so that each    *)
(* call of work_job is either still to be recorded, is recorded in the     *)
(* tables, or was lost by a crash (RepeatsCounted).                        *)
(***************************************************************************)
EXTENDS JobWorkerProofs

SingleProcess == \A p, q \in Processes : p = q

(* The job has been worked, and the outcome is yet to be recorded. *)
DoneNow(j) == \E p \in Processes : at[p][j] \in {"res_ok", "succeeded"}
ErredNow(j) == \E p \in Processes : Erred(p, j)

Deleted(j) == j \in used /\ job[j] = NoRow

(* Calls of work_job that neither the tables nor a struct in flight know   *)
(* of are at most as many as crashes.                                      *)
RepeatsCounted ==
    \A j \in Jobs :
        /\ successes[j] <= crashes + (IF Deleted(j) \/ DoneNow(j) THEN 1 ELSE 0)
        /\ Deleted(j) => failures[j] <= crashes + MaxErrors
        /\ ~Deleted(j) =>
              failures[j] <= crashes + QueueErrors(j) + (IF ErredNow(j) THEN 1 ELSE 0)

AInv == IInv /\ SnapshotCurrent /\ RepeatsCounted

(* A history counter grows by one at most. *)
LEMMA BumpBound ==
    ASSUME NEW counter \in [Jobs -> 0..HistoryCap], NEW j \in Jobs
    PROVE  \A i \in Jobs :
               /\ Bump(counter, j)[i] <= counter[i] + 1
               /\ i # j => Bump(counter, j)[i] = counter[i]
BY MaxErrorsAssumption, CrashesAssumption DEF Bump, HistoryCap

(* A row and its errors are numbers below the limit. *)
LEMMA ErrorsBounded ==
    ASSUME IInv, NEW j \in Jobs
    PROVE  QueueErrors(j) \in Nat /\ QueueErrors(j) <= MaxErrors
BY MaxErrorsAssumption DEF IInv, Types, Rows, QueueErrors, JobRow

LEMMA SnapshotStep ==
    ASSUME SingleProcess, IInv, SnapshotCurrent, [Next]_vars
    PROVE  SnapshotCurrent'
<1>. USE DEF IInv, Types, SnapshotCurrent, InFlight, Erred
<1>1. CASE UNCHANGED <<at, copy, job>>
  BY <1>1
<1>2. ASSUME NEW j \in Jobs, NEW name \in Names, Enqueue(j, name)
      PROVE  SnapshotCurrent'
  <2>1. \A p \in Processes : at[p][j] = "none"
    BY <1>2 DEF Enqueue, IdsUsed
  <2>2. \A i \in Jobs : i # j => job'[i] = job[i]
    BY <1>2 DEF Enqueue
  <2>3. UNCHANGED <<at, copy>>
    BY <1>2 DEF Enqueue
  <2>4. \A q \in Processes, i \in Jobs : at[q][i] # "none" => job'[i] = job[i]
    BY <2>1, <2>2
  <2>. HIDE DEF IInv, Types
  <2>. QED
    BY <2>3, <2>4
<1>3. ASSUME NEW j \in Jobs, Tick(j)
      PROVE  SnapshotCurrent'
  <2>1. job[j] \in JobRow
    BY <1>3 DEF Tick
  <2>2. Row(job[j].name, job[j].live, job[j].num_errors, TRUE) \in JobRow
    BY <2>1, RowType DEF JobRow
  <2>3. /\ job'[j] # NoRow
        /\ job'[j].live = job[j].live
        /\ job'[j].name = job[j].name
        /\ job'[j].num_errors = job[j].num_errors
        /\ \A i \in Jobs : i # j => job'[i] = job[i]
    BY <1>3, <2>2, NoRowAssumption DEF Tick, Row
  <2>4. UNCHANGED <<at, copy>>
    BY <1>3 DEF Tick
  <2>5. ASSUME NEW i \in Jobs, job[i] # NoRow
        PROVE  /\ job'[i] # NoRow
               /\ job'[i].live = job[i].live
               /\ job'[i].name = job[i].name
               /\ job'[i].num_errors = job[i].num_errors
    BY <2>3, <2>5
  <2>. HIDE DEF IInv, Types
  <2>. QED
    BY <2>4, <2>5
<1>4. ASSUME NEW p \in Processes, Lose(p)
      PROVE  SnapshotCurrent'
  BY <1>4 DEF Lose, dbVars
<1>5. ASSUME NEW p \in Processes, SelectJobs(p)
      PROVE  SnapshotCurrent'
  <2>1. PICK batch \in SUBSET Ready : TakeBatch(p, batch)
    BY <1>5 DEF SelectJobs
  <2>2. \A j \in Jobs : at[p][j] = "none"
    BY <1>5 DEF SelectJobs, Phases
  <2>3. \A j \in Jobs :
            \/ j \in batch /\ at'[p][j] = "batch" /\ copy'[p][j] = job[j]
            \/ j \notin batch /\ at'[p][j] = "none"
    BY <2>1, <2>2 DEF TakeBatch
  <2>4. \A j \in batch : /\ job[j] \in JobRow /\ job[j] # NoRow
                         /\ job[j].live /\ job[j].num_errors < MaxErrors
                         /\ job[j].num_errors + 0 = job[j].num_errors
    BY DEF Ready, Rows, JobRow
  <2>5. job' = job
    BY <1>5 DEF SelectJobs, dbVars
  <2>6. ASSUME NEW i \in Jobs, at'[p][i] # "none"
        PROVE  /\ i \in batch /\ copy'[p][i] = job[i] /\ at'[p][i] = "batch"
    BY <2>3, <2>6
  <2>. QED
    BY <2>4, <2>5, <2>6 DEF SingleProcess
<1>6. ASSUME NEW p \in Processes, SendJob(p) \/ WaitResult(p)
      PROVE  SnapshotCurrent'
  <2>1. PICK j \in Jobs, x \in {"work", "succeeded", "errored"} :
            /\ at[p][j] # "none"
            /\ x = "errored" <=> Erred(p, j)
            /\ at' = [at EXCEPT ![p][j] = x]
    BY <1>6 DEF SendJob, WaitResult, Results, PlaceOf
  <2>2. \A q \in Processes, i \in Jobs :
            at'[q][i] = IF q = p /\ i = j THEN x ELSE at[q][i]
    BY <2>1, Moved
  <2>3. UNCHANGED <<copy, job>>
    BY <1>6 DEF SendJob, WaitResult, dbVars
  <2>. QED
    BY <2>1, <2>2, <2>3
<1>7. ASSUME NEW p \in Processes, RecordResults(p)
      PROVE  SnapshotCurrent'
  <2>1. \A j \in Jobs : at'[p][j] = "none"
    BY <1>7, NothingOut DEF RecordResults, PlaceOf
  <2>. QED
    BY <2>1 DEF SingleProcess
<1>8. ASSUME NEW p \in Processes, NEW w \in Workers, ReceiveJob(p, w) \/ JobOk(p, w)
      PROVE  SnapshotCurrent'
  <2>1. PICK j \in Jobs, x \in {w, "res_ok"} :
            /\ at[p][j] \in {"work", w}
            /\ at' = [at EXCEPT ![p][j] = x]
    BY <1>8 DEF ReceiveJob, JobOk, PlaceOf
  <2>2. \A q \in Processes, i \in Jobs :
            at'[q][i] = IF q = p /\ i = j THEN x ELSE at[q][i]
    BY <2>1, Moved
  <2>3. w \notin {"none", "res_err", "errored"} /\ UNCHANGED <<copy, job>>
    BY <1>8, WorkerPlace DEF ReceiveJob, JobOk, Stages, dbVars
  <2>. QED
    BY <2>1, <2>2, <2>3
<1>9. ASSUME NEW p \in Processes, NEW w \in Workers, JobErr(p, w)
      PROVE  SnapshotCurrent'
  <2>1. PICK j \in PlaceOf(p, w) :
            /\ at' = [at EXCEPT ![p][j] = "res_err"]
            /\ copy' = [copy EXCEPT ![p][j] = CreateErroredJob(@)]
    BY <1>9 DEF JobErr
  <2>2. /\ j \in Jobs /\ at[p][j] \notin {"none", "res_err", "errored"}
        /\ copy[p][j] \in JobRow /\ copy[p][j].num_errors \in Nat
    BY WorkerPlace DEF PlaceOf, Stages, Structs, JobRow
  <2>3. \A q \in Processes, i \in Jobs :
            at'[q][i] = IF q = p /\ i = j THEN "res_err" ELSE at[q][i]
    BY <2>1, <2>2, Moved
  <2>4. \A q \in Processes, i \in Jobs :
            copy'[q][i] = IF q = p /\ i = j THEN CreateErroredJob(copy[p][j]) ELSE copy[q][i]
    BY <2>1, <2>2
  <2>5. /\ CreateErroredJob(copy[p][j]) # NoRow
        /\ CreateErroredJob(copy[p][j]).name = copy[p][j].name
        /\ CreateErroredJob(copy[p][j]).num_errors = copy[p][j].num_errors + 1
        /\ CreateErroredJob(copy[p][j]).live
               <=> CreateErroredJob(copy[p][j]).num_errors < MaxErrors
    BY <2>2, ErroredType, NoRowAssumption
  <2>6. /\ job[j] \in JobRow /\ job[j] # NoRow /\ job[j].live
        /\ job[j].num_errors \in Nat
        /\ copy[p][j].name = job[j].name
        /\ copy[p][j].num_errors = job[j].num_errors
    BY <2>2 DEF JobRow
  <2>7. job' = job
    BY <1>9 DEF JobErr, dbVars
  <2>8. ASSUME NEW q \in Processes, NEW i \in Jobs, q = p /\ i = j
        PROVE  /\ job'[i] # NoRow /\ copy'[q][i] # NoRow /\ job'[i].live
               /\ copy'[q][i].name = job'[i].name
               /\ at'[q][i] = "res_err"
               /\ copy'[q][i].num_errors = job'[i].num_errors + 1
               /\ copy'[q][i].live <=> copy'[q][i].num_errors < MaxErrors
    BY <2>3, <2>4, <2>5, <2>6, <2>7, <2>8
  <2>9. \A q \in Processes, i \in Jobs :
            ~(q = p /\ i = j) => at'[q][i] = at[q][i] /\ copy'[q][i] = copy[q][i]
    BY <2>3, <2>4
  <2>. HIDE DEF IInv, Types
  <2>. QED
    BY <2>7, <2>8, <2>9
<1>. HIDE DEF IInv, Types
<1>. QED
  BY <1>1, <1>2, <1>3, <1>4, <1>5, <1>6, <1>7, <1>8, <1>9
  DEF Next, Control, Worker, Crash, DatabaseError, vars, dbVars, historyVars,
      Start, NoJobs, Wake, Join, RunAgain, WorkerExit

(* Outcomes in flight are those of the one process. *)
LEMMA Outcomes ==
    ASSUME SingleProcess, NEW p \in Processes, NEW j \in Jobs
    PROVE  /\ DoneNow(j) <=> at[p][j] \in {"res_ok", "succeeded"}
           /\ ErredNow(j) <=> at[p][j] \in {"res_err", "errored"}
           /\ DoneNow(j)' <=> at'[p][j] \in {"res_ok", "succeeded"}
           /\ ErredNow(j)' <=> at'[p][j] \in {"res_err", "errored"}
BY DEF SingleProcess, DoneNow, ErredNow, Erred

(* A step that works no job and records nothing keeps the count. *)
LEMMA RepeatsKept ==
    ASSUME IInv, RepeatsCounted, UNCHANGED <<successes, failures, crashes>>,
           \A j \in Jobs :
               /\ Deleted(j)' <=> Deleted(j)
               /\ QueueErrors(j)' = QueueErrors(j)
               /\ DoneNow(j) => DoneNow(j)'
               /\ ErredNow(j) => ErredNow(j)'
    PROVE  RepeatsCounted'
<1>1. \A j \in Jobs : /\ successes[j] \in Nat /\ failures[j] \in Nat
                      /\ QueueErrors(j) \in Nat
  BY ErrorsBounded DEF IInv, Types
<1>2. crashes \in Nat
  BY CrashesAssumption DEF IInv, Types
<1>. QED
  BY <1>1, <1>2 DEF RepeatsCounted

(* What the tables say of a job is what its row says. *)
LEMMA RowKept ==
    ASSUME NEW j \in Jobs, UNCHANGED <<job, used>>
    PROVE  (Deleted(j)' <=> Deleted(j)) /\ QueueErrors(j)' = QueueErrors(j)
BY DEF Deleted, QueueErrors

LEMMA RepeatsWorked ==
    ASSUME SingleProcess, AInv, NEW p \in Processes, NEW w \in Workers,
           JobOk(p, w) \/ JobErr(p, w)
    PROVE  RepeatsCounted'
<1>1. PICK j \in Jobs, x \in {"res_ok", "res_err"} :
          /\ at[p][j] = w
          /\ at' = [at EXCEPT ![p][j] = x]
          /\ x = "res_ok" => successes' = Bump(successes, j) /\ UNCHANGED failures
          /\ x = "res_err" => failures' = Bump(failures, j) /\ UNCHANGED successes
  BY DEF JobOk, JobErr, PlaceOf
<1>2. UNCHANGED <<job, used, crashes>>
  BY DEF JobOk, JobErr, dbVars
<1>. Types
  BY DEF AInv, IInv
<1>3. \A i \in Jobs : at'[p][i] = IF i = j THEN x ELSE at[p][i]
  BY <1>1 DEF Types
<1>4. at[p][j] \notin {"none", "res_ok", "res_err", "succeeded", "errored"}
  BY <1>1, WorkersAssumption DEF Stages
<1>5. ~Deleted(j)
  BY <1>4 DEF AInv, SnapshotCurrent, InFlight, Deleted
<1>6. /\ successes \in [Jobs -> 0..HistoryCap] /\ failures \in [Jobs -> 0..HistoryCap]
      /\ crashes \in Nat /\ HistoryCap \in Nat
  BY CrashesAssumption, MaxErrorsAssumption DEF AInv, IInv, Types, HistoryCap
<1>7. \A i \in Jobs : /\ x = "res_ok" => /\ successes'[i] <= successes[i] + 1
                                         /\ i # j => successes'[i] = successes[i]
                      /\ x = "res_err" => /\ failures'[i] <= failures[i] + 1
                                          /\ i # j => failures'[i] = failures[i]
  BY <1>1, <1>6, BumpBound
<1>8. \A i \in Jobs : successes'[i] \in Nat /\ failures'[i] \in Nat
  BY <1>1, <1>6, BumpType
<1>9. ASSUME NEW i \in Jobs
      PROVE  /\ successes'[i] <= crashes' + (IF Deleted(i)' \/ DoneNow(i)' THEN 1 ELSE 0)
             /\ Deleted(i)' => failures'[i] <= crashes' + MaxErrors
             /\ ~Deleted(i)' =>
                   failures'[i] <= crashes' + QueueErrors(i)' + (IF ErredNow(i)' THEN 1 ELSE 0)
  <2>1. (Deleted(i)' <=> Deleted(i)) /\ QueueErrors(i)' = QueueErrors(i)
    BY <1>2, RowKept
  <2>2. QueueErrors(i) \in Nat /\ QueueErrors(i) <= MaxErrors
    BY ErrorsBounded DEF AInv
  <2>3. /\ successes[i] <= crashes + (IF Deleted(i) \/ DoneNow(i) THEN 1 ELSE 0)
        /\ Deleted(i) => failures[i] <= crashes + MaxErrors
        /\ ~Deleted(i) =>
              failures[i] <= crashes + QueueErrors(i) + (IF ErredNow(i) THEN 1 ELSE 0)
    BY DEF AInv, RepeatsCounted
  <2>4. successes[i] \in Nat /\ failures[i] \in Nat /\ MaxErrors \in Nat
    BY <1>6, MaxErrorsAssumption
  <2>5. CASE i = j
    <3>1. ~DoneNow(i) /\ ~ErredNow(i)
      BY <1>4, <2>5, Outcomes
    <3>2. (x = "res_ok" => DoneNow(i)') /\ (x = "res_err" => ErredNow(i)')
      BY <1>3, <2>5, Outcomes
    <3>3. /\ x = "res_ok" => failures'[i] = failures[i]
          /\ x = "res_err" => successes'[i] = successes[i]
      BY <1>1
    <3>. QED
      BY <1>1, <1>2, <1>5, <1>6, <1>7, <1>8, <2>1, <2>2, <2>3, <2>4, <2>5, <3>1, <3>2, <3>3
  <2>6. CASE i # j
    <3>1. (DoneNow(i)' <=> DoneNow(i)) /\ (ErredNow(i)' <=> ErredNow(i))
      BY <1>3, <2>6, Outcomes
    <3>2. successes'[i] = successes[i] /\ failures'[i] = failures[i]
      BY <1>1, <1>7, <2>6
    <3>. QED
      BY <1>2, <2>1, <2>3, <3>1, <3>2
  <2>. QED
    BY <2>5, <2>6
<1>. QED
  BY <1>9 DEF RepeatsCounted

LEMMA RepeatsRecorded ==
    ASSUME SingleProcess, AInv, NEW p \in Processes, RecordResults(p)
    PROVE  RepeatsCounted'
<1>1. UNCHANGED <<used, successes, failures, crashes>>
  BY DEF RecordResults, historyVars
<1>2. crashes \in Nat /\ MaxErrors \in Nat
  BY CrashesAssumption, MaxErrorsAssumption DEF AInv, IInv, Types
<1>3. ASSUME NEW j \in Jobs
      PROVE  /\ successes[j] <= crashes + (IF Deleted(j)' \/ DoneNow(j)' THEN 1 ELSE 0)
             /\ Deleted(j)' => failures[j] <= crashes + MaxErrors
             /\ ~Deleted(j)' =>
                   failures[j] <= crashes + QueueErrors(j)' + (IF ErredNow(j)' THEN 1 ELSE 0)
  <2>1. QueueErrors(j) \in Nat /\ QueueErrors(j) <= MaxErrors
    BY ErrorsBounded DEF AInv
  <2>2. successes[j] \in Nat /\ failures[j] \in Nat
    BY DEF AInv, IInv, Types
  <2>3. /\ successes[j] <= crashes + (IF Deleted(j) \/ DoneNow(j) THEN 1 ELSE 0)
        /\ Deleted(j) => failures[j] <= crashes + MaxErrors
        /\ ~Deleted(j) =>
              failures[j] <= crashes + QueueErrors(j) + (IF ErredNow(j) THEN 1 ELSE 0)
    BY DEF AInv, RepeatsCounted
  <2>4. CASE at[p][j] = "succeeded"
    <3>1. job'[j] = NoRow
      BY <2>4, RecordedRows DEF AInv, IInv
    <3>2. Deleted(j)' /\ ~Deleted(j)
      BY <1>1, <2>4, <3>1 DEF AInv, IInv, IdsUsed, SnapshotCurrent, InFlight, Deleted
    <3>3. ~ErredNow(j)
      BY <2>4, Outcomes
    <3>. QED
      BY <1>2, <2>1, <2>2, <2>3, <3>2, <3>3
  <2>5. CASE at[p][j] = "errored"
    <3>1. job'[j] \in JobRow /\ job'[j].num_errors = copy[p][j].num_errors
      BY <2>5, RecordedRows DEF AInv, IInv
    <3>2. job[j] # NoRow /\ copy[p][j].num_errors = job[j].num_errors + 1
      BY <2>5 DEF AInv, SnapshotCurrent, InFlight, Erred
    <3>3. ~Deleted(j) /\ ~Deleted(j)'
      BY <3>1, <3>2, NoRowAssumption DEF Deleted
    <3>4. QueueErrors(j)' = QueueErrors(j) + 1
      BY <3>1, <3>2, NoRowAssumption DEF QueueErrors
    <3>5. ~DoneNow(j)
      BY <2>5, Outcomes
    <3>. QED
      BY <1>2, <2>1, <2>2, <2>3, <3>3, <3>4, <3>5
  <2>6. CASE at[p][j] \notin {"succeeded", "errored"}
    <3>1. at[p][j] = "none"
      BY <2>6, NothingOut DEF AInv, IInv, RecordResults
    <3>2. job'[j] = job[j]
      BY <2>6, RecordedRows DEF AInv, IInv
    <3>3. (Deleted(j)' <=> Deleted(j)) /\ QueueErrors(j)' = QueueErrors(j)
      BY <1>1, <3>2 DEF Deleted, QueueErrors
    <3>4. ~DoneNow(j) /\ ~ErredNow(j)
      BY <3>1, Outcomes
    <3>. QED
      BY <1>2, <2>1, <2>2, <2>3, <3>3, <3>4
  <2>. QED
    BY <2>4, <2>5, <2>6
<1>. QED
  BY <1>1, <1>3 DEF RepeatsCounted

LEMMA RepeatsStep ==
    ASSUME SingleProcess, AInv, [Next]_vars
    PROVE  RepeatsCounted'
<1>1. CASE UNCHANGED <<at, job, used, successes, failures, crashes>>
  BY <1>1 DEF AInv, RepeatsCounted, Deleted, DoneNow, ErredNow, Erred, QueueErrors
<1>2. ASSUME NEW j \in Jobs, NEW name \in Names, Enqueue(j, name)
      PROVE  RepeatsCounted'
  <2>1. job[j] = NoRow
    BY <1>2 DEF Enqueue, AInv, IInv, IdsUsed
  <2>. Row(name, TRUE, 0, TRUE) \in JobRow
    BY RowType
  <2>2. job'[j] # NoRow /\ job'[j].num_errors = 0
    BY <1>2, NoRowAssumption DEF Enqueue, AInv, IInv, Types, Row
  <2>3. \A i \in Jobs : i # j => job'[i] = job[i] /\ (i \in used' <=> i \in used)
    BY <1>2 DEF Enqueue, AInv, IInv, Types
  <2>4. \A i \in Jobs : (Deleted(i)' <=> Deleted(i)) /\ QueueErrors(i)' = QueueErrors(i)
    <3>1. ~Deleted(j) /\ ~Deleted(j)' /\ QueueErrors(j) = 0 /\ QueueErrors(j)' = 0
      BY <1>2, <2>1, <2>2 DEF Enqueue, Deleted, QueueErrors
    <3>2. ASSUME NEW i \in Jobs, i # j
          PROVE  (Deleted(i)' <=> Deleted(i)) /\ QueueErrors(i)' = QueueErrors(i)
      BY <2>3, <3>2 DEF Deleted, QueueErrors
    <3>. QED
      BY <3>1, <3>2
  <2>5. UNCHANGED <<at, successes, failures, crashes>>
    BY <1>2 DEF Enqueue, historyVars
  <2>. QED
    BY <2>4, <2>5, RepeatsKept DEF AInv, DoneNow, ErredNow, Erred
<1>3. ASSUME NEW j \in Jobs, Tick(j)
      PROVE  RepeatsCounted'
  <2>1. job[j] \in JobRow /\ job[j] # NoRow
    BY <1>3 DEF Tick, AInv, IInv, Types
  <2>2. Row(job[j].name, job[j].live, job[j].num_errors, TRUE) \in JobRow
    BY <2>1, RowType DEF JobRow
  <2>3. /\ job'[j] # NoRow /\ job'[j].num_errors = job[j].num_errors
        /\ \A i \in Jobs : i # j => job'[i] = job[i]
    BY <1>3, <2>2, NoRowAssumption DEF Tick, Row, AInv, IInv, Types
  <2>4. UNCHANGED <<used, at, successes, failures, crashes>>
    BY <1>3 DEF Tick, historyVars
  <2>5. \A i \in Jobs : (Deleted(i)' <=> Deleted(i)) /\ QueueErrors(i)' = QueueErrors(i)
    BY <2>1, <2>3, <2>4 DEF Deleted, QueueErrors
  <2>. QED
    BY <2>4, <2>5, RepeatsKept DEF AInv, DoneNow, ErredNow, Erred
<1>4. ASSUME NEW p \in Processes, Lose(p)
      PROVE  RepeatsCounted'
  <2>1. UNCHANGED <<job, used, successes, failures>> /\ crashes' = crashes + 1
    BY <1>4 DEF Lose, dbVars
  <2>2. crashes \in Nat /\ MaxErrors \in Nat
    BY CrashesAssumption, MaxErrorsAssumption DEF AInv, IInv, Types
  <2>3. ASSUME NEW j \in Jobs
        PROVE  /\ successes[j] \in Nat /\ failures[j] \in Nat /\ QueueErrors(j) \in Nat
               /\ Deleted(j)' <=> Deleted(j)
               /\ QueueErrors(j)' = QueueErrors(j)
    BY <2>1, ErrorsBounded, RowKept DEF AInv, IInv, Types
  <2>. QED
    BY <2>1, <2>2, <2>3 DEF AInv, RepeatsCounted
<1>5. ASSUME NEW p \in Processes, SelectJobs(p)
      PROVE  RepeatsCounted'
  <2>1. \A j \in Jobs : at[p][j] = "none"
    BY <1>5 DEF SelectJobs, AInv, IInv, Phases
  <2>2. \A j \in Jobs : ~DoneNow(j) /\ ~ErredNow(j)
    BY <2>1, Outcomes
  <2>3. UNCHANGED <<job, used, successes, failures, crashes>>
    BY <1>5 DEF SelectJobs, dbVars, historyVars
  <2>. QED
    BY <2>2, <2>3, RowKept, RepeatsKept DEF AInv
<1>6. ASSUME NEW p \in Processes, NEW j \in Jobs, NEW x,
             at' = [at EXCEPT ![p][j] = x],
             at[p][j] \in {"res_ok", "succeeded"} => x = "succeeded",
             at[p][j] \in {"res_err", "errored"} => x = "errored",
             UNCHANGED <<job, used, successes, failures, crashes>>
      PROVE  RepeatsCounted'
  <2>. Types
    BY DEF AInv, IInv
  <2>1. \A i \in Jobs : at'[p][i] = IF i = j THEN x ELSE at[p][i]
    BY <1>6 DEF Types
  <2>2. \A i \in Jobs : (DoneNow(i) => DoneNow(i)') /\ (ErredNow(i) => ErredNow(i)')
    BY <1>6, <2>1, Outcomes
  <2>. QED
    BY <1>6, <2>2, RowKept, RepeatsKept DEF AInv
<1>7. ASSUME NEW p \in Processes,
             SendJob(p) \/ WaitResult(p) \/ \E w \in Workers : ReceiveJob(p, w)
      PROVE  RepeatsCounted'
  <2>1. UNCHANGED <<job, used, successes, failures, crashes>>
    BY <1>7 DEF SendJob, WaitResult, ReceiveJob, dbVars, historyVars
  <2>2. PICK j \in Jobs, x \in {"work", "succeeded", "errored"} \cup Workers :
            /\ at' = [at EXCEPT ![p][j] = x]
            /\ at[p][j] \in {"res_ok", "succeeded"} => x = "succeeded"
            /\ at[p][j] \in {"res_err", "errored"} => x = "errored"
    BY <1>7 DEF SendJob, WaitResult, ReceiveJob, Results, PlaceOf
  <2>. QED
    BY <1>6, <2>1, <2>2
<1>. QED
  BY <1>1, <1>2, <1>3, <1>4, <1>5, <1>7, RepeatsWorked, RepeatsRecorded
  DEF Next, Control, Worker, Crash, DatabaseError, vars, dbVars, historyVars,
      Start, NoJobs, Wake, Join, RunAgain, WorkerExit

-----------------------------------------------------------------------------
LEMMA InitAInv == Init => AInv
<1>. SUFFICES ASSUME Init PROVE AInv
  OBVIOUS
<1>1. SnapshotCurrent
  BY DEF Init, SnapshotCurrent, InFlight
<1>2. RepeatsCounted
  BY DEF Init, RepeatsCounted, Deleted, QueueErrors, DoneNow, ErredNow, Erred
<1>. QED
  BY <1>1, <1>2, InitIInv DEF AInv

(* The invariant of a lone worker process. *)
THEOREM AloneInvariant ==
    ASSUME SingleProcess
    PROVE  Spec => []AInv
<1>1. AInv /\ [Next]_vars => AInv'
  BY SingleProcess, IInvStep, SnapshotStep, RepeatsStep DEF AInv
<1>. QED
  BY <1>1, InitAInv, PTL DEF Spec

(* A struct the process holds, read without a lock and recorded much       *)
(* later, agrees with its row all the time: select_jobs is never followed  *)
(* by somebody else's write.                                               *)
THEOREM SnapshotsCurrent ==
    ASSUME SingleProcess
    PROVE  Spec => []SnapshotCurrent
<1>1. AInv => SnapshotCurrent
  BY DEF AInv
<1>. QED
  BY <1>1, AloneInvariant, PTL

(* work_job succeeds for a job once and fails MAX_ERRORS times at most,    *)
(* and once more for each time the process dies with its results.          *)
THEOREM RepeatsBounded ==
    ASSUME SingleProcess
    PROVE  Spec => []RepeatsOnlyByCrash
<1>1. AInv => RepeatsOnlyByCrash
  <2>. SUFFICES ASSUME AInv, NEW j \in Jobs
                PROVE  successes[j] <= 1 + crashes /\ failures[j] <= MaxErrors + crashes
    BY DEF RepeatsOnlyByCrash
  <2>1. /\ successes[j] \in Nat /\ failures[j] \in Nat /\ crashes \in Nat /\ MaxErrors \in Nat
        /\ QueueErrors(j) \in Nat /\ QueueErrors(j) <= MaxErrors
    BY CrashesAssumption, MaxErrorsAssumption, ErrorsBounded DEF AInv, IInv, Types
  <2>2. /\ successes[j] <= crashes + (IF Deleted(j) \/ DoneNow(j) THEN 1 ELSE 0)
        /\ Deleted(j) => failures[j] <= crashes + MaxErrors
        /\ ~Deleted(j) =>
              failures[j] <= crashes + QueueErrors(j) + (IF ErredNow(j) THEN 1 ELSE 0)
    BY DEF AInv, RepeatsCounted
  <2>3. ~Deleted(j) /\ ErredNow(j) => QueueErrors(j) + 1 <= MaxErrors
    <3>1. ASSUME NEW p \in Processes, Erred(p, j)
          PROVE  QueueErrors(j) + 1 <= MaxErrors
      <4>1. /\ job[j] # NoRow
            /\ copy[p][j].num_errors = job[j].num_errors + 1
        BY <3>1 DEF AInv, SnapshotCurrent, InFlight, Erred
      <4>2. copy[p][j].num_errors <= MaxErrors
        BY <3>1 DEF AInv, IInv, Structs
      <4>. QED
        BY <4>1, <4>2 DEF QueueErrors
    <3>. QED
      BY <3>1 DEF ErredNow
  <2>. QED
    BY <2>1, <2>2, <2>3
<1>. QED
  BY <1>1, AloneInvariant, PTL

-----------------------------------------------------------------------------
(***************************************************************************)
(* The tables implement the abstract queue.  Two actions of the worker are *)
(* steps of the queue: an enqueueing transaction puts a job, and           *)
(* record_results settles its batch.  All others leave it as it is.        *)
(***************************************************************************)
LEMMA QueueStarts == Init => Queue!QueueInit
BY DEF Init, Queue!QueueInit, QueueState, QueueErrors

(* A job's state in the queue is one of the four. *)
LEMMA QueueStutters ==
    ASSUME \A j \in Jobs : QueueState(j)' = QueueState(j) /\ QueueErrors(j)' = QueueErrors(j)
    PROVE  UNCHANGED Queue!queueVars
BY DEF Queue!queueVars

LEMMA EnqueuePuts ==
    ASSUME AInv, NEW j \in Jobs, NEW name \in Names, Enqueue(j, name)
    PROVE  Queue!Put(j)
<1>1. job[j] = NoRow /\ j \notin used
  BY DEF Enqueue, AInv, IInv, IdsUsed
<1>2. Row(name, TRUE, 0, TRUE) \in JobRow
  BY RowType
<1>3. job' = [job EXCEPT ![j] = Row(name, TRUE, 0, TRUE)] /\ used' = used \cup {j}
  BY DEF Enqueue
<1>4. job'[j] # NoRow /\ job'[j].live /\ job'[j].num_errors = 0
  BY <1>2, <1>3, NoRowAssumption DEF AInv, IInv, Types, Row
<1>5. \A i \in Jobs : i # j => job'[i] = job[i] /\ (i \in used' <=> i \in used)
  BY <1>3 DEF AInv, IInv, Types
<1>6. QueueState(j) = "absent" /\ QueueState(j)' = "live"
  BY <1>1, <1>4 DEF QueueState
<1>7. QueueErrors(j) = 0 /\ QueueErrors(j)' = 0
  BY <1>1, <1>4 DEF QueueErrors
<1>8. ASSUME NEW i \in Jobs, i # j
      PROVE  QueueState(i)' = QueueState(i) /\ QueueErrors(i)' = QueueErrors(i)
  BY <1>5, <1>8 DEF QueueState, QueueErrors
<1>. QED
  BY <1>6, <1>7, <1>8 DEF Queue!Put

LEMMA RecordSettles ==
    ASSUME SingleProcess, AInv, NEW p \in Processes, RecordResults(p)
    PROVE  \E good, bad \in SUBSET Queue!LiveJobs : Queue!Settle(good, bad)
<1>. DEFINE good == PlaceOf(p, "succeeded")
            bad == PlaceOf(p, "errored")
<1>1. used' = used
  BY DEF RecordResults
<1>2. good \cap bad = {}
  BY DEF PlaceOf
<1>3. \A j \in good \cup bad : j \in Jobs /\ job[j] # NoRow /\ job[j].live /\ j \in used
  BY DEF PlaceOf, AInv, IInv, IdsUsed, SnapshotCurrent, InFlight
<1>4. good \in SUBSET Queue!LiveJobs /\ bad \in SUBSET Queue!LiveJobs
  BY <1>3 DEF Queue!LiveJobs, QueueState
<1>5. ASSUME NEW j \in Jobs
      PROVE  /\ QueueState(j)' =
                   IF j \in good THEN "deleted"
                   ELSE IF j \in bad /\ QueueErrors(j) + 1 >= MaxErrors THEN "dead"
                   ELSE QueueState(j)
             /\ QueueErrors(j)' =
                   IF j \in good THEN 0
                   ELSE IF j \in bad THEN QueueErrors(j) + 1
                   ELSE QueueErrors(j)
  <2>1. CASE j \in good
    <3>1. job'[j] = NoRow
      BY <2>1, RecordedRows DEF AInv, IInv, PlaceOf
    <3>. QED
      BY <1>1, <1>3, <2>1, <3>1 DEF QueueState, QueueErrors
  <2>2. CASE j \in bad
    <3>1. at[p][j] = "errored"
      BY <2>2 DEF PlaceOf
    <3>2. /\ job'[j] \in JobRow
          /\ job'[j].num_errors = copy[p][j].num_errors
          /\ job'[j].live = copy[p][j].live
      BY <3>1, RecordedRows DEF AInv, IInv
    <3>3. /\ copy[p][j].num_errors = job[j].num_errors + 1
          /\ copy[p][j].live <=> copy[p][j].num_errors < MaxErrors
      BY <3>1 DEF AInv, SnapshotCurrent, InFlight, Erred
    <3>4. job[j].num_errors \in Nat /\ MaxErrors \in Nat
      BY <1>3, <2>2, MaxErrorsAssumption DEF AInv, IInv, Types, JobRow
    <3>5. QueueErrors(j)' = QueueErrors(j) + 1
      BY <1>3, <2>2, <3>2, <3>3, NoRowAssumption DEF QueueErrors
    <3>6. QueueState(j)' = IF QueueErrors(j) + 1 >= MaxErrors THEN "dead" ELSE QueueState(j)
      BY <1>3, <2>2, <3>2, <3>3, <3>4, NoRowAssumption DEF QueueState, QueueErrors
    <3>. QED
      BY <1>2, <2>2, <3>5, <3>6
  <2>3. CASE j \notin good \cup bad
    <3>1. at[p][j] \notin {"succeeded", "errored"}
      BY <2>3 DEF PlaceOf
    <3>2. job'[j] = job[j]
      BY <3>1, RecordedRows DEF AInv, IInv
    <3>. QED
      BY <1>1, <2>3, <3>2 DEF QueueState, QueueErrors
  <2>. QED
    BY <2>1, <2>2, <2>3
<1>6. Queue!Settle(good, bad)
  BY <1>2, <1>5 DEF Queue!Settle
<1>. QED
  BY <1>4, <1>6

LEMMA QueueStep ==
    ASSUME SingleProcess, AInv, [Next]_vars
    PROVE  [Queue!QueueNext]_Queue!queueVars
<1>1. CASE UNCHANGED <<job, used>>
  BY <1>1, QueueStutters DEF QueueState, QueueErrors
<1>2. ASSUME NEW j \in Jobs, NEW name \in Names, Enqueue(j, name)
      PROVE  Queue!QueueNext
  BY <1>2, EnqueuePuts DEF Queue!QueueNext
<1>3. ASSUME NEW j \in Jobs, Tick(j)
      PROVE  UNCHANGED Queue!queueVars
  <2>1. job[j] \in JobRow /\ job[j] # NoRow
    BY <1>3 DEF Tick, AInv, IInv, Types
  <2>2. Row(job[j].name, job[j].live, job[j].num_errors, TRUE) \in JobRow
    BY <2>1, RowType DEF JobRow
  <2>3. /\ job'[j] # NoRow /\ job'[j].num_errors = job[j].num_errors
        /\ job'[j].live = job[j].live
        /\ \A i \in Jobs : i # j => job'[i] = job[i]
        /\ used' = used
    BY <1>3, <2>2, NoRowAssumption DEF Tick, Row, AInv, IInv, Types
  <2>4. ASSUME NEW i \in Jobs
        PROVE  QueueState(i)' = QueueState(i) /\ QueueErrors(i)' = QueueErrors(i)
    BY <2>1, <2>3 DEF QueueState, QueueErrors
  <2>. QED
    BY <2>4, QueueStutters
<1>4. ASSUME NEW p \in Processes, RecordResults(p)
      PROVE  Queue!QueueNext
  BY <1>4, RecordSettles DEF Queue!QueueNext
<1>. QED
  BY <1>1, <1>2, <1>3, <1>4
  DEF Next, Control, Worker, Crash, DatabaseError, Lose, vars, dbVars, historyVars,
      Start, SelectJobs, NoJobs, Wake, SendJob, WaitResult, Join, RunAgain,
      ReceiveJob, JobOk, JobErr, WorkerExit

(* One worker process, however often it dies, and whatever its threads do  *)
(* when, shows the tables' readers nothing but an atomic queue: every step *)
(* of the worker is a step of JobQueue or changes nothing of it.           *)
THEOREM QueueImplemented ==
    ASSUME SingleProcess
    PROVE  Spec => ImplementsQueue
<1>1. AInv /\ [Next]_vars => [Queue!QueueNext]_Queue!queueVars
  BY SingleProcess, QueueStep
<1>. QED
  BY <1>1, QueueStarts, AloneInvariant, PTL DEF Spec, ImplementsQueue, Queue!QueueSpec
=============================================================================
