--------------------------- MODULE JobWorkerProofs ---------------------------
(***************************************************************************)
(* Proofs about JobWorker, for any sets of jobs, processes and workers and *)
(* any limits.                                                             *)
(*                                                                         *)
(* IInv is the inductive invariant.  Its parts say what a process holds in *)
(* each phase of its loop (Phases), what a struct in flight looks like     *)
(* (Structs), what a row looks like (Rows), and that the count wait_results*)
(* works with is the number of jobs still out (BatchConserved); the last   *)
(* needs the first: only because nothing is in flight when a batch is      *)
(* selected does the length of the batch count everything in flight.       *)
(***************************************************************************)
EXTENDS JobWorker, FiniteSetTheorems, TLAPS

(* Outside send and wait a process owns no struct, once it waits all of    *)
(* the batch is sent, and a batch is at most MAX_JOBS long.                *)
Phases ==
    \A p \in Processes :
        /\ pending[p] <= MaxJobs
        /\ pc[p] \notin {"send", "wait"} => \A j \in Jobs : at[p][j] = "none"
        /\ pc[p] = "wait" => \A j \in Jobs : at[p][j] # "batch"

(* A struct exists as long as its job has a place.  As selected it is live *)
(* and under the limit; as create_errored_job left it it counts an error   *)
(* and is live exactly if it is under the limit.                           *)
Structs ==
    \A p \in Processes, j \in Jobs :
        /\ at[p][j] # "none" => copy[p][j] # NoRow
        /\ InFlight(p, j) /\ ~Erred(p, j) =>
              copy[p][j].live /\ copy[p][j].num_errors < MaxErrors
        /\ Erred(p, j) =>
              /\ copy[p][j].num_errors > 0
              /\ copy[p][j].num_errors <= MaxErrors
              /\ copy[p][j].live <=> copy[p][j].num_errors < MaxErrors

(* A row is live exactly if it is under the limit, which it never passes. *)
Rows ==
    \A j \in Jobs : job[j] # NoRow =>
        /\ job[j].num_errors <= MaxErrors
        /\ job[j].live <=> job[j].num_errors < MaxErrors

(* Rows and structs carry ids the sequence has handed out. *)
IdsUsed ==
    \A j \in Jobs :
        /\ job[j] # NoRow => j \in used
        /\ \A p \in Processes : at[p][j] # "none" => j \in used

(* A job on its way to being recorded as a success has succeeded. *)
Succeeded ==
    \A p \in Processes, j \in Jobs :
        at[p][j] \in {"res_ok", "succeeded"} => successes[j] > 0

IInv ==
    /\ Types
    /\ Phases
    /\ Structs
    /\ Rows
    /\ IdsUsed
    /\ Succeeded
    /\ BatchConserved
    /\ ExceptionPerError
    /\ NoJobLost

LEMMA RowType ==
    ASSUME NEW n \in Names, NEW l \in BOOLEAN, NEW e \in Nat, NEW d \in BOOLEAN
    PROVE  Row(n, l, e, d) \in JobRow
BY DEF Row, JobRow

LEMMA ErroredType ==
    ASSUME NEW row \in JobRow
    PROVE  /\ CreateErroredJob(row) \in JobRow
           /\ CreateErroredJob(row).name = row.name
           /\ CreateErroredJob(row).num_errors = row.num_errors + 1
           /\ CreateErroredJob(row).live <=> row.num_errors + 1 < MaxErrors
<1>1. CreateErroredJob(row) =
          Row(row.name, row.num_errors + 1 < MaxErrors, row.num_errors + 1,
              ~(row.num_errors + 1 < MaxErrors))
  BY Zenon DEF CreateErroredJob
<1>2. row.name \in Names /\ row.num_errors + 1 \in Nat
  BY DEF JobRow
<1>3. /\ CreateErroredJob(row) \in JobRow
      /\ CreateErroredJob(row).name = row.name
      /\ CreateErroredJob(row).num_errors = row.num_errors + 1
  BY <1>1, <1>2 DEF Row, JobRow
<1>4. CreateErroredJob(row).live = (row.num_errors + 1 < MaxErrors)
  BY <1>1 DEF Row
<1>5. QED
  BY <1>3, <1>4

LEMMA UpsertedType ==
    ASSUME NEW old \in JobRow \cup {NoRow}, NEW new \in JobRow
    PROVE  /\ Upserted(old, new) \in JobRow
           /\ Upserted(old, new).live = new.live
           /\ Upserted(old, new).num_errors = new.num_errors
BY DEF Upserted, Row, JobRow

LEMMA BumpType ==
    ASSUME NEW counter \in [Jobs -> 0..HistoryCap], NEW j \in Jobs
    PROVE  /\ Bump(counter, j) \in [Jobs -> 0..HistoryCap]
           /\ Bump(counter, j)[j] > 0
           /\ \A i \in Jobs : counter[i] > 0 => Bump(counter, j)[i] > 0
BY MaxErrorsAssumption, CrashesAssumption DEF Bump, HistoryCap

LEMMA BatchFinite ==
    ASSUME NEW S \in SUBSET Jobs
    PROVE  IsFiniteSet(S) /\ Cardinality(S) \in Nat
BY JobsAssumption, FS_Subset, FS_CardinalityType

LEMMA TypesStep ==
    ASSUME Types, Structs, [Next]_vars
    PROVE  Types'
<1>. USE DEF Types
<1>1. ASSUME NEW j \in Jobs, NEW name \in Names, Enqueue(j, name)
      PROVE  Types'
  BY <1>1, RowType DEF Enqueue, historyVars
<1>2. ASSUME NEW j \in Jobs, Tick(j)
      PROVE  Types'
  <2>1. job[j] \in JobRow
    BY <1>2 DEF Tick
  <2>2. Row(job[j].name, job[j].live, job[j].num_errors, TRUE) \in JobRow
    BY <2>1, RowType DEF JobRow
  <2>3. QED
    BY <1>2, <2>2 DEF Tick, historyVars
<1>3. ASSUME NEW p \in Processes, Start(p) \/ NoJobs(p) \/ Wake(p) \/ Join(p) \/ RunAgain(p)
      PROVE  Types'
  BY <1>3 DEF Start, NoJobs, Wake, Join, RunAgain, dbVars, historyVars
<1>4. ASSUME NEW p \in Processes, Lose(p)
      PROVE  Types'
  BY <1>4, CrashesAssumption DEF Lose, dbVars, Stages
<1>5. ASSUME NEW p \in Processes, SelectJobs(p)
      PROVE  Types'
  <2>1. PICK batch \in SUBSET Ready : TakeBatch(p, batch)
    BY <1>5 DEF SelectJobs
  <2>2. Cardinality(batch) \in Nat
    BY BatchFinite DEF Ready
  <2>3. pending' \in [Processes -> Nat]
    BY <2>1, <2>2 DEF TakeBatch, NumJobs
  <2>4. at' \in [Processes -> [Jobs -> Stages \cup Workers]]
    BY <2>1 DEF TakeBatch, Stages
  <2>5. copy' \in [Processes -> [Jobs -> JobRow \cup {NoRow}]]
    BY <2>1 DEF TakeBatch
  <2>6. QED
    BY <1>5, <2>3, <2>4, <2>5 DEF SelectJobs, dbVars, historyVars
<1>6. ASSUME NEW p \in Processes, SendJob(p)
      PROVE  Types'
  BY <1>6 DEF SendJob, PlaceOf, dbVars, historyVars, Stages
<1>7. ASSUME NEW p \in Processes, WaitResult(p)
      PROVE  Types'
  BY <1>7 DEF WaitResult, Results, PlaceOf, dbVars, historyVars, Stages
<1>8. ASSUME NEW p \in Processes, RecordResults(p)
      PROVE  Types'
  <2>1. ASSUME NEW j \in Jobs
        PROVE  RecordedRow(p, PlaceOf(p, "succeeded"), PlaceOf(p, "errored"), j)
                   \in JobRow \cup {NoRow}
    <3>1. at[p][j] = "errored" => copy[p][j] \in JobRow
      BY DEF Structs
    <3>2. at[p][j] = "errored" => Upserted(job[j], copy[p][j]) \in JobRow
      BY <3>1, UpsertedType
    <3>3. QED
      BY <3>2 DEF RecordedRow, PlaceOf
  <2>2. job' \in [Jobs -> JobRow \cup {NoRow}]
    BY <1>8, <2>1 DEF RecordResults
  <2>3. exceptions' \in SUBSET Jobs
    BY <1>8 DEF RecordResults, RecordedExceptions, PlaceOf
  <2>4. at' \in [Processes -> [Jobs -> Stages \cup Workers]]
    BY <1>8 DEF RecordResults, Stages
  <2>5. copy' \in [Processes -> [Jobs -> JobRow \cup {NoRow}]]
    BY <1>8 DEF RecordResults
  <2>6. QED
    BY <1>8, <2>2, <2>3, <2>4, <2>5 DEF RecordResults, historyVars
<1>9. ASSUME NEW p \in Processes, NEW w \in Workers, ReceiveJob(p, w)
      PROVE  Types'
  BY <1>9 DEF ReceiveJob, PlaceOf, dbVars, historyVars
<1>10. ASSUME NEW p \in Processes, NEW w \in Workers, JobOk(p, w)
       PROVE  Types'
  BY <1>10, BumpType DEF JobOk, PlaceOf, dbVars, Stages
<1>11. ASSUME NEW p \in Processes, NEW w \in Workers, JobErr(p, w)
       PROVE  Types'
  <2>1. PICK j \in PlaceOf(p, w) :
            /\ at' = [at EXCEPT ![p][j] = "res_err"]
            /\ copy' = [copy EXCEPT ![p][j] = CreateErroredJob(@)]
            /\ failures' = Bump(failures, j)
    BY <1>11 DEF JobErr
  <2>2. j \in Jobs /\ copy[p][j] \in JobRow
    BY WorkersAssumption DEF PlaceOf, Structs, Stages
  <2>3. CreateErroredJob(copy[p][j]) \in JobRow
    BY <2>2, ErroredType
  <2>4. copy' \in [Processes -> [Jobs -> JobRow \cup {NoRow}]]
    BY <2>1, <2>2, <2>3
  <2>5. at' \in [Processes -> [Jobs -> Stages \cup Workers]]
    BY <2>1, <2>2 DEF Stages
  <2>6. QED
    BY <1>11, <2>1, <2>2, <2>4, <2>5, BumpType DEF JobErr, dbVars
<1>12. ASSUME NEW p \in Processes, NEW w \in Workers, WorkerExit(p, w)
       PROVE  Types'
  BY <1>12 DEF WorkerExit, dbVars, historyVars
<1>13. CASE UNCHANGED vars
  BY <1>13 DEF vars
<1>. QED
  BY <1>1, <1>2, <1>3, <1>4, <1>5, <1>6, <1>7, <1>8, <1>9, <1>10, <1>11, <1>12, <1>13
  DEF Next, Control, Worker, Crash, DatabaseError

(* Once every result is received, threads and channels hold nothing. *)
LEMMA NothingOut ==
    ASSUME BatchConserved, NEW p \in Processes, pending[p] = 0
    PROVE  \A j \in Jobs : at[p][j] \in {"none", "succeeded", "errored"}
<1>1. Outstanding(p) \in SUBSET Jobs
  BY DEF Outstanding
<1>2. IsFiniteSet(Outstanding(p)) /\ Cardinality(Outstanding(p)) = 0
  BY <1>1, BatchFinite DEF BatchConserved
<1>3. Outstanding(p) = {}
  BY <1>2, FS_EmptySet
<1>. QED
  BY <1>3 DEF Outstanding

(* A worker that owns a job belongs to a process in send or wait. *)
LEMMA WorkerPlace ==
    ASSUME Types, NEW w \in Workers
    PROVE  w \notin Stages
BY WorkersAssumption

(* One struct changes hands and no other does. *)
LEMMA Moved ==
    ASSUME Types, NEW p \in Processes, NEW j \in Jobs, NEW x,
           at' = [at EXCEPT ![p][j] = x]
    PROVE  \A q \in Processes, i \in Jobs :
               at'[q][i] = IF q = p /\ i = j THEN x ELSE at[q][i]
BY DEF Types

LEMMA PhasesStep ==
    ASSUME Types, Phases, BatchConserved, [Next]_vars
    PROVE  Phases'
<1>. USE DEF Types, Phases
<1>1. ASSUME NEW j \in Jobs, (\E name \in Names : Enqueue(j, name)) \/ Tick(j)
      PROVE  Phases'
  BY <1>1 DEF Enqueue, Tick
<1>2. ASSUME NEW p \in Processes, Start(p) \/ NoJobs(p) \/ Wake(p) \/ Join(p) \/ RunAgain(p)
      PROVE  Phases'
  BY <1>2 DEF Start, NoJobs, Wake, Join, RunAgain
<1>3. ASSUME NEW p \in Processes, Lose(p)
      PROVE  Phases'
  BY <1>3, MaxJobsAssumption DEF Lose
<1>4. ASSUME NEW p \in Processes, SelectJobs(p)
      PROVE  Phases'
  <2>1. PICK batch \in SUBSET Ready : WithinLimit(batch) /\ TakeBatch(p, batch)
    BY <1>4 DEF SelectJobs
  <2>2. Cardinality(batch) \in Nat /\ Cardinality(batch) <= MaxJobs
    BY <2>1, BatchFinite, MaxJobsAssumption DEF Ready, WithinLimit
  <2>3. \A q \in Processes : pending'[q] <= MaxJobs
    BY <2>1, <2>2 DEF TakeBatch, NumJobs
  <2>4. \A q \in Processes : q # p => at'[q] = at[q]
    BY <2>1 DEF TakeBatch
  <2>5. QED
    BY <1>4, <2>3, <2>4 DEF SelectJobs
<1>5. ASSUME NEW p \in Processes, SendJob(p)
      PROVE  Phases'
  BY <1>5 DEF SendJob, PlaceOf
<1>6. ASSUME NEW p \in Processes, WaitResult(p)
      PROVE  Phases'
  <2>1. PICK j \in Jobs, x \in {"succeeded", "errored"} :
            at[p][j] # "none" /\ at' = [at EXCEPT ![p][j] = x]
    BY <1>6 DEF WaitResult, Results, PlaceOf
  <2>2. \A q \in Processes, i \in Jobs :
            at'[q][i] = IF q = p /\ i = j THEN x ELSE at[q][i]
    BY <2>1, Moved
  <2>3. \A q \in Processes : pending'[q] <= MaxJobs
    BY <1>6, MaxJobsAssumption DEF WaitResult
  <2>4. QED
    BY <1>6, <2>1, <2>2, <2>3 DEF WaitResult
<1>7. ASSUME NEW p \in Processes, RecordResults(p)
      PROVE  Phases'
  <2>1. \A j \in Jobs : at[p][j] \in {"none", "succeeded", "errored"}
    BY <1>7, NothingOut DEF RecordResults
  <2>2. \A j \in Jobs : at'[p][j] = "none"
    BY <1>7, <2>1 DEF RecordResults, PlaceOf
  <2>3. \A q \in Processes : q # p => at'[q] = at[q]
    BY <1>7 DEF RecordResults
  <2>4. QED
    BY <1>7, <2>2, <2>3 DEF RecordResults
<1>8. ASSUME NEW p \in Processes, NEW w \in Workers, ReceiveJob(p, w) \/ JobOk(p, w) \/ JobErr(p, w)
      PROVE  Phases'
  <2>1. PICK j \in Jobs, x \in {w, "res_ok", "res_err"} :
            at[p][j] # "none" /\ at' = [at EXCEPT ![p][j] = x]
    BY <1>8, WorkerPlace DEF ReceiveJob, JobOk, JobErr, PlaceOf, Stages
  <2>2. \A q \in Processes, i \in Jobs :
            at'[q][i] = IF q = p /\ i = j THEN x ELSE at[q][i]
    BY <2>1, Moved
  <2>3. x # "batch" /\ UNCHANGED <<pc, pending>>
    BY <1>8, WorkerPlace DEF ReceiveJob, JobOk, JobErr, Stages
  <2>4. QED
    BY <2>1, <2>2, <2>3
<1>9. ASSUME NEW p \in Processes, NEW w \in Workers, WorkerExit(p, w)
      PROVE  Phases'
  BY <1>9 DEF WorkerExit
<1>10. CASE UNCHANGED vars
  BY <1>10 DEF vars
<1>. QED
  BY <1>1, <1>2, <1>3, <1>4, <1>5, <1>6, <1>7, <1>8, <1>9, <1>10
  DEF Next, Control, Worker, Crash, DatabaseError

LEMMA StructsStep ==
    ASSUME Types, Phases, Structs, Rows, BatchConserved, [Next]_vars
    PROVE  Structs'
<1>. USE DEF Types, Structs, InFlight, Erred
<1>1. CASE UNCHANGED <<at, copy>>
  BY <1>1
<1>2. ASSUME NEW p \in Processes, Lose(p)
      PROVE  Structs'
  BY <1>2 DEF Lose
<1>3. ASSUME NEW p \in Processes, SelectJobs(p)
      PROVE  Structs'
  <2>1. PICK batch \in SUBSET Ready : TakeBatch(p, batch)
    BY <1>3 DEF SelectJobs
  <2>2. \A j \in Jobs : at[p][j] = "none"
    BY <1>3 DEF SelectJobs, Phases
  <2>3. \A j \in Jobs :
            \/ j \in batch /\ at'[p][j] = "batch" /\ copy'[p][j] = job[j]
            \/ j \notin batch /\ at'[p][j] = "none"
    BY <2>1, <2>2 DEF TakeBatch
  <2>4. \A j \in batch : job[j] \in JobRow /\ job[j].live /\ job[j].num_errors < MaxErrors
    BY DEF Ready, Rows
  <2>5. \A q \in Processes : q # p => at'[q] = at[q] /\ copy'[q] = copy[q]
    BY <2>1 DEF TakeBatch
  <2>6. ASSUME NEW q \in Processes, NEW i \in Jobs, q = p
        PROVE  /\ at'[q][i] \in {"none", "batch"}
               /\ at'[q][i] = "batch" => /\ copy'[q][i] # NoRow
                                         /\ copy'[q][i].live
                                         /\ copy'[q][i].num_errors < MaxErrors
    BY <2>3, <2>4, <2>6, NoRowAssumption
  <2>7. QED
    BY <2>5, <2>6
<1>4. ASSUME NEW p \in Processes, SendJob(p) \/ WaitResult(p)
      PROVE  Structs'
  <2>1. PICK j \in Jobs, x \in {"work", "succeeded", "errored"} :
            /\ at[p][j] # "none"
            /\ x = "errored" <=> Erred(p, j)
            /\ at' = [at EXCEPT ![p][j] = x]
    BY <1>4 DEF SendJob, WaitResult, Results, PlaceOf
  <2>2. \A q \in Processes, i \in Jobs :
            at'[q][i] = IF q = p /\ i = j THEN x ELSE at[q][i]
    BY <2>1, Moved
  <2>3. UNCHANGED copy
    BY <1>4 DEF SendJob, WaitResult
  <2>4. QED
    BY <2>1, <2>2, <2>3
<1>5. ASSUME NEW p \in Processes, RecordResults(p)
      PROVE  Structs'
  <2>1. \A j \in Jobs : at'[p][j] = "none"
    BY <1>5, NothingOut DEF RecordResults, PlaceOf
  <2>2. \A q \in Processes : q # p => at'[q] = at[q] /\ copy'[q] = copy[q]
    BY <1>5 DEF RecordResults
  <2>3. ASSUME NEW q \in Processes, NEW i \in Jobs
        PROVE  at'[q][i] = "none" \/ (at'[q][i] = at[q][i] /\ copy'[q][i] = copy[q][i])
    BY <2>1, <2>2
  <2>4. QED
    BY <2>3
<1>6. ASSUME NEW p \in Processes, NEW w \in Workers, ReceiveJob(p, w) \/ JobOk(p, w)
      PROVE  Structs'
  <2>1. PICK j \in Jobs, x \in {w, "res_ok"} :
            /\ at[p][j] \in {"work", w}
            /\ at' = [at EXCEPT ![p][j] = x]
    BY <1>6 DEF ReceiveJob, JobOk, PlaceOf
  <2>2. \A q \in Processes, i \in Jobs :
            at'[q][i] = IF q = p /\ i = j THEN x ELSE at[q][i]
    BY <2>1, Moved
  <2>3. w \notin {"none", "res_err", "errored"} /\ UNCHANGED copy
    BY <1>6, WorkerPlace DEF ReceiveJob, JobOk, Stages
  <2>4. QED
    BY <2>1, <2>2, <2>3
<1>7. ASSUME NEW p \in Processes, NEW w \in Workers, JobErr(p, w)
      PROVE  Structs'
  <2>1. PICK j \in PlaceOf(p, w) :
            /\ at' = [at EXCEPT ![p][j] = "res_err"]
            /\ copy' = [copy EXCEPT ![p][j] = CreateErroredJob(@)]
    BY <1>7 DEF JobErr
  <2>2. /\ j \in Jobs
        /\ copy[p][j] \in JobRow
        /\ copy[p][j].num_errors \in Nat
        /\ copy[p][j].num_errors < MaxErrors
    BY WorkerPlace DEF PlaceOf, Stages, JobRow
  <2>3. \A q \in Processes, i \in Jobs :
            at'[q][i] = IF q = p /\ i = j THEN "res_err" ELSE at[q][i]
    BY <2>1, <2>2, Moved
  <2>4. \A q \in Processes, i \in Jobs :
            copy'[q][i] = IF q = p /\ i = j THEN CreateErroredJob(copy[p][j]) ELSE copy[q][i]
    BY <2>1, <2>2
  <2>5. /\ CreateErroredJob(copy[p][j]) # NoRow
        /\ CreateErroredJob(copy[p][j]).num_errors > 0
        /\ CreateErroredJob(copy[p][j]).num_errors <= MaxErrors
        /\ CreateErroredJob(copy[p][j]).live
               <=> CreateErroredJob(copy[p][j]).num_errors < MaxErrors
    BY <2>2, ErroredType, NoRowAssumption, MaxErrorsAssumption
  <2>6. QED
    BY <2>3, <2>4, <2>5
<1>. QED
  BY <1>1, <1>2, <1>3, <1>4, <1>5, <1>6, <1>7
  DEF Next, Control, Worker, Crash, DatabaseError, vars, dbVars, historyVars,
      Enqueue, Tick, Start, NoJobs, Wake, Join, RunAgain, WorkerExit

(* What record_results leaves in the table. *)
LEMMA RecordedRows ==
    ASSUME Types, Structs, NEW p \in Processes, RecordResults(p), NEW j \in Jobs
    PROVE  \/ at[p][j] = "succeeded" /\ job'[j] = NoRow
           \/ /\ at[p][j] = "errored"
              /\ job'[j] \in JobRow
              /\ job'[j].num_errors = copy[p][j].num_errors
              /\ job'[j].live = copy[p][j].live
           \/ at[p][j] \notin {"succeeded", "errored"} /\ job'[j] = job[j]
<1>1. job'[j] = RecordedRow(p, PlaceOf(p, "succeeded"), PlaceOf(p, "errored"), j)
  BY DEF RecordResults
<1>2. CASE at[p][j] = "errored"
  <2>1. copy[p][j] \in JobRow
    BY <1>2 DEF Types, Structs
  <2>2. job'[j] = Upserted(job[j], copy[p][j])
    BY <1>1, <1>2 DEF RecordedRow, PlaceOf
  <2>3. job[j] \in JobRow \cup {NoRow}
    BY DEF Types
  <2>4. /\ Upserted(job[j], copy[p][j]) \in JobRow
        /\ Upserted(job[j], copy[p][j]).live = copy[p][j].live
        /\ Upserted(job[j], copy[p][j]).num_errors = copy[p][j].num_errors
    BY <2>1, <2>3, UpsertedType
  <2>5. QED
    BY <1>2, <2>2, <2>4, Zenon
<1>3. CASE at[p][j] # "errored"
  BY <1>1, <1>3 DEF RecordedRow, PlaceOf
<1>. QED
  BY <1>2, <1>3

LEMMA RowsStep ==
    ASSUME Types, Structs, Rows, [Next]_vars
    PROVE  Rows'
<1>. USE DEF Types, Rows
<1>1. CASE UNCHANGED job
  BY <1>1
<1>2. ASSUME NEW j \in Jobs, NEW name \in Names, Enqueue(j, name)
      PROVE  Rows'
  BY <1>2, MaxErrorsAssumption DEF Enqueue, Row
<1>3. ASSUME NEW j \in Jobs, Tick(j)
      PROVE  Rows'
  BY <1>3 DEF Tick, Row
<1>4. ASSUME NEW p \in Processes, RecordResults(p)
      PROVE  Rows'
  <2>1. ASSUME NEW j \in Jobs, job'[j] # NoRow
        PROVE  /\ job'[j].num_errors <= MaxErrors
               /\ job'[j].live <=> job'[j].num_errors < MaxErrors
    <3>1. CASE at[p][j] = "errored"
      <4>1. /\ job'[j].num_errors = copy[p][j].num_errors
            /\ job'[j].live = copy[p][j].live
        BY <1>4, <3>1, RecordedRows
      <4>2. /\ copy[p][j].num_errors <= MaxErrors
            /\ copy[p][j].live <=> copy[p][j].num_errors < MaxErrors
        BY <3>1 DEF Structs, Erred
      <4>3. QED
        BY <4>1, <4>2
    <3>2. CASE at[p][j] # "errored"
      BY <1>4, <2>1, <3>2, RecordedRows
    <3>3. QED
      BY <3>1, <3>2
  <2>2. QED
    BY <2>1
<1>. QED
  BY <1>1, <1>2, <1>3, <1>4
  DEF Next, Control, Worker, Crash, DatabaseError, Lose, vars, dbVars,
      Start, SelectJobs, NoJobs, Wake, SendJob, WaitResult, Join, RunAgain,
      ReceiveJob, JobOk, JobErr, WorkerExit

LEMMA SucceededStep ==
    ASSUME Types, Phases, Succeeded, [Next]_vars
    PROVE  Succeeded'
<1>. USE DEF Types, Succeeded
<1>1. CASE UNCHANGED <<at, successes>>
  BY <1>1
<1>2. ASSUME NEW p \in Processes, Lose(p) \/ SelectJobs(p) \/ RecordResults(p)
      PROVE  Succeeded'
  <2>1. ASSUME NEW q \in Processes, NEW i \in Jobs
        PROVE  at'[q][i] \in {"none", "batch"} \/ at'[q][i] = at[q][i]
    <3>1. CASE Lose(p)
      BY <3>1 DEF Lose
    <3>2. CASE SelectJobs(p)
      <4>1. PICK batch \in SUBSET Ready : TakeBatch(p, batch)
        BY <3>2 DEF SelectJobs
      <4>2. QED
        BY <4>1 DEF TakeBatch
    <3>3. CASE RecordResults(p)
      BY <3>3 DEF RecordResults
    <3>4. QED
      BY <1>2, <3>1, <3>2, <3>3
  <2>2. UNCHANGED successes
    BY <1>2 DEF Lose, SelectJobs, RecordResults, historyVars
  <2>3. QED
    BY <2>1, <2>2
<1>3. ASSUME NEW p \in Processes, SendJob(p) \/ WaitResult(p)
      PROVE  Succeeded'
  <2>1. PICK j \in Jobs, x \in {"work", "succeeded", "errored"} :
            /\ x = "succeeded" => at[p][j] = "res_ok"
            /\ at' = [at EXCEPT ![p][j] = x]
    BY <1>3 DEF SendJob, WaitResult, Results, PlaceOf
  <2>2. \A q \in Processes, i \in Jobs :
            at'[q][i] = IF q = p /\ i = j THEN x ELSE at[q][i]
    BY <2>1, Moved
  <2>3. UNCHANGED successes
    BY <1>3 DEF SendJob, WaitResult, historyVars
  <2>4. QED
    BY <2>1, <2>2, <2>3
<1>4. ASSUME NEW p \in Processes, NEW w \in Workers, ReceiveJob(p, w) \/ JobErr(p, w)
      PROVE  Succeeded'
  <2>1. PICK j \in Jobs, x \in {w, "res_err"} : at' = [at EXCEPT ![p][j] = x]
    BY <1>4 DEF ReceiveJob, JobErr, PlaceOf
  <2>2. \A q \in Processes, i \in Jobs :
            at'[q][i] = IF q = p /\ i = j THEN x ELSE at[q][i]
    BY <2>1, Moved
  <2>3. x \notin {"res_ok", "succeeded"} /\ UNCHANGED successes
    BY <1>4, WorkerPlace DEF ReceiveJob, JobErr, historyVars, Stages
  <2>4. QED
    BY <2>2, <2>3
<1>5. ASSUME NEW p \in Processes, NEW w \in Workers, JobOk(p, w)
      PROVE  Succeeded'
  <2>1. PICK j \in Jobs : /\ at' = [at EXCEPT ![p][j] = "res_ok"]
                          /\ successes' = Bump(successes, j)
    BY <1>5 DEF JobOk, PlaceOf
  <2>2. \A q \in Processes, i \in Jobs :
            at'[q][i] = IF q = p /\ i = j THEN "res_ok" ELSE at[q][i]
    BY <2>1, Moved
  <2>3. QED
    BY <2>1, <2>2, BumpType
<1>. QED
  BY <1>1, <1>2, <1>3, <1>4, <1>5
  DEF Next, Control, Worker, Crash, DatabaseError, vars, dbVars, historyVars,
      Enqueue, Tick, Start, NoJobs, Wake, Join, RunAgain, WorkerExit

LEMMA ExceptionStep ==
    ASSUME Types, Structs, IdsUsed, ExceptionPerError, [Next]_vars
    PROVE  ExceptionPerError'
<1>. USE DEF Types, ExceptionPerError
<1>1. CASE UNCHANGED <<job, exceptions>>
  BY <1>1
<1>2. ASSUME NEW j \in Jobs, NEW name \in Names, Enqueue(j, name)
      PROVE  ExceptionPerError'
  <2>1. job[j] = NoRow
    BY <1>2 DEF Enqueue, IdsUsed
  <2>2. QED
    BY <1>2, <2>1, RowType, NoRowAssumption DEF Enqueue, Row
<1>3. ASSUME NEW j \in Jobs, Tick(j)
      PROVE  ExceptionPerError'
  <2>1. job[j] \in JobRow
    BY <1>3 DEF Tick
  <2>2. Row(job[j].name, job[j].live, job[j].num_errors, TRUE) \in JobRow
    BY <2>1, RowType DEF JobRow
  <2>3. QED
    BY <1>3, <2>2, NoRowAssumption DEF Tick, Row
<1>4. ASSUME NEW p \in Processes, RecordResults(p)
      PROVE  ExceptionPerError'
  <2>1. exceptions' = (exceptions \ PlaceOf(p, "succeeded")) \cup PlaceOf(p, "errored")
    BY <1>4 DEF RecordResults, RecordedExceptions
  <2>2. QED
    BY <1>4, <2>1, RecordedRows, NoRowAssumption DEF Structs, Erred, PlaceOf
<1>. QED
  BY <1>1, <1>2, <1>3, <1>4
  DEF Next, Control, Worker, Crash, DatabaseError, Lose, vars, dbVars,
      Start, SelectJobs, NoJobs, Wake, SendJob, WaitResult, Join, RunAgain,
      ReceiveJob, JobOk, JobErr, WorkerExit

LEMMA IdsUsedStep ==
    ASSUME Types, IdsUsed, [Next]_vars
    PROVE  IdsUsed'
<1>. USE DEF Types, IdsUsed
<1>1. CASE UNCHANGED <<at, job, used>>
  BY <1>1
<1>2. ASSUME NEW j \in Jobs, (\E name \in Names : Enqueue(j, name)) \/ Tick(j)
      PROVE  IdsUsed'
  BY <1>2 DEF Enqueue, Tick
<1>3. ASSUME NEW p \in Processes, Lose(p)
      PROVE  IdsUsed'
  BY <1>3 DEF Lose, dbVars
<1>4. ASSUME NEW p \in Processes, SelectJobs(p)
      PROVE  IdsUsed'
  <2>1. PICK batch \in SUBSET Ready : TakeBatch(p, batch)
    BY <1>4 DEF SelectJobs
  <2>2. \A q \in Processes, i \in Jobs : at'[q][i] = at[q][i] \/ i \in used
    BY <2>1 DEF TakeBatch, Ready
  <2>3. QED
    BY <1>4, <2>2 DEF SelectJobs, dbVars
<1>5. ASSUME NEW p \in Processes, RecordResults(p)
      PROVE  IdsUsed'
  <2>1. ASSUME NEW j \in Jobs, job'[j] # NoRow
        PROVE  job[j] # NoRow \/ at[p][j] # "none"
    BY <1>5, <2>1 DEF RecordResults, RecordedRow, PlaceOf
  <2>2. \A q \in Processes, i \in Jobs : at'[q][i] = at[q][i] \/ at'[q][i] = "none"
    BY <1>5 DEF RecordResults
  <2>3. used' = used
    BY <1>5 DEF RecordResults
  <2>4. QED
    BY <2>1, <2>2, <2>3
<1>6. ASSUME NEW p \in Processes, NEW j \in Jobs, NEW x, at[p][j] # "none",
             at' = [at EXCEPT ![p][j] = x], UNCHANGED dbVars
      PROVE  IdsUsed'
  <2>1. \A q \in Processes, i \in Jobs :
            at'[q][i] = IF q = p /\ i = j THEN x ELSE at[q][i]
    BY <1>6, Moved
  <2>2. QED
    BY <1>6, <2>1 DEF dbVars
<1>7. ASSUME NEW p \in Processes, SendJob(p) \/ WaitResult(p)
      PROVE  IdsUsed'
  BY <1>6, <1>7 DEF SendJob, WaitResult, Results, PlaceOf
<1>8. ASSUME NEW p \in Processes, NEW w \in Workers, ReceiveJob(p, w) \/ JobOk(p, w) \/ JobErr(p, w)
      PROVE  IdsUsed'
  <2>1. w # "none"
    BY WorkerPlace DEF Stages
  <2>2. QED
    BY <1>6, <1>8, <2>1 DEF ReceiveJob, JobOk, JobErr, PlaceOf
<1>. QED
  BY <1>1, <1>2, <1>3, <1>4, <1>5, <1>7, <1>8
  DEF Next, Control, Worker, Crash, DatabaseError, vars, dbVars, historyVars,
      Start, NoJobs, Wake, Join, RunAgain, WorkerExit

(* A struct that moves between threads and channels stays outstanding. *)
LEMMA MovedOutstanding ==
    ASSUME Types, BatchConserved, UNCHANGED pending,
           NEW p \in Processes, NEW j \in Jobs, NEW x,
           at[p][j] \notin {"none", "succeeded", "errored"},
           x \notin {"none", "succeeded", "errored"},
           at' = [at EXCEPT ![p][j] = x]
    PROVE  BatchConserved'
<1>1. \A q \in Processes, i \in Jobs :
          at'[q][i] = IF q = p /\ i = j THEN x ELSE at[q][i]
  BY DEF Types
<1>2. \A q \in Processes : Outstanding(q)' = Outstanding(q)
  BY <1>1 DEF Outstanding
<1>3. QED
  BY <1>2 DEF BatchConserved

LEMMA ConservedStep ==
    ASSUME Types, Phases, BatchConserved, [Next]_vars
    PROVE  BatchConserved'
<1>. USE DEF Types
<1>1. CASE UNCHANGED <<at, pending>>
  BY <1>1 DEF BatchConserved, Outstanding
<1>2. ASSUME NEW p \in Processes, Lose(p)
      PROVE  BatchConserved'
  <2>1. \A q \in Processes : q # p => Outstanding(q)' = Outstanding(q)
    BY <1>2 DEF Lose, Outstanding
  <2>2. Outstanding(p)' = {}
    BY <1>2 DEF Lose, Outstanding
  <2>3. QED
    BY <1>2, <2>1, <2>2, FS_EmptySet DEF Lose, BatchConserved
<1>3. ASSUME NEW p \in Processes, SelectJobs(p)
      PROVE  BatchConserved'
  <2>1. PICK batch \in SUBSET Ready : TakeBatch(p, batch)
    BY <1>3 DEF SelectJobs
  <2>2. \A j \in Jobs : at[p][j] = "none"
    BY <1>3 DEF SelectJobs, Phases
  <2>3. Outstanding(p)' = batch
    BY <2>1, <2>2 DEF TakeBatch, Outstanding, Ready
  <2>4. \A q \in Processes : q # p => Outstanding(q)' = Outstanding(q)
    BY <2>1 DEF TakeBatch, Outstanding
  <2>5. QED
    BY <2>1, <2>3, <2>4 DEF TakeBatch, NumJobs, BatchConserved
<1>4. ASSUME NEW p \in Processes, SendJob(p)
      PROVE  BatchConserved'
  <2>1. PICK j \in Jobs, x \in {"work"} :
            at[p][j] = "batch" /\ at' = [at EXCEPT ![p][j] = x]
    BY <1>4 DEF SendJob, PlaceOf
  <2>2. UNCHANGED pending
    BY <1>4 DEF SendJob
  <2>3. QED
    BY <2>1, <2>2, MovedOutstanding
<1>5. ASSUME NEW p \in Processes, WaitResult(p)
      PROVE  BatchConserved'
  <2>1. PICK j \in Jobs, x \in {"succeeded", "errored"} :
            at[p][j] \in {"res_ok", "res_err"} /\ at' = [at EXCEPT ![p][j] = x]
    BY <1>5 DEF WaitResult, Results, PlaceOf
  <2>2. \A q \in Processes, i \in Jobs :
            at'[q][i] = IF q = p /\ i = j THEN x ELSE at[q][i]
    BY <2>1, Moved
  <2>3. Outstanding(p)' = Outstanding(p) \ {j} /\ j \in Outstanding(p)
    BY <2>1, <2>2 DEF Outstanding
  <2>4. \A q \in Processes : q # p => Outstanding(q)' = Outstanding(q)
    BY <2>2 DEF Outstanding
  <2>5. IsFiniteSet(Outstanding(p))
    BY BatchFinite DEF Outstanding
  <2>6. Cardinality(Outstanding(p)') = Cardinality(Outstanding(p)) - 1
    BY <2>3, <2>5, FS_RemoveElement
  <2>7. pending' = [pending EXCEPT ![p] = @ - 1]
    BY <1>5 DEF WaitResult
  <2>8. QED
    BY <2>4, <2>6, <2>7 DEF BatchConserved
<1>6. ASSUME NEW p \in Processes, RecordResults(p)
      PROVE  BatchConserved'
  <2>1. \A q \in Processes : Outstanding(q)' = Outstanding(q)
    BY <1>6 DEF RecordResults, Outstanding, PlaceOf
  <2>2. QED
    BY <1>6, <2>1 DEF RecordResults, BatchConserved
<1>7. ASSUME NEW p \in Processes, NEW w \in Workers, ReceiveJob(p, w) \/ JobOk(p, w) \/ JobErr(p, w)
      PROVE  BatchConserved'
  <2>1. PICK j \in Jobs, x \in {w, "res_ok", "res_err"} :
            at[p][j] \in {"work", w} /\ at' = [at EXCEPT ![p][j] = x]
    BY <1>7 DEF ReceiveJob, JobOk, JobErr, PlaceOf
  <2>2. w \notin {"none", "succeeded", "errored"}
    BY WorkerPlace DEF Stages
  <2>3. UNCHANGED pending
    BY <1>7 DEF ReceiveJob, JobOk, JobErr
  <2>4. QED
    BY <2>1, <2>2, <2>3, MovedOutstanding
<1>. QED
  BY <1>1, <1>2, <1>3, <1>4, <1>5, <1>6, <1>7
  DEF Next, Control, Worker, Crash, DatabaseError, vars, dbVars, historyVars,
      Enqueue, Tick, Start, NoJobs, Wake, Join, RunAgain, WorkerExit

LEMMA NoJobLostStep ==
    ASSUME Types, Structs, Succeeded, NoJobLost, [Next]_vars
    PROVE  NoJobLost'
<1>. USE DEF Types, NoJobLost
<1>1. ASSUME NEW j \in Jobs, NEW name \in Names, Enqueue(j, name)
      PROVE  NoJobLost'
  <2>1. job'[j] # NoRow
    BY <1>1, RowType, NoRowAssumption DEF Enqueue
  <2>2. QED
    BY <1>1, <2>1 DEF Enqueue, historyVars
<1>2. ASSUME NEW j \in Jobs, Tick(j)
      PROVE  NoJobLost'
  <2>1. job[j] \in JobRow
    BY <1>2 DEF Tick
  <2>2. Row(job[j].name, job[j].live, job[j].num_errors, TRUE) \in JobRow
    BY <2>1, RowType DEF JobRow
  <2>3. QED
    BY <1>2, <2>2, NoRowAssumption DEF Tick, historyVars
<1>3. ASSUME NEW p \in Processes, RecordResults(p)
      PROVE  NoJobLost'
  <2>1. UNCHANGED <<used, successes>>
    BY <1>3 DEF RecordResults, historyVars
  <2>2. ASSUME NEW j \in used
        PROVE  job'[j] # NoRow \/ successes[j] > 0
    BY <1>3, RecordedRows, NoRowAssumption DEF Succeeded
  <2>3. QED
    BY <2>1, <2>2
<1>4. ASSUME NEW p \in Processes, NEW w \in Workers, JobOk(p, w)
      PROVE  NoJobLost'
  BY <1>4, BumpType DEF JobOk, PlaceOf, dbVars
<1>5. CASE UNCHANGED <<job, used, successes>>
  BY <1>5
<1>. QED
  BY <1>1, <1>2, <1>3, <1>4, <1>5
  DEF Next, Control, Worker, Crash, DatabaseError, Lose, vars, dbVars, historyVars,
      Start, SelectJobs, NoJobs, Wake, SendJob, WaitResult, Join, RunAgain,
      ReceiveJob, JobErr, WorkerExit

-----------------------------------------------------------------------------
LEMMA InitIInv == Init => IInv
<1>. SUFFICES ASSUME Init PROVE IInv
  OBVIOUS
<1>. USE DEF Init
<1>1. Types
  BY MaxErrorsAssumption, CrashesAssumption DEF Types, Stages, HistoryCap
<1>2. Phases /\ Structs /\ Rows /\ IdsUsed /\ Succeeded /\ ExceptionPerError /\ NoJobLost
  BY MaxJobsAssumption
  DEF Phases, Structs, InFlight, Erred, Rows, IdsUsed, Succeeded, ExceptionPerError, NoJobLost
<1>3. \A p \in Processes : Outstanding(p) = {}
  BY DEF Outstanding
<1>4. BatchConserved
  BY <1>3, FS_EmptySet DEF BatchConserved
<1>5. QED
  BY <1>1, <1>2, <1>4 DEF IInv

LEMMA IInvStep == IInv /\ [Next]_vars => IInv'
BY TypesStep, PhasesStep, StructsStep, RowsStep, IdsUsedStep, SucceededStep,
   ConservedStep, ExceptionStep, NoJobLostStep
DEF IInv

(* The inductive invariant holds, for any number of processes. *)
THEOREM Invariant == Spec => []IInv
BY InitIInv, IInvStep, PTL DEF Spec

(* Type correctness, with the bound on recorded errors (create_errored_job *)
(* and the filter of select_jobs keep num_errors within MAX_ERRORS).       *)
THEOREM TypeCorrect == Spec => []TypeOK
<1>1. IInv => TypeOK
  BY DEF IInv, TypeOK, Rows
<1>. QED
  BY <1>1, Invariant, PTL

(* wait_results waits for exactly the results that are still to come. *)
THEOREM Conservation == Spec => []BatchConserved
<1>1. IInv => BatchConserved
  BY DEF IInv
<1>. QED
  BY <1>1, Invariant, PTL

(* A channel that holds a whole batch never fills up under its sender:     *)
(* what the sender still holds is part of the same batch.                  *)
LEMMA RoomLeft ==
    ASSUME IInv, NEW p \in Processes, NEW S \in SUBSET Outstanding(p),
           NEW j \in Outstanding(p), j \notin S
    PROVE  Cardinality(S) < MaxJobs
<1>1. IsFiniteSet(Outstanding(p)) /\ Outstanding(p) \in SUBSET Jobs
  BY BatchFinite DEF Outstanding
<1>2. Cardinality(Outstanding(p)) <= MaxJobs
  BY DEF IInv, BatchConserved, Phases
<1>3. /\ IsFiniteSet(Outstanding(p) \ {j})
      /\ Cardinality(Outstanding(p) \ {j}) = Cardinality(Outstanding(p)) - 1
  BY <1>1, FS_RemoveElement
<1>4. S \subseteq Outstanding(p) \ {j}
  OBVIOUS
<1>5. Cardinality(S) <= Cardinality(Outstanding(p) \ {j})
  BY <1>3, <1>4, FS_Subset
<1>6. Cardinality(S) \in Nat /\ Cardinality(Outstanding(p)) \in Nat
  BY <1>1, BatchFinite
<1>7. QED
  BY <1>2, <1>3, <1>5, <1>6, MaxJobsAssumption

(* No thread ever blocks on a full channel. *)
THEOREM RoomInChannels == Spec => []ChannelsHaveRoom
<1>1. IInv => ChannelsHaveRoom
  <2>. SUFFICES ASSUME IInv, NEW p \in Processes
                PROVE  /\ PlaceOf(p, "batch") # {} => Cardinality(PlaceOf(p, "work")) < MaxJobs
                       /\ \A w \in Workers :
                             PlaceOf(p, w) # {} => Cardinality(Results(p)) < MaxJobs
    BY DEF ChannelsHaveRoom
  <2>1. ASSUME NEW j \in PlaceOf(p, "batch")
        PROVE  Cardinality(PlaceOf(p, "work")) < MaxJobs
    <3>1. /\ PlaceOf(p, "work") \in SUBSET Outstanding(p)
          /\ j \in Outstanding(p) /\ j \notin PlaceOf(p, "work")
      BY DEF PlaceOf, Outstanding
    <3>2. QED
      BY <3>1, RoomLeft
  <2>2. ASSUME NEW w \in Workers, NEW j \in PlaceOf(p, w)
        PROVE  Cardinality(Results(p)) < MaxJobs
    <3>1. /\ Results(p) \in SUBSET Outstanding(p)
          /\ j \in Outstanding(p) /\ j \notin Results(p)
      BY WorkerPlace DEF IInv, PlaceOf, Results, Outstanding, Stages
    <3>2. QED
      BY <3>1, RoomLeft
  <2>3. QED
    BY <2>1, <2>2
<1>. QED
  BY <1>1, Invariant, PTL

(* A job has a row in job_exception exactly when its row counts an error,  *)
(* for any number of processes recording in any order.                     *)
THEOREM ExceptionsMatch == Spec => []ExceptionPerError
<1>1. IInv => ExceptionPerError
  BY DEF IInv
<1>. QED
  BY <1>1, Invariant, PTL

(* A row goes away only after work_job returned Ok for its job. *)
THEOREM NoLoss == Spec => []NoJobLost
<1>1. IInv => NoJobLost
  BY DEF IInv
<1>. QED
  BY <1>1, Invariant, PTL

=============================================================================
