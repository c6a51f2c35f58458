------------------------------ MODULE JobWorker ------------------------------
(***************************************************************************)
(* The background job worker: `podcore work` (mediators/job_worker.rs) and *)
(* the enqueueing side (jobs.rs), over the tables `job` and                *)
(* `job_exception`.                                                        *)
(*                                                                         *)
(* A process runs one control thread and a set of worker threads.  The     *)
(* control thread selects a batch of live jobs that are due, sends each    *)
(* over a bounded channel to the workers, waits for exactly as many        *)
(* results on a second bounded channel, and records all of them in one     *)
(* transaction before it selects again.  Nothing locks the selected rows.  *)
(*                                                                         *)
(* Abstractions.  A `model::Job` is moved from the batch to a channel, a   *)
(* worker and a result, never cloned, so a process's threads and channels  *)
(* are one function from job ids to the place that owns the struct; the    *)
(* order inside a channel is dropped, as any worker may receive any job.   *)
(* `try_at` is the flag `due` (try_at <= now), which Tick turns on.        *)
(* `args`, `created_at` and the text of errors are left out.               *)
(***************************************************************************)
EXTENDS Naturals, FiniteSets

CONSTANTS
    Jobs,        \* ids that the sequence of table `job` can produce
    Processes,   \* operating system processes running `podcore work`
    Workers,     \* worker threads of a process
    Names,       \* job names that occur in the table
    MaxErrors,   \* MAX_ERRORS
    MaxJobs,     \* MAX_JOBS: batch limit and capacity of both channels
    MaxCrashes,  \* bound: how often processes die in a behaviour
    NoRow        \* the absence of a row, or of a struct

(* The places of a job struct inside a process, other than a worker. *)
Stages == {"none", "batch", "work", "res_ok", "res_err", "succeeded", "errored"}

(* A row of table `job`, and the struct read from it. *)
JobRow == [name : Names, live : BOOLEAN, num_errors : Nat, due : BOOLEAN]
Row(name, live, num_errors, due) ==
    [name |-> name, live |-> live, num_errors |-> num_errors, due |-> due]

ASSUME JobsAssumption      == IsFiniteSet(Jobs)
ASSUME WorkersAssumption   == IsFiniteSet(Workers) /\ Workers \cap Stages = {}
ASSUME MaxErrorsAssumption == MaxErrors \in Nat \ {0}
ASSUME MaxJobsAssumption   == MaxJobs \in Nat \ {0}
ASSUME CrashesAssumption   == MaxCrashes \in Nat
ASSUME NoRowAssumption     == NoRow \notin JobRow

VARIABLES
    \* the database
    job,         \* table `job`: [Jobs -> JobRow \cup {NoRow}]
    exceptions,  \* table `job_exception`: the job_ids that have a row
    used,        \* ids the sequence of table `job` has handed out
    \* a process; all of it is lost when the process dies
    pc,          \* where the control thread is
    once,        \* the flag --run-once the process was started with
    at,          \* which thread, channel or vector owns a job struct
    copy,        \* the struct itself, as selected or as create_errored_job left it
    pending,     \* results wait_results still has to receive
    exited,      \* worker threads that have returned
    \* history, read by no action
    failures,    \* how often work_job returned Err for a job, up to HistoryCap
    successes,   \* how often work_job returned Ok for a job, up to HistoryCap
    crashes      \* how many processes have died

dbVars == <<job, exceptions, used>>
historyVars == <<failures, successes, crashes>>
vars == <<job, exceptions, used, pc, once, at, copy, pending, exited,
          failures, successes, crashes>>

(* The history counters stop here, one above anything a property compares. *)
HistoryCap == MaxErrors + MaxCrashes + 1

Bump(counter, j) ==
    [counter EXCEPT ![j] = IF @ < HistoryCap THEN @ + 1 ELSE @]

PlaceOf(p, where) == {j \in Jobs : at[p][j] = where}
Results(p) == PlaceOf(p, "res_ok") \cup PlaceOf(p, "res_err")

(* The jobs whose result the control thread has yet to receive. *)
Outstanding(p) == {j \in Jobs : at[p][j] \notin {"none", "succeeded", "errored"}}

Idle(p, w) == w \notin exited[p] /\ PlaceOf(p, w) = {}

-----------------------------------------------------------------------------
Init ==
    /\ job = [j \in Jobs |-> NoRow]
    /\ exceptions = {}
    /\ used = {}
    /\ pc = [p \in Processes |-> "down"]
    /\ once \in [Processes -> BOOLEAN]
    /\ at = [p \in Processes |-> [j \in Jobs |-> "none"]]
    /\ copy = [p \in Processes |-> [j \in Jobs |-> NoRow]]
    /\ pending = [p \in Processes |-> 0]
    /\ exited = [p \in Processes |-> {}]
    /\ failures = [j \in Jobs |-> 0]
    /\ successes = [j \in Jobs |-> 0]
    /\ crashes = 0

(***************************************************************************)
(* The world around the worker.                                            *)
(***************************************************************************)

(* A transaction that called `enqueue` commits.  The row has the table's   *)
(* defaults (live, no errors) and is due at once.                          *)
Enqueue(j, name) ==
    /\ j \notin used
    /\ used' = used \cup {j}
    /\ job' = [job EXCEPT ![j] = Row(name, TRUE, 0, TRUE)]
    /\ UNCHANGED <<exceptions, pc, once, at, copy, pending, exited, historyVars>>

(* Time passes a row's try_at. *)
Tick(j) ==
    /\ job[j] # NoRow /\ ~job[j].due
    /\ job' = [job EXCEPT ![j] = Row(@.name, @.live, @.num_errors, TRUE)]
    /\ UNCHANGED <<exceptions, used, pc, once, at, copy, pending, exited, historyVars>>

(* The process starts, or is started again by the cluster. *)
Start(p) ==
    /\ pc[p] = "down"
    /\ pc' = [pc EXCEPT ![p] = "select"]
    /\ UNCHANGED <<dbVars, once, at, copy, pending, exited, historyVars>>

Lose(p) ==
    /\ crashes < MaxCrashes
    /\ crashes' = crashes + 1
    /\ pc' = [pc EXCEPT ![p] = "down"]
    /\ at' = [at EXCEPT ![p] = [j \in Jobs |-> "none"]]
    /\ copy' = [copy EXCEPT ![p] = [j \in Jobs |-> NoRow]]
    /\ pending' = [pending EXCEPT ![p] = 0]
    /\ exited' = [exited EXCEPT ![p] = {}]
    /\ UNCHANGED <<dbVars, once, failures, successes>>

(* The process is killed at any point; what it had not committed is gone. *)
Crash(p) == pc[p] # "down" /\ Lose(p)

(* The `?` of select_jobs or record_results: the transaction is rolled     *)
(* back, the error leaves run_inner without joining a worker, and main     *)
(* turns it into exit(1).                                                  *)
DatabaseError(p) ==
    /\ \/ pc[p] = "select"
       \/ pc[p] = "wait" /\ pending[p] = 0
    /\ Lose(p)

-----------------------------------------------------------------------------
(***************************************************************************)
(* The control thread: queue_jobs_and_record_results.                      *)
(***************************************************************************)

Ready_IgnoresLive == {j \in Jobs : job[j] # NoRow /\ job[j].due}
Ready == {j \in Jobs : job[j] # NoRow /\ job[j].live /\ job[j].due}

(* The LIMIT of select_jobs; no ORDER BY says which rows it keeps. *)
WithinLimit_NoLimit(batch) == batch = Ready
WithinLimit(batch) ==
    \/ batch = Ready /\ Cardinality(batch) <= MaxJobs
    \/ Cardinality(batch) = MaxJobs

(* num_jobs, the number of results to wait for, is the length of the batch. *)
NumJobs_CountsTable(batch) == Cardinality(Ready)
NumJobs(batch) == Cardinality(batch)

TakeBatch(p, batch) ==
    /\ at' = [at EXCEPT ![p] = [j \in Jobs |-> IF j \in batch THEN "batch" ELSE @[j]]]
    /\ copy' = [copy EXCEPT ![p] = [j \in Jobs |-> IF j \in batch THEN job[j] ELSE @[j]]]
    /\ pending' = [pending EXCEPT ![p] = NumJobs(batch)]

SelectJobs(p) ==
    /\ pc[p] = "select"
    /\ Ready # {}
    /\ \E batch \in SUBSET Ready : WithinLimit(batch) /\ TakeBatch(p, batch)
    /\ pc' = [pc EXCEPT ![p] = "send"]
    /\ UNCHANGED <<dbVars, once, exited, historyVars>>

(* num_jobs == 0: a process started to run once leaves the loop, which     *)
(* drops work_send; any other sleeps.                                      *)
NoJobs(p) ==
    /\ pc[p] = "select"
    /\ Ready = {}
    /\ pc' = [pc EXCEPT ![p] = IF once[p] THEN "closing" ELSE "sleep"]
    /\ UNCHANGED <<dbVars, once, at, copy, pending, exited, historyVars>>

Wake(p) ==
    /\ pc[p] = "sleep"
    /\ pc' = [pc EXCEPT ![p] = "select"]
    /\ UNCHANGED <<dbVars, once, at, copy, pending, exited, historyVars>>

(* work_send.send(job) blocks while the channel holds MaxJobs. *)
SendJob(p) ==
    /\ pc[p] = "send"
    /\ Cardinality(PlaceOf(p, "work")) < MaxJobs
    /\ \E j \in PlaceOf(p, "batch") :
          /\ at' = [at EXCEPT ![p][j] = "work"]
          /\ pc' = [pc EXCEPT ![p] = IF PlaceOf(p, "batch") = {j} THEN "wait" ELSE "send"]
    /\ UNCHANGED <<dbVars, once, copy, pending, exited, historyVars>>

(* One turn of wait_results. *)
WaitResult(p) ==
    /\ pc[p] = "wait"
    /\ pending[p] > 0
    /\ \E j \in Results(p) :
          at' = [at EXCEPT ![p][j] = IF @ = "res_ok" THEN "succeeded" ELSE "errored"]
    /\ pending' = [pending EXCEPT ![p] = @ - 1]
    /\ UNCHANGED <<dbVars, pc, once, copy, exited, historyVars>>

(***************************************************************************)
(* record_results: one transaction.  Exceptions and rows of the succeeded  *)
(* jobs are deleted; if any job erred, the rows of the errored ones are    *)
(* upserted from the structs (inserted whole if the row is gone), then     *)
(* their exceptions.                                                       *)
(***************************************************************************)
Upserted_KeepsLive(old, new) ==
    IF old = NoRow THEN new
    ELSE Row(old.name, old.live, new.num_errors, new.due)
Upserted_KeepsErrors(old, new) ==
    IF old = NoRow THEN new
    ELSE Row(old.name, new.live, old.num_errors, new.due)
Upserted(old, new) ==
    IF old = NoRow THEN new
    ELSE Row(old.name, new.live, new.num_errors, new.due)

RecordedExceptions_NoDelete(succeeded, errored) == exceptions \cup errored
RecordedExceptions(succeeded, errored) == (exceptions \ succeeded) \cup errored

RecordedRow_EarlyReturn(p, succeeded, errored, j) ==
    IF errored = {} THEN job[j]
    ELSE IF j \in succeeded THEN NoRow
    ELSE IF j \in errored THEN Upserted(job[j], copy[p][j])
    ELSE job[j]
RecordedRow_DropsDead(p, succeeded, errored, j) ==
    IF j \in succeeded THEN NoRow
    ELSE IF j \in errored THEN
        (IF copy[p][j].live THEN Upserted(job[j], copy[p][j]) ELSE NoRow)
    ELSE job[j]
RecordedRow(p, succeeded, errored, j) ==
    IF j \in succeeded THEN NoRow
    ELSE IF j \in errored THEN Upserted(job[j], copy[p][j])
    ELSE job[j]

RecordResults(p) ==
    /\ pc[p] = "wait"
    /\ pending[p] = 0
    /\ LET succeeded == PlaceOf(p, "succeeded")
           errored == PlaceOf(p, "errored")
           recorded == succeeded \cup errored
       IN  /\ exceptions' = RecordedExceptions(succeeded, errored)
           /\ job' = [j \in Jobs |-> RecordedRow(p, succeeded, errored, j)]
           /\ at' = [at EXCEPT ![p] = [j \in Jobs |-> IF j \in recorded THEN "none" ELSE @[j]]]
           /\ copy' = [copy EXCEPT ![p] = [j \in Jobs |-> IF j \in recorded THEN NoRow ELSE @[j]]]
    /\ pc' = [pc EXCEPT ![p] = IF once[p] THEN "closing" ELSE "select"]
    /\ UNCHANGED <<used, once, pending, exited, historyVars>>

(* All workers joined: run_inner returns.  The loop of subcommand_work     *)
(* then makes a new mediator with the same flag and runs it.               *)
Join(p) ==
    /\ pc[p] = "closing"
    /\ exited[p] = Workers
    /\ pc' = [pc EXCEPT ![p] = "returned"]
    /\ UNCHANGED <<dbVars, once, at, copy, pending, exited, historyVars>>

RunAgain(p) ==
    /\ pc[p] = "returned"
    /\ pc' = [pc EXCEPT ![p] = "select"]
    /\ exited' = [exited EXCEPT ![p] = {}]
    /\ UNCHANGED <<dbVars, once, at, copy, pending, historyVars>>

-----------------------------------------------------------------------------
(***************************************************************************)
(* A worker thread: `work`.                                                *)
(***************************************************************************)

ReceiveJob(p, w) ==
    /\ Idle(p, w)
    /\ \E j \in PlaceOf(p, "work") : at' = [at EXCEPT ![p][j] = w]
    /\ UNCHANGED <<dbVars, pc, once, copy, pending, exited, historyVars>>

(* work_job: a name the worker does not know is an error.  Any job may     *)
(* fail: its arguments may not be those this version reads, and the mailer *)
(* reads its code from the database.                                       *)
MaySucceed(name) == name \in {"no_op", "verification_mailer"}

(* create_errored_job: one error more, dead at the limit, else due later. *)
CreateErroredJob_LimitOffByOne(row) ==
    LET num_errors == row.num_errors + 1
        live == num_errors <= MaxErrors
    IN  Row(row.name, live, num_errors, ~live)
CreateErroredJob(row) ==
    LET num_errors == row.num_errors + 1
        live == num_errors < MaxErrors
    IN  Row(row.name, live, num_errors, ~live)

(* res_send.send(result) blocks while the channel holds MaxJobs. *)
JobOk(p, w) ==
    /\ Cardinality(Results(p)) < MaxJobs
    /\ \E j \in PlaceOf(p, w) :
          /\ MaySucceed(copy[p][j].name)
          /\ at' = [at EXCEPT ![p][j] = "res_ok"]
          /\ successes' = Bump(successes, j)
    /\ UNCHANGED <<dbVars, pc, once, copy, pending, exited, failures, crashes>>

JobErr(p, w) ==
    /\ Cardinality(Results(p)) < MaxJobs
    /\ \E j \in PlaceOf(p, w) :
          /\ at' = [at EXCEPT ![p][j] = "res_err"]
          /\ copy' = [copy EXCEPT ![p][j] = CreateErroredJob(@)]
          /\ failures' = Bump(failures, j)
    /\ UNCHANGED <<dbVars, pc, once, pending, exited, successes, crashes>>

(* The channel is closed and empty: recv gives None and the thread returns. *)
WorkerExit(p, w) ==
    /\ pc[p] = "closing"
    /\ Idle(p, w)
    /\ PlaceOf(p, "work") = {}
    /\ exited' = [exited EXCEPT ![p] = @ \cup {w}]
    /\ UNCHANGED <<dbVars, pc, once, at, copy, pending, historyVars>>

-----------------------------------------------------------------------------
Control(p) ==
    \/ SelectJobs(p) \/ NoJobs(p) \/ Wake(p)
    \/ SendJob(p) \/ WaitResult(p) \/ RecordResults(p)
    \/ Join(p) \/ RunAgain(p)

Worker(p, w) ==
    ReceiveJob(p, w) \/ JobOk(p, w) \/ JobErr(p, w) \/ WorkerExit(p, w)

Next ==
    \/ \E j \in Jobs, name \in Names : Enqueue(j, name)
    \/ \E j \in Jobs : Tick(j)
    \/ \E p \in Processes :
          \/ Start(p) \/ Crash(p) \/ DatabaseError(p)
          \/ Control(p)
          \/ \E w \in Workers : Worker(p, w)

Spec == Init /\ [][Next]_vars

(* Threads are scheduled, the cluster restarts a dead process, time passes. *)
(* Nothing says that a job succeeds, or that one is ever enqueued.          *)
Fairness ==
    /\ \A j \in Jobs : WF_vars(Tick(j))
    /\ \A p \in Processes :
          /\ WF_vars(Start(p))
          /\ WF_vars(Control(p))
          /\ \A w \in Workers : WF_vars(Worker(p, w))

FairSpec == Spec /\ Fairness
-----------------------------------------------------------------------------
(***************************************************************************)
(* Properties.                                                             *)
(***************************************************************************)

(* The type of every variable. *)
Types ==
    /\ job \in [Jobs -> JobRow \cup {NoRow}]
    /\ exceptions \in SUBSET Jobs
    /\ used \in SUBSET Jobs
    /\ pc \in [Processes ->
          {"down", "select", "sleep", "send", "wait", "closing", "returned"}]
    /\ once \in [Processes -> BOOLEAN]
    /\ at \in [Processes -> [Jobs -> Stages \cup Workers]]
    /\ copy \in [Processes -> [Jobs -> JobRow \cup {NoRow}]]
    /\ pending \in [Processes -> Nat]
    /\ exited \in [Processes -> SUBSET Workers]
    /\ failures \in [Jobs -> 0..HistoryCap]
    /\ successes \in [Jobs -> 0..HistoryCap]
    /\ crashes \in 0..MaxCrashes

(* Beyond its type a recorded error count never passes MAX_ERRORS, as a    *)
(* dead row is not selected and a batch is recorded before the next one.   *)
TypeOK ==
    /\ Types
    /\ \A j \in Jobs : job[j] # NoRow => job[j].num_errors <= MaxErrors

(* wait_results counts results, it does not look at ids: the number it     *)
(* still waits for is the number of jobs that threads and channels hold,   *)
(* so it neither stops early nor waits for a result nobody will send.      *)
BatchConserved ==
    \A p \in Processes : pending[p] = Cardinality(Outstanding(p))

(* Both channels have the capacity of a whole batch: the control thread    *)
(* never blocks in work_send.send while workers block in res_send.send,    *)
(* the cycle in which each would wait for the other.                       *)
ChannelsHaveRoom ==
    \A p \in Processes :
        /\ PlaceOf(p, "batch") # {} => Cardinality(PlaceOf(p, "work")) < MaxJobs
        /\ \A w \in Workers :
              PlaceOf(p, w) # {} => Cardinality(Results(p)) < MaxJobs

(* The two tables agree: a job has an exception exactly when its row       *)
(* counts an error, whatever processes recorded and in what order.  The    *)
(* foreign key of job_exception alone gives only half of one direction.    *)
ExceptionPerError ==
    \A j \in Jobs :
        j \in exceptions <=> (job[j] # NoRow /\ job[j].num_errors > 0)

InFlight(p, j) == at[p][j] # "none"
Erred(p, j) == at[p][j] \in {"res_err", "errored"}

(* With a single worker process the structs in flight, read without a lock *)
(* and written back much later, are never stale: a row whose job is in     *)
(* flight is still live and still has the error count that was selected.   *)
SnapshotCurrent ==
    \A p \in Processes, j \in Jobs :
        InFlight(p, j) =>
            /\ job[j] # NoRow
            /\ copy[p][j] # NoRow
            /\ job[j].live
            /\ copy[p][j].name = job[j].name
            /\ copy[p][j].num_errors = job[j].num_errors + (IF Erred(p, j) THEN 1 ELSE 0)
            /\ copy[p][j].live <=> copy[p][j].num_errors < MaxErrors

(* With a single worker process a job whose work is done is done again     *)
(* only if the process died in between, once for each death: it succeeds   *)
(* once and fails MAX_ERRORS times at most, plus the number of crashes.    *)
RepeatsOnlyByCrash ==
    \A j \in Jobs :
        /\ successes[j] <= 1 + crashes
        /\ failures[j] <= MaxErrors + crashes

(* No job is lost: a row goes away only after work_job returned Ok for it, *)
(* whatever processes overlap, die or fail to record in between.           *)
NoJobLost == \A j \in used : job[j] # NoRow \/ successes[j] > 0

(* What the tables say of a job, in the terms of the abstract queue.       *)
QueueState(j) ==
    IF job[j] = NoRow THEN (IF j \in used THEN "deleted" ELSE "absent")
    ELSE IF job[j].live THEN "live" ELSE "dead"
QueueErrors(j) == IF job[j] = NoRow THEN 0 ELSE job[j].num_errors

Queue == INSTANCE JobQueue WITH
    state <- [j \in Jobs |-> QueueState(j)],
    errors <- [j \in Jobs |-> QueueErrors(j)]

(* With a single worker process the tables implement the abstract queue:   *)
(* jobs that left the live state stay out of it and every recorded error   *)
(* counts one.                                                             *)
ImplementsQueue == Queue!QueueSpec

(* Every live job is settled in the end: deleted after a success or dead   *)
(* after MAX_ERRORS errors, even if more jobs are ready than a batch takes *)
(* and the unordered LIMIT may keep leaving the same one out.              *)
JobsSettle ==
    \A j \in Jobs : QueueState(j) = "live" ~> QueueState(j) \in {"dead", "deleted"}

(* What the comment on MAX_ERRORS says: a job is allowed to fail that many *)
(* times before it is no longer live.  Two processes that overlap, as they *)
(* do while a deployment replaces its pod, both work the rows they select. *)
FailsAtMostMaxErrors == \A j \in Jobs : failures[j] <= MaxErrors

(* What --run-once says: the process runs one time instead of looping.     *)
RunOnceRunsOnce ==
    [][\A p \in Processes : once[p] /\ pc[p] = "returned" => pc'[p] # "select"]_vars
=============================================================================
