------------------------------ MODULE JobQueue ------------------------------
(***************************************************************************)
(* What the `job` table promises to the code that enqueues work, told      *)
(* without threads, channels or transactions.  A job is absent until it is *)
(* enqueued, then live with a count of errors.  It leaves the live state   *)
(* for good, either by succeeding (its row is deleted) or by erring for    *)
(* the MaxErrors-th time (its row stays, dead).  No job comes back, and no *)
(* error is forgotten or counted twice.                                    *)
(***************************************************************************)
EXTENDS Naturals

CONSTANTS
    Jobs,       \* ids of the rows of table `job`
    MaxErrors   \* MAX_ERRORS: the number of errors that kills a job

VARIABLES
    state,      \* [Jobs -> {"absent", "live", "dead", "deleted"}]
    errors      \* [Jobs -> Nat]: errors recorded against a row

queueVars == <<state, errors>>

LiveJobs == {j \in Jobs : state[j] = "live"}

QueueInit ==
    /\ state = [j \in Jobs |-> "absent"]
    /\ errors = [j \in Jobs |-> 0]

(* A transaction that inserts the row commits. *)
Put(j) ==
    /\ state[j] = "absent"
    /\ state' = [state EXCEPT ![j] = "live"]
    /\ UNCHANGED errors

(* The outcome of one batch is recorded: `good` succeeded, `bad` erred. *)
Settle(good, bad) ==
    /\ good \cap bad = {}
    /\ state' = [j \in Jobs |->
          IF j \in good THEN "deleted"
          ELSE IF j \in bad /\ errors[j] + 1 >= MaxErrors THEN "dead"
          ELSE state[j]]
    /\ errors' = [j \in Jobs |->
          IF j \in good THEN 0
          ELSE IF j \in bad THEN errors[j] + 1
          ELSE errors[j]]

QueueNext ==
    \/ \E j \in Jobs : Put(j)
    \/ \E good, bad \in SUBSET LiveJobs : Settle(good, bad)

QueueSpec == QueueInit /\ [][QueueNext]_queueVars
=============================================================================
