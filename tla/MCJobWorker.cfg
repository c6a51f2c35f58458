\* One process; three jobs, batches of two, so that a batch leaves a job out.
\* The jobs have one name: one that the worker does not know fails each time,
\* as any job may.
CONSTANTS
    Jobs = {j1, j2, j3}
    Processes = {p1}
    Workers = {w1, w2}
    Names = {"verification_mailer"}
    MaxErrors = 2
    MaxJobs = 2
    MaxCrashes = 1
    NoRow = NoRow
SPECIFICATION FairSpec
INVARIANTS
    TypeOK
    BatchConserved
    ChannelsHaveRoom
    ExceptionPerError
    SnapshotCurrent
    RepeatsOnlyByCrash
    NoJobLost
PROPERTIES
    ImplementsQueue
    JobsSettle
