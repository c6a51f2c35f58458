\* One process, which may have been started with --run-once.
CONSTANTS
    Jobs = {j1}
    Processes = {p1}
    Workers = {w1}
    Names = {"verification_mailer"}
    MaxErrors = 2
    MaxJobs = 1
    MaxCrashes = 0
    NoRow = NoRow
SPECIFICATION Spec
PROPERTY RunOnceRunsOnce
