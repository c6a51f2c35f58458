\* Two processes that overlap and never die.
CONSTANTS
    Jobs = {j1}
    Processes = {p1, p2}
    Workers = {w1}
    Names = {"verification_mailer"}
    MaxErrors = 2
    MaxJobs = 1
    MaxCrashes = 0
    NoRow = NoRow
SPECIFICATION Spec
INVARIANT FailsAtMostMaxErrors
