\* Two callers, three runs: one that stores the podcast and two that meet on it.
CONSTANTS
    http = http
    https = https
    other = other
    host = host
    b1 = b1
    b2 = b2
    g1 = g1
    g2 = g2
    Callers = {c1, c2}
    Urls = {https}
    SecureUrl <- MCNoSecureUrl
    HostOf <- MCHostOf
    Whitelisted = {}
    ContentLimit = 1
    Bodies = {b1, b2}
    Guids = {g1, g2}
    GuidsOf <- MCGuidsOf
    MaxRuns = 3
    None = None
CHECK_DEADLOCK FALSE
SPECIFICATION Spec
SYMMETRY Symmetry
INVARIANTS
    NewestContentShown
    PodcastHasContent
PROPERTIES
    RetrievalRecorded
