\* Two callers on the two URLs of a feed, with upgrades and liveness.
CONSTANTS
    http = http
    https = https
    other = other
    host = host
    b1 = b1
    b2 = b2
    g1 = g1
    g2 = g2
    Callers = {c1, c2}
    Urls = {http, https, other}
    SecureUrl <- MCSecureUrl
    HostOf <- MCHostOf
    Whitelisted = {}
    ContentLimit = 1
    Bodies = {b1, b2}
    Guids = {g1, g2}
    GuidsOf <- MCGuidsOf
    MaxRuns = 2
    None = None
CHECK_DEADLOCK FALSE
SPECIFICATION FairSpec
INVARIANTS
    TypeOK
    PodcastHasLocation
PROPERTIES
    RunsEnd
    ImplementsStore
