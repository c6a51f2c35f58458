SPECIFICATION Spec
CONSTANTS
    r1 = r1
    r2 = r2
    q1 = q1
    v1 = v1
    v2 = v2
    f1 = f1
    f2 = f2
    None = None
    Requests <- MCRequests
    Queries <- MCQueries
    Vendors <- MCVendors
    Feeds <- MCFeeds
    Podcasts <- MCPodcasts
    KnownPodcasts <- MCKnownPodcasts
    Results <- MCResults
    Searches <- MCSearches
    Entries <- MCEntries
    MaxRequests = 3
INVARIANTS
    CacheCoherent
PROPERTIES
    LinkKept
    RequestsEnd
    CleanedInTheEnd
CHECK_DEADLOCK FALSE
