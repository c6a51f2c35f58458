\* Two URLs, so that chains have cycles, and the code's limit of five; two
\* guids and two items, so that items share a guid or not.
CONSTANTS
    Urls = {u1, u2}
    RedirectLimit = 5
    Guids = {g1, g2}
    MaxItems = 2
    MaxDepth = 4
    None = None
SPECIFICATION FeedSpec
INVARIANTS
    TypeOK
    RequestsWithinLimit
    TemporaryNotRemembered
    TruncatedRefused
    FirstChannelRead
    EpisodesOnce
    RefusedForCause
PROPERTY ExecuteReturns
