SPECIFICATION Spec
CONSTANTS
    Requests = {r1, r2}
    Browsers = {b1}
    Emails = {e1}
    Sent = {"view", "logout", "subscribe", "unsubscribe", "favorite", "unfavorite", "play", "unplay", "login", "signup"}
    MaxRequests = 2
    None = None
INVARIANTS
    AccountsWhole
    LastWordWins
    FailsOnlyIfCleaned
    SessionKept
PROPERTIES
    NothingLost
    CleanedInTheEnd
CHECK_DEADLOCK FALSE
