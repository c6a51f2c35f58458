\* The row an unsubscription has found, and the cleaner.
SPECIFICATION Spec
CONSTANTS
    Requests = {r1}
    Browsers = {b1}
    Emails = {e1}
    Sent = {"unsubscribe"}
    MaxRequests = 1
    None = None
INVARIANT UnsubscribeFindsRow
CHECK_DEADLOCK FALSE
