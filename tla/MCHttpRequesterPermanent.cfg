\* One redirect is enough.
CONSTANTS
    Urls = {u1, u2}
    RedirectLimit = 2
    None = None
SPECIFICATION Spec
INVARIANT PermanentRedirectPersisted
