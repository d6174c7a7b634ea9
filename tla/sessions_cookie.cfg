SPECIFICATION Spec
CONSTANTS
    Browsers = {b1}
    Lenient = {}
    Users = {u1}
    Sids = {s1}
    Txns = {t1}
    TTL = 2
    Hard = 2
    Faults = {}
    None = None
INVARIANTS CookieFollowsSession
