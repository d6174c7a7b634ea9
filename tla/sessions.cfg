SPECIFICATION FairSpec
CONSTANTS
    Browsers = {b1}
    Lenient = {b1}
    Users = {u1}
    Sids = {s1}
    Txns = {t1, t2}
    TTL = 2
    Hard = 3
    Faults = {"audit", "crash", "loss"}
    None = None
INVARIANTS SessionInv VoidNeverServed RecordedLogoutEnded
PROPERTIES SessionsEndForGood EverySessionEnds
