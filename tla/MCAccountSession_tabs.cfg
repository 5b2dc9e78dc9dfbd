SPECIFICATION Spec
CONSTANTS
    t1 = t1
    t2 = t2
    u1 = u1
    u2 = u2
    Tabs = {t1, t2}
    Users = {u1, u2}
    MaxSessions = 2
    UserOf <- TwoAccounts
    Deactivatable = {u1}
    MaxTurns = 2
SYMMETRY Symmetric
INVARIANTS TypeOK NothingRejectedShows ShownWasConfirmed QuietTabsAgree
PROPERTIES RemovedForCause
CHECK_DEADLOCK FALSE
