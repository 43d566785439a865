SPECIFICATION RecoverySpec
CONSTANTS
    l1 = l1
    l2 = l2
    s1 = s1
    s2 = s2
    k1 = k1
    k2 = k2
    k3 = k3
    r1 = r1
    r2 = r2
    Task = task
    Refresher = refresher
    Nobody = nobody
    NoSession = nosession
    NoKey = nokey
    Requests = {r1, r2}
    Logins = {l1, l2}
    OwnSessions = {s1, s2}
    OtherSessions = {x1}
    Keys = {k1, k2, k3}
    StrikeLimit = 1
    Acts = {"delete", "edit", "toggle", "configure"}
    MaxCrashes = 1
INVARIANT NoDeadRefresh
\* Once the account is deleted nothing has to happen any more.
CHECK_DEADLOCK FALSE
