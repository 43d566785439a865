SPECIFICATION MCFairSpec
CONSTANTS
    l1 = l1
    l2 = l2
    s1 = s1
    s2 = s2
    k1 = k1
    k2 = k2
    k3 = k3
    r1 = r1
    r2 = r2
    Task = task
    Refresher = refresher
    Nobody = nobody
    NoSession = nosession
    NoKey = nokey
    Requests = {r1, r2}
    Logins = {l1, l2}
    OwnSessions = {s1, s2}
    OtherSessions = {x1}
    Keys = {k1, k2, k3}
    StrikeLimit = 1
    Acts = {"delete", "edit", "toggle", "configure"}
    MaxCrashes = 1
    a1 = a1
    m1 = m1
    p1 = p1
    o1 = o1
    o2 = o2
    t1 = t1
    t2 = t2
    Jobs = {a1, m1, p1, o1, o2}
    KindOf <- MCKinds
    Sts = {t1, t2}
    EmailOf <- MCEmailOf
    MaxId = 3
    MaxItems = 2
    MaxEvents = 2
    NoOne = noone
INVARIANTS
    RecoveryIsExclusive
    EntryFollowsTask
    SessionIsOwn
    PairMatches
    ProfileStaysOnDisk
    SecondRowNeedsARace
    ReportedProfilesExist
PROPERTIES
    EveryCallerAnswered
    BackoffIsRetried
    OnboardingEnds
\* Once the account is deleted, or the calls have ended, nothing has to happen.
CHECK_DEADLOCK FALSE
