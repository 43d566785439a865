\* Three tasks, of which the registry holds two at a time.
SPECIFICATION MCFairSpec
CONSTANTS
    Videos = {v1,v2,v3}
    Keys = {k1}
    Files = {f1}
    None = none
    Ttl = 1
    Capacity = 2
    Admins = {a1}
    Loops = {l1, l2}
    CacheTimeout = 1
    MaxChanges = 2
    MaxRestarts = 1
INVARIANTS
    OneWorkPerKey
    ContentIsServable
PROPERTIES
    OutcomeStays
    EveryWorkerEnds
CHECK_DEADLOCK FALSE
