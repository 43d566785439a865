SPECIFICATION MCFairSpec
CONSTANTS
    r1 = r1
    r2 = r2
    k1 = k1
    t1 = t1
    t2 = t2
    Requests = {r1, r2}
    Keys = {k1}
    KeyOf <- SameKey
    Tokens = {t1, t2}
    Medium = video
    NoAccount = NoAccount
    MaxCredits = 1
    DefaultLearnedLimit = 2
    Ceilings = {1}
    NoCeiling <- NoExplicitLimit
    CooldownTicks = 1
    MaxLearned = 2
    MaxCrashes = 2
    Extensions = {k1}
    Scenarios = {{"cancel", "abandon", "crash"}, {"crash", "giveUp", "lapse", "lostReply"}}
INVARIANTS
    ReleasedWhenRefused
    AcceptedIsWatched
PROPERTIES
    OutcomeIsFinal
    KeepsPromise
    AcceptedIsDecided
