SPECIFICATION MCFairSpec
CONSTANTS
    r1 = r1
    r2 = r2
    r3 = r3
    k1 = k1
    k2 = k2
    t1 = t1
    t2 = t2
    Requests = {r1, r2, r3}
    Keys = {k1, k2}
    KeyOf <- MCKeyOf
    Tokens = {t1, t2}
    Medium = image
    NoAccount = NoAccount
    MaxCredits = 1
    DefaultLearnedLimit = 2
    Ceilings = {1}
    NoCeiling <- NoExplicitLimit
    CooldownTicks = 1
    MaxLearned = 2
    Scenarios = {{"cancel", "abandon", "crash"}, {"delete", "refresh", "lostReply"},
                 {}}
INVARIANTS
    NeverOversold
PROPERTIES
    KeepsPromise
    SlotProtocol
    EveryRequestAnswered
