SPECIFICATION MCSpec
CONSTANTS
    Tokens = {1}
    Media = {image}
    DefaultLearnedLimit = 2
    Ceilings = {1}
    NoCeiling <- MCNoCeiling
    CooldownTicks = 1
    MaxLearned = 3
    MaxHeld = 2
    r1 = r1
    r2 = r2
    Requests = {r1, r2}
    Kinds = {"pool"}
    MediumOf <- MCMediumOf
    NoToken = 0
    CallModes = {"default"}
    BanThreshold = 2
    LogsProgress = FALSE
    MaxMoves = 0
INVARIANTS
    DisabledAfterNErrors
CHECK_DEADLOCK FALSE
