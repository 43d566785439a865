SPECIFICATION MCFairSpec
CONSTANTS
    Methods = {"generate_image", "upsample_image", "generate_video_text", "generate_video_reference_images", "generate_video_start_end", "generate_video_start_image", "generate_video_extend", "upsample_video", "omni", "create_project", "upload_image", "upload_to_project"}
    Captchas = {"browser", "remote", "api", "inside"}
    MaxRetries = 3
    EvaluationRetries = 4
    QuickRetries = 1
    PageTries = 3
    TaskTries = 2
    TaskPolls = 2
    r1 = r1
    r2 = r2
    Requests = {r1, r2}
    Tokens = {"a"}
    TokenOf <- MCTokenOf
    Tabs = {t1, t2, t3, t4}
    Slots = {s1, s2, s3}
    Jobs = {j1, j2}
    MaxTabs = 1
    Threshold = 1
    MaxEvents = 1
    Fresh = fresh
    None = none
INVARIANTS
    PostsWithinBudget
    SessionsAreFinished
    ReservationsHaveOwners
PROPERTIES
    CallEnds
    EveryRequestEnds
\* Once both requests have ended the tabs may stay as they are.
CHECK_DEADLOCK FALSE
