-------------------------- MODULE SubmissionProofs ---------------------------
(***************************************************************************)
(* Theorems about the submissions of the flow client and about the tabs of *)
(* a resident browser that solve captchas for them. They share no state.   *)
(***************************************************************************)
EXTENDS FlowSubmission, ResidentTabs, TLAPS

(***************************************************************************)
(* For any methods, captcha services and retry budgets, the loops of the   *)
(* flow client post no more often than their budgets multiply to, and tell *)
(* every remote browser that its request has ended.                        *)
(***************************************************************************)
Places == {"captcha", "task", "noToken", "prepare", "attach", "agent", "post",
           "page", "urllib", "quick", "fallback", "retry", "done"}

Shape ==
    /\ method \in Methods /\ captcha \in Captchas
    /\ pc \in Places /\ stage \in {1, 2}
    /\ {round, budget, try, open, posts} \subseteq Nat

\* The second stage is the approval of omni or the old endpoint of an upload.
StagesFit ==
    /\ stage = 2 => method \in {"omni", "upload_image"}
    /\ pc = "fallback" => method = "upload_image" /\ stage = 1
    /\ pc = "quick" => method = "generate_image" /\ ~InPage
    /\ pc = "urllib" => Direct /\ ~InPage
    /\ pc = "page" => InPage
    /\ pc \in {"captcha", "task", "noToken", "prepare", "attach", "agent"} => NeedsCaptcha
    /\ pc \in {"task", "noToken"} => captcha = "api"
    /\ pc \in {"prepare", "attach", "agent"} => stage = 1

\* Only a failed evaluation, of omni, raises the budget of rounds.
RoundsFit ==
    /\ fault = "evaluation" => method = "omni"
    /\ budget = MaxRetries \/ (method = "omni" /\ budget = EvaluationRetries)
    /\ round < budget

\* What the counter of repeats counts: nothing before the first post of a
\* round, afterwards the repeats of the page or of the timeouts.
RepeatsFit ==
    /\ pc \in {"prepare", "attach", "agent"} => try = 0
    /\ pc = "captcha" /\ captcha # "api" => try = 0
    /\ pc \in {"post", "page", "urllib", "quick", "fallback"} =>
          IF InPage THEN try < PageTries
          ELSE IF method = "generate_image" THEN try <= QuickRetries ELSE try = 0

\* The posts of the first stage of a round.
Before == IF stage = 1 THEN 0
          ELSE IF InPage THEN PageTries ELSE IF method = "omni" THEN 1 ELSE 2

\* The posts of this stage's earlier repeats.
Repeated == IF InPage THEN try ELSE IF method = "generate_image" THEN 2 * try ELSE 0

\* At most so many posts of this round are out.
Sent ==
    IF pc \in {"captcha", "task", "noToken", "prepare", "attach", "agent"} THEN Before
    ELSE IF pc = "post" THEN Before + Repeated
    ELSE IF pc \in {"page", "urllib"} THEN Before + Repeated + 1
    ELSE IF pc \in {"quick", "fallback"} THEN Before + Repeated + 2
    ELSE PostsPerRound

\* At most so many are of the rounds before.
Past == round * PostsPerRound

PostsFit == posts <= Past + Sent

\* The sessions of the rounds before this one were told.
SessionsFit ==
    /\ captcha # "remote" => open = 0
    /\ stage = 1 => open <= 1
    /\ stage = 2 => open <= IF pc = "captcha" THEN 1 ELSE 2
    /\ stage = 2 /\ method # "omni" => open = 0
    /\ pc = "captcha" /\ stage = 1 => open = 0
    /\ ~NeedsCaptcha => open = 0
    /\ pc = "done" /\ result # "cut" => open = 0

FlowInv == Shape /\ StagesFit /\ RoundsFit /\ RepeatsFit /\ PostsFit /\ SessionsFit

----------------------------------------------------------------------------
(***************************************************************************)
(* What the loops of one round add up to, whatever the place in it.        *)
(***************************************************************************)
LEMMA RoundSize ==
    ASSUME Shape
    PROVE  PostsPerRound \in Nat /\ Past \in Nat
<1>1. PostsPerRound \in Nat
  BY BudgetAssumption DEF Shape, PostsPerRound, InPage
<1> QED BY <1>1 DEF Past, Shape

LEMMA SentFits ==
    ASSUME Shape, StagesFit, RepeatsFit
    PROVE  /\ Sent \in Nat /\ Sent <= PostsPerRound
           /\ pc \in {"post", "urllib"} => Sent + 1 <= PostsPerRound
<1> USE BudgetAssumption, MethodsAssumption
    DEF Shape, Places, StagesFit, RepeatsFit, Sent, Before, Repeated, PostsPerRound, InPage
<1>1. CASE InPage
  <2>1. method \in {"generate_image", "omni"} /\ NeedsCaptcha /\ Repeated = try
    BY <1>1 DEF InPage, NeedsCaptcha, ControlMethods
  <2>2. PostsPerRound = IF method = "omni" THEN 2 * PageTries ELSE PageTries
    BY <1>1
  <2>3. stage = 2 => method = "omni"
    BY <2>1
  <2>4. Before = IF stage = 1 THEN 0 ELSE PageTries
    BY <1>1
  <2>5. pc \notin {"urllib", "quick", "fallback"}
    BY <1>1, <2>1
  <2> HIDE DEF Before, Repeated, PostsPerRound
  <2> QED BY <1>1, <2>1, <2>2, <2>3, <2>4, <2>5
<1>2. CASE ~InPage /\ method = "generate_image"
  BY <1>2 DEF Direct, NeedsCaptcha, ControlMethods
<1>3. CASE ~InPage /\ method = "upload_image"
  <2>1. PostsPerRound = 4 /\ Repeated = 0 /\ ~NeedsCaptcha
    BY <1>3 DEF NeedsCaptcha, ControlMethods
  <2>2. Before = IF stage = 1 THEN 0 ELSE 2
    BY <1>3
  <2>3. pc \notin {"page", "quick"} /\ (pc = "fallback" => stage = 1)
    BY <1>3
  <2> HIDE DEF Before, Repeated, PostsPerRound
  <2> QED BY <1>3, <2>1, <2>2, <2>3
<1>4. CASE ~InPage /\ method \in ControlMethods \ {"upload_image"}
  BY <1>4 DEF Direct, NeedsCaptcha, ControlMethods
<1>5. CASE ~InPage /\ method = "omni"
  BY <1>5 DEF Direct, NeedsCaptcha, ControlMethods
<1>6. CASE ~InPage /\ method \notin ControlMethods \cup {"generate_image", "omni"}
  BY <1>6 DEF Direct, NeedsCaptcha, ControlMethods
<1> QED BY <1>1, <1>2, <1>3, <1>4, <1>5, <1>6 DEF ControlMethods

LEMMA TokenLeads ==
    /\ WithToken \in {"prepare", "attach", "post"}
    /\ WithToken # "post" => stage # 2
BY DEF WithToken

LEMMA SameCall ==
    ASSUME UNCHANGED <<call, round>>
    PROVE  Past' = Past /\ PostsPerRound' = PostsPerRound
BY DEF call, Past, PostsPerRound, InPage

(***************************************************************************)
(* Another round, or the end of the call: what this round has posted is    *)
(* within its share, and the next one starts with none and no browser.     *)
(***************************************************************************)
LEMMA RoundEnds ==
    ASSUME FlowInv, pc # "done", NEW retryable \in BOOLEAN, NEW f,
           f = "evaluation" => fault = f,
           NextRound(retryable, f), UNCHANGED <<call, fault, posts>>
    PROVE  FlowInv'
<1> USE DEF FlowInv, NextRound, TellBrowsers, End, StartRound, call
<1>1. Budget(f) \in Nat /\ (Budget(f) = budget \/ (method = "omni" /\ Budget(f) = EvaluationRetries))
  BY BudgetAssumption DEF Budget, RoundsFit, Shape
<1>2. PostsPerRound' = PostsPerRound
  BY DEF PostsPerRound, InPage
<1>3. posts <= Past + PostsPerRound
  BY RoundSize, SentFits DEF PostsFit, Shape
<1>4. CASE retryable /\ round < Budget(f) - 1
  <2>1. /\ pc' = StartRound /\ round' = round + 1 /\ try' = 0 /\ stage' = 1
        /\ budget' = Budget(f) /\ open' = 0
    BY <1>4
  <2>2. Past' = Past + PostsPerRound
    BY <1>2, <2>1, RoundSize DEF Past, Shape
  <2>3. Shape' /\ StagesFit'
    BY <1>1, <2>1 DEF Shape, Places, StagesFit, NeedsCaptcha
  <2>4. RoundsFit'
    BY <1>1, <1>4, <2>1 DEF RoundsFit, Shape
  <2>5. RepeatsFit'
    BY <2>1, BudgetAssumption DEF RepeatsFit
  <2>6. PostsFit'
    <3>1. Sent' = 0
      BY <2>1 DEF Sent, Before, Repeated
    <3> QED BY <1>3, <2>2, <3>1, RoundSize DEF PostsFit
  <2>7. SessionsFit'
    BY <2>1 DEF SessionsFit
  <2> QED BY <2>3, <2>4, <2>5, <2>6, <2>7
<1>5. CASE ~(retryable /\ round < Budget(f) - 1)
  <2>1. /\ pc' = "done" /\ stage' = 1 /\ open' = 0
        /\ UNCHANGED <<round, try, budget>>
    BY <1>5
  <2>2. Past' = Past
    BY <1>2, <2>1 DEF Past
  <2>3. Shape' /\ StagesFit' /\ RoundsFit' /\ RepeatsFit' /\ SessionsFit'
    BY <2>1 DEF Shape, Places, StagesFit, RoundsFit, RepeatsFit, SessionsFit
  <2>4. PostsFit'
    BY <1>2, <1>3, <2>1, <2>2 DEF PostsFit, Sent
  <2> QED BY <2>3, <2>4
<1> QED BY <1>4, <1>5

(***************************************************************************)
(* Captcha and preparation: no post goes out.                              *)
(***************************************************************************)
LEMMA CaptchaSolvedKeeps == ASSUME FlowInv, CaptchaSolved PROVE FlowInv'
<1> USE BudgetAssumption, MethodsAssumption
    DEF FlowInv, Shape, Places, call, omniVars, CaptchaSolved, Opened
<1>1. Shape'
  BY TokenLeads
<1>2. StagesFit' /\ RepeatsFit'
  <2>1. /\ NeedsCaptcha /\ try' = 0 /\ UNCHANGED <<method, captcha, stage>>
        /\ stage = 2 => method \in {"omni", "upload_image"}
    BY DEF StagesFit, RepeatsFit
  <2>2. /\ pc' \in {"prepare", "attach", "post"}
        /\ pc' # "post" => stage = 1
    BY TokenLeads
  <2> QED BY <2>1, <2>2 DEF StagesFit, RepeatsFit, InPage, NeedsCaptcha
<1>3. RoundsFit'
  BY DEF RoundsFit
<1>4. PostsFit'
  <2>1. posts' <= Past + Sent'
    BY RoundSize, SentFits, SameCall, TokenLeads
    DEF PostsFit, Sent, Before, Repeated, StagesFit, RepeatsFit, InPage, Direct,
        NeedsCaptcha, ControlMethods
  <2> QED BY <2>1, SameCall DEF PostsFit
<1>5. SessionsFit'
  BY TokenLeads DEF SessionsFit, StagesFit, NeedsCaptcha, ControlMethods
<1> QED BY <1>1, <1>2, <1>3, <1>4, <1>5

LEMMA TaskRefusedKeeps == ASSUME FlowInv, TaskRefused PROVE FlowInv'
<1> USE BudgetAssumption, MethodsAssumption
    DEF FlowInv, Shape, Places, call, omniVars, TaskRefused
<1>1. Shape'
  OBVIOUS
<1>2. StagesFit' /\ RepeatsFit'
  BY DEF StagesFit, RepeatsFit, InPage, Direct, NeedsCaptcha, ControlMethods, VideoMethods
<1>3. RoundsFit'
  BY DEF RoundsFit
<1>4. PostsFit'
  <2>1. posts' <= Past + Sent'
    BY RoundSize, SentFits, SameCall
    DEF PostsFit, Sent, Before, Repeated, StagesFit, RepeatsFit, InPage, Direct,
        NeedsCaptcha, ControlMethods
  <2> QED BY <2>1, SameCall DEF PostsFit
<1>5. SessionsFit'
  BY DEF SessionsFit, StagesFit, NeedsCaptcha, ControlMethods
<1> QED BY <1>1, <1>2, <1>3, <1>4, <1>5

LEMMA TaskCreatedKeeps == ASSUME FlowInv, TaskCreated PROVE FlowInv'
<1> USE BudgetAssumption, MethodsAssumption
    DEF FlowInv, Shape, Places, call, omniVars, TaskCreated
<1>1. Shape'
  OBVIOUS
<1>2. StagesFit' /\ RepeatsFit'
  BY DEF StagesFit, RepeatsFit, InPage, Direct, NeedsCaptcha, ControlMethods, VideoMethods
<1>3. RoundsFit'
  BY DEF RoundsFit
<1>4. PostsFit'
  <2>1. posts' <= Past + Sent'
    BY RoundSize, SentFits, SameCall
    DEF PostsFit, Sent, Before, Repeated, StagesFit, RepeatsFit, InPage, Direct,
        NeedsCaptcha, ControlMethods
  <2> QED BY <2>1, SameCall DEF PostsFit
<1>5. SessionsFit'
  BY DEF SessionsFit, StagesFit, NeedsCaptcha, ControlMethods
<1> QED BY <1>1, <1>2, <1>3, <1>4, <1>5

LEMMA TaskPendingKeeps == ASSUME FlowInv, TaskPending PROVE FlowInv'
<1> USE BudgetAssumption, MethodsAssumption
    DEF FlowInv, Shape, Places, call, omniVars, TaskPending
<1>1. Shape'
  OBVIOUS
<1>2. StagesFit' /\ RepeatsFit'
  BY DEF StagesFit, RepeatsFit, InPage, Direct, NeedsCaptcha, ControlMethods, VideoMethods
<1>3. RoundsFit'
  BY DEF RoundsFit
<1>4. PostsFit'
  <2>1. posts' <= Past + Sent'
    BY RoundSize, SentFits, SameCall
    DEF PostsFit, Sent, Before, Repeated, StagesFit, RepeatsFit, InPage, Direct,
        NeedsCaptcha, ControlMethods
  <2> QED BY <2>1, SameCall DEF PostsFit
<1>5. SessionsFit'
  BY DEF SessionsFit, StagesFit, NeedsCaptcha, ControlMethods
<1> QED BY <1>1, <1>2, <1>3, <1>4, <1>5

LEMMA TaskReadyKeeps == ASSUME FlowInv, TaskReady PROVE FlowInv'
<1> USE BudgetAssumption, MethodsAssumption
    DEF FlowInv, Shape, Places, call, omniVars, TaskReady
<1>1. Shape'
  BY TokenLeads
<1>2. StagesFit' /\ RepeatsFit'
  <2>1. /\ NeedsCaptcha /\ try' = 0 /\ UNCHANGED <<method, captcha, stage>>
        /\ stage = 2 => method \in {"omni", "upload_image"}
    BY DEF StagesFit, RepeatsFit
  <2>2. /\ pc' \in {"prepare", "attach", "post"}
        /\ pc' # "post" => stage = 1
    BY TokenLeads
  <2> QED BY <2>1, <2>2 DEF StagesFit, RepeatsFit, InPage, NeedsCaptcha
<1>3. RoundsFit'
  BY DEF RoundsFit
<1>4. PostsFit'
  <2>1. posts' <= Past + Sent'
    BY RoundSize, SentFits, SameCall, TokenLeads
    DEF PostsFit, Sent, Before, Repeated, StagesFit, RepeatsFit, InPage, Direct,
        NeedsCaptcha, ControlMethods
  <2> QED BY <2>1, SameCall DEF PostsFit
<1>5. SessionsFit'
  BY TokenLeads DEF SessionsFit, StagesFit, NeedsCaptcha, ControlMethods
<1> QED BY <1>1, <1>2, <1>3, <1>4, <1>5

LEMMA TaskFailsKeeps == ASSUME FlowInv, TaskFails PROVE FlowInv'
<1> USE BudgetAssumption, MethodsAssumption
    DEF FlowInv, Shape, Places, call, omniVars, TaskFails
<1>1. Shape'
  OBVIOUS
<1>2. StagesFit' /\ RepeatsFit'
  BY DEF StagesFit, RepeatsFit, InPage, Direct, NeedsCaptcha, ControlMethods, VideoMethods
<1>3. RoundsFit'
  BY DEF RoundsFit
<1>4. PostsFit'
  <2>1. posts' <= Past + Sent'
    BY RoundSize, SentFits, SameCall
    DEF PostsFit, Sent, Before, Repeated, StagesFit, RepeatsFit, InPage, Direct,
        NeedsCaptcha, ControlMethods
  <2> QED BY <2>1, SameCall DEF PostsFit
<1>5. SessionsFit'
  BY DEF SessionsFit, StagesFit, NeedsCaptcha, ControlMethods
<1> QED BY <1>1, <1>2, <1>3, <1>4, <1>5

LEMMA PrepareKeeps == ASSUME FlowInv, Prepare PROVE FlowInv'
<1> USE BudgetAssumption, MethodsAssumption
    DEF FlowInv, Shape, Places, call, omniVars, Prepare
<1>1. Shape'
  OBVIOUS
<1>2. StagesFit' /\ RepeatsFit'
  BY DEF StagesFit, RepeatsFit, InPage, Direct, NeedsCaptcha, ControlMethods, VideoMethods
<1>3. RoundsFit'
  BY DEF RoundsFit
<1>4. PostsFit'
  <2>1. posts' <= Past + Sent'
    BY RoundSize, SentFits, SameCall
    DEF PostsFit, Sent, Before, Repeated, StagesFit, RepeatsFit, InPage, Direct,
        NeedsCaptcha, ControlMethods
  <2> QED BY <2>1, SameCall DEF PostsFit
<1>5. SessionsFit'
  BY DEF SessionsFit, StagesFit, NeedsCaptcha, ControlMethods
<1> QED BY <1>1, <1>2, <1>3, <1>4, <1>5

LEMMA AttachReferencesKeeps == ASSUME FlowInv, AttachReferences PROVE FlowInv'
<1> USE BudgetAssumption, MethodsAssumption
    DEF FlowInv, Shape, Places, call, omniVars, AttachReferences, Faults, Statuses, Doubtful
<1>1. Shape'
  OBVIOUS
<1>2. StagesFit' /\ RepeatsFit'
  BY DEF StagesFit, RepeatsFit, InPage, Direct, NeedsCaptcha, ControlMethods, VideoMethods
<1>3. RoundsFit'
  BY DEF RoundsFit
<1>4. PostsFit'
  <2>1. posts' <= Past + Sent'
    BY RoundSize, SentFits, SameCall
    DEF PostsFit, Sent, Before, Repeated, StagesFit, RepeatsFit, InPage, Direct,
        NeedsCaptcha, ControlMethods
  <2> QED BY <2>1, SameCall DEF PostsFit
<1>5. SessionsFit'
  BY DEF SessionsFit, StagesFit, NeedsCaptcha, ControlMethods
<1> QED BY <1>1, <1>2, <1>3, <1>4, <1>5

LEMMA FindAgentKeeps == ASSUME FlowInv, FindAgent PROVE FlowInv'
<1> USE BudgetAssumption, MethodsAssumption
    DEF FlowInv, Shape, Places, call, omniVars, FindAgent, Faults, Statuses, Doubtful
<1>1. Shape'
  OBVIOUS
<1>2. StagesFit' /\ RepeatsFit'
  BY DEF StagesFit, RepeatsFit, InPage, Direct, NeedsCaptcha, ControlMethods, VideoMethods
<1>3. RoundsFit'
  BY DEF RoundsFit
<1>4. PostsFit'
  <2>1. posts' <= Past + Sent'
    BY RoundSize, SentFits, SameCall
    DEF PostsFit, Sent, Before, Repeated, StagesFit, RepeatsFit, InPage, Direct,
        NeedsCaptcha, ControlMethods
  <2> QED BY <2>1, SameCall DEF PostsFit
<1>5. SessionsFit'
  BY DEF SessionsFit, StagesFit, NeedsCaptcha, ControlMethods
<1> QED BY <1>1, <1>2, <1>3, <1>4, <1>5

(***************************************************************************)
(* A post adds one; where it leads, the place counts it.                   *)
(***************************************************************************)
LEMMA PostAnsweredKeeps == ASSUME FlowInv, PostAnswered PROVE FlowInv'
<1> USE BudgetAssumption, MethodsAssumption
    DEF FlowInv, Shape, Places, call, omniVars, PostAnswered, End, TellBrowsers
<1>1. Shape'
  OBVIOUS
<1>2. StagesFit' /\ RepeatsFit'
  BY DEF StagesFit, RepeatsFit, InPage, Direct, NeedsCaptcha, ControlMethods, VideoMethods
<1>3. RoundsFit'
  BY DEF RoundsFit
<1>4. PostsFit'
  <2>1. posts' <= Past + Sent'
    BY RoundSize, SentFits, SameCall
    DEF PostsFit, Sent, Before, Repeated, StagesFit, RepeatsFit, InPage, Direct,
        NeedsCaptcha, ControlMethods
  <2> QED BY <2>1, SameCall DEF PostsFit
<1>5. SessionsFit'
  BY DEF SessionsFit, StagesFit, NeedsCaptcha, ControlMethods
<1> QED BY <1>1, <1>2, <1>3, <1>4, <1>5

LEMMA PostUselessKeeps == ASSUME FlowInv, PostUseless PROVE FlowInv'
<1> USE BudgetAssumption, MethodsAssumption
    DEF FlowInv, Shape, Places, call, omniVars, PostUseless, AfterError
<1>1. Shape'
  OBVIOUS
<1>2. StagesFit' /\ RepeatsFit'
  BY DEF StagesFit, RepeatsFit, InPage, Direct, NeedsCaptcha, ControlMethods, VideoMethods
<1>3. RoundsFit'
  BY DEF RoundsFit
<1>4. PostsFit'
  <2>1. posts' <= Past + Sent'
    BY RoundSize, SentFits, SameCall
    DEF PostsFit, Sent, Before, Repeated, StagesFit, RepeatsFit, InPage, Direct,
        NeedsCaptcha, ControlMethods
  <2> QED BY <2>1, SameCall DEF PostsFit
<1>5. SessionsFit'
  BY DEF SessionsFit, StagesFit, NeedsCaptcha, ControlMethods
<1> QED BY <1>1, <1>2, <1>3, <1>4, <1>5

LEMMA PostRefusedKeeps == ASSUME FlowInv, PostRefused PROVE FlowInv'
<1> USE BudgetAssumption, MethodsAssumption
    DEF FlowInv, Shape, Places, call, omniVars, PostRefused, PostFails, AfterError, Statuses, Doubtful
<1>1. Shape'
  OBVIOUS
<1>2. StagesFit' /\ RepeatsFit'
  BY DEF StagesFit, RepeatsFit, InPage, Direct, NeedsCaptcha, ControlMethods, VideoMethods
<1>3. RoundsFit'
  BY DEF RoundsFit
<1>4. PostsFit'
  <2>1. posts' <= Past + Sent'
    BY RoundSize, SentFits, SameCall
    DEF PostsFit, Sent, Before, Repeated, StagesFit, RepeatsFit, InPage, Direct,
        NeedsCaptcha, ControlMethods
  <2> QED BY <2>1, SameCall DEF PostsFit
<1>5. SessionsFit'
  BY DEF SessionsFit, StagesFit, NeedsCaptcha, ControlMethods
<1> QED BY <1>1, <1>2, <1>3, <1>4, <1>5

LEMMA PostBrokenKeeps == ASSUME FlowInv, PostBroken PROVE FlowInv'
<1> USE BudgetAssumption, MethodsAssumption
    DEF FlowInv, Shape, Places, call, omniVars, PostBroken, PostFails, Faults, Statuses, Doubtful
<1>1. Shape'
  OBVIOUS
<1>2. StagesFit' /\ RepeatsFit'
  BY DEF StagesFit, RepeatsFit, InPage, Direct, NeedsCaptcha, ControlMethods, VideoMethods
<1>3. RoundsFit'
  BY DEF RoundsFit
<1>4. PostsFit'
  <2>1. posts' <= Past + Sent'
    BY RoundSize, SentFits, SameCall
    DEF PostsFit, Sent, Before, Repeated, StagesFit, RepeatsFit, InPage, Direct,
        NeedsCaptcha, ControlMethods
  <2> QED BY <2>1, SameCall DEF PostsFit
<1>5. SessionsFit'
  BY DEF SessionsFit, StagesFit, NeedsCaptcha, ControlMethods
<1> QED BY <1>1, <1>2, <1>3, <1>4, <1>5

LEMMA UrllibFailsKeeps == ASSUME FlowInv, UrllibFails PROVE FlowInv'
<1> USE BudgetAssumption, MethodsAssumption
    DEF FlowInv, Shape, Places, call, omniVars, UrllibFails, AfterError, Worse, Faults, Statuses, Doubtful
<1>1. Shape'
  OBVIOUS
<1>2. StagesFit' /\ RepeatsFit'
  BY DEF StagesFit, RepeatsFit, InPage, Direct, NeedsCaptcha, ControlMethods, VideoMethods
<1>3. RoundsFit'
  BY DEF RoundsFit
<1>4. PostsFit'
  <2>1. posts' <= Past + Sent'
    BY RoundSize, SentFits, SameCall
    DEF PostsFit, Sent, Before, Repeated, StagesFit, RepeatsFit, InPage, Direct,
        NeedsCaptcha, ControlMethods
  <2> QED BY <2>1, SameCall DEF PostsFit
<1>5. SessionsFit'
  BY DEF SessionsFit, StagesFit, NeedsCaptcha, ControlMethods
<1> QED BY <1>1, <1>2, <1>3, <1>4, <1>5

(***************************************************************************)
(* What repeats within a round, or gives the round up.                     *)
(***************************************************************************)
LEMMA UploadFallsBackKeeps == ASSUME FlowInv, UploadFallsBack PROVE FlowInv'
<1> USE BudgetAssumption, MethodsAssumption
    DEF FlowInv, Shape, Places, call, omniVars, UploadFallsBack
<1>1. Shape'
  OBVIOUS
<1>2. StagesFit' /\ RepeatsFit'
  BY DEF StagesFit, RepeatsFit, InPage, Direct, NeedsCaptcha, ControlMethods, VideoMethods
<1>3. RoundsFit'
  BY DEF RoundsFit
<1>4. PostsFit'
  <2>1. posts' <= Past + Sent'
    BY RoundSize, SentFits, SameCall
    DEF PostsFit, Sent, Before, Repeated, StagesFit, RepeatsFit, InPage, Direct,
        NeedsCaptcha, ControlMethods
  <2> QED BY <2>1, SameCall DEF PostsFit
<1>5. SessionsFit'
  BY DEF SessionsFit, StagesFit, NeedsCaptcha, ControlMethods
<1> QED BY <1>1, <1>2, <1>3, <1>4, <1>5

LEMMA QuickRepeatKeeps == ASSUME FlowInv, QuickRepeat PROVE FlowInv'
<1> USE BudgetAssumption, MethodsAssumption
    DEF FlowInv, Shape, Places, call, omniVars, QuickRepeat
<1>1. Shape'
  OBVIOUS
<1>2. StagesFit' /\ RepeatsFit'
  BY DEF StagesFit, RepeatsFit, InPage, Direct, NeedsCaptcha, ControlMethods, VideoMethods
<1>3. RoundsFit'
  BY DEF RoundsFit
<1>4. PostsFit'
  <2>1. posts' <= Past + Sent'
    BY RoundSize, SentFits, SameCall
    DEF PostsFit, Sent, Before, Repeated, StagesFit, RepeatsFit, InPage, Direct,
        NeedsCaptcha, ControlMethods
  <2> QED BY <2>1, SameCall DEF PostsFit
<1>5. SessionsFit'
  BY DEF SessionsFit, StagesFit, NeedsCaptcha, ControlMethods
<1> QED BY <1>1, <1>2, <1>3, <1>4, <1>5

LEMMA QuickEnoughKeeps == ASSUME FlowInv, QuickEnough PROVE FlowInv'
<1> USE BudgetAssumption, MethodsAssumption
    DEF FlowInv, Shape, Places, call, omniVars, QuickEnough
<1>1. Shape'
  OBVIOUS
<1>2. StagesFit' /\ RepeatsFit'
  BY DEF StagesFit, RepeatsFit, InPage, Direct, NeedsCaptcha, ControlMethods, VideoMethods
<1>3. RoundsFit'
  BY DEF RoundsFit
<1>4. PostsFit'
  <2>1. posts' <= Past + Sent'
    BY RoundSize, SentFits, SameCall
    DEF PostsFit, Sent, Before, Repeated, StagesFit, RepeatsFit, InPage, Direct,
        NeedsCaptcha, ControlMethods
  <2> QED BY <2>1, SameCall DEF PostsFit
<1>5. SessionsFit'
  BY DEF SessionsFit, StagesFit, NeedsCaptcha, ControlMethods
<1> QED BY <1>1, <1>2, <1>3, <1>4, <1>5

LEMMA PageRepeatsKeeps == ASSUME FlowInv, PageRepeats PROVE FlowInv'
<1> USE BudgetAssumption, MethodsAssumption
    DEF FlowInv, Shape, Places, call, omniVars, PageRepeats
<1>1. Shape'
  OBVIOUS
<1>2. StagesFit' /\ RepeatsFit'
  BY DEF StagesFit, RepeatsFit, InPage, Direct, NeedsCaptcha, ControlMethods, VideoMethods
<1>3. RoundsFit'
  BY DEF RoundsFit
<1>4. PostsFit'
  <2>1. posts' <= Past + Sent'
    BY RoundSize, SentFits, SameCall
    DEF PostsFit, Sent, Before, Repeated, StagesFit, RepeatsFit, InPage, Direct,
        NeedsCaptcha, ControlMethods
  <2> QED BY <2>1, SameCall DEF PostsFit
<1>5. SessionsFit'
  BY DEF SessionsFit, StagesFit, NeedsCaptcha, ControlMethods
<1> QED BY <1>1, <1>2, <1>3, <1>4, <1>5

----------------------------------------------------------------------------
(***************************************************************************)
(* The invariant, step by step.                                            *)
(***************************************************************************)
LEMMA InitEstablishes == Init => FlowInv
<1> SUFFICES ASSUME Init PROVE FlowInv
  OBVIOUS
<1> USE BudgetAssumption, MethodsAssumption DEF Init, StartRound
<1>1. Shape /\ StagesFit /\ RoundsFit /\ RepeatsFit /\ SessionsFit
  BY DEF Shape, Places, StagesFit, RoundsFit, RepeatsFit, SessionsFit, NeedsCaptcha
<1>2. PostsFit
  BY <1>1, RoundSize DEF PostsFit, Sent, Before, Repeated
<1> QED BY <1>1, <1>2 DEF FlowInv

LEMMA StepPreserves == FlowInv /\ [Next]_vars => FlowInv'
<1> SUFFICES ASSUME FlowInv, [Next]_vars PROVE FlowInv'
  OBVIOUS
<1>1. CASE CaptchaMissing
  <2>1. CASE stage = 1
    BY <1>1, <2>1, RoundEnds DEF CaptchaMissing, omniVars
  <2>2. CASE stage # 1
    <3> USE DEF FlowInv, Shape, Places, CaptchaMissing, call
    <3>1. Shape' /\ StagesFit' /\ RoundsFit' /\ RepeatsFit' /\ SessionsFit'
      <4>1. /\ pc' = "retry" /\ fault' = "transient"
            /\ UNCHANGED <<method, captcha, stage, round, budget, try, open, result>>
        BY <1>1, <2>2
      <4>2. pc # "captcha" => captcha # "remote"
        BY <1>1 DEF StagesFit
      <4> QED BY <4>1, <4>2, <1>1 DEF StagesFit, RoundsFit, RepeatsFit, SessionsFit, NeedsCaptcha
    <3>2. PostsFit'
      BY <1>1, <2>2, RoundSize, SentFits, SameCall DEF PostsFit, Sent
    <3> QED BY <3>1, <3>2
  <2> QED BY <2>1, <2>2
<1>2. CASE RetryRound
  <2>1. PICK retryable \in BOOLEAN : NextRound(retryable, fault)
    BY <1>2 DEF RetryRound
  <2> QED BY <1>2, <2>1, RoundEnds DEF RetryRound
<1>3. CASE Cancel
  <2> USE DEF FlowInv, Shape, Places, Cancel, End, TellBrowsers, call, omniVars
  <2>1. Shape' /\ StagesFit' /\ RoundsFit' /\ RepeatsFit' /\ SessionsFit'
    <3>1. /\ pc' = "done" /\ UNCHANGED <<method, captcha, stage, round, budget, try, fault>>
          /\ open' \in {0, open} /\ (result' # "cut" => open' = 0)
      BY <1>3
    <3> QED BY <3>1, <1>3 DEF StagesFit, RoundsFit, RepeatsFit, SessionsFit, NeedsCaptcha
  <2>2. PostsFit'
    BY <1>3, RoundSize, SentFits, SameCall DEF PostsFit, Sent
  <2> QED BY <2>1, <2>2
<1>4. CASE UNCHANGED vars
  BY <1>4 DEF vars, FlowInv, Shape, StagesFit, RoundsFit, RepeatsFit, PostsFit, Past,
              Sent, Before, Repeated, SessionsFit, PostsPerRound, InPage, Direct,
              NeedsCaptcha
<1>5. CASE Finished
  BY <1>4, <1>5 DEF Finished
<1> QED
  BY <1>1, <1>2, <1>3, <1>4, <1>5,
     CaptchaSolvedKeeps, TaskRefusedKeeps, TaskCreatedKeeps, TaskPendingKeeps,
     TaskReadyKeeps, TaskFailsKeeps, PrepareKeeps, AttachReferencesKeeps,
     FindAgentKeeps, PostAnsweredKeeps, PostUselessKeeps, PostRefusedKeeps,
     PostBrokenKeeps, UrllibFailsKeeps, UploadFallsBackKeeps, QuickRepeatKeeps,
     QuickEnoughKeeps, PageRepeatsKeeps
  DEF Next, Step

LEMMA FlowInvariant == Spec => []FlowInv
BY InitEstablishes, StepPreserves, PTL DEF Spec

----------------------------------------------------------------------------
\* Whatever the method and the budgets, the nested loops of a call post at most
\* as often as its rounds allow, and only a failed evaluation of omni adds
\* rounds (generate_image, the video methods, generate_omni, upload_image).
THEOREM PostsWithinBudgetHolds == Spec => []PostsWithinBudget
<1>1. FlowInv => PostsWithinBudget
  <2> SUFFICES ASSUME FlowInv PROVE PostsWithinBudget
    OBVIOUS
  <2> USE DEF FlowInv
  <2>1. (round + 1) * PostsPerRound = Past + PostsPerRound
    BY RoundSize DEF Past, Shape
  <2>2. posts <= Past + PostsPerRound
    BY RoundSize, SentFits DEF PostsFit, Shape
  <2>3. round < MaxRetries \/ (method = "omni" /\ round < EvaluationRetries)
    BY DEF RoundsFit
  <2> QED BY <2>1, <2>2, <2>3 DEF PostsWithinBudget
<1> QED BY <1>1, FlowInvariant, PTL

\* A call holds the remote browsers of one round at most, and has told all of
\* them of its end unless it was cancelled between the captcha and the try
\* (_notify_browser_captcha_request_finished).
THEOREM SessionsAreFinishedHolds == Spec => []SessionsAreFinished
<1>1. FlowInv => SessionsAreFinished
  BY DEF FlowInv, Shape, StagesFit, SessionsFit, SessionsAreFinished
<1> QED BY <1>1, FlowInvariant, PTL

(***************************************************************************)
(* The tabs. For any requests, tabs, slots and rebuild tasks, a tab that   *)
(* looks reserved is on the books of exactly one request, and no tab has   *)
(* two reservations. The invariant says who has what on its books (Owner): *)
(* a request from the moment it takes a tab until its solve begins or it   *)
(* gives the tab up. Steps are grouped by what they do to the books: leave *)
(* them alone, add a tab for nobody, drop tabs from the pool, or change    *)
(* those of one request.                                                   *)
(***************************************************************************)
IsTab(u) == u = [slot |-> u.slot, token |-> u.token, pend |-> u.pend, ready |-> u.ready,
                 alive |-> u.alive, lock |-> u.lock]
IsReq(q) == q = [pc |-> q.pc, pos |-> q.pos, tab |-> q.tab, slot |-> q.slot,
                 held |-> q.held, job |-> q.job]

\* Tab objects with at most one reservation each.
Tabular(f) == /\ f = [t \in Tabs |-> f[t]]
              /\ \A t \in Tabs : IsTab(f[t]) /\ f[t].pend \in {0, 1}

\* Only a request that waits for a rebuild names its task.
OffJobs(q) == q.pc \notin {"rebuilding", "awaiting"} => q.job \notin Jobs
Asking(f) == /\ f = [r \in Requests |-> f[r]]
             /\ \A r \in Requests : IsReq(f[r]) /\ OffJobs(f[r])

\* Where a request has a reservation on its books and not yet its tab's lock.
Reserves(q) == \/ q.pc \in {"bind", "solve", "legacy", "temporary"}
               \/ q.pc \in {"recover", "relaunch"} /\ q.pos = "two"
Owner(r, t) == req[r].tab = t /\ req[r].held = tab[t].slot /\ Reserves(req[r])
Owned == \A t \in pool : tab[t].pend > 0 => \E r \in Requests : Owner(r, t)

TabsInv == pool \subseteq Tabs /\ Tabular(tab) /\ Asking(req) /\ Owned

----------------------------------------------------------------------------
\* The next name for something new is one of the free ones.
LEMMA UnusedIsOne == ASSUME NEW names, NEW x \in Unused(names) PROVE x \in names
  BY DEF Unused

\* A request that got a tab goes where it has it on its books.
LEMMA WithTabReserves == \A pos : WithTab(pos)[1] \in {"bind", "solve"}
  BY DEF WithTab, ToBind

\* There is at most one reservation to give back.
LEMMA LessFits == \A n \in {0, 1} : Less(n) = 0
  BY DEF Less

\* Killing pages keeps the record of every tab.
LEMMA LiveTabular ==
  ASSUME NEW f, Tabular(f), NEW p, NEW q
  PROVE  /\ Tabular(Live(f, p, q))
         /\ \A t \in Tabs : t \in p => Live(f, p, q)[t] = f[t]
  BY DEF Tabular, Live, IsTab, NoTab

\* What setting one field of a tab object leaves.
LEMMA TabFields ==
  ASSUME NEW u, IsTab(u), NEW v
  PROVE  /\ IsTab([u EXCEPT !.ready = v])
         /\ [u EXCEPT !.ready = v].pend = u.pend /\ [u EXCEPT !.ready = v].slot = u.slot
         /\ IsTab([u EXCEPT !.alive = v])
         /\ [u EXCEPT !.alive = v].pend = u.pend /\ [u EXCEPT !.alive = v].slot = u.slot
         /\ IsTab([u EXCEPT !.lock = v])
         /\ [u EXCEPT !.lock = v].pend = u.pend /\ [u EXCEPT !.lock = v].slot = u.slot
         /\ IsTab([u EXCEPT !.token = v])
         /\ [u EXCEPT !.token = v].pend = u.pend /\ [u EXCEPT !.token = v].slot = u.slot
         /\ IsTab([u EXCEPT !.pend = v])
         /\ [u EXCEPT !.pend = v].pend = v /\ [u EXCEPT !.pend = v].slot = u.slot
  BY DEF IsTab

\* Marking a slot unavailable keeps slots and reservations.
LEMMA MarkedTabular ==
  ASSUME NEW f, Tabular(f), NEW s, NEW v
  PROVE  /\ Tabular(Marked(f, s, v))
         /\ \A t \in Tabs : /\ Marked(f, s, v)[t].pend = f[t].pend
                            /\ Marked(f, s, v)[t].slot = f[t].slot
  <1> DEFINE g(u) == [f[u] EXCEPT !.ready = FALSE]
  <1>1. \A u \in Tabs : IsTab(g(u)) /\ g(u).pend = f[u].pend /\ g(u).slot = f[u].slot
    BY TabFields DEF Tabular
  <1>2. \A u \in Tabs : Marked(f, s, v)[u] \in {g(u), f[u]}
    BY DEF Marked
  <1>3. Marked(f, s, v) = [u \in Tabs |-> Marked(f, s, v)[u]]
    BY DEF Marked
  <1> HIDE DEF g
  <1> QED
    BY <1>1, <1>2, <1>3 DEF Tabular

\* Giving back a slot's reservation keeps slots, and adds none.
LEMMA ReleasedTabular ==
  ASSUME Tabular(tab), NEW s
  PROVE  /\ Tabular(Released(s))
         /\ \A t \in Tabs : /\ Released(s)[t].slot = tab[t].slot
                            /\ Released(s)[t].pend > 0 =>
                                 Released(s)[t].pend = tab[t].pend /\ t \notin At(s)
  BY LessFits DEF Tabular, Released, IsTab

\* What an update of one field of a tab object leaves.
WithReady(f, t, v) == [f EXCEPT ![t].ready = v]
WithLock(f, t, v) == [f EXCEPT ![t].lock = v]
HasToken(f, t, v) == [f EXCEPT ![t].token = v]

\* Readiness, lock and account do not touch slots and reservations.
LEMMA FieldTabular ==
  ASSUME NEW f, Tabular(f), NEW t, NEW v
  PROVE  /\ Tabular(WithReady(f, t, v))
         /\ Tabular(WithLock(f, t, v))
         /\ Tabular(HasToken(f, t, v))
         /\ \A u \in Tabs : /\ WithReady(f, t, v)[u].slot = f[u].slot
                            /\ WithReady(f, t, v)[u].pend = f[u].pend
                            /\ WithLock(f, t, v)[u].slot = f[u].slot
                            /\ WithLock(f, t, v)[u].pend = f[u].pend
                            /\ HasToken(f, t, v)[u].slot = f[u].slot
                            /\ HasToken(f, t, v)[u].pend = f[u].pend
  <1>1. \A u \in Tabs : /\ IsTab(f[u]) /\ f[u].pend \in {0, 1}
                        /\ IsTab([f[u] EXCEPT !.ready = v])
                        /\ IsTab([f[u] EXCEPT !.lock = v])
                        /\ IsTab([f[u] EXCEPT !.token = v])
    BY DEF Tabular, IsTab
  <1>2. \A u \in Tabs : /\ [f[u] EXCEPT !.ready = v].pend = f[u].pend /\ [f[u] EXCEPT !.ready = v].slot = f[u].slot
                        /\ [f[u] EXCEPT !.lock = v].pend = f[u].pend /\ [f[u] EXCEPT !.lock = v].slot = f[u].slot
                        /\ [f[u] EXCEPT !.token = v].pend = f[u].pend /\ [f[u] EXCEPT !.token = v].slot = f[u].slot
    BY <1>1, TabFields
  <1>3. \A u \in Tabs : /\ WithReady(f, t, v)[u] = IF u = t THEN [f[u] EXCEPT !.ready = v] ELSE f[u]
                        /\ WithLock(f, t, v)[u] = IF u = t THEN [f[u] EXCEPT !.lock = v] ELSE f[u]
                        /\ HasToken(f, t, v)[u] = IF u = t THEN [f[u] EXCEPT !.token = v] ELSE f[u]
    BY DEF Tabular, WithReady, WithLock, HasToken
  <1>4. \A u \in Tabs : /\ WithReady(f, t, v)[u].slot = f[u].slot
                        /\ WithReady(f, t, v)[u].pend = f[u].pend
                        /\ WithLock(f, t, v)[u].slot = f[u].slot
                        /\ WithLock(f, t, v)[u].pend = f[u].pend
                        /\ HasToken(f, t, v)[u].slot = f[u].slot
                        /\ HasToken(f, t, v)[u].pend = f[u].pend
    BY <1>3, <1>2
  <1>5. \A u \in Tabs : /\ IsTab(WithReady(f, t, v)[u])
                        /\ IsTab(WithLock(f, t, v)[u])
                        /\ IsTab(HasToken(f, t, v)[u])
    BY <1>1, <1>3
  <1>6. /\ WithReady(f, t, v) = [u \in Tabs |-> WithReady(f, t, v)[u]]
        /\ WithLock(f, t, v) = [u \in Tabs |-> WithLock(f, t, v)[u]]
        /\ HasToken(f, t, v) = [u \in Tabs |-> HasToken(f, t, v)[u]]
    BY DEF Tabular, WithReady, WithLock, HasToken
  <1> QED
    BY <1>1, <1>4, <1>5, <1>6 DEF Tabular

\* One reservation less: none is left.
WithLess(f, t) == [f EXCEPT ![t].pend = Less(@)]

\* Giving back a tab's reservation leaves it without one.
LEMMA LessTabular ==
  ASSUME NEW f, Tabular(f), NEW t
  PROVE  /\ Tabular(WithLess(f, t))
         /\ \A u \in Tabs : WithLess(f, t)[u].slot = f[u].slot
         /\ \A u \in Tabs \ {t} : WithLess(f, t)[u] = f[u]
         /\ t \in Tabs => WithLess(f, t)[t].pend = 0
  <1>1. \A u \in Tabs : /\ IsTab(f[u]) /\ f[u].pend \in {0, 1}
                        /\ IsTab([f[u] EXCEPT !.pend = 0])
                        /\ [f[u] EXCEPT !.pend = 0].pend = 0
                        /\ [f[u] EXCEPT !.pend = 0].slot = f[u].slot
    BY DEF Tabular, IsTab
  <1>2. \A u \in Tabs : Less(f[u].pend) = 0
    BY <1>1, LessFits
  <1>3. PICK g : g = WithLess(f, t)
    OBVIOUS
  <1>4. \A u \in Tabs : g[u] = IF u = t THEN [f[u] EXCEPT !.pend = 0] ELSE f[u]
    BY <1>2, <1>3 DEF Tabular, WithLess
  <1>5. g = [u \in Tabs |-> g[u]]
    BY <1>3 DEF Tabular, WithLess
  <1>6. Tabular(g)
    BY <1>1, <1>4, <1>5 DEF Tabular
  <1>7. \A u \in Tabs : g[u].slot = f[u].slot /\ (u # t => g[u] = f[u]) /\ (u = t => g[u].pend = 0)
    BY <1>1, <1>4
  <1> QED
    BY <1>3, <1>6, <1>7

WithPend(f, t, v) == [f EXCEPT ![t].pend = v]

\* Setting the reservations of one tab leaves the others alone.
LEMMA PendTabular ==
  ASSUME NEW f, Tabular(f), NEW t, NEW v \in {0, 1}
  PROVE  /\ Tabular(WithPend(f, t, v))
         /\ \A u \in Tabs : WithPend(f, t, v)[u].slot = f[u].slot
         /\ \A u \in Tabs \ {t} : WithPend(f, t, v)[u] = f[u]
         /\ t \in Tabs => WithPend(f, t, v)[t].pend = v
  <1> DEFINE g == [f EXCEPT ![t].pend = v]
  <1>1. \A u \in Tabs : /\ IsTab(f[u]) /\ f[u].pend \in {0, 1}
                        /\ IsTab([f[u] EXCEPT !.pend = v])
                        /\ [f[u] EXCEPT !.pend = v].pend = v
                        /\ [f[u] EXCEPT !.pend = v].slot = f[u].slot
    BY DEF Tabular, IsTab
  <1>2. \A u \in Tabs : g[u] = IF u = t THEN [f[u] EXCEPT !.pend = v] ELSE f[u]
    BY DEF Tabular
  <1>3. g = [u \in Tabs |-> g[u]]
    BY DEF Tabular
  <1> HIDE DEF g
  <1>4. QED
    BY <1>1, <1>2, <1>3 DEF Tabular, g, WithPend

----------------------------------------------------------------------------
\* The invariant, from the books before and after the step.
LEMMA OwnedStays ==
  ASSUME TabsInv, pool' \subseteq Tabs, Tabular(tab'), Asking(req'),
         \A t \in pool' : tab'[t].pend > 0 =>
            \/ \E r \in Requests : Owner(r, t)'
            \/ /\ t \in pool /\ tab[t].pend > 0 /\ tab'[t].slot = tab[t].slot
               /\ \A r \in Requests : Owner(r, t) =>
                     /\ req'[r].tab = req[r].tab /\ req'[r].held = req[r].held
                     /\ Reserves(req'[r])
  PROVE  TabsInv'
  BY DEF TabsInv, Owned, Owner

\* A step in which one request moves, and tabs change.
LEMMA MoverKeeps ==
  ASSUME TabsInv, NEW r \in Requests, NEW q, req' = [req EXCEPT ![r] = q],
         IsReq(q), OffJobs(q), pool' \subseteq Tabs, Tabular(tab'),
         \A t \in pool' : tab'[t].pend > 0 =>
            \/ q.tab = t /\ q.held = tab'[t].slot /\ Reserves(q)
            \/ /\ t \in pool /\ tab[t].pend > 0 /\ tab'[t].slot = tab[t].slot
               /\ Owner(r, t) => q.tab = req[r].tab /\ q.held = req[r].held /\ Reserves(q)
  PROVE  TabsInv'
  <1>1. Asking(req')
    BY DEF TabsInv, Asking
  <1>2. ASSUME NEW t \in pool', tab'[t].pend > 0
        PROVE  \/ \E x \in Requests : Owner(x, t)'
               \/ /\ t \in pool /\ tab[t].pend > 0 /\ tab'[t].slot = tab[t].slot
                  /\ \A x \in Requests : Owner(x, t) =>
                        /\ req'[x].tab = req[x].tab /\ req'[x].held = req[x].held
                        /\ Reserves(req'[x])
    <2>1. req'[r] = q /\ \A x \in Requests \ {r} : req'[x] = req[x]
      BY DEF TabsInv, Asking
    <2> QED
      BY <1>2, <2>1 DEF Owner
  <1> QED
    BY <1>1, <1>2, OwnedStays

\* The tabs are left alone, and so is what the mover has on its books.
LEMMA BystanderKeeps ==
  ASSUME TabsInv, NEW r \in Requests, NEW q, req' = [req EXCEPT ![r] = q],
         IsReq(q), OffJobs(q), UNCHANGED <<pool, tab>>,
         Reserves(req[r]) => q.tab = req[r].tab /\ q.held = req[r].held /\ Reserves(q)
  PROVE  TabsInv'
  BY MoverKeeps DEF TabsInv, Owner

----------------------------------------------------------------------------
WithBooks(q, t, s, h) == [q EXCEPT !.tab = t, !.slot = s, !.held = h]
Without(q) == [q EXCEPT !.tab = None, !.slot = None]

\* A request is a record of six fields.
LEMMA ReqRecord ==
  ASSUME NEW q, IsReq(q)
  PROVE  \E A, B, C, D, E, F : q \in [pc : A, pos : B, tab : C, slot : D, held : E, job : F]
  <1>1. PICK A, B, C : A = {q.pc} /\ B = {q.pos} /\ C = {q.tab}
    OBVIOUS
  <1>2. PICK D, E, F : D = {q.slot} /\ E = {q.held} /\ F = {q.job}
    OBVIOUS
  <1>3. q \in [pc : A, pos : B, tab : C, slot : D, held : E, job : F]
    BY <1>1, <1>2 DEF IsReq
  <1> QED
    BY <1>3

\* What going elsewhere leaves of a request.
LEMMA MovedFields ==
  ASSUME NEW q, IsReq(q), NEW to
  PROVE  /\ IsReq(At2(q, to)) /\ At2(q, to).pc = to[1] /\ At2(q, to).pos = to[2]
         /\ At2(q, to).tab = q.tab /\ At2(q, to).held = q.held /\ At2(q, to).job = q.job
         /\ At2(q, to).slot = q.slot
  <1>1. PICK A, B, C, D, E, F : q \in [pc : A, pos : B, tab : C, slot : D, held : E, job : F]
    BY ReqRecord
  <1>2. PICK x, y : x = to[1] /\ y = to[2]
    OBVIOUS
  <1>3. PICK n : n = [q EXCEPT !.pc = x, !.pos = y]
    OBVIOUS
  <1>4. /\ n.pc = x /\ n.pos = y /\ n.tab = q.tab /\ n.held = q.held /\ n.job = q.job
        /\ n.slot = q.slot
    BY <1>1, <1>3
  <1>5. IsReq(n)
    BY <1>1, <1>3 DEF IsReq
  <1> QED
    BY <1>2, <1>3, <1>4, <1>5 DEF At2

\* What a request with a tab on its books is.
LEMMA TakenFields ==
  ASSUME NEW q, IsReq(q), NEW t, NEW s, NEW h
  PROVE  /\ IsReq(WithBooks(q, t, s, h)) /\ WithBooks(q, t, s, h).tab = t
         /\ WithBooks(q, t, s, h).held = h /\ WithBooks(q, t, s, h).job = q.job
  <1>1. PICK A, B, C, D, E, F : q \in [pc : A, pos : B, tab : C, slot : D, held : E, job : F]
    BY ReqRecord
  <1>2. PICK n : n = [q EXCEPT !.tab = t, !.slot = s, !.held = h]
    OBVIOUS
  <1>3. n.tab = t /\ n.held = h /\ n.job = q.job
    BY <1>1, <1>2
  <1>4. IsReq(n)
    BY <1>1, <1>2 DEF IsReq
  <1> QED
    BY <1>2, <1>3, <1>4 DEF WithBooks

\* What a request without a tab on its books is.
LEMMA EmptyFields ==
  ASSUME NEW q, IsReq(q)
  PROVE  IsReq(Without(q)) /\ Without(q).tab = None /\ Without(q).job = q.job
  <1>1. PICK A, B, C, D, E, F : q \in [pc : A, pos : B, tab : C, slot : D, held : E, job : F]
    BY ReqRecord
  <1>2. PICK n : n = [q EXCEPT !.tab = None, !.slot = None]
    OBVIOUS
  <1>3. n.tab = None /\ n.job = q.job
    BY <1>1, <1>2
  <1>4. IsReq(n)
    BY <1>1, <1>2 DEF IsReq
  <1> QED
    BY <1>2, <1>3, <1>4 DEF Without

\* What a request that has ended is.
LEMMA EndedFields ==
  ASSUME NEW how \in Ended
  PROVE  LET n == [NoReq EXCEPT !.pc = how]
         IN IsReq(n) /\ OffJobs(n) /\ ~Reserves(n) /\ n.tab = None
  BY ResidentAssumption DEF IsReq, OffJobs, Reserves, NoReq, Ended

\* The parts of the invariant that most steps need.
LEMMA Typed ==
  ASSUME TabsInv
  PROVE  /\ pool \subseteq Tabs /\ Tabular(tab)
         /\ \A r \in Requests : IsReq(req[r]) /\ OffJobs(req[r])
         /\ \A t \in Tabs : tab[t].pend \in {0, 1}
  BY DEF TabsInv, Asking, Tabular

\* Steps that only move a request.
LEMMA GoKeeps ==
  ASSUME TabsInv, NEW r \in Requests, NEW to, Goto(r, to), UNCHANGED <<pool, tab>>,
         req[r].job \notin Jobs,
         Reserves(req[r]) =>
            \/ to[1] \in {"bind", "solve", "legacy", "temporary"}
            \/ to[1] \in {"recover", "relaunch"} /\ to[2] = "two"
  PROVE  TabsInv'
  <1> DEFINE q == At2(req[r], to)
  <1>1. req' = [req EXCEPT ![r] = q]
    BY DEF Goto
  <1>2. PICK x : x = req[r] /\ IsReq(x)
    BY Typed
  <1>3. /\ IsReq(q) /\ q.pc = to[1] /\ q.pos = to[2]
        /\ q.tab = req[r].tab /\ q.held = req[r].held /\ q.job = req[r].job
    <2>1. /\ IsReq(At2(x, to)) /\ At2(x, to).pc = to[1] /\ At2(x, to).pos = to[2]
          /\ At2(x, to).tab = x.tab /\ At2(x, to).held = x.held /\ At2(x, to).job = x.job
      <3>1. IsReq(x)
        BY <1>2
      <3> QED
        BY <3>1, MovedFields
    <2> QED
      BY <1>2, <2>1
  <1> HIDE DEF q
  <1>4. OffJobs(q) /\ (Reserves(req[r]) => Reserves(q))
    BY <1>3 DEF OffJobs, Reserves
  <1> QED
    BY <1>1, <1>3, <1>4, BystanderKeeps

\* A request reserves a tab that has no reservation.
LEMMA TakeKeeps ==
  ASSUME TabsInv, NEW r \in Requests, NEW t \in Tabs, tab[t].pend = 0, UNCHANGED pool,
         req[r].job \notin Jobs, ~Reserves(req[r]), Take(r, t)
  PROVE  TabsInv'
  <1>a. PICK n : n = WithBooks(req[r], t, tab[t].slot, tab[t].slot)
    OBVIOUS
  <1>b. PICK to : to = WithTab(req[r].pos)
    OBVIOUS
  <1> DEFINE q == At2(n, to)
  <1>1. req' = [req EXCEPT ![r] = q] /\ tab' = WithPend(tab, t, 1)
    <2>1. tab[t].pend + 1 = 1
      OBVIOUS
    <2> QED
      BY <1>a, <1>b, <2>1 DEF Take, WithBooks, WithPend
  <1>c. IsReq(req[r])
    BY Typed
  <1>2. IsReq(n) /\ n.tab = t /\ n.held = tab[t].slot /\ n.job = req[r].job
    BY <1>a, <1>c, TakenFields
  <1>3. to[1] \in {"bind", "solve"}
    BY <1>b, WithTabReserves
  <1>4. IsReq(q) /\ q.pc = to[1] /\ q.tab = t /\ q.held = tab[t].slot /\ q.job = req[r].job
    <2>1. IsReq(n)
      BY <1>2
    <2>2. /\ IsReq(q) /\ q.pc = to[1]
          /\ q.tab = n.tab /\ q.held = n.held /\ q.job = n.job
      BY <2>1, MovedFields
    <2> QED
      BY <1>2, <2>2
  <1> HIDE DEF q
  <1>5. OffJobs(q) /\ Reserves(q)
    BY <1>3, <1>4 DEF OffJobs, Reserves
  <1>6. Tabular(tab)
    BY Typed
  <1>7. /\ Tabular(tab')
        /\ \A u \in Tabs : tab'[u].slot = tab[u].slot
        /\ \A u \in Tabs \ {t} : tab'[u] = tab[u]
    <2>1. 1 \in {0, 1}
      OBVIOUS
    <2>2. /\ Tabular(WithPend(tab, t, 1))
          /\ \A u \in Tabs : WithPend(tab, t, 1)[u].slot = tab[u].slot
          /\ \A u \in Tabs \ {t} : WithPend(tab, t, 1)[u] = tab[u]
      BY <1>6, <2>1, PendTabular
    <2> QED
      BY <1>1, <2>2
  <1>8. ASSUME NEW u \in pool', tab'[u].pend > 0
        PROVE  \/ q.tab = u /\ q.held = tab'[u].slot /\ Reserves(q)
               \/ /\ u \in pool /\ tab[u].pend > 0 /\ tab'[u].slot = tab[u].slot
                  /\ Owner(r, u) => q.tab = req[r].tab /\ q.held = req[r].held /\ Reserves(q)
    BY <1>4, <1>5, <1>7, <1>8, Typed DEF Owner
  <1>9. pool' \subseteq Tabs
    BY Typed
  <1> QED
    BY <1>1, <1>4, <1>5, <1>7, <1>8, <1>9, MoverKeeps

\* A request without a reservation moves, and objects are collected.
LEMMA LiveKeeps ==
  ASSUME TabsInv, NEW r \in Requests, NEW q, req' = [req EXCEPT ![r] = q],
         IsReq(q), OffJobs(q), UNCHANGED pool,
         NEW f, Tabular(f), tab' = Live(f, pool, req'),
         \A t \in pool : f[t].pend > 0 =>
            /\ tab[t].pend > 0 /\ f[t].slot = tab[t].slot
            /\ Owner(r, t) => q.tab = req[r].tab /\ q.held = req[r].held /\ Reserves(q)
  PROVE  TabsInv'
  <1>1. Tabular(tab') /\ \A t \in pool : tab'[t] = f[t]
    BY LiveTabular, Typed
  <1>2. pool' \subseteq Tabs
    BY Typed
  <1>3. ASSUME NEW t \in pool', tab'[t].pend > 0
        PROVE  /\ t \in pool /\ tab[t].pend > 0 /\ tab'[t].slot = tab[t].slot
               /\ Owner(r, t) => q.tab = req[r].tab /\ q.held = req[r].held /\ Reserves(q)
    BY <1>1, <1>3
  <1> QED
    BY <1>1, <1>2, <1>3, MoverKeeps

\* A request goes on without a tab.
LEMMA TakeNoneKeeps ==
  ASSUME TabsInv, NEW r \in Requests, NEW to, UNCHANGED pool,
         req[r].job \notin Jobs, ~Reserves(req[r]), TakeNone(r, to)
  PROVE  TabsInv'
  <1>a. PICK n : n = Without(req[r])
    OBVIOUS
  <1> DEFINE q == At2(n, to)
  <1>1. req' = [req EXCEPT ![r] = q] /\ tab' = Live(tab, pool, req')
    BY <1>a DEF TakeNone, Without
  <1>b. IsReq(req[r])
    BY Typed
  <1>2. IsReq(n) /\ n.job = req[r].job
    BY <1>a, <1>b, EmptyFields
  <1>3. IsReq(q) /\ q.job = req[r].job
    BY <1>2, MovedFields
  <1>4. OffJobs(q)
    BY <1>3 DEF OffJobs
  <1> HIDE DEF q
  <1> QED
    BY <1>1, <1>3, <1>4, Typed, LiveKeeps DEF Owner

\* The request gives back what it has on its books, and ends or goes on.
LEMMA ReleaseKeeps ==
  ASSUME TabsInv, NEW r \in Requests, NEW q, req' = [req EXCEPT ![r] = q],
         IsReq(q), OffJobs(q), UNCHANGED pool,
         NEW f, Tabular(f), tab' = Live(f, pool, req'),
         \A t \in pool : f[t].slot = tab[t].slot /\ f[t].pend = Released(req[r].held)[t].pend
  PROVE  TabsInv'
  <1>1. \A t \in Tabs : /\ Released(req[r].held)[t].slot = tab[t].slot
                        /\ Released(req[r].held)[t].pend > 0 =>
                              Released(req[r].held)[t].pend = tab[t].pend /\ t \notin At(req[r].held)
    BY Typed, ReleasedTabular
  <1>2. ASSUME NEW t \in pool, f[t].pend > 0
        PROVE  /\ tab[t].pend > 0 /\ f[t].slot = tab[t].slot
               /\ Owner(r, t) => q.tab = req[r].tab /\ q.held = req[r].held /\ Reserves(q)
    BY <1>1, <1>2, Typed DEF Owner, At
  <1> QED
    BY <1>2, LiveKeeps

\* A request ends and gives back what it has.
LEMMA EndKeeps ==
  ASSUME TabsInv, NEW r \in Requests, NEW how \in Ended, UNCHANGED pool, Return(r, how)
  PROVE  TabsInv'
  <1> DEFINE q == [NoReq EXCEPT !.pc = how]
  <1>1. IsReq(q) /\ OffJobs(q)
    BY EndedFields
  <1>2. req' = [req EXCEPT ![r] = q] /\ tab' = Live(Released(req[r].held), pool, req')
    BY DEF Return
  <1> HIDE DEF q
  <1>3. /\ Tabular(Released(req[r].held))
        /\ \A t \in pool : Released(req[r].held)[t].slot = tab[t].slot
    BY Typed, ReleasedTabular
  <1> QED
    BY <1>1, <1>2, <1>3, ReleaseKeeps

----------------------------------------------------------------------------
\* What is offered to a request has no reservation.
LEMMA OfferFits ==
  ASSUME TabsInv, NEW r
  PROVE  /\ \A t \in Offer(r) : t \in Tabs /\ tab[t].pend = 0
         /\ \A t \in Fitting(r) : t \in Tabs /\ tab[t].pend = 0
  BY Typed DEF Offer, Fitting, Busy

\* Nobody who is not solving, giving up or recovering has a reservation.
LEMMA Free ==
  ASSUME TabsInv, NEW r \in Requests
  PROVE  /\ req[r].pc \in {"idle", "gate", "init", "look", "nap", "evict", "evicting", "build",
                           "creating", "await", "probe", "rebuild", "rebuilt", "solved", "solving",
                           "gated"}
               => req[r].job \notin Jobs /\ ~Reserves(req[r])
         /\ req[r].pc \in {"recover", "relaunch", "bind", "solve", "legacy", "temporary"}
               => req[r].job \notin Jobs
         /\ req[r].pc \in {"awaiting", "rebuilding"} => ~Reserves(req[r])
  BY Typed DEF OffJobs, Reserves

\* The steps of a request that only move it.
LEMMA MovesKeep ==
  ASSUME TabsInv, NEW r \in Requests,
         \/ Start(r) \/ GatePasses(r) \/ GateWaits(r) \/ RecoverReuses(r) \/ LookBuilds(r)
         \/ BuildBegins(r) \/ Probe(r) \/ LegacyBegins(r) \/ LegacyRecovers(r)
  PROVE  TabsInv'
  <1>1. CASE Start(r)
    BY <1>1, GoKeeps, Free DEF Start, tabVars
  <1>2. CASE GatePasses(r)
    BY <1>2, GoKeeps, Free DEF GatePasses, tabVars
  <1>3. CASE GateWaits(r)
    BY <1>3, GoKeeps, Free DEF GateWaits, tabVars
  <1>4. CASE RecoverReuses(r)
    <2>1. req[r].pc = "recover" /\ Goto(r, AfterRecovery(req[r].pos)) /\ UNCHANGED <<pool, tab>>
      BY <1>4 DEF RecoverReuses, tabVars
    <2>2. Reserves(req[r]) => AfterRecovery(req[r].pos)[1] = "temporary"
      BY <2>1 DEF Reserves, AfterRecovery
    <2> QED
      BY <2>1, <2>2, GoKeeps, Free
  <1>5. CASE LookBuilds(r)
    BY <1>5, GoKeeps, Free DEF LookBuilds, tabVars
  <1>6. CASE BuildBegins(r)
    BY <1>6, GoKeeps, Free DEF BuildBegins, tabVars
  <1>7. CASE Probe(r)
    BY <1>7, GoKeeps, Free DEF Probe, tabVars
  <1>8. CASE LegacyBegins(r)
    <2>1. req[r].pc = "legacy" /\ Goto(r, <<"temporary", "one">>) /\ UNCHANGED <<pool, tab>>
      BY <1>8 DEF LegacyBegins, tabVars
    <2> QED
      BY <2>1, GoKeeps, Free
  <1>9. CASE LegacyRecovers(r)
    BY <1>9, GoKeeps, Free DEF LegacyRecovers, tabVars
  <1> QED
    BY <1>1, <1>2, <1>3, <1>4, <1>5, <1>6, <1>7, <1>8, <1>9

\* The looks for a tab in the pool.
LEMMA LooksKeep ==
  ASSUME TabsInv, NEW r \in Requests,
         \/ LookFinds(r) \/ LookFull(r) \/ Nap(r) \/ BuildFinds(r) \/ BuildFull(r)
  PROVE  TabsInv'
  <1>1. CASE LookFinds(r)
    <2>1. PICK t \in Fitting(r) : Take(r, t)
      BY <1>1 DEF LookFinds
    <2>2. req[r].pc = "look" /\ UNCHANGED pool
      BY <1>1 DEF LookFinds
    <2> QED
      BY <2>1, <2>2, OfferFits, Free, TakeKeeps
  <1>2. CASE LookFull(r)
    <2>1. req[r].pc = "look" /\ TakeNone(r, AfterNone(req[r].pos)) /\ UNCHANGED pool
      BY <1>2 DEF LookFull
    <2> QED
      BY <2>1, Free, TakeNoneKeeps
  <1>3. CASE Nap(r)
    <2>1. req[r].pc = "nap" /\ UNCHANGED pool
      BY <1>3 DEF Nap
    <2>2. ASSUME NEW t \in Offer(r), Take(r, t) PROVE TabsInv'
      BY <2>1, <2>2, OfferFits, Free, TakeKeeps
    <2>3. ASSUME Goto(r, <<"evict", req[r].pos>>), UNCHANGED tab PROVE TabsInv'
      BY <2>1, <2>3, GoKeeps, Free
    <2> QED
      BY <1>3, <2>2, <2>3 DEF Nap
  <1>4. CASE BuildFinds(r)
    <2>1. PICK t \in IF Full THEN Offer(r) ELSE Fitting(r) : Take(r, t)
      BY <1>4 DEF BuildFinds
    <2>2. req[r].pc = "build" /\ UNCHANGED pool
      BY <1>4 DEF BuildFinds
    <2> QED
      BY <2>1, <2>2, OfferFits, Free, TakeKeeps
  <1>5. CASE BuildFull(r)
    <2>1. req[r].pc = "build" /\ TakeNone(r, AfterNone(req[r].pos)) /\ UNCHANGED pool
      BY <1>5 DEF BuildFull
    <2> QED
      BY <2>1, Free, TakeNoneKeeps
  <1> QED
    BY <1>1, <1>2, <1>3, <1>4, <1>5

\* A new tab in the place of a forgotten one.
LEMMA NewTabular ==
  ASSUME Tabular(tab), NEW t \in Tabs, NEW s, NEW k, NEW a, NEW p \in {0, 1},
         tab' = [tab EXCEPT ![t] = NewTab(s, k, a, p)]
  PROVE  /\ Tabular(tab') /\ tab'[t].pend = p /\ tab'[t].slot = s
         /\ \A u \in Tabs \ {t} : tab'[u] = tab[u]
  <1>1. PICK n : n = NewTab(s, k, a, p)
    OBVIOUS
  <1>2. IsTab(n) /\ n.pend = p /\ n.slot = s
    BY <1>1 DEF NewTab, IsTab
  <1>3. tab' = [u \in Tabs |-> IF u = t THEN n ELSE tab[u]]
    BY <1>1 DEF Tabular
  <1> QED
    BY <1>2, <1>3 DEF Tabular

\* A name for a new tab is nobody's.
LEMMA FreeTabsFit == \A t \in Unused(FreeTabs) : t \in Tabs \ pool /\ \A r \in Requests : req[r].tab # t
  BY UnusedIsOne DEF FreeTabs

\* A tab is added to the pool for nobody, and no request moves its books.
LEMMA NewTabKeeps ==
  ASSUME TabsInv, NEW t \in Tabs, NEW s, NEW k, NEW a, t \notin pool,
         pool' = pool \cup {t}, tab' = [tab EXCEPT ![t] = NewTab(s, k, a, 0)],
         Asking(req'),
         \A r \in Requests : Reserves(req[r]) =>
            /\ req'[r].tab = req[r].tab /\ req'[r].held = req[r].held /\ Reserves(req'[r])
  PROVE  TabsInv'
  <1>1. 0 \in {0, 1}
    OBVIOUS
  <1>2. /\ Tabular(tab') /\ tab'[t].pend = 0 /\ tab'[t].slot = s
        /\ \A u \in Tabs \ {t} : tab'[u] = tab[u]
    BY <1>1, Typed, NewTabular
  <1>3. pool' \subseteq Tabs
    BY Typed
  <1>4. ASSUME NEW u \in pool', tab'[u].pend > 0
        PROVE  /\ u \in pool /\ tab[u].pend > 0 /\ tab'[u].slot = tab[u].slot
               /\ \A r \in Requests : Owner(r, u) =>
                     /\ req'[r].tab = req[r].tab /\ req'[r].held = req[r].held
                     /\ Reserves(req'[r])
    BY <1>2, <1>3, <1>4 DEF Owner
  <1> QED
    BY <1>2, <1>3, <1>4, OwnedStays

\* What a request is at, as the record that replaces it.
LEMMA Moved ==
  ASSUME TabsInv, NEW r \in Requests, NEW q
  PROVE  /\ req' = [req EXCEPT ![r] = q] => /\ req' = [x \in Requests |-> req'[x]]
                                           /\ req'[r] = q
                                           /\ \A x \in Requests \ {r} : req'[x] = req[x]
         /\ req' = [req EXCEPT ![r] = q] /\ IsReq(q) /\ OffJobs(q) => Asking(req')
  BY DEF TabsInv, Asking

\* A tab is built, and reserved for its builder or kept for nobody.
LEMMA BuildEndsKeeps ==
  ASSUME TabsInv, NEW r \in Requests, BuildEnds(r)
  PROVE  TabsInv'
  <1>1. req[r].pc = "creating"
    BY DEF BuildEnds
  <1>2. ASSUME NEW t \in Unused(FreeTabs), NEW s \in Unused(FreeSlots), pool' = pool \cup {t},
               tab' = [tab EXCEPT ![t] = NewTab(s, TokenOf[r], ~doomed /\ browser = "up", 1)],
               req' = [req EXCEPT ![r] = At2([@ EXCEPT !.tab = t, !.slot = s, !.held = s],
                                             WithTab(@.pos))]
        PROVE  TabsInv'
    <2>1. PICK n : n = WithBooks(req[r], t, s, s)
      OBVIOUS
    <2>2. PICK to : to = WithTab(req[r].pos)
      OBVIOUS
    <2>3. PICK q : q = At2(n, to)
      OBVIOUS
    <2>4. req' = [req EXCEPT ![r] = q]
      BY <1>2, <2>1, <2>2, <2>3 DEF WithBooks
    <2>5. IsReq(req[r]) /\ req[r].job \notin Jobs
      BY <1>1, Typed, Free
    <2>6. IsReq(n) /\ n.tab = t /\ n.held = s /\ n.job = req[r].job
      BY <2>1, <2>5, TakenFields
    <2>7. IsReq(n)
      BY <2>6
    <2>8. /\ IsReq(q) /\ q.pc = to[1]
          /\ q.tab = n.tab /\ q.held = n.held /\ q.job = n.job
      BY <2>3, <2>7, MovedFields
    <2>9. OffJobs(q) /\ Reserves(q)
      <3>1. to[1] \in {"bind", "solve"}
        BY <2>2, WithTabReserves
      <3> QED
        BY <2>5, <2>6, <2>8, <3>1 DEF OffJobs, Reserves
    <2>10. PICK a \in BOOLEAN : tab' = [tab EXCEPT ![t] = NewTab(s, TokenOf[r], a, 1)]
      BY <1>2
    <2>11. /\ Tabular(tab') /\ tab'[t].pend = 1 /\ tab'[t].slot = s
           /\ \A u \in Tabs \ {t} : tab'[u] = tab[u]
      <3>1. 1 \in {0, 1}
        OBVIOUS
      <3> QED
        BY <2>10, <3>1, Typed, FreeTabsFit, NewTabular
    <2>12. pool' \subseteq Tabs /\ t \notin pool
      BY <1>2, Typed, FreeTabsFit
    <2>13. ASSUME NEW u \in pool', tab'[u].pend > 0
           PROVE  \/ q.tab = u /\ q.held = tab'[u].slot /\ Reserves(q)
                  \/ /\ u \in pool /\ tab[u].pend > 0 /\ tab'[u].slot = tab[u].slot
                     /\ Owner(r, u) => q.tab = req[r].tab /\ q.held = req[r].held /\ Reserves(q)
      <3>1. ~Reserves(req[r])
        BY <1>1, Free
      <3> QED
        BY <1>2, <2>6, <2>8, <2>9, <2>11, <2>12, <2>13, <3>1 DEF Owner
    <2> QED
      BY <2>4, <2>8, <2>9, <2>11, <2>12, <2>13, MoverKeeps
  <1>3. ASSUME NEW t \in Fitting(r), Take(r, t), UNCHANGED pool
        PROVE  TabsInv'
    BY <1>1, <1>3, OfferFits, Free, TakeKeeps
  <1>4. ASSUME NEW to, TakeNone(r, to), UNCHANGED pool
        PROVE  TabsInv'
    BY <1>1, <1>4, Free, TakeNoneKeeps
  <1> QED
    BY <1>2, <1>3, <1>4 DEF BuildEnds

----------------------------------------------------------------------------
\* Tabs leave the pool, their pages gone, and no request moves its books.
LEMMA LeaveKeeps ==
  ASSUME TabsInv, NEW S, NEW held, pool' = pool \ S,
         tab' = Live([t \in Tabs |-> [tab[t] EXCEPT !.alive = @ /\ t \notin S]], pool', held),
         Asking(req'),
         \A r \in Requests : Reserves(req[r]) =>
            /\ req'[r].tab = req[r].tab /\ req'[r].held = req[r].held /\ Reserves(req'[r])
  PROVE  TabsInv'
  <1> DEFINE f == [t \in Tabs |-> [tab[t] EXCEPT !.alive = @ /\ t \notin S]]
  <1>1. Tabular(f) /\ \A t \in Tabs : f[t].pend = tab[t].pend /\ f[t].slot = tab[t].slot
    BY Typed DEF Tabular, IsTab
  <1> HIDE DEF f
  <1>2. PICK p : p = pool' /\ tab' = Live(f, p, held)
    BY DEF f
  <1>3. pool' \subseteq pool /\ pool' \subseteq Tabs
    BY Typed
  <1>4. Tabular(tab') /\ \A t \in pool' : tab'[t] = f[t]
    <2>1. Tabular(Live(f, p, held)) /\ \A t \in Tabs : t \in p => Live(f, p, held)[t] = f[t]
      BY <1>1, LiveTabular
    <2> QED
      BY <1>2, <1>3, <2>1
  <1>5. ASSUME NEW t \in pool', tab'[t].pend > 0
        PROVE  /\ t \in pool /\ tab[t].pend > 0 /\ tab'[t].slot = tab[t].slot
               /\ \A r \in Requests : Owner(r, t) =>
                     /\ req'[r].tab = req[r].tab /\ req'[r].held = req[r].held
                     /\ Reserves(req'[r])
    BY <1>1, <1>3, <1>4, <1>5 DEF Owner
  <1> QED
    BY <1>3, <1>4, <1>5, OwnedStays

\* One request moves that has no reservation, or no request does.
LEMMA FreeMoves ==
  ASSUME TabsInv, NEW r \in Requests, NEW q, req' = [req EXCEPT ![r] = q],
         IsReq(q), q.job \notin Jobs \/ q.pc \in {"rebuilding", "awaiting"}, ~Reserves(req[r])
  PROVE  /\ Asking(req')
         /\ \A x \in Requests : Reserves(req[x]) =>
              /\ req'[x].tab = req[x].tab /\ req'[x].held = req[x].held /\ Reserves(req'[x])
  BY Moved DEF OffJobs

\* Requests that stay where they are keep their books.
LEMMA NobodyMoves ==
  ASSUME TabsInv, UNCHANGED req
  PROVE  /\ Asking(req')
         /\ \A x \in Requests : Reserves(req[x]) =>
              /\ req'[x].tab = req[x].tab /\ req'[x].held = req[x].held /\ Reserves(req'[x])
  BY DEF TabsInv

\* The tabs are left alone.
LEMMA StayKeeps ==
  ASSUME TabsInv, UNCHANGED <<pool, tab>>, Asking(req'),
         \A r \in Requests : Reserves(req[r]) =>
            /\ req'[r].tab = req[r].tab /\ req'[r].held = req[r].held /\ Reserves(req'[r])
  PROVE  TabsInv'
  BY OwnedStays DEF TabsInv, Owner

Put(q, place, slot) == [q EXCEPT !.pc = place, !.slot = slot]
Wait(q, place, j) == [q EXCEPT !.pc = place, !.job = j]
WaitFor(q, place, j) == [q EXCEPT !.pc = place, !.job = j, !.tab = None]
AtPc(q, place) == [q EXCEPT !.pc = place]

\* What waiting and going elsewhere leave of a request.
LEMMA PutFields ==
  ASSUME NEW q, IsReq(q), NEW place, NEW v
  PROVE  /\ IsReq(Put(q, place, v)) /\ Put(q, place, v).pc = place /\ Put(q, place, v).job = q.job
         /\ IsReq(Wait(q, place, v)) /\ Wait(q, place, v).pc = place /\ Wait(q, place, v).job = v
         /\ IsReq(WaitFor(q, place, v)) /\ WaitFor(q, place, v).pc = place /\ WaitFor(q, place, v).job = v
         /\ IsReq(AtPc(q, place)) /\ AtPc(q, place).pc = place /\ AtPc(q, place).job = q.job
         /\ AtPc(q, place).tab = q.tab /\ AtPc(q, place).held = q.held /\ AtPc(q, place).pos = q.pos
  <1>1. PICK A, B, C, D, E, F : q \in [pc : A, pos : B, tab : C, slot : D, held : E, job : F]
    BY ReqRecord
  <1>2. IsReq(Put(q, place, v)) /\ Put(q, place, v).pc = place /\ Put(q, place, v).job = q.job
    <2>1. PICK n : n = [q EXCEPT !.pc = place, !.slot = v]
      OBVIOUS
    <2>2. n.pc = place /\ n.job = q.job
      BY <1>1, <2>1
    <2>3. IsReq(n)
      BY <1>1, <2>1 DEF IsReq
    <2> QED
      BY <2>1, <2>2, <2>3 DEF Put
  <1>3. IsReq(Wait(q, place, v)) /\ Wait(q, place, v).pc = place /\ Wait(q, place, v).job = v
    <2>1. PICK n : n = [q EXCEPT !.pc = place, !.job = v]
      OBVIOUS
    <2>2. n.pc = place /\ n.job = v
      BY <1>1, <2>1
    <2>3. IsReq(n)
      BY <1>1, <2>1 DEF IsReq
    <2> QED
      BY <2>1, <2>2, <2>3 DEF Wait
  <1>4. IsReq(WaitFor(q, place, v)) /\ WaitFor(q, place, v).pc = place /\ WaitFor(q, place, v).job = v
    <2>1. PICK n : n = [q EXCEPT !.pc = place, !.job = v, !.tab = None]
      OBVIOUS
    <2>2. n.pc = place /\ n.job = v
      BY <1>1, <2>1
    <2>3. IsReq(n)
      BY <1>1, <2>1 DEF IsReq
    <2> QED
      BY <2>1, <2>2, <2>3 DEF WaitFor
  <1>5. /\ IsReq(AtPc(q, place)) /\ AtPc(q, place).pc = place /\ AtPc(q, place).job = q.job
        /\ AtPc(q, place).tab = q.tab /\ AtPc(q, place).held = q.held /\ AtPc(q, place).pos = q.pos
    BY DEF AtPc, IsReq
  <1> QED
    BY <1>2, <1>3, <1>4, <1>5

\* A request evicts a tab.
LEMMA EvictsKeep ==
  ASSUME TabsInv, NEW r \in Requests, EvictPicks(r) \/ EvictCloses(r)
  PROVE  TabsInv'
  <1>1. CASE EvictPicks(r)
    <2>1. req[r].pc = "evict" /\ UNCHANGED <<pool, tab>>
      BY <1>1 DEF EvictPicks, tabVars
    <2>2. IsReq(req[r]) /\ req[r].job \notin Jobs /\ ~Reserves(req[r])
      BY <2>1, Typed, Free
    <2>3. ASSUME Goto(r, <<"build", req[r].pos>>) PROVE TabsInv'
      BY <2>1, <2>2, <2>3, GoKeeps
    <2>4. ASSUME NEW s, req' = [req EXCEPT ![r].pc = "evicting", ![r].slot = s] PROVE TabsInv'
      <3>1. PICK q : q = Put(req[r], "evicting", s)
        OBVIOUS
      <3>2. req' = [req EXCEPT ![r] = q]
        BY <2>4, <3>1 DEF Put, TabsInv, Asking
      <3>3. IsReq(q) /\ q.job \notin Jobs
        BY <2>2, <3>1, PutFields
      <3> QED
        BY <2>1, <2>2, <3>2, <3>3, FreeMoves, StayKeeps
    <2> QED
      BY <1>1, <2>3, <2>4 DEF EvictPicks
  <1>2. CASE EvictCloses(r)
    <2>1. req[r].pc = "evicting" /\ req' = [req EXCEPT ![r].pc = "build", ![r].slot = None]
      BY <1>2 DEF EvictCloses
    <2>2. PICK S : /\ pool' = pool \ S
                   /\ tab' = Live([t \in Tabs |-> [tab[t] EXCEPT !.alive = @ /\ t \notin S]], pool', req)
      BY <1>2 DEF EvictCloses, Close
    <2>3. IsReq(req[r]) /\ req[r].job \notin Jobs /\ ~Reserves(req[r])
      BY <2>1, Typed, Free
    <2>4. PICK q : q = Put(req[r], "build", None)
      OBVIOUS
    <2>5. req' = [req EXCEPT ![r] = q]
      BY <2>1, <2>4 DEF Put, TabsInv, Asking
    <2>6. IsReq(q) /\ q.job \notin Jobs
      BY <2>3, <2>4, PutFields
    <2>7. /\ Asking(req')
          /\ \A x \in Requests : Reserves(req[x]) =>
                /\ req'[x].tab = req[x].tab /\ req'[x].held = req[x].held /\ Reserves(req'[x])
      BY <2>3, <2>5, <2>6, FreeMoves
    <2> QED
      BY <2>2, <2>7, LeaveKeeps
  <1> QED
    BY <1>1, <1>2

\* A request waits for a rebuild, or gives up waiting.
LEMMA AwaitsKeep ==
  ASSUME TabsInv, NEW r \in Requests, Await(r) \/ AwaitTimesOut(r) \/ InitEnds(r)
  PROVE  TabsInv'
  <1>1. CASE Await(r)
    <2>1. req[r].pc = "await" /\ UNCHANGED <<pool, tab>>
      BY <1>1 DEF Await, tabVars
    <2>2. IsReq(req[r]) /\ req[r].job \notin Jobs /\ ~Reserves(req[r])
      BY <2>1, Typed, Free
    <2>3. ASSUME NEW j, req' = [req EXCEPT ![r].pc = "awaiting", ![r].job = j] PROVE TabsInv'
      <3>1. PICK q : q = Wait(req[r], "awaiting", j)
        OBVIOUS
      <3>2. req' = [req EXCEPT ![r] = q]
        BY <2>3, <3>1 DEF Wait, TabsInv, Asking
      <3>3. IsReq(q) /\ q.pc = "awaiting"
        BY <2>2, <3>1, PutFields
      <3> QED
        BY <2>1, <2>2, <3>2, <3>3, FreeMoves, StayKeeps
    <2>4. ASSUME Goto(r, Probed("probed")) PROVE TabsInv'
      BY <2>1, <2>2, <2>4, GoKeeps
    <2> QED
      BY <1>1, <2>3, <2>4 DEF Await
  <1>2. CASE AwaitTimesOut(r)
    <2>1. req[r].pc = "awaiting" /\ UNCHANGED <<pool, tab>>
      BY <1>2 DEF AwaitTimesOut, tabVars
    <2>2. IsReq(req[r]) /\ ~Reserves(req[r])
      BY <2>1, Typed, Free
    <2>3. PICK to : to = AfterNone("waited")
      OBVIOUS
    <2>4. PICK n : n = [req[r] EXCEPT !.job = None]
      OBVIOUS
    <2>5. PICK q : q = At2(n, to)
      OBVIOUS
    <2>6. req' = [req EXCEPT ![r] = q]
      BY <1>2, <2>3, <2>4, <2>5 DEF AwaitTimesOut
    <2>7. IsReq(n) /\ n.job = None
      BY <2>2, <2>4 DEF IsReq
    <2>8. IsReq(q) /\ q.job = n.job
      BY <2>5, <2>7, MovedFields
    <2>9. q.job \notin Jobs
      BY <2>7, <2>8, ResidentAssumption
    <2> QED
      BY <2>1, <2>2, <2>6, <2>8, <2>9, FreeMoves, StayKeeps
  <1>3. CASE InitEnds(r)
    <2>1. req[r].pc = "init" /\ UNCHANGED <<pool, tab>>
      BY <1>3 DEF InitEnds, tabVars
    <2>2. IsReq(req[r]) /\ req[r].job \notin Jobs /\ ~Reserves(req[r])
      BY <2>1, Typed, Free
    <2>3. ASSUME req' = [req EXCEPT ![r].pc = "gate"] PROVE TabsInv'
      <3>1. PICK q : q = AtPc(req[r], "gate")
        OBVIOUS
      <3>2. req' = [req EXCEPT ![r] = q]
        BY <2>3, <3>1 DEF AtPc, TabsInv, Asking
      <3>3. IsReq(q) /\ q.job = req[r].job
        BY <2>2, <3>1, PutFields
      <3> QED
        BY <2>1, <2>2, <3>2, <3>3, FreeMoves, StayKeeps
    <2>4. ASSUME req' = [req EXCEPT ![r] = [NoReq EXCEPT !.pc = "raised"]] PROVE TabsInv'
      <3>1. PICK q : q = [NoReq EXCEPT !.pc = "raised"]
        OBVIOUS
      <3>2. IsReq(q) /\ q.job = None
        BY <3>1 DEF NoReq, IsReq
      <3>3. q.job \notin Jobs
        BY <3>2, ResidentAssumption
      <3>4. req' = [req EXCEPT ![r] = q]
        BY <2>4, <3>1
      <3> QED
        BY <2>1, <2>2, <3>2, <3>3, <3>4, FreeMoves, StayKeeps
    <2> QED
      BY <1>3, <2>3, <2>4 DEF InitEnds
  <1> QED
    BY <1>1, <1>2, <1>3

----------------------------------------------------------------------------
\* Requests that wait for a cancelled task are cancelled; the others stay.
LEMMA CancelTasksMoves ==
  ASSUME NEW q, Asking(q), NEW self, CancelTasks(q, self)
  PROVE  /\ Asking(req')
         /\ \A x \in Requests : q[x].pc \notin {"rebuilding", "awaiting", "gated"} => req'[x] = q[x]
  <1>1. PICK n : n = [NoReq EXCEPT !.pc = "cancelled"]
    OBVIOUS
  <1>2. IsReq(n) /\ OffJobs(n)
    <2>1. n.job = None /\ IsReq(n)
      BY <1>1 DEF NoReq, IsReq
    <2> QED
      BY <2>1, ResidentAssumption DEF OffJobs
  <1>3. req' = [x \in Requests |-> IF \/ q[x].pc \in {"rebuilding", "awaiting"} /\ Cancelled(q[x].job)
                                      \/ q[x].pc = "gated" /\ self # Fresh
                                   THEN n ELSE q[x]]
    BY <1>1 DEF CancelTasks
  <1> QED
    BY <1>2, <1>3 DEF Asking

\* Without a browser the tabs keep their reservations.
LEMMA DarkTabular ==
  ASSUME TabsInv
  PROVE  LET f == [t \in Tabs |-> [tab[t] EXCEPT !.alive = FALSE]]
         IN Tabular(f) /\ \A t \in Tabs : f[t].pend = tab[t].pend /\ f[t].slot = tab[t].slot
  <1> DEFINE g(t) == [tab[t] EXCEPT !.alive = FALSE]
  <1>1. \A t \in Tabs : IsTab(g(t)) /\ g(t).pend = tab[t].pend /\ g(t).slot = tab[t].slot
    BY Typed, TabFields DEF Tabular
  <1>2. \A t \in Tabs : tab[t].pend \in {0, 1}
    BY Typed
  <1> DEFINE f == [t \in Tabs |-> g(t)]
  <1> HIDE DEF g
  <1>3. Tabular(f) /\ \A t \in Tabs : f[t].pend = tab[t].pend /\ f[t].slot = tab[t].slot
    BY <1>1, <1>2 DEF Tabular
  <1> QED
    BY <1>3 DEF g

\* The browser is shut down, and all tabs leave the pool.
LEMMA ShutdownKeeps ==
  ASSUME TabsInv, NEW q, Asking(q), NEW self, Shutdown(q, self)
  PROVE  TabsInv'
  <1>1. pool' = {} /\ Asking(req')
    BY CancelTasksMoves DEF Shutdown
  <1> DEFINE f == [t \in Tabs |-> [tab[t] EXCEPT !.alive = FALSE]]
  <1>2. Tabular(f)
    BY DarkTabular
  <1>3. PICK h : tab' = Live(f, {}, h)
    BY DEF Shutdown
  <1> HIDE DEF f
  <1>4. Tabular(tab')
    BY <1>2, <1>3, LiveTabular
  <1> QED
    BY <1>1, <1>4, OwnedStays

\* Whoever shuts the browser down.
LEMMA ShutdownsKeep ==
  ASSUME TabsInv,
         \/ RestartShuts \/ ReportRestarts
         \/ \E r \in Requests : InitClearsAway(r) \/ RecoverShuts(r)
  PROVE  TabsInv'
  <1>1. Asking(req)
    BY DEF TabsInv
  <1>2. CASE RestartShuts
    BY <1>1, <1>2, ShutdownKeeps DEF RestartShuts
  <1>3. CASE ReportRestarts
    BY <1>1, <1>3, ShutdownKeeps DEF ReportRestarts
  <1>4. ASSUME NEW r \in Requests, InitClearsAway(r) PROVE TabsInv'
    BY <1>1, <1>4, ShutdownKeeps DEF InitClearsAway
  <1>5. ASSUME NEW r \in Requests, RecoverShuts(r) PROVE TabsInv'
    <2>1. PICK q : q = [req EXCEPT ![r].pc = "relaunch"]
      OBVIOUS
    <2>2. req[r].pc = "recover" /\ Shutdown(q, r)
      BY <1>5, <2>1 DEF RecoverShuts
    <2>3. IsReq(req[r]) /\ req[r].job \notin Jobs
      BY <2>2, Typed, Free
    <2>4. q = [req EXCEPT ![r] = AtPc(req[r], "relaunch")]
      BY <2>1 DEF AtPc, TabsInv, Asking
    <2>5. IsReq(AtPc(req[r], "relaunch")) /\ AtPc(req[r], "relaunch").job = req[r].job
      BY <2>3, PutFields
    <2>6. Asking(q)
      BY <1>1, <2>3, <2>4, <2>5 DEF Asking, OffJobs
    <2> QED
      BY <2>2, <2>6, ShutdownKeeps
  <1> QED
    BY <1>2, <1>3, <1>4, <1>5

\* The browser is up again, with a tab for nobody, or without.
LEMMA RelaunchedKeeps ==
  ASSUME TabsInv, NEW k, Relaunched(k), Asking(req'),
         \A r \in Requests : Reserves(req[r]) =>
            /\ req'[r].tab = req[r].tab /\ req'[r].held = req[r].held /\ Reserves(req'[r])
  PROVE  TabsInv'
  <1>1. ASSUME NEW t \in Unused(FreeTabs), NEW s \in Unused(FreeSlots),
               tab' = [tab EXCEPT ![t] = NewTab(s, k, TRUE, 0)], pool' = pool \cup {t}
        PROVE  TabsInv'
    BY <1>1, FreeTabsFit, NewTabKeeps
  <1> QED
    BY <1>1, StayKeeps DEF Relaunched

\* The recovery of a request ends.
LEMMA RecoverEndsKeeps ==
  ASSUME TabsInv, NEW r \in Requests, RecoverEnds(r)
  PROVE  TabsInv'
  <1>1. PICK to : /\ Goto(r, to)
                  /\ \/ to = AfterRecovery(req[r].pos) /\ Relaunched(TokenOf[r])
                     \/ to = AfterLoss(req[r].pos) /\ UNCHANGED <<tab, pool>>
    BY DEF RecoverEnds
  <1>2. req[r].pc = "relaunch"
    BY DEF RecoverEnds
  <1>3. Reserves(req[r]) => to[1] = "temporary"
    BY <1>1, <1>2 DEF Reserves, AfterRecovery, AfterLoss
  <1>4. IsReq(req[r]) /\ req[r].job \notin Jobs
    BY <1>2, Typed, Free
  <1>5. PICK q : q = At2(req[r], to)
    OBVIOUS
  <1>6. req' = [req EXCEPT ![r] = q]
    BY <1>1, <1>5 DEF Goto
  <1>7. /\ IsReq(q) /\ q.pc = to[1]
        /\ q.tab = req[r].tab /\ q.held = req[r].held /\ q.job = req[r].job
    BY <1>4, <1>5, MovedFields
  <1>8. OffJobs(q) /\ (Reserves(req[r]) => Reserves(q))
    BY <1>3, <1>4, <1>7 DEF OffJobs, Reserves
  <1>9. /\ Asking(req')
        /\ \A x \in Requests : Reserves(req[x]) =>
              /\ req'[x].tab = req[x].tab /\ req'[x].held = req[x].held /\ Reserves(req'[x])
    BY <1>6, <1>7, <1>8, Moved
  <1> QED
    BY <1>1, <1>9, RelaunchedKeeps, StayKeeps

\* The restart task is over; who waited for it looks again.
LEMMA WokenMoves ==
  ASSUME TabsInv, req' = Woken
  PROVE  /\ Asking(req')
         /\ \A x \in Requests : Reserves(req[x]) =>
              /\ req'[x].tab = req[x].tab /\ req'[x].held = req[x].held /\ Reserves(req'[x])
  <1>1. \A x \in Requests : req[x].pc = "gated" =>
           /\ IsReq(AtPc(req[x], "gate")) /\ OffJobs(AtPc(req[x], "gate")) /\ ~Reserves(req[x])
    BY Typed, Free, PutFields DEF OffJobs
  <1>2. req' = [x \in Requests |-> IF req[x].pc = "gated" THEN AtPc(req[x], "gate") ELSE req[x]]
    BY DEF Woken, AtPc
  <1> QED
    BY <1>1, <1>2, Typed DEF Asking

\* The restart waits, is put off, or ends.
LEMMA RestartKeeps ==
  ASSUME TabsInv, RestartDrains \/ RestartDefers \/ RestartEnds
  PROVE  TabsInv'
  <1>1. CASE RestartDrains
    <2>1. UNCHANGED <<pool, tab, req>>
      BY <1>1 DEF RestartDrains, tabVars
    <2> QED
      BY <2>1, NobodyMoves, StayKeeps
  <1>2. CASE RestartDefers
    <2>1. UNCHANGED <<pool, tab>> /\ req' = Woken
      BY <1>2 DEF RestartDefers, tabVars
    <2> QED
      BY <2>1, WokenMoves, StayKeeps
  <1>3. CASE RestartEnds
    <2>1. req' = Woken
      BY <1>3 DEF RestartEnds
    <2>2. \/ \E k \in Tokens \cup {None} : Relaunched(k)
          \/ UNCHANGED <<pool, tab>>
      BY <1>3 DEF RestartEnds
    <2> QED
      BY <2>1, <2>2, WokenMoves, RelaunchedKeeps, StayKeeps
  <1> QED
    BY <1>1, <1>2, <1>3

----------------------------------------------------------------------------
\* Nothing but the look of the tabs changes.
LEMMA PaintKeeps ==
  ASSUME TabsInv, UNCHANGED <<pool, req>>, Tabular(tab'),
         \A t \in Tabs : tab'[t].pend = tab[t].pend /\ tab'[t].slot = tab[t].slot
  PROVE  TabsInv'
  <1>1. pool' \subseteq Tabs
    BY Typed
  <1>2. \A t \in pool' : tab'[t].pend > 0 =>
           /\ t \in pool /\ tab[t].pend > 0 /\ tab'[t].slot = tab[t].slot
           /\ \A r \in Requests : Owner(r, t) =>
                 /\ req'[r].tab = req[r].tab /\ req'[r].held = req[r].held /\ Reserves(req'[r])
    BY <1>1 DEF Owner
  <1> QED
    BY <1>1, <1>2, NobodyMoves, OwnedStays

Dropped(q, t) == [q EXCEPT !.tab = t, !.held = None]

\* What a request is that forgets its tab.
LEMMA DroppedFields ==
  ASSUME NEW q, IsReq(q), NEW t
  PROVE  IsReq(Dropped(q, t)) /\ Dropped(q, t).job = q.job
  <1>1. PICK A, B, C, D, E, F : q \in [pc : A, pos : B, tab : C, slot : D, held : E, job : F]
    BY ReqRecord
  <1>2. PICK n : n = [q EXCEPT !.tab = t, !.held = None]
    OBVIOUS
  <1>3. n.job = q.job
    BY <1>1, <1>2
  <1>4. IsReq(n)
    BY <1>1, <1>2 DEF IsReq
  <1> QED
    BY <1>2, <1>3, <1>4 DEF Dropped

\* What a request is after it has given up its tab.
LEMMA DropMoves ==
  ASSUME TabsInv, NEW r \in Requests, req[r].job \notin Jobs, NEW t, NEW to,
         NEW q, q = At2(Dropped(req[r], t), to)
  PROVE  IsReq(q) /\ OffJobs(q)
  <1>1. IsReq(req[r])
    BY Typed
  <1>2. PICK n : n = Dropped(req[r], t)
    OBVIOUS
  <1>3. IsReq(n) /\ n.job = req[r].job
    BY <1>1, <1>2, DroppedFields
  <1>4. IsReq(q) /\ q.job = n.job
    BY <1>2, <1>3, MovedFields
  <1> QED
    BY <1>3, <1>4 DEF OffJobs

\* A tab is bound to the account, or the request gives it up.
LEMMA BindKeeps ==
  ASSUME TabsInv, NEW r \in Requests, Bind(r)
  PROVE  TabsInv'
  <1> DEFINE t == req[r].tab
             s == req[r].slot
             back == Marked(Released(req[r].held), s, t)
  <1>1. req[r].pc = "bind" /\ UNCHANGED pool
    BY DEF Bind
  <1>2. IsReq(req[r]) /\ req[r].job \notin Jobs
    BY <1>1, Typed, Free
  <1>3. /\ Tabular(back)
        /\ \A u \in Tabs : back[u].slot = tab[u].slot /\ back[u].pend = Released(req[r].held)[u].pend
    <2>1. PICK f : f = Released(req[r].held)
      OBVIOUS
    <2>2. Tabular(f) /\ \A u \in Tabs : f[u].slot = tab[u].slot
      BY <2>1, Typed, ReleasedTabular
    <2>3. /\ Tabular(Marked(f, s, t))
          /\ \A u \in Tabs : Marked(f, s, t)[u].pend = f[u].pend /\ Marked(f, s, t)[u].slot = f[u].slot
      BY <2>2, MarkedTabular
    <2> QED
      BY <2>1, <2>2, <2>3
  <1>4. ASSUME req' = [req EXCEPT ![r] = At2(@, <<"solve", "first">>)],
               Tabular(tab'), \A u \in Tabs : tab'[u].pend = tab[u].pend /\ tab'[u].slot = tab[u].slot
        PROVE  TabsInv'
    <2>1. PICK to : to = <<"solve", "first">>
      OBVIOUS
    <2>2. PICK q : q = At2(req[r], to)
      OBVIOUS
    <2>3. req' = [req EXCEPT ![r] = q]
      BY <1>4, <2>1, <2>2
    <2>4. /\ IsReq(q) /\ q.pc = to[1]
          /\ q.tab = req[r].tab /\ q.held = req[r].held /\ q.job = req[r].job
      BY <1>2, <2>2, MovedFields
    <2>5. OffJobs(q) /\ Reserves(q)
      BY <1>2, <2>1, <2>4 DEF OffJobs, Reserves
    <2>6. pool' \subseteq Tabs /\ pool' = pool
      BY <1>1, Typed
    <2> QED
      BY <1>4, <2>3, <2>4, <2>5, <2>6, MoverKeeps
  <1>5. ASSUME req' = [req EXCEPT ![r] = At2([@ EXCEPT !.tab = None, !.held = None], <<"rebuild", "chilled">>)],
               NEW f, Tabular(f), tab' = Live(f, pool, req'),
               \A u \in Tabs : f[u].slot = tab[u].slot /\ f[u].pend = Released(req[r].held)[u].pend
        PROVE  TabsInv'
    <2>1. PICK to : to = <<"rebuild", "chilled">>
      OBVIOUS
    <2>2. PICK q : q = At2(Dropped(req[r], None), to)
      OBVIOUS
    <2>3. req' = [req EXCEPT ![r] = q]
      BY <1>5, <2>1, <2>2 DEF Dropped
    <2>4. IsReq(q) /\ OffJobs(q)
      BY <1>2, <2>2, DropMoves
    <2>5. \A u \in pool : f[u].slot = tab[u].slot /\ f[u].pend = Released(req[r].held)[u].pend
      BY <1>5, Typed
    <2> QED
      BY <1>1, <1>5, <2>3, <2>4, <2>5, ReleaseKeeps
  <1>6. CASE UNCHANGED tab /\ req' = [req EXCEPT ![r] = At2(@, <<"solve", "first">>)]
    BY <1>4, <1>6, Typed
  <1>7. CASE /\ tab' = [tab EXCEPT ![t].token = TokenOf[r], ![t].ready = TRUE]
             /\ req' = [req EXCEPT ![r] = At2(@, <<"solve", "first">>)]
    <2>1. PICK f : f = HasToken(tab, t, TokenOf[r])
      OBVIOUS
    <2>2. Tabular(f) /\ \A u \in Tabs : f[u].pend = tab[u].pend /\ f[u].slot = tab[u].slot
      BY <2>1, Typed, FieldTabular
    <2>a. PICK v : v = TRUE
      OBVIOUS
    <2>3. tab' = WithReady(f, t, v)
      BY <1>7, <2>1, <2>a DEF WithReady, HasToken
    <2>4. /\ Tabular(WithReady(f, t, v))
          /\ \A u \in Tabs : /\ WithReady(f, t, v)[u].pend = f[u].pend
                             /\ WithReady(f, t, v)[u].slot = f[u].slot
      BY <2>2, FieldTabular
    <2> QED
      BY <1>4, <1>7, <2>2, <2>3, <2>4
  <1>8. CASE /\ req' = [req EXCEPT ![r] = At2([@ EXCEPT !.tab = None, !.held = None], <<"rebuild", "chilled">>)]
             /\ tab' = Live(back, pool, req')
    <2> HIDE DEF back
    <2> QED
      BY <1>3, <1>5, <1>8
  <1>9. CASE /\ req' = [req EXCEPT ![r] = At2([@ EXCEPT !.tab = None, !.held = None], <<"rebuild", "chilled">>)]
             /\ tab' = Live([back EXCEPT ![t].ready = FALSE], pool, req')
    <2> HIDE DEF back
    <2>a. PICK v : v = FALSE
      OBVIOUS
    <2>1. PICK f : f = WithReady(back, t, v)
      OBVIOUS
    <2>2. Tabular(f) /\ \A u \in Tabs : f[u].pend = back[u].pend /\ f[u].slot = back[u].slot
      BY <1>3, <2>1, FieldTabular
    <2>3. tab' = Live(f, pool, req')
      BY <1>9, <2>1, <2>a DEF WithReady
    <2> QED
      BY <1>3, <1>5, <1>9, <2>2, <2>3
  <1> QED
    BY <1>6, <1>7, <1>8, <1>9 DEF Bind

\* The end of a request, as the record that replaces it.
LEMMA EndedMoves ==
  ASSUME NEW place, place \notin {"bind", "solve", "legacy", "temporary", "recover", "relaunch"},
         NEW q, q = [NoReq EXCEPT !.pc = place]
  PROVE  IsReq(q) /\ OffJobs(q) /\ ~Reserves(q) /\ q.job \notin Jobs
  <1>1. IsReq(q) /\ q.job = None /\ q.pc = place
    BY DEF NoReq, IsReq
  <1> QED
    BY <1>1, ResidentAssumption DEF OffJobs, Reserves

\* The solve begins: the reservation becomes the tab's lock.
LEMMA SolveBeginsKeeps ==
  ASSUME TabsInv, NEW r \in Requests, SolveBegins(r)
  PROVE  TabsInv'
  <1>1. PICK t : t = req[r].tab
    OBVIOUS
  <1>2. req[r].pc = "solve" /\ UNCHANGED pool /\ req' = [req EXCEPT ![r].pc = "solving"]
    BY DEF SolveBegins
  <1>3. IsReq(req[r]) /\ req[r].job \notin Jobs
    BY <1>2, Typed, Free
  <1>4. PICK q : q = AtPc(req[r], "solving")
    OBVIOUS
  <1>5. IsReq(q) /\ q.pc = "solving" /\ q.job = req[r].job
    BY <1>3, <1>4, PutFields
  <1>6. req' = [req EXCEPT ![r] = q] /\ OffJobs(q)
    BY <1>2, <1>3, <1>4, <1>5 DEF AtPc, OffJobs, TabsInv, Asking
  <1>7. PICK f : f = WithLock(tab, t, r)
    OBVIOUS
  <1>8. Tabular(f) /\ \A u \in Tabs : f[u].pend = tab[u].pend /\ f[u].slot = tab[u].slot
    BY <1>7, Typed, FieldTabular
  <1>9. tab' = WithLess(f, t)
    BY <1>1, <1>7 DEF SolveBegins, WithLock, WithLess
  <1>10. /\ Tabular(WithLess(f, t))
         /\ \A u \in Tabs : WithLess(f, t)[u].slot = f[u].slot
         /\ \A u \in Tabs \ {t} : WithLess(f, t)[u] = f[u]
         /\ t \in Tabs => WithLess(f, t)[t].pend = 0
    BY <1>8, LessTabular
  <1>11. pool' \subseteq Tabs
    BY <1>2, Typed
  <1>12. ASSUME NEW u \in pool', tab'[u].pend > 0
         PROVE  /\ u \in pool /\ tab[u].pend > 0 /\ tab'[u].slot = tab[u].slot
                /\ Owner(r, u) => q.tab = req[r].tab /\ q.held = req[r].held /\ Reserves(q)
    <2>1. u \in Tabs /\ u # t
      BY <1>9, <1>10, <1>11, <1>12
    <2>2. tab'[u] = f[u] /\ ~Owner(r, u)
      BY <1>1, <1>9, <1>10, <2>1 DEF Owner
    <2> QED
      BY <1>2, <1>8, <1>12, <2>1, <2>2
  <1> QED
    BY <1>5, <1>6, <1>9, <1>10, <1>11, <1>12, MoverKeeps

\* A solve that fails leaves the request at another step.
LEMMA UnsolvedDrops ==
  ASSUME NEW r \in Requests, NEW to
  PROVE  \E t : Unsolved(r, to) = [req EXCEPT ![r] = At2(Dropped(req[r], t), to)]
  <1> DEFINE t == IF to[1] = "rebuild" THEN req[r].tab ELSE None
  <1>1. Unsolved(r, to) = [req EXCEPT ![r] = At2(Dropped(req[r], t), to)]
    BY DEF Unsolved, Dropped
  <1> HIDE DEF t
  <1> QED
    BY <1>1

\* The tab turns out not to be ready.
LEMMA SolveUnreadyKeeps ==
  ASSUME TabsInv, NEW r \in Requests, SolveUnready(r)
  PROVE  TabsInv'
  <1>1. req[r].pc = "solve" /\ UNCHANGED pool
    BY DEF SolveUnready
  <1>2. IsReq(req[r]) /\ req[r].job \notin Jobs
    BY <1>1, Typed, Free
  <1>3. CASE Goto(r, Legacy) /\ UNCHANGED tab
    <2>1. Legacy[1] = "legacy"
      BY DEF Legacy
    <2> QED
      BY <1>1, <1>2, <1>3, <2>1, GoKeeps
  <1>4. CASE /\ req' = Unsolved(r, AfterEmpty(req[r].pos))
             /\ tab' = Live([tab EXCEPT ![req[r].tab].pend = Less(@)], pool, req')
    <2>1. PICK to : to = AfterEmpty(req[r].pos)
      OBVIOUS
    <2>2. PICK t : Unsolved(r, to) = [req EXCEPT ![r] = At2(Dropped(req[r], t), to)]
      BY UnsolvedDrops
    <2>3. PICK q : q = At2(Dropped(req[r], t), to)
      OBVIOUS
    <2>4. req' = [req EXCEPT ![r] = q]
      BY <1>4, <2>1, <2>2, <2>3
    <2>5. IsReq(q) /\ OffJobs(q)
      BY <1>2, <2>3, DropMoves
    <2>6. PICK f : f = WithLess(tab, req[r].tab)
      OBVIOUS
    <2>7. /\ Tabular(f) /\ \A u \in Tabs : f[u].slot = tab[u].slot
          /\ \A u \in Tabs \ {req[r].tab} : f[u] = tab[u]
          /\ req[r].tab \in Tabs => f[req[r].tab].pend = 0
      BY <2>6, Typed, LessTabular
    <2>8. tab' = Live(f, pool, req')
      BY <1>4, <2>6 DEF WithLess
    <2>9. ASSUME NEW u \in pool, f[u].pend > 0
          PROVE  /\ tab[u].pend > 0 /\ f[u].slot = tab[u].slot
                 /\ Owner(r, u) => q.tab = req[r].tab /\ q.held = req[r].held /\ Reserves(q)
      BY <2>7, <2>9, Typed DEF Owner
    <2> QED
      BY <1>1, <2>4, <2>5, <2>7, <2>8, <2>9, LiveKeeps
  <1> QED
    BY <1>3, <1>4 DEF SolveUnready

\* The page finds a token.
LEMMA SolveOkKeeps ==
  ASSUME TabsInv, NEW r \in Requests, SolveOk(r)
  PROVE  TabsInv'
  <1>1. req[r].pc = "solving" /\ UNCHANGED pool /\ req' = [req EXCEPT ![r].pc = "solved"]
    BY DEF SolveOk
  <1>2. IsReq(req[r]) /\ req[r].job \notin Jobs /\ ~Reserves(req[r])
    BY <1>1, Typed, Free
  <1>3. PICK q : q = AtPc(req[r], "solved")
    OBVIOUS
  <1>4. IsReq(q) /\ q.job = req[r].job
    BY <1>2, <1>3, PutFields
  <1>5. req' = [req EXCEPT ![r] = q] /\ OffJobs(q)
    BY <1>1, <1>2, <1>3, <1>4 DEF AtPc, OffJobs, TabsInv, Asking
  <1>6. tab' = WithLock(tab, req[r].tab, None)
    BY DEF SolveOk, WithLock
  <1>7. Tabular(tab') /\ \A u \in Tabs : tab'[u].pend = tab[u].pend /\ tab'[u].slot = tab[u].slot
    <2>1. /\ Tabular(WithLock(tab, req[r].tab, None))
          /\ \A u \in Tabs : /\ WithLock(tab, req[r].tab, None)[u].pend = tab[u].pend
                             /\ WithLock(tab, req[r].tab, None)[u].slot = tab[u].slot
      BY Typed, FieldTabular
    <2> QED
      BY <1>6, <2>1
  <1>8. pool' \subseteq Tabs /\ pool' = pool
    BY <1>1, Typed
  <1> QED
    BY <1>2, <1>4, <1>5, <1>7, <1>8, MoverKeeps DEF Owner

\* The page finds none.
LEMMA SolveFailsKeeps ==
  ASSUME TabsInv, NEW r \in Requests, SolveFails(r)
  PROVE  TabsInv'
  <1> DEFINE free == [tab EXCEPT ![req[r].tab].lock = None]
  <1>1. req[r].pc = "solving" /\ UNCHANGED pool
    BY DEF SolveFails
  <1>2. req[r].job \notin Jobs /\ ~Reserves(req[r])
    BY <1>1, Free
  <1>3. Tabular(free) /\ \A u \in Tabs : free[u].pend = tab[u].pend /\ free[u].slot = tab[u].slot
    <2>1. /\ Tabular(WithLock(tab, req[r].tab, None))
          /\ \A u \in Tabs : /\ WithLock(tab, req[r].tab, None)[u].pend = tab[u].pend
                             /\ WithLock(tab, req[r].tab, None)[u].slot = tab[u].slot
      BY Typed, FieldTabular
    <2> QED
      BY <2>1 DEF WithLock
  <1> HIDE DEF free
  <1>4. ASSUME NEW to, req' = Unsolved(r, to), NEW f, Tabular(f), tab' = Live(f, pool, req'),
               \A u \in Tabs : f[u].pend = tab[u].pend /\ f[u].slot = tab[u].slot
        PROVE  TabsInv'
    <2>1. PICK t : Unsolved(r, to) = [req EXCEPT ![r] = At2(Dropped(req[r], t), to)]
      BY UnsolvedDrops
    <2>2. PICK q : q = At2(Dropped(req[r], t), to)
      OBVIOUS
    <2>3. req' = [req EXCEPT ![r] = q]
      BY <1>4, <2>1, <2>2
    <2>4. IsReq(q) /\ OffJobs(q)
      BY <1>2, <2>2, DropMoves
    <2>5. ASSUME NEW u \in pool, f[u].pend > 0
          PROVE  /\ tab[u].pend > 0 /\ f[u].slot = tab[u].slot
                 /\ Owner(r, u) => q.tab = req[r].tab /\ q.held = req[r].held /\ Reserves(q)
      BY <1>2, <1>4, <2>5, Typed DEF Owner
    <2> QED
      BY <1>1, <1>4, <2>3, <2>4, <2>5, LiveKeeps
  <1>5. \A s, t : /\ Tabular(Marked(free, s, t))
                  /\ \A u \in Tabs : /\ Marked(free, s, t)[u].pend = tab[u].pend
                                     /\ Marked(free, s, t)[u].slot = tab[u].slot
    <2> TAKE s, t
    <2>1. /\ Tabular(Marked(free, s, t))
          /\ \A u \in Tabs : /\ Marked(free, s, t)[u].pend = free[u].pend
                             /\ Marked(free, s, t)[u].slot = free[u].slot
      BY <1>3, MarkedTabular
    <2> QED
      BY <1>3, <2>1
  <1>6. \E to : /\ req' = Unsolved(r, to)
                /\ \/ tab' = Live(free, pool, req')
                   \/ tab' = Live(Marked(free, req[r].slot, req[r].tab), pool, req')
    BY DEF SolveFails, free
  <1>7. PICK to : /\ req' = Unsolved(r, to)
                  /\ \/ tab' = Live(free, pool, req')
                     \/ tab' = Live(Marked(free, req[r].slot, req[r].tab), pool, req')
    BY <1>6
  <1>8. CASE tab' = Live(free, pool, req')
    BY <1>3, <1>4, <1>7, <1>8
  <1>9. CASE tab' = Live(Marked(free, req[r].slot, req[r].tab), pool, req')
    BY <1>4, <1>5, <1>7, <1>9
  <1> QED
    BY <1>7, <1>8, <1>9

\* The request returns its token.
LEMMA DeliverKeeps ==
  ASSUME TabsInv, NEW r \in Requests, Deliver(r)
  PROVE  TabsInv'
  <1>1. req[r].pc = "solved" /\ UNCHANGED pool /\ tab' = Live(tab, pool, req')
    BY DEF Deliver
  <1>2. ~Reserves(req[r])
    BY <1>1, Free
  <1>3. PICK q : q = [NoReq EXCEPT !.pc = "token"]
    OBVIOUS
  <1>4. IsReq(q) /\ OffJobs(q)
    BY <1>3, EndedMoves
  <1>5. req' = [req EXCEPT ![r] = q]
    BY <1>3 DEF Deliver
  <1> QED
    BY <1>1, <1>2, <1>4, <1>5, Typed, LiveKeeps DEF Owner

\* The request has the tab rebuilt.
LEMMA RebuildKeeps ==
  ASSUME TabsInv, NEW r \in Requests, Rebuild(r)
  PROVE  TabsInv'
  <1>1. req[r].pc = "rebuild" /\ UNCHANGED pool
    BY DEF Rebuild
  <1>2. IsReq(req[r]) /\ ~Reserves(req[r])
    BY <1>1, Typed, Free
  <1>3. PICK j : j = entry'[req[r].slot]
    OBVIOUS
  <1>4. PICK q : q = WaitFor(req[r], "rebuilding", j)
    OBVIOUS
  <1>5. req' = [req EXCEPT ![r] = q]
    BY <1>3, <1>4 DEF Rebuild, WaitFor, TabsInv, Asking
  <1>6. IsReq(q) /\ OffJobs(q)
    <2>1. IsReq(q) /\ q.pc = "rebuilding"
      BY <1>2, <1>4, PutFields
    <2> QED
      BY <2>1 DEF OffJobs
  <1>7. PICK f : f = Marked(tab, req[r].slot, req[r].tab)
    OBVIOUS
  <1>8. Tabular(f) /\ \A u \in Tabs : f[u].pend = tab[u].pend /\ f[u].slot = tab[u].slot
    BY <1>7, Typed, MarkedTabular
  <1>9. tab' = Live(f, pool, req')
    BY <1>7 DEF Rebuild
  <1> QED
    <2>1. ASSUME NEW u \in pool, f[u].pend > 0
          PROVE  /\ tab[u].pend > 0 /\ f[u].slot = tab[u].slot
                 /\ Owner(r, u) => q.tab = req[r].tab /\ q.held = req[r].held /\ Reserves(q)
      BY <1>2, <1>8, <2>1, Typed DEF Owner
    <2> QED
      BY <1>1, <1>5, <1>6, <1>8, <1>9, <2>1, LiveKeeps

----------------------------------------------------------------------------
\* Requests that wait for a task of a rebuild go on; the others stay.
LEMMA JobDoneMoves ==
  ASSUME TabsInv, NEW j \in Jobs, NEW t, NEW to, to \in {"rebuilt", "raised"}, JobDone(j, t, to)
  PROVE  /\ Asking(req')
         /\ \A x \in Requests : Reserves(req[x]) =>
              /\ req'[x].tab = req[x].tab /\ req'[x].held = req[x].held /\ Reserves(req'[x])
  <1> DEFINE step == IF to = "raised" THEN AfterNone("waited") ELSE <<"look", "waited">>
             freed(q) == [q EXCEPT !.job = None]
             given(q) == [q EXCEPT !.job = None, !.tab = t, !.pc = to]
             go(q) == At2(freed(q), step)
  <1>1. \A q : IsReq(q) => IsReq(go(q)) /\ OffJobs(go(q))
    <2> TAKE q
    <2> HAVE IsReq(q)
    <2>1. PICK n : n = freed(q)
      OBVIOUS
    <2>2. IsReq(n) /\ n.job = None
      BY <2>1 DEF IsReq
    <2>3. PICK s : s = step
      OBVIOUS
    <2>4. IsReq(At2(n, s)) /\ At2(n, s).job = n.job
      BY <2>2, MovedFields
    <2>5. OffJobs(At2(n, s))
      BY <2>2, <2>4, ResidentAssumption DEF OffJobs
    <2> HIDE DEF step, freed
    <2> QED
      BY <2>1, <2>3, <2>4, <2>5
  <1>2. \A q : IsReq(q) => IsReq(given(q)) /\ OffJobs(given(q))
    <2> TAKE q
    <2> HAVE IsReq(q)
    <2>1. PICK A, B, C, D, E, F : q \in [pc : A, pos : B, tab : C, slot : D, held : E, job : F]
      BY ReqRecord
    <2>2. PICK n : n = [q EXCEPT !.job = None, !.tab = t, !.pc = to]
      OBVIOUS
    <2>3. n.job = None
      BY <2>1, <2>2
    <2>4. IsReq(n)
      BY <2>1, <2>2 DEF IsReq
    <2>5. OffJobs(n)
      BY <2>3, ResidentAssumption DEF OffJobs
    <2> QED
      BY <2>2, <2>4, <2>5
  <1>3. req' = [x \in Requests |-> IF req[x].job # j THEN req[x]
                                   ELSE IF req[x].pc = "awaiting" THEN go(req[x]) ELSE given(req[x])]
    BY DEF JobDone
  <1> HIDE DEF go, given
  <1>4. \A x \in Requests : req'[x] = IF req[x].job # j THEN req[x]
                                      ELSE IF req[x].pc = "awaiting" THEN go(req[x]) ELSE given(req[x])
    BY <1>3
  <1>5. req' = [x \in Requests |-> req'[x]]
    BY <1>3
  <1>6. \A x \in Requests : IsReq(req[x]) /\ OffJobs(req[x])
    BY Typed
  <1>7. Asking(req')
    BY <1>1, <1>2, <1>4, <1>5, <1>6 DEF Asking
  <1>8. \A x \in Requests : Reserves(req[x]) => req[x].job # j
    BY <1>6 DEF OffJobs, Reserves
  <1> QED
    BY <1>4, <1>7, <1>8

\* The steps of a rebuild task.
LEMMA JobsKeep ==
  ASSUME TabsInv, NEW j \in Jobs, JobNext(j)
  PROVE  TabsInv'
  <1>1. CASE JobStarts(j)
    <2>1. UNCHANGED req
      BY <1>1 DEF JobStarts
    <2>2. PICK S : /\ pool' = pool \ S
                   /\ tab' = Live([t \in Tabs |-> [tab[t] EXCEPT !.alive = @ /\ t \notin S]], pool', req)
      BY <1>1 DEF JobStarts
    <2> QED
      BY <2>1, <2>2, NobodyMoves, LeaveKeeps
  <1>2. CASE JobCloses(j)
    <2>1. UNCHANGED <<pool, tab, req>>
      BY <1>2 DEF JobCloses, tabVars
    <2> QED
      BY <2>1, NobodyMoves, StayKeeps
  <1>3. CASE JobBuilds(j)
    <2>1. PICK t \in Unused(FreeTabs) :
             /\ pool' = pool \cup {t}
             /\ tab' = [tab EXCEPT ![t] = NewTab(job[j].slot, job[j].token, ~doomed /\ browser = "up", 0)]
             /\ JobDone(j, t, "rebuilt")
      BY <1>3 DEF JobBuilds
    <2>2. PICK a \in BOOLEAN : tab' = [tab EXCEPT ![t] = NewTab(job[j].slot, job[j].token, a, 0)]
      BY <2>1
    <2>3. t \in Tabs /\ t \notin pool
      BY FreeTabsFit
    <2>4. /\ Asking(req')
          /\ \A x \in Requests : Reserves(req[x]) =>
                /\ req'[x].tab = req[x].tab /\ req'[x].held = req[x].held /\ Reserves(req'[x])
      BY <2>1, JobDoneMoves
    <2> QED
      BY <2>1, <2>2, <2>3, <2>4, NewTabKeeps
  <1>4. CASE JobFails(j)
    <2>1. UNCHANGED <<pool, tab>>
      BY <1>4 DEF JobFails, tabVars
    <2>2. JobDone(j, None, "rebuilt") \/ JobDone(j, None, "raised")
      BY <1>4 DEF JobFails
    <2>3. /\ Asking(req')
          /\ \A x \in Requests : Reserves(req[x]) =>
                /\ req'[x].tab = req[x].tab /\ req'[x].held = req[x].held /\ Reserves(req'[x])
      BY <2>2, JobDoneMoves
    <2> QED
      BY <2>1, <2>3, StayKeeps
  <1> QED
    BY <1>1, <1>2, <1>3, <1>4 DEF JobNext

\* A tab object nobody knows of any more cannot be reserved.
LEMMA TakeOtherKeeps ==
  ASSUME TabsInv, NEW r \in Requests, NEW t, t \notin Tabs, UNCHANGED pool,
         req[r].job \notin Jobs, ~Reserves(req[r]), Take(r, t)
  PROVE  TabsInv'
  <1>1. PICK n : n = WithBooks(req[r], t, tab[t].slot, tab[t].slot)
    OBVIOUS
  <1>2. PICK to : to = WithTab(req[r].pos)
    OBVIOUS
  <1>3. PICK q : q = At2(n, to)
    OBVIOUS
  <1>4. req' = [req EXCEPT ![r] = q]
    BY <1>1, <1>2, <1>3 DEF Take, WithBooks
  <1>5. IsReq(req[r])
    BY Typed
  <1>6. IsReq(n) /\ n.job = req[r].job
    BY <1>1, <1>5, TakenFields
  <1>7. IsReq(q) /\ q.job = n.job
    BY <1>3, <1>6, MovedFields
  <1>8. UNCHANGED tab
    BY DEF Take, TabsInv, Tabular
  <1> QED
    BY <1>4, <1>6, <1>7, <1>8, FreeMoves, StayKeeps

\* The request finds out how its rebuild ended.
LEMMA RebuiltKeeps ==
  ASSUME TabsInv, NEW r \in Requests, Rebuilt(r)
  PROVE  TabsInv'
  <1>1. req[r].pc = "rebuilt" /\ UNCHANGED pool
    BY DEF Rebuilt
  <1>2. req[r].job \notin Jobs /\ ~Reserves(req[r])
    BY <1>1, Free
  <1>3. ASSUME NEW to, TakeNone(r, to) PROVE TabsInv'
    BY <1>1, <1>2, <1>3, TakeNoneKeeps
  <1>4. ASSUME NEW t, ~Busy(t), Take(r, t) PROVE TabsInv'
    <2>1. CASE t \in Tabs
      <3>1. tab[t].pend = 0
        BY <1>4, <2>1, Typed DEF Busy
      <3> QED
        BY <1>1, <1>2, <1>4, <2>1, <3>1, TakeKeeps
    <2>2. CASE t \notin Tabs
      BY <1>1, <1>2, <1>4, <2>2, TakeOtherKeeps
    <2> QED
      BY <2>1, <2>2
  <1>5. PICK t : IF req[r].tab = None \/ Busy(t) THEN TakeNone(r, AfterNone(req[r].pos)) ELSE Take(r, t)
    BY DEF Rebuilt
  <1> QED
    BY <1>3, <1>4, <1>5

----------------------------------------------------------------------------
\* The legacy way ends.
LEMMA LegacyEndsKeeps ==
  ASSUME TabsInv, NEW r \in Requests, LegacyEnds(r)
  PROVE  TabsInv'
  <1>1. PICK how : how \in {"token", "nothing", "raised"} /\ Return(r, how)
    BY DEF LegacyEnds
  <1>2. how \in Ended /\ UNCHANGED pool
    BY <1>1 DEF Ended, LegacyEnds
  <1> QED
    BY <1>1, <1>2, EndKeeps

\* The client of a request goes away.
LEMMA DisconnectKeeps ==
  ASSUME TabsInv, NEW r \in Requests, Disconnect(r)
  PROVE  TabsInv'
  <1>1. PICK b : b = Released(req[r].held)
    OBVIOUS
  <1>2. Tabular(b) /\ \A t \in Tabs : b[t].slot = tab[t].slot
    BY <1>1, Typed, ReleasedTabular
  <1> DEFINE f == [t \in Tabs |-> [b[t] EXCEPT !.lock = IF @ = r THEN None ELSE @]]
  <1>3. Tabular(f) /\ \A t \in Tabs : f[t].pend = b[t].pend /\ f[t].slot = b[t].slot
    BY <1>2 DEF Tabular, IsTab
  <1>4. tab' = Live(f, pool, req') /\ UNCHANGED pool
    BY <1>1 DEF Disconnect
  <1> HIDE DEF f
  <1>5. PICK q : q = [NoReq EXCEPT !.pc = "cancelled"]
    OBVIOUS
  <1>6. IsReq(q) /\ OffJobs(q)
    BY <1>5, EndedMoves
  <1>7. req' = [req EXCEPT ![r] = q]
    BY <1>5 DEF Disconnect
  <1>8. \A t \in pool : f[t].slot = tab[t].slot /\ f[t].pend = Released(req[r].held)[t].pend
    BY <1>1, <1>2, <1>3, Typed
  <1> QED
    BY <1>3, <1>4, <1>6, <1>7, <1>8, ReleaseKeeps

\* The browser crashes, tabs are reaped or reclaimed, errors are reported.
LEMMA DisturbancesKeep ==
  ASSUME TabsInv,
         \/ Crash \/ ReapPicks \/ ReapCloses \/ Reclaim
         \/ ReportFresh \/ ReportReloads \/ ReportRebuilds
  PROVE  TabsInv'
  <1>0. \A s, t : /\ Tabular(Marked(tab, s, t))
                  /\ \A u \in Tabs : /\ Marked(tab, s, t)[u].pend = tab[u].pend
                                     /\ Marked(tab, s, t)[u].slot = tab[u].slot
    BY Typed, MarkedTabular
  <1>1. CASE Crash
    <2>1. UNCHANGED <<pool, req>> /\ tab' = [t \in Tabs |-> [tab[t] EXCEPT !.alive = FALSE]]
      BY <1>1 DEF Crash
    <2>2. Tabular(tab') /\ \A t \in Tabs : tab'[t].pend = tab[t].pend /\ tab'[t].slot = tab[t].slot
      BY <2>1, DarkTabular
    <2> QED
      BY <2>1, <2>2, PaintKeeps
  <1>2. CASE ReapPicks
    <2>1. UNCHANGED <<pool, tab, req>>
      BY <1>2 DEF ReapPicks, tabVars
    <2> QED
      BY <2>1, NobodyMoves, StayKeeps
  <1>3. CASE ReapCloses
    <2>1. UNCHANGED req
      BY <1>3 DEF ReapCloses
    <2>2. PICK S : /\ pool' = pool \ S
                   /\ tab' = Live([t \in Tabs |-> [tab[t] EXCEPT !.alive = @ /\ t \notin S]], pool', req)
      BY <1>3 DEF ReapCloses, Close
    <2> QED
      BY <2>1, <2>2, NobodyMoves, LeaveKeeps
  <1>4. CASE Reclaim
    <2>1. CancelTasks(req, None)
      BY <1>4 DEF Reclaim
    <2>2. PICK S : /\ pool' = pool \ S
                   /\ tab' = Live([t \in Tabs |-> [tab[t] EXCEPT !.alive = @ /\ t \notin S]], pool', req')
      BY <1>4 DEF Reclaim
    <2>3. Asking(req) /\ \A x \in Requests : Reserves(req[x]) => req[x].pc \notin {"rebuilding", "awaiting", "gated"}
      BY DEF TabsInv, Reserves
    <2>4. /\ Asking(req')
          /\ \A x \in Requests : Reserves(req[x]) =>
                /\ req'[x].tab = req[x].tab /\ req'[x].held = req[x].held /\ Reserves(req'[x])
      BY <2>1, <2>3, CancelTasksMoves
    <2> QED
      BY <2>2, <2>4, LeaveKeeps
  <1>5. CASE ReportFresh
    <2>1. UNCHANGED <<pool, req>> /\ \E s, t : tab' = Marked(tab, s, t)
      BY <1>5 DEF ReportFresh
    <2> QED
      BY <1>0, <2>1, PaintKeeps
  <1>6. CASE ReportReloads
    <2>1. UNCHANGED <<pool, req>> /\ \E t, v : tab' = WithReady(tab, t, v)
      BY <1>6 DEF ReportReloads, WithReady
    <2>2. PICK t, v : tab' = WithReady(tab, t, v)
      BY <2>1
    <2>3. /\ Tabular(WithReady(tab, t, v))
          /\ \A u \in Tabs : /\ WithReady(tab, t, v)[u].pend = tab[u].pend
                             /\ WithReady(tab, t, v)[u].slot = tab[u].slot
      BY Typed, FieldTabular
    <2> QED
      BY <2>1, <2>2, <2>3, PaintKeeps
  <1>7. CASE ReportRebuilds
    <2>1. UNCHANGED <<pool, req>> /\ \E s, t : tab' = Marked(tab, s, t)
      BY <1>7 DEF ReportRebuilds
    <2> QED
      BY <1>0, <2>1, PaintKeeps
  <1> QED
    BY <1>1, <1>2, <1>3, <1>4, <1>5, <1>6, <1>7

----------------------------------------------------------------------------
\* The invariant holds initially ...
LEMMA TabsInit == ResidentInit => TabsInv
  <1> SUFFICES ASSUME ResidentInit PROVE TabsInv
    OBVIOUS
  <1>1. Asking(req)
    <2>1. IsReq(NoReq) /\ NoReq.job = None
      BY DEF IsReq, NoReq
    <2> QED
      BY <2>1, ResidentAssumption DEF ResidentInit, Asking, OffJobs
  <1>2. IsTab(NoTab) /\ NoTab.pend = 0
    BY DEF IsTab, NoTab
  <1>3. CASE pool = {} /\ tab = [u \in Tabs |-> NoTab]
    BY <1>1, <1>2, <1>3 DEF TabsInv, Tabular, Owned
  <1>4. CASE /\ pool = {CHOOSE t \in Tabs : TRUE}
             /\ \E k \in Tokens \cup {None} :
                   tab = [t \in Tabs |-> IF t \in pool THEN NewTab(CHOOSE s \in Slots : TRUE, k, TRUE, 0)
                                                       ELSE NoTab]
    <2>1. PICK k : tab = [t \in Tabs |-> IF t \in pool THEN NewTab(CHOOSE s \in Slots : TRUE, k, TRUE, 0)
                                                        ELSE NoTab]
      BY <1>4
    <2> DEFINE first == CHOOSE s \in Slots : TRUE
               n == NewTab(first, k, TRUE, 0)
    <2>2. tab = [t \in Tabs |-> IF t \in pool THEN n ELSE NoTab]
      BY <2>1
    <2> HIDE DEF first
    <2>3. IsTab(n) /\ n.pend = 0
      BY DEF IsTab, NewTab
    <2> HIDE DEF n
    <2>4. pool \subseteq Tabs
      BY <1>4, ResidentAssumption
    <2> QED
      BY <1>1, <1>2, <2>2, <2>3, <2>4 DEF TabsInv, Tabular, Owned
  <1> QED
    BY <1>3, <1>4 DEF ResidentInit

\* ... and every step keeps it.
LEMMA TabsStep == TabsInv /\ [ResidentNext]_residentVars => TabsInv'
  <1> SUFFICES ASSUME TabsInv, [ResidentNext]_residentVars PROVE TabsInv'
    OBVIOUS
  <1>1. ASSUME NEW r \in Requests, Start(r) \/ RequestNext(r) PROVE TabsInv'
    BY <1>1, MovesKeep, LooksKeep, EvictsKeep, AwaitsKeep, ShutdownsKeep, BuildEndsKeeps,
       RecoverEndsKeeps, BindKeeps, SolveBeginsKeeps, SolveUnreadyKeeps, SolveOkKeeps,
       SolveFailsKeeps, DeliverKeeps, RebuildKeeps, RebuiltKeeps, LegacyEndsKeeps
       DEF RequestNext
  <1>2. ASSUME NEW j \in Jobs, JobNext(j) PROVE TabsInv'
    BY <1>2, JobsKeep
  <1>3. CASE RestartNext \/ ReapCloses
    BY <1>3, RestartKeeps, ShutdownsKeep, DisturbancesKeep DEF RestartNext
  <1>4. CASE Disturbance
    BY <1>4, ShutdownsKeep, DisturbancesKeep, DisconnectKeeps DEF Disturbance
  <1>5. CASE UNCHANGED residentVars
    <2>1. UNCHANGED <<pool, tab, req>>
      BY <1>5 DEF residentVars, tabVars
    <2> QED
      BY <2>1, NobodyMoves, StayKeeps
  <1> QED
    BY <1>1, <1>2, <1>3, <1>4, <1>5 DEF ResidentNext

\* However requests, rebuilds, restarts, evictions and cancellations interleave,
\* a reservation is on the books of one request that will give it back, and no
\* tab has two.
THEOREM TabsHold == ResidentSpec => []TabsInv
  <1>1. ResidentInit => TabsInv
    BY TabsInit
  <1>2. TabsInv /\ [ResidentNext]_residentVars => TabsInv'
    BY TabsStep
  <1> QED
    BY <1>1, <1>2, PTL DEF ResidentSpec

\* A tab never looks reserved on account of nobody (ReservationsHaveOwners of
\* the run), for every number of requests, tabs, slots and rebuild tasks.
THEOREM ReservationsHaveOwnersHolds == ResidentSpec => []ReservationsHaveOwners
  <1>1. TabsInv => ReservationsHaveOwners
    BY DEF TabsInv, Owned, Owner, Reserves, ReservationsHaveOwners
  <1> QED
    BY <1>1, TabsHold, PTL
=============================================================================
