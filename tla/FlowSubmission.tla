--------------------------- MODULE FlowSubmission ---------------------------
(***************************************************************************)
(* One call of a method of FlowClient (src/services/flow_client.py) that   *)
(* makes the upstream do work, and the loops that post the same work again.*)
(*                                                                         *)
(*   image     rounds with a fresh captcha token; in a round, quick        *)
(*             repeats after a timeout; under each post through curl, a    *)
(*             second one through urllib; or, with captcha "browser", a    *)
(*             page of the browser posts and repeats                       *)
(*   video     the six methods of VideoMethods: one post per round         *)
(*   omni      an agent that is prompted, and asked to approve             *)
(*   project, upload                                                       *)
(*             control plane: no captcha; an upload without a project has  *)
(*             an older endpoint to fall back to                           *)
(*                                                                         *)
(* Captchas: "browser" and "remote" come with a handle of the browser that *)
(* solved them, and a remote session stays open until it is told that the  *)
(* request has ended; "api" is a task of a paid service; "inside" is any   *)
(* other component of this process.  The launch gates of the source always *)
(* open and are left out.                                                  *)
(***************************************************************************)
EXTENDS Integers

CONSTANTS Methods,            \* the methods called
          Captchas,           \* config.captcha_method
          MaxRetries,         \* config.flow_max_retries
          EvaluationRetries,  \* config.browser_captcha_generation_retries
          QuickRetries,       \* config.flow_image_timeout_retry_count
          PageTries,          \* config.browser_captcha_max_retries, at least 3
          TaskTries,          \* len(YESCAPTCHA_SLOT_BACKOFF_SECONDS)
          TaskPolls           \* 40, polls of a captcha task

TextVideo == "generate_video_text"
ReferenceVideo == "generate_video_reference_images"
StartEndVideo == "generate_video_start_end"
StartVideo == "generate_video_start_image"
ExtendVideo == "generate_video_extend"
UpsampleVideo == "upsample_video"
VideoMethods == {TextVideo, ReferenceVideo, StartEndVideo, StartVideo,
                 ExtendVideo, UpsampleVideo}
ControlMethods == {"create_project", "upload_image", "upload_to_project"}

ASSUME MethodsAssumption ==
    /\ Methods \subseteq VideoMethods \cup ControlMethods
                         \cup {"generate_image", "upsample_image", "omni"}
    /\ Captchas \subseteq {"browser", "remote", "api", "inside"}
ASSUME BudgetAssumption ==
    /\ {MaxRetries, PageTries, TaskTries, TaskPolls} \subseteq Nat \ {0}
    /\ {EvaluationRetries, QuickRetries} \subseteq Nat

VARIABLES method,  \* the method called, and
          captcha, \* how this installation solves captchas
          pc,      \* where the call is
          stage,   \* 1, or 2: omni asks to approve, upload uses the old endpoint
          round,   \* retry_attempt
          budget,  \* max_retries
          try,     \* the repeat within a round
          warmed,  \* video_context_warmed
          entity,  \* omni: "none", "made" or "filled" with all references
          open,    \* browser sessions not yet told that the request ended
          fault,   \* the last error
          posts,   \* history: requests sent
          taken,   \* history: requests the upstream took on
          result   \* "none", "media", "error"; "left" or "cut" by a cancellation

vars == <<method, captcha, pc, stage, round, budget, try, warmed, entity, open,
          fault, posts, taken, result>>
call == <<method, captcha>>
omniVars == <<warmed, entity>>   \* what the rounds of a call share

NeedsCaptcha == method \notin ControlMethods
Direct == method \in {"generate_image"} \cup ControlMethods   \* urllib may follow
InPage == captcha = "browser" /\ method \in {"generate_image", "omni"}

\* An error status the client retries (403, 429, PUBLIC_ERROR_*), one it does
\* not, and one that names a failed captcha evaluation, which only the text of
\* a streamed answer keeps; no connection; two that leave open what the
\* upstream did; an answer without the expected content.
Statuses == {"transient", "refusal"} \cup IF method = "omni" THEN {"evaluation"} ELSE {}
Doubtful == {"timeout", "reset"}
Faults == Statuses \cup Doubtful \cup {"unreachable"}

StartRound == IF NeedsCaptcha THEN "captcha" ELSE "post"

Init ==
    /\ method \in Methods /\ captcha \in Captchas
    /\ pc = StartRound /\ stage = 1
    /\ round = 0 /\ budget = MaxRetries /\ try = 0
    /\ warmed = FALSE /\ entity = "none" /\ open = 0
    /\ fault = "none" /\ result = "none"
    /\ posts = 0 /\ taken = 0

----------------------------------------------------------------------------
End(how) == pc' = "done" /\ result' = how

\* _resolve_generation_retry_budget: a failed evaluation allows more rounds.
Budget(f) ==
    IF f = "evaluation" /\ EvaluationRetries > budget THEN EvaluationRetries ELSE budget

\* _notify_browser_captcha_error and _notify_browser_captcha_request_finished:
\* every browser of the round is told; a report that fails is not repeated.
TellBrowsers == open' = 0

\* _handle_retryable_generation_error: another round with another captcha
\* token, unless this was the last one.  Leaving the try reports the end of
\* the request to the browsers of the round.
NextRound(retryable, f) ==
    /\ TellBrowsers /\ stage' = 1
    /\ IF retryable /\ round < Budget(f) - 1
       THEN /\ pc' = StartRound /\ round' = round + 1 /\ try' = 0
            /\ budget' = Budget(f) /\ UNCHANGED result
       ELSE End("error") /\ UNCHANGED <<round, try, budget>>

\* Where a round goes with its token: image and video await something between
\* the captcha and the try that reports the end of the request.
WithToken ==
    IF stage = 2 THEN "post"
    ELSE IF method = "omni" THEN "attach"
    ELSE IF method = "generate_image" \/ (method \in VideoMethods /\ ~warmed) THEN "prepare"
    ELSE "post"

Opened == IF captcha = "remote" THEN open + 1 ELSE open

CaptchaSolved ==
    /\ pc = "captcha" /\ captcha # "api"
    /\ pc' = WithToken /\ open' = Opened
    /\ UNCHANGED <<call, stage, round, budget, try, omniVars, fault, posts, taken, result>>

\* Mutant of CaptchaMissing: asked for again without using up a round.
CaptchaMissingUncounted ==
    /\ pc = "captcha"
    /\ try' = 1 - try
    /\ UNCHANGED <<call, pc, stage, round, budget, omniVars, open, fault, posts, taken, result>>

\* No token: that alone is retried like a transient error; without one for
\* the approval the round fails.
CaptchaMissing ==
    /\ pc \in {"captcha", "noToken"}
    /\ IF stage = 1
       THEN NextRound(TRUE, "none") /\ UNCHANGED fault
       ELSE /\ pc' = "retry" /\ fault' = "transient"
            /\ UNCHANGED <<stage, round, budget, try, open, result>>
    /\ UNCHANGED <<call, omniVars, posts, taken>>

\* A task of the captcha service: created, again while the service has no slot
\* free, and polled; try counts within each of the two.  Any error ends both.
TaskRefused ==
    /\ pc = "captcha" /\ captcha = "api" /\ try < TaskTries - 1
    /\ try' = try + 1
    /\ UNCHANGED <<call, pc, stage, round, budget, omniVars, open, fault, posts, taken, result>>

TaskCreated ==
    /\ pc = "captcha" /\ captcha = "api"
    /\ pc' = "task" /\ try' = 0
    /\ UNCHANGED <<call, stage, round, budget, omniVars, open, fault, posts, taken, result>>

TaskPending ==
    /\ pc = "task" /\ try < TaskPolls - 1
    /\ try' = try + 1
    /\ UNCHANGED <<call, pc, stage, round, budget, omniVars, open, fault, posts, taken, result>>

TaskFails ==
    /\ pc = "task" \/ (pc = "captcha" /\ captcha = "api")
    /\ pc' = "noToken" /\ try' = 0
    /\ UNCHANGED <<call, stage, round, budget, omniVars, open, fault, posts, taken, result>>

TaskReady ==
    /\ pc = "task"
    /\ pc' = WithToken /\ try' = 0
    /\ UNCHANGED <<call, stage, round, budget, omniVars, open, fault, posts, taken, result>>

\* The progress of an image is reported, a video's page is warmed up once;
\* what fails there is ignored.
Prepare ==
    /\ pc = "prepare"
    /\ pc' = "post"
    /\ warmed' = (warmed \/ method \in VideoMethods)
    /\ UNCHANGED <<call, stage, round, budget, try, entity, open, fault, posts, taken, result>>

\* omni: the entity is made and the references are copied into it, once: an
\* entity that exists is taken to be filled.
AttachReferences ==
    /\ pc = "attach"
    /\ \/ /\ entity' = IF entity = "none" THEN "filled" ELSE entity
          /\ warmed' = TRUE /\ pc' = "agent"
          /\ UNCHANGED fault
       \/ /\ entity = "none"
          /\ \E f \in Faults \cup {"invalid"}, made \in {"none", "made"} :
                fault' = f /\ entity' = made
          /\ pc' = "retry"
          /\ UNCHANGED warmed
    /\ UNCHANGED <<call, stage, round, budget, try, open, posts, taken, result>>

\* ... and the session of the agent is looked up, which may fail or find none.
FindAgent ==
    /\ pc = "agent"
    /\ \/ pc' = "post" /\ UNCHANGED fault
       \/ pc' = "retry" /\ fault' \in Faults \cup {"invalid"}
    /\ UNCHANGED <<call, stage, round, budget, try, omniVars, open, posts, taken, result>>

----------------------------------------------------------------------------
\* A post that is answered with media; the end of the request is reported.
PostAnswered ==
    /\ pc \in {"post", "urllib"}
    /\ posts' = posts + 1 /\ taken' = taken + 1
    /\ End("media") /\ TellBrowsers
    /\ UNCHANGED <<call, stage, round, budget, try, omniVars, fault>>

\* Where an error of a post is handled: an upload that belongs to no project
\* turns to the old endpoint.
AfterError == IF method = "upload_image" /\ stage = 1 THEN "fallback" ELSE "retry"

\* An answer without what was asked for.  The agent is asked to approve, once,
\* with a captcha token of its own.
PostUseless ==
    /\ pc \in {"post", "urllib"}
    /\ method \in ControlMethods \cup {"omni"}
    /\ posts' = posts + 1 /\ taken' = taken + 1
    /\ IF method = "omni" /\ stage = 1
       THEN pc' = "captcha" /\ stage' = 2 /\ try' = 0 /\ UNCHANGED fault
       ELSE pc' = AfterError /\ fault' = "invalid" /\ UNCHANGED <<stage, try>>
    /\ UNCHANGED <<call, round, budget, omniVars, open, result>>

\* A post that fails with f; the upstream may have taken the work on.
PostFails(f, next) ==
    /\ posts' = posts + 1
    /\ \E took \in IF f \in Doubtful THEN {0, 1} ELSE {0} : taken' = taken + took
    /\ fault' = f
    /\ pc' = next

\* An error status goes straight to the round's error handling ...
PostRefused ==
    /\ pc = "post"
    /\ \E f \in Statuses : PostFails(f, AfterError)
    /\ UNCHANGED <<call, stage, round, budget, try, omniVars, open, result>>

\* ... a broken connection to whatever is tried first.
PostBroken ==
    /\ pc = "post"
    /\ \E f \in Faults \ Statuses :
          PostFails(f, IF InPage THEN "page" ELSE IF Direct THEN "urllib" ELSE "retry")
    /\ UNCHANGED <<call, stage, round, budget, try, omniVars, open, result>>

\* The error of a failed fallback names both failures; what the caller looks
\* for is found in either of them.
Worse(f, g) ==
    IF "timeout" \in {f, g} THEN "timeout"
    ELSE IF "reset" \in {f, g} THEN "reset"
    ELSE IF "transient" \in {f, g} THEN "transient"
    ELSE "unreachable"

\* The same body once more through urllib.
UrllibFails ==
    /\ pc = "urllib"
    /\ \E f \in Faults :
          /\ posts' = posts + 1
          /\ \E took \in IF f \in Doubtful THEN {0, 1} ELSE {0} : taken' = taken + took
          /\ fault' = Worse(fault, f)
    /\ pc' = IF method = "generate_image" THEN "quick" ELSE AfterError
    /\ UNCHANGED <<call, stage, round, budget, try, omniVars, open, result>>

\* upload_image: after any error, once more to the old endpoint.
UploadFallsBack ==
    /\ pc = "fallback"
    /\ pc' = "post" /\ stage' = 2
    /\ UNCHANGED <<call, round, budget, try, omniVars, open, fault, posts, taken, result>>

\* Mutant of QuickRepeat: the repeats of a round are not counted.
QuickRepeatForever ==
    /\ pc = "quick"
    /\ fault = "timeout"
    /\ pc' = "post"
    /\ UNCHANGED <<call, stage, round, budget, try, omniVars, open, fault, posts, taken, result>>

\* _make_image_generation_request: after a timeout, at once and with the same
\* captcha token.
QuickRepeat ==
    /\ pc = "quick"
    /\ fault = "timeout" /\ try < QuickRetries
    /\ try' = try + 1
    /\ pc' = "post"
    /\ UNCHANGED <<call, stage, round, budget, omniVars, open, fault, posts, taken, result>>

QuickEnough ==
    /\ pc = "quick"
    /\ fault # "timeout" \/ try = QuickRetries
    /\ pc' = "retry"
    /\ UNCHANGED <<call, stage, round, budget, try, omniVars, open, fault, posts, taken, result>>

\* The page posts again after any exception; its last error says nothing of
\* the network, so there is no other round.
PageRepeats ==
    /\ pc = "page"
    /\ IF try < PageTries - 1
       THEN try' = try + 1 /\ pc' = "post" /\ UNCHANGED fault
       ELSE fault' = "invalid" /\ pc' = "retry" /\ UNCHANGED try
    /\ UNCHANGED <<call, stage, round, budget, omniVars, open, posts, taken, result>>

\* Mutant of RetryRound: another round does not report the end of the last.
RetryRoundUnreported ==
    /\ pc = "retry"
    /\ \/ fault = "transient" /\ round < budget - 1
          /\ pc' = StartRound /\ round' = round + 1 /\ try' = 0 /\ stage' = 1
          /\ UNCHANGED <<budget, open, result>>
       \/ NextRound(FALSE, fault)
    /\ UNCHANGED <<call, omniVars, fault, posts, taken>>

\* _get_retry_reason: whether the text of the error is one to retry.  Texts of
\* an unreachable upstream may or may not be.
RetryRound ==
    /\ pc = "retry"
    /\ \E retryable \in IF fault \in {"refusal", "invalid"} THEN {FALSE}
                        ELSE IF fault = "unreachable" THEN BOOLEAN ELSE {TRUE} :
          NextRound(retryable, fault)
    /\ UNCHANGED <<call, omniVars, fault, posts, taken>>

\* The client is gone: inside the try the end of the request is reported on
\* the way out, between the captcha and the try nothing is.
Cancel ==
    /\ pc # "done"
    /\ IF pc = "prepare" THEN End("cut") /\ UNCHANGED open
                         ELSE End("left") /\ TellBrowsers
    /\ UNCHANGED <<call, stage, round, budget, try, omniVars, fault, posts, taken>>

Finished == pc = "done" /\ UNCHANGED vars

Step ==
    \/ CaptchaSolved \/ CaptchaMissing
    \/ TaskRefused \/ TaskCreated \/ TaskPending \/ TaskReady \/ TaskFails
    \/ Prepare \/ AttachReferences \/ FindAgent
    \/ PostAnswered \/ PostUseless \/ PostRefused \/ PostBroken
    \/ UrllibFails \/ UploadFallsBack \/ QuickRepeat \/ QuickEnough \/ PageRepeats
    \/ RetryRound

Next == Step \/ Cancel \/ Finished

\* Every await of the call has a timeout of its own; nobody has to cancel.
Spec == Init /\ [][Next]_vars /\ WF_vars(Step)

----------------------------------------------------------------------------
\* How often one round posts.
PostsPerRound ==
    IF InPage THEN IF method = "omni" THEN 2 * PageTries ELSE PageTries
    ELSE IF method = "generate_image" THEN 2 * (QuickRetries + 1)
    ELSE IF method = "upload_image" THEN 4
    ELSE IF method \in ControlMethods \cup {"omni"} THEN 2
    ELSE 1

\* The nested loops multiply, and no more than that: a call posts the work at
\* most as often as its budgets allow, a video once per token; only a failed
\* evaluation allows more rounds than configured.
PostsWithinBudget ==
    /\ posts <= (round + 1) * PostsPerRound
    /\ round < MaxRetries \/ (method = "omni" /\ round < EvaluationRetries)

\* The remote browsers of a call: never more than those of one round, and all
\* told of its end, unless the client left between the captcha and the try.
SessionsAreFinished ==
    /\ open <= IF method = "omni" THEN 2 ELSE 1
    /\ pc = "done" /\ result # "cut" => open = 0

\* Every call ends.
CallEnds == <>(pc = "done")
=============================================================================
