---------------------------- MODULE MCSubmission -----------------------------
(***************************************************************************)
(* A call of the upstream, and the tabs that captcha tokens come from.     *)
(* They share no state: a behaviour is of one of them, and the other stays *)
(* where it begins.  The call: every method under every way to solve       *)
(* captchas.  The tabs: two requests, of one account or of none, share the *)
(* tab of one browser; one thing at most disturbs them.                    *)
(***************************************************************************)
EXTENDS FlowSubmission, ResidentTabs

VARIABLE part  \* the component that moves

CONSTANTS r1, r2
MCTokenOf == [r \in Requests |-> IF r = r1 THEN "a" ELSE None]

\* A call that has ended.
Answered ==
    /\ method = "create_project" /\ captcha = "api"
    /\ pc = "done" /\ result = "media" /\ stage = 1
    /\ round = 0 /\ budget = MaxRetries /\ try = 0
    /\ warmed = FALSE /\ entity = "none" /\ open = 0
    /\ fault = "none" /\ posts = 1 /\ taken = 1

\* No request has come yet, and there is no browser.
NoTabs == ResidentInit /\ browser = "none"

MCInit ==
    /\ part \in {"call", "tabs"}
    /\ IF part = "call" THEN Init /\ NoTabs ELSE Answered /\ ResidentInit
MCNext ==
    /\ \/ part = "call" /\ Next /\ UNCHANGED residentVars
       \/ part = "tabs" /\ ResidentNext /\ UNCHANGED vars
    /\ UNCHANGED part
MCFairSpec ==
    /\ MCInit /\ [][MCNext]_<<vars, residentVars, part>>
    /\ WF_vars(Step) /\ ResidentFairness
=============================================================================
