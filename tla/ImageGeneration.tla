--------------------------- MODULE ImageGeneration --------------------------
(***************************************************************************)
(* _handle_idempotent_image_with_quota with _handle_image_generation       *)
(* (src/services/generation_handler.py): one synchronous upstream call     *)
(* between freezing a unit and charging it.                                *)
(***************************************************************************)
EXTENDS QuotaHandler

----------------------------------------------------------------------------
\* The upstream answers with media.
Delivered(r) == Taken(r, "settle")

\* except asyncio.CancelledError: the owner declares its task unknown,
\* whatever the task is by now; an upstream call may have been taken on.
CancelInTry(r) ==
    /\ "cancel" \in scenario
    /\ req[r].pc \in InTry
    /\ IF IsOwner(r) THEN SetStatus(KeyOf[r], "unknown") ELSE UNCHANGED status
    /\ \E took \in IF req[r].pc = "submit" THEN {0, 1} ELSE {0} : TakenOn(KeyOf[r], took)
    /\ LeaveWith(r, "cancelled")
    /\ UNCHANGED <<ledgerVars, cached, forgotten>>

\* GeneratorExit at a chunk yielded before the call or after its end.
Abandon(r) ==
    /\ "abandon" \in scenario
    /\ req[r].pc = "submit"
    /\ \E took \in {0, 1} : TakenOn(KeyOf[r], took)
    /\ LeaveWith(r, "abandoned")
    /\ UNCHANGED <<ledgerVars, status, cached, forgotten>>

ClientLeaves(r) ==
    /\ \/ CancelBeforeTry(r)
       \/ CancelInTry(r)
       \/ CancelAfterClaim(r)
       \/ CancelInExcept(r)
       \/ Abandon(r)
    /\ UNCHANGED scenario

----------------------------------------------------------------------------
\* The next step of a request's own coroutine.
Step(r) ==
    /\ \/ Select(r) \/ SkipCandidate(r) \/ TakeCandidate(r) \/ NoCandidate(r) \/ GiveUp(r)
       \/ ValidateOk(r) \/ ValidateRejects(r) \/ ValidateRaises(r)
       \/ ClaimCreates(r) \/ ClaimFinds(r) \/ ClaimRaises(r)
       \/ Replay(r) \/ ReplayTimeout(r)
       \/ ReserveOk(r) \/ ReserveRefused(r)
       \/ Delivered(r) \/ NoMedia(r) \/ Refused(r) \/ TimedOut(r)
       \/ Settle(r) \/ Succeed(r) \/ Publish(r) \/ Finish(r)
       \/ GiveBack(r) \/ Fail(r) \/ MarkUnknown(r)
       \/ GiveBackAfterError(r) \/ HandleRateLimit(r) \/ HandleQuotaExhausted(r)
       \/ HandleAccountError(r) \/ Continue(r) \/ HandleRequestError(r)
    /\ UNCHANGED scenario

\* Everything was answered and no cooldown runs: the server waits for work.
Idle == /\ \A r \in Requests : req[r].pc \in {"idle", "done"}
        /\ UNCHANGED handlerVars

Next ==
    \/ \E r \in Requests : \/ Arrive(r) /\ UNCHANGED scenario
                           \/ Step(r)
                           \/ ClientLeaves(r)
    \/ RefreshCredits /\ UNCHANGED scenario
    \/ \E t \in Tokens : (OperatorDeletes(t) \/ OperatorForgets(t)) /\ UNCHANGED scenario
    \/ CooldownPasses /\ UNCHANGED scenario
    \/ Crash /\ UNCHANGED scenario
    \/ Idle

Spec == HandlerInit /\ [][Next]_handlerVars

\* The event loop runs every coroutine that is not waiting; every call of the
\* upstream ends, by its own timeout if need be.
Fairness == \A r \in Requests : WF_handlerVars(Step(r))

FairSpec == Spec /\ Fairness

----------------------------------------------------------------------------
\* The slots the requests hold follow the protocol of ConcurrencyManager:
\* every slot taken is given back exactly once, on every way out of a handler,
\* also when the account is deleted under it or the process dies.
SlotProtocol == CM!Spec

\* What a row says about its key.  Once the unit is charged or given back the
\* outcome is certain, also where a late cancellation wrote unknown over it.
\* An account that is deleted takes its rows, and what they said, with it.
OutcomeOf(k) ==
    IF status[k] = "absent" THEN "new"
    ELSE IF quota[k] = "settled" \/ status[k] = "succeeded" THEN "delivered"
    ELSE IF status[k] = "failed" THEN "refused"
    ELSE IF status[k] # "unknown" THEN "open"
    ELSE IF quota[k] = "reserved" THEN "unsure"
    ELSE "refused"

Promise(k) == INSTANCE KeyPromise WITH outcome <- OutcomeOf(k), work <- accepted[k]

\* Unless accounts are deleted or the flow client posts twice, the row and the
\* submissions of each key keep the promise of KeyPromise: the work of a key
\* is taken on at most once, a refused key was not taken on, a delivered one
\* was, and a doubt is final.
KeepsPromise ==
    /\ \A k \in Keys : Promise(k)!PromiseInit
    /\ [][\/ {"delete", "lostReply"} \cap scenario # {}
          \/ \A k \in Keys : [Promise(k)!PromiseNext]_(Promise(k)!promiseVars)]_handlerVars

\* Every request is answered, after at most one attempt per account, and none
\* leaves a task behind that only looks as if it were in progress (clients that
\* leave and processes that die may).
EveryRequestAnswered ==
    \A r \in Requests :
        req[r].pc # "idle" ~>
            /\ req[r].pc = "done"
            /\ IsOwner(r) /\ {"cancel", "abandon", "crash"} \cap scenario = {} =>
                  status[KeyOf[r]] # "submitting"
=============================================================================
