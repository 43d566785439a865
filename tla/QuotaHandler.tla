---------------------------- MODULE QuotaHandler ----------------------------
(***************************************************************************)
(* The part that _handle_idempotent_image_with_quota and                   *)
(* _handle_idempotent_video_with_quota share                               *)
(* (src/services/generation_handler.py): pick an account and a slot, claim *)
(* the idempotency key, freeze a unit, fail over to another account, and   *)
(* answer a duplicate from the task the first request made.                *)
(* ImageGeneration and VideoGeneration add what differs: how the upstream  *)
(* finishes its work, and what a cancelled client leaves behind.           *)
(*                                                                         *)
(* A request is a coroutine; it is interrupted at its awaits only, so a    *)
(* step is the code between two awaits that touch shared state.  The       *)
(* ledger is TaskLedger, the slots are ConcurrencyManager.                 *)
(***************************************************************************)
EXTENDS TaskLedger

CONSTANTS Requests,      \* the requests that arrive
          KeyOf,         \* the idempotency key each of them carries
          Medium,        \* "image" or "video"
          NoAccount,     \* a request that holds no account
          DefaultLearnedLimit, Ceilings, NoCeiling, CooldownTicks, MaxLearned,
          Scenarios      \* sets of events of the environment that may meet:
                         \* "cancel", "abandon", "crash", "delete", "refresh",
                         \* "lostReply", and for a video "giveUp" and "lapse"

ASSUME HandlerAssumption ==
    /\ IsFiniteSet(Requests) /\ KeyOf \in [Requests -> Keys]
    /\ NoAccount \notin Tokens

VARIABLES status,     \* tasks.status per key, "absent" without a row
          cached,     \* keys with chunks in _idempotency_result_cache
          req,        \* the locals of each request's coroutine
          limits, learned, cooldown, inflight,   \* the concurrency manager
          forgotten,  \* history: accounts whose counters remove_token dropped
          accepted,   \* history: submissions of a key the upstream took on
          scenario    \* the events of the environment that may happen

managerVars == <<limits, learned, cooldown, inflight>>
flowVars == <<status, cached, req, forgotten, accepted>>
handlerVars == <<ledgerVars, flowVars, managerVars, scenario>>

----------------------------------------------------------------------------
\* Places of the coroutine where it holds no slot.
Outside == {"idle", "select", "pick", "noAccount", "done"}

HoldsSlot(r) == req[r].pc \notin Outside

SlotsHeld == [s \in Tokens \X {Medium} |->
                Cardinality({r \in Requests : HoldsSlot(r) /\ req[r].tok = s[1]})]

CM == INSTANCE ConcurrencyManager
        WITH Media <- {Medium}, held <- SlotsHeld, removed <- forgotten,
             MaxHeld <- Cardinality(Requests)

Slot(t) == <<t, Medium>>

\* status is terminal for a replay.
Settled(k) == status[k] \in {"succeeded", "failed", "unknown"}

IsOwner(r) == req[r].claim = "owner"

\* update_task(task_id, status=v): nothing happens to a row that is gone.
SetStatus(k, v) ==
    status' = [status EXCEPT ![k] = IF @ = "absent" THEN @ ELSE v]

----------------------------------------------------------------------------
HandlerInit ==
    /\ LedgerInit
    /\ status = [k \in Keys |-> "absent"]
    /\ cached = {}
    /\ req = [r \in Requests |->
                [pc |-> "idle", tok |-> NoAccount, tried |-> {}, cands |-> {},
                 claim |-> "no", err |-> "quota_exhausted", reply |-> "none"]]
    /\ CM!Init
    /\ accepted = [k \in Keys |-> 0]
    /\ scenario \in Scenarios

\* handle_generation enters the quota path.
Arrive(r) ==
    /\ req[r].pc = "idle"
    /\ req' = [req EXCEPT ![r].pc = "select"]
    /\ UNCHANGED <<ledgerVars, managerVars, status, cached, forgotten, accepted>>

\* select_token, first half: filter the accounts by what they show now.
Select(r) ==
    /\ req[r].pc = "select"
    /\ req' = [req EXCEPT ![r].pc = "pick",
                          ![r].cands = {t \in accounts \ req[r].tried :
                                          Available(t) >= 1 /\ CM!CanUse(Slot(t))}]
    /\ UNCHANGED <<ledgerVars, managerVars, status, cached, forgotten, accepted>>

\* select_token, second half: walk the candidates; one whose credentials
\* cannot be renewed, or whose slot went to another request, is skipped.
SkipCandidate(r) ==
    /\ req[r].pc = "pick"
    /\ \E t \in req[r].cands : req' = [req EXCEPT ![r].cands = @ \ {t}]
    /\ UNCHANGED <<ledgerVars, managerVars, status, cached, forgotten, accepted>>

TakeCandidate(r) ==
    /\ req[r].pc = "pick"
    /\ \E t \in req[r].cands :
          /\ CM!TakeSlot(Slot(t))
          /\ req' = [req EXCEPT ![r].pc = "validate", ![r].tok = t, ![r].cands = {}]
    /\ UNCHANGED <<ledgerVars, status, cached, forgotten, accepted>>

NoCandidate(r) ==
    /\ req[r].pc = "pick"
    /\ req[r].cands = {}
    /\ req' = [req EXCEPT ![r].pc = "noAccount"]
    /\ UNCHANGED <<ledgerVars, managerVars, status, cached, forgotten, accepted>>

\* Mutant of GiveUp: the owner leaves its task as it is.
GiveUpSilently(r) ==
    /\ req[r].pc = "noAccount"
    /\ req' = [req EXCEPT ![r].pc = "done", ![r].reply = req[r].err]
    /\ UNCHANGED <<ledgerVars, managerVars, status, cached, forgotten, accepted>>

\* No account is left: the owner fails its task, everyone gets the last error.
GiveUp(r) ==
    /\ req[r].pc = "noAccount"
    /\ IF IsOwner(r)
       THEN SetStatus(KeyOf[r], "failed") /\ MarkReleased(KeyOf[r])
       ELSE UNCHANGED <<status, ledgerVars>>
    /\ req' = [req EXCEPT ![r].pc = "done", ![r].reply = req[r].err]
    /\ UNCHANGED <<managerVars, cached, forgotten, accepted>>

----------------------------------------------------------------------------
\* The finally clause, and what follows it: the coroutine ends with a reply,
\* or goes round the failover loop without the account it tried.
LeaveWith(r, reply) ==
    /\ CM!GiveBackSlot(Slot(req[r].tok))
    /\ req' = [req EXCEPT ![r].pc = "done", ![r].reply = reply, ![r].tok = NoAccount]

\* Mutant of TryNext: continue without the finally clause.
TryNextKeepingSlot(r, error) ==
    /\ UNCHANGED managerVars
    /\ req' = [req EXCEPT ![r].pc = "select", ![r].tok = NoAccount,
                          ![r].tried = @ \cup {req[r].tok}, ![r].err = error]

TryNext(r, error) ==
    /\ CM!GiveBackSlot(Slot(req[r].tok))
    /\ req' = [req EXCEPT ![r].pc = "select", ![r].tok = NoAccount,
                          ![r].tried = @ \cup {req[r].tok}, ![r].err = error]

\* ensure_valid_token, the tier test and ensure_project_exists.
ValidateOk(r) ==
    /\ req[r].pc = "validate"
    /\ req' = [req EXCEPT ![r].pc = IF req[r].claim = "no" THEN "claim" ELSE "reserve"]
    /\ UNCHANGED <<ledgerVars, managerVars, status, cached, forgotten, accepted>>

ValidateRejects(r) ==
    /\ req[r].pc = "validate"
    /\ \E error \in {"authentication", "membership_tier"} : TryNext(r, error)
    /\ UNCHANGED <<ledgerVars, status, cached, forgotten, accepted>>

\* No project can be prepared, the account row is gone, ...
ValidateRaises(r) ==
    /\ req[r].pc = "validate"
    /\ req' = [req EXCEPT ![r].pc = "raised", ![r].err = "upstream_error"]
    /\ UNCHANGED <<ledgerVars, managerVars, status, cached, forgotten, accepted>>

\* get_or_create_idempotent_task.
ClaimCreates(r) ==
    /\ req[r].pc = "claim"
    /\ ClaimKey(KeyOf[r], req[r].tok)
    /\ status' = [status EXCEPT ![KeyOf[r]] = "submitting"]
    /\ req' = [req EXCEPT ![r].pc = "reserve", ![r].claim = "owner"]
    /\ UNCHANGED <<managerVars, cached, forgotten, accepted>>

ClaimFinds(r) ==
    /\ req[r].pc = "claim"
    /\ quota[KeyOf[r]] # "absent"
    /\ req' = [req EXCEPT ![r].pc = "replay", ![r].claim = "duplicate"]
    /\ UNCHANGED <<ledgerVars, managerVars, status, cached, forgotten, accepted>>

\* The account was deleted meanwhile: the foreign key refuses the row.
ClaimRaises(r) ==
    /\ req[r].pc = "claim"
    /\ quota[KeyOf[r]] = "absent"
    /\ req[r].tok \notin accounts
    /\ req' = [req EXCEPT ![r].pc = "raised", ![r].err = "upstream_error"]
    /\ UNCHANGED <<ledgerVars, managerVars, status, cached, forgotten, accepted>>

----------------------------------------------------------------------------
\* What a duplicate is told about the task of its key.
ReplayReply(k) ==
    IF status[k] = "absent" THEN "unavailable"
    ELSE IF status[k] = "succeeded" THEN IF k \in cached THEN "media" ELSE "blank"
    ELSE IF status[k] \in {"unknown", "failed"} THEN status[k]
    ELSE "pending"

\* _replay_idempotent_task: wait for the owner's outcome ...
Replay(r) ==
    /\ req[r].pc = "replay"
    /\ Settled(KeyOf[r]) \/ status[KeyOf[r]] = "absent"
    /\ LeaveWith(r, ReplayReply(KeyOf[r]))
    /\ UNCHANGED <<ledgerVars, status, cached, forgotten, accepted>>

\* ... at most 30 seconds, holding its slot all the while.
ReplayTimeout(r) ==
    /\ req[r].pc = "replay"
    /\ ~Settled(KeyOf[r]) /\ status[KeyOf[r]] # "absent"
    /\ LeaveWith(r, "pending")
    /\ UNCHANGED <<ledgerVars, status, cached, forgotten, accepted>>

----------------------------------------------------------------------------
\* reserve_task_quota.
ReserveOk(r) ==
    /\ req[r].pc = "reserve"
    /\ ReserveQuota(KeyOf[r], req[r].tok)
    /\ req' = [req EXCEPT ![r].pc = "submit"]
    /\ UNCHANGED <<managerVars, status, cached, forgotten, accepted>>

ReserveRefused(r) ==
    /\ req[r].pc = "reserve"
    /\ ~CanReserve(KeyOf[r], req[r].tok)
    /\ TryNext(r, "quota_exhausted")
    /\ UNCHANGED <<ledgerVars, status, cached, forgotten, accepted>>

----------------------------------------------------------------------------
\* Errors that send the request to another account; any other ends it.
AccountErrors == {"rate_limited", "authentication", "membership_tier", "quota_exhausted"}
Errors == AccountErrors \cup {"upstream_error"}

\* A reply lost on the network: the flow client posts the work again inside
\* the same call and reports a plain error if that does not help either
\* (FlowSubmission has the loops; here one reply is lost per call at most).
LostReplies == IF "lostReply" \in scenario THEN {0, 1} ELSE {0}

TakenOn(k, n) == accepted' = [accepted EXCEPT ![k] = @ + n]

\* The upstream call ends with the work taken on (see Delivered, Submitted), ...
Taken(r, next) ==
    /\ req[r].pc = "submit"
    /\ \E lost \in LostReplies : TakenOn(KeyOf[r], lost + 1)
    /\ req' = [req EXCEPT ![r].pc = next]
    /\ UNCHANGED <<ledgerVars, managerVars, status, cached, forgotten>>

\* ... with an empty result, ...
NoMedia(r) ==
    /\ req[r].pc = "submit"
    /\ req' = [req EXCEPT ![r].pc = "giveBack"]
    /\ UNCHANGED <<ledgerVars, managerVars, status, cached, forgotten, accepted>>

\* ... with an error status of the upstream, or none, ...
Refused(r) ==
    /\ req[r].pc = "submit"
    /\ \E error \in Errors :
          req' = [req EXCEPT ![r].pc = "raised", ![r].err = error]
    /\ \E lost \in LostReplies : TakenOn(KeyOf[r], lost)
    /\ UNCHANGED <<ledgerVars, managerVars, status, cached, forgotten>>

\* Mutant of TimedOut: a timeout is handled like a refusal.
TimedOutRetried(r) ==
    /\ req[r].pc = "submit"
    /\ \E took \in {0, 1} : TakenOn(KeyOf[r], took)
    /\ req' = [req EXCEPT ![r].pc = "raised", ![r].err = "rate_limited"]
    /\ UNCHANGED <<ledgerVars, managerVars, status, cached, forgotten>>

\* ... or with TimeoutError or ConnectionError: nobody knows.
TimedOut(r) ==
    /\ req[r].pc = "submit"
    /\ \E took \in {0, 1} : TakenOn(KeyOf[r], took)
    /\ req' = [req EXCEPT ![r].pc = "uncertain"]
    /\ UNCHANGED <<ledgerVars, managerVars, status, cached, forgotten>>

----------------------------------------------------------------------------
\* Success: charge the unit, close the task, publish the chunks for replays.
Settle(r) ==
    /\ req[r].pc = "settle"
    /\ SettleQuota(KeyOf[r])
    /\ req' = [req EXCEPT ![r].pc = "succeed"]
    /\ UNCHANGED <<managerVars, status, cached, forgotten, accepted>>

Succeed(r) ==
    /\ req[r].pc = "succeed"
    /\ SetStatus(KeyOf[r], "succeeded")
    /\ req' = [req EXCEPT ![r].pc = "publish"]
    /\ UNCHANGED <<ledgerVars, managerVars, cached, forgotten, accepted>>

Publish(r) ==
    /\ req[r].pc = "publish"
    /\ cached' = cached \cup {KeyOf[r]}
    /\ req' = [req EXCEPT ![r].pc = "count"]
    /\ UNCHANGED <<ledgerVars, managerVars, status, forgotten, accepted>>

\* record_usage, record_success and the request log, then the finally clause.
Finish(r) ==
    /\ req[r].pc = "count"
    /\ LeaveWith(r, "media")
    /\ UNCHANGED <<ledgerVars, status, cached, forgotten, accepted>>

\* An empty result: give the unit back, then fail the task.
GiveBack(r) ==
    /\ req[r].pc = "giveBack"
    /\ ReleaseQuota(KeyOf[r])
    /\ req' = [req EXCEPT ![r].pc = "fail"]
    /\ UNCHANGED <<managerVars, status, cached, forgotten, accepted>>

Fail(r) ==
    /\ req[r].pc = "fail"
    /\ SetStatus(KeyOf[r], "failed")
    /\ cached' = cached \cup {KeyOf[r]}
    /\ LeaveWith(r, "failed")
    /\ UNCHANGED <<ledgerVars, forgotten, accepted>>

\* Mutant of MarkUnknown: the unit is given back although it may be used.
MarkUnknownAndRelease(r) ==
    /\ req[r].pc = "uncertain"
    /\ SetStatus(KeyOf[r], "unknown")
    /\ ReleaseQuota(KeyOf[r])
    /\ LeaveWith(r, "unknown")
    /\ UNCHANGED <<cached, forgotten, accepted>>

\* except, uncertain: the task is unknown and its unit stays frozen.  (For a
\* video the row is left alone unless it is submitting: here it always is.)
MarkUnknown(r) ==
    /\ req[r].pc = "uncertain"
    /\ SetStatus(KeyOf[r], "unknown")
    /\ LeaveWith(r, "unknown")
    /\ UNCHANGED <<ledgerVars, cached, forgotten, accepted>>

----------------------------------------------------------------------------
\* except, definite: the unit is given back first, ...
GiveBackAfterError(r) ==
    /\ req[r].pc = "raised"
    /\ IF req[r].claim = "no" THEN UNCHANGED ledgerVars ELSE ReleaseQuota(KeyOf[r])
    /\ req' = [req EXCEPT ![r].pc = "handle"]
    /\ UNCHANGED <<managerVars, status, cached, forgotten, accepted>>

\* ... then the error decides.  A 429 lowers the capacity of the account, a
\* quota error empties its balance, ...
HandleRateLimit(r) ==
    /\ req[r].pc = "handle" /\ req[r].err = "rate_limited"
    /\ CM!BackOff(Slot(req[r].tok))
    /\ req' = [req EXCEPT ![r].pc = "next"]
    /\ UNCHANGED <<ledgerVars, status, cached, forgotten, accepted>>

HandleQuotaExhausted(r) ==
    /\ req[r].pc = "handle" /\ req[r].err = "quota_exhausted"
    /\ OverwriteCredits(req[r].tok, 0)
    /\ req' = [req EXCEPT ![r].pc = "next"]
    /\ UNCHANGED <<managerVars, status, cached, forgotten, accepted>>

\* ... a login or membership error is recorded on the account row, ...
HandleAccountError(r) ==
    /\ req[r].pc = "handle" /\ req[r].err \in {"authentication", "membership_tier"}
    /\ req' = [req EXCEPT ![r].pc = "next"]
    /\ UNCHANGED <<ledgerVars, managerVars, status, cached, forgotten, accepted>>

\* ... and the request moves on to another account,
Continue(r) ==
    /\ req[r].pc = "next"
    /\ TryNext(r, req[r].err)
    /\ UNCHANGED <<ledgerVars, status, cached, forgotten, accepted>>

\* ... while any other error fails the task and the request.
HandleRequestError(r) ==
    /\ req[r].pc = "handle" /\ req[r].err \notin AccountErrors
    /\ IF req[r].claim = "no"
       THEN UNCHANGED <<status, ledgerVars>>
       ELSE SetStatus(KeyOf[r], "failed") /\ MarkReleased(KeyOf[r])
    /\ LeaveWith(r, req[r].err)
    /\ UNCHANGED <<cached, forgotten, accepted>>

----------------------------------------------------------------------------
(***************************************************************************)
(* The client goes away.  A cancelled task sees CancelledError at the      *)
(* await it is in; a generator that nobody reads any more is closed at the *)
(* yield it is in.  The finally clause runs in both cases.                 *)
(***************************************************************************)
InTry == {"validate", "claim", "replay", "reserve", "submit", "settle", "succeed",
          "publish", "count", "giveBack", "fail",
          "record", "accepted", "await"}                \* only for a video
InExcept == {"uncertain", "raised", "handle", "next"}
BeforeTry == {"select", "pick", "noAccount"}

\* Cancelled before an account is taken: nothing handles it.
CancelBeforeTry(r) ==
    /\ "cancel" \in scenario
    /\ req[r].pc \in BeforeTry
    /\ req' = [req EXCEPT ![r].pc = "done", ![r].reply = "cancelled"]
    /\ UNCHANGED <<ledgerVars, managerVars, status, cached, forgotten, accepted>>

\* Cancelled while the claim is being committed: the row exists, and nobody
\* knows that it is the owner.
CancelAfterClaim(r) ==
    /\ "cancel" \in scenario
    /\ req[r].pc = "claim"
    /\ ClaimKey(KeyOf[r], req[r].tok)
    /\ status' = [status EXCEPT ![KeyOf[r]] = "submitting"]
    /\ LeaveWith(r, "cancelled")
    /\ UNCHANGED <<cached, forgotten, accepted>>

\* Cancelled while an exception is handled: only the finally clause runs.
CancelInExcept(r) ==
    /\ "cancel" \in scenario
    /\ req[r].pc \in InExcept
    /\ LeaveWith(r, "cancelled")
    /\ UNCHANGED <<ledgerVars, status, cached, forgotten, accepted>>

----------------------------------------------------------------------------
(***************************************************************************)
(* The environment.                                                        *)
(***************************************************************************)

\* A credits query (while an account is validated, or asked for by the
\* operator) stores the balance the upstream reports.
RefreshCredits ==
    /\ "refresh" \in scenario
    /\ \E t \in Tokens, c \in 0 .. MaxCredits : OverwriteCredits(t, c)
    /\ UNCHANGED <<flowVars, managerVars>>

\* The operator deletes an account: first its rows, ...
OperatorDeletes(t) ==
    /\ "delete" \in scenario
    /\ DeleteAccount(t)
    /\ status' = [k \in Keys |-> IF payer[k] = t THEN "absent" ELSE status[k]]
    /\ UNCHANGED <<managerVars, cached, req, forgotten, accepted>>

\* ... then its entries in the concurrency manager.
OperatorForgets(t) ==
    /\ t \notin accounts /\ t \notin forgotten
    /\ UNCHANGED <<ledgerVars, status, cached, req, accepted>>
    /\ CM!RemoveToken(t)

CooldownPasses ==
    /\ UNCHANGED <<ledgerVars, flowVars>>
    /\ CM!Tick

\* The process dies and starts again: coroutines, slots and the result cache
\* are gone, the rows remain.  Requests that had arrived are never answered,
\* and the upstream may have taken on what was being submitted.
Crash ==
    /\ "crash" \in scenario
    /\ \E r \in Requests : req[r].pc \notin {"idle", "done"}
    /\ req' = [r \in Requests |->
                 IF req[r].pc \in {"idle", "done"} THEN req[r]
                 ELSE [req[r] EXCEPT !.pc = "done", !.reply = "lost", !.tok = NoAccount]]
    /\ cached' = {}
    /\ forgotten' = {}
    /\ limits' = limits
    /\ CM!Restart
    /\ \E took \in SUBSET {KeyOf[r] : r \in {q \in Requests : req[q].pc = "submit"}} :
          accepted' = [k \in Keys |-> IF k \in took THEN accepted[k] + 1 ELSE accepted[k]]
    /\ UNCHANGED <<ledgerVars, status>>
=============================================================================
