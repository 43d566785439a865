--------------------------- MODULE VideoGeneration --------------------------
(***************************************************************************)
(* _handle_idempotent_video_with_quota with _handle_video_generation,      *)
(* _collect_detached_video_poll, _poll_video_result and                    *)
(* recover_incomplete_tasks (src/services/generation_handler.py).          *)
(*                                                                         *)
(* The upstream only accepts the work; a poller, a task of its own that    *)
(* outlives the request, waits for it to be finished and closes the row.   *)
(* The row is renamed to the upstream's operation when it is accepted; the *)
(* idempotency key stays, and the model names the row by its key.          *)
(***************************************************************************)
EXTENDS QuotaHandler

CONSTANTS MaxCrashes,  \* bound: how often the process dies
          Extensions   \* the keys whose work continues an earlier video

ASSUME CrashesAssumption == MaxCrashes \in Nat /\ Extensions \subseteq Keys

VARIABLES poller,   \* per key: where the poller of its row is
          joins,    \* the keys whose poller knows the video to join theirs to
          job,      \* per key: what the upstream has made of the work
          crashes   \* how often the process died

videoVars == <<poller, joins, job, crashes>>
vars == <<handlerVars, videoVars>>

\* "gone" is a poller that never was or that died, "dropped" one that was not
\* started again because its account was not valid.
Polling(k) == poller[k] \notin {"gone", "dropped", "made", "failed"}

Init ==
    /\ HandlerInit
    /\ poller = [k \in Keys |-> "gone"]
    /\ joins = {}
    /\ job = [k \in Keys |-> "running"]
    /\ crashes = 0

----------------------------------------------------------------------------
(***************************************************************************)
(* The request: from the submission to the end of its poller.              *)
(***************************************************************************)

\* The upstream returns an operation: the work is taken on ...
Submitted(r) == Taken(r, "record")

\* ... and the row says so, under the name of the operation.
RecordAccepted(r) ==
    /\ req[r].pc = "record"
    /\ SetStatus(KeyOf[r], "accepted")
    /\ req' = [req EXCEPT ![r].pc = "accepted"]
    /\ UNCHANGED <<ledgerVars, managerVars, cached, forgotten, accepted>>

\* A log update and a chunk for the client come before the poller is created.
StartPoll(r) ==
    /\ req[r].pc = "accepted"
    /\ poller' = [poller EXCEPT ![KeyOf[r]] = "start"]
    /\ joins' = joins \cup ({KeyOf[r]} \cap Extensions)
    /\ req' = [req EXCEPT ![r].pc = "await"]
    /\ UNCHANGED <<ledgerVars, managerVars, status, cached, forgotten, accepted, job, crashes>>

\* Mutant of PollDone: a success of the poller is not noticed.
PollDoneIgnoresSuccess(r) ==
    /\ req[r].pc = "await"
    /\ poller[KeyOf[r]] \in {"made", "failed"}
    /\ req' = [req EXCEPT ![r].pc = "giveBack"]
    /\ UNCHANGED <<ledgerVars, managerVars, status, cached, forgotten, accepted>>

\* asyncio.shield(poll_task): the request waits for the end of the poller.
PollDone(r) ==
    /\ req[r].pc = "await"
    /\ \E p \in {"made", "failed"} :
          /\ poller[KeyOf[r]] = p
          /\ req' = [req EXCEPT ![r].pc = IF p = "made" THEN "settle" ELSE "giveBack"]
    /\ UNCHANGED <<ledgerVars, managerVars, status, cached, forgotten, accepted>>

----------------------------------------------------------------------------
(***************************************************************************)
(* The poller.                                                             *)
(***************************************************************************)
Move(k, from, to) ==
    /\ poller[k] = from
    /\ poller' = [poller EXCEPT ![k] = to]
    /\ UNCHANGED <<req, managerVars, cached, forgotten, accepted, joins, job, crashes>>

PollerMarks(k) ==
    /\ Move(k, "start", "poll")
    /\ SetStatus(k, "polling")
    /\ UNCHANGED ledgerVars

\* check_video_status: what a status query that gets through reports.
Reported(k) == job[k]

\* The status query reports finished work.
PollerSees(k) ==
    /\ Reported(k) = "made"
    /\ Move(k, "poll", "resolve")
    /\ UNCHANGED <<status, ledgerVars>>

\* The status query reports a failure.
PollerSeesFailure(k) ==
    /\ Reported(k) = "rejected"
    /\ Move(k, "poll", "giveBack")
    /\ UNCHANGED <<status, ledgerVars>>

\* Three status queries in a row fail, the work is active for more than 80
\* rounds, or the rounds are used up.
PollerGivesUp(k) ==
    /\ "giveUp" \in scenario
    /\ Move(k, "poll", "giveBack")
    /\ UNCHANGED <<status, ledgerVars>>

\* With the media at hand: an enlargement fails before it is submitted (the
\* call names a variable the method does not have) and the video is delivered
\* as it is; an extension is joined to the video it continues, if the poller
\* still knows that one.
AfterMedia(k) == IF k \in joins THEN "join" ELSE "cache"

\* get_media_url_redirect leads to the media, ...
MediaRedirected(k) ==
    /\ Move(k, "resolve", AfterMedia(k))
    /\ UNCHANGED <<status, ledgerVars>>

\* ... or _resolve_video_asset finds no address, ...
MediaUnnamed(k) ==
    /\ Move(k, "resolve", "fetch")
    /\ UNCHANGED <<status, ledgerVars>>

\* ... and the content itself is fetched and stored in the file cache.
MediaFetched(k) ==
    /\ Move(k, "fetch", AfterMedia(k))
    /\ UNCHANGED <<status, ledgerVars>>

\* The redirect fails, or there is neither an address nor content.
MediaMissing(k) ==
    /\ "giveUp" \in scenario
    /\ Move(k, "resolve", "giveBack") \/ Move(k, "fetch", "giveBack")
    /\ UNCHANGED <<status, ledgerVars>>

\* run_concatenation; without an operation the extension is delivered alone.
Join(k) ==
    /\ Move(k, "join", "joined") \/ Move(k, "join", "cache")
    /\ UNCHANGED <<status, ledgerVars>>

\* poll_concatenation_status: finished, failed or given up after 300 seconds.
JoinEnds(k) ==
    /\ Move(k, "joined", "cache")
    /\ UNCHANGED <<status, ledgerVars>>

\* The media is copied to the file cache, or delivered from its source.
PollerCaches(k) ==
    /\ Move(k, "cache", "charge")
    /\ UNCHANGED <<status, ledgerVars>>

\* The finally clause of the poller after a success.
PollerSettles(k) ==
    /\ Move(k, "charge", "close")
    /\ SettleQuota(k)
    /\ UNCHANGED status

PollerSucceeds(k) ==
    /\ Move(k, "close", "made")
    /\ SetStatus(k, "succeeded")
    /\ UNCHANGED ledgerVars

\* _fail_video_task.
PollerReleases(k) ==
    /\ Move(k, "giveBack", "fail")
    /\ ReleaseQuota(k)
    /\ UNCHANGED status

\* Mutant of PollerFails: the unit is given back and the row left as it is.
PollerFailsSilently(k) ==
    /\ Move(k, "fail", "failed")
    /\ UNCHANGED <<status, ledgerVars>>

PollerFails(k) ==
    /\ Move(k, "fail", "failed")
    /\ SetStatus(k, "failed")
    /\ UNCHANGED ledgerVars

----------------------------------------------------------------------------
(***************************************************************************)
(* After a restart.                                                        *)
(***************************************************************************)

\* Mutant of Recoverable: rows that are polled already are not recovered.
RecoverableAccepted == {k \in Keys : status[k] = "accepted"}

\* recover_incomplete_tasks: the rows that are polled again.  Unknown rows are
\* read as well, and skipped.
Recoverable == {k \in Keys : status[k] \in {"accepted", "polling"}}

\* Crash, and the start of recover_incomplete_tasks in the new process.  The
\* rows do not say which video an extension continues.
CrashAndRestart ==
    /\ crashes < MaxCrashes
    /\ Crash
    /\ crashes' = crashes + 1
    /\ poller' = [k \in Keys |-> IF k \in Recoverable THEN "recover" ELSE "gone"]
    /\ joins' = {}
    /\ UNCHANGED <<job, scenario>>

\* _recover_one: the account has to be valid for the row to be polled ...
RecoverOne(k) ==
    /\ Move(k, "recover", "start")
    /\ UNCHANGED <<status, ledgerVars>>

\* ... and the row is dropped until the next restart if it is not.
RecoverDrops(k) ==
    /\ "lapse" \in scenario
    /\ Move(k, "recover", "dropped")
    /\ UNCHANGED <<status, ledgerVars>>

PollerStep(k) ==
    /\ \/ PollerMarks(k) \/ PollerSees(k) \/ PollerSeesFailure(k) \/ PollerGivesUp(k)
       \/ MediaRedirected(k) \/ MediaUnnamed(k) \/ MediaFetched(k) \/ MediaMissing(k)
       \/ Join(k) \/ JoinEnds(k) \/ PollerCaches(k)
       \/ PollerSettles(k) \/ PollerSucceeds(k)
       \/ PollerReleases(k) \/ PollerFails(k)
       \/ RecoverOne(k) \/ RecoverDrops(k)
    /\ UNCHANGED scenario

\* The upstream finishes the work of a key, or fails it.
UpstreamEnds(k) ==
    /\ accepted[k] > 0 /\ job[k] = "running"
    /\ \E end \in {"made", "rejected"} : job' = [job EXCEPT ![k] = end]
    /\ UNCHANGED <<handlerVars, poller, joins, crashes>>

----------------------------------------------------------------------------
(***************************************************************************)
(* The client goes away.                                                   *)
(***************************************************************************)

\* Mutant of DeclareUnknown: whatever the row says, as for an image.
DeclareUnknownAlways(k) == SetStatus(k, "unknown")

\* except asyncio.CancelledError: only a row that is still being submitted
\* becomes unknown.
DeclareUnknown(k) ==
    IF status[k] = "submitting" THEN SetStatus(k, "unknown") ELSE UNCHANGED status

CancelInTry(r) ==
    /\ "cancel" \in scenario
    /\ req[r].pc \in InTry
    /\ IF IsOwner(r) THEN DeclareUnknown(KeyOf[r]) ELSE UNCHANGED status
    /\ \E took \in IF req[r].pc = "submit" THEN {0, 1} ELSE {0} : TakenOn(KeyOf[r], took)
    /\ LeaveWith(r, "cancelled")
    /\ UNCHANGED <<ledgerVars, cached, forgotten>>

\* Cancelled while the row is being renamed: the commit goes through.
CancelAfterAccepted(r) ==
    /\ "cancel" \in scenario
    /\ req[r].pc = "record"
    /\ SetStatus(KeyOf[r], "accepted")
    /\ LeaveWith(r, "cancelled")
    /\ UNCHANGED <<ledgerVars, cached, forgotten, accepted>>

\* GeneratorExit at a chunk: before the submission, in front of the poller, or
\* among the chunks of a finished poller.
Abandon(r) ==
    /\ "abandon" \in scenario
    /\ req[r].pc \in {"submit", "accepted", "settle", "giveBack"}
    /\ LeaveWith(r, "abandoned")
    /\ UNCHANGED <<ledgerVars, status, cached, forgotten, accepted>>

----------------------------------------------------------------------------
\* Choosing an account, claiming the key and freezing the unit.
Prepares(r) ==
    \/ Select(r) \/ SkipCandidate(r) \/ TakeCandidate(r) \/ NoCandidate(r) \/ GiveUp(r)
    \/ ValidateOk(r) \/ ValidateRejects(r) \/ ValidateRaises(r)
    \/ ClaimCreates(r) \/ ClaimFinds(r) \/ ClaimRaises(r)
    \/ Replay(r) \/ ReplayTimeout(r)
    \/ ReserveOk(r) \/ ReserveRefused(r)

\* Submitting, and what follows the end of the poller.
Generates(r) ==
    \/ Submitted(r) \/ NoMedia(r) \/ Refused(r) \/ TimedOut(r)
    \/ RecordAccepted(r) \/ PollDone(r)
    \/ Settle(r) \/ Succeed(r) \/ Publish(r) \/ Finish(r)
    \/ GiveBack(r) \/ Fail(r)

\* except Exception.
HandlesError(r) ==
    \/ MarkUnknown(r) \/ GiveBackAfterError(r)
    \/ HandleRateLimit(r) \/ HandleQuotaExhausted(r) \/ HandleAccountError(r)
    \/ Continue(r) \/ HandleRequestError(r)

Step(r) ==
    /\ \/ (Prepares(r) \/ Generates(r) \/ HandlesError(r)) /\ UNCHANGED videoVars
       \/ StartPoll(r)
    /\ UNCHANGED scenario

ClientLeaves(r) ==
    /\ \/ CancelBeforeTry(r) \/ CancelInTry(r) \/ CancelAfterClaim(r)
       \/ CancelAfterAccepted(r) \/ CancelInExcept(r) \/ Abandon(r)
    /\ UNCHANGED <<videoVars, scenario>>

Idle == /\ \A r \in Requests : req[r].pc \in {"idle", "done"}
        /\ UNCHANGED vars

Next ==
    \/ \E r \in Requests : \/ Arrive(r) /\ UNCHANGED <<videoVars, scenario>>
                           \/ Step(r)
                           \/ ClientLeaves(r)
    \/ \E k \in Keys : PollerStep(k) \/ UpstreamEnds(k)
    \/ CooldownPasses /\ UNCHANGED <<videoVars, scenario>>
    \/ CrashAndRestart
    \/ Idle

Spec == Init /\ [][Next]_vars

\* The event loop runs requests and pollers, and the upstream ends its work
\* (if it does not, the poller gives up by itself).
Fairness ==
    /\ \A r \in Requests : WF_vars(Step(r))
    /\ \A k \in Keys : WF_vars(PollerStep(k)) /\ WF_vars(UpstreamEnds(k))

FairSpec == Spec /\ Fairness

----------------------------------------------------------------------------
\* Work that may still be finished, or was, is never free: its unit is charged
\* or frozen, unless a poller gave up on it or a lost reply was followed by an
\* error.  (The plan: only a definite failure releases a unit.)
ReleasedWhenRefused ==
    {"giveUp", "lostReply"} \cap scenario = {} =>
        \A k \in Keys :
            accepted[k] > 0 /\ job[k] # "rejected" => quota[k] \in {"reserved", "settled"}

\* Accepted work is watched: there is a poller, or the request that is about
\* to create one, whatever became of the client (unless the account of the
\* task was not valid when the process started).
Watched ==
    \A k \in Keys :
        status[k] \in {"accepted", "polling"} =>
            \/ Polling(k) \/ poller[k] = "dropped"
            \/ \E r \in Requests : KeyOf[r] = k /\ req[r].pc = "accepted"

ClientsStay == {"cancel", "abandon"} \cap scenario = {}

\* So it is as long as no client leaves between the acceptance and the poller.
AcceptedIsWatched == ClientsStay => Watched

\* The poller of a row, its request and a poller of an earlier process never
\* undo an outcome, and a charged task is never reported as failed (unless the
\* process died between the two and the next poller gave up).
OutcomeIsFinal ==
    [][\A k \in Keys :
          /\ status[k] \in {"succeeded", "failed"} => status'[k] = status[k]
          /\ quota[k] = "settled" /\ "giveUp" \notin scenario =>
                quota'[k] = "settled" /\ status'[k] # "failed"]_vars

\* Work the upstream turned down by itself does not count.
StatusOutcome ==
    [absent |-> "new", submitting |-> "open", accepted |-> "open", polling |-> "open",
     succeeded |-> "delivered", failed |-> "refused", unknown |-> "unsure"]

Promise(k) ==
    INSTANCE KeyPromise WITH outcome <- StatusOutcome[status[k]],
                             work <- IF job[k] = "rejected" THEN 0 ELSE accepted[k]

\* Where no poller gives up and the flow client does not post twice, the row
\* and the work of each key keep the promise of KeyPromise.
KeepsPromise ==
    /\ \A k \in Keys : Promise(k)!PromiseInit
    /\ [][\/ {"giveUp", "lostReply"} \cap scenario # {}
          \/ \A k \in Keys : [Promise(k)!PromiseNext]_(Promise(k)!promiseVars)]_vars

\* An accepted task is decided even if its request, or the process, is gone,
\* unless its account was not valid when the process started again.
AcceptedIsDecided ==
    \A k \in Keys :
        ClientsStay /\ status[k] \in {"accepted", "polling"} ~>
            Settled(k) \/ poller[k] = "dropped"
=============================================================================
