------------------------ MODULE VideoGenerationProofs -----------------------
(***************************************************************************)
(* Videos with an idempotency key, for any requests, keys and accounts,    *)
(* any number of crashes, and whatever clients and pollers do: requests    *)
(* and pollers are the ledger's and the concurrency manager's users, and   *)
(* what they say about a key stays true.                                   *)
(***************************************************************************)
EXTENDS VideoGeneration, QuotaHandlerProofs

USE HandlerAssumption

----------------------------------------------------------------------------
\* The steps that only videos have.
Differs(r) ==
    \/ Submitted(r) \/ RecordAccepted(r) \/ StartPoll(r) \/ PollDone(r)
    \/ CancelInTry(r) \/ CancelAfterAccepted(r) \/ Abandon(r)

LEMMA DiffersMoves ==
    ASSUME HandlerTypes, NEW r \in Requests, Differs(r)
    PROVE  Moves(r)
<1>1. HandlerFits
  BY DEF HandlerTypes
<1>2. CASE Submitted(r) \/ RecordAccepted(r) \/ StartPoll(r) \/ PollDone(r)
  <2>1. PICK place \in {"record", "accepted", "await", "settle", "giveBack"} :
           req' = [req EXCEPT ![r].pc = place]
    BY <1>2 DEF Submitted, Taken, RecordAccepted, StartPoll, PollDone
  <2>2. req[r].pc \in {"submit", "record", "accepted", "await"} /\ UNCHANGED managerVars
    BY <1>2 DEF Submitted, Taken, RecordAccepted, StartPoll, PollDone
  <2>3. place \in Places /\ place \notin Outside /\ req[r].pc \notin Outside
    BY <2>2 DEF Places, Outside, InTry
  <2> QED BY <1>1, <2>1, <2>2, <2>3, PlaceMoves
<1>3. CASE CancelInTry(r) \/ CancelAfterAccepted(r) \/ Abandon(r)
  <2>1. \E reply \in {"cancelled", "abandoned"} : LeaveWith(r, reply)
    BY <1>3 DEF CancelInTry, CancelAfterAccepted, Abandon
  <2>2. req[r].pc \notin Outside
    BY <1>3 DEF CancelInTry, CancelAfterAccepted, Abandon, InTry, Outside
  <2> QED BY <1>1, <2>1, <2>2, LeaveMoves DEF Replies
<1> QED BY <1>2, <1>3 DEF Differs

LEMMA DiffersSound ==
    ASSUME HandlerTypes, NEW r \in Requests, Differs(r)
    PROVE  Sound
<1>1. HandlerFits /\ KeyOf[r] \in Keys
  BY DEF HandlerTypes
<1>2. UNCHANGED <<ledgerVars, forgotten>>
  BY DEF Differs, Submitted, Taken, RecordAccepted, StartPoll, PollDone, CancelInTry,
         CancelAfterAccepted, Abandon
<1>3. UNCHANGED accepted \/ \E n \in {0, 1, 2} : TakenOn(KeyOf[r], n)
  BY DEF Differs, Submitted, Taken, RecordAccepted, StartPoll, PollDone, CancelInTry,
         CancelAfterAccepted, Abandon, LostReplies
<1>4. UNCHANGED status \/ \E v \in {"accepted", "unknown"} : SetStatus(KeyOf[r], v)
  BY DEF Differs, Submitted, Taken, RecordAccepted, StartPoll, PollDone, CancelInTry,
         CancelAfterAccepted, Abandon, DeclareUnknown
<1>5. status' \in [Keys -> Statuses]
  BY <1>1, <1>4, SetStatusFits DEF HandlerFits, Statuses
<1>6. accepted' \in [Keys -> Nat]
  BY <1>1, <1>3, TakenOnFits DEF HandlerFits
<1> QED BY <1>2, <1>5, <1>6, DiffersMoves, MovesSound

\* A poller writes the status and the quota state of its row.
LEMMA PollerSound ==
    ASSUME HandlerTypes, NEW k \in Keys, PollerStep(k)
    PROVE  Sound
<1>1. HandlerFits
  BY DEF HandlerTypes
<1>2. UNCHANGED <<req, managerVars, accepted, forgotten>>
  BY DEF PollerStep, PollerMarks, PollerSees, PollerSeesFailure, PollerGivesUp, MediaRedirected,
         MediaUnnamed, MediaFetched, MediaMissing, Join, JoinEnds, PollerCaches, PollerSettles,
         PollerSucceeds, PollerReleases, PollerFails, RecoverOne, RecoverDrops, Move
<1>3. UNCHANGED status \/ \E v \in {"polling", "succeeded", "failed"} : SetStatus(k, v)
  BY DEF PollerStep, PollerMarks, PollerSees, PollerSeesFailure, PollerGivesUp, MediaRedirected,
         MediaUnnamed, MediaFetched, MediaMissing, Join, JoinEnds, PollerCaches, PollerSettles,
         PollerSucceeds, PollerReleases, PollerFails, RecoverOne, RecoverDrops
<1>4. UNCHANGED ledgerVars \/ SettleQuota(k) \/ ReleaseQuota(k)
  BY DEF PollerStep, PollerMarks, PollerSees, PollerSeesFailure, PollerGivesUp, MediaRedirected,
         MediaUnnamed, MediaFetched, MediaMissing, Join, JoinEnds, PollerCaches, PollerSettles,
         PollerSucceeds, PollerReleases, PollerFails, RecoverOne, RecoverDrops
<1>5. status' \in [Keys -> Statuses]
  BY <1>1, <1>3, SetStatusFits DEF HandlerFits, Statuses
<1>6. HandlerFits'
  BY <1>1, <1>2, <1>5, OthersSound
<1>7. UNCHANGED CM!vars
  BY <1>2 DEF managerVars, CM!vars, SlotsHeld, HoldsSlot
<1> QED BY <1>4, <1>6, <1>7 DEF Sound, LedgerNext

LEMMA NextSound == ASSUME HandlerTypes, [Next]_vars PROVE Sound
<1>1. ASSUME NEW r \in Requests, Common(r) \/ Differs(r) PROVE Sound
  BY <1>1, CommonSound, DiffersSound
<1>2. ASSUME NEW r \in Requests, Arrive(r) \/ Step(r) \/ ClientLeaves(r)
      PROVE  Common(r) \/ Differs(r)
  BY <1>2 DEF Step, Prepares, Generates, HandlesError, ClientLeaves, Common, Differs
<1>3. CASE CooldownPasses \/ CrashAndRestart
  BY <1>3, EnvironmentSound DEF Environment, CrashAndRestart
<1>4. CASE UNCHANGED handlerVars
  BY <1>4, IdleSound
<1> QED BY <1>1, <1>2, <1>3, <1>4, PollerSound DEF Next, UpstreamEnds, Idle, vars

----------------------------------------------------------------------------
\* Coroutines, rows and the ledger keep their types.
THEOREM VideoTypesHold == Spec => []HandlerTypes
<1>1. Init => HandlerTypes
  BY InitFits, LedgerTypeInit DEF Init, HandlerInit, HandlerTypes
<1>2. HandlerTypes /\ [Next]_vars => HandlerTypes'
  BY NextSound, LedgerTypeStep DEF Sound, HandlerTypes
<1> QED BY <1>1, <1>2, PTL DEF Spec

\* Requests, pollers and recovery implement the ledger: the rows see the
\* ledger's own transactions only.
THEOREM VideoUsesLedger == Spec => LedgerSpec
<1>1. Init => LedgerInit
  BY DEF Init, HandlerInit
<1>2. HandlerTypes /\ [Next]_vars => [LedgerNext]_ledgerVars
  BY NextSound DEF Sound
<1> QED BY <1>1, <1>2, VideoTypesHold, PTL DEF Spec, LedgerSpec

\* Every slot a request takes is given back exactly once, also by a request
\* whose client left while the poller goes on.
THEOREM VideoUsesManager == Spec => CM!Spec
<1>1. Init => CM!Init
  BY DEF Init, HandlerInit
<1>2. HandlerTypes /\ [Next]_vars => [CM!Next]_(CM!vars)
  BY NextSound DEF Sound
<1> QED BY <1>1, <1>2, VideoTypesHold, PTL DEF Spec, CM!Spec

----------------------------------------------------------------------------
(***************************************************************************)
(* A key: the row has status s and quota state q, the work was taken on w  *)
(* times and is at j, and the poller is at p.                              *)
(***************************************************************************)
\* A poller works on a row that it has marked, and leaves it decided.
WithMedia == {"resolve", "fetch", "join", "joined", "cache", "charge", "close"}

Failing == {"giveBack", "fail"}

PollerFits(s, p) ==
    /\ IF p = "gone" THEN s # "polling" ELSE s # "absent"
    /\ p \in {"start", "recover", "dropped"} => s \in {"accepted", "polling"}
    /\ p \in {"poll"} \cup WithMedia \cup Failing => s = "polling"
    /\ p = "made" => s = "succeeded"
    /\ p = "failed" => s = "failed"

\* If no poller gives up: what a poller knows of the work is true.
TellsTruth(s, q, j, p) ==
    /\ p \in WithMedia \/ s = "succeeded" \/ q = "settled" => j = "made"
    /\ p \in Failing \cup {"failed"} => j = "rejected"
    /\ s = "failed" => q # "settled"

\* If nothing is posted twice either: the row tells whether the work was taken
\* on, and work that may be finished has a unit.
TellsWork(s, q, w, j) ==
    /\ w \in {0, 1} /\ (w = 0 => j = "running")
    /\ s = "absent" => w = 0
    /\ s \in {"accepted", "polling", "succeeded"} => w = 1
    /\ s = "failed" => w = 0 \/ j = "rejected"
    /\ w = 1 /\ j # "rejected" => q \in {"reserved", "settled"}

\* Where the owner of the key is.
OwnersRow(pc, s, q, p) ==
    \/ /\ pc \in {"select", "pick", "noAccount", "validate", "reserve", "handle", "next"}
       /\ s = "submitting" /\ q \in {"none", "released"} /\ p = "gone"
    \/ pc \in {"submit", "uncertain", "record"} /\ s = "submitting" /\ q = "reserved" /\ p = "gone"
    \/ pc = "raised" /\ s = "submitting" /\ q \in {"none", "released", "reserved"} /\ p = "gone"
    \/ pc \in {"giveBack", "fail"} /\ s = "submitting" /\ q \in {"reserved", "released"}
                                   /\ p = "gone"
    \/ pc \in {"giveBack", "fail"} /\ p = "failed"
    \/ pc = "accepted" /\ s = "accepted" /\ q = "reserved" /\ p = "gone"
    \/ pc = "await" /\ p \notin {"gone", "recover", "dropped"}
    \/ pc \in {"settle", "succeed", "publish", "count"} /\ p = "made"
    \/ pc = "done" /\ s # "absent"

OwnersWork(pc, s, w) ==
    /\ pc \in {"select", "pick", "noAccount", "validate", "reserve", "handle", "next",
               "submit", "raised"} => w = 0
    /\ pc \in {"giveBack", "fail"} /\ s = "submitting" => w = 0
    /\ pc = "record" => w = 1

Undisturbed == {"giveUp", "lostReply"} \cap scenario = {}

KeyFits(s, q, w, j, p) ==
    /\ s = "absent" <=> q = "absent"
    /\ PollerFits(s, p)
    /\ "giveUp" \notin scenario => TellsTruth(s, q, j, p)
    /\ Undisturbed => TellsWork(s, q, w, j)

Stands(c, s, q, w, p) ==
    /\ Claims(c)
    /\ c.claim = "owner" => OwnersRow(c.pc, s, q, p)
    /\ c.claim = "owner" /\ Undisturbed => OwnersWork(c.pc, s, w)

PollerPlaces == {"gone", "dropped", "recover", "start", "poll", "made", "failed"}
                    \cup WithMedia \cup Failing

VideoFits ==
    /\ poller \in [Keys -> PollerPlaces]
    /\ job \in [Keys -> {"running", "made", "rejected"}]

KeysFit ==
    /\ \A r \in Requests :
          LET k == KeyOf[r] IN Stands(req[r], status[k], quota[k], accepted[k], poller[k])
    /\ \A k \in Keys : KeyFits(status[k], quota[k], accepted[k], job[k], poller[k])
    /\ OneOwner

----------------------------------------------------------------------------
(***************************************************************************)
(* What the steps do to a key.                                             *)
(***************************************************************************)
RowOf(k) == <<status[k], quota[k], accepted[k], job[k], poller[k]>>

Fit(k) == KeyFits(status[k], quota[k], accepted[k], job[k], poller[k])

Stand(r) ==
    LET k == KeyOf[r] IN Stands(req[r], status[k], quota[k], accepted[k], poller[k])

PromiseKept(k) == [Promise(k)!PromiseNext]_(Promise(k)!promiseVars)

OutcomeKept(k) ==
    /\ status[k] \in {"succeeded", "failed"} => status'[k] = status[k]
    /\ quota[k] = "settled" /\ "giveUp" \notin scenario =>
          quota'[k] = "settled" /\ status'[k] # "failed"

Kept(k) == OutcomeKept(k) /\ (Undisturbed => PromiseKept(k))

LEMMA Outcomes ==
    /\ StatusOutcome["absent"] = "new"
    /\ StatusOutcome["submitting"] = "open"
    /\ StatusOutcome["accepted"] = "open" /\ StatusOutcome["polling"] = "open"
    /\ StatusOutcome["succeeded"] = "delivered"
    /\ StatusOutcome["failed"] = "refused"
    /\ StatusOutcome["unknown"] = "unsure"
BY DEF StatusOutcome

\* A key that nobody touches.
LEMMA UntouchedKept ==
    ASSUME NEW k \in Keys, Fit(k), UNCHANGED RowOf(k), scenario' = scenario
    PROVE  Fit(k)' /\ Kept(k)
<1>1. Kept(k)
  BY DEF RowOf, Fit, KeyFits, TellsTruth, Kept, OutcomeKept, PromiseKept, Promise!promiseVars
<1>2. Fit(k)'
  BY DEF RowOf, Fit, KeyFits, TellsTruth, TellsWork, PollerFits, Undisturbed
<1> QED BY <1>1, <1>2

\* What a step of request r may do to its key.
Proper(r) ==
    LET k == KeyOf[r] IN
    /\ \A i \in Keys \ {k} : UNCHANGED RowOf(i)
    /\ Stand(r)' /\ Fit(k)' /\ Kept(k)
    /\ UNCHANGED RowOf(k) \/ IsOwner(r) \/ status[k] = "absent"
    /\ IsOwner(r)' => IsOwner(r) \/ status[k] = "absent"

\* An owner has a row.
LEMMA OwnersHaveRows ==
    ASSUME KeysFit, NEW r \in Requests, IsOwner(r)
    PROVE  status[KeyOf[r]] # "absent"
<1>1. OwnersRow(req[r].pc, status[KeyOf[r]], quota[KeyOf[r]], poller[KeyOf[r]])
      /\ PollerFits(status[KeyOf[r]], poller[KeyOf[r]])
  BY DEF KeysFit, Stands, IsOwner, KeyFits
<1> QED BY <1>1 DEF OwnersRow, PollerFits, WithMedia, Failing

LEMMA ProperKeeps ==
    ASSUME HandlerFits, KeysFit, NEW r \in Requests, Moves(r), Proper(r), scenario' = scenario
    PROVE  KeysFit' /\ \A k \in Keys : Kept(k)
<1> DEFINE k == KeyOf[r]
<1>1. k \in Keys /\ \A q \in Requests : KeyOf[q] \in Keys
  OBVIOUS
<1>2. \A q \in Requests \ {r} : req'[q] = req[q]
  BY DEF HandlerFits, Moves, GoesTo
<1>3. \A q \in Requests \ {r} : IsOwner(q)' <=> IsOwner(q)
  BY <1>2 DEF IsOwner
<1>4. OneOwner'
  <2>1. ASSUME NEW q \in Requests \ {r}, IsOwner(r)', IsOwner(q), KeyOf[q] = k PROVE FALSE
    BY <2>1, OwnersHaveRows DEF Proper, KeysFit, OneOwner
  <2> QED BY <1>3, <2>1 DEF OneOwner, KeysFit
<1>5. ASSUME NEW i \in Keys PROVE Fit(i)' /\ Kept(i)
  <2>1. CASE i = k
    BY <2>1 DEF Proper
  <2>2. CASE i # k
    BY <2>2, UntouchedKept DEF Proper, KeysFit, Fit
  <2> QED BY <2>1, <2>2
<1>6. ASSUME NEW q \in Requests PROVE Stand(q)'
  <2>1. CASE q = r
    BY <2>1 DEF Proper
  <2>2. CASE q # r /\ UNCHANGED RowOf(KeyOf[q])
    BY <1>2, <2>2 DEF KeysFit, Stand, RowOf, Stands, Claims, Undisturbed
  <2>3. CASE q # r /\ ~UNCHANGED RowOf(KeyOf[q])
    <3>1. KeyOf[q] = k /\ (IsOwner(r) \/ status[k] = "absent")
      BY <1>1, <2>3 DEF Proper
    <3>2. ~IsOwner(q)
      BY <2>3, <3>1, OwnersHaveRows DEF KeysFit, OneOwner
    <3> QED BY <1>2, <2>3, <3>2 DEF KeysFit, Stand, Stands, Claims, IsOwner
  <2> QED BY <2>1, <2>2, <2>3
<1> QED BY <1>4, <1>5, <1>6 DEF KeysFit, Stand, Fit

----------------------------------------------------------------------------
\* In these places a coroutine owns its key.
LEMMA OwnerAt ==
    ASSUME HandlerFits, KeysFit, NEW r \in Requests,
           req[r].pc \in {"reserve", "submit", "record", "accepted", "await", "giveBack", "fail",
                          "uncertain", "settle", "succeed", "publish", "count"}
    PROVE  IsOwner(r)
BY DEF HandlerFits, KeysFit, Stands, Claims, Coroutines, IsOwner

\* A step that leaves all rows alone.
LEMMA RowsStay ==
    ASSUME KeysFit, NEW r \in Requests, UNCHANGED <<status, quota, accepted, job, poller, scenario>>,
           IsOwner(r)' => IsOwner(r),
           Stands(req'[r], status[KeyOf[r]], quota[KeyOf[r]], accepted[KeyOf[r]], poller[KeyOf[r]])
    PROVE  Proper(r)
<1>1. \A k \in Keys : UNCHANGED RowOf(k)
  BY DEF RowOf
<1>2. Stand(r)'
  BY DEF Stand, Stands, Claims, Undisturbed
<1>3. KeyOf[r] \in Keys /\ Fit(KeyOf[r])
  BY DEF KeysFit, Fit
<1> QED BY <1>1, <1>2, <1>3, UntouchedKept DEF Proper

LEMMA SearchProper ==
    ASSUME HandlerFits, KeysFit, NEW r \in Requests, Searches(r), UNCHANGED <<videoVars, scenario>>
    PROVE  Proper(r)
<1> DEFINE c == req[r]
           k == KeyOf[r]
<1>1. Stands(c, status[k], quota[k], accepted[k], poller[k])
  BY DEF KeysFit
<1>2. /\ UNCHANGED <<status, quota, accepted>>
      /\ \/ req'[r].claim = c.claim /\ Way(c.pc, req'[r].pc, c.claim)
         \/ req'[r].pc = "replay" /\ req'[r].claim = "duplicate"
  BY SearchGoes
<1>3. IsOwner(r)' => IsOwner(r)
  BY <1>2 DEF IsOwner
<1>4. Claims(req'[r])
  BY <1>1, <1>2 DEF Stands, Claims, Way, InExcept
<1>5. ASSUME req'[r].claim = "owner"
      PROVE  /\ OwnersRow(req'[r].pc, status[k], quota[k], poller[k])
             /\ Undisturbed => OwnersWork(req'[r].pc, status[k], accepted[k])
  <2>1. /\ OwnersRow(c.pc, status[k], quota[k], poller[k])
        /\ Undisturbed => OwnersWork(c.pc, status[k], accepted[k])
        /\ c.claim = "owner" /\ Way(c.pc, req'[r].pc, c.claim)
    BY <1>1, <1>2, <1>5 DEF Stands
  <2>2. status[k] # "absent"
    BY <2>1, OwnersHaveRows DEF IsOwner
  <2>3. OwnersRow(req'[r].pc, status[k], quota[k], poller[k])
    BY <2>1, <2>2 DEF OwnersRow, Way, InExcept
  <2>4. Undisturbed => OwnersWork(req'[r].pc, status[k], accepted[k])
    BY <2>1 DEF OwnersRow, OwnersWork, Way, InExcept
  <2> QED BY <2>3, <2>4
<1>6. Stands(req'[r], status[k], quota[k], accepted[k], poller[k])
  BY <1>4, <1>5 DEF Stands
<1> QED BY <1>2, <1>3, <1>6, RowsStay DEF videoVars

----------------------------------------------------------------------------
\* The owner writes its row.
LEMMA OwnerWrites ==
    ASSUME NEW r \in Requests, IsOwner(r), req'[r].claim = req[r].claim,
           job' = job, scenario' = scenario,
           \A i \in Keys \ {KeyOf[r]} : UNCHANGED RowOf(i),
           NEW s, status'[KeyOf[r]] = s,
           NEW q, quota'[KeyOf[r]] = q,
           NEW w, accepted'[KeyOf[r]] = w,
           NEW p, poller'[KeyOf[r]] = p,
           OwnersRow(req'[r].pc, s, q, p),
           Undisturbed => OwnersWork(req'[r].pc, s, w),
           KeyFits(s, q, w, job[KeyOf[r]], p),
           Kept(KeyOf[r])
    PROVE  Proper(r)
<1>1. Stand(r)'
  BY DEF Stand, Stands, Claims, IsOwner, Undisturbed
<1>2. Fit(KeyOf[r])'
  BY DEF Fit, KeyFits, TellsTruth, TellsWork, PollerFits, Undisturbed
<1> QED BY <1>1, <1>2 DEF Proper

\* What is known of an owner's row.
LEMMA OwnerFacts ==
    ASSUME KeysFit, NEW r \in Requests, IsOwner(r)
    PROVE  LET k == KeyOf[r] IN
           /\ OwnersRow(req[r].pc, status[k], quota[k], poller[k])
           /\ Undisturbed => OwnersWork(req[r].pc, status[k], accepted[k])
           /\ KeyFits(status[k], quota[k], accepted[k], job[k], poller[k])
BY DEF KeysFit, Stands, IsOwner

\* Freezing a unit and calling the upstream.
LEMMA CallProper ==
    ASSUME HandlerTypes, KeysFit, NEW r \in Requests, scenario' = scenario,
           ReserveOk(r) \/ Submitted(r) \/ TimedOut(r) \/ Refused(r), UNCHANGED videoVars
    PROVE  Proper(r)
<1> DEFINE c == req[r]
           k == KeyOf[r]
           Now(pc) == req'[r].pc = pc /\ req'[r].claim = c.claim
<1>1. HandlerFits /\ k \in Keys /\ req \in [Requests -> Coroutines]
  BY DEF HandlerTypes, HandlerFits
<1>2. IsOwner(r)
  BY <1>1, OwnerAt DEF ReserveOk, Submitted, Taken, TimedOut, Refused
<1>3. /\ OwnersRow(c.pc, status[k], quota[k], poller[k])
      /\ Undisturbed => OwnersWork(c.pc, status[k], accepted[k])
      /\ KeyFits(status[k], quota[k], accepted[k], job[k], poller[k])
  BY <1>2, OwnerFacts
<1>4. status' = status /\ poller' = poller /\ job' = job
  BY DEF ReserveOk, Submitted, Taken, TimedOut, Refused, videoVars
<1>5. /\ c.pc \in {"reserve", "submit"}
      /\ status[k] = "submitting" /\ poller[k] = "gone"
      /\ quota[k] \in IF c.pc = "reserve" THEN {"none", "released"} ELSE {"reserved"}
      /\ Undisturbed => accepted[k] = 0 /\ job[k] = "running"
  <2>1. c.pc \in {"reserve", "submit"}
    BY DEF ReserveOk, Submitted, Taken, TimedOut, Refused
  <2> QED BY <1>3, <2>1 DEF OwnersRow, OwnersWork, KeyFits, TellsWork
<1>6. CASE ReserveOk(r)
  <2>1. Now("submit") /\ c.pc = "reserve" /\ accepted' = accepted
    BY <1>1, <1>6, WentTo DEF ReserveOk
  <2>2. quota'[k] = "reserved" /\ \A i \in Keys \ {k} : quota'[i] = quota[i]
    BY <1>1, <1>6, QuotaWritten DEF ReserveOk
  <2>3. OwnersRow("submit", status[k], "reserved", poller[k])
        /\ (Undisturbed => OwnersWork("submit", status[k], accepted[k]))
    BY <1>5 DEF OwnersRow, OwnersWork
  <2>4. KeyFits(status[k], "reserved", accepted[k], job[k], poller[k])
    BY <1>3, <1>5, <2>1 DEF KeyFits, TellsTruth, TellsWork
  <2>5. Kept(k)
    BY <1>4, <1>5, <2>1, <2>2 DEF Kept, OutcomeKept, PromiseKept, Promise!promiseVars
  <2> QED BY <1>2, <1>4, <2>1, <2>2, <2>3, <2>4, <2>5, OwnerWrites DEF RowOf
<1>7. CASE ~ReserveOk(r)
  <2>1. quota' = quota /\ c.pc = "submit"
    BY <1>7 DEF Submitted, Taken, TimedOut, Refused, ledgerVars
  <2> DEFINE Ends(pc, n) == /\ Now(pc) /\ TakenOn(k, n)
                            /\ Undisturbed => /\ n \in {0, 1}
                                              /\ pc = "record" => n = 1
                                              /\ pc = "raised" => n = 0
  <2>2. PICK pc \in {"record", "uncertain", "raised"}, n \in {0, 1, 2} : Ends(pc, n)
    <3>1. CASE Submitted(r)
      <4>1. Now("record")
        BY <1>1, <3>1, WentTo DEF Submitted, Taken
      <4>2. \E n \in {1, 2} : TakenOn(k, n) /\ (Undisturbed => n = 1)
        BY <3>1 DEF Submitted, Taken, LostReplies, Undisturbed
      <4> QED BY <4>1, <4>2
    <3>2. CASE TimedOut(r)
      <4>1. Now("uncertain")
        BY <1>1, <3>2, WentTo DEF TimedOut
      <4> QED BY <3>2, <4>1 DEF TimedOut
    <3>3. CASE Refused(r)
      <4>1. PICK error \in Errors :
               req' = [req EXCEPT ![r] = [c EXCEPT !.pc = "raised", !.err = error]]
        BY <3>3 DEF Refused
      <4>2. c \in Coroutines
        BY <1>1
      <4>3. Now("raised")
        BY <1>1, <4>1, <4>2 DEF Coroutines
      <4>4. \E n \in {0, 1} : TakenOn(k, n) /\ (Undisturbed => n = 0)
        BY <3>3 DEF Refused, LostReplies, Undisturbed
      <4> QED BY <4>3, <4>4
    <3> QED BY <1>7, <3>1, <3>2, <3>3
  <2>3. accepted'[k] = accepted[k] + n /\ \A i \in Keys \ {k} : accepted'[i] = accepted[i]
    BY <1>1, <2>2, WorkCounted
  <2>4. /\ OwnersRow(pc, status[k], quota[k], poller[k])
        /\ Undisturbed => OwnersWork(pc, status[k], accepted'[k])
    BY <1>5, <2>1, <2>2, <2>3 DEF OwnersRow, OwnersWork
  <2>5. KeyFits(status[k], quota[k], accepted'[k], job[k], poller[k])
    BY <1>3, <1>5, <2>1, <2>2, <2>3 DEF KeyFits, TellsWork
  <2>6. Kept(k)
    BY <1>4, <1>5, <2>1, <2>2, <2>3, Outcomes
    DEF Kept, OutcomeKept, PromiseKept, Promise!promiseVars, Promise!PromiseNext, Promise!TakeOn
  <2> QED BY <1>2, <1>4, <2>1, <2>2, <2>3, <2>4, <2>5, <2>6, OwnerWrites DEF RowOf
<1> QED BY <1>6, <1>7

\* The work is accepted, its poller is started, and the request is cancelled
\* in between.
LEMMA AcceptedProper ==
    ASSUME HandlerTypes, VideoFits, KeysFit, NEW r \in Requests, scenario' = scenario,
           \/ (RecordAccepted(r) \/ CancelAfterAccepted(r)) /\ UNCHANGED videoVars
           \/ StartPoll(r)
    PROVE  Proper(r)
<1> DEFINE c == req[r]
           k == KeyOf[r]
           Now(pc) == req'[r].pc = pc /\ req'[r].claim = c.claim
<1>1. HandlerFits /\ k \in Keys
  BY DEF HandlerTypes
<1>2. IsOwner(r) /\ c.pc \in {"record", "accepted"}
  BY <1>1, OwnerAt DEF RecordAccepted, CancelAfterAccepted, StartPoll
<1>3. /\ OwnersRow(c.pc, status[k], quota[k], poller[k])
      /\ Undisturbed => OwnersWork(c.pc, status[k], accepted[k])
      /\ KeyFits(status[k], quota[k], accepted[k], job[k], poller[k])
  BY <1>2, OwnerFacts
<1>4. /\ quota' = quota /\ accepted' = accepted /\ job' = job
      /\ poller[k] = "gone" /\ quota[k] = "reserved"
      /\ status[k] = IF c.pc = "record" THEN "submitting" ELSE "accepted"
      /\ Undisturbed => accepted[k] = 1
  BY <1>2, <1>3 DEF RecordAccepted, CancelAfterAccepted, StartPoll, videoVars, ledgerVars,
                    OwnersRow, OwnersWork, KeyFits, TellsWork
<1>5. CASE RecordAccepted(r) \/ CancelAfterAccepted(r)
  <2>1. Now("accepted") \/ Now("done")
    BY <1>1, <1>5, WentTo, Left DEF RecordAccepted, CancelAfterAccepted
  <2>2. c.pc = "record" /\ SetStatus(k, "accepted") /\ poller' = poller
    BY <1>5 DEF RecordAccepted, CancelAfterAccepted, StartPoll, videoVars
  <2>3. status'[k] = "accepted" /\ \A i \in Keys \ {k} : status'[i] = status[i]
    BY <1>1, <1>4, <2>2, StatusWritten
  <2>4. /\ OwnersRow(req'[r].pc, "accepted", quota[k], poller[k])
        /\ OwnersWork(req'[r].pc, "accepted", accepted[k])
    BY <1>4, <2>1 DEF OwnersRow, OwnersWork
  <2>5. KeyFits("accepted", quota[k], accepted[k], job[k], poller[k])
    BY <1>3, <1>4, <2>2 DEF KeyFits, PollerFits, TellsTruth, TellsWork, WithMedia, Failing
  <2>6. Kept(k)
    BY <1>4, <2>2, <2>3, Outcomes DEF Kept, OutcomeKept, PromiseKept, Promise!promiseVars
  <2> QED BY <1>2, <1>4, <2>1, <2>2, <2>3, <2>4, <2>5, <2>6, OwnerWrites DEF RowOf
<1>6. CASE StartPoll(r)
  <2>1. Now("await") /\ c.pc = "accepted" /\ status' = status
    BY <1>1, <1>6, WentTo DEF StartPoll
  <2>2. poller'[k] = "start" /\ \A i \in Keys \ {k} : poller'[i] = poller[i]
    BY <1>1, <1>6 DEF StartPoll, VideoFits
  <2>3. /\ OwnersRow("await", status[k], quota[k], "start")
        /\ OwnersWork("await", status[k], accepted[k])
    BY DEF OwnersRow, OwnersWork
  <2>4. KeyFits(status[k], quota[k], accepted[k], job[k], "start")
    BY <1>3, <1>4, <2>1 DEF KeyFits, PollerFits, TellsTruth, WithMedia, Failing
  <2>5. Kept(k)
    BY <1>4, <2>1 DEF Kept, OutcomeKept, PromiseKept, Promise!promiseVars
  <2> QED BY <1>2, <1>4, <2>1, <2>2, <2>3, <2>4, <2>5, OwnerWrites DEF RowOf
<1> QED BY <1>5, <1>6

\* The end of the poller, charging or giving back what it may have left, and
\* closing the task.
LEMMA EndProper ==
    ASSUME HandlerTypes, VideoFits, KeysFit, NEW r \in Requests, scenario' = scenario,
           \/ PollDone(r) \/ Settle(r) \/ Succeed(r) \/ GiveBack(r) \/ Fail(r) \/ MarkUnknown(r),
           UNCHANGED videoVars
    PROVE  Proper(r)
<1> DEFINE c == req[r]
           k == KeyOf[r]
           Now(pc) == req'[r].pc = pc /\ req'[r].claim = c.claim
<1>1. HandlerFits /\ k \in Keys
  BY DEF HandlerTypes
<1>2. IsOwner(r)
  BY <1>1, OwnerAt DEF PollDone, Settle, Succeed, GiveBack, Fail, MarkUnknown
<1>3. /\ OwnersRow(c.pc, status[k], quota[k], poller[k])
      /\ Undisturbed => OwnersWork(c.pc, status[k], accepted[k])
      /\ KeyFits(status[k], quota[k], accepted[k], job[k], poller[k])
      /\ status[k] # "absent"
  BY <1>2, OwnerFacts, OwnersHaveRows
<1>4. poller' = poller /\ job' = job /\ accepted' = accepted
  BY DEF PollDone, Settle, Succeed, GiveBack, Fail, MarkUnknown, videoVars
<1> USE DEF RowOf
<1>5. CASE PollDone(r)
  <2>1. PICK p \in {"made", "failed"}, to \in {"settle", "giveBack"} :
           /\ poller[k] = p /\ to = IF p = "made" THEN "settle" ELSE "giveBack"
           /\ req' = [req EXCEPT ![r].pc = to]
    BY <1>5 DEF PollDone
  <2>2. Now(to)
    <3>1. req' = [req EXCEPT ![r].pc = to]
      BY <2>1
    <3> QED BY <1>1, <3>1, WentTo
  <2>3. UNCHANGED <<status, quota, accepted, job, poller, scenario>>
    BY <1>4, <1>5 DEF PollDone, ledgerVars
  <2>4. /\ OwnersRow(req'[r].pc, status[k], quota[k], poller[k])
        /\ OwnersWork(req'[r].pc, status[k], accepted[k])
    BY <1>3, <2>1, <2>2 DEF OwnersRow, OwnersWork, KeyFits, PollerFits
  <2>5. Stands(req'[r], status[k], quota[k], accepted[k], poller[k])
    BY <1>2, <2>2, <2>4 DEF Stands, Claims, IsOwner
  <2> QED BY <1>2, <2>2, <2>3, <2>5, RowsStay
<1>6. CASE Settle(r)
  <2>1. Now("succeed") /\ c.pc = "settle" /\ status' = status
    BY <1>1, <1>6, WentTo DEF Settle
  <2>2. /\ quota'[k] = IF quota[k] = "reserved" THEN "settled" ELSE quota[k]
        /\ \A i \in Keys \ {k} : quota'[i] = quota[i]
    BY <1>1, <1>6, QuotaWritten DEF Settle
  <2>3. poller[k] = "made" /\ status[k] = "succeeded"
    BY <1>3, <2>1 DEF OwnersRow, KeyFits, PollerFits
  <2>4. /\ OwnersRow("succeed", status[k], quota'[k], poller[k])
        /\ OwnersWork("succeed", status[k], accepted[k])
    BY <2>3 DEF OwnersRow, OwnersWork
  <2>5. KeyFits(status[k], quota'[k], accepted[k], job[k], poller[k])
    BY <1>3, <2>2, <2>3 DEF KeyFits, TellsTruth, TellsWork
  <2>6. Kept(k)
    BY <1>4, <2>1, <2>2, <2>3 DEF Kept, OutcomeKept, PromiseKept, Promise!promiseVars
  <2> QED BY <1>2, <1>4, <2>1, <2>2, <2>4, <2>5, <2>6, OwnerWrites
<1>7. CASE Succeed(r)
  <2>1. Now("publish") /\ c.pc = "succeed" /\ quota' = quota
    BY <1>1, <1>7, WentTo DEF Succeed, ledgerVars
  <2>2. poller[k] = "made" /\ status[k] = "succeeded"
    BY <1>3, <2>1 DEF OwnersRow, KeyFits, PollerFits
  <2>3. status'[k] = "succeeded" /\ \A i \in Keys \ {k} : status'[i] = status[i]
    BY <1>1, <1>7, <2>2, StatusWritten DEF Succeed
  <2>4. /\ OwnersRow("publish", "succeeded", quota[k], poller[k])
        /\ OwnersWork("publish", "succeeded", accepted[k])
    BY <2>2 DEF OwnersRow, OwnersWork
  <2>5. Kept(k)
    BY <1>4, <2>1, <2>2, <2>3 DEF Kept, OutcomeKept, PromiseKept, Promise!promiseVars
  <2> QED BY <1>2, <1>3, <1>4, <2>1, <2>2, <2>3, <2>4, <2>5, OwnerWrites
<1>8. CASE GiveBack(r)
  <2>1. Now("fail") /\ c.pc = "giveBack" /\ status' = status
    BY <1>1, <1>8, WentTo DEF GiveBack
  <2>2. /\ quota'[k] = IF quota[k] = "reserved" THEN "released" ELSE quota[k]
        /\ \A i \in Keys \ {k} : quota'[i] = quota[i]
    BY <1>1, <1>8, QuotaWritten DEF GiveBack
  <2>3. \/ status[k] = "submitting" /\ poller[k] = "gone"
        \/ status[k] = "failed" /\ poller[k] = "failed"
    BY <1>3, <2>1 DEF OwnersRow, KeyFits, PollerFits
  <2>4. /\ OwnersRow("fail", status[k], quota'[k], poller[k])
        /\ Undisturbed => OwnersWork("fail", status[k], accepted[k])
    BY <1>3, <2>1, <2>2, <2>3 DEF OwnersRow, OwnersWork
  <2>5. KeyFits(status[k], quota'[k], accepted[k], job[k], poller[k])
    BY <1>3, <2>1, <2>2, <2>3 DEF KeyFits, TellsTruth, TellsWork, OwnersWork
  <2>6. Kept(k)
    BY <1>3, <1>4, <2>1, <2>2, <2>3
    DEF Kept, OutcomeKept, PromiseKept, Promise!promiseVars, KeyFits, TellsTruth
  <2> QED BY <1>2, <1>4, <2>1, <2>2, <2>4, <2>5, <2>6, OwnerWrites
<1>9. CASE Fail(r)
  <2>1. Now("done") /\ c.pc = "fail" /\ quota' = quota
    BY <1>1, <1>9, Left DEF Fail, ledgerVars
  <2>2. \/ status[k] = "submitting" /\ poller[k] = "gone" /\ quota[k] # "settled"
        \/ status[k] = "failed" /\ poller[k] = "failed"
    BY <1>3, <2>1 DEF OwnersRow, KeyFits, PollerFits
  <2>3. status'[k] = "failed" /\ \A i \in Keys \ {k} : status'[i] = status[i]
    BY <1>1, <1>3, <1>9, StatusWritten DEF Fail
  <2>4. /\ OwnersRow("done", "failed", quota[k], poller[k])
        /\ OwnersWork("done", "failed", accepted[k])
    BY DEF OwnersRow, OwnersWork
  <2>5. KeyFits("failed", quota[k], accepted[k], job[k], poller[k])
    BY <1>3, <2>1, <2>2 DEF KeyFits, PollerFits, TellsTruth, TellsWork, OwnersWork, WithMedia, Failing
  <2>6. Kept(k)
    BY <1>3, <1>4, <2>1, <2>2, <2>3, Outcomes
    DEF Kept, OutcomeKept, PromiseKept, Promise!promiseVars, Promise!PromiseNext, Promise!Refuse,
        KeyFits, TellsTruth, OwnersWork
  <2> QED BY <1>2, <1>4, <2>1, <2>3, <2>4, <2>5, <2>6, OwnerWrites
<1>10. CASE MarkUnknown(r)
  <2>1. Now("done") /\ c.pc = "uncertain" /\ quota' = quota
    BY <1>1, <1>10, Left DEF MarkUnknown, ledgerVars
  <2>2. status[k] = "submitting" /\ poller[k] = "gone" /\ quota[k] = "reserved"
    BY <1>3, <2>1 DEF OwnersRow
  <2>3. status'[k] = "unknown" /\ \A i \in Keys \ {k} : status'[i] = status[i]
    BY <1>1, <1>3, <1>10, StatusWritten DEF MarkUnknown
  <2>4. /\ OwnersRow("done", "unknown", quota[k], poller[k])
        /\ OwnersWork("done", "unknown", accepted[k])
    BY DEF OwnersRow, OwnersWork
  <2>5. KeyFits("unknown", quota[k], accepted[k], job[k], poller[k])
    BY <1>3, <2>2 DEF KeyFits, PollerFits, TellsTruth, TellsWork, WithMedia, Failing
  <2>6. Kept(k)
    BY <1>4, <2>1, <2>2, <2>3, Outcomes
    DEF Kept, OutcomeKept, PromiseKept, Promise!PromiseNext, Promise!Doubt
  <2> QED BY <1>2, <1>4, <2>1, <2>3, <2>4, <2>5, <2>6, OwnerWrites
<1> QED BY <1>5, <1>6, <1>7, <1>8, <1>9, <1>10

\* The unit given back after an error, the error that ends the request, and
\* the end of a request that found no account.
LEMMA ErrorProper ==
    ASSUME HandlerTypes, KeysFit, NEW r \in Requests, scenario' = scenario,
           GiveBackAfterError(r) \/ HandleRequestError(r) \/ GiveUp(r), UNCHANGED videoVars
    PROVE  Proper(r)
<1> DEFINE c == req[r]
           k == KeyOf[r]
           Now(pc) == req'[r].pc = pc /\ req'[r].claim = c.claim
<1>1. HandlerFits /\ k \in Keys /\ req \in [Requests -> Coroutines] /\ c \in Coroutines
  BY DEF HandlerTypes, HandlerFits
<1>2. Claims(c)
  BY DEF KeysFit, Stands
<1>3. Now(IF GiveBackAfterError(r) THEN "handle" ELSE "done")
  <2>1. CASE GiveBackAfterError(r)
    BY <1>1, <2>1, WentTo DEF GiveBackAfterError
  <2>2. CASE HandleRequestError(r)
    BY <1>1, <2>2, Left DEF HandleRequestError, GiveBackAfterError
  <2>3. CASE GiveUp(r)
    BY <1>1, <2>3 DEF GiveUp, Coroutines, GiveBackAfterError
  <2> QED BY <2>1, <2>2, <2>3
<1>4. c.pc = IF GiveBackAfterError(r) THEN "raised"
             ELSE IF HandleRequestError(r) THEN "handle" ELSE "noAccount"
  BY DEF GiveBackAfterError, HandleRequestError, GiveUp
<1>5. c.claim \in {"no", "owner"}
  BY <1>1, <1>2, <1>4 DEF Claims, Coroutines
<1>6. accepted' = accepted /\ job' = job /\ poller' = poller
  BY DEF GiveBackAfterError, HandleRequestError, GiveUp, videoVars
<1>7. CASE c.claim = "no"
  <2>1. UNCHANGED <<status, quota, accepted, job, poller, scenario>>
    BY <1>6, <1>7 DEF GiveBackAfterError, HandleRequestError, GiveUp, ledgerVars, IsOwner
  <2>2. Stands(req'[r], status[k], quota[k], accepted[k], poller[k])
    BY <1>3, <1>7 DEF Stands, Claims
  <2> QED BY <1>3, <2>1, <2>2, RowsStay DEF IsOwner
<1>8. CASE c.claim = "owner"
  <2>1. IsOwner(r)
    BY <1>8 DEF IsOwner
  <2>2. /\ OwnersRow(c.pc, status[k], quota[k], poller[k])
        /\ Undisturbed => OwnersWork(c.pc, status[k], accepted[k])
        /\ KeyFits(status[k], quota[k], accepted[k], job[k], poller[k])
    BY <2>1, OwnerFacts
  <2>3. /\ status[k] = "submitting" /\ poller[k] = "gone"
        /\ quota[k] \in {"none", "released", "reserved"}
        /\ Undisturbed => accepted[k] = 0 /\ job[k] = "running"
    BY <1>4, <2>2 DEF OwnersRow, OwnersWork, KeyFits, TellsWork
  <2>4. CASE GiveBackAfterError(r)
    <3>1. status' = status /\ ReleaseQuota(k)
      BY <1>8, <2>4 DEF GiveBackAfterError
    <3>2. /\ quota'[k] = IF quota[k] = "reserved" THEN "released" ELSE quota[k]
          /\ \A i \in Keys \ {k} : quota'[i] = quota[i]
      BY <1>1, <3>1, QuotaWritten
    <3>3. /\ OwnersRow("handle", status[k], quota'[k], poller[k])
          /\ Undisturbed => OwnersWork("handle", status[k], accepted[k])
      BY <2>3, <3>2 DEF OwnersRow, OwnersWork
    <3>4. KeyFits(status[k], quota'[k], accepted[k], job[k], poller[k])
      BY <2>2, <2>3, <3>2 DEF KeyFits, TellsTruth, TellsWork
    <3>5. Kept(k)
      BY <1>6, <2>3, <3>1 DEF Kept, OutcomeKept, PromiseKept, Promise!promiseVars
    <3> QED BY <1>3, <1>6, <2>1, <2>4, <3>1, <3>2, <3>3, <3>4, <3>5, OwnerWrites DEF RowOf
  <2>5. CASE ~GiveBackAfterError(r)
    <3>1. SetStatus(k, "failed") /\ MarkReleased(k)
      BY <1>8, <2>5 DEF HandleRequestError, GiveUp, IsOwner
    <3>2. /\ status'[k] = "failed" /\ quota'[k] = "released"
          /\ \A i \in Keys \ {k} : status'[i] = status[i] /\ quota'[i] = quota[i]
      BY <1>1, <2>3, <3>1, QuotaWritten, StatusWritten
    <3>3. /\ OwnersRow("done", "failed", "released", poller[k])
          /\ OwnersWork("done", "failed", accepted[k])
      BY DEF OwnersRow, OwnersWork
    <3>4. KeyFits("failed", "released", accepted[k], job[k], poller[k])
      BY <2>2, <2>3 DEF KeyFits, PollerFits, TellsTruth, TellsWork, WithMedia, Failing
    <3>5. Kept(k)
      BY <1>6, <2>3, <3>2, Outcomes
      DEF Kept, OutcomeKept, PromiseKept, Promise!PromiseNext, Promise!Refuse
    <3> QED BY <1>3, <1>6, <2>1, <2>5, <3>2, <3>3, <3>4, <3>5, OwnerWrites DEF RowOf
  <2> QED BY <2>4, <2>5
<1> QED BY <1>5, <1>7, <1>8

\* A client that leaves while its request is in the try block.
LEMMA LeavingProper ==
    ASSUME HandlerTypes, KeysFit, NEW r \in Requests, scenario' = scenario,
           CancelInTry(r) \/ Abandon(r), UNCHANGED videoVars
    PROVE  Proper(r)
<1> DEFINE c == req[r]
           k == KeyOf[r]
<1>1. HandlerFits /\ k \in Keys /\ c \in Coroutines
  BY DEF HandlerTypes, HandlerFits
<1>2. Claims(c)
  BY DEF KeysFit, Stands
<1>3. req'[r].pc = "done" /\ req'[r].claim = c.claim
  BY <1>1, Left DEF CancelInTry, Abandon
<1>4. PICK n \in {0, 1} : /\ CancelInTry(r) => TakenOn(k, n)
                          /\ ~CancelInTry(r) => n = 0 /\ accepted' = accepted
                          /\ c.pc # "submit" => n = 0
  BY DEF CancelInTry, Abandon
<1>5. /\ accepted'[k] = accepted[k] + n /\ accepted[k] \in Nat
      /\ \A i \in Keys \ {k} : accepted'[i] = accepted[i]
      /\ n = 0 => accepted' = accepted
  <2>1. accepted \in [Keys -> Nat]
    BY <1>1 DEF HandlerFits
  <2>2. CASE CancelInTry(r)
    BY <1>1, <1>4, <2>2, WorkCounted
  <2>3. CASE ~CancelInTry(r)
    BY <1>1, <1>4, <2>1, <2>3
  <2> QED BY <2>2, <2>3
<1>6. quota' = quota /\ job' = job /\ poller' = poller
  BY DEF CancelInTry, Abandon, ledgerVars, videoVars
<1>7. CASE ~IsOwner(r)
  <2>1. n = 0 /\ accepted' = accepted
    BY <1>1, <1>4, <1>5, <1>7, OwnerAt
  <2>2. UNCHANGED <<status, quota, accepted, job, poller, scenario>>
    BY <1>6, <1>7, <2>1 DEF CancelInTry, Abandon
  <2>3. Stands(req'[r], status[k], quota[k], accepted[k], poller[k])
    BY <1>1, <1>3, <1>7 DEF Stands, Claims, IsOwner, Coroutines
  <2> QED BY <1>3, <1>7, <2>2, <2>3, RowsStay DEF IsOwner
<1>8. CASE IsOwner(r)
  <2>1. /\ OwnersRow(c.pc, status[k], quota[k], poller[k])
        /\ Undisturbed => OwnersWork(c.pc, status[k], accepted[k])
        /\ KeyFits(status[k], quota[k], accepted[k], job[k], poller[k])
        /\ status[k] # "absent"
    BY <1>8, OwnerFacts, OwnersHaveRows
  <2>2. /\ status'[k] = IF CancelInTry(r) /\ status[k] = "submitting" THEN "unknown" ELSE status[k]
        /\ \A i \in Keys \ {k} : status'[i] = status[i]
    <3>1. CASE CancelInTry(r) /\ status[k] = "submitting"
      BY <1>1, <1>8, <3>1, StatusWritten DEF CancelInTry, DeclareUnknown
    <3>2. CASE ~(CancelInTry(r) /\ status[k] = "submitting")
      BY <1>8, <3>2 DEF CancelInTry, DeclareUnknown, Abandon
    <3> QED BY <3>1, <3>2
  <2>3. n = 1 => /\ status[k] = "submitting" /\ quota[k] = "reserved" /\ c.pc = "submit"
                 /\ status'[k] = "unknown"
    BY <1>4, <2>1, <2>2 DEF OwnersRow
  <2>4. /\ OwnersRow("done", status'[k], quota[k], poller[k])
        /\ OwnersWork("done", status'[k], accepted'[k])
    BY <2>1, <2>2 DEF OwnersRow, OwnersWork
  <2>5. Undisturbed => TellsWork(status'[k], quota[k], accepted'[k], job[k])
    BY <1>5, <2>1, <2>2, <2>3 DEF KeyFits, TellsWork, OwnersWork
  <2>6. status[k] = "submitting" => poller[k] \notin {"start", "recover", "dropped", "made", "failed",
                                                      "poll"} \cup WithMedia \cup Failing
    BY <2>1 DEF KeyFits, PollerFits
  <2>7. KeyFits(status'[k], quota[k], accepted'[k], job[k], poller[k])
    BY <2>1, <2>2, <2>5, <2>6 DEF KeyFits, PollerFits, TellsTruth
  <2>8. Undisturbed => PromiseKept(k)
    BY <1>5, <1>6, <2>1, <2>2, <2>3, Outcomes
    DEF KeyFits, TellsWork, OwnersWork, PromiseKept, Promise!promiseVars, Promise!PromiseNext,
        Promise!Doubt
  <2>9. Kept(k)
    BY <1>6, <2>1, <2>2, <2>8 DEF Kept, OutcomeKept, KeyFits, TellsTruth
  <2> QED BY <1>3, <1>5, <1>6, <1>8, <2>2, <2>4, <2>7, <2>9, OwnerWrites DEF RowOf
<1> QED BY <1>7, <1>8

\* Claiming the key.
LEMMA ClaimProper ==
    ASSUME HandlerTypes, KeysFit, NEW r \in Requests, scenario' = scenario,
           ClaimCreates(r) \/ CancelAfterClaim(r), UNCHANGED videoVars
    PROVE  Proper(r)
<1> DEFINE c == req[r]
           k == KeyOf[r]
<1>1. HandlerFits /\ k \in Keys /\ c \in Coroutines /\ req \in [Requests -> Coroutines]
  BY DEF HandlerTypes, HandlerFits
<1>2. /\ ClaimKey(k, c.tok) /\ status' = [status EXCEPT ![k] = "submitting"] /\ c.pc = "claim"
      /\ accepted' = accepted /\ job' = job /\ poller' = poller
  BY DEF ClaimCreates, CancelAfterClaim, videoVars
<1>3. /\ quota[k] = "absent" /\ status[k] = "absent"
      /\ KeyFits(status[k], quota[k], accepted[k], job[k], poller[k])
  BY <1>1, <1>2 DEF ClaimKey, KeysFit, KeyFits
<1>4. /\ status'[k] = "submitting" /\ quota'[k] = "none"
      /\ \A i \in Keys \ {k} : status'[i] = status[i] /\ quota'[i] = quota[i]
  BY <1>1, <1>2 DEF HandlerTypes, HandlerFits, LedgerTypeOK, ClaimKey
<1>5. c.claim = "no"
  BY <1>1, <1>2 DEF KeysFit, Stands, Claims, OwnersRow, Coroutines
<1>6. poller[k] = "gone" /\ (Undisturbed => accepted[k] = 0 /\ job[k] = "running")
  BY <1>3 DEF KeyFits, PollerFits, TellsWork
<1>7. Kept(k)
  BY <1>2, <1>3, <1>4, <1>6, Outcomes
  DEF Kept, OutcomeKept, PromiseKept, Promise!PromiseNext, Promise!Open
<1>8. Fit(k)'
  <2>1. KeyFits("submitting", "none", accepted[k], job[k], poller[k])
    BY <1>3, <1>6 DEF KeyFits, PollerFits, TellsTruth, TellsWork, WithMedia, Failing
  <2> QED BY <1>2, <1>4, <2>1 DEF Fit, KeyFits, TellsTruth, TellsWork, PollerFits, Undisturbed
<1>9. Stands(req'[r], "submitting", "none", accepted[k], poller[k])
  <2>1. CASE ClaimCreates(r)
    <3>1. req' = [req EXCEPT ![r] = [c EXCEPT !.pc = "reserve", !.claim = "owner"]]
      BY <2>1 DEF ClaimCreates
    <3>2. req'[r].pc = "reserve" /\ req'[r].claim = "owner"
      BY <1>1, <3>1 DEF Coroutines
    <3> QED BY <1>6, <3>2 DEF Stands, Claims, OwnersRow, OwnersWork
  <2>2. CASE CancelAfterClaim(r)
    <3>1. req'[r].pc = "done" /\ req'[r].claim = "no"
      BY <1>1, <1>5, <2>2, Left DEF CancelAfterClaim
    <3> QED BY <3>1 DEF Stands, Claims
  <2> QED BY <2>1, <2>2
<1>10. Stand(r)'
  BY <1>2, <1>4, <1>9 DEF Stand, Stands, Claims, Undisturbed
<1> QED BY <1>2, <1>3, <1>4, <1>7, <1>8, <1>10 DEF Proper, RowOf

----------------------------------------------------------------------------
\* A step of the surroundings of k, while no request moves.
LEMMA KeyMoves ==
    ASSUME HandlerTypes, KeysFit, scenario' = scenario, UNCHANGED req,
           NEW k \in Keys, \A i \in Keys \ {k} : UNCHANGED RowOf(i),
           Fit(k)', Kept(k),
           \A r \in Requests : KeyOf[r] = k => Stand(r)'
    PROVE  KeysFit' /\ \A i \in Keys : Kept(i)
<1>1. ASSUME NEW i \in Keys PROVE Fit(i)' /\ Kept(i)
  <2>1. CASE i # k
    BY <2>1, UntouchedKept DEF KeysFit, Fit
  <2> QED BY <2>1
<1>2. ASSUME NEW r \in Requests PROVE Stand(r)'
  <2>1. CASE KeyOf[r] # k
    <3>1. UNCHANGED RowOf(KeyOf[r])
      BY <2>1
    <3> QED BY <3>1 DEF KeysFit, Stand, RowOf, Stands, Claims, Undisturbed
  <2> QED BY <2>1
<1>3. OneOwner'
  BY DEF KeysFit, OneOwner, IsOwner
<1> QED BY <1>1, <1>2, <1>3 DEF KeysFit, Stand, Fit

\* The poller of k goes from one place to another.
LEMMA PollerGoes ==
    ASSUME HandlerTypes, VideoFits, KeysFit, scenario' = scenario, NEW k \in Keys,
           NEW from, NEW to, Move(k, from, to),
           from \notin {"gone", "made", "failed"}, to \notin {"gone", "recover"},
           to = "dropped" => from = "recover",
           NEW s, status'[k] = s, s # "absent", \A i \in Keys \ {k} : status'[i] = status[i],
           NEW q, quota'[k] = q, \A i \in Keys \ {k} : quota'[i] = quota[i],
           KeyFits(s, q, accepted[k], job[k], to),
           Kept(k)
    PROVE  KeysFit' /\ \A i \in Keys : Kept(i)
<1>1. /\ poller[k] = from /\ poller'[k] = to /\ accepted' = accepted /\ job' = job
      /\ \A i \in Keys \ {k} : poller'[i] = poller[i]
      /\ UNCHANGED req
  BY DEF Move, VideoFits
<1>2. \A i \in Keys \ {k} : UNCHANGED RowOf(i)
  BY <1>1 DEF RowOf
<1>3. Fit(k)'
  BY <1>1 DEF Fit, KeyFits, TellsTruth, TellsWork, PollerFits, Undisturbed
<1>4. ASSUME NEW r \in Requests, KeyOf[r] = k PROVE Stand(r)'
  <2>1. Claims(req[r])
    BY DEF KeysFit, Stands
  <2>2. CASE ~IsOwner(r)
    BY <1>1, <2>1, <2>2 DEF Stand, Stands, Claims, IsOwner
  <2>3. CASE IsOwner(r)
    <3>1. OwnersRow(req[r].pc, status[k], quota[k], from)
      BY <1>1, <1>4, <2>3, OwnerFacts
    <3>2. req[r].pc = "done" \/ (req[r].pc = "await" /\ from # "recover")
      BY <3>1 DEF OwnersRow
    <3>3. OwnersRow(req[r].pc, s, q, to) /\ OwnersWork(req[r].pc, s, accepted[k])
      BY <3>2 DEF OwnersRow, OwnersWork
    <3> QED BY <1>1, <1>4, <2>1, <3>3 DEF Stand, Stands, Claims, Undisturbed
  <2> QED BY <2>2, <2>3
<1> QED BY <1>1, <1>2, <1>3, <1>4, KeyMoves

LEMMA PollerKeeps ==
    ASSUME HandlerTypes, VideoFits, KeysFit, NEW k \in Keys, PollerStep(k)
    PROVE  KeysFit' /\ \A i \in Keys : Kept(i)
<1> DEFINE s == status[k]
           q == quota[k]
           w == accepted[k]
           j == job[k]
           p == poller[k]
           Moved(from, to) == /\ Move(k, from, to)
                              /\ from \notin {"gone", "made", "failed"}
                              /\ to \notin {"gone", "recover"}
                              /\ to = "dropped" => from = "recover"
<1>1. scenario' = scenario /\ HandlerFits
  BY DEF PollerStep, HandlerTypes
<1>2. /\ s = "absent" <=> q = "absent"
      /\ PollerFits(s, p)
      /\ "giveUp" \notin scenario => TellsTruth(s, q, j, p)
      /\ Undisturbed => "giveUp" \notin scenario /\ TellsWork(s, q, w, j)
  BY DEF KeysFit, KeyFits, Undisturbed
<1>3. ASSUME NEW from, NEW to, Move(k, from, to)
      PROVE  p = from /\ poller'[k] = to /\ accepted' = accepted /\ job' = job
  BY <1>3 DEF Move, VideoFits
\* The row stays as it is.
<1>4. ASSUME UNCHANGED <<status, ledgerVars>>, NEW from, NEW to, Moved(from, to),
             PollerFits(s, to), s # "absent",
             "giveUp" \notin scenario => TellsTruth(s, q, j, to)
      PROVE  KeysFit' /\ \A i \in Keys : Kept(i)
  <2>1. UNCHANGED <<status, quota, accepted, job>>
    BY <1>3, <1>4 DEF ledgerVars
  <2>2. KeyFits(s, q, w, j, to)
    BY <1>2, <1>4 DEF KeyFits
  <2>3. Kept(k)
    BY <1>2, <2>1 DEF Kept, OutcomeKept, PromiseKept, Promise!promiseVars, TellsTruth
  <2>4. /\ status'[k] = s /\ \A i \in Keys \ {k} : status'[i] = status[i]
        /\ quota'[k] = q /\ \A i \in Keys \ {k} : quota'[i] = quota[i]
    BY <2>1
  <2> QED BY <1>1, <1>4, <2>2, <2>3, <2>4, PollerGoes
<1>5. CASE RecoverOne(k) \/ RecoverDrops(k)
  <2>1. PICK to \in {"start", "dropped"} : Moved("recover", to)
    BY <1>5 DEF RecoverOne, RecoverDrops
  <2>2. UNCHANGED <<status, ledgerVars>>
    BY <1>5 DEF RecoverOne, RecoverDrops
  <2>3. PollerFits(s, to) /\ s # "absent" /\ ("giveUp" \notin scenario => TellsTruth(s, q, j, to))
    BY <1>2, <1>3, <2>1 DEF PollerFits, TellsTruth, WithMedia, Failing
  <2> QED BY <1>4, <2>1, <2>2, <2>3
<1>6. CASE PollerSees(k) \/ MediaRedirected(k) \/ MediaUnnamed(k) \/ MediaFetched(k) \/ Join(k)
           \/ JoinEnds(k) \/ PollerCaches(k)
  <2>1. PICK from \in {"poll"} \cup WithMedia, to \in WithMedia :
           Moved(from, to) /\ (from = "poll" => j = "made")
    BY <1>6 DEF PollerSees, Reported, MediaRedirected, MediaUnnamed, MediaFetched, Join,
                JoinEnds, PollerCaches, WithMedia, AfterMedia
  <2>2. UNCHANGED <<status, ledgerVars>>
    BY <1>6 DEF PollerSees, MediaRedirected, MediaUnnamed, MediaFetched, Join, JoinEnds,
                PollerCaches
  <2>3. PollerFits(s, to) /\ s # "absent" /\ ("giveUp" \notin scenario => TellsTruth(s, q, j, to))
    BY <1>2, <1>3, <2>1 DEF PollerFits, TellsTruth, WithMedia, Failing
  <2> QED BY <1>4, <2>1, <2>2, <2>3
<1>7. CASE PollerSeesFailure(k) \/ PollerGivesUp(k) \/ MediaMissing(k)
  <2>1. PICK from \in {"poll", "resolve", "fetch"} :
           Moved(from, "giveBack") /\ ("giveUp" \notin scenario => j = "rejected")
    BY <1>7 DEF PollerSeesFailure, Reported, PollerGivesUp, MediaMissing
  <2>2. UNCHANGED <<status, ledgerVars>>
    BY <1>7 DEF PollerSeesFailure, PollerGivesUp, MediaMissing
  <2>3. /\ PollerFits(s, "giveBack") /\ s # "absent"
        /\ "giveUp" \notin scenario => TellsTruth(s, q, j, "giveBack")
    BY <1>2, <1>3, <2>1 DEF PollerFits, TellsTruth, WithMedia, Failing
  <2> QED BY <1>4, <2>1, <2>2, <2>3
\* The poller writes the status.
<1>8. ASSUME UNCHANGED ledgerVars, NEW from, NEW to, Moved(from, to), s # "absent",
             NEW v, SetStatus(k, v), v # "absent",
             KeyFits(v, q, w, j, to), Kept(k)
      PROVE  KeysFit' /\ \A i \in Keys : Kept(i)
  <2>1. /\ status'[k] = v /\ \A i \in Keys \ {k} : status'[i] = status[i]
        /\ quota'[k] = q /\ \A i \in Keys \ {k} : quota'[i] = quota[i]
    BY <1>1, <1>8, StatusWritten DEF ledgerVars
  <2> QED BY <1>1, <1>8, <2>1, PollerGoes
<1>9. CASE PollerMarks(k)
  <2>1. Moved("start", "poll") /\ SetStatus(k, "polling") /\ UNCHANGED ledgerVars
    BY <1>9 DEF PollerMarks
  <2>2. s \in {"accepted", "polling"}
    BY <1>2, <1>3, <2>1 DEF PollerFits
  <2>3. status'[k] = "polling" /\ quota' = quota /\ accepted' = accepted /\ job' = job
    BY <1>1, <1>3, <2>1, <2>2, StatusWritten DEF ledgerVars
  <2>4. KeyFits("polling", q, w, j, "poll")
    BY <1>2, <2>2 DEF KeyFits, PollerFits, TellsTruth, TellsWork, WithMedia, Failing
  <2>5. Kept(k)
    BY <2>2, <2>3, Outcomes DEF Kept, OutcomeKept, PromiseKept, Promise!promiseVars
  <2> QED BY <1>8, <2>1, <2>2, <2>4, <2>5
<1>10. CASE PollerSucceeds(k)
  <2>1. Moved("close", "made") /\ SetStatus(k, "succeeded") /\ UNCHANGED ledgerVars
    BY <1>10 DEF PollerSucceeds
  <2>2. s = "polling" /\ ("giveUp" \notin scenario => j = "made")
    BY <1>2, <1>3, <2>1 DEF PollerFits, TellsTruth, WithMedia
  <2>3. status'[k] = "succeeded" /\ quota' = quota /\ accepted' = accepted /\ job' = job
    BY <1>1, <1>3, <2>1, <2>2, StatusWritten DEF ledgerVars
  <2>4. KeyFits("succeeded", q, w, j, "made")
    BY <1>2, <2>2 DEF KeyFits, PollerFits, TellsTruth, TellsWork, WithMedia, Failing
  <2>5. Kept(k)
    BY <1>2, <2>2, <2>3, Outcomes
    DEF Kept, OutcomeKept, PromiseKept, Promise!PromiseNext, Promise!Deliver, TellsWork
  <2> QED BY <1>8, <2>1, <2>2, <2>4, <2>5
<1>11. CASE PollerFails(k)
  <2>1. Moved("fail", "failed") /\ SetStatus(k, "failed") /\ UNCHANGED ledgerVars
    BY <1>11 DEF PollerFails
  <2>2. s = "polling" /\ ("giveUp" \notin scenario => j = "rejected" /\ q # "settled")
    BY <1>2, <1>3, <2>1 DEF PollerFits, TellsTruth, Failing
  <2>3. status'[k] = "failed" /\ quota' = quota /\ accepted' = accepted /\ job' = job
    BY <1>1, <1>3, <2>1, <2>2, StatusWritten DEF ledgerVars
  <2>4. KeyFits("failed", q, w, j, "failed")
    BY <1>2, <2>2 DEF KeyFits, PollerFits, TellsTruth, TellsWork, WithMedia, Failing
  <2>5. Kept(k)
    BY <1>2, <2>2, <2>3, Outcomes
    DEF Kept, OutcomeKept, PromiseKept, Promise!PromiseNext, Promise!Refuse
  <2> QED BY <1>8, <2>1, <2>2, <2>4, <2>5
\* The poller charges the unit, or gives it back.
<1>12. CASE PollerSettles(k) \/ PollerReleases(k)
  <2>1. PICK from \in {"charge", "giveBack"} :
           /\ Moved(from, IF from = "charge" THEN "close" ELSE "fail") /\ status' = status
           /\ IF from = "charge" THEN SettleQuota(k) ELSE ReleaseQuota(k)
    BY <1>12 DEF PollerSettles, PollerReleases
  <2> DEFINE to == IF from = "charge" THEN "close" ELSE "fail"
  <2>2. /\ quota'[k] = IF q = "reserved" THEN IF from = "charge" THEN "settled" ELSE "released"
                       ELSE q
        /\ \A i \in Keys \ {k} : quota'[i] = quota[i]
    BY <2>1, QuotaWritten
  <2>3. s = "polling" /\ p = from /\ accepted' = accepted /\ job' = job
    BY <1>2, <1>3, <2>1 DEF PollerFits, WithMedia, Failing
  <2>4. "giveUp" \notin scenario => j = IF from = "charge" THEN "made" ELSE "rejected"
    BY <1>2, <2>3 DEF TellsTruth, WithMedia, Failing
  <2>5. KeyFits(s, quota'[k], w, j, to)
    BY <1>2, <2>2, <2>3, <2>4
    DEF KeyFits, PollerFits, TellsTruth, TellsWork, WithMedia, Failing
  <2>6. Kept(k)
    BY <1>2, <2>1, <2>2, <2>3, <2>4
    DEF Kept, OutcomeKept, PromiseKept, Promise!promiseVars, TellsTruth
  <2>7. status'[k] = s /\ \A i \in Keys \ {k} : status'[i] = status[i]
    BY <2>1
  <2> QED BY <1>1, <2>1, <2>2, <2>3, <2>5, <2>6, <2>7, PollerGoes
<1> QED BY <1>5, <1>6, <1>7, <1>9, <1>10, <1>11, <1>12 DEF PollerStep

\* The upstream ends its work.
LEMMA UpstreamKeeps ==
    ASSUME HandlerTypes, VideoFits, KeysFit, NEW k \in Keys, UpstreamEnds(k)
    PROVE  KeysFit' /\ \A i \in Keys : Kept(i)
<1>1. /\ UNCHANGED <<status, quota, accepted, poller, req, scenario>>
      /\ job[k] = "running" /\ job'[k] \in {"made", "rejected"} /\ accepted[k] > 0
      /\ \A i \in Keys \ {k} : job'[i] = job[i]
  BY DEF UpstreamEnds, handlerVars, flowVars, ledgerVars, VideoFits
<1>2. \A i \in Keys \ {k} : UNCHANGED RowOf(i)
  BY <1>1 DEF RowOf
<1>3. KeyFits(status[k], quota[k], accepted[k], job[k], poller[k])
  BY DEF KeysFit
<1>4. Fit(k)'
  BY <1>1, <1>3
  DEF Fit, KeyFits, TellsTruth, TellsWork, PollerFits, Undisturbed, WithMedia, Failing
<1>5. Kept(k)
  <2>1. OutcomeKept(k)
    BY <1>1, <1>3 DEF OutcomeKept, KeyFits, TellsTruth
  <2>2. ASSUME Undisturbed PROVE PromiseKept(k)
    <3>1. /\ accepted[k] = 1 /\ status[k] \notin {"absent", "failed", "succeeded"}
          /\ status[k] \in Statuses
      BY <1>1, <1>3, <2>2
      DEF KeyFits, TellsTruth, TellsWork, Undisturbed, HandlerTypes, HandlerFits
    <3> QED BY <1>1, <3>1, Outcomes
            DEF Statuses, PromiseKept, Promise!promiseVars, Promise!PromiseNext, Promise!TurnDown
  <2> QED BY <2>1, <2>2 DEF Kept
<1>6. ASSUME NEW r \in Requests, KeyOf[r] = k PROVE Stand(r)'
  BY <1>1, <1>6 DEF KeysFit, Stand, Stands, Claims, Undisturbed
<1> QED BY <1>1, <1>2, <1>4, <1>5, <1>6, KeyMoves

\* A crash ends every request; what was being submitted may be taken on, and
\* the rows that were accepted are polled again.
LEMMA CrashKeeps ==
    ASSUME HandlerTypes, VideoFits, KeysFit, CrashAndRestart
    PROVE  KeysFit' /\ \A k \in Keys : Kept(k)
<1>1. PICK took \in SUBSET {KeyOf[r] : r \in {q \in Requests : req[q].pc = "submit"}} :
         accepted' = [k \in Keys |-> IF k \in took THEN accepted[k] + 1 ELSE accepted[k]]
  BY DEF CrashAndRestart, Crash
<1>2. /\ UNCHANGED <<status, quota, job, scenario>>
      /\ poller' = [k \in Keys |-> IF status[k] \in {"accepted", "polling"} THEN "recover" ELSE "gone"]
  BY DEF CrashAndRestart, Crash, ledgerVars, Recoverable
<1>3. ASSUME NEW k \in Keys, k \in took
      PROVE  /\ status[k] = "submitting" /\ quota[k] = "reserved"
             /\ Undisturbed => accepted[k] = 0 /\ job[k] = "running"
  <2>1. PICK r \in Requests : KeyOf[r] = k /\ req[r].pc = "submit"
    BY <1>3
  <2>2. IsOwner(r)
    BY <2>1, OwnerAt DEF HandlerTypes
  <2> QED BY <2>1, <2>2, OwnerFacts DEF OwnersRow, OwnersWork, KeyFits, TellsWork
<1>4. ASSUME NEW k \in Keys PROVE Fit(k)' /\ Kept(k)
  <2>1. Fit(k)
    BY DEF KeysFit, Fit
  <2>2. /\ accepted'[k] = IF k \in took THEN accepted[k] + 1 ELSE accepted[k]
        /\ poller'[k] = IF status[k] \in {"accepted", "polling"} THEN "recover" ELSE "gone"
    BY <1>1, <1>2
  <2>3. PollerFits(status[k], poller'[k]) /\ poller'[k] \in {"recover", "gone"}
    BY <2>2 DEF PollerFits, WithMedia, Failing
  <2>4. "giveUp" \notin scenario => TellsTruth(status[k], quota[k], job[k], poller'[k])
    BY <2>1, <2>3 DEF Fit, KeyFits, TellsTruth, WithMedia, Failing
  <2>5. Undisturbed => TellsWork(status[k], quota[k], accepted'[k], job[k])
    BY <1>3, <2>1, <2>2 DEF Fit, KeyFits, TellsWork
  <2>6. Fit(k)'
    BY <1>2, <2>1, <2>3, <2>4, <2>5
    DEF Fit, KeyFits, TellsTruth, TellsWork, PollerFits, Undisturbed
  <2>7. Kept(k)
    BY <1>2, <1>3, <2>1, <2>2, Outcomes
    DEF Kept, OutcomeKept, PromiseKept, Promise!promiseVars, Promise!PromiseNext, Promise!TakeOn,
        Fit, KeyFits, TellsTruth
  <2> QED BY <2>6, <2>7
<1>5. ASSUME NEW r \in Requests
      PROVE  /\ req'[r].pc \in {"idle", "done"} /\ req'[r].claim = req[r].claim
             /\ req'[r].pc = "idle" => req[r].pc = "idle"
  <2>1. req[r] \in Coroutines
    BY DEF HandlerTypes, HandlerFits
  <2>2. req'[r] = IF req[r].pc \in {"idle", "done"} THEN req[r]
                  ELSE [req[r] EXCEPT !.pc = "done", !.reply = "lost", !.tok = NoAccount]
    BY DEF CrashAndRestart, Crash
  <2> QED BY <2>1, <2>2 DEF Coroutines
<1>6. ASSUME NEW r \in Requests PROVE Stand(r)'
  <2>1. Claims(req[r])
    BY DEF KeysFit, Stands
  <2>2. Claims(req'[r])
    BY <1>5, <2>1 DEF Claims
  <2>3. ASSUME IsOwner(r) PROVE req'[r].pc = "done" /\ status[KeyOf[r]] # "absent"
    BY <1>5, <2>3, OwnerFacts, OwnersHaveRows DEF OwnersRow
  <2>4. req'[r].claim = "owner" => /\ OwnersRow(req'[r].pc, status[KeyOf[r]], quota[KeyOf[r]], poller'[KeyOf[r]])
                                   /\ OwnersWork(req'[r].pc, status[KeyOf[r]], accepted'[KeyOf[r]])
    BY <1>5, <2>3 DEF OwnersRow, OwnersWork, IsOwner
  <2> QED BY <1>2, <2>2, <2>4 DEF Stand, Stands, Claims
<1>7. OneOwner'
  BY <1>5 DEF KeysFit, OneOwner, IsOwner
<1> QED BY <1>4, <1>6, <1>7 DEF KeysFit, Stand, Fit

\* The requests and the rows stay as they are.
LEMMA RestKeeps ==
    ASSUME KeysFit, UNCHANGED <<req, status, quota, accepted, job, poller, scenario>>
    PROVE  KeysFit' /\ \A k \in Keys : Kept(k)
<1>1. \A k \in Keys : UNCHANGED RowOf(k)
  BY DEF RowOf
<1>2. \A k \in Keys : Fit(k)' /\ Kept(k)
  BY <1>1, UntouchedKept DEF KeysFit, Fit
<1>3. \A r \in Requests : Stand(r)'
  BY DEF KeysFit, Stand, Stands, Claims, Undisturbed
<1>4. OneOwner'
  BY DEF KeysFit, OneOwner, IsOwner
<1> QED BY <1>2, <1>3, <1>4 DEF KeysFit, Stand, Fit

----------------------------------------------------------------------------
VideoInv == HandlerTypes /\ VideoFits /\ KeysFit

LEMMA InvInit == ASSUME Init PROVE VideoInv
<1>1. HandlerTypes
  BY InitFits, LedgerTypeInit DEF Init, HandlerInit, HandlerTypes
<1>2. VideoFits
  BY DEF Init, VideoFits, PollerPlaces
<1>3. \A k \in Keys : /\ status[k] = "absent" /\ quota[k] = "absent" /\ accepted[k] = 0
                      /\ poller[k] = "gone" /\ job[k] = "running"
  BY DEF Init, HandlerInit, LedgerInit
<1>4. \A r \in Requests : req[r].pc = "idle" /\ req[r].claim = "no"
  BY DEF Init, HandlerInit
<1>5. \A k \in Keys : Fit(k)
  BY <1>3 DEF Fit, KeyFits, PollerFits, TellsTruth, TellsWork, WithMedia, Failing
<1>6. OneOwner /\ \A r \in Requests : Stand(r)
  BY <1>4 DEF OneOwner, IsOwner, Stand, Stands, Claims
<1> QED BY <1>1, <1>2, <1>5, <1>6 DEF VideoInv, KeysFit, Stand, Fit

\* Where pollers come from and go to.
LEMMA PollerPlaced ==
    ASSUME NEW k \in Keys, PollerStep(k)
    PROVE  \E from, to \in PollerPlaces \ {"gone"} : Move(k, from, to)
<1>1. CASE PollerMarks(k) \/ PollerSeesFailure(k) \/ PollerGivesUp(k) \/ PollerReleases(k)
           \/ PollerFails(k) \/ RecoverOne(k) \/ RecoverDrops(k)
  BY <1>1 DEF PollerMarks, PollerSeesFailure, PollerGivesUp, PollerReleases, PollerFails,
              RecoverOne, RecoverDrops, PollerPlaces, Failing
<1>2. CASE MediaRedirected(k) \/ MediaFetched(k)
  BY <1>2 DEF MediaRedirected, MediaFetched, AfterMedia, PollerPlaces, WithMedia
<1>3. CASE PollerSees(k) \/ MediaUnnamed(k) \/ MediaMissing(k) \/ Join(k) \/ JoinEnds(k)
           \/ PollerCaches(k) \/ PollerSettles(k) \/ PollerSucceeds(k)
  BY <1>3 DEF PollerSees, MediaUnnamed, MediaMissing, Join, JoinEnds, PollerCaches,
              PollerSettles, PollerSucceeds, PollerPlaces, WithMedia, Failing
<1> QED BY <1>1, <1>2, <1>3 DEF PollerStep

LEMMA VideoFitsStep == ASSUME VideoFits, [Next]_vars PROVE VideoFits'
<1>1. CASE UNCHANGED videoVars
  BY <1>1 DEF VideoFits, videoVars
<1>2. ASSUME NEW r \in Requests, StartPoll(r) PROVE VideoFits'
  BY <1>2 DEF VideoFits, StartPoll, PollerPlaces
<1>3. ASSUME NEW k \in Keys, PollerStep(k) PROVE VideoFits'
  <2>1. PICK from, to \in PollerPlaces \ {"gone"} : Move(k, from, to)
    BY <1>3, PollerPlaced
  <2> QED BY <2>1 DEF Move, VideoFits, PollerPlaces
<1>4. ASSUME NEW k \in Keys, UpstreamEnds(k) PROVE VideoFits'
  BY <1>4 DEF UpstreamEnds, VideoFits
<1>5. CASE CrashAndRestart
  BY <1>5 DEF CrashAndRestart, VideoFits, PollerPlaces
<1> QED BY <1>1, <1>2, <1>3, <1>4, <1>5 DEF Next, Step, ClientLeaves, Idle, vars

LEMMA VideoStep ==
    ASSUME VideoInv, [Next]_vars
    PROVE  VideoInv' /\ \A k \in Keys : Kept(k)
<1>1. HandlerTypes /\ HandlerFits /\ VideoFits /\ KeysFit
  BY DEF VideoInv, HandlerTypes
<1>2. HandlerTypes' /\ VideoFits'
  BY <1>1, NextSound, LedgerTypeStep, VideoFitsStep DEF Sound, HandlerTypes
<1>3. ASSUME NEW r \in Requests,
             (Arrive(r) /\ UNCHANGED <<videoVars, scenario>>) \/ Step(r) \/ ClientLeaves(r)
      PROVE  KeysFit' /\ \A k \in Keys : Kept(k)
  <2>1. scenario' = scenario /\ (UNCHANGED videoVars \/ StartPoll(r))
    BY <1>3 DEF Step, ClientLeaves
  <2>2. Common(r) \/ Differs(r)
    BY <1>3 DEF Step, Prepares, Generates, HandlesError, ClientLeaves, Common, Differs
  <2>3. Moves(r)
    BY <1>1, <2>2, CommonMoves, DiffersMoves
  <2>4. CASE StartPoll(r)
    BY <1>1, <2>1, <2>3, <2>4, AcceptedProper, ProperKeeps
  <2>5. CASE UNCHANGED videoVars
    <3>1. \/ Searches(r) \/ ReserveOk(r) \/ Submitted(r) \/ TimedOut(r) \/ Refused(r)
          \/ RecordAccepted(r) \/ CancelAfterAccepted(r) \/ StartPoll(r)
          \/ PollDone(r) \/ Settle(r) \/ Succeed(r) \/ GiveBack(r) \/ Fail(r) \/ MarkUnknown(r)
          \/ GiveBackAfterError(r) \/ HandleRequestError(r) \/ GiveUp(r)
          \/ CancelInTry(r) \/ Abandon(r) \/ ClaimCreates(r) \/ CancelAfterClaim(r)
      BY <2>2 DEF Common, Differs, Searches
    <3>2. Proper(r)
      BY <1>1, <2>1, <2>5, <3>1, SearchProper, CallProper, AcceptedProper, EndProper, ErrorProper,
         LeavingProper, ClaimProper
    <3> QED BY <1>1, <2>1, <2>3, <3>2, ProperKeeps
  <2> QED BY <2>1, <2>4, <2>5
<1>4. ASSUME NEW k \in Keys, PollerStep(k) \/ UpstreamEnds(k)
      PROVE  KeysFit' /\ \A i \in Keys : Kept(i)
  BY <1>1, <1>4, PollerKeeps, UpstreamKeeps
<1>5. CASE CrashAndRestart
  BY <1>1, <1>2, <1>5, CrashKeeps DEF VideoInv
<1>6. CASE (CooldownPasses /\ UNCHANGED <<videoVars, scenario>>) \/ UNCHANGED vars
  <2>1. UNCHANGED <<req, status, quota, accepted, job, poller, scenario>>
    BY <1>6 DEF CooldownPasses, flowVars, ledgerVars, videoVars, vars, handlerVars
  <2> QED BY <1>1, <1>2, <2>1, RestKeeps DEF VideoInv
<1> QED BY <1>2, <1>3, <1>4, <1>5, <1>6 DEF Next, Idle, VideoInv

LEMMA VideoInvHolds == Spec => []VideoInv
<1>1. Init => VideoInv
  BY InvInit
<1>2. VideoInv /\ [Next]_vars => VideoInv'
  BY VideoStep
<1> QED BY <1>1, <1>2, PTL DEF Spec

\* Work that may still be finished, or was, is never free, however requests,
\* pollers, cancellations and crashes interleave.
THEOREM ReleasedWhenRefusedHolds == Spec => []ReleasedWhenRefused
<1>1. VideoInv => ReleasedWhenRefused
  BY DEF VideoInv, KeysFit, KeyFits, TellsWork, ReleasedWhenRefused, Undisturbed
<1> QED BY <1>1, VideoInvHolds, PTL

\* No poller, request or recovered poller undoes an outcome, and a charged
\* task is never reported as failed.
THEOREM OutcomeIsFinalHolds == Spec => OutcomeIsFinal
<1>1. VideoInv /\ [Next]_vars =>
         [\A k \in Keys :
            /\ status[k] \in {"succeeded", "failed"} => status'[k] = status[k]
            /\ quota[k] = "settled" /\ "giveUp" \notin scenario =>
                  quota'[k] = "settled" /\ status'[k] # "failed"]_vars
  BY VideoStep DEF Kept, OutcomeKept
<1> QED BY <1>1, VideoInvHolds, PTL DEF Spec, OutcomeIsFinal

\* The row and the work of each key keep the promise of KeyPromise.
THEOREM VideoKeepsPromise == Spec => KeepsPromise
<1>1. Init => \A k \in Keys : Promise(k)!PromiseInit
  BY Outcomes DEF Init, HandlerInit, Promise!PromiseInit
<1>2. VideoInv /\ [Next]_vars =>
         [\/ {"giveUp", "lostReply"} \cap scenario # {}
          \/ \A k \in Keys : [Promise(k)!PromiseNext]_(Promise(k)!promiseVars)]_vars
  BY VideoStep DEF Kept, PromiseKept, Undisturbed
<1> QED BY <1>1, <1>2, VideoInvHolds, PTL DEF Spec, KeepsPromise

----------------------------------------------------------------------------
(***************************************************************************)
(* Accepted work is watched.                                               *)
(***************************************************************************)
WatchedKey(k) ==
    status[k] \in {"accepted", "polling"} =>
        \/ poller[k] \notin {"gone", "made", "failed"}
        \/ \E r \in Requests : KeyOf[r] = k /\ req[r].pc = "accepted"

\* The request of an accepted key is at its post, and no other step of a
\* request makes a key look accepted.
LEMMA OthersAccept ==
    ASSUME HandlerTypes, NEW r \in Requests, Common(r) \/ Submitted(r) \/ PollDone(r)
    PROVE  /\ req[r].pc # "accepted"
           /\ \A k \in Keys : status'[k] = status[k] \/ status'[k] \notin {"accepted", "polling"}
<1>1. HandlerFits /\ KeyOf[r] \in Keys /\ status \in [Keys -> Statuses]
  BY DEF HandlerTypes, HandlerFits
<1>2. req[r].pc # "accepted"
  BY DEF Common, Arrive, Select, SkipCandidate, TakeCandidate, NoCandidate, GiveUp, ValidateOk,
         ValidateRejects, ValidateRaises, ClaimCreates, ClaimFinds, ClaimRaises, Replay,
         ReplayTimeout, ReserveOk, ReserveRefused, NoMedia, Refused, TimedOut, Settle, Succeed,
         Publish, Finish, GiveBack, Fail, MarkUnknown, GiveBackAfterError, HandleRateLimit,
         HandleQuotaExhausted, HandleAccountError, Continue, HandleRequestError,
         CancelBeforeTry, CancelAfterClaim, CancelInExcept, BeforeTry, InExcept, Submitted, Taken,
         PollDone
<1>3. \/ UNCHANGED status
      \/ \E v \in {"failed", "succeeded", "unknown"} : SetStatus(KeyOf[r], v)
      \/ status' = [status EXCEPT ![KeyOf[r]] = "submitting"]
  BY DEF Common, Arrive, Select, SkipCandidate, TakeCandidate, NoCandidate, GiveUp, ValidateOk,
         ValidateRejects, ValidateRaises, ClaimCreates, ClaimFinds, ClaimRaises, Replay,
         ReplayTimeout, ReserveOk, ReserveRefused, NoMedia, Refused, TimedOut, Settle, Succeed,
         Publish, Finish, GiveBack, Fail, MarkUnknown, GiveBackAfterError, HandleRateLimit,
         HandleQuotaExhausted, HandleAccountError, Continue, HandleRequestError,
         CancelBeforeTry, CancelAfterClaim, CancelInExcept, Submitted, Taken, PollDone
<1>4. ASSUME NEW v \in {"failed", "succeeded", "unknown"}, SetStatus(KeyOf[r], v), NEW k \in Keys
      PROVE  status'[k] = status[k] \/ status'[k] \notin {"accepted", "polling"}
  BY <1>1, <1>4, StatusWritten
<1> QED BY <1>1, <1>2, <1>3, <1>4

LEMMA WatchedStep ==
    ASSUME VideoInv, ClientsStay, [Next]_vars, NEW k \in Keys, WatchedKey(k)
    PROVE  WatchedKey(k)'
<1>1. HandlerTypes /\ HandlerFits /\ VideoFits /\ KeysFit /\ Fit(k)'
  BY VideoStep DEF VideoInv, HandlerTypes, KeysFit, Fit
<1>2. PollerFits(status[k], poller[k])'
  BY <1>1 DEF Fit, KeyFits
<1>3. ASSUME NEW r \in Requests, Moves(r), req[r].pc # "accepted", UNCHANGED videoVars,
             status'[k] = status[k] \/ status'[k] \notin {"accepted", "polling"}
      PROVE  WatchedKey(k)'
  <2>1. \A q \in Requests \ {r} : req'[q] = req[q]
    BY <1>1, <1>3 DEF HandlerFits, Moves, GoesTo
  <2> QED BY <1>3, <2>1 DEF WatchedKey, videoVars
<1>4. ASSUME NEW r \in Requests, RecordAccepted(r), UNCHANGED videoVars PROVE WatchedKey(k)'
  <2>1. Moves(r) /\ req[r].pc = "record"
    BY <1>1, <1>4, DiffersMoves DEF Differs, RecordAccepted
  <2>2. CASE KeyOf[r] = k
    <3>1. req'[r].pc = "accepted"
      BY <1>1, <1>4, WentTo DEF RecordAccepted
    <3> QED BY <2>2, <3>1 DEF WatchedKey
  <2>3. CASE KeyOf[r] # k
    <3>1. status'[k] = status[k]
      BY <1>1, <1>4, <2>3, StatusWritten DEF RecordAccepted
    <3> QED BY <1>3, <1>4, <2>1, <3>1
  <2> QED BY <2>2, <2>3
<1>5. ASSUME NEW r \in Requests, StartPoll(r) PROVE WatchedKey(k)'
  <2>1. /\ status' = status /\ req' = [req EXCEPT ![r].pc = "await"]
        /\ poller' = [poller EXCEPT ![KeyOf[r]] = "start"]
    BY <1>5 DEF StartPoll
  <2>2. CASE KeyOf[r] = k
    BY <1>1, <2>1, <2>2 DEF WatchedKey, VideoFits
  <2>3. CASE KeyOf[r] # k
    <3>1. poller'[k] = poller[k] /\ \A q \in Requests : KeyOf[q] = k => req'[q] = req[q]
      BY <1>1, <2>1, <2>3 DEF HandlerFits, VideoFits
    <3> QED BY <2>1, <3>1 DEF WatchedKey
  <2> QED BY <2>2, <2>3
<1>6. ASSUME NEW r \in Requests,
             (Arrive(r) /\ UNCHANGED <<videoVars, scenario>>) \/ Step(r) \/ ClientLeaves(r)
      PROVE  WatchedKey(k)'
  <2>1. \/ Common(r) /\ UNCHANGED videoVars
        \/ (Submitted(r) \/ PollDone(r) \/ RecordAccepted(r)) /\ UNCHANGED videoVars
        \/ StartPoll(r)
    BY <1>6 DEF Step, Prepares, Generates, HandlesError, ClientLeaves, Common, ClientsStay,
                CancelInTry, CancelAfterAccepted, Abandon
  <2>2. CASE (Common(r) \/ Submitted(r) \/ PollDone(r)) /\ UNCHANGED videoVars
    <3>1. Moves(r)
      BY <1>1, <2>2, CommonMoves, DiffersMoves DEF Differs
    <3> QED BY <1>1, <1>3, <2>2, <3>1, OthersAccept
  <2> QED BY <1>4, <1>5, <2>1, <2>2
<1>7. ASSUME NEW i \in Keys, PollerStep(i) PROVE WatchedKey(k)'
  <2>1. PICK from, to \in PollerPlaces \ {"gone"} : Move(i, from, to)
    BY <1>7, PollerPlaced
  <2>2. req' = req
    BY <2>1 DEF Move
  <2>3. CASE i = k
    <3>1. poller'[k] # "gone"
      BY <1>1, <2>1, <2>3 DEF Move, VideoFits
    <3>2. status'[k] \in {"accepted", "polling"} => poller'[k] \notin {"made", "failed"}
      BY <1>2 DEF PollerFits
    <3> QED BY <3>1, <3>2 DEF WatchedKey
  <2>4. CASE i # k
    <3>1. status'[k] = status[k]
      BY <1>1, <1>7, <2>4, StatusWritten
      DEF PollerStep, PollerMarks, PollerSees, PollerSeesFailure, PollerGivesUp, MediaRedirected,
          MediaUnnamed, MediaFetched, MediaMissing, Join, JoinEnds, PollerCaches, PollerSettles,
          PollerSucceeds, PollerReleases, PollerFails, RecoverOne, RecoverDrops
    <3>2. poller'[k] = poller[k]
      BY <1>1, <2>1, <2>4 DEF Move, VideoFits
    <3> QED BY <2>2, <3>1, <3>2 DEF WatchedKey
  <2> QED BY <2>3, <2>4
<1>8. CASE CrashAndRestart
  BY <1>8 DEF CrashAndRestart, Crash, Recoverable, WatchedKey
<1>9. CASE UNCHANGED <<req, status, poller>>
  BY <1>9 DEF WatchedKey
<1>10. ASSUME CooldownPasses /\ UNCHANGED <<videoVars, scenario>>
       PROVE  WatchedKey(k)'
  BY <1>9, <1>10 DEF CooldownPasses, flowVars, videoVars
<1>11. ASSUME NEW i \in Keys, UpstreamEnds(i) PROVE WatchedKey(k)'
  BY <1>9, <1>11 DEF UpstreamEnds, handlerVars, ledgerVars, flowVars
<1>12. CASE UNCHANGED vars
  BY <1>9, <1>12 DEF vars, handlerVars, ledgerVars, flowVars, videoVars
<1> QED BY <1>6, <1>7, <1>8, <1>10, <1>11, <1>12 DEF Next, Idle

\* As long as no client leaves between the acceptance and the poller, accepted
\* work has a poller, or the request that is about to create one.
THEOREM AcceptedIsWatchedHolds == Spec => []AcceptedIsWatched
<1> DEFINE Inv == VideoInv /\ (ClientsStay => \A k \in Keys : WatchedKey(k))
<1>1. Init => Inv
  <2>1. Init => \A k \in Keys : status[k] = "absent"
    BY DEF Init, HandlerInit
  <2> QED BY <2>1, InvInit DEF WatchedKey
<1>2. Inv /\ [Next]_vars => Inv'
  <2>1. [Next]_vars => scenario' = scenario
    BY DEF Next, Step, ClientLeaves, PollerStep, UpstreamEnds, CrashAndRestart, Idle, vars, handlerVars
  <2> QED BY <2>1, VideoStep, WatchedStep DEF ClientsStay
<1>3. Inv => AcceptedIsWatched
  BY DEF WatchedKey, AcceptedIsWatched, Watched, Polling
<1> QED BY <1>1, <1>2, <1>3, PTL DEF Spec
=============================================================================
