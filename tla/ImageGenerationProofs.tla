------------------------ MODULE ImageGenerationProofs -----------------------
(***************************************************************************)
(* Images with an idempotency key, for any requests, keys and accounts,    *)
(* and whatever clients, the operator and crashes do: the handler is one   *)
(* of the ledger's and one of the concurrency manager's users, and each    *)
(* key keeps its promise.                                                  *)
(***************************************************************************)
EXTENDS ImageGeneration, QuotaHandlerProofs

USE HandlerAssumption

----------------------------------------------------------------------------
\* The steps that only images have.
LEMMA StepMoves ==
    ASSUME HandlerTypes, NEW r \in Requests, Delivered(r) \/ CancelInTry(r) \/ Abandon(r)
    PROVE  Moves(r)
<1>1. CASE Delivered(r)
  <2>1. req[r].pc = "submit" /\ req' = [req EXCEPT ![r].pc = "settle"]
    BY <1>1 DEF Delivered, Taken
  <2> QED BY <1>1, <2>1, PlaceMoves DEF HandlerTypes, Delivered, Taken, Places, Outside, InTry
<1>2. CASE CancelInTry(r) \/ Abandon(r)
  <2>1. \E reply \in {"cancelled", "abandoned"} : LeaveWith(r, reply)
    BY <1>2 DEF CancelInTry, Abandon
  <2>2. req[r].pc \notin Outside
    BY <1>2 DEF CancelInTry, Abandon, InTry, Outside
  <2> QED BY <2>1, <2>2, LeaveMoves DEF HandlerTypes, Replies
<1> QED BY <1>1, <1>2

LEMMA DeliveredSound ==
    ASSUME HandlerTypes, NEW r \in Requests, Delivered(r)
    PROVE  Sound
<1>2. PICK n \in {1, 2} : TakenOn(KeyOf[r], n)
  BY DEF Delivered, Taken, LostReplies
<1>3. Moves(r)
  BY StepMoves
<1> QED BY <1>2, <1>3, TakenOnFits, MovesSound DEF Delivered, Taken, HandlerTypes, HandlerFits

LEMMA LeavingSound ==
    ASSUME HandlerTypes, NEW r \in Requests, CancelInTry(r) \/ Abandon(r)
    PROVE  Sound
<1>3. Moves(r)
  BY StepMoves
<1>4. PICK n \in {0, 1, 2} : TakenOn(KeyOf[r], n)
  BY DEF CancelInTry, Abandon
<1>5. status' \in [Keys -> Statuses]
  <2>1. UNCHANGED status \/ SetStatus(KeyOf[r], "unknown")
    BY DEF CancelInTry, Abandon
  <2> QED BY <2>1, SetStatusFits DEF HandlerTypes, HandlerFits, Statuses
<1> QED BY <1>3, <1>4, <1>5, TakenOnFits, MovesSound DEF CancelInTry, Abandon, HandlerTypes

LEMMA NextSound == ASSUME HandlerTypes, [Next]_handlerVars PROVE Sound
<1>1. ASSUME NEW r \in Requests, Arrive(r) \/ Step(r) \/ ClientLeaves(r) PROVE Sound
  BY <1>1, CommonSound, DeliveredSound, LeavingSound DEF Step, ClientLeaves, Common
<1>2. CASE Environment
  BY <1>2, EnvironmentSound
<1>3. CASE UNCHANGED handlerVars
  BY <1>3, IdleSound
<1> QED BY <1>1, <1>2, <1>3 DEF Next, Environment, Idle

----------------------------------------------------------------------------
\* Coroutines, rows and the ledger keep their types.
THEOREM ImageTypesHold == Spec => []HandlerTypes
<1>1. HandlerInit => HandlerTypes
  BY InitFits, LedgerTypeInit DEF HandlerInit, HandlerTypes
<1>2. HandlerTypes /\ [Next]_handlerVars => HandlerTypes'
  BY NextSound, LedgerTypeStep DEF Sound, HandlerTypes
<1> QED BY <1>1, <1>2, PTL DEF Spec

\* The handler and its surroundings implement the ledger: whatever order the
\* requests, the operator and crashes come in, the rows see the ledger's own
\* transactions only.
THEOREM ImageUsesLedger == Spec => LedgerSpec
<1>1. HandlerInit => LedgerInit
  BY DEF HandlerInit
<1>2. HandlerTypes /\ [Next]_handlerVars => [LedgerNext]_ledgerVars
  BY NextSound DEF Sound
<1> QED BY <1>1, <1>2, ImageTypesHold, PTL DEF Spec, LedgerSpec

\* No account promises more units to requests than its balance covers.
THEOREM ImageNeverOversold == Spec => []NeverOversold
BY ImageUsesLedger, NeverOversoldHolds, PTL

\* Every slot a request takes is given back exactly once, on every way out of
\* the handler, and in between the manager sees only what it allows.
THEOREM ImageUsesManager == Spec => SlotProtocol
<1>1. HandlerInit => CM!Init
  BY DEF HandlerInit
<1>2. HandlerTypes /\ [Next]_handlerVars => [CM!Next]_(CM!vars)
  BY NextSound DEF Sound
<1> QED BY <1>1, <1>2, ImageTypesHold, PTL DEF Spec, SlotProtocol, CM!Spec

----------------------------------------------------------------------------
(***************************************************************************)
(* The promise of a key.  The request that claimed it is its owner; where  *)
(* the owner is tells what its row says and whether the work was taken on. *)
(* Nobody else writes the row.                                             *)
(***************************************************************************)
\* The owner is at pc, its row has status s and quota state q, and the work
\* was taken on w times.
OwnersRow(pc, s, q, w) ==
    \/ /\ pc \in {"select", "pick", "noAccount", "validate", "reserve", "handle", "next", "fail"}
       /\ s = "submitting" /\ q \in {"none", "released"} /\ w = 0
    \/ pc \in {"submit", "giveBack"} /\ s = "submitting" /\ q = "reserved" /\ w = 0
    \/ pc = "raised" /\ s = "submitting" /\ q \in {"none", "released", "reserved"} /\ w = 0
    \/ pc = "uncertain" /\ s = "submitting" /\ q = "reserved" /\ w \in {0, 1}
    \/ pc = "settle" /\ s = "submitting" /\ q = "reserved" /\ w = 1
    \/ pc = "succeed" /\ s = "submitting" /\ q = "settled" /\ w = 1
    \/ pc \in {"publish", "count"} /\ s = "succeeded" /\ q = "settled" /\ w = 1
    \/ pc = "done" /\ s # "absent"

Stands(c, s, q, w) == Claims(c) /\ (c.claim = "owner" => OwnersRow(c.pc, s, q, w))

\* A row and its quota state come and go together, and no row, no work.
RowFits(s, q, w) == (s = "absent" <=> q = "absent") /\ (s = "absent" => w = 0)

Undisturbed == {"delete", "lostReply"} \cap scenario = {}

KeysFit ==
    /\ \A r \in Requests :
          Stands(req[r], status[KeyOf[r]], quota[KeyOf[r]], accepted[KeyOf[r]])
    /\ \A k \in Keys : RowFits(status[k], quota[k], accepted[k])
    /\ OneOwner

PromiseInv == Undisturbed => KeysFit

PromiseKept(k) == [Promise(k)!PromiseNext]_(Promise(k)!promiseVars)

RowOf(k) == <<status[k], quota[k], accepted[k]>>

\* A row that nobody touches keeps its promise.
LEMMA UntouchedKept ==
    ASSUME NEW k \in Keys, UNCHANGED RowOf(k)
    PROVE  PromiseKept(k)
BY DEF RowOf, PromiseKept, Promise!promiseVars, OutcomeOf

\* What a step of request r may do to its key.
Proper(r) ==
    LET k == KeyOf[r] IN
    /\ \A j \in Keys \ {k} : UNCHANGED RowOf(j)
    /\ Stands(req[r], status[k], quota[k], accepted[k])'
    /\ RowFits(status[k], quota[k], accepted[k])'
    /\ UNCHANGED RowOf(k) \/ IsOwner(r) \/ status[k] = "absent"
    /\ IsOwner(r)' => IsOwner(r) \/ status[k] = "absent"
    /\ PromiseKept(k)

\* An owner has a row.
LEMMA OwnersHaveRows ==
    ASSUME KeysFit, NEW r \in Requests, IsOwner(r)
    PROVE  status[KeyOf[r]] # "absent"
BY DEF KeysFit, Stands, Claims, OwnersRow, IsOwner

LEMMA ProperKeeps ==
    ASSUME HandlerFits, KeysFit, NEW r \in Requests, Moves(r), Proper(r)
    PROVE  KeysFit' /\ \A k \in Keys : PromiseKept(k)
<1> DEFINE k == KeyOf[r]
<1>1. k \in Keys /\ \A q \in Requests : KeyOf[q] \in Keys
  OBVIOUS
<1>2. \A q \in Requests \ {r} : req'[q] = req[q]
  BY DEF HandlerFits, Moves, GoesTo
<1>3. \A q \in Requests \ {r} : IsOwner(q)' <=> IsOwner(q)
  BY <1>2 DEF IsOwner
<1>4. OneOwner'
  <2>1. ASSUME NEW q \in Requests \ {r}, IsOwner(r)', IsOwner(q), KeyOf[q] = k PROVE FALSE
    BY <2>1, OwnersHaveRows DEF Proper, KeysFit, OneOwner
  <2> QED BY <1>3, <2>1 DEF OneOwner, KeysFit
<1>5. ASSUME NEW j \in Keys PROVE RowFits(status[j], quota[j], accepted[j])' /\ PromiseKept(j)
  <2>1. CASE j = k
    BY <2>1 DEF Proper
  <2>2. CASE j # k
    BY <2>2, UntouchedKept DEF Proper, KeysFit, RowFits, RowOf
  <2> QED BY <2>1, <2>2
<1>6. ASSUME NEW q \in Requests
      PROVE  Stands(req[q], status[KeyOf[q]], quota[KeyOf[q]], accepted[KeyOf[q]])'
  <2>1. CASE q = r
    BY <2>1 DEF Proper
  <2>2. CASE q # r /\ UNCHANGED RowOf(KeyOf[q])
    BY <1>2, <2>2 DEF KeysFit, RowOf, Stands, Claims
  <2>3. CASE q # r /\ ~UNCHANGED RowOf(KeyOf[q])
    <3>1. KeyOf[q] = k /\ (IsOwner(r) \/ status[k] = "absent")
      BY <1>1, <2>3 DEF Proper
    <3>2. ~IsOwner(q)
      BY <2>3, <3>1, OwnersHaveRows DEF KeysFit, OneOwner
    <3> QED BY <1>2, <2>3, <3>2 DEF KeysFit, Stands, Claims, IsOwner
  <2> QED BY <2>1, <2>2, <2>3
<1> QED BY <1>4, <1>5, <1>6 DEF KeysFit

\* In these places a coroutine owns its key.
LEMMA OwnerAt ==
    ASSUME HandlerFits, KeysFit, NEW r \in Requests,
           req[r].pc \in {"reserve", "submit", "giveBack", "fail", "uncertain",
                          "settle", "succeed", "publish", "count"}
    PROVE  /\ IsOwner(r)
           /\ OwnersRow(req[r].pc, status[KeyOf[r]], quota[KeyOf[r]], accepted[KeyOf[r]])
BY DEF HandlerFits, KeysFit, Stands, Claims, Coroutines, IsOwner

LEMMA RowsStay ==
    ASSUME KeysFit, NEW r \in Requests, UNCHANGED <<status, quota, accepted>>,
           IsOwner(r)' => IsOwner(r),
           Stands(req'[r], status[KeyOf[r]], quota[KeyOf[r]], accepted[KeyOf[r]])
    PROVE  Proper(r)
<1>1. \A k \in Keys : UNCHANGED RowOf(k)
  BY DEF RowOf
<1>2. Stands(req[r], status[KeyOf[r]], quota[KeyOf[r]], accepted[KeyOf[r]])'
      <=> Stands(req'[r], status[KeyOf[r]], quota[KeyOf[r]], accepted[KeyOf[r]])
  BY DEF Stands, Claims
<1> QED BY <1>1, <1>2, UntouchedKept DEF Proper, KeysFit, RowFits


\* Steps that leave all rows alone.
LEMMA SearchProper ==
    ASSUME HandlerFits, KeysFit, NEW r \in Requests, Searches(r)
    PROVE  Proper(r)
<1> DEFINE c == req[r]
           k == KeyOf[r]
<1>1. Stands(c, status[k], quota[k], accepted[k])
  BY DEF KeysFit
<1>2. /\ UNCHANGED <<status, quota, accepted>>
      /\ \/ req'[r].claim = c.claim /\ Way(c.pc, req'[r].pc, c.claim)
         \/ req'[r].pc = "replay" /\ req'[r].claim = "duplicate"
  BY SearchGoes
<1>3. IsOwner(r)' => IsOwner(r)
  BY <1>2 DEF IsOwner
<1>4. Stands(req'[r], status[k], quota[k], accepted[k])
  BY <1>1, <1>2 DEF Stands, Claims, OwnersRow, Way, InExcept
<1> QED BY <1>2, <1>3, <1>4, RowsStay

----------------------------------------------------------------------------
\* The owner writes its row.
LEMMA OwnerWrites ==
    ASSUME NEW r \in Requests, IsOwner(r), req'[r].claim = req[r].claim,
           \A j \in Keys \ {KeyOf[r]} : UNCHANGED RowOf(j),
           NEW s, status'[KeyOf[r]] = s,
           NEW q, quota'[KeyOf[r]] = q,
           NEW w, accepted'[KeyOf[r]] = w,
           OwnersRow(req'[r].pc, s, q, w),
           s # "absent", q # "absent",
           PromiseKept(KeyOf[r])
    PROVE  Proper(r)
<1>1. RowFits(status[KeyOf[r]], quota[KeyOf[r]], accepted[KeyOf[r]])'
  BY DEF RowFits
<1>2. Stands(req[r], status[KeyOf[r]], quota[KeyOf[r]], accepted[KeyOf[r]])'
  BY DEF Stands, Claims, IsOwner
<1> QED BY <1>1, <1>2 DEF Proper

\* Freezing a unit, calling the upstream, and charging the unit.
LEMMA CallProper ==
    ASSUME HandlerTypes, KeysFit, Undisturbed, NEW r \in Requests,
           ReserveOk(r) \/ Delivered(r) \/ TimedOut(r) \/ Settle(r) \/ Succeed(r) \/ Refused(r)
    PROVE  Proper(r)
<1> DEFINE c == req[r]
           k == KeyOf[r]
           Now(pc) == req'[r].pc = pc /\ req'[r].claim = c.claim
<1>1. HandlerFits /\ k \in Keys /\ req \in [Requests -> Coroutines]
  BY DEF HandlerTypes, HandlerFits
<1>2. IsOwner(r) /\ OwnersRow(c.pc, status[k], quota[k], accepted[k])
  BY <1>1, OwnerAt DEF ReserveOk, Delivered, Taken, TimedOut, Settle, Succeed, Refused
<1> USE DEF OwnersRow, RowOf, PromiseKept, OutcomeOf
<1>3. CASE ReserveOk(r)
  <2>1. Now("submit") /\ c.pc = "reserve"
    BY <1>1, <1>3, WentTo DEF ReserveOk
  <2>2. quota'[k] = "reserved" /\ \A j \in Keys \ {k} : quota'[j] = quota[j]
    BY <1>1, <1>3, QuotaWritten DEF ReserveOk
  <2>3. PromiseKept(k)
    BY <1>2, <1>3, <2>1, <2>2 DEF ReserveOk, Promise!promiseVars
  <2> QED BY <1>1, <1>2, <1>3, <2>1, <2>2, <2>3, OwnerWrites DEF ReserveOk
<1>4. CASE Delivered(r)
  <2>1. Now("settle") /\ c.pc = "submit"
    BY <1>1, <1>4, WentTo DEF Delivered, Taken
  <2>2. TakenOn(k, 1)
    BY <1>4 DEF Delivered, Taken, LostReplies, Undisturbed
  <2>3. accepted'[k] = 1 /\ \A j \in Keys \ {k} : accepted'[j] = accepted[j]
    BY <1>1, <1>2, <2>1, <2>2, WorkCounted
  <2>4. PromiseKept(k)
    BY <1>2, <1>4, <2>1, <2>3 DEF Delivered, Taken, ledgerVars, Promise!PromiseNext, Promise!TakeOn
  <2> QED BY <1>1, <1>2, <1>4, <2>1, <2>3, <2>4, OwnerWrites DEF Delivered, Taken, ledgerVars
<1>5. CASE TimedOut(r)
  <2>1. Now("uncertain") /\ c.pc = "submit"
    BY <1>1, <1>5, WentTo DEF TimedOut
  <2>2. PICK took \in {0, 1} : TakenOn(k, took)
    BY <1>5 DEF TimedOut
  <2>3. accepted'[k] = took /\ \A j \in Keys \ {k} : accepted'[j] = accepted[j]
    BY <1>1, <1>2, <2>1, <2>2, WorkCounted
  <2>4. PromiseKept(k)
    BY <1>2, <1>5, <2>1, <2>3
    DEF TimedOut, ledgerVars, Promise!PromiseNext, Promise!TakeOn, Promise!promiseVars
  <2> QED BY <1>1, <1>2, <1>5, <2>1, <2>3, <2>4, OwnerWrites DEF TimedOut, ledgerVars
<1>6. CASE Settle(r)
  <2>1. Now("succeed") /\ c.pc = "settle"
    BY <1>1, <1>6, WentTo DEF Settle
  <2>2. quota'[k] = "settled" /\ \A j \in Keys \ {k} : quota'[j] = quota[j]
    BY <1>1, <1>2, <1>6, <2>1, QuotaWritten DEF Settle
  <2>3. PromiseKept(k)
    BY <1>2, <1>6, <2>1, <2>2 DEF Settle, Promise!PromiseNext, Promise!Deliver
  <2> QED BY <1>1, <1>2, <1>6, <2>1, <2>2, <2>3, OwnerWrites DEF Settle
<1>7. CASE Succeed(r)
  <2>1. Now("publish") /\ c.pc = "succeed"
    BY <1>1, <1>7, WentTo DEF Succeed
  <2>2. status'[k] = "succeeded" /\ \A j \in Keys \ {k} : status'[j] = status[j]
    BY <1>1, <1>2, <1>7, <2>1, StatusWritten DEF Succeed
  <2>3. PromiseKept(k)
    BY <1>2, <1>7, <2>1, <2>2 DEF Succeed, ledgerVars, Promise!promiseVars
  <2> QED BY <1>1, <1>2, <1>7, <2>1, <2>2, <2>3, OwnerWrites DEF Succeed, ledgerVars
<1>8. CASE Refused(r)
  <2>1. PICK error \in Errors : req' = [req EXCEPT ![r].pc = "raised", ![r].err = error]
    BY <1>8 DEF Refused
  <2>2. Now("raised") /\ c.pc = "submit"
    <3>1. req' = [req EXCEPT ![r] = [c EXCEPT !.pc = "raised", !.err = error]]
      BY <2>1
    <3>2. req[r] \in Coroutines /\ req[r].pc = "submit"
      BY <1>1, <1>8 DEF Refused
    <3> QED BY <1>1, <3>1, <3>2 DEF Coroutines
  <2>3. TakenOn(k, 0)
    BY <1>8 DEF Refused, LostReplies, Undisturbed
  <2>4. UNCHANGED <<status, quota, accepted>>
    BY <1>1, <1>8, <2>3, WorkCounted DEF Refused, ledgerVars
  <2> QED BY <1>1, <1>2, <2>2, <2>4, RowsStay DEF Stands, Claims, IsOwner
<1> QED BY <1>3, <1>4, <1>5, <1>6, <1>7, <1>8

\* Giving the unit back, and closing the task.
LEMMA EndProper ==
    ASSUME HandlerTypes, KeysFit, NEW r \in Requests,
           GiveBack(r) \/ Fail(r) \/ MarkUnknown(r)
    PROVE  Proper(r)
<1> DEFINE c == req[r]
           k == KeyOf[r]
           Now(pc) == req'[r].pc = pc /\ req'[r].claim = c.claim
<1>1. HandlerFits /\ k \in Keys
  BY DEF HandlerTypes
<1>2. IsOwner(r) /\ OwnersRow(c.pc, status[k], quota[k], accepted[k])
  BY <1>1, OwnerAt DEF GiveBack, Fail, MarkUnknown
<1> USE DEF OwnersRow, RowOf, PromiseKept, OutcomeOf
<1>3. CASE GiveBack(r)
  <2>1. Now("fail") /\ c.pc = "giveBack"
    BY <1>1, <1>3, WentTo DEF GiveBack
  <2>2. quota'[k] = "released" /\ \A j \in Keys \ {k} : quota'[j] = quota[j]
    BY <1>1, <1>2, <1>3, <2>1, QuotaWritten DEF GiveBack
  <2>3. PromiseKept(k)
    BY <1>2, <1>3, <2>1, <2>2 DEF GiveBack, Promise!promiseVars
  <2> QED BY <1>1, <1>2, <1>3, <2>1, <2>2, <2>3, OwnerWrites DEF GiveBack
<1>4. CASE Fail(r)
  <2>1. Now("done") /\ c.pc = "fail"
    BY <1>1, <1>4, Left DEF Fail
  <2>2. status'[k] = "failed" /\ \A j \in Keys \ {k} : status'[j] = status[j]
    BY <1>1, <1>2, <1>4, <2>1, StatusWritten DEF Fail
  <2>3. PromiseKept(k)
    BY <1>2, <1>4, <2>1, <2>2 DEF Fail, ledgerVars, Promise!PromiseNext, Promise!Refuse
  <2> QED BY <1>1, <1>2, <1>4, <2>1, <2>2, <2>3, OwnerWrites DEF Fail, ledgerVars
<1>5. CASE MarkUnknown(r)
  <2>1. Now("done") /\ c.pc = "uncertain"
    BY <1>1, <1>5, Left DEF MarkUnknown
  <2>2. status'[k] = "unknown" /\ \A j \in Keys \ {k} : status'[j] = status[j]
    BY <1>1, <1>2, <1>5, <2>1, StatusWritten DEF MarkUnknown
  <2>3. PromiseKept(k)
    BY <1>2, <1>5, <2>1, <2>2 DEF MarkUnknown, ledgerVars, Promise!PromiseNext, Promise!Doubt
  <2> QED BY <1>1, <1>2, <1>5, <2>1, <2>2, <2>3, OwnerWrites DEF MarkUnknown, ledgerVars
<1> QED BY <1>3, <1>4, <1>5

\* The unit given back after an error, the error that ends the request, and
\* the end of a request that found no account.
LEMMA ErrorProper ==
    ASSUME HandlerTypes, KeysFit, NEW r \in Requests,
           GiveBackAfterError(r) \/ HandleRequestError(r) \/ GiveUp(r)
    PROVE  Proper(r)
<1> DEFINE c == req[r]
           k == KeyOf[r]
           Now(pc) == req'[r].pc = pc /\ req'[r].claim = c.claim
<1>1. HandlerFits /\ k \in Keys /\ req \in [Requests -> Coroutines] /\ c \in Coroutines
  BY DEF HandlerTypes, HandlerFits
<1>2. Stands(c, status[k], quota[k], accepted[k])
  BY DEF KeysFit
<1>3. Now(IF GiveBackAfterError(r) THEN "handle" ELSE "done")
  <2>1. CASE GiveBackAfterError(r)
    BY <1>1, <2>1, WentTo DEF GiveBackAfterError
  <2>2. CASE HandleRequestError(r)
    BY <1>1, <2>2, Left DEF HandleRequestError, GiveBackAfterError
  <2>3. CASE GiveUp(r)
    BY <1>1, <2>3 DEF GiveUp, Coroutines, GiveBackAfterError
  <2> QED BY <2>1, <2>2, <2>3
<1>4. c.pc = IF GiveBackAfterError(r) THEN "raised"
             ELSE IF HandleRequestError(r) THEN "handle" ELSE "noAccount"
  BY DEF GiveBackAfterError, HandleRequestError, GiveUp
<1>5. c.claim \in {"no", "owner"}
  BY <1>1, <1>2, <1>4 DEF Stands, Claims, Coroutines
<1>6. CASE c.claim = "no"
  <2>1. UNCHANGED <<status, quota, accepted>>
    BY <1>6 DEF GiveBackAfterError, HandleRequestError, GiveUp, ledgerVars, IsOwner
  <2>2. Stands(req'[r], status[k], quota[k], accepted[k])
    BY <1>3, <1>6 DEF Stands, Claims
  <2> QED BY <1>3, <2>1, <2>2, RowsStay DEF IsOwner
<1>7. CASE c.claim = "owner"
  <2>1. IsOwner(r) /\ OwnersRow(c.pc, status[k], quota[k], accepted[k])
    BY <1>2, <1>7 DEF Stands, Claims, IsOwner
  <2>2. accepted' = accepted
    BY DEF GiveBackAfterError, HandleRequestError, GiveUp
  <2>3. CASE GiveBackAfterError(r)
    <3>1. status' = status /\ ReleaseQuota(k)
      BY <1>7, <2>3 DEF GiveBackAfterError
    <3>2. /\ quota'[k] = IF quota[k] = "reserved" THEN "released" ELSE quota[k]
          /\ \A j \in Keys \ {k} : quota'[j] = quota[j]
      BY <1>1, <3>1, QuotaWritten
    <3>3. OwnersRow("handle", status[k], quota'[k], accepted[k]) /\ quota'[k] # "absent"
      BY <1>4, <2>1, <2>3, <3>2 DEF OwnersRow
    <3>4. PromiseKept(k)
      BY <1>4, <2>1, <2>2, <2>3, <3>1, <3>2
      DEF OwnersRow, PromiseKept, OutcomeOf, Promise!promiseVars
    <3> QED BY <1>3, <2>1, <2>2, <2>3, <3>1, <3>2, <3>3, <3>4, OwnersHaveRows, OwnerWrites
            DEF RowOf
  <2>4. CASE ~GiveBackAfterError(r)
    <3>1. SetStatus(k, "failed") /\ MarkReleased(k)
      BY <1>7, <2>4 DEF HandleRequestError, GiveUp, IsOwner
    <3>2. status[k] = "submitting" /\ quota[k] # "absent" /\ accepted[k] = 0
          /\ quota[k] # "settled"
      BY <1>4, <2>1, <2>4 DEF OwnersRow
    <3>3. /\ status'[k] = "failed" /\ quota'[k] = "released"
          /\ \A j \in Keys \ {k} : status'[j] = status[j] /\ quota'[j] = quota[j]
      BY <1>1, <3>1, <3>2, QuotaWritten, StatusWritten
    <3>4. PromiseKept(k)
      BY <2>2, <3>2, <3>3 DEF PromiseKept, OutcomeOf, Promise!PromiseNext, Promise!Refuse
    <3>5. OwnersRow("done", "failed", "released", accepted'[k])
      BY DEF OwnersRow
    <3> QED BY <1>3, <2>1, <2>2, <2>4, <3>3, <3>4, <3>5, OwnerWrites DEF RowOf
  <2> QED BY <2>3, <2>4
<1> QED BY <1>5, <1>6, <1>7

\* A client that leaves while its request is in the try block.
LEMMA LeavingProper ==
    ASSUME HandlerTypes, KeysFit, NEW r \in Requests, CancelInTry(r) \/ Abandon(r)
    PROVE  Proper(r)
<1> DEFINE c == req[r]
           k == KeyOf[r]
<1>1. HandlerFits /\ k \in Keys /\ c \in Coroutines
  BY DEF HandlerTypes, HandlerFits
<1>2. Stands(c, status[k], quota[k], accepted[k])
  BY DEF KeysFit
<1>3. req'[r].pc = "done" /\ req'[r].claim = c.claim
  BY <1>1, Left DEF CancelInTry, Abandon
<1>4. PICK took \in {0, 1} : TakenOn(k, took) /\ (c.pc # "submit" => took = 0)
  BY DEF CancelInTry, Abandon
<1>5. /\ accepted'[k] = accepted[k] + took /\ accepted[k] \in Nat
      /\ \A j \in Keys \ {k} : accepted'[j] = accepted[j]
      /\ took = 0 => accepted' = accepted
  BY <1>1, <1>4, WorkCounted
<1>6. quota' = quota /\ c.pc # "idle" /\ c.pc # "done" /\ c.pc \in InTry
  BY DEF CancelInTry, Abandon, ledgerVars, InTry
<1>7. CASE ~IsOwner(r)
  <2>1. took = 0
    BY <1>1, <1>4, <1>7, OwnerAt
  <2>2. UNCHANGED <<status, quota, accepted>>
    BY <1>5, <1>6, <1>7, <2>1 DEF CancelInTry, Abandon
  <2>3. Stands(req'[r], status[k], quota[k], accepted[k])
    BY <1>1, <1>3, <1>7 DEF Stands, Claims, IsOwner, Coroutines
  <2> QED BY <1>3, <1>7, <2>2, <2>3, RowsStay DEF IsOwner
<1>8. CASE IsOwner(r)
  <2>1. OwnersRow(c.pc, status[k], quota[k], accepted[k])
    BY <1>2, <1>8 DEF Stands, Claims, IsOwner
  <2>2. status[k] # "absent" /\ quota[k] # "absent"
    BY <1>1, <1>8, OwnersHaveRows DEF KeysFit, RowFits
  <2>3. CASE CancelInTry(r)
    <3>1. status'[k] = "unknown" /\ \A j \in Keys \ {k} : status'[j] = status[j]
      BY <1>1, <1>8, <2>2, <2>3, StatusWritten DEF CancelInTry
    <3>2. PromiseKept(k)
      BY <1>4, <1>5, <1>6, <2>1, <3>1
      DEF OwnersRow, InTry, PromiseKept, OutcomeOf, Promise!promiseVars,
          Promise!PromiseNext, Promise!Refuse, Promise!Doubt
    <3>3. OwnersRow("done", "unknown", quota'[k], accepted'[k])
      BY DEF OwnersRow
    <3> QED BY <1>3, <1>5, <1>6, <1>8, <2>2, <3>1, <3>2, <3>3, OwnerWrites DEF RowOf
  <2>4. CASE Abandon(r)
    <3>1. status' = status /\ c.pc = "submit"
      BY <2>4 DEF Abandon
    <3>2. PromiseKept(k)
      BY <1>5, <1>6, <2>1, <3>1
      DEF OwnersRow, PromiseKept, OutcomeOf, Promise!promiseVars,
          Promise!PromiseNext, Promise!TakeOn
    <3>3. OwnersRow("done", status'[k], quota'[k], accepted'[k])
      BY <2>2, <3>1 DEF OwnersRow
    <3> QED BY <1>3, <1>5, <1>6, <1>8, <2>2, <3>1, <3>2, <3>3, OwnerWrites DEF RowOf
  <2> QED BY <2>3, <2>4
<1> QED BY <1>7, <1>8

\* Claiming the key.
LEMMA ClaimProper ==
    ASSUME HandlerTypes, KeysFit, NEW r \in Requests, ClaimCreates(r) \/ CancelAfterClaim(r)
    PROVE  Proper(r)
<1> DEFINE c == req[r]
           k == KeyOf[r]
<1>1. HandlerFits /\ k \in Keys /\ c \in Coroutines /\ req \in [Requests -> Coroutines]
  BY DEF HandlerTypes, HandlerFits
<1>2. ClaimKey(k, c.tok) /\ status' = [status EXCEPT ![k] = "submitting"] /\ c.pc = "claim"
      /\ accepted' = accepted
  BY DEF ClaimCreates, CancelAfterClaim
<1>3. quota[k] = "absent" /\ status[k] = "absent" /\ accepted[k] = 0
  BY <1>1, <1>2 DEF ClaimKey, KeysFit, RowFits
<1>4. /\ status'[k] = "submitting" /\ quota'[k] = "none"
      /\ \A j \in Keys \ {k} : status'[j] = status[j] /\ quota'[j] = quota[j]
  BY <1>1, <1>2 DEF HandlerTypes, HandlerFits, LedgerTypeOK, ClaimKey
<1>5. c.claim = "no"
  BY <1>1, <1>2 DEF KeysFit, Stands, Claims, OwnersRow, Coroutines
<1>6. PromiseKept(k)
  BY <1>2, <1>3, <1>4 DEF PromiseKept, OutcomeOf, Promise!PromiseNext, Promise!Open
<1>7. Stands(req'[r], "submitting", "none", 0)
  <2>1. CASE ClaimCreates(r)
    <3>1. req' = [req EXCEPT ![r] = [c EXCEPT !.pc = "reserve", !.claim = "owner"]]
      BY <2>1 DEF ClaimCreates
    <3> QED BY <1>1, <3>1 DEF Coroutines, Stands, Claims, OwnersRow
  <2>2. CASE CancelAfterClaim(r)
    <3>1. req'[r].pc = "done" /\ req'[r].claim = "no"
      BY <1>1, <1>5, <2>2, Left DEF CancelAfterClaim
    <3> QED BY <3>1 DEF Stands, Claims
  <2> QED BY <2>1, <2>2
<1>8. Stands(req[r], status[k], quota[k], accepted[k])'
  BY <1>2, <1>3, <1>4, <1>7 DEF Stands, Claims
<1> QED BY <1>2, <1>3, <1>4, <1>6, <1>8 DEF Proper, RowOf, RowFits

----------------------------------------------------------------------------
\* A crash ends every request; what was being submitted may be taken on.
LEMMA CrashKeeps ==
    ASSUME HandlerTypes, KeysFit, Crash
    PROVE  KeysFit' /\ \A k \in Keys : PromiseKept(k)
<1> DEFINE At(k) == \E r \in Requests : KeyOf[r] = k /\ req[r].pc = "submit"
<1>1. PICK took \in SUBSET {KeyOf[r] : r \in {q \in Requests : req[q].pc = "submit"}} :
         accepted' = [k \in Keys |-> IF k \in took THEN accepted[k] + 1 ELSE accepted[k]]
  BY DEF Crash
<1>2. UNCHANGED <<status, quota>>
  BY DEF Crash, ledgerVars
<1>3. ASSUME NEW k \in Keys, k \in took
      PROVE  status[k] = "submitting" /\ quota[k] = "reserved" /\ accepted[k] = 0
  <2>1. PICK r \in Requests : KeyOf[r] = k /\ req[r].pc = "submit"
    BY <1>3
  <2> QED BY <2>1, OwnerAt DEF OwnersRow, HandlerTypes
<1>4. ASSUME NEW k \in Keys PROVE PromiseKept(k) /\ RowFits(status[k], quota[k], accepted[k])'
  <2>1. CASE k \in took
    BY <1>1, <1>2, <1>3, <2>1
    DEF PromiseKept, OutcomeOf, Promise!PromiseNext, Promise!TakeOn, RowFits
  <2>2. CASE k \notin took
    BY <1>1, <1>2, <2>2, UntouchedKept DEF KeysFit, RowFits, RowOf
  <2> QED BY <2>1, <2>2
<1>5. ASSUME NEW r \in Requests
      PROVE  req'[r].pc \in {"idle", "done"} /\ req'[r].claim = req[r].claim
             /\ (req'[r].pc = "idle" => req[r].pc = "idle")
  <2>1. req[r] \in Coroutines
    BY DEF HandlerTypes, HandlerFits
  <2>2. req'[r] = IF req[r].pc \in {"idle", "done"} THEN req[r]
                  ELSE [req[r] EXCEPT !.pc = "done", !.reply = "lost", !.tok = NoAccount]
    BY DEF Crash
  <2> QED BY <2>1, <2>2 DEF Coroutines
<1>6. ASSUME NEW r \in Requests
      PROVE  Stands(req[r], status[KeyOf[r]], quota[KeyOf[r]], accepted[KeyOf[r]])'
  <2>1. Stands(req[r], status[KeyOf[r]], quota[KeyOf[r]], accepted[KeyOf[r]])
    BY DEF KeysFit
  <2>2. req[r].claim = "owner" => req'[r].pc = "done" /\ status[KeyOf[r]] # "absent"
    BY <1>5, <2>1, OwnersHaveRows DEF Stands, Claims, OwnersRow, IsOwner
  <2>3. req[r].claim = "duplicate" => req'[r].pc = "done"
    BY <1>5, <2>1 DEF Stands, Claims
  <2> QED BY <1>2, <1>5, <2>2, <2>3 DEF Stands, Claims, OwnersRow
<1>7. OneOwner'
  BY <1>5 DEF KeysFit, OneOwner, IsOwner
<1> QED BY <1>4, <1>6, <1>7 DEF KeysFit

\* The rows and the requests stay as they are.
LEMMA RestKeeps ==
    ASSUME KeysFit, UNCHANGED <<req, status, quota, accepted>>
    PROVE  KeysFit' /\ \A k \in Keys : PromiseKept(k)
<1>1. \A k \in Keys : UNCHANGED RowOf(k)
  BY DEF RowOf
<1>2. KeysFit'
  BY DEF KeysFit, Stands, Claims, OneOwner, IsOwner, RowFits
<1> QED BY <1>1, <1>2, UntouchedKept

LEMMA PromiseStep ==
    ASSUME HandlerTypes, PromiseInv, Undisturbed, [Next]_handlerVars
    PROVE  KeysFit' /\ \A k \in Keys : PromiseKept(k)
<1>1. KeysFit /\ HandlerFits
  BY DEF PromiseInv, HandlerTypes
<1>2. ASSUME NEW r \in Requests, Common(r) \/ Delivered(r) \/ CancelInTry(r) \/ Abandon(r)
      PROVE  Moves(r) /\ Proper(r)
  <2>1. Moves(r)
    BY <1>2, CommonMoves, StepMoves
  <2> QED BY <1>1, <1>2, <2>1, SearchProper, CallProper, EndProper, ErrorProper, LeavingProper,
             ClaimProper DEF Common, Searches
<1>3. ASSUME NEW r \in Requests, Arrive(r) \/ Step(r) \/ ClientLeaves(r)
      PROVE  KeysFit' /\ \A k \in Keys : PromiseKept(k)
  <2>1. Moves(r) /\ Proper(r)
    BY <1>2, <1>3 DEF Step, ClientLeaves, Common
  <2> QED BY <1>1, <2>1, ProperKeeps
<1>4. CASE Crash
  BY <1>1, <1>4, CrashKeeps
<1>5. CASE UNCHANGED <<req, status, quota, accepted>>
  BY <1>1, <1>5, RestKeeps
<1>6. RefreshCredits \/ CooldownPasses \/ (\E t \in Tokens : OperatorForgets(t))
      \/ UNCHANGED handlerVars
         => UNCHANGED <<req, status, quota, accepted>>
  BY DEF RefreshCredits, OverwriteCredits, CooldownPasses, OperatorForgets, flowVars, ledgerVars,
         handlerVars
<1>7. ~\E t \in Tokens : OperatorDeletes(t)
  BY DEF OperatorDeletes, Undisturbed
<1> QED BY <1>3, <1>4, <1>5, <1>6, <1>7 DEF Next, Idle

\* What the handler does to a key's task, to its quota and to the upstream work it
\* starts keeps the promise of the idempotency key, whatever requests share the
\* key and wherever they are cancelled, crash or lose their account.
THEOREM ImageKeepsPromise == Spec => KeepsPromise
<1>1. HandlerInit => PromiseInv /\ \A k \in Keys : Promise(k)!PromiseInit
  <2> SUFFICES ASSUME HandlerInit
               PROVE  KeysFit /\ \A k \in Keys : Promise(k)!PromiseInit
    BY DEF PromiseInv
  <2>1. \A k \in Keys : status[k] = "absent" /\ quota[k] = "absent" /\ accepted[k] = 0
    BY DEF HandlerInit, LedgerInit
  <2>2. \A r \in Requests : req[r].pc = "idle" /\ req[r].claim = "no"
    BY DEF HandlerInit
  <2>3. \A k \in Keys : Promise(k)!PromiseInit
    BY <2>1 DEF Promise!PromiseInit, OutcomeOf
  <2> QED BY <2>1, <2>2, <2>3 DEF KeysFit, Stands, Claims, RowFits, OneOwner, IsOwner
<1>2. HandlerTypes /\ PromiseInv /\ [Next]_handlerVars => PromiseInv'
  <2>1. [Next]_handlerVars => scenario' = scenario
    BY DEF Next, Step, ClientLeaves, Idle, handlerVars
  <2> QED BY <2>1, PromiseStep DEF PromiseInv, Undisturbed
<1>3. HandlerTypes /\ PromiseInv /\ [Next]_handlerVars
         => [\/ {"delete", "lostReply"} \cap scenario # {}
             \/ \A k \in Keys : [Promise(k)!PromiseNext]_(Promise(k)!promiseVars)]_handlerVars
  BY PromiseStep DEF Undisturbed, PromiseKept
<1>4. Spec => []PromiseInv
  BY <1>1, <1>2, ImageTypesHold, PTL DEF Spec
<1> QED BY <1>1, <1>3, <1>4, ImageTypesHold, PTL DEF Spec, KeepsPromise
=============================================================================
