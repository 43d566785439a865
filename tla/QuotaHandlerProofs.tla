------------------------- MODULE QuotaHandlerProofs -------------------------
(***************************************************************************)
(* The ledger keeps its books for any finite set of idempotency keys, any  *)
(* accounts and any balances.  What the two quota handlers share, for any  *)
(* requests: each of their steps is a step of the ledger, or leaves it     *)
(* alone, and takes, keeps or gives back the slot of one request.          *)
(***************************************************************************)
EXTENDS QuotaHandler, FiniteSetTheorems, TLAPS

USE KeysAssumption, CreditsAssumption

----------------------------------------------------------------------------
\* The rows that freeze units of an account can be counted.
LEMMA ReservedOnFinite ==
    ASSUME NEW t
    PROVE  /\ IsFiniteSet(ReservedOn(t))
           /\ Cardinality(ReservedOn(t)) \in Nat
<1>1. ReservedOn(t) \subseteq Keys
  BY DEF ReservedOn
<1>2. IsFiniteSet(ReservedOn(t))
  BY <1>1, FS_Subset
<1> QED
  BY <1>2, FS_CardinalityType

\* If no further row freezes a unit of the account, not more units are frozen.
LEMMA NoMoreReserved ==
    ASSUME NEW t, ReservedOn(t)' \subseteq ReservedOn(t)
    PROVE  /\ Cardinality(ReservedOn(t)') \in Nat
           /\ Cardinality(ReservedOn(t)') <= Cardinality(ReservedOn(t))
<1>1. IsFiniteSet(ReservedOn(t))
  BY ReservedOnFinite
<1> QED
  BY <1>1, FS_Subset, FS_CardinalityType

----------------------------------------------------------------------------
LEMMA LedgerTypeInit == LedgerInit => LedgerTypeOK
BY DEF LedgerInit, LedgerTypeOK, QuotaStates

\* Every transaction keeps the columns in their ranges.
LEMMA LedgerTypeStep == LedgerTypeOK /\ [LedgerNext]_ledgerVars => LedgerTypeOK'
<1> SUFFICES ASSUME LedgerTypeOK, [LedgerNext]_ledgerVars PROVE LedgerTypeOK'
  OBVIOUS
<1>1. ASSUME NEW k \in Keys, ReleaseQuota(k) PROVE LedgerTypeOK'
  BY <1>1 DEF ReleaseQuota, history, LedgerTypeOK, QuotaStates
<1>2. ASSUME NEW k \in Keys, SettleQuota(k) PROVE LedgerTypeOK'
  <2>1. CASE quota[k] = "reserved"
    <3>1. /\ credits' = [credits EXCEPT ![payer[k]] = IF @ = 0 THEN 0 ELSE @ - 1]
          /\ quota' = [quota EXCEPT ![k] = "settled"]
          /\ spent' = [spent EXCEPT ![payer[k]] = @ + 1]
          /\ UNCHANGED <<payer, accounts, granted, overwritten>>
      BY <1>2, <2>1 DEF SettleQuota
    <3>2. credits' \in [Tokens -> Nat]
      BY <3>1 DEF LedgerTypeOK
    <3>3. spent' \in [Tokens -> Nat]
      BY <3>1 DEF LedgerTypeOK
    <3>4. quota' \in [Keys -> QuotaStates]
      BY <3>1 DEF LedgerTypeOK, QuotaStates
    <3> QED
      BY <3>1, <3>2, <3>3, <3>4 DEF LedgerTypeOK
  <2>2. CASE quota[k] # "reserved"
    BY <1>2, <2>2 DEF SettleQuota, ledgerVars, LedgerTypeOK
  <2> QED
    BY <2>1, <2>2
<1>3. ASSUME NEW k \in Keys, MarkReleased(k) PROVE LedgerTypeOK'
  BY <1>3 DEF MarkReleased, history, LedgerTypeOK, QuotaStates
<1>4. ASSUME NEW k \in Keys, NEW t \in Tokens, ClaimKey(k, t) PROVE LedgerTypeOK'
  BY <1>4 DEF ClaimKey, history, LedgerTypeOK, QuotaStates
<1>5. ASSUME NEW k \in Keys, NEW t \in Tokens, ReserveQuota(k, t) PROVE LedgerTypeOK'
  BY <1>5 DEF ReserveQuota, history, LedgerTypeOK, QuotaStates
<1>6. ASSUME NEW t \in Tokens, DeleteAccount(t) PROVE LedgerTypeOK'
  BY <1>6 DEF DeleteAccount, history, LedgerTypeOK, QuotaStates
<1>7. ASSUME NEW t \in Tokens, NEW c \in 0 .. MaxCredits, OverwriteCredits(t, c)
      PROVE  LedgerTypeOK'
  BY <1>7 DEF OverwriteCredits, LedgerTypeOK
<1>8. CASE UNCHANGED ledgerVars
  BY <1>8 DEF ledgerVars, LedgerTypeOK
<1> QED
  BY <1>1, <1>2, <1>3, <1>4, <1>5, <1>6, <1>7, <1>8 DEF LedgerNext

\* The columns keep their ranges; a balance never goes below zero.
THEOREM LedgerTypeCorrect == LedgerSpec => []LedgerTypeOK
BY LedgerTypeInit, LedgerTypeStep, PTL DEF LedgerSpec

----------------------------------------------------------------------------
\* Freezing one more unit: the account covered it.
LEMMA ReserveCovered ==
    ASSUME LedgerTypeOK, NEW k \in Keys, NEW a \in Tokens, ReserveQuota(k, a),
           NEW t \in Tokens, Cardinality(ReservedOn(t)) <= credits[t]
    PROVE  Cardinality(ReservedOn(t)') <= credits'[t]
<1>1. credits' = credits
  BY DEF ReserveQuota
<1>2. credits[t] \in Nat /\ Cardinality(ReservedOn(t)) \in Nat
  BY ReservedOnFinite DEF LedgerTypeOK
<1>3. CASE quota[k] = "reserved" /\ payer[k] = a
  <2>1. ReservedOn(t)' \subseteq ReservedOn(t)
    BY <1>3 DEF ReserveQuota, ReservedOn, LedgerTypeOK
  <2> QED
    BY <1>1, <1>2, <2>1, NoMoreReserved
<1>4. CASE quota[k] # "reserved" /\ t # a
  <2>1. ReservedOn(t)' \subseteq ReservedOn(t)
    BY <1>4 DEF ReserveQuota, ReservedOn, LedgerTypeOK
  <2> QED
    BY <1>1, <1>2, <2>1, NoMoreReserved
<1>5. CASE quota[k] # "reserved" /\ t = a
  <2>1. ReservedOn(t)' = ReservedOn(t) \cup {k} /\ k \notin ReservedOn(t)
    BY <1>5 DEF ReserveQuota, ReservedOn, LedgerTypeOK
  <2>2. Cardinality(ReservedOn(t)') = Cardinality(ReservedOn(t)) + 1
    BY <2>1, ReservedOnFinite, FS_AddElement
  <2>3. Available(t) >= 1
    BY <1>5 DEF ReserveQuota, CanReserve
  <2> QED
    BY <1>1, <1>2, <2>2, <2>3 DEF Available
<1> QED
  BY <1>3, <1>4, <1>5 DEF ReserveQuota, CanReserve

\* Charging a frozen unit takes it off the frozen ones and, on an account that
\* covers them, really takes it off the balance: the floor is never hit.
LEMMA SettleCovered ==
    ASSUME LedgerTypeOK, NEW k \in Keys, SettleQuota(k),
           NEW t \in Tokens, Cardinality(ReservedOn(t)) <= credits[t]
    PROVE  /\ Cardinality(ReservedOn(t)') <= credits'[t]
           /\ credits'[t] + spent'[t] = credits[t] + spent[t]
<1>1. credits[t] \in Nat /\ spent[t] \in Nat /\ Cardinality(ReservedOn(t)) \in Nat
  BY ReservedOnFinite DEF LedgerTypeOK
<1>2. CASE quota[k] # "reserved"
  <2>1. ReservedOn(t)' = ReservedOn(t) /\ credits' = credits /\ spent' = spent
    BY <1>2 DEF SettleQuota, ledgerVars, ReservedOn
  <2> QED
    BY <1>1, <2>1
<1>3. CASE quota[k] = "reserved" /\ payer[k] # t
  <2>1. ReservedOn(t)' \subseteq ReservedOn(t)
    BY <1>3 DEF SettleQuota, ReservedOn, LedgerTypeOK
  <2>2. credits'[t] = credits[t] /\ spent'[t] = spent[t]
    BY <1>3 DEF SettleQuota, LedgerTypeOK
  <2> QED
    BY <1>1, <2>1, <2>2, NoMoreReserved
<1>4. CASE quota[k] = "reserved" /\ payer[k] = t
  <2>1. k \in ReservedOn(t) /\ ReservedOn(t)' = ReservedOn(t) \ {k}
    BY <1>4 DEF SettleQuota, ReservedOn, LedgerTypeOK
  <2>2. /\ Cardinality(ReservedOn(t)') = Cardinality(ReservedOn(t)) - 1
        /\ Cardinality(ReservedOn(t)') \in Nat
    BY <2>1, ReservedOnFinite, FS_RemoveElement, FS_CardinalityType
  <2>3. credits[t] >= 1
    BY <1>1, <2>2
  <2>4. credits'[t] = credits[t] - 1 /\ spent'[t] = spent[t] + 1
    BY <1>4, <2>3 DEF SettleQuota, LedgerTypeOK
  <2> QED
    BY <1>1, <2>2, <2>4
<1> QED
  BY <1>2, <1>3, <1>4

\* Steps that freeze nothing and change no balance keep an account covered.
LEMMA OthersCovered ==
    ASSUME LedgerTypeOK, NEW t \in Tokens, Cardinality(ReservedOn(t)) <= credits[t],
           ReservedOn(t)' \subseteq ReservedOn(t), credits'[t] = credits[t]
    PROVE  Cardinality(ReservedOn(t)') <= credits'[t]
BY NoMoreReserved, ReservedOnFinite DEF LedgerTypeOK

----------------------------------------------------------------------------
\* The two promises hold together: the charges balance because the frozen
\* units are covered.
LedgerInv == LedgerTypeOK /\ NeverOversold /\ ChargesBalance

\* Every step of the ledger keeps the accounts covered and the books balanced.
LEMMA LedgerInvInductive == LedgerInv /\ [LedgerNext]_ledgerVars
                            => NeverOversold' /\ ChargesBalance'
<1> SUFFICES ASSUME LedgerInv, [LedgerNext]_ledgerVars
             PROVE  NeverOversold' /\ ChargesBalance'
  OBVIOUS
<1> USE DEF LedgerInv
<1> DEFINE Kept == \A t \in Tokens \ overwritten' :
                      /\ Cardinality(ReservedOn(t)') <= credits'[t]
                      /\ credits'[t] + spent'[t] = granted'[t]
<1>0. SUFFICES Kept
  BY DEF NeverOversold, ChargesBalance
<1>1. ASSUME NEW k \in Keys, ReleaseQuota(k) PROVE Kept
  <2>1. \A t \in Tokens : ReservedOn(t)' \subseteq ReservedOn(t)
    BY <1>1 DEF ReleaseQuota, ReservedOn, LedgerTypeOK
  <2> QED
    BY <1>1, <2>1, OthersCovered DEF ReleaseQuota, history, NeverOversold, ChargesBalance
<1>2. ASSUME NEW k \in Keys, SettleQuota(k) PROVE Kept
  <2>1. overwritten' = overwritten /\ granted' = granted
    BY <1>2 DEF SettleQuota, ledgerVars
  <2> QED
    BY <1>2, <2>1, SettleCovered DEF NeverOversold, ChargesBalance
<1>3. ASSUME NEW k \in Keys, MarkReleased(k) PROVE Kept
  <2>1. \A t \in Tokens : ReservedOn(t)' \subseteq ReservedOn(t)
    BY <1>3 DEF MarkReleased, ReservedOn, LedgerTypeOK
  <2> QED
    BY <1>3, <2>1, OthersCovered DEF MarkReleased, history, NeverOversold, ChargesBalance
<1>4. ASSUME NEW k \in Keys, NEW a \in Tokens, ClaimKey(k, a) PROVE Kept
  <2>1. \A t \in Tokens : ReservedOn(t)' \subseteq ReservedOn(t)
    BY <1>4 DEF ClaimKey, ReservedOn, LedgerTypeOK
  <2> QED
    BY <1>4, <2>1, OthersCovered DEF ClaimKey, history, NeverOversold, ChargesBalance
<1>5. ASSUME NEW k \in Keys, NEW a \in Tokens, ReserveQuota(k, a) PROVE Kept
  BY <1>5, ReserveCovered DEF ReserveQuota, history, NeverOversold, ChargesBalance
<1>6. ASSUME NEW a \in Tokens, DeleteAccount(a) PROVE Kept
  <2>1. \A t \in Tokens : ReservedOn(t)' \subseteq ReservedOn(t)
    BY <1>6 DEF DeleteAccount, ReservedOn, LedgerTypeOK
  <2> QED
    BY <1>6, <2>1, OthersCovered DEF DeleteAccount, history, NeverOversold, ChargesBalance
<1>7. ASSUME NEW a \in Tokens, NEW c \in 0 .. MaxCredits, OverwriteCredits(a, c)
      PROVE  Kept
  <2>1. \A t \in Tokens : ReservedOn(t)' \subseteq ReservedOn(t)
    BY <1>7 DEF OverwriteCredits, ReservedOn
  <2>2. \A t \in Tokens \ overwritten' : t # a /\ t \notin overwritten
    BY <1>7 DEF OverwriteCredits
  <2>3. \A t \in Tokens \ overwritten' : credits'[t] = credits[t]
    BY <1>7, <2>2 DEF OverwriteCredits, LedgerTypeOK
  <2> QED
    BY <1>7, <2>1, <2>2, <2>3, OthersCovered
       DEF OverwriteCredits, NeverOversold, ChargesBalance
<1>8. CASE UNCHANGED ledgerVars
  BY <1>8 DEF ledgerVars, ReservedOn, NeverOversold, ChargesBalance
<1> QED
  BY <1>1, <1>2, <1>3, <1>4, <1>5, <1>6, <1>7, <1>8 DEF LedgerNext

\* At the start nothing is frozen and nothing charged.
LEMMA LedgerInvInit == LedgerInit => NeverOversold /\ ChargesBalance
<1> SUFFICES ASSUME LedgerInit PROVE NeverOversold /\ ChargesBalance
  OBVIOUS
<1>1. \A t \in Tokens : ReservedOn(t) = {}
  BY DEF LedgerInit, ReservedOn
<1>2. Cardinality({}) = 0
  BY FS_EmptySet
<1> QED
  BY <1>1, <1>2 DEF LedgerInit, NeverOversold, ChargesBalance

\* The units frozen on an account never exceed its balance unless a smaller
\* balance was written from outside.
THEOREM NeverOversoldHolds == LedgerSpec => []NeverOversold
BY LedgerInvInit, LedgerInvInductive, LedgerTypeCorrect, PTL DEF LedgerSpec, LedgerInv

\* What was charged and what is left add up to what was granted.
THEOREM ChargesBalanceHolds == LedgerSpec => []ChargesBalance
BY LedgerInvInit, LedgerInvInductive, LedgerTypeCorrect, PTL DEF LedgerSpec, LedgerInv

----------------------------------------------------------------------------
\* Every task row, and so every frozen unit, belongs to an account that exists.
THEOREM ReservationsHaveAccountsHolds == LedgerSpec => []ReservationsHaveAccounts
<1>1. LedgerInit => ReservationsHaveAccounts
  BY DEF LedgerInit, ReservationsHaveAccounts
<1>2. LedgerTypeOK /\ ReservationsHaveAccounts /\ [LedgerNext]_ledgerVars
      => ReservationsHaveAccounts'
  <2> SUFFICES ASSUME LedgerTypeOK, ReservationsHaveAccounts, [LedgerNext]_ledgerVars
               PROVE  ReservationsHaveAccounts'
    OBVIOUS
  <2> USE DEF ReservationsHaveAccounts, LedgerTypeOK
  <2>1. ASSUME NEW k \in Keys, ReleaseQuota(k) PROVE ReservationsHaveAccounts'
    BY <2>1 DEF ReleaseQuota
  <2>2. ASSUME NEW k \in Keys, SettleQuota(k) PROVE ReservationsHaveAccounts'
    BY <2>2 DEF SettleQuota, ledgerVars
  <2>3. ASSUME NEW k \in Keys, MarkReleased(k) PROVE ReservationsHaveAccounts'
    BY <2>3 DEF MarkReleased
  <2>4. ASSUME NEW k \in Keys, NEW a \in Tokens, ClaimKey(k, a)
        PROVE  ReservationsHaveAccounts'
    BY <2>4 DEF ClaimKey
  <2>5. ASSUME NEW k \in Keys, NEW a \in Tokens, ReserveQuota(k, a)
        PROVE  ReservationsHaveAccounts'
    <3>1. quota[k] # "absent" /\ a \in accounts
      BY <2>5 DEF ReserveQuota, CanReserve
    <3> QED
      BY <2>5, <3>1 DEF ReserveQuota
  <2>6. ASSUME NEW a \in Tokens, DeleteAccount(a) PROVE ReservationsHaveAccounts'
    BY <2>6 DEF DeleteAccount
  <2>7. ASSUME NEW a \in Tokens, NEW c \in 0 .. MaxCredits, OverwriteCredits(a, c)
        PROVE  ReservationsHaveAccounts'
    BY <2>7 DEF OverwriteCredits
  <2>8. CASE UNCHANGED ledgerVars
    BY <2>8 DEF ledgerVars
  <2> QED
    BY <2>1, <2>2, <2>3, <2>4, <2>5, <2>6, <2>7, <2>8 DEF LedgerNext
<1> QED
  BY <1>1, <1>2, LedgerTypeCorrect, PTL DEF LedgerSpec

----------------------------------------------------------------------------
(***************************************************************************)
(* The coroutines that use the ledger.                                     *)
(***************************************************************************)
Places == Outside \cup InTry \cup InExcept

Replies == Errors \cup {"none", "media", "blank", "pending", "unavailable", "unknown", "failed",
                         "cancelled", "abandoned", "lost"}

Coroutines ==
    [pc : Places, tok : Tokens \cup {NoAccount}, tried : SUBSET Tokens, cands : SUBSET Tokens,
     claim : {"no", "owner", "duplicate"}, err : Errors, reply : Replies]

\* A coroutine has an account while it holds a slot.
Fits(c) == c \in Coroutines /\ (c.pc \in Outside <=> c.tok = NoAccount)

Statuses == {"absent", "submitting", "accepted", "polling", "succeeded", "failed", "unknown"}

HandlerFits ==
    /\ req \in [Requests -> Coroutines]
    /\ \A r \in Requests : Fits(req[r])
    /\ status \in [Keys -> Statuses]
    /\ accepted \in [Keys -> Nat]

HandlerTypes == LedgerTypeOK /\ HandlerFits

USE HandlerAssumption

----------------------------------------------------------------------------
(***************************************************************************)
(* A step of request r: its coroutine goes to new, with its slot kept,     *)
(* taken or given back.                                                    *)
(***************************************************************************)
Keeps(r, new) ==
    /\ new.tok = req[r].tok
    /\ UNCHANGED managerVars \/ \E t \in Tokens : CM!BackOff(Slot(t))
Takes(r, new) ==
    /\ req[r].tok = NoAccount /\ new.tok \in Tokens
    /\ CM!TakeSlot(Slot(new.tok))
Drops(r, new) ==
    /\ req[r].tok \in Tokens /\ new.tok = NoAccount
    /\ CM!GiveBackSlot(Slot(req[r].tok))

GoesTo(r, new) ==
    /\ Fits(new)
    /\ req' = [req EXCEPT ![r] = new]
    /\ Keeps(r, new) \/ Takes(r, new) \/ Drops(r, new)

\* What a step of the handler of r does to its coroutine and to the ledger.
Moves(r) == \E new \in Coroutines : GoesTo(r, new)

\* The coroutine goes to another place with its slot.
LEMMA PlaceMoves ==
    ASSUME HandlerFits, NEW r \in Requests, NEW place \in Places,
           place \in Outside <=> req[r].pc \in Outside,
           req' = [req EXCEPT ![r].pc = place],
           UNCHANGED managerVars \/ \E t \in Tokens : CM!BackOff(Slot(t))
    PROVE  Moves(r)
<1> DEFINE c == req[r]
           new == [c EXCEPT !.pc = place]
<1>1. c \in Coroutines /\ Fits(c)
  BY DEF HandlerFits
<1>2. new \in Coroutines /\ Fits(new) /\ new.tok = c.tok
  BY <1>1 DEF Coroutines, Fits
<1>3. req' = [req EXCEPT ![r] = new]
  OBVIOUS
<1> QED BY <1>2, <1>3 DEF Moves, GoesTo, Keeps

\* The finally clause and the end of the coroutine.
LEMMA LeaveMoves ==
    ASSUME HandlerFits, NEW r \in Requests, req[r].pc \notin Outside,
           NEW reply \in Replies, LeaveWith(r, reply)
    PROVE  Moves(r)
<1> DEFINE c == req[r]
           new == [c EXCEPT !.pc = "done", !.reply = reply, !.tok = NoAccount]
<1>1. c \in Coroutines /\ c.tok \in Tokens
  BY DEF HandlerFits, Fits, Coroutines
<1>2. new \in Coroutines /\ Fits(new) /\ new.tok = NoAccount
  BY <1>1 DEF Coroutines, Fits, Places, Outside
<1>3. req' = [req EXCEPT ![r] = new]
  BY DEF LeaveWith
<1> QED BY <1>1, <1>2, <1>3 DEF Moves, GoesTo, Drops, LeaveWith

\* The finally clause and the next round of the failover loop.
LEMMA TryNextMoves ==
    ASSUME HandlerFits, NEW r \in Requests, req[r].pc \notin Outside,
           NEW error \in Errors, TryNext(r, error)
    PROVE  Moves(r)
<1> DEFINE c == req[r]
           new == [c EXCEPT !.pc = "select", !.tok = NoAccount,
                            !.tried = @ \cup {c.tok}, !.err = error]
<1>1. c \in Coroutines /\ c.tok \in Tokens
  BY DEF HandlerFits, Fits, Coroutines
<1>2. new \in Coroutines /\ Fits(new) /\ new.tok = NoAccount
  BY <1>1 DEF Coroutines, Fits, Places, Outside
<1>3. req' = [req EXCEPT ![r] = new]
  BY DEF TryNext
<1> QED BY <1>1, <1>2, <1>3 DEF Moves, GoesTo, Drops, TryNext

----------------------------------------------------------------------------
\* The steps that images and videos have in common.
Common(r) ==
    \/ Select(r) \/ SkipCandidate(r) \/ TakeCandidate(r) \/ NoCandidate(r) \/ GiveUp(r)
    \/ ValidateOk(r) \/ ValidateRejects(r) \/ ValidateRaises(r)
    \/ ClaimCreates(r) \/ ClaimFinds(r) \/ ClaimRaises(r)
    \/ Replay(r) \/ ReplayTimeout(r)
    \/ ReserveOk(r) \/ ReserveRefused(r)
    \/ NoMedia(r) \/ Refused(r) \/ TimedOut(r)
    \/ Settle(r) \/ Succeed(r) \/ Publish(r) \/ Finish(r)
    \/ GiveBack(r) \/ Fail(r) \/ MarkUnknown(r)
    \/ GiveBackAfterError(r) \/ HandleRateLimit(r) \/ HandleQuotaExhausted(r)
    \/ HandleAccountError(r) \/ Continue(r) \/ HandleRequestError(r)
    \/ CancelBeforeTry(r) \/ CancelAfterClaim(r) \/ CancelInExcept(r)
    \/ Arrive(r)

\* A request that only looks around, learns who it is, or learns of an error.
LEMMA LooksMoves ==
    ASSUME HandlerTypes, NEW r \in Requests,
           \/ Select(r) \/ SkipCandidate(r) \/ GiveUp(r) \/ ValidateRaises(r)
           \/ ClaimCreates(r) \/ ClaimFinds(r) \/ ClaimRaises(r) \/ Refused(r)
           \/ CancelBeforeTry(r)
    PROVE  Moves(r)
<1> DEFINE c == req[r]
           Becomes(new) == new \in Coroutines /\ Fits(new) /\ new.tok = c.tok
                           /\ req' = [req EXCEPT ![r] = new]
<1>1. c \in Coroutines /\ Fits(c) /\ req \in [Requests -> Coroutines]
  BY DEF HandlerTypes, HandlerFits
<1>2. ASSUME NEW new, Becomes(new), UNCHANGED managerVars
      PROVE  Moves(r)
  BY <1>2 DEF Moves, GoesTo, Keeps
<1> USE DEF Places, Outside, InTry, InExcept
<1>3. CASE Select(r)
  <2> DEFINE free == {t \in accounts \ c.tried : Available(t) >= 1 /\ CM!CanUse(Slot(t))}
             new == [c EXCEPT !.pc = "pick", !.cands = free]
  <2>1. free \in SUBSET Tokens
    BY DEF HandlerTypes, LedgerTypeOK
  <2>2. req' = [req EXCEPT ![r] = new] /\ c.pc = "select"
    BY <1>3 DEF Select
  <2> HIDE DEF free
  <2>3. Becomes(new)
    BY <1>1, <2>1, <2>2 DEF Coroutines, Fits
  <2> QED BY <1>2, <1>3, <2>3 DEF Select
<1>4. CASE SkipCandidate(r)
  <2>1. PICK t \in c.cands : req' = [req EXCEPT ![r] = [c EXCEPT !.cands = @ \ {t}]]
    BY <1>4 DEF SkipCandidate
  <2>2. Becomes([c EXCEPT !.cands = @ \ {t}])
    BY <1>1, <2>1 DEF Coroutines, Fits
  <2> QED BY <1>2, <1>4, <2>2 DEF SkipCandidate
<1>5. CASE GiveUp(r) \/ CancelBeforeTry(r)
  <2>1. PICK reply \in Replies :
           req' = [req EXCEPT ![r] = [c EXCEPT !.pc = "done", !.reply = reply]]
    BY <1>1, <1>5 DEF GiveUp, CancelBeforeTry, Coroutines, Replies
  <2>2. c.pc \in Outside
    BY <1>5 DEF GiveUp, CancelBeforeTry, BeforeTry
  <2>3. Becomes([c EXCEPT !.pc = "done", !.reply = reply])
    BY <1>1, <2>1, <2>2 DEF Coroutines, Fits
  <2> QED BY <1>2, <1>5, <2>3 DEF GiveUp, CancelBeforeTry
<1>6. CASE ValidateRaises(r) \/ ClaimRaises(r) \/ Refused(r)
  <2>1. PICK error \in Errors :
           req' = [req EXCEPT ![r] = [c EXCEPT !.pc = "raised", !.err = error]]
    BY <1>6 DEF ValidateRaises, ClaimRaises, Refused, Errors
  <2>2. c.pc \notin Outside
    BY <1>6 DEF ValidateRaises, ClaimRaises, Refused
  <2>3. Becomes([c EXCEPT !.pc = "raised", !.err = error])
    BY <1>1, <2>1, <2>2 DEF Coroutines, Fits
  <2> QED BY <1>2, <1>6, <2>3 DEF ValidateRaises, ClaimRaises, Refused
<1>7. CASE ClaimCreates(r) \/ ClaimFinds(r)
  <2>1. PICK place \in {"reserve", "replay"}, claim \in {"owner", "duplicate"} :
           req' = [req EXCEPT ![r] = [c EXCEPT !.pc = place, !.claim = claim]]
    BY <1>7 DEF ClaimCreates, ClaimFinds
  <2>2. c.pc \notin Outside
    BY <1>7 DEF ClaimCreates, ClaimFinds
  <2>3. Becomes([c EXCEPT !.pc = place, !.claim = claim])
    BY <1>1, <2>1, <2>2 DEF Coroutines, Fits
  <2> QED BY <1>2, <1>7, <2>3 DEF ClaimCreates, ClaimFinds
<1> QED BY <1>3, <1>4, <1>5, <1>6, <1>7

LEMMA CommonMoves ==
    ASSUME HandlerTypes, NEW r \in Requests, Common(r)
    PROVE  Moves(r)
<1> DEFINE c == req[r]
           At(place) == req' = [req EXCEPT ![r].pc = place]
<1> USE DEF HandlerTypes
<1>1. c \in Coroutines /\ Fits(c) /\ HandlerFits
  BY DEF HandlerFits
<1>2. ASSUME c.pc \notin Outside, NEW place \in Places \ Outside, At(place),
             UNCHANGED managerVars \/ \E t \in Tokens : CM!BackOff(Slot(t))
      PROVE  Moves(r)
  BY <1>1, <1>2, PlaceMoves
<1>3. CASE Arrive(r) \/ NoCandidate(r)
  BY <1>1, <1>3, PlaceMoves DEF Arrive, NoCandidate, Places, Outside
<1>4. CASE TakeCandidate(r)
  <2>1. PICK t \in c.cands :
           /\ CM!TakeSlot(Slot(t))
           /\ req' = [req EXCEPT ![r].pc = "validate", ![r].tok = t, ![r].cands = {}]
    BY <1>4 DEF TakeCandidate
  <2> DEFINE new == [c EXCEPT !.pc = "validate", !.tok = t, !.cands = {}]
  <2>2. t \in Tokens /\ c.tok = NoAccount
    BY <1>1, <1>4 DEF TakeCandidate, Fits, Coroutines, Outside
  <2>3. new \in Coroutines /\ Fits(new) /\ new.tok = t
    BY <1>1, <2>2 DEF Coroutines, Fits, Places, Outside, InTry
  <2>4. req' = [req EXCEPT ![r] = new]
    BY <2>1
  <2> QED BY <2>1, <2>2, <2>3, <2>4 DEF Moves, GoesTo, Takes
<1>5. CASE ValidateOk(r)
  <2>1. At("claim") \/ At("reserve")
    BY <1>5 DEF ValidateOk
  <2> QED BY <1>2, <1>5, <2>1 DEF ValidateOk, Places, Outside, InTry
<1>6. CASE ReserveOk(r) \/ NoMedia(r) \/ TimedOut(r) \/ Settle(r) \/ Succeed(r) \/ Publish(r)
           \/ GiveBack(r)
  BY <1>2, <1>6 DEF ReserveOk, NoMedia, TimedOut, Settle, Succeed, Publish, GiveBack,
                    Places, Outside, InTry, InExcept
<1>7. CASE GiveBackAfterError(r) \/ HandleQuotaExhausted(r) \/ HandleAccountError(r)
  BY <1>2, <1>7 DEF GiveBackAfterError, HandleQuotaExhausted, HandleAccountError,
                    Places, Outside, InTry, InExcept
<1>8. CASE HandleRateLimit(r)
  <2>1. c.tok \in Tokens /\ c.pc = "handle"
    BY <1>1, <1>8 DEF HandleRateLimit, Fits, Coroutines, Outside
  <2> QED BY <1>2, <1>8, <2>1 DEF HandleRateLimit, Places, Outside, InTry, InExcept
<1>9. CASE ValidateRejects(r) \/ ReserveRefused(r) \/ Continue(r)
  <2>1. PICK error \in Errors : TryNext(r, error)
    BY <1>1, <1>9 DEF ValidateRejects, ReserveRefused, Continue, Errors, AccountErrors, Coroutines
  <2> QED BY <1>1, <1>9, <2>1, TryNextMoves
          DEF ValidateRejects, ReserveRefused, Continue, Outside
<1>10. CASE Replay(r) \/ ReplayTimeout(r)
  <2>1. ReplayReply(KeyOf[r]) \in Replies
    BY DEF ReplayReply, Replies
  <2>2. c.pc = "replay" /\ (LeaveWith(r, ReplayReply(KeyOf[r])) \/ LeaveWith(r, "pending"))
    BY <1>10 DEF Replay, ReplayTimeout
  <2> QED BY <1>1, <2>1, <2>2, LeaveMoves DEF Outside, Replies
<1>11. CASE Finish(r) \/ Fail(r) \/ MarkUnknown(r) \/ HandleRequestError(r)
            \/ CancelAfterClaim(r) \/ CancelInExcept(r)
  <2>1. PICK reply \in {"media", "failed", "unknown", "cancelled", c.err} : LeaveWith(r, reply)
    BY <1>11 DEF Finish, Fail, MarkUnknown, HandleRequestError, CancelAfterClaim, CancelInExcept
  <2>2. reply \in Replies
    BY <1>1 DEF Coroutines, Replies
  <2>3. c.pc \notin Outside
    BY <1>11 DEF Finish, Fail, MarkUnknown, HandleRequestError, CancelAfterClaim,
                 CancelInExcept, Outside, InExcept
  <2> QED BY <1>1, <2>1, <2>2, <2>3, LeaveMoves
<1> QED BY <1>3, <1>4, <1>5, <1>6, <1>7, <1>8, <1>9, <1>10, <1>11, LooksMoves DEF Common

\* Whatever a handler does to the ledger is one of the ledger's transactions.
LEMMA CommonLedger ==
    ASSUME HandlerTypes, NEW r \in Requests, Common(r)
    PROVE  [LedgerNext]_ledgerVars
<1> DEFINE c == req[r]
           k == KeyOf[r]
<1>1. c.pc \notin Outside => c.tok \in Tokens
  BY DEF HandlerTypes, HandlerFits, Fits, Coroutines
<1> USE DEF LedgerNext
<1>2. CASE GiveUp(r) \/ HandleRequestError(r)
  BY <1>2 DEF GiveUp, HandleRequestError
<1>3. CASE ClaimCreates(r) \/ CancelAfterClaim(r) \/ ReserveOk(r)
  BY <1>1, <1>3 DEF ClaimCreates, CancelAfterClaim, ReserveOk, Outside
<1>4. CASE Settle(r) \/ GiveBack(r)
  BY <1>4 DEF Settle, GiveBack
<1>5. CASE GiveBackAfterError(r)
  BY <1>5 DEF GiveBackAfterError
<1>6. CASE HandleQuotaExhausted(r)
  <2>1. OverwriteCredits(c.tok, 0) /\ c.pc = "handle"
    BY <1>6 DEF HandleQuotaExhausted
  <2>2. 0 \in 0 .. MaxCredits
    BY CreditsAssumption
  <2> QED BY <1>1, <2>1, <2>2 DEF Outside
<1>7. CASE UNCHANGED ledgerVars
  BY <1>7
<1> QED BY <1>2, <1>3, <1>4, <1>5, <1>6, <1>7
        DEF Common, Arrive, Select, SkipCandidate, TakeCandidate, NoCandidate, ValidateOk,
            ValidateRejects, ValidateRaises, ClaimFinds, ClaimRaises, Replay, ReplayTimeout,
            ReserveRefused, NoMedia, Refused, TimedOut, Succeed, Publish, Finish, Fail,
            MarkUnknown, HandleRateLimit, HandleAccountError, Continue, CancelBeforeTry,
            CancelInExcept

LEMMA SetStatusFits ==
    ASSUME HandlerFits, NEW k \in Keys, NEW v \in Statuses, SetStatus(k, v)
    PROVE  status' \in [Keys -> Statuses]
BY DEF HandlerFits, SetStatus

LEMMA TakenOnFits ==
    ASSUME HandlerFits, NEW k \in Keys, NEW n \in {0, 1, 2}, TakenOn(k, n)
    PROVE  accepted' \in [Keys -> Nat]
BY DEF HandlerFits, TakenOn

LEMMA CommonRows ==
    ASSUME HandlerTypes, NEW r \in Requests, Common(r)
    PROVE  /\ status' \in [Keys -> Statuses]
           /\ accepted' \in [Keys -> Nat]
           /\ forgotten' = forgotten
<1> DEFINE k == KeyOf[r]
<1>1. HandlerFits /\ k \in Keys
  BY DEF HandlerTypes
<1>2. forgotten' = forgotten
  BY DEF Common, Arrive, Select, SkipCandidate, TakeCandidate, NoCandidate, GiveUp, ValidateOk,
         ValidateRejects, ValidateRaises, ClaimCreates, ClaimFinds, ClaimRaises, Replay,
         ReplayTimeout, ReserveOk, ReserveRefused, NoMedia, Refused, TimedOut, Settle, Succeed,
         Publish, Finish, GiveBack, Fail, MarkUnknown, GiveBackAfterError, HandleRateLimit,
         HandleQuotaExhausted, HandleAccountError, Continue, HandleRequestError,
         CancelBeforeTry, CancelAfterClaim, CancelInExcept
<1>3. \/ UNCHANGED status
      \/ \E v \in Statuses : SetStatus(k, v)
      \/ status' = [status EXCEPT ![k] = "submitting"]
  BY DEF Common, Arrive, Select, SkipCandidate, TakeCandidate, NoCandidate, GiveUp, ValidateOk,
         ValidateRejects, ValidateRaises, ClaimCreates, ClaimFinds, ClaimRaises, Replay,
         ReplayTimeout, ReserveOk, ReserveRefused, NoMedia, Refused, TimedOut, Settle, Succeed,
         Publish, Finish, GiveBack, Fail, MarkUnknown, GiveBackAfterError, HandleRateLimit,
         HandleQuotaExhausted, HandleAccountError, Continue, HandleRequestError,
         CancelBeforeTry, CancelAfterClaim, CancelInExcept, Statuses
<1>4. UNCHANGED accepted \/ \E n \in {0, 1, 2} : TakenOn(k, n)
  BY DEF Common, Arrive, Select, SkipCandidate, TakeCandidate, NoCandidate, GiveUp, ValidateOk,
         ValidateRejects, ValidateRaises, ClaimCreates, ClaimFinds, ClaimRaises, Replay,
         ReplayTimeout, ReserveOk, ReserveRefused, NoMedia, Refused, TimedOut, Settle, Succeed,
         Publish, Finish, GiveBack, Fail, MarkUnknown, GiveBackAfterError, HandleRateLimit,
         HandleQuotaExhausted, HandleAccountError, Continue, HandleRequestError,
         CancelBeforeTry, CancelAfterClaim, CancelInExcept, LostReplies
<1>5. status' \in [Keys -> Statuses]
  BY <1>1, <1>3, SetStatusFits DEF HandlerFits, Statuses
<1>6. accepted' \in [Keys -> Nat]
  BY <1>1, <1>4, TakenOnFits DEF HandlerFits
<1> QED BY <1>2, <1>5, <1>6

----------------------------------------------------------------------------
(***************************************************************************)
(* The slots of the requests are the slots granted by the manager.         *)
(***************************************************************************)
Owners(s) == {q \in Requests : HoldsSlot(q) /\ req[q].tok = s[1]}

LEMMA OwnersFinite ==
    \A s : IsFiniteSet(Owners(s)) /\ Cardinality(Owners(s)) <= Cardinality(Requests)
BY FS_Subset, FS_CardinalityType DEF Owners

\* Counting with one element more or less.
LEMMA OneMore ==
    ASSUME NEW S, IsFiniteSet(S), NEW x, x \notin S
    PROVE  Cardinality(S \cup {x}) = Cardinality(S) + 1
BY FS_AddElement

LEMMA OneLess ==
    ASSUME NEW S, IsFiniteSet(S), NEW x \in S
    PROVE  Cardinality(S \ {x}) = Cardinality(S) - 1
BY FS_RemoveElement

LEMMA CountsOwners ==
    /\ SlotsHeld = [s \in CM!Slots |-> Cardinality(Owners(s))]
    /\ SlotsHeld' = [s \in CM!Slots |-> Cardinality(Owners(s)')]
BY DEF SlotsHeld, Owners, CM!Slots

\* Where a coroutine goes decides which slots are held.
LEMMA OwnersMove ==
    ASSUME HandlerFits, NEW r \in Requests, NEW new \in Coroutines, Fits(new),
           req' = [req EXCEPT ![r] = new], NEW s \in CM!Slots
    PROVE  /\ r \in Owners(s) <=> req[r].tok = s[1]
           /\ r \in Owners(s)' <=> new.tok = s[1]
           /\ \A q \in Requests \ {r} : q \in Owners(s)' <=> q \in Owners(s)
<1>1. s[1] \in Tokens
  BY DEF CM!Slots
<1>2. req'[r] = new /\ \A q \in Requests \ {r} : req'[q] = req[q]
  BY DEF HandlerFits
<1>3. Fits(req[r])
  BY DEF HandlerFits
<1> QED BY <1>1, <1>2, <1>3 DEF Owners, HoldsSlot, Fits

\* A step of a request is a step of the manager's protocol.
LEMMA MovesProtocol ==
    ASSUME HandlerFits, NEW r \in Requests, Moves(r), forgotten' = forgotten
    PROVE  [CM!Next]_(CM!vars)
<1>1. PICK new \in Coroutines : GoesTo(r, new)
  BY DEF Moves
<1>2. Fits(new) /\ req' = [req EXCEPT ![r] = new]
  BY <1>1 DEF GoesTo
<1>3. \A s \in CM!Slots : /\ Owners(s)' \subseteq Requests /\ Owners(s) \subseteq Requests
                          /\ r \in Owners(s) <=> req[r].tok = s[1]
                          /\ r \in Owners(s)' <=> new.tok = s[1]
                          /\ \A q \in Requests \ {r} : q \in Owners(s)' <=> q \in Owners(s)
  <2>1. \A s \in CM!Slots : Owners(s)' \subseteq Requests /\ Owners(s) \subseteq Requests
    BY DEF Owners
  <2> QED BY <1>2, <2>1, OwnersMove
<1>4. CASE Keeps(r, new)
  <2>1. \A s \in CM!Slots : Owners(s)' = Owners(s)
    <3> SUFFICES ASSUME NEW s \in CM!Slots PROVE Owners(s)' = Owners(s)
      OBVIOUS
    <3>1. r \in Owners(s)' <=> r \in Owners(s)
      BY <1>3, <1>4 DEF Keeps
    <3>2. \A q : q \in Owners(s)' <=> q \in Owners(s)
      BY <1>3, <3>1
    <3> QED BY <3>2
  <2>2. UNCHANGED SlotsHeld
    BY <2>1, CountsOwners
  <2>3. CASE UNCHANGED managerVars
    BY <2>2, <2>3 DEF managerVars, CM!vars
  <2>4. ASSUME NEW t \in Tokens, CM!BackOff(Slot(t)) PROVE CM!Next
    <3>1. Slot(t) \in CM!Slots
      BY DEF Slot, CM!Slots
    <3> QED BY <2>2, <2>4, <3>1 DEF CM!Next, CM!RecordRateLimit
  <2> QED BY <1>4, <2>3, <2>4 DEF Keeps
<1>5. CASE Takes(r, new)
  <2> DEFINE s == Slot(new.tok)
  <2>1. s \in CM!Slots /\ s[1] = new.tok /\ CM!TakeSlot(s) /\ req[r].tok = NoAccount
    BY <1>5 DEF Takes, Slot, CM!Slots
  <2>2. \A z \in CM!Slots : z # s => z[1] # new.tok
    BY DEF Slot, CM!Slots
  <2> HIDE DEF s
  <2>3. \A z \in CM!Slots : z # s => Owners(z)' = Owners(z)
    <3> SUFFICES ASSUME NEW z \in CM!Slots, z # s PROVE Owners(z)' = Owners(z)
      OBVIOUS
    <3>1. r \notin Owners(z) /\ r \notin Owners(z)'
      <4>1. z[1] \in Tokens
        BY DEF CM!Slots
      <4> QED BY <1>3, <2>1, <2>2, <4>1
    <3>2. \A q : q \in Owners(z)' <=> q \in Owners(z)
      BY <1>3, <3>1
    <3> QED BY <3>2
  <2>4. r \notin Owners(s) /\ Owners(s)' = Owners(s) \cup {r}
    <3>1. r \notin Owners(s) /\ r \in Owners(s)'
      BY <1>3, <1>5, <2>1 DEF Takes
    <3> QED BY <1>3, <2>1, <3>1
  <2>5. Cardinality(Owners(s)') = Cardinality(Owners(s)) + 1
    BY <2>4, OwnersFinite, OneMore
  <2>6. SlotsHeld' = [SlotsHeld EXCEPT ![s] = @ + 1]
    BY <2>1, <2>3, <2>5, CountsOwners
  <2>7. SlotsHeld[s] < Cardinality(Requests)
    <3>1. Owners(s)' \subseteq Requests
      BY <1>3, <2>1
    <3>2. Cardinality(Owners(s)') <= Cardinality(Requests)
      BY <3>1, FS_Subset
    <3>3. Cardinality(Owners(s)) \in Nat /\ Cardinality(Requests) \in Nat
      BY OwnersFinite, FS_CardinalityType
    <3> QED BY <2>1, <2>5, <3>2, <3>3, CountsOwners
  <2> QED BY <2>1, <2>6, <2>7 DEF CM!Next, CM!Acquire
<1>6. CASE Drops(r, new)
  <2>0. Slot(req[r].tok) \in CM!Slots
    BY <1>6 DEF Drops, Slot, CM!Slots
  <2> PICK s \in CM!Slots : s = Slot(req[r].tok)
    BY <2>0
  <2>1. s \in CM!Slots /\ s[1] = req[r].tok /\ CM!GiveBackSlot(s) /\ new.tok = NoAccount
    BY <1>6 DEF Drops, Slot, CM!Slots
  <2>2. \A z \in CM!Slots : z # s => z[1] # req[r].tok
    BY DEF Slot, CM!Slots
  <2>3. \A z \in CM!Slots : z # s => Owners(z)' = Owners(z)
    <3> SUFFICES ASSUME NEW z \in CM!Slots, z # s PROVE Owners(z)' = Owners(z)
      OBVIOUS
    <3>1. r \notin Owners(z) /\ r \notin Owners(z)'
      <4>1. z[1] \in Tokens
        BY DEF CM!Slots
      <4> QED BY <1>3, <2>1, <2>2, <4>1
    <3>2. \A q : q \in Owners(z)' <=> q \in Owners(z)
      BY <1>3, <3>1
    <3> QED BY <3>2
  <2>4. r \in Owners(s) /\ Owners(s)' = Owners(s) \ {r}
    <3>1. r \in Owners(s) /\ r \notin Owners(s)'
      <4>1. s[1] \in Tokens
        BY <2>1 DEF CM!Slots
      <4> QED BY <1>3, <2>1, <4>1
    <3>2. \A q : q \in Owners(s)' <=> q \in Owners(s) \ {r}
      BY <1>3, <2>1, <3>1
    <3> QED BY <3>1, <3>2
  <2>5. Cardinality(Owners(s)') = Cardinality(Owners(s)) - 1
    BY <2>4, OwnersFinite, OneLess
  <2>6. SlotsHeld' = [SlotsHeld EXCEPT ![s] = @ - 1]
    <3>1. \A z \in CM!Slots : SlotsHeld'[z] = IF z = s THEN SlotsHeld[s] - 1 ELSE SlotsHeld[z]
      BY <2>1, <2>3, <2>5, CountsOwners
    <3> QED BY <2>1, <3>1, CountsOwners
  <2>7. SlotsHeld[s] > 0
    <3>1. Cardinality(Owners(s)') \in Nat /\ Cardinality(Owners(s)) \in Nat
      BY <2>4, OwnersFinite, FS_CardinalityType, FS_Subset
    <3> QED BY <2>1, <2>5, <3>1, CountsOwners
  <2> QED BY <2>1, <2>6, <2>7 DEF CM!Next, CM!Release
<1> QED BY <1>1, <1>4, <1>5, <1>6 DEF GoesTo

----------------------------------------------------------------------------
(***************************************************************************)
(* Every step keeps the types, is a step of the ledger or leaves it alone, *)
(* and a step of the manager's protocol or leaves the slots alone.         *)
(***************************************************************************)
Sound == HandlerFits' /\ [LedgerNext]_ledgerVars /\ [CM!Next]_(CM!vars)

LEMMA MovesSound ==
    ASSUME HandlerTypes, NEW r \in Requests, Moves(r), forgotten' = forgotten,
           status' \in [Keys -> Statuses], accepted' \in [Keys -> Nat],
           [LedgerNext]_ledgerVars
    PROVE  Sound
<1>1. PICK new \in Coroutines : Fits(new) /\ req' = [req EXCEPT ![r] = new]
  BY DEF Moves, GoesTo
<1>2. HandlerFits' <=> /\ req' \in [Requests -> Coroutines]
                       /\ \A q \in Requests : Fits(req'[q])
                       /\ status' \in [Keys -> Statuses] /\ accepted' \in [Keys -> Nat]
  BY DEF HandlerFits, Fits
<1>3. req' \in [Requests -> Coroutines] /\ \A q \in Requests : Fits(req'[q])
  BY <1>1 DEF HandlerTypes, HandlerFits
<1> QED BY <1>2, <1>3, MovesProtocol DEF Sound, HandlerTypes

LEMMA CommonSound == ASSUME HandlerTypes, NEW r \in Requests, Common(r) PROVE Sound
BY CommonMoves, CommonLedger, CommonRows, MovesSound

\* No request moves.
LEMMA OthersSound ==
    ASSUME HandlerFits, UNCHANGED <<req, accepted>>, status' \in [Keys -> Statuses]
    PROVE  HandlerFits'
BY DEF HandlerFits, Fits

LEMMA CrashSound == ASSUME HandlerTypes, Crash PROVE Sound
<1> DEFINE Ended(r) == [req[r] EXCEPT !.pc = "done", !.reply = "lost", !.tok = NoAccount]
<1>1. req' = [r \in Requests |-> IF req[r].pc \in {"idle", "done"} THEN req[r] ELSE Ended(r)]
  BY DEF Crash
<1>2. ASSUME NEW r \in Requests PROVE Ended(r) \in Coroutines /\ Fits(Ended(r))
  <2>1. req[r] \in Coroutines
    BY DEF HandlerTypes, HandlerFits
  <2>2. {"done"} \subseteq Places \cap Outside /\ {"lost"} \subseteq Replies
    BY DEF Places, Outside, Replies
  <2> QED BY <2>1, <2>2 DEF Coroutines, Fits
<1> HIDE DEF Ended
<1>3. req' \in [Requests -> Coroutines] /\ \A r \in Requests : Fits(req'[r])
  BY <1>1, <1>2 DEF HandlerTypes, HandlerFits
<1>4. accepted' \in [Keys -> Nat] /\ status' = status
  <2>1. PICK took : accepted' = [k \in Keys |-> IF k \in took THEN accepted[k] + 1 ELSE accepted[k]]
    BY DEF Crash
  <2>2. \A k \in Keys : accepted[k] \in Nat
    BY DEF HandlerTypes, HandlerFits
  <2>3. status' = status
    BY DEF Crash
  <2> QED BY <2>1, <2>2, <2>3
<1>5. HandlerFits'
  BY <1>3, <1>4 DEF HandlerTypes, HandlerFits, Fits
<1> QED BY <1>5 DEF Sound, Crash, CM!Next

Environment ==
    \/ RefreshCredits \/ CooldownPasses \/ Crash
    \/ \E t \in Tokens : OperatorDeletes(t) \/ OperatorForgets(t)

LEMMA EnvironmentSound == ASSUME HandlerTypes, Environment PROVE Sound
<1>1. HandlerFits /\ status \in [Keys -> Statuses]
  BY DEF HandlerTypes, HandlerFits
<1>2. UNCHANGED <<req, managerVars, forgotten>> => UNCHANGED CM!vars
  BY DEF managerVars, CM!vars, SlotsHeld, HoldsSlot
<1>3. CASE RefreshCredits
  <2>1. UNCHANGED <<req, status, accepted, forgotten, managerVars>>
    BY <1>3 DEF RefreshCredits, flowVars
  <2> QED BY <1>1, <1>2, <1>3, <2>1, OthersSound DEF RefreshCredits, LedgerNext, Sound
<1>4. CASE CooldownPasses
  <2>1. UNCHANGED <<req, status, accepted, ledgerVars>> /\ CM!Next
    BY <1>4 DEF CooldownPasses, flowVars, CM!Next
  <2> QED BY <1>1, <2>1, OthersSound DEF Sound
<1>5. ASSUME NEW t \in Tokens, OperatorDeletes(t) PROVE Sound
  <2>1. UNCHANGED <<req, accepted, forgotten, managerVars>> /\ DeleteAccount(t)
    BY <1>5 DEF OperatorDeletes
  <2>2. status' \in [Keys -> Statuses]
    BY <1>1, <1>5 DEF OperatorDeletes, Statuses
  <2> QED BY <1>1, <1>2, <2>1, <2>2, OthersSound DEF LedgerNext, Sound
<1>6. ASSUME NEW t \in Tokens, OperatorForgets(t) PROVE Sound
  <2>1. UNCHANGED <<req, status, accepted, ledgerVars>> /\ CM!Next
    BY <1>6 DEF OperatorForgets, CM!Next
  <2> QED BY <1>1, <2>1, OthersSound DEF Sound
<1> QED BY <1>3, <1>4, <1>5, <1>6, CrashSound DEF Environment

\* A request, or the environment, has nothing to do.
LEMMA IdleSound == ASSUME HandlerTypes, UNCHANGED handlerVars PROVE Sound
BY OthersSound
   DEF HandlerTypes, HandlerFits, handlerVars, flowVars, managerVars, CM!vars, SlotsHeld,
       HoldsSlot, Sound

LEMMA InitFits == ASSUME HandlerInit PROVE HandlerFits
<1> DEFINE start == [pc |-> "idle", tok |-> NoAccount, tried |-> {}, cands |-> {},
                     claim |-> "no", err |-> "quota_exhausted", reply |-> "none"]
<1>1. start \in Coroutines /\ Fits(start)
  BY DEF Coroutines, Fits, Places, Outside, Errors, AccountErrors, Replies
<1>2. req = [r \in Requests |-> start]
  BY DEF HandlerInit
<1> HIDE DEF start
<1> QED BY <1>1, <1>2 DEF HandlerInit, HandlerFits, Statuses

----------------------------------------------------------------------------
(***************************************************************************)
(* A key and the request that owns it.                                     *)
(***************************************************************************)
\* Without the key, or with a key that another request owns, a request is in
\* these places only.
Claims(c) ==
    /\ c.claim = "no" => c.pc \in {"idle", "select", "pick", "noAccount", "validate", "claim",
                                   "raised", "handle", "next", "done"}
    /\ c.claim = "duplicate" => c.pc \in {"replay", "done"}

OneOwner ==
    \A r, q \in Requests : IsOwner(r) /\ IsOwner(q) /\ KeyOf[r] = KeyOf[q] => r = q

\* Where the actions leave a coroutine: LeaveWith, TryNext, and a plain step.
LEMMA Left ==
    ASSUME HandlerFits, NEW r \in Requests, NEW reply, LeaveWith(r, reply)
    PROVE  req'[r].pc = "done" /\ req'[r].claim = req[r].claim
BY DEF HandlerFits, LeaveWith, Coroutines

LEMMA WentAround ==
    ASSUME HandlerFits, NEW r \in Requests, NEW error, TryNext(r, error)
    PROVE  req'[r].pc = "select" /\ req'[r].claim = req[r].claim
BY DEF HandlerFits, TryNext, Coroutines

LEMMA WentTo ==
    ASSUME HandlerFits, NEW r \in Requests, NEW place, req' = [req EXCEPT ![r].pc = place]
    PROVE  req'[r].pc = place /\ req'[r].claim = req[r].claim
BY DEF HandlerFits, Coroutines

\* What the statements on a row do to it, and to no other.
LEMMA StatusWritten ==
    ASSUME HandlerFits, NEW k \in Keys, NEW v, SetStatus(k, v)
    PROVE  /\ \A j \in Keys \ {k} : status'[j] = status[j]
           /\ status'[k] = IF status[k] = "absent" THEN "absent" ELSE v
BY DEF HandlerFits, SetStatus

LEMMA WorkCounted ==
    ASSUME HandlerFits, NEW k \in Keys, NEW n \in Nat, TakenOn(k, n)
    PROVE  /\ \A j \in Keys \ {k} : accepted'[j] = accepted[j]
           /\ accepted'[k] = accepted[k] + n
           /\ accepted[k] \in Nat
           /\ n = 0 => accepted' = accepted
BY DEF HandlerFits, TakenOn

LEMMA QuotaWritten ==
    ASSUME HandlerTypes, NEW k \in Keys, NEW t,
           ReleaseQuota(k) \/ SettleQuota(k) \/ MarkReleased(k) \/ ReserveQuota(k, t)
    PROVE  /\ \A j \in Keys \ {k} : quota'[j] = quota[j]
           /\ ReleaseQuota(k) => quota'[k] = IF quota[k] = "reserved" THEN "released" ELSE quota[k]
           /\ SettleQuota(k) => quota'[k] = IF quota[k] = "reserved" THEN "settled" ELSE quota[k]
           /\ MarkReleased(k) => quota'[k] = IF quota[k] = "absent" THEN "absent" ELSE "released"
           /\ ReserveQuota(k, t) => quota'[k] = "reserved"
BY DEF HandlerTypes, LedgerTypeOK, ReleaseQuota, SettleQuota, MarkReleased, ReserveQuota, ledgerVars

\* Looking for an account, validating, waiting for the owner, counting, and
\* failing over: these steps leave the rows alone.
Searches(r) ==
    \/ Arrive(r) \/ Select(r) \/ SkipCandidate(r) \/ TakeCandidate(r) \/ NoCandidate(r)
    \/ ValidateOk(r) \/ ValidateRejects(r) \/ ValidateRaises(r)
    \/ ClaimFinds(r) \/ ClaimRaises(r) \/ Replay(r) \/ ReplayTimeout(r)
    \/ ReserveRefused(r) \/ Continue(r) \/ CancelBeforeTry(r) \/ CancelInExcept(r)
    \/ HandleRateLimit(r) \/ HandleAccountError(r) \/ Finish(r) \/ NoMedia(r)
    \/ Publish(r) \/ HandleQuotaExhausted(r)

\* The ways between places that they take.
Way(from, to, claim) ==
    \/ from = "idle" /\ to = "select"
    \/ from = "select" /\ to \in {"pick", "done"}
    \/ from = "pick" /\ to \in {"pick", "noAccount", "validate", "done"}
    \/ from = "noAccount" /\ to = "done"
    \/ from = "validate" /\ to \in {"select", "raised"}
    \/ from = "validate" /\ IF claim = "no" THEN to = "claim" ELSE to = "reserve"
    \/ from = "claim" /\ to = "raised"
    \/ from = "replay" /\ to = "done"
    \/ from = "reserve" /\ to = "select"
    \/ from = "submit" /\ to = "giveBack"
    \/ from = "publish" /\ to = "count"
    \/ from = "count" /\ to = "done"
    \/ from = "handle" /\ to = "next"
    \/ from = "next" /\ to = "select"
    \/ from \in InExcept /\ to = "done"

LEMMA SearchGoes ==
    ASSUME HandlerFits, NEW r \in Requests, Searches(r)
    PROVE  /\ UNCHANGED <<status, quota, accepted>>
           /\ \/ /\ req'[r].claim = req[r].claim
                 /\ Way(req[r].pc, req'[r].pc, req[r].claim)
              \/ /\ req[r].pc = "claim"
                 /\ req'[r].pc = "replay" /\ req'[r].claim = "duplicate"
<1> DEFINE c == req[r]
           Now(pc) == req'[r].pc = pc /\ req'[r].claim = c.claim
           Goes == \/ req'[r].claim = c.claim /\ Way(c.pc, req'[r].pc, c.claim)
                   \/ /\ c.pc = "claim"
                      /\ req'[r].pc = "replay" /\ req'[r].claim = "duplicate"
<1>0. c \in Coroutines /\ req \in [Requests -> Coroutines]
  BY DEF HandlerFits
<1>1. UNCHANGED <<status, quota, accepted>>
  BY DEF Searches, Arrive, Select, SkipCandidate, TakeCandidate, NoCandidate, ValidateOk,
         ValidateRejects, ValidateRaises, ClaimFinds, ClaimRaises, Replay, ReplayTimeout,
         ReserveRefused, Continue, CancelBeforeTry, CancelInExcept, HandleRateLimit,
         HandleAccountError, Finish, NoMedia, Publish, HandleQuotaExhausted, OverwriteCredits,
         ledgerVars
<1> SUFFICES Goes
  BY <1>1
<1>2. ASSUME NEW pc, Now(pc), Way(c.pc, pc, c.claim) PROVE Goes
  BY <1>2
<1> USE DEF Way
<1>3. CASE Arrive(r)
  <2>1. Now("select")
    BY <1>0, <1>3, WentTo DEF Arrive
  <2> QED BY <1>0, <1>2, <1>3, <2>1 DEF Arrive
<1>4. CASE NoCandidate(r)
  <2>1. Now("noAccount")
    BY <1>0, <1>4, WentTo DEF NoCandidate
  <2> QED BY <1>0, <1>2, <1>4, <2>1 DEF NoCandidate
<1>5. CASE NoMedia(r)
  <2>1. Now("giveBack")
    BY <1>0, <1>5, WentTo DEF NoMedia
  <2> QED BY <1>0, <1>2, <1>5, <2>1 DEF NoMedia
<1>6. CASE Publish(r)
  <2>1. Now("count")
    BY <1>0, <1>6, WentTo DEF Publish
  <2> QED BY <1>0, <1>2, <1>6, <2>1 DEF Publish
<1>7. CASE HandleRateLimit(r)
  <2>1. Now("next")
    BY <1>0, <1>7, WentTo DEF HandleRateLimit
  <2> QED BY <1>0, <1>2, <1>7, <2>1 DEF HandleRateLimit
<1>8. CASE HandleAccountError(r)
  <2>1. Now("next")
    BY <1>0, <1>8, WentTo DEF HandleAccountError
  <2> QED BY <1>0, <1>2, <1>8, <2>1 DEF HandleAccountError
<1>9. CASE HandleQuotaExhausted(r)
  <2>1. Now("next")
    BY <1>0, <1>9, WentTo DEF HandleQuotaExhausted
  <2> QED BY <1>0, <1>2, <1>9, <2>1 DEF HandleQuotaExhausted
<1>10. CASE Select(r)
  <2>1. Now("pick")
    BY <1>0, <1>10 DEF Select, Coroutines
  <2> QED BY <1>0, <1>2, <1>10, <2>1 DEF Select
<1>11. CASE SkipCandidate(r)
  <2>1. Now("pick")
    BY <1>0, <1>11 DEF SkipCandidate, Coroutines
  <2> QED BY <1>0, <1>2, <1>11, <2>1 DEF SkipCandidate
<1>12. CASE TakeCandidate(r)
  <2>1. PICK t \in c.cands :
           req' = [req EXCEPT ![r].pc = "validate", ![r].tok = t, ![r].cands = {}]
    BY <1>12 DEF TakeCandidate
  <2>2. req' = [req EXCEPT ![r] = [c EXCEPT !.pc = "validate", !.tok = t, !.cands = {}]]
    BY <2>1
  <2>3. Now("validate") /\ c.pc = "pick"
    BY <1>0, <1>12, <2>2 DEF TakeCandidate, Coroutines
  <2> QED BY <1>0, <1>2, <2>3
<1>13. CASE ValidateOk(r)
  <2>1. Now(IF c.claim = "no" THEN "claim" ELSE "reserve")
    BY <1>0, <1>13, WentTo DEF ValidateOk
  <2>2. CASE c.claim = "no"
    BY <1>0, <1>2, <1>13, <2>1, <2>2 DEF ValidateOk
  <2>3. CASE c.claim # "no"
    BY <1>0, <1>2, <1>13, <2>1, <2>3 DEF ValidateOk
  <2> QED BY <2>2, <2>3
<1>14. CASE ValidateRaises(r)
  <2>1. Now("raised")
    BY <1>0, <1>14 DEF ValidateRaises, Coroutines
  <2> QED BY <1>0, <1>2, <1>14, <2>1 DEF ValidateRaises
<1>15. CASE ClaimRaises(r)
  <2>1. Now("raised")
    BY <1>0, <1>15 DEF ClaimRaises, Coroutines
  <2> QED BY <1>0, <1>2, <1>15, <2>1 DEF ClaimRaises
<1>16. CASE ValidateRejects(r)
  <2>1. Now("select")
    BY <1>16, WentAround DEF ValidateRejects
  <2> QED BY <1>0, <1>2, <1>16, <2>1 DEF ValidateRejects
<1>17. CASE ReserveRefused(r)
  <2>1. Now("select")
    BY <1>17, WentAround DEF ReserveRefused
  <2> QED BY <1>0, <1>2, <1>17, <2>1 DEF ReserveRefused
<1>18. CASE Continue(r)
  <2>1. Now("select")
    BY <1>18, WentAround DEF Continue
  <2> QED BY <1>0, <1>2, <1>18, <2>1 DEF Continue
<1>19. CASE Replay(r)
  <2>1. Now("done")
    BY <1>19, Left DEF Replay
  <2> QED BY <1>0, <1>2, <1>19, <2>1 DEF Replay, InExcept
<1>20. CASE ReplayTimeout(r)
  <2>1. Now("done")
    BY <1>20, Left DEF ReplayTimeout
  <2> QED BY <1>0, <1>2, <1>20, <2>1 DEF ReplayTimeout, InExcept
<1>21. CASE Finish(r)
  <2>1. Now("done")
    BY <1>21, Left DEF Finish
  <2> QED BY <1>0, <1>2, <1>21, <2>1 DEF Finish, InExcept
<1>22. CASE CancelInExcept(r)
  <2>1. Now("done")
    BY <1>22, Left DEF CancelInExcept
  <2> QED BY <1>0, <1>2, <1>22, <2>1 DEF CancelInExcept, InExcept
<1>23. CASE CancelBeforeTry(r)
  <2>1. Now("done")
    BY <1>0, <1>23 DEF CancelBeforeTry, Coroutines
  <2> QED BY <1>0, <1>2, <1>23, <2>1 DEF CancelBeforeTry, BeforeTry
<1>24. CASE ClaimFinds(r)
  <2>1. req'[r].pc = "replay" /\ req'[r].claim = "duplicate"
    BY <1>0, <1>24 DEF ClaimFinds, Coroutines
  <2> QED BY <1>24, <2>1 DEF ClaimFinds
<1> QED BY <1>3, <1>4, <1>5, <1>6, <1>7, <1>8, <1>9, <1>10, <1>11, <1>12, <1>13, <1>14, <1>15, <1>16, <1>17, <1>18, <1>19, <1>20, <1>21, <1>22, <1>23, <1>24 DEF Searches
=============================================================================
