---------------------------- MODULE LoadBalancer ----------------------------
(***************************************************************************)
(* Which account a request gets (src/services/load_balancer.py), what the  *)
(* request's outcome does to the account (record_error, record_success of  *)
(* src/services/token_manager.py), and the older path of                   *)
(* handle_generation that the administrator's test page takes, all against *)
(* the ConcurrencyManager.                                                 *)
(*                                                                         *)
(* A caller is one of                                                      *)
(*   "pool"   a request of a client: it fails over between accounts;       *)
(*   "keyed"  a test of one account with an idempotency key: the same      *)
(*            handler, but every selection names that account;             *)
(*   "plain"  a test of one account without a key: one attempt.            *)
(* Idempotency keys and the quota ledger are QuotaHandler's; here a unit   *)
(* is there (funded) or not.  A step is the code between two awaits that   *)
(* touch shared state.                                                     *)
(***************************************************************************)
EXTENDS ConcurrencyManager, FiniteSets

CONSTANTS Requests,      \* the callers
          Kinds,         \* the kinds of callers that come: see above
          MediumOf,      \* what each of them generates
          NoToken,
          CallModes,     \* call_logic_mode: "default", "polling"
          BanThreshold,  \* error_ban_threshold
          LogsProgress,  \* the plain test streams: its progress is written to a log row
          MaxMoves       \* bound: events of the environment

ASSUME BalancerAssumption ==
    /\ Tokens \subseteq Nat \ {0} /\ NoToken \notin Tokens
    /\ IsFiniteSet(Requests) /\ MediumOf \in [Requests -> Media]
    /\ Kinds \subseteq {"pool", "keyed", "plain"} /\ CallModes \subseteq {"default", "polling"}
    /\ BanThreshold \in Nat \ {0} /\ LogsProgress \in BOOLEAN /\ MaxMoves \in Nat

VARIABLES active,    \* accounts whose row has is_active
          unfit,     \* why an account cannot serve: "no", "tier", "disabled", "route"
          funded,    \* accounts with at least one unreserved credit
          stale,     \* accounts whose access token is due for renewal
          broken,    \* accounts the upstream refuses and whose session renews nothing
          errors,    \* token_stats.consecutive_error_count
          last,      \* _round_robin_state per medium
          mode,      \* config.call_logic_mode
          enabling,  \* the account whose enable_token has set is_active only so far
          moves,     \* events of the environment so far
          caller,    \* the coroutine of each request
          chance,    \* history: accounts usable all through a caller's selection
          unweighed  \* history: accounts whose last failure was counted, not weighed

accountVars == <<active, unfit, funded, stale, broken, errors, mode>>
operatorVars == <<enabling, moves>>
slotVars == <<limits, learned, cooldown, inflight, held, removed>>
balancerVars == <<slotVars, accountVars, last, operatorVars, caller, chance, unweighed>>

----------------------------------------------------------------------------
SlotOf(r, t) == <<t, MediumOf[r]>>
Holding(r) == caller[r].slot # NoToken

\* A step of caller r: it goes to pc and changes only what the record says.
Goes(r, new) == caller' = [caller EXCEPT ![r] = new]

At(r, pc) == caller[r].pc = pc

\* A coroutine before its first step.
Fresh == [kind |-> "none", pc |-> "idle", target |-> NoToken, seen |-> {}, due |-> {},
          cands |-> {}, queue |-> {}, tried |-> {}, slot |-> NoToken, reply |-> "none"]

Usable(r) ==
    {t \in (active \cap funded) \ (broken \cup caller[r].tried) :
        unfit[t] = "no" /\ CanUse(SlotOf(r, t))}

----------------------------------------------------------------------------
(***************************************************************************)
(* The order of the candidates: a queue is a set of accounts with a rank,  *)
(* walked by rank, then by id.  Accounts whose access token is due for     *)
(* renewal come last.                                                      *)
(***************************************************************************)
Ids(items) == {c.tok : c \in items}

IsNext(c, queue) ==
    /\ c \in queue
    /\ \A d \in queue : c.rank < d.rank \/ (c.rank = d.rank /\ c.tok <= d.tok)

\* Among those alike in their access tokens the preferred ones come first.
Ranked(cands, preferred) ==
    {[tok |-> c.tok,
      rank |-> (IF c.stale THEN 2 ELSE 0) + (IF c \in preferred THEN 0 ELSE 1)] : c \in cands}

\* _select_round_robin: by id, the candidate after the one picked last, the
\* first one when that is no candidate, or the last of them.
IsTurnOf(c, cands, m) ==
    LET later == {d \in cands : last[m] \in Ids(cands) /\ d.tok > last[m]}
        line == IF later = {} THEN cands ELSE later
    IN  c \in line /\ \A d \in line : c.tok <= d.tok

\* Mutant of Polled: only the chosen one is tried.
PolledAlone(cands, first) == Ranked({first}, {first})

\* The one whose turn it is, then the others.
Polled(cands, first) == Ranked(cands, {first})

\* Busy accounts before idle ones: the number in flight and the free slots
\* never decide, ids differ already.
Dense(cands) == Ranked(cands, {c \in cands : c.busy})

----------------------------------------------------------------------------
(***************************************************************************)
(* select_token.                                                           *)
(***************************************************************************)
\* get_active_tokens; the rows are read once.
List(r) ==
    /\ At(r, "list")
    /\ Goes(r, IF active = {} THEN [caller[r] EXCEPT !.pc = "refused"]
               ELSE [caller[r] EXCEPT !.pc = "filter", !.seen = active,
                                      !.due = active \cap stale])
    /\ UNCHANGED <<slotVars, accountVars, last, operatorVars>>

\* _get_token_load: only whether the account is busy matters, see Dense.
Busy(r, t) == inflight[SlotOf(r, t)] > 0

\* One account is tested: tried, credits, tier, medium, route, free slot.
Filter(r, t) ==
    /\ At(r, "filter")
    /\ t \in caller[r].seen
    /\ LET ok == /\ t \notin caller[r].tried
                 /\ t \in funded
                 /\ unfit[t] = "no"
                 /\ CanUse(SlotOf(r, t))
           item == [tok |-> t, busy |-> Busy(r, t), stale |-> t \in caller[r].due]
       IN  Goes(r, [caller[r] EXCEPT !.seen = @ \ {t},
                                     !.cands = IF ok THEN @ \cup {item} ELSE @])
    /\ UNCHANGED <<slotVars, accountVars, last, operatorVars>>

\* All are tested: put the candidates in order.
Arrange(r) ==
    /\ At(r, "filter") /\ caller[r].seen = {}
    /\ LET cands == caller[r].cands
           m == MediumOf[r]
           Walk(queue) == Goes(r, [caller[r] EXCEPT !.pc = "walk", !.cands = {}, !.due = {},
                                                    !.queue = queue])
       IN  \/ /\ cands = {}
              /\ Goes(r, [caller[r] EXCEPT !.pc = "refused"])
              /\ UNCHANGED last
           \/ /\ mode = "polling"
              /\ \E first \in cands :
                    /\ IsTurnOf(first, cands, m)
                    /\ Walk(Polled(cands, first))
                    /\ last' = [last EXCEPT ![m] = first.tok]
           \/ /\ mode = "default" /\ cands # {}
              /\ Walk(Dense(cands))
              /\ UNCHANGED last
    /\ UNCHANGED <<slotVars, accountVars, operatorVars>>

\* ensure_valid_token: the access token is accepted or is renewed.
Valid(t) == t \notin broken \cup removed
Renewed(t) == stale' = stale \ {t}

\* The next candidate is made ready, or skipped.
Validate(r) ==
    /\ At(r, "walk")
    /\ \E c \in caller[r].queue :
          /\ IsNext(c, caller[r].queue)
          /\ IF Valid(c.tok)
             THEN /\ Goes(r, [caller[r] EXCEPT !.pc = "reserve"])
                  /\ Renewed(c.tok)
             ELSE /\ Goes(r, [caller[r] EXCEPT !.queue = @ \ {c}])
                  /\ UNCHANGED stale
    /\ UNCHANGED <<slotVars, active, unfit, funded, broken, errors, mode, last, operatorVars>>

\* _reserve_slot: its slot is taken, or went to another request meanwhile.
Reserve(r) ==
    /\ At(r, "reserve")
    /\ \E c \in caller[r].queue :
          /\ IsNext(c, caller[r].queue)
          /\ IF CanUse(SlotOf(r, c.tok))
             THEN /\ Acquire(SlotOf(r, c.tok))
                  /\ Goes(r, [caller[r] EXCEPT !.pc = "ready", !.queue = {}, !.slot = c.tok])
             ELSE /\ Goes(r, [caller[r] EXCEPT !.pc = "walk", !.queue = @ \ {c}])
                  /\ UNCHANGED slotVars
    /\ UNCHANGED <<accountVars, last, operatorVars>>

NoCandidate(r) ==
    /\ At(r, "walk") /\ caller[r].queue = {}
    /\ Goes(r, [caller[r] EXCEPT !.pc = "refused"])
    /\ UNCHANGED <<slotVars, accountVars, last, operatorVars>>

----------------------------------------------------------------------------
\* Where a selection begins.
Entry(kind) == IF kind = "pool" THEN "list" ELSE "select"

Arrive(r) ==
    /\ At(r, "idle")
    /\ \E kind \in Kinds, t \in Tokens :
          /\ Goes(r, [caller[r] EXCEPT !.kind = kind, !.pc = Entry(kind),
                                       !.target = IF kind = "pool" THEN NoToken ELSE t])
    /\ UNCHANGED <<slotVars, accountVars, last, operatorVars>>

\* _select_diagnostic_token_with_slot: the account the test names, if it is
\* active and has a free slot.
NamedIsFree(r) ==
    LET t == caller[r].target IN t \in active /\ CanUse(SlotOf(r, t))

\* The selection of a test.  The plain path has a copy of those lines and
\* then reports its progress before it enters its try.
SelectNamed(r) ==
    /\ At(r, "select")
    /\ LET t == caller[r].target
       IN  IF NamedIsFree(r)
           THEN /\ Acquire(SlotOf(r, t))
                /\ Goes(r, [caller[r] EXCEPT !.slot = t,
                              !.pc = IF caller[r].kind = "plain" THEN "gap" ELSE "ready"])
           ELSE /\ Goes(r, [caller[r] EXCEPT !.pc = "refused"])
                /\ UNCHANGED slotVars
    /\ UNCHANGED <<accountVars, last, operatorVars>>

\* _update_request_log_progress(token_selected).
Progress(r) ==
    /\ At(r, "gap")
    /\ Goes(r, [caller[r] EXCEPT !.pc = "ready"])
    /\ UNCHANGED <<slotVars, accountVars, last, operatorVars>>

\* get_unavailable_reason: what stands in the way of every active account.
\* ("none": the caller reports that no account is available.)
Reason ==
    LET supported == {t \in active : unfit[t] # "tier"}
        capable == {t \in supported : unfit[t] # "disabled"}
    IN  IF active = {} THEN "none"
        ELSE IF supported = {} THEN "tier"
        ELSE IF capable = {} THEN "disabled"
        ELSE IF \A t \in capable : unfit[t] = "route" THEN "route"
        ELSE "none"

\* The coroutine is over; only what it answered matters.
Over(reply) == [Fresh EXCEPT !.pc = "done", !.reply = reply]

\* Nothing was found: the handler answers, a plain test with the reason.
Answer(r) ==
    /\ At(r, "refused")
    /\ Goes(r, Over(IF caller[r].kind = "plain" THEN Reason ELSE "none"))
    /\ UNCHANGED <<slotVars, accountVars, last, operatorVars>>

----------------------------------------------------------------------------
(***************************************************************************)
(* The handler, in its try.  To leave it, by any way, is to pass finally.  *)
(***************************************************************************)
\* Mutant of Leave: the account is forgotten before the slot is returned.
LeaveWithoutSlot(r, new) ==
    /\ UNCHANGED <<inflight, held, limits, learned, cooldown, removed>>
    /\ Goes(r, [new EXCEPT !.slot = NoToken])

Leave(r, new) ==
    /\ Release(SlotOf(r, caller[r].slot))
    /\ Goes(r, [new EXCEPT !.slot = NoToken])

Ends(r) == Leave(r, Over("none"))

\* continue: the next selection excludes the account, except that the
\* selection of a keyed test looks at its own account only.
FailOver(r) ==
    Leave(r, [caller[r] EXCEPT !.pc = Entry(caller[r].kind), !.tried = @ \cup {caller[r].slot}])

\* A plain test ends where another caller would fail over.
GivesUpOn(r) == IF caller[r].kind = "plain" THEN Ends(r) ELSE FailOver(r)

\* ensure_valid_token and the tier test.
Check(r) ==
    /\ At(r, "ready")
    /\ LET t == caller[r].slot
       IN  IF ~Valid(t)
           THEN GivesUpOn(r) /\ UNCHANGED stale
           ELSE /\ Renewed(t)
                /\ IF unfit[t] = "tier"
                   THEN Ends(r)
                   ELSE Goes(r, [caller[r] EXCEPT !.pc = "unit"]) /\ UNCHANGED slotVars
    /\ UNCHANGED <<active, unfit, funded, broken, errors, mode, last, operatorVars>>

\* reserve_task_quota; the plain path reserves nothing.
Unit(r) ==
    /\ At(r, "unit")
    /\ IF caller[r].kind # "plain" /\ caller[r].slot \notin funded
       THEN FailOver(r)
       ELSE Goes(r, [caller[r] EXCEPT !.pc = "work"]) /\ UNCHANGED slotVars
    /\ UNCHANGED <<accountVars, last, operatorVars>>

\* The upstream has delivered: record_success clears the error count.
Succeeds(r) ==
    /\ At(r, "work")
    /\ errors' = [errors EXCEPT ![caller[r].slot] = 0]
    /\ Ends(r)
    /\ UNCHANGED <<active, unfit, funded, stale, broken, mode, last, operatorVars>>

\* A refusal that says nothing about the account, or a lost reply.
Refused(r) ==
    /\ At(r, "work")
    /\ Ends(r)
    /\ UNCHANGED <<accountVars, last, operatorVars>>

\* rate_limited: back off the account, ...
RateLimited(r) ==
    /\ At(r, "work") /\ caller[r].kind # "plain"
    /\ RecordRateLimit(SlotOf(r, caller[r].slot))
    /\ Goes(r, [caller[r] EXCEPT !.pc = "next"])
    /\ UNCHANGED <<accountVars, last, operatorVars>>

\* ... and fail over.
TriesNext(r) ==
    /\ At(r, "next")
    /\ FailOver(r)
    /\ UNCHANGED <<accountVars, last, operatorVars>>

\* authentication, or quota_exhausted, which also zeroes the balance.
AccountFails(r) ==
    /\ At(r, "work")
    /\ GivesUpOn(r)
    /\ funded' \in {funded} \cup (IF caller[r].kind = "plain" THEN {}
                                  ELSE {funded \ {caller[r].slot}})
    /\ UNCHANGED <<active, unfit, stale, broken, errors, mode, last, operatorVars>>

\* A failure that counts: record_error, first the increment (the count is
\* only compared with the threshold, so it stops there), ...
Counts(r) ==
    /\ At(r, "work")
    /\ errors' = [errors EXCEPT ![caller[r].slot] = Smaller(@ + 1, BanThreshold)]
    /\ Goes(r, [caller[r] EXCEPT !.pc = "weigh"])
    /\ UNCHANGED <<slotVars, active, unfit, funded, stale, broken, mode, last, operatorVars>>

\* Mutant of Weighs: off by one.
WeighsLate(r) ==
    /\ At(r, "weigh")
    /\ Goes(r, [caller[r] EXCEPT !.pc = IF errors[caller[r].slot] > BanThreshold
                                        THEN "ban" ELSE "leave"])
    /\ UNCHANGED <<slotVars, accountVars, last, operatorVars>>

\* ... then the statistics are read and weighed, ...
Weighs(r) ==
    /\ At(r, "weigh")
    /\ Goes(r, [caller[r] EXCEPT !.pc = IF errors[caller[r].slot] >= BanThreshold
                                        THEN "ban" ELSE "leave"])
    /\ UNCHANGED <<slotVars, accountVars, last, operatorVars>>

\* ... and the account is switched off.
Bans(r) ==
    /\ At(r, "ban")
    /\ active' = active \ {caller[r].slot}
    /\ Goes(r, [caller[r] EXCEPT !.pc = "leave"])
    /\ UNCHANGED <<slotVars, unfit, funded, stale, broken, errors, mode, last, operatorVars>>

Closes(r) ==
    /\ At(r, "leave")
    /\ Ends(r)
    /\ UNCHANGED <<accountVars, last, operatorVars>>

\* The client leaves: finally returns the slot.  record_error runs in the
\* same coroutine and may be cut between any two of its statements.
Cancel(r) ==
    /\ caller[r].pc \notin {"idle", "done", "gap"}
    /\ IF Holding(r) THEN Ends(r) ELSE Goes(r, Over("none")) /\ UNCHANGED slotVars
    /\ UNCHANGED <<accountVars, last, operatorVars>>

\* The client of a plain test leaves while the progress is written: the slot
\* is taken, the try not yet entered.
CancelInGap(r) ==
    /\ LogsProgress
    /\ At(r, "gap")
    /\ Goes(r, Over("none"))
    /\ UNCHANGED <<slotVars, accountVars, last, operatorVars>>

----------------------------------------------------------------------------
(***************************************************************************)
(* The operator and the world.                                             *)
(***************************************************************************)
Moves == moves < MaxMoves /\ moves' = moves + 1

\* disable_token.
Disable(t) ==
    /\ Moves
    /\ t \in active
    /\ active' = active \ {t}
    /\ UNCHANGED <<slotVars, unfit, funded, stale, broken, errors, mode, last, enabling, caller>>

\* enable_token: the row first, ...
Enable(t) ==
    /\ Moves
    /\ enabling = NoToken
    /\ t \notin removed
    /\ active' = active \cup {t}
    /\ enabling' = t
    /\ UNCHANGED <<slotVars, unfit, funded, stale, broken, errors, mode, last, caller>>

\* ... then reset_error_count.
EnableResets ==
    /\ enabling # NoToken
    /\ errors' = [errors EXCEPT ![enabling] = 0]
    /\ enabling' = NoToken
    /\ UNCHANGED <<slotVars, active, unfit, funded, stale, broken, mode, last, moves, caller>>

\* delete_token and remove_token.
Delete(t) ==
    /\ Moves
    /\ t \notin removed
    /\ RemoveToken(t)
    /\ active' = active \ {t}
    /\ UNCHANGED <<unfit, funded, stale, broken, errors, mode, last, enabling, caller>>

\* update_token (admin) ends with reset_token: new ceilings, learned again.
Edit(t) ==
    /\ Moves
    /\ t \notin removed
    /\ ResetToken(t)
    /\ UNCHANGED <<accountVars, last, enabling, caller>>

\* An access token runs out, a session ends or is repaired, the balance
\* changes, a browser connects or leaves, the operator switches the medium.
World(t) ==
    /\ Moves
    /\ \/ stale' = stale \cup {t} /\ UNCHANGED <<unfit, funded, broken>>
       \/ broken' \in {broken \cup {t}, broken \ {t}} /\ UNCHANGED <<unfit, funded, stale>>
       \/ funded' \in {funded \cup {t}, funded \ {t}} /\ UNCHANGED <<unfit, stale, broken>>
       \/ /\ unfit[t] # "tier"
          /\ \E why \in {"no", "route", "disabled"} \ {unfit[t]} :
                unfit' = [unfit EXCEPT ![t] = why]
          /\ UNCHANGED <<funded, stale, broken>>
    /\ UNCHANGED <<slotVars, active, errors, mode, last, enabling, caller>>

Cools == Tick /\ UNCHANGED <<accountVars, last, operatorVars, caller>>

----------------------------------------------------------------------------
BalancerInit ==
    /\ Init
    /\ active = Tokens /\ funded = Tokens /\ stale = {} /\ broken = {}
    /\ unfit \in [Tokens -> {"no", "tier"}]
    /\ errors = [t \in Tokens |-> 0]
    /\ last = [m \in Media |-> NoToken]
    /\ mode \in CallModes
    /\ enabling = NoToken
    /\ moves = 0
    /\ caller = [r \in Requests |-> Fresh]
    /\ chance = [r \in Requests |-> {}]
    /\ unweighed = {}

Selection(r) ==
    \/ List(r) \/ Arrange(r) \/ Validate(r) \/ Reserve(r) \/ NoCandidate(r)
    \/ SelectNamed(r) \/ Progress(r) \/ Answer(r)
    \/ \E t \in Tokens : Filter(r, t)

Handling(r) ==
    \/ Check(r) \/ Unit(r) \/ Succeeds(r) \/ Refused(r) \/ RateLimited(r) \/ TriesNext(r)
    \/ AccountFails(r) \/ Counts(r) \/ Weighs(r) \/ Bans(r) \/ Closes(r)

Environment ==
    \/ EnableResets
    \/ Cools
    \/ \E t \in Tokens : Disable(t) \/ Enable(t) \/ Delete(t) \/ Edit(t) \/ World(t)
    \/ \E r \in Requests : Arrive(r) \/ Cancel(r) \/ CancelInGap(r)

\* What stays usable while a caller selects (history).
Chances ==
    chance' = [r \in Requests |->
                 IF At(r, "list")' THEN Usable(r)'
                 ELSE IF caller'[r].pc \in {"filter", "walk", "reserve", "refused"}
                      THEN chance[r] \cap Usable(r)'
                 ELSE {}]

\* Where record_error has counted and not yet decided.
Deciding(r) == caller[r].pc \in {"weigh", "ban"}

\* Accounts in use at the threshold whose last failure was cut off there
\* (history); the next failure is weighed with the count it left.
CutOff ==
    LET cut == {caller[r].slot : r \in {q \in Requests : Deciding(q) /\ At(q, "done")'}}
        counted == {caller[r].slot : r \in {q \in Requests : At(q, "work") /\ At(q, "weigh")'}}
    IN  unweighed' = {t \in ((unweighed \cup cut) \ counted) \cap active' :
                        errors'[t] >= BanThreshold}

BalancerNext ==
    /\ \/ \E r \in Requests : Selection(r) \/ Handling(r)
       \/ Environment
    /\ Chances
    /\ CutOff

BalancerSpec == BalancerInit /\ [][BalancerNext]_balancerVars

----------------------------------------------------------------------------
\* The slots the concurrency manager granted are those of the requests that
\* hold them, one each, on every way out of the selection and the two
\* handlers: none is lost, returned twice, or kept by a request that ended.
HeldIsOwned ==
    \A s \in Slots :
        held[s] = Cardinality({r \in Requests : Holding(r) /\ SlotOf(r, caller[r].slot) = s})

\* A request is told that there is no account only if no account it had not
\* yet tried was usable all through its last selection: neither the filter,
\* nor the order, nor a skipped candidate hides one.
RefusedOnlyWhenExhausted ==
    \A r \in Requests : At(r, "refused") /\ caller[r].kind = "pool" => chance[r] = {}

\* The account is about to leave use, or the operator is just resetting it.
BeingDecided(t) == enabling = t \/ \E r \in Requests : caller[r].slot = t /\ Deciding(r)

\* However failures of several requests interleave, and wherever their
\* clients leave, an account that reached the threshold of consecutive errors
\* does not stay in use: some request is about to switch it off, or the last
\* failure was cut off before it was weighed, so that the next one does.
FailingIsDisabled ==
    \A t \in active :
        errors[t] >= BanThreshold => BeingDecided(t) \/ t \in unweighed

\* What the comment on error_ban_threshold says (src/core/models.py): the
\* account is disabled after that many consecutive errors, whoever leaves.
DisabledAfterNErrors ==
    \A t \in active : errors[t] >= BanThreshold => BeingDecided(t)

=============================================================================
