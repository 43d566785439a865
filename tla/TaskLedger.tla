----------------------------- MODULE TaskLedger -----------------------------
(***************************************************************************)
(* The quota ledger kept in the tasks and tokens tables                    *)
(* (src/core/database.py): one task row per idempotency key, one credit    *)
(* snapshot per account, and the transactions that freeze a unit for a     *)
(* task, give it back, or charge it.                                       *)
(*                                                                         *)
(* Each method is one write transaction (BEGIN IMMEDIATE, or a single      *)
(* statement, under the process write lock), so each is one action.  Every *)
(* caller reserves one unit; quota_reserved is therefore 1 exactly while   *)
(* quota_state is "reserved" and is not kept apart.                        *)
(***************************************************************************)
EXTENDS Integers, FiniteSets

CONSTANTS Keys,       \* idempotency keys
          Tokens,     \* account ids
          MaxCredits  \* bound: largest credit balance the upstream reports

ASSUME KeysAssumption == IsFiniteSet(Keys)
ASSUME CreditsAssumption == MaxCredits \in Nat

VARIABLES quota,       \* tasks.quota_state per key; "absent": no row, "none": NULL
          payer,       \* tasks.token_id of the row of a key
          credits,     \* tokens.credits
          accounts,    \* the rows of the tokens table
          granted,     \* history: the balance an account started with
          spent,       \* history: units charged to an account
          overwritten  \* history: accounts whose balance was replaced from outside

rows == <<quota, payer, credits, accounts>>
history == <<granted, spent, overwritten>>
ledgerVars == <<quota, payer, credits, accounts, granted, spent, overwritten>>

QuotaStates == {"absent", "none", "reserved", "released", "settled"}

----------------------------------------------------------------------------
\* The tasks that hold a frozen unit of account t.
ReservedOn(t) == {k \in Keys : quota[k] = "reserved" /\ payer[k] = t}

\* get_available_token_credits: the snapshot minus what is frozen.
Available(t) ==
    IF t \notin accounts \/ credits[t] < Cardinality(ReservedOn(t))
    THEN 0
    ELSE credits[t] - Cardinality(ReservedOn(t))

\* Mutant of CanReserve: the balance is tested without the frozen units.
CanReserveIgnoringFrozen(k, t) ==
    \/ quota[k] = "reserved" /\ payer[k] = t
    \/ /\ quota[k] \notin {"absent", "reserved"}
       /\ t \in accounts
       /\ credits[t] >= 1

\* reserve_task_quota returns True: the row already holds a unit of this very
\* account, or the account has a unit that is not frozen.
CanReserve(k, t) ==
    \/ quota[k] = "reserved" /\ payer[k] = t
    \/ /\ quota[k] \notin {"absent", "reserved"}
       /\ t \in accounts
       /\ Available(t) >= 1

----------------------------------------------------------------------------
LedgerInit ==
    /\ quota = [k \in Keys |-> "absent"]
    /\ \E t \in Tokens : payer = [k \in Keys |-> t]  \* no rows yet: never read
    /\ credits \in [Tokens -> 0 .. MaxCredits]
    /\ accounts = Tokens
    /\ granted = credits
    /\ spent = [t \in Tokens |-> 0]
    /\ overwritten = {}

\* get_or_create_idempotent_task that creates the row (INSERT OR IGNORE on the
\* unique key).  foreign_keys is ON: an account row must exist.
ClaimKey(k, t) ==
    /\ quota[k] = "absent"
    /\ t \in accounts
    /\ quota' = [quota EXCEPT ![k] = "none"]
    /\ payer' = [payer EXCEPT ![k] = t]
    /\ UNCHANGED <<credits, accounts, history>>

ReserveQuota(k, t) ==
    /\ CanReserve(k, t)
    /\ quota' = [quota EXCEPT ![k] = "reserved"]
    /\ payer' = [payer EXCEPT ![k] = t]
    /\ UNCHANGED <<credits, accounts, history>>

\* release_task_quota: only a frozen unit is given back.
ReleaseQuota(k) ==
    /\ quota' = [quota EXCEPT ![k] = IF @ = "reserved" THEN "released" ELSE @]
    /\ UNCHANGED <<payer, credits, accounts, history>>

\* settle_task_quota: charge a frozen unit once, never below zero.
SettleQuota(k) ==
    IF quota[k] = "reserved"
    THEN /\ credits' = [credits EXCEPT ![payer[k]] = IF @ = 0 THEN 0 ELSE @ - 1]
         /\ quota' = [quota EXCEPT ![k] = "settled"]
         /\ spent' = [spent EXCEPT ![payer[k]] = @ + 1]
         /\ UNCHANGED <<payer, accounts, granted, overwritten>>
    ELSE UNCHANGED ledgerVars

\* update_task(..., quota_state="released", quota_reserved=0): the failure
\* paths write the columns directly, whatever they held.
MarkReleased(k) ==
    /\ quota' = [quota EXCEPT ![k] = IF @ = "absent" THEN @ ELSE "released"]
    /\ UNCHANGED <<payer, credits, accounts, history>>

\* update_token(credits=c): the balance the upstream reports (a credits query
\* while an account is validated or refreshed), or 0 after a quota error.
OverwriteCredits(t, c) ==
    /\ credits' = [credits EXCEPT ![t] = IF t \in accounts THEN c ELSE @]
    /\ overwritten' = overwritten \cup {t}
    /\ UNCHANGED <<quota, payer, accounts, granted, spent>>

\* delete_token: the account goes, and its task rows with it.
DeleteAccount(t) ==
    /\ t \in accounts
    /\ accounts' = accounts \ {t}
    /\ quota' = [k \in Keys |-> IF payer[k] = t THEN "absent" ELSE quota[k]]
    /\ UNCHANGED <<payer, credits, history>>

LedgerNext ==
    \/ \E k \in Keys : \/ ReleaseQuota(k)
                       \/ SettleQuota(k)
                       \/ MarkReleased(k)
    \/ \E k \in Keys, t \in Tokens : \/ ClaimKey(k, t)
                                     \/ ReserveQuota(k, t)
    \/ \E t \in Tokens : \/ DeleteAccount(t)
                         \/ \E c \in 0 .. MaxCredits : OverwriteCredits(t, c)

LedgerSpec == LedgerInit /\ [][LedgerNext]_ledgerVars

----------------------------------------------------------------------------
\* The columns hold what the schema and the code put there.
LedgerTypeOK ==
    /\ quota \in [Keys -> QuotaStates]
    /\ payer \in [Keys -> Tokens]
    /\ credits \in [Tokens -> Nat]
    /\ accounts \in SUBSET Tokens
    /\ granted \in [Tokens -> Nat]
    /\ spent \in [Tokens -> Nat]
    /\ overwritten \in SUBSET Tokens

\* A task never refers to an account that is gone: a frozen unit always
\* belongs to an account that can still be charged.
ReservationsHaveAccounts ==
    \A k \in Keys : quota[k] # "absent" => payer[k] \in accounts

\* The units frozen on an account are covered by its balance, however the
\* reservations, settlements and releases of different tasks interleave;
\* only a balance reported from outside can break that.
NeverOversold ==
    \A t \in Tokens \ overwritten : Cardinality(ReservedOn(t)) <= credits[t]

\* Every unit charged was paid for once: what an account has left and what
\* was charged to it add up to what it had.  In particular the floor at zero
\* in settle_task_quota never swallows a charge.
ChargesBalance ==
    \A t \in Tokens \ overwritten : credits[t] + spent[t] = granted[t]

=============================================================================
