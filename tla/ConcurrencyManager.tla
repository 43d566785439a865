------------------------- MODULE ConcurrencyManager -------------------------
(***************************************************************************)
(* Per-account, per-medium admission control                               *)
(* (src/services/concurrency_manager.py).                                  *)
(*                                                                         *)
(* Every method of the class runs under one asyncio.Lock and suspends only *)
(* to take it, so each method is one action.  The dictionaries of the      *)
(* class are total functions here: an entry that is absent there reads as  *)
(* its .get() default (no ceiling, the default learned limit, no cooldown, *)
(* nothing in flight).  A cooldown is kept as the time still to run, in    *)
(* ticks, instead of as a deadline.                                        *)
(*                                                                         *)
(* "held" and "removed" are not state of the class.  held counts the slots *)
(* the callers were granted and have not given back (their slot_reserved   *)
(* flags); removed are the accounts deleted since the process started.     *)
(***************************************************************************)
EXTENDS Integers

CONSTANTS Tokens,              \* account ids; an id is never reused (AUTOINCREMENT)
          Media,               \* "image", "video"
          DefaultLearnedLimit, \* DEFAULT_LEARNED_LIMIT, 3 in the code
          Ceilings,            \* explicit limits an operator may configure, all > 0
          NoCeiling,           \* the configured value -1: no explicit limit
          CooldownTicks,       \* cooldown_seconds, 60 s in the code
          MaxLearned,          \* bound: learned limits explored
          MaxHeld              \* bound: slots held at once per account and medium

ASSUME LimitAssumption == DefaultLearnedLimit \in Nat \ {0}
ASSUME CeilingAssumption == Ceilings \subseteq Nat \ {0} /\ NoCeiling \notin Nat
ASSUME CooldownAssumption == CooldownTicks \in Nat \ {0}

VARIABLES limits,    \* _image_limits, _video_limits
          learned,   \* _image_learning_limits, _video_learning_limits
          cooldown,  \* _image_cooldown_until, _video_cooldown_until
          inflight,  \* _image_inflight, _video_inflight
          held,
          removed

policy == <<limits, learned, cooldown>>
vars == <<limits, learned, cooldown, inflight, held, removed>>

Slots == Tokens \X Media

----------------------------------------------------------------------------
Smaller(a, b) == IF a < b THEN a ELSE b
Larger(a, b) == IF a > b THEN a ELSE b

\* The learned limit of a freshly loaded account: min(ceiling or 3, 3).
FreshLearned(ceiling) ==
    IF ceiling = NoCeiling THEN DefaultLearnedLimit
                           ELSE Smaller(ceiling, DefaultLearnedLimit)

EffectiveLimit(s) ==
    IF limits[s] = NoCeiling THEN learned[s] ELSE Smaller(learned[s], limits[s])

InCooldown(s) == cooldown[s] > 0

\* can_use_image and can_use_video, also the admission test of acquire_*.
CanUse(s) == ~InCooldown(s) /\ inflight[s] < EffectiveLimit(s)

----------------------------------------------------------------------------
(***************************************************************************)
(* initialize(tokens): the process starts.  No request of the previous     *)
(* process survives, and the limits come from the account rows.            *)
(***************************************************************************)
LoadAccounts(config) ==
    /\ limits = config
    /\ learned = [s \in Slots |-> FreshLearned(config[s])]
    /\ cooldown = [s \in Slots |-> 0]
    /\ inflight = [s \in Slots |-> 0]

Init ==
    /\ \E config \in [Slots -> Ceilings \cup {NoCeiling}] : LoadAccounts(config)
    /\ held = [s \in Slots |-> 0]
    /\ removed = {}

Restart ==
    /\ limits' \in [Slots -> Ceilings \cup {NoCeiling}]
    /\ learned' = [s \in Slots |-> FreshLearned(limits'[s])]
    /\ cooldown' = [s \in Slots |-> 0]
    /\ inflight' = [s \in Slots |-> 0]
    /\ held' = [s \in Slots |-> 0]
    /\ removed' = {}

\* acquire_image / acquire_video that return True.
TakeSlot(s) ==
    /\ CanUse(s)
    /\ inflight' = [inflight EXCEPT ![s] = @ + 1]
    /\ UNCHANGED policy

Acquire(s) ==
    /\ held[s] < MaxHeld
    /\ TakeSlot(s)
    /\ held' = [held EXCEPT ![s] = @ + 1]
    /\ UNCHANGED removed

\* release_image / release_video: the counter stops at zero.
GiveBackSlot(s) ==
    /\ inflight' = [inflight EXCEPT ![s] = Larger(@ - 1, 0)]
    /\ UNCHANGED policy

\* A caller releases in a finally clause, once, and only a slot it holds.
Release(s) ==
    /\ held[s] > 0
    /\ GiveBackSlot(s)
    /\ held' = [held EXCEPT ![s] = @ - 1]
    /\ UNCHANGED removed

RecordSuccess(s) ==
    /\ learned[s] < MaxLearned
    /\ learned' = [learned EXCEPT ![s] =
                     IF limits[s] = NoCeiling THEN @ + 1
                                              ELSE Smaller(@ + 1, limits[s])]
    /\ UNCHANGED <<limits, cooldown, inflight, held, removed>>

\* record_rate_limit: halve the capacity, never below one, and cool down.
BackOff(s) ==
    /\ learned' = [learned EXCEPT ![s] = Larger(1, EffectiveLimit(s) \div 2)]
    /\ cooldown' = [cooldown EXCEPT ![s] = CooldownTicks]
    /\ UNCHANGED <<limits, inflight>>

RecordRateLimit(s) == BackOff(s) /\ UNCHANGED <<held, removed>>

\* Mutant of ResetToken: the edit also clears the in-flight counters.
ResetForgetsInflight(t) ==
    /\ \E ceiling \in [Media -> Ceilings \cup {NoCeiling}] :
          limits' = [s \in Slots |-> IF s[1] = t THEN ceiling[s[2]] ELSE limits[s]]
    /\ learned' = [s \in Slots |-> IF s[1] = t THEN DefaultLearnedLimit ELSE learned[s]]
    /\ cooldown' = [s \in Slots |-> IF s[1] = t THEN 0 ELSE cooldown[s]]
    /\ inflight' = [s \in Slots |-> IF s[1] = t THEN 0 ELSE inflight[s]]
    /\ UNCHANGED <<held, removed>>

\* reset_token after the account was added or edited: both media of one
\* account get the configured ceilings and start learning again; what is in
\* flight stays counted.
ResetToken(t) ==
    /\ \E ceiling \in [Media -> Ceilings \cup {NoCeiling}] :
          limits' = [s \in Slots |-> IF s[1] = t THEN ceiling[s[2]] ELSE limits[s]]
    /\ learned' = [s \in Slots |-> IF s[1] = t THEN DefaultLearnedLimit ELSE learned[s]]
    /\ cooldown' = [s \in Slots |-> IF s[1] = t THEN 0 ELSE cooldown[s]]
    /\ UNCHANGED <<inflight, held, removed>>

\* remove_token after the account was deleted: every entry is dropped, also
\* the in-flight counters of requests that still run.
RemoveToken(t) ==
    /\ limits' = [s \in Slots |-> IF s[1] = t THEN NoCeiling ELSE limits[s]]
    /\ learned' = [s \in Slots |-> IF s[1] = t THEN DefaultLearnedLimit ELSE learned[s]]
    /\ cooldown' = [s \in Slots |-> IF s[1] = t THEN 0 ELSE cooldown[s]]
    /\ inflight' = [s \in Slots |-> IF s[1] = t THEN 0 ELSE inflight[s]]
    /\ removed' = removed \cup {t}
    /\ UNCHANGED held

\* The monotonic clock advances.
Tick ==
    /\ \E s \in Slots : InCooldown(s)
    /\ cooldown' = [s \in Slots |-> Larger(cooldown[s] - 1, 0)]
    /\ UNCHANGED <<limits, learned, inflight, held, removed>>

Next ==
    \/ Restart
    \/ Tick
    \/ \E s \in Slots : \/ Acquire(s)
                        \/ Release(s)
                        \/ RecordSuccess(s)
                        \/ RecordRateLimit(s)
    \/ \E t \in Tokens : \/ ResetToken(t)
                         \/ RemoveToken(t)

Spec == Init /\ [][Next]_vars

----------------------------------------------------------------------------
\* Every counter and limit stays in its range.
TypeOK ==
    /\ limits \in [Slots -> Ceilings \cup {NoCeiling}]
    /\ learned \in [Slots -> Nat \ {0}]
    /\ cooldown \in [Slots -> 0 .. CooldownTicks]
    /\ inflight \in [Slots -> Nat]
    /\ held \in [Slots -> Nat]
    /\ removed \in SUBSET Tokens

\* The counter never shows more work than there is, and it is exact for every
\* account that was not deleted under its running requests: no interleaving
\* of grants, releases, resets and restarts loses or invents a slot.
SlotAccounting ==
    \A s \in Slots :
        /\ inflight[s] <= held[s]
        /\ s[1] \notin removed => inflight[s] = held[s]

\* No account is backed off so far that it can never be used again.
NeverStarved == \A s \in Slots : EffectiveLimit(s) >= 1

\* A slot is granted only outside a cooldown, and, for an account that was
\* not deleted, only while the work that really runs there is below the
\* effective limit, whatever resets and releases came in between.
AdmissionWithinLimit ==
    [][\A s \in Slots :
          held'[s] > held[s] =>
             /\ cooldown[s] = 0
             /\ s[1] \notin removed => held'[s] <= EffectiveLimit(s)]_vars

=============================================================================
