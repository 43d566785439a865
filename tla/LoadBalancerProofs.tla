------------------------- MODULE LoadBalancerProofs -------------------------
(***************************************************************************)
(* The concurrency manager keeps its counters true for any accounts and    *)
(* limits; selection and handlers, for any requests, use it as it wants to *)
(* be used, slots belong to requests, nobody is refused while an account   *)
(* is free, and accounts that keep failing are switched off.               *)
(***************************************************************************)
EXTENDS LoadBalancer, FiniteSetTheorems, TLAPS

USE LimitAssumption, CeilingAssumption, CooldownAssumption

----------------------------------------------------------------------------
\* Of two positive limits the smaller is positive.
LEMMA SmallerPositive ==
    ASSUME NEW a \in Nat \ {0}, NEW b \in Nat \ {0}
    PROVE  Smaller(a, b) \in Nat \ {0}
BY DEF Smaller

\* A freshly loaded account may run at least one request.
LEMMA FreshLearnedPositive ==
    ASSUME NEW ceiling \in Ceilings \cup {NoCeiling}
    PROVE  FreshLearned(ceiling) \in Nat \ {0}
BY DEF FreshLearned, Smaller

\* The smaller of the learned limit and the ceiling is a positive number.
LEMMA EffectiveLimitPositive ==
    ASSUME TypeOK, NEW s \in Slots
    PROVE  EffectiveLimit(s) \in Nat \ {0}
BY DEF TypeOK, EffectiveLimit, Smaller

----------------------------------------------------------------------------
\* Every counter, limit and cooldown stays in its range in every reachable
\* state: the in-flight counter never goes negative and the learned limit
\* never reaches zero.
THEOREM TypeCorrect == Spec => []TypeOK
<1>1. Init => TypeOK
  <2> SUFFICES ASSUME Init PROVE TypeOK
    OBVIOUS
  <2>1. PICK config \in [Slots -> Ceilings \cup {NoCeiling}] : LoadAccounts(config)
    BY DEF Init
  <2>2. \A s \in Slots : FreshLearned(config[s]) \in Nat \ {0}
    BY FreshLearnedPositive
  <2> QED
    BY <2>1, <2>2 DEF Init, LoadAccounts, TypeOK
<1>2. TypeOK /\ [Next]_vars => TypeOK'
  <2> SUFFICES ASSUME TypeOK, [Next]_vars PROVE TypeOK'
    OBVIOUS
  <2>1. CASE Restart
    <3>1. \A s \in Slots : FreshLearned(limits'[s]) \in Nat \ {0}
      BY <2>1, FreshLearnedPositive DEF Restart
    <3> QED
      BY <2>1, <3>1 DEF Restart, TypeOK
  <2>2. CASE Tick
    BY <2>2 DEF Tick, TypeOK, Larger
  <2>3. ASSUME NEW s \in Slots, Acquire(s) PROVE TypeOK'
    BY <2>3 DEF Acquire, TakeSlot, policy, TypeOK
  <2>4. ASSUME NEW s \in Slots, Release(s) PROVE TypeOK'
    BY <2>4 DEF Release, GiveBackSlot, Larger, policy, TypeOK
  <2>5. ASSUME NEW s \in Slots, RecordSuccess(s) PROVE TypeOK'
    <3>1. learned[s] \in Nat \ {0} /\ limits[s] \in Ceilings \cup {NoCeiling}
      BY DEF TypeOK
    <3>2. (IF limits[s] = NoCeiling THEN learned[s] + 1
                                    ELSE Smaller(learned[s] + 1, limits[s]))
             \in Nat \ {0}
      <4>1. learned[s] + 1 \in Nat \ {0}
        BY <3>1
      <4>2. limits[s] # NoCeiling => limits[s] \in Nat \ {0}
        BY <3>1
      <4> QED
        BY <4>1, <4>2, SmallerPositive
    <3>3. learned' \in [Slots -> Nat \ {0}]
      BY <2>5, <3>2 DEF RecordSuccess, TypeOK
    <3> QED
      BY <2>5, <3>3 DEF RecordSuccess, TypeOK
  <2>6. ASSUME NEW s \in Slots, RecordRateLimit(s) PROVE TypeOK'
    <3>1. Larger(1, EffectiveLimit(s) \div 2) \in Nat \ {0}
      BY EffectiveLimitPositive DEF Larger
    <3> QED
      BY <2>6, <3>1 DEF RecordRateLimit, BackOff, TypeOK
  <2>7. ASSUME NEW t \in Tokens, ResetToken(t) PROVE TypeOK'
    <3>1. PICK ceiling \in [Media -> Ceilings \cup {NoCeiling}] :
             limits' = [s \in Slots |-> IF s[1] = t THEN ceiling[s[2]] ELSE limits[s]]
      BY <2>7 DEF ResetToken
    <3>2. \A s \in Slots : s[2] \in Media
      BY DEF Slots
    <3> QED
      BY <2>7, <3>1, <3>2 DEF ResetToken, TypeOK
  <2>8. ASSUME NEW t \in Tokens, RemoveToken(t) PROVE TypeOK'
    BY <2>8 DEF RemoveToken, TypeOK
  <2>9. CASE UNCHANGED vars
    BY <2>9 DEF vars, TypeOK
  <2> QED
    BY <2>1, <2>2, <2>3, <2>4, <2>5, <2>6, <2>7, <2>8, <2>9 DEF Next
<1> QED
  BY <1>1, <1>2, PTL DEF Spec

\* However far 429s push an account back, it keeps a capacity of at least one.
THEOREM NeverStarvedHolds == Spec => []NeverStarved
<1>1. TypeOK => NeverStarved
  BY EffectiveLimitPositive DEF NeverStarved
<1> QED
  BY <1>1, TypeCorrect, PTL

----------------------------------------------------------------------------
\* The counters are exact for every account that was not deleted, and never
\* above the truth for the others.
THEOREM SlotAccountingHolds == Spec => []SlotAccounting
<1>1. Init => SlotAccounting
  BY DEF Init, LoadAccounts, SlotAccounting
<1>2. TypeOK /\ SlotAccounting /\ [Next]_vars => SlotAccounting'
  <2> SUFFICES ASSUME TypeOK, SlotAccounting, [Next]_vars PROVE SlotAccounting'
    OBVIOUS
  <2>1. CASE Restart
    BY <2>1 DEF Restart, SlotAccounting
  <2>2. CASE Tick
    BY <2>2 DEF Tick, SlotAccounting
  <2>3. ASSUME NEW s \in Slots, Acquire(s) PROVE SlotAccounting'
    BY <2>3 DEF Acquire, TakeSlot, TypeOK, SlotAccounting
  <2>4. ASSUME NEW s \in Slots, Release(s) PROVE SlotAccounting'
    BY <2>4 DEF Release, GiveBackSlot, Larger, TypeOK, SlotAccounting
  <2>5. ASSUME NEW s \in Slots, RecordSuccess(s) PROVE SlotAccounting'
    BY <2>5 DEF RecordSuccess, SlotAccounting
  <2>6. ASSUME NEW s \in Slots, RecordRateLimit(s) PROVE SlotAccounting'
    BY <2>6 DEF RecordRateLimit, BackOff, SlotAccounting
  <2>7. ASSUME NEW t \in Tokens, ResetToken(t) PROVE SlotAccounting'
    BY <2>7 DEF ResetToken, SlotAccounting
  <2>8. ASSUME NEW t \in Tokens, RemoveToken(t) PROVE SlotAccounting'
    BY <2>8 DEF RemoveToken, TypeOK, SlotAccounting
  <2>9. CASE UNCHANGED vars
    BY <2>9 DEF vars, SlotAccounting
  <2> QED
    BY <2>1, <2>2, <2>3, <2>4, <2>5, <2>6, <2>7, <2>8, <2>9 DEF Next
<1> QED
  BY <1>1, <1>2, TypeCorrect, PTL DEF Spec

----------------------------------------------------------------------------
\* Admission: a new slot is granted only outside a cooldown and, on an
\* account that was not deleted, only while the work that really runs there
\* is below its effective limit.  The counter the code tests is exact there
\* (SlotAccounting), which is what turns its guard into this promise.
THEOREM AdmissionHolds == Spec => AdmissionWithinLimit
<1> DEFINE Within == \A s \in Slots :
                        held'[s] > held[s] =>
                           /\ cooldown[s] = 0
                           /\ s[1] \notin removed => held'[s] <= EffectiveLimit(s)
<1>1. TypeOK /\ SlotAccounting /\ [Next]_vars => [Within]_vars
  <2> SUFFICES ASSUME TypeOK, SlotAccounting, Next PROVE Within
    BY DEF vars
  <2>1. CASE Restart
    BY <2>1 DEF Restart, TypeOK
  <2>2. CASE Tick
    BY <2>2 DEF Tick, TypeOK
  <2>3. ASSUME NEW a \in Slots, Acquire(a) PROVE Within
    <3>1. held' = [held EXCEPT ![a] = @ + 1] /\ CanUse(a)
      BY <2>3 DEF Acquire, TakeSlot
    <3>2. \A s \in Slots : held'[s] > held[s] => s = a
      BY <3>1 DEF TypeOK
    <3>3. cooldown[a] = 0
      BY <3>1 DEF CanUse, InCooldown, TypeOK
    <3>4. a[1] \notin removed => held'[a] <= EffectiveLimit(a)
      BY <3>1, EffectiveLimitPositive DEF CanUse, SlotAccounting, TypeOK
    <3> QED
      BY <3>2, <3>3, <3>4
  <2>4. ASSUME NEW a \in Slots, Release(a) PROVE Within
    BY <2>4 DEF Release, TypeOK
  <2>5. ASSUME NEW a \in Slots, RecordSuccess(a) PROVE Within
    BY <2>5 DEF RecordSuccess, TypeOK
  <2>6. ASSUME NEW a \in Slots, RecordRateLimit(a) PROVE Within
    BY <2>6 DEF RecordRateLimit, TypeOK
  <2>7. ASSUME NEW t \in Tokens, ResetToken(t) PROVE Within
    BY <2>7 DEF ResetToken, TypeOK
  <2>8. ASSUME NEW t \in Tokens, RemoveToken(t) PROVE Within
    BY <2>8 DEF RemoveToken, TypeOK
  <2> QED
    BY <2>1, <2>2, <2>3, <2>4, <2>5, <2>6, <2>7, <2>8 DEF Next
<1> QED
  BY <1>1, TypeCorrect, SlotAccountingHolds, PTL DEF Spec, AdmissionWithinLimit

----------------------------------------------------------------------------
(***************************************************************************)
(* The callers of the manager.                                             *)
(***************************************************************************)
Places == {"idle", "list", "filter", "walk", "reserve", "select", "refused", "gap",
           "ready", "unit", "work", "next", "weigh", "ban", "leave", "done"}

\* Where a caller has a slot: from its grant to the finally of its handler.
InHand == {"gap", "ready", "unit", "work", "next", "weigh", "ban", "leave"}

Callers ==
    [kind : Kinds \cup {"none"}, pc : Places,
     target : Tokens \cup {NoToken}, seen : SUBSET Tokens, due : SUBSET Tokens,
     cands : SUBSET [tok : Tokens, busy : BOOLEAN, stale : BOOLEAN],
     queue : SUBSET [tok : Tokens, rank : 0 .. 3], tried : SUBSET Tokens,
     slot : Tokens \cup {NoToken}, reply : {"none", "tier", "disabled", "route"}]

Fits(c) ==
    /\ c \in Callers
    /\ c.pc \in InHand <=> c.slot # NoToken
    /\ c.kind = "pool" => c.pc \notin {"select", "gap"}
    /\ c.pc = "gap" => c.kind = "plain"

WorldFits ==
    /\ {active, funded, stale, broken} \subseteq SUBSET Tokens
    /\ enabling \in Tokens \cup {NoToken}
    /\ errors \in [Tokens -> Nat]
    /\ removed \subseteq Tokens /\ removed \cap active = {}

CallersFit ==
    /\ caller \in [Requests -> Callers]
    /\ \A r \in Requests : Fits(caller[r])

----------------------------------------------------------------------------
(***************************************************************************)
(* What a step of a caller does to its slot and to the slots granted.      *)
(***************************************************************************)
Stays(r, new) ==
    /\ new.slot = caller[r].slot
    /\ UNCHANGED slotVars \/ \E s \in Slots : RecordRateLimit(s)
Takes(r, new) ==
    /\ caller[r].slot = NoToken /\ new.slot \in Tokens
    /\ Acquire(SlotOf(r, new.slot))
Drops(r, new) ==
    /\ caller[r].slot \in Tokens /\ new.slot = NoToken
    /\ Release(SlotOf(r, caller[r].slot))

Moved(r) ==
    \E new \in Callers :
        Goes(r, new) /\ Fits(new) /\ (Stays(r, new) \/ Takes(r, new) \/ Drops(r, new))

USE BalancerAssumption

LEMMA PlacesNamed ==
    /\ {"idle", "list", "filter", "walk", "reserve", "select", "refused"} \subseteq Places
    /\ {"gap", "ready", "unit", "work", "next", "weigh", "ban", "leave", "done"} \subseteq Places
BY DEF Places

LEMMA ListMoves == ASSUME WorldFits, CallersFit, NEW r \in Requests, List(r) PROVE Moved(r)
<1> DEFINE c == caller[r]
<1>1. c \in Callers /\ Fits(c) /\ c.pc = "list"
  BY DEF CallersFit, List, At
<1>2. ASSUME active = {} PROVE Moved(r)
  <2> DEFINE new == [c EXCEPT !.pc = "refused"]
  <2>1. new \in Callers /\ Fits(new) /\ new.slot = c.slot
    BY <1>1, PlacesNamed DEF Callers, Fits, InHand
  <2> QED BY <1>2, <2>1 DEF List, Moved, Stays
<1>3. ASSUME active # {} PROVE Moved(r)
  <2> DEFINE new == [c EXCEPT !.pc = "filter", !.seen = active, !.due = active \cap stale]
  <2>1. new \in Callers /\ Fits(new) /\ new.slot = c.slot
    BY <1>1, PlacesNamed DEF Callers, Fits, InHand, WorldFits
  <2> QED BY <1>3, <2>1 DEF List, Moved, Stays
<1> QED BY <1>2, <1>3

LEMMA FilterMoves ==
    ASSUME WorldFits, CallersFit, NEW r \in Requests, NEW t \in Tokens, Filter(r, t)
    PROVE  Moved(r)
<1> DEFINE c == caller[r]
           item == [tok |-> t, busy |-> Busy(r, t), stale |-> t \in c.due]
<1>1. c \in Callers /\ Fits(c) /\ c.pc = "filter"
  BY DEF CallersFit, Filter, At
<1>2. PICK some \in {c.cands, c.cands \cup {item}} :
         Goes(r, [c EXCEPT !.seen = @ \ {t}, !.cands = some]) /\ UNCHANGED slotVars
  BY DEF Filter
<1>3. some \in SUBSET [tok : Tokens, busy : BOOLEAN, stale : BOOLEAN]
  <2>1. item \in [tok : Tokens, busy : BOOLEAN, stale : BOOLEAN]
    BY DEF Busy
  <2>2. c.cands \in SUBSET [tok : Tokens, busy : BOOLEAN, stale : BOOLEAN]
    BY <1>1 DEF Callers
  <2> HIDE DEF item, c
  <2> QED BY <1>2, <2>1, <2>2
<1> DEFINE new == [c EXCEPT !.seen = @ \ {t}, !.cands = some]
<1>4. new \in Callers /\ Fits(new) /\ new.slot = c.slot
  BY <1>1, <1>3 DEF Callers, Fits
<1> QED BY <1>2, <1>4 DEF Moved, Stays

LEMMA QueueTyped ==
    ASSUME NEW cands \in SUBSET [tok : Tokens, busy : BOOLEAN, stale : BOOLEAN],
           NEW preferred \in SUBSET cands
    PROVE  Ranked(cands, preferred) \in SUBSET [tok : Tokens, rank : 0 .. 3]
BY DEF Ranked

LEMMA ArrangeMoves ==
    ASSUME WorldFits, CallersFit, NEW r \in Requests, Arrange(r)
    PROVE  Moved(r)
<1> DEFINE c == caller[r]
<1>1. c \in Callers /\ Fits(c) /\ c.pc = "filter" /\ UNCHANGED slotVars
  BY DEF CallersFit, Arrange, At
<1>2. c.cands \in SUBSET [tok : Tokens, busy : BOOLEAN, stale : BOOLEAN]
  BY <1>1 DEF Callers
<1>3. CASE Goes(r, [c EXCEPT !.pc = "refused"])
  <2> DEFINE new == [c EXCEPT !.pc = "refused"]
  <2>1. new \in Callers /\ Fits(new) /\ new.slot = c.slot
    BY <1>1, PlacesNamed DEF Callers, Fits, InHand
  <2> QED BY <1>1, <1>3, <2>1 DEF Moved, Stays
<1>4. ASSUME NEW preferred \in SUBSET c.cands,
             Goes(r, [c EXCEPT !.pc = "walk", !.cands = {}, !.due = {},
                               !.queue = Ranked(c.cands, preferred)])
      PROVE  Moved(r)
  <2> DEFINE queue == Ranked(c.cands, preferred)
             new == [c EXCEPT !.pc = "walk", !.cands = {}, !.due = {}, !.queue = queue]
  <2>1. queue \in SUBSET [tok : Tokens, rank : 0 .. 3]
    BY <1>2, QueueTyped
  <2> HIDE DEF queue
  <2>2. new \in Callers /\ Fits(new) /\ new.slot = c.slot
    BY <1>1, <2>1, PlacesNamed DEF Callers, Fits, InHand
  <2> QED BY <1>1, <1>4, <2>2 DEF Moved, Stays, queue
<1>5. \/ Goes(r, [c EXCEPT !.pc = "refused"])
      \/ \E preferred \in SUBSET c.cands :
            Goes(r, [c EXCEPT !.pc = "walk", !.cands = {}, !.due = {},
                              !.queue = Ranked(c.cands, preferred)])
  BY DEF Arrange, Polled, Dense
<1> QED BY <1>3, <1>4, <1>5

LEMMA ValidateMoves ==
    ASSUME WorldFits, CallersFit, NEW r \in Requests, Validate(r)
    PROVE  Moved(r)
<1> DEFINE c == caller[r]
<1>1. c \in Callers /\ Fits(c) /\ c.pc = "walk" /\ UNCHANGED slotVars
  BY DEF CallersFit, Validate, At
<1>2. PICK item \in c.queue : \/ Goes(r, [c EXCEPT !.pc = "reserve"])
                              \/ Goes(r, [c EXCEPT !.queue = @ \ {item}])
  BY DEF Validate
<1>3. CASE Goes(r, [c EXCEPT !.pc = "reserve"])
  <2> DEFINE new == [c EXCEPT !.pc = "reserve"]
  <2>1. new \in Callers /\ Fits(new) /\ new.slot = c.slot
    BY <1>1, PlacesNamed DEF Callers, Fits, InHand
  <2> QED BY <1>1, <1>3, <2>1 DEF Moved, Stays
<1>4. CASE Goes(r, [c EXCEPT !.queue = @ \ {item}])
  <2> DEFINE new == [c EXCEPT !.queue = @ \ {item}]
  <2>1. new \in Callers /\ Fits(new) /\ new.slot = c.slot
    BY <1>1, PlacesNamed DEF Callers, Fits, InHand
  <2> QED BY <1>1, <1>4, <2>1 DEF Moved, Stays
<1> QED BY <1>2, <1>3, <1>4

LEMMA ReserveMoves ==
    ASSUME WorldFits, CallersFit, NEW r \in Requests, Reserve(r)
    PROVE  Moved(r)
<1> DEFINE c == caller[r]
<1>1. c \in Callers /\ Fits(c) /\ c.pc = "reserve" /\ c.slot = NoToken
  BY DEF CallersFit, Reserve, At, Fits, InHand
<1>2. PICK item \in c.queue :
         \/ /\ Acquire(SlotOf(r, item.tok))
            /\ Goes(r, [c EXCEPT !.pc = "ready", !.queue = {}, !.slot = item.tok])
         \/ /\ UNCHANGED slotVars
            /\ Goes(r, [c EXCEPT !.pc = "walk", !.queue = @ \ {item}])
  BY DEF Reserve
<1>3. item.tok \in Tokens
  BY <1>1 DEF Callers
<1>4. CASE /\ Acquire(SlotOf(r, item.tok))
           /\ Goes(r, [c EXCEPT !.pc = "ready", !.queue = {}, !.slot = item.tok])
  <2> DEFINE new == [c EXCEPT !.pc = "ready", !.queue = {}, !.slot = item.tok]
  <2>1. new \in Callers /\ Fits(new) /\ new.slot = item.tok
    BY <1>1, <1>3, PlacesNamed DEF Callers, Fits, InHand
  <2> QED BY <1>1, <1>3, <1>4, <2>1 DEF Moved, Takes
<1>5. CASE /\ UNCHANGED slotVars
           /\ Goes(r, [c EXCEPT !.pc = "walk", !.queue = @ \ {item}])
  <2> DEFINE new == [c EXCEPT !.pc = "walk", !.queue = @ \ {item}]
  <2>1. new \in Callers /\ Fits(new) /\ new.slot = c.slot
    BY <1>1, PlacesNamed DEF Callers, Fits, InHand
  <2> QED BY <1>5, <2>1 DEF Moved, Stays
<1> QED BY <1>2, <1>4, <1>5

LEMMA SelectNamedMoves ==
    ASSUME WorldFits, CallersFit, NEW r \in Requests, SelectNamed(r)
    PROVE  Moved(r)
<1> DEFINE c == caller[r]
<1>1. c \in Callers /\ Fits(c) /\ c.pc = "select" /\ c.slot = NoToken /\ c.kind # "pool"
  BY DEF CallersFit, SelectNamed, At, Fits, InHand
<1>2. CASE NamedIsFree(r)
  <2>1. c.target \in Tokens
    BY <1>2 DEF NamedIsFree, WorldFits
  <2> DEFINE place == IF c.kind = "plain" THEN "gap" ELSE "ready"
             new == [c EXCEPT !.slot = c.target, !.pc = place]
  <2>2. Goes(r, new) /\ Acquire(SlotOf(r, c.target))
    BY <1>2 DEF SelectNamed
  <2>3. /\ place \in {"gap", "ready"}
        /\ place = "gap" => c.kind = "plain"
    OBVIOUS
  <2> HIDE DEF place
  <2>4. new \in Callers /\ new.slot = c.target /\ new.pc = place /\ new.kind = c.kind
    <3>1. place \in Places
      BY <2>3, PlacesNamed
    <3> QED BY <1>1, <2>1, <3>1 DEF Callers
  <2>5. Fits(new)
    BY <1>1, <2>1, <2>3, <2>4 DEF Fits, InHand
  <2> QED BY <1>1, <2>1, <2>2, <2>4, <2>5 DEF Moved, Takes
<1>3. CASE ~NamedIsFree(r)
  <2> DEFINE new == [c EXCEPT !.pc = "refused"]
  <2>1. new \in Callers /\ Fits(new) /\ new.slot = c.slot
    BY <1>1, PlacesNamed DEF Callers, Fits, InHand
  <2> QED BY <1>3, <2>1 DEF SelectNamed, Moved, Stays
<1> QED BY <1>2, <1>3

\* What leaves a caller where it has no slot, or where it keeps the one it has.
LEMMA PlaceMoves ==
    ASSUME CallersFit, NEW r \in Requests, NEW place \in Places \ {"select", "gap"},
           place \in InHand <=> caller[r].pc \in InHand,
           Goes(r, [caller[r] EXCEPT !.pc = place]),
           UNCHANGED slotVars \/ \E s \in Slots : RecordRateLimit(s)
    PROVE  Moved(r)
<1> DEFINE c == caller[r]
           new == [c EXCEPT !.pc = place]
<1>1. c \in Callers /\ Fits(c)
  BY DEF CallersFit
<1>2. new \in Callers /\ Fits(new) /\ new.slot = c.slot
  BY <1>1 DEF Callers, Fits
<1> QED BY <1>2 DEF Moved, Stays

LEMMA OverFits ==
    ASSUME NEW reply \in {"none", "tier", "disabled", "route"}
    PROVE  Over(reply) \in Callers /\ Fits(Over(reply)) /\ Over(reply).slot = NoToken
BY DEF Over, Fresh, Callers, Places, Fits, InHand

LEMMA ArriveMoves ==
    ASSUME WorldFits, CallersFit, NEW r \in Requests, Arrive(r)
    PROVE  Moved(r)
<1> DEFINE c == caller[r]
<1>1. c \in Callers /\ Fits(c) /\ c.pc = "idle" /\ UNCHANGED slotVars
  BY DEF CallersFit, Arrive, At
<1>2. PICK kind \in Kinds, t \in Tokens :
         Goes(r, [c EXCEPT !.kind = kind, !.pc = Entry(kind),
                           !.target = IF kind = "pool" THEN NoToken ELSE t])
  BY DEF Arrive
<1> DEFINE place == Entry(kind)
           target == IF kind = "pool" THEN NoToken ELSE t
           new == [c EXCEPT !.kind = kind, !.pc = place, !.target = target]
<1>3. Goes(r, new)
  BY <1>2
<1>4. /\ place \in {"list", "select"} /\ (kind = "pool" => place = "list")
      /\ target \in Tokens \cup {NoToken}
  BY DEF Entry
<1> HIDE DEF place, target
<1>5. new \in Callers /\ new.slot = c.slot /\ new.pc = place /\ new.kind = kind
  BY <1>1, <1>4, PlacesNamed DEF Callers
<1>6. Fits(new)
  BY <1>1, <1>4, <1>5 DEF Fits, InHand
<1> QED BY <1>1, <1>3, <1>5, <1>6 DEF Moved, Stays

LEMMA AnswerMoves ==
    ASSUME WorldFits, CallersFit, NEW r \in Requests, Answer(r)
    PROVE  Moved(r)
<1>1. caller[r].slot = NoToken /\ UNCHANGED slotVars
  BY DEF CallersFit, Answer, At, Fits, InHand
<1>2. PICK reply \in {"none", "tier", "disabled", "route"} : Goes(r, Over(reply))
  BY DEF Answer, Reason
<1> QED BY <1>1, <1>2, OverFits DEF Moved, Stays

\* Leaving the try, by any way.
LEMMA EndsMoves ==
    ASSUME CallersFit, NEW r \in Requests, caller[r].pc \in InHand, Ends(r)
    PROVE  Moved(r)
<1> DEFINE over == Over("none")
           new == [over EXCEPT !.slot = NoToken]
<1>1. caller[r].slot \in Tokens
  BY DEF CallersFit, Fits, Callers
<1>2. over \in Callers /\ Fits(over) /\ over.slot = NoToken
  BY OverFits
<1>3. Release(SlotOf(r, caller[r].slot)) /\ Goes(r, new)
  BY DEF Ends, Leave
<1> HIDE DEF over
<1>4. new \in Callers /\ Fits(new) /\ new.slot = NoToken
  BY <1>2 DEF Callers, Fits
<1> QED BY <1>1, <1>3, <1>4 DEF Moved, Drops

LEMMA FailOverMoves ==
    ASSUME CallersFit, NEW r \in Requests, caller[r].pc \in InHand, FailOver(r)
    PROVE  Moved(r)
<1> DEFINE c == caller[r]
           again == [c EXCEPT !.pc = Entry(c.kind), !.tried = @ \cup {c.slot}]
           new == [again EXCEPT !.slot = NoToken]
<1>1. c \in Callers /\ Fits(c) /\ c.slot \in Tokens
  BY DEF CallersFit, Fits, Callers
<1>2. /\ again \in Callers /\ again.pc \notin InHand
      /\ again.kind = "pool" => again.pc = "list"
  BY <1>1, PlacesNamed DEF Callers, InHand, Entry
<1>3. Release(SlotOf(r, c.slot)) /\ Goes(r, new)
  BY DEF FailOver, Leave
<1> HIDE DEF again
<1>4. new \in Callers /\ Fits(new) /\ new.slot = NoToken
  BY <1>2 DEF Callers, Fits, InHand
<1> QED BY <1>1, <1>3, <1>4 DEF Moved, Drops

\* Every step of a selection or a handler, and what ends a request.
LEMMA SelectionMoves ==
    ASSUME WorldFits, CallersFit, NEW r \in Requests, Selection(r)
    PROVE  Moved(r)
<1>1. CASE NoCandidate(r)
  <2>1. caller[r].pc = "walk" /\ Goes(r, [caller[r] EXCEPT !.pc = "refused"]) /\ UNCHANGED slotVars
    BY <1>1 DEF NoCandidate, At
  <2> QED BY <2>1, PlaceMoves DEF Places, InHand
<1>2. CASE Progress(r)
  <2>1. caller[r].pc = "gap" /\ Goes(r, [caller[r] EXCEPT !.pc = "ready"]) /\ UNCHANGED slotVars
    BY <1>2 DEF Progress, At
  <2> QED BY <2>1, PlaceMoves DEF Places, InHand
<1> QED BY <1>1, <1>2, ListMoves, FilterMoves, ArrangeMoves, ValidateMoves, ReserveMoves,
           SelectNamedMoves, AnswerMoves DEF Selection

LEMMA HandlingMoves ==
    ASSUME WorldFits, CallersFit, NEW r \in Requests, Handling(r)
    PROVE  Moved(r)
<1> DEFINE c == caller[r]
           GoesOn(place) == Goes(r, [c EXCEPT !.pc = place]) /\ UNCHANGED slotVars
<1> USE DEF At
<1>1. ASSUME c.pc \in InHand, NEW place \in InHand \ {"gap"}, GoesOn(place) PROVE Moved(r)
  BY <1>1, PlaceMoves DEF Places, InHand
<1>2. CASE Check(r)
  BY <1>1, <1>2, EndsMoves, FailOverMoves DEF Check, GivesUpOn, InHand
<1>3. CASE Unit(r)
  BY <1>1, <1>3, FailOverMoves DEF Unit, InHand
<1>4. CASE Succeeds(r) \/ Refused(r) \/ Closes(r)
  BY <1>4, EndsMoves DEF Succeeds, Refused, Closes, InHand
<1>5. CASE RateLimited(r)
  <2>1. SlotOf(r, c.slot) \in Slots /\ c.pc = "work"
    BY <1>5 DEF RateLimited, CallersFit, Fits, Callers, InHand, SlotOf, Slots
  <2>2. Goes(r, [c EXCEPT !.pc = "next"]) /\ \E s \in Slots : RecordRateLimit(s)
    BY <1>5, <2>1 DEF RateLimited
  <2> QED BY <2>1, <2>2, PlaceMoves DEF Places, InHand
<1>6. CASE TriesNext(r)
  BY <1>6, FailOverMoves DEF TriesNext, InHand
<1>7. CASE AccountFails(r)
  BY <1>7, EndsMoves, FailOverMoves DEF AccountFails, GivesUpOn, InHand
<1>8. CASE Counts(r) \/ Bans(r)
  BY <1>1, <1>8 DEF Counts, Bans, InHand
<1>9. CASE Weighs(r)
  BY <1>1, <1>9 DEF Weighs, InHand
<1> QED BY <1>2, <1>3, <1>4, <1>5, <1>6, <1>7, <1>8, <1>9 DEF Handling

LEMMA CancelMoves ==
    ASSUME CallersFit, NEW r \in Requests, Cancel(r)
    PROVE  Moved(r)
<1>1. CASE Holding(r)
  BY <1>1, EndsMoves DEF Cancel, Holding, CallersFit, Fits
<1>2. CASE ~Holding(r)
  BY <1>2, OverFits DEF Cancel, Holding, Moved, Stays
<1> QED BY <1>1, <1>2

----------------------------------------------------------------------------
(***************************************************************************)
(* The types.                                                              *)
(***************************************************************************)
LEMMA MovedFits ==
    ASSUME CallersFit, NEW r \in Requests, NEW new \in Callers, Goes(r, new), Fits(new)
    PROVE  CallersFit'
<1>1. CallersFit' <=> /\ caller' \in [Requests -> Callers]
                      /\ \A q \in Requests : Fits(caller'[q])
  BY DEF CallersFit, Fits
<1> QED BY <1>1 DEF CallersFit, Goes

\* What a selection or a handler does to the accounts.
LEMMA SelectionKeepsWorld ==
    ASSUME WorldFits, CallersFit, NEW r \in Requests, Selection(r)
    PROVE  WorldFits'
<1>1. UNCHANGED <<active, funded, broken, errors, enabling>> /\ stale' \subseteq stale
  BY DEF Selection, List, Filter, Arrange, Validate, Renewed, Reserve, NoCandidate,
         SelectNamed, Progress, Answer, accountVars, operatorVars
<1>2. removed' = removed
  BY DEF Selection, List, Filter, Arrange, Validate, Reserve, NoCandidate, SelectNamed,
         Progress, Answer, Acquire, slotVars
<1> QED BY <1>1, <1>2 DEF WorldFits

LEMMA HandlingKeepsWorld ==
    ASSUME WorldFits, CallersFit, NEW r \in Requests, Handling(r)
    PROVE  WorldFits'
<1>1. /\ UNCHANGED <<broken, enabling>> /\ active' \subseteq active
      /\ funded' \subseteq funded /\ stale' \subseteq stale
  BY DEF Handling, Check, Renewed, Unit, Succeeds, Refused, RateLimited, TriesNext,
         AccountFails, Counts, Weighs, Bans, Closes, accountVars, operatorVars
<1>2. removed' = removed
  BY DEF Handling, Check, Unit, Succeeds, Refused, RateLimited, TriesNext, AccountFails,
         Counts, Weighs, Bans, Closes, GivesUpOn, FailOver, Ends, Leave, Release,
         RecordRateLimit, slotVars
<1>3. errors' \in [Tokens -> Nat]
  <2>1. CASE Counts(r)
    <3>1. caller[r].slot \in Tokens
      BY <2>1 DEF Counts, At, CallersFit, Fits, Callers, InHand
    <3> QED BY <2>1, <3>1 DEF Counts, WorldFits, Smaller
  <2>2. CASE Succeeds(r)
    BY <2>2 DEF Succeeds, WorldFits
  <2>3. CASE errors' = errors
    BY <2>3 DEF WorldFits
  <2> QED BY <2>1, <2>2, <2>3
          DEF Handling, Check, Unit, Refused, RateLimited, TriesNext, AccountFails,
              Weighs, Bans, Closes, accountVars
<1> QED BY <1>1, <1>2, <1>3 DEF WorldFits

\* The operator, the world and the clock: no caller moves.
Outside ==
    \/ EnableResets \/ Cools
    \/ \E t \in Tokens : Disable(t) \/ Enable(t) \/ Delete(t) \/ Edit(t) \/ World(t)

LEMMA OutsideKeepsWorld == ASSUME WorldFits, Outside PROVE WorldFits'
<1>1. CASE EnableResets
  BY <1>1 DEF EnableResets, slotVars, WorldFits
<1>2. CASE Cools
  BY <1>2 DEF Cools, Tick, accountVars, operatorVars, WorldFits
<1>3. ASSUME NEW t \in Tokens, Disable(t) PROVE WorldFits'
  BY <1>3 DEF Disable, slotVars, WorldFits
<1>4. ASSUME NEW t \in Tokens, Enable(t) PROVE WorldFits'
  BY <1>4 DEF Enable, slotVars, WorldFits
<1>5. ASSUME NEW t \in Tokens, Delete(t) PROVE WorldFits'
  BY <1>5 DEF Delete, RemoveToken, WorldFits
<1>6. ASSUME NEW t \in Tokens, Edit(t) PROVE WorldFits'
  BY <1>6 DEF Edit, ResetToken, accountVars, WorldFits
<1>7. ASSUME NEW t \in Tokens, World(t) PROVE WorldFits'
  BY <1>7 DEF World, slotVars, WorldFits
<1> QED BY <1>1, <1>2, <1>3, <1>4, <1>5, <1>6, <1>7 DEF Outside

LEMMA OutsideIsManagers ==
    ASSUME Outside
    PROVE  UNCHANGED <<caller, held>> /\ [Next]_vars
<1>1. CASE EnableResets
  BY <1>1 DEF EnableResets, slotVars, vars
<1>2. CASE Cools
  BY <1>2 DEF Cools, Tick, Next
<1>3. ASSUME NEW t \in Tokens, Disable(t) \/ Enable(t) \/ World(t)
      PROVE  UNCHANGED <<caller, held>> /\ [Next]_vars
  BY <1>3 DEF Disable, Enable, World, slotVars, vars
<1>4. ASSUME NEW t \in Tokens, Delete(t) \/ Edit(t)
      PROVE  UNCHANGED <<caller, held>> /\ [Next]_vars
  BY <1>4 DEF Delete, Edit, RemoveToken, ResetToken, Next
<1> QED BY <1>1, <1>2, <1>3, <1>4 DEF Outside

\* The steps of the composed system, by what they do to a caller's slot.
LEMMA StepKinds ==
    ASSUME WorldFits, CallersFit, BalancerNext
    PROVE  \/ \E r \in Requests : Moved(r)
           \/ Outside
           \/ \E r \in Requests : CancelInGap(r)
<1>1. ASSUME NEW r \in Requests, Arrive(r) PROVE Moved(r)
  BY <1>1, ArriveMoves
<1> QED BY <1>1, SelectionMoves, HandlingMoves, CancelMoves
        DEF BalancerNext, Environment, Outside

BalancerTypes == WorldFits /\ CallersFit

LEMMA TypesKept == BalancerTypes /\ [BalancerNext]_balancerVars => BalancerTypes'
<1> SUFFICES ASSUME BalancerTypes, [BalancerNext]_balancerVars PROVE BalancerTypes'
  OBVIOUS
<1> USE DEF BalancerTypes
<1>1. CASE UNCHANGED balancerVars
  BY <1>1 DEF balancerVars, slotVars, accountVars, operatorVars, WorldFits, CallersFit, Fits
<1>2. CASE BalancerNext
  <2>1. CallersFit'
    <3>1. ASSUME NEW r \in Requests, Moved(r) PROVE CallersFit'
      BY <3>1, MovedFits DEF Moved
    <3>2. CASE Outside
      BY <3>2, OutsideIsManagers DEF CallersFit, Fits
    <3>3. ASSUME NEW r \in Requests, CancelInGap(r) PROVE CallersFit'
      BY <3>3, OverFits, MovedFits DEF CancelInGap
    <3> QED BY <1>2, <3>1, <3>2, <3>3, StepKinds
  <2>2. WorldFits'
    <3>1. ASSUME NEW r \in Requests, Arrive(r) \/ CancelInGap(r) PROVE WorldFits'
      BY <3>1 DEF Arrive, CancelInGap, slotVars, accountVars, operatorVars, WorldFits
    <3>2. ASSUME NEW r \in Requests, Cancel(r) PROVE WorldFits'
      BY <3>2 DEF Cancel, Ends, Leave, Release, slotVars, accountVars, operatorVars, WorldFits
    <3> QED BY <1>2, <3>1, <3>2, SelectionKeepsWorld, HandlingKeepsWorld, OutsideKeepsWorld
            DEF BalancerNext, Environment, Outside
  <2> QED BY <2>1, <2>2
<1> QED BY <1>1, <1>2

LEMMA TypesHold == BalancerSpec => []BalancerTypes
<1>1. BalancerInit => BalancerTypes
  <2> SUFFICES ASSUME BalancerInit PROVE BalancerTypes
    OBVIOUS
  <2>1. Fresh \in Callers /\ Fits(Fresh)
    BY DEF Fresh, Callers, Places, Fits, InHand
  <2> HIDE DEF Fresh
  <2>2. CallersFit
    BY <2>1 DEF BalancerInit, CallersFit
  <2>3. WorldFits
    BY DEF BalancerInit, Init, WorldFits
  <2> QED BY <2>2, <2>3 DEF BalancerTypes
<1> QED BY <1>1, TypesKept, PTL DEF BalancerSpec

----------------------------------------------------------------------------
\* Selection and handlers call the concurrency manager only as its own module
\* lets a client: they return what they were granted, once.
THEOREM BalancerUsesManager == BalancerSpec => Spec
<1>1. BalancerInit => Init
  BY DEF BalancerInit
<1>2. BalancerTypes /\ [BalancerNext]_balancerVars => [Next]_vars
  <2> SUFFICES ASSUME BalancerTypes, BalancerNext PROVE [Next]_vars
    BY DEF balancerVars, slotVars, vars
  <2>1. ASSUME NEW r \in Requests, Moved(r) PROVE [Next]_vars
    <3>1. \A t \in Tokens : SlotOf(r, t) \in Slots
      BY DEF SlotOf, Slots
    <3> QED BY <2>1, <3>1 DEF Moved, Stays, Takes, Drops, Next, vars, slotVars
  <2>2. ASSUME NEW r \in Requests, CancelInGap(r) PROVE [Next]_vars
    BY <2>2 DEF CancelInGap, slotVars, vars
  <2> QED BY <2>1, <2>2, StepKinds, OutsideIsManagers DEF BalancerTypes
<1> QED BY <1>1, <1>2, TypesHold, PTL DEF BalancerSpec, Spec

\* Hence its counters stay exact under selection, failover, bans, edits and
\* deletions.
THEOREM BalancerAccounting == BalancerSpec => []SlotAccounting
BY BalancerUsesManager, SlotAccountingHolds, PTL


\* ... and a slot is taken only within the limits.
THEOREM BalancerAdmission == BalancerSpec => AdmissionWithinLimit
BY BalancerUsesManager, AdmissionHolds, PTL

----------------------------------------------------------------------------
(***************************************************************************)
(* Slots belong to requests.                                               *)
(***************************************************************************)
Owners(s) == {r \in Requests : Holding(r) /\ SlotOf(r, caller[r].slot) = s}

\* Counting with one element more or less.
LEMMA OneMore ==
    ASSUME NEW S, IsFiniteSet(S), NEW x, x \notin S
    PROVE  Cardinality(S \cup {x}) = Cardinality(S) + 1
BY FS_AddElement

LEMMA OneLess ==
    ASSUME NEW S, IsFiniteSet(S), NEW x \in S
    PROVE  Cardinality(S \ {x}) = Cardinality(S) - 1
BY FS_RemoveElement

LEMMA OwnersFinite == \A s : IsFiniteSet(Owners(s))
BY FS_Subset DEF Owners

LEMMA OwnersOfOthers ==
    ASSUME CallersFit, NEW r \in Requests, NEW new, Goes(r, new), NEW s
    PROVE  \A q \in Requests \ {r} : q \in Owners(s)' <=> q \in Owners(s)
BY DEF CallersFit, Goes, Owners, Holding, SlotOf

LEMMA OwnersMoved ==
    ASSUME CallersFit, TypeOK, HeldIsOwned, NEW r \in Requests, Moved(r)
    PROVE  HeldIsOwned'
<1>1. PICK new \in Callers :
         Goes(r, new) /\ Fits(new) /\ (Stays(r, new) \/ Takes(r, new) \/ Drops(r, new))
  BY DEF Moved
<1>2. caller'[r] = new
  BY <1>1 DEF Goes, CallersFit
<1>3. \A s \in Slots : held[s] = Cardinality(Owners(s)) /\ held[s] \in Nat
  BY DEF HeldIsOwned, Owners, TypeOK
<1>4. SUFFICES ASSUME NEW s \in Slots PROVE held'[s] = Cardinality(Owners(s)')
  BY DEF HeldIsOwned, Owners
<1>5. \A q \in Requests \ {r} : q \in Owners(s)' <=> q \in Owners(s)
  BY <1>1, OwnersOfOthers
<1>6. Owners(s) \subseteq Requests /\ Owners(s)' \subseteq Requests
  BY DEF Owners
<1>7. CASE Stays(r, new)
  <2>1. r \in Owners(s)' <=> r \in Owners(s)
    BY <1>2, <1>7 DEF Stays, Owners, Holding, SlotOf
  <2>2. held' = held
    BY <1>7 DEF Stays, slotVars, RecordRateLimit
  <2>3. Owners(s)' = Owners(s)
    BY <1>5, <1>6, <2>1
  <2> QED BY <1>3, <2>2, <2>3
<1>8. CASE Takes(r, new)
  <2>1. /\ r \notin Owners(s)
        /\ r \in Owners(s)' <=> s = SlotOf(r, new.slot)
    BY <1>2, <1>8 DEF Takes, Owners, Holding, SlotOf
  <2>2. held' = [held EXCEPT ![SlotOf(r, new.slot)] = @ + 1]
    BY <1>8 DEF Takes, Acquire
  <2>3. CASE s = SlotOf(r, new.slot)
    <3>1. Owners(s)' = Owners(s) \cup {r}
      BY <1>5, <1>6, <2>1, <2>3
    <3>2. Cardinality(Owners(s)') = Cardinality(Owners(s)) + 1
      BY <2>1, <3>1, OwnersFinite, OneMore
    <3> QED BY <1>3, <2>2, <2>3, <3>2 DEF TypeOK
  <2>4. CASE s # SlotOf(r, new.slot)
    <3>1. Owners(s)' = Owners(s)
      BY <1>5, <1>6, <2>1, <2>4
    <3> QED BY <1>3, <2>2, <2>4, <3>1 DEF TypeOK
  <2> QED BY <2>3, <2>4
<1>9. CASE Drops(r, new)
  <2>1. /\ r \notin Owners(s)'
        /\ r \in Owners(s) <=> s = SlotOf(r, caller[r].slot)
    BY <1>2, <1>9 DEF Drops, Owners, Holding, SlotOf
  <2>2. held' = [held EXCEPT ![SlotOf(r, caller[r].slot)] = @ - 1]
    BY <1>9 DEF Drops, Release
  <2>3. CASE s = SlotOf(r, caller[r].slot)
    <3>1. Owners(s)' = Owners(s) \ {r}
      BY <1>5, <1>6, <2>1, <2>3
    <3>2. Cardinality(Owners(s)') = Cardinality(Owners(s)) - 1
      BY <2>1, <2>3, <3>1, OwnersFinite, OneLess
    <3> QED BY <1>3, <2>2, <2>3, <3>2 DEF TypeOK
  <2>4. CASE s # SlotOf(r, caller[r].slot)
    <3>1. Owners(s)' = Owners(s)
      BY <1>5, <1>6, <2>1, <2>4
    <3> QED BY <1>3, <2>2, <2>4, <3>1 DEF TypeOK
  <2> QED BY <2>3, <2>4
<1> QED BY <1>1, <1>7, <1>8, <1>9

LEMMA OwnersUntouched ==
    ASSUME HeldIsOwned, UNCHANGED <<caller, held>>
    PROVE  HeldIsOwned'
BY DEF HeldIsOwned, Holding, SlotOf

\* The slots granted are those of the requests that hold them, for every way
\* out of the selection and the handlers, unless a plain test streams its
\* progress: then a client that leaves in between takes its slot along (the
\* run slot_leak).
THEOREM HeldIsOwnedHolds ==
    ASSUME ~LogsProgress \/ "plain" \notin Kinds
    PROVE  BalancerSpec => []HeldIsOwned
<1>1. BalancerInit => HeldIsOwned
  <2> SUFFICES ASSUME BalancerInit, NEW s \in Slots
               PROVE  held[s] = Cardinality(Owners(s))
    BY DEF HeldIsOwned, Owners
  <2>1. held[s] = 0
    BY DEF BalancerInit, Init
  <2>2. Owners(s) = {}
    BY DEF BalancerInit, Owners, Holding, Fresh
  <2> QED BY <2>1, <2>2, FS_EmptySet
<1>2. BalancerTypes /\ TypeOK /\ HeldIsOwned /\ [BalancerNext]_balancerVars => HeldIsOwned'
  <2> SUFFICES ASSUME BalancerTypes, TypeOK, HeldIsOwned, [BalancerNext]_balancerVars
               PROVE  HeldIsOwned'
    OBVIOUS
  <2>1. CASE UNCHANGED balancerVars
    BY <2>1, OwnersUntouched DEF balancerVars, slotVars
  <2>2. CASE BalancerNext
    <3>1. ASSUME NEW r \in Requests, CancelInGap(r) PROVE FALSE
      BY <3>1 DEF CancelInGap, At, BalancerTypes, CallersFit, Fits, Callers
    <3> QED BY <2>2, <3>1, StepKinds, OwnersMoved, OutsideIsManagers, OwnersUntouched
            DEF BalancerTypes
  <2> QED BY <2>1, <2>2
<1>3. BalancerSpec => []TypeOK
  BY BalancerUsesManager, TypeCorrect, PTL
<1> QED BY <1>1, <1>2, <1>3, TypesHold, PTL DEF BalancerSpec

----------------------------------------------------------------------------
(***************************************************************************)
(* Accounts that keep failing.                                             *)
(***************************************************************************)
Watches(r, t) == caller[r].slot = t /\ caller[r].pc \in {"weigh", "ban"}

\* A step of a caller that is not weighing an account and adds no error.
\* An account whose last failure was cut off stays noted until the next one.
LEMMA CutOffStays ==
    ASSUME CutOff, NEW t \in unweighed, t \in active', errors'[t] >= BanThreshold,
           \A q \in Requests : At(q, "work") /\ At(q, "weigh")' => caller[q].slot # t
    PROVE  t \in unweighed'
BY DEF CutOff

LEMMA WatchersStay ==
    ASSUME BalancerTypes, FailingIsDisabled, CutOff, NEW r \in Requests, NEW new, Goes(r, new),
           caller[r].pc \notin {"weigh", "ban"},
           ~(At(r, "work") /\ At(r, "weigh")'),
           active' \subseteq active, enabling' = enabling,
           \A t \in Tokens : errors'[t] \in {errors[t], 0}
    PROVE  FailingIsDisabled'
<1>1. SUFFICES ASSUME NEW t \in active', errors'[t] >= BanThreshold
               PROVE  enabling' = t \/ (\E q \in Requests : Watches(q, t)') \/ t \in unweighed'
  BY DEF FailingIsDisabled, BeingDecided, Deciding, Watches
<1>2. t \in active /\ t \in Tokens /\ errors[t] >= BanThreshold
  <2>1. t \in active /\ t \in Tokens
    BY <1>1 DEF BalancerTypes, WorldFits
  <2>2. errors'[t] = errors[t] \/ errors'[t] = 0
    BY <2>1
  <2>3. BanThreshold \in Nat /\ ~(0 >= BanThreshold)
    OBVIOUS
  <2> QED BY <1>1, <2>1, <2>2, <2>3
<1>3. CASE enabling = t
  BY <1>3
<1>4. CASE t \in unweighed
  <2>1. \A q \in Requests \ {r} : caller'[q] = caller[q]
    BY DEF Goes, BalancerTypes, CallersFit
  <2>2. \A q \in Requests : ~(At(q, "work") /\ At(q, "weigh")')
    BY <2>1 DEF At
  <2> QED BY <1>1, <1>4, <2>2, CutOffStays
<1>5. CASE enabling # t /\ t \notin unweighed
  <2>1. PICK q \in Requests : Watches(q, t)
    BY <1>2, <1>5 DEF FailingIsDisabled, BeingDecided, Deciding, Watches
  <2>2. q # r /\ caller'[q] = caller[q]
    BY <2>1 DEF Watches, Goes, BalancerTypes, CallersFit
  <2> QED BY <2>1, <2>2 DEF Watches
<1> QED BY <1>3, <1>4, <1>5

LEMMA CountsWatched ==
    ASSUME BalancerTypes, FailingIsDisabled, CutOff, NEW r \in Requests, Counts(r)
    PROVE  FailingIsDisabled'
<1> DEFINE c == caller[r]
           new == [c EXCEPT !.pc = "weigh"]
<1>1. /\ c \in Callers /\ c.slot \in Tokens /\ c.pc = "work" /\ Goes(r, new)
      /\ UNCHANGED <<active, enabling>>
      /\ \A t \in Tokens \ {c.slot} : errors'[t] = errors[t]
  BY DEF Counts, At, operatorVars, BalancerTypes, CallersFit, WorldFits, Fits, Callers, InHand
<1>2. /\ new.slot = c.slot /\ new.pc = "weigh" /\ caller'[r] = new
      /\ \A q \in Requests \ {r} : caller'[q] = caller[q]
  BY <1>1 DEF Goes, BalancerTypes, CallersFit, Callers
<1>3. SUFFICES ASSUME NEW t \in active', errors'[t] >= BanThreshold
               PROVE  enabling' = t \/ (\E q \in Requests : Watches(q, t)') \/ t \in unweighed'
  BY DEF FailingIsDisabled, BeingDecided, Deciding, Watches
<1>4. CASE t = c.slot
  BY <1>2, <1>4 DEF Watches
<1>5. CASE t # c.slot
  <2>1. t \in active /\ errors[t] >= BanThreshold
    BY <1>1, <1>3, <1>5 DEF BalancerTypes, WorldFits
  <2>2. CASE \E q \in Requests : Watches(q, t)
    <3>1. PICK q \in Requests : Watches(q, t)
      BY <2>2
    <3>2. q # r
      BY <1>1, <3>1 DEF Watches
    <3> QED BY <1>2, <3>1, <3>2 DEF Watches
  <2>3. CASE t \in unweighed
    <3>1. \A q \in Requests : At(q, "work") /\ At(q, "weigh")' => caller[q].slot # t
      BY <1>2, <1>5 DEF At
    <3> QED BY <1>3, <2>3, <3>1, CutOffStays
  <2> QED BY <1>1, <2>1, <2>2, <2>3 DEF FailingIsDisabled, BeingDecided, Deciding, Watches
<1> QED BY <1>4, <1>5

LEMMA WeighsWatched ==
    ASSUME BalancerTypes, FailingIsDisabled, CutOff, NEW r \in Requests, Weighs(r)
    PROVE  FailingIsDisabled'
<1> DEFINE c == caller[r]
           place == IF errors[c.slot] >= BanThreshold THEN "ban" ELSE "leave"
           new == [c EXCEPT !.pc = place]
<1>1. c \in Callers /\ Goes(r, new) /\ UNCHANGED <<active, enabling, errors>>
  BY DEF Weighs, accountVars, operatorVars, BalancerTypes, CallersFit
<1>2. /\ new.slot = c.slot /\ new.pc = place /\ caller'[r] = new
      /\ \A q \in Requests \ {r} : caller'[q] = caller[q]
  BY <1>1 DEF Goes, BalancerTypes, CallersFit, Callers
<1>3. SUFFICES ASSUME NEW t \in active', errors'[t] >= BanThreshold
               PROVE  enabling' = t \/ (\E q \in Requests : Watches(q, t)') \/ t \in unweighed'
  BY DEF FailingIsDisabled, BeingDecided, Deciding, Watches
<1>4. CASE \E q \in Requests : Watches(q, t)
  <2>1. PICK q \in Requests : Watches(q, t)
    BY <1>4
  <2>2. CASE q = r
    BY <1>1, <1>2, <1>3, <2>1, <2>2 DEF Watches
  <2>3. CASE q # r
    BY <1>2, <2>1, <2>3 DEF Watches
  <2> QED BY <2>2, <2>3
<1>5. CASE t \in unweighed
  <2>1. \A q \in Requests : ~(At(q, "work") /\ At(q, "weigh")')
    BY <1>2 DEF At, Weighs
  <2> QED BY <1>3, <1>5, <2>1, CutOffStays
<1> QED BY <1>1, <1>3, <1>4, <1>5 DEF FailingIsDisabled, BeingDecided, Deciding, Watches

LEMMA BansWatched ==
    ASSUME BalancerTypes, FailingIsDisabled, CutOff, NEW r \in Requests, Bans(r)
    PROVE  FailingIsDisabled'
<1>1. /\ \A q \in Requests \ {r} : caller'[q] = caller[q]
      /\ UNCHANGED <<enabling, errors>> /\ active' = active \ {caller[r].slot}
  BY DEF Bans, Goes, operatorVars, BalancerTypes, CallersFit
<1>2. SUFFICES ASSUME NEW t \in active', errors'[t] >= BanThreshold
               PROVE  enabling' = t \/ (\E q \in Requests : Watches(q, t)') \/ t \in unweighed'
  BY DEF FailingIsDisabled, BeingDecided, Deciding, Watches
<1>3. CASE \E q \in Requests : Watches(q, t)
  <2>1. PICK q \in Requests : Watches(q, t)
    BY <1>3
  <2>2. q # r
    BY <1>1, <1>2, <2>1 DEF Watches
  <2> QED BY <1>1, <2>1, <2>2 DEF Watches
<1>4. CASE t \in unweighed
  <2>1. \A q \in Requests : ~(At(q, "work") /\ At(q, "weigh")')
    BY <1>1 DEF At, Bans
  <2> QED BY <1>2, <1>4, <2>1, CutOffStays
<1> QED BY <1>1, <1>2, <1>3, <1>4 DEF FailingIsDisabled, BeingDecided, Deciding, Watches

\* A client that leaves while its failure is being weighed leaves a note.
LEMMA CancelWatched ==
    ASSUME BalancerTypes, FailingIsDisabled, CutOff, NEW r \in Requests, Cancel(r)
    PROVE  FailingIsDisabled'
<1>1. /\ \A q \in Requests \ {r} : caller'[q] = caller[q]
      /\ UNCHANGED <<active, errors, enabling>>
  BY CancelMoves DEF Cancel, accountVars, operatorVars, Moved, Goes, BalancerTypes, CallersFit
<1>2. At(r, "done")'
  <2>1. [Over("none") EXCEPT !.slot = NoToken].pc = "done" /\ Over("none").pc = "done"
    BY DEF Over, Fresh
  <2>2. \/ caller'[r] = Over("none")
        \/ caller'[r] = [Over("none") EXCEPT !.slot = NoToken]
    BY DEF Cancel, Ends, Leave, Goes, BalancerTypes, CallersFit
  <2> QED BY <2>1, <2>2 DEF At
<1>3. SUFFICES ASSUME NEW t \in active', errors'[t] >= BanThreshold
               PROVE  enabling' = t \/ (\E q \in Requests : Watches(q, t)') \/ t \in unweighed'
  BY DEF FailingIsDisabled, BeingDecided, Deciding, Watches
<1>4. \A q \in Requests : ~(At(q, "work") /\ At(q, "weigh")')
  BY <1>1, <1>2 DEF At
<1>5. CASE \E q \in Requests : Watches(q, t)
  <2>1. PICK q \in Requests : Watches(q, t)
    BY <1>5
  <2>2. CASE q = r
    BY <1>2, <1>3, <1>4, <2>1, <2>2 DEF CutOff, Watches, Deciding
  <2>3. CASE q # r
    BY <1>1, <2>1, <2>3 DEF Watches
  <2> QED BY <2>2, <2>3
<1>6. CASE t \in unweighed
  BY <1>3, <1>4, <1>6, CutOffStays
<1> QED BY <1>1, <1>3, <1>5, <1>6
        DEF FailingIsDisabled, BeingDecided, Deciding, Watches

LEMMA OutsideWatched ==
    ASSUME BalancerTypes, FailingIsDisabled, CutOff, Outside
    PROVE  FailingIsDisabled'
<1>1. caller' = caller
  BY OutsideIsManagers
<1>2. SUFFICES ASSUME NEW t \in active', errors'[t] >= BanThreshold
               PROVE  enabling' = t \/ (\E q \in Requests : Watches(q, t)) \/ t \in unweighed'
  BY <1>1 DEF FailingIsDisabled, BeingDecided, Deciding, Watches
<1>0. t \in unweighed => t \in unweighed'
  <2>1. \A q \in Requests : ~(At(q, "work") /\ At(q, "weigh")')
    BY <1>1 DEF At
  <2> QED BY <1>2, <2>1, CutOffStays
<1>3. CASE EnableResets
  <2>1. t # enabling /\ t \in active /\ errors[t] >= BanThreshold
    BY <1>2, <1>3 DEF EnableResets, BalancerTypes, WorldFits
  <2> QED BY <1>0, <2>1 DEF FailingIsDisabled, BeingDecided, Deciding, Watches
<1>4. ASSUME NEW u \in Tokens, Enable(u)
      PROVE  enabling' = t \/ (\E q \in Requests : Watches(q, t)) \/ t \in unweighed'
  <2>1. enabling = NoToken /\ enabling' = u /\ active' = active \cup {u} /\ errors' = errors
    BY <1>4 DEF Enable
  <2>2. CASE t # u
    BY <1>0, <1>2, <2>1, <2>2 DEF FailingIsDisabled, BeingDecided, Deciding, Watches, BalancerTypes, WorldFits
  <2> QED BY <2>1, <2>2
<1>5. ASSUME /\ UNCHANGED <<enabling, errors>>
             /\ active' \subseteq active
      PROVE  enabling' = t \/ (\E q \in Requests : Watches(q, t)) \/ t \in unweighed'
  BY <1>0, <1>2, <1>5 DEF FailingIsDisabled, BeingDecided, Deciding, Watches
<1>6. ASSUME NEW u \in Tokens, Disable(u) \/ Delete(u) \/ Edit(u) \/ World(u)
      PROVE  UNCHANGED <<enabling, errors>> /\ active' \subseteq active
  BY <1>6 DEF Disable, Delete, Edit, World, accountVars
<1>7. CASE Cools
  BY <1>5, <1>7 DEF Cools, accountVars, operatorVars
<1> QED BY <1>3, <1>4, <1>5, <1>6, <1>7 DEF Outside

\* Of the ways on from the upstream's answer only Counts leads to the weighing.
LEMMA OnlyCountsWeighs ==
    ASSUME BalancerTypes, NEW r \in Requests, Handling(r), ~Counts(r), caller[r].pc = "work"
    PROVE  caller'[r].pc # "weigh"
<1> DEFINE c == caller[r]
<1>1. c \in Callers /\ \A new : Goes(r, new) => caller'[r] = new
  BY DEF Goes, BalancerTypes, CallersFit
<1>2. ASSUME Ends(r) PROVE caller'[r].pc # "weigh"
  <2>1. caller'[r] = [Over("none") EXCEPT !.slot = NoToken]
    BY <1>1, <1>2 DEF Ends, Leave
  <2> QED BY <2>1 DEF Over, Fresh
<1>3. ASSUME FailOver(r) PROVE caller'[r].pc # "weigh"
  <2> DEFINE again == [c EXCEPT !.pc = Entry(c.kind), !.tried = @ \cup {c.slot}]
  <2>1. again.pc = Entry(c.kind) /\ "slot" \in DOMAIN again /\ "pc" \in DOMAIN again
    BY <1>1 DEF Callers
  <2>2. caller'[r] = [again EXCEPT !.slot = NoToken]
    BY <1>1, <1>3 DEF FailOver, Leave
  <2> HIDE DEF again
  <2> QED BY <2>1, <2>2 DEF Entry
<1>4. CASE Succeeds(r) \/ Refused(r) \/ AccountFails(r)
  BY <1>2, <1>3, <1>4 DEF Succeeds, Refused, AccountFails, GivesUpOn
<1>5. CASE RateLimited(r)
  BY <1>1, <1>5 DEF RateLimited, Callers
<1> QED BY <1>4, <1>5 DEF Handling, Check, Unit, TriesNext, Weighs, Bans, Closes, At

\* An account that reached the threshold of consecutive errors is about to be
\* switched off, whatever other requests, the operator and the world do between
\* the statements of record_error and the two of enable_token, unless a client
\* left between them: then the next failure switches it off.
THEOREM FailingIsDisabledHolds == BalancerSpec => []FailingIsDisabled
<1>1. BalancerInit => FailingIsDisabled
  BY DEF BalancerInit, FailingIsDisabled
<1>2. BalancerTypes /\ FailingIsDisabled /\ [BalancerNext]_balancerVars => FailingIsDisabled'
  <2> SUFFICES ASSUME BalancerTypes, FailingIsDisabled, [BalancerNext]_balancerVars
               PROVE  FailingIsDisabled'
    OBVIOUS
  <2>1. CASE UNCHANGED balancerVars
    BY <2>1 DEF balancerVars, accountVars, operatorVars, FailingIsDisabled, BeingDecided, Deciding
  <2>0. [BalancerNext]_balancerVars => CutOff \/ UNCHANGED balancerVars
    BY DEF BalancerNext
  <2>2. ASSUME NEW r \in Requests, Selection(r), CutOff PROVE FailingIsDisabled'
    <3>1. caller[r].pc \notin {"weigh", "ban", "work"} /\ UNCHANGED <<active, errors, enabling>>
      BY <2>2 DEF Selection, List, Filter, Arrange, Validate, Reserve, NoCandidate,
         SelectNamed, Progress, Answer, At, accountVars, operatorVars
    <3> QED BY <2>2, <3>1, SelectionMoves, WatchersStay DEF Moved, BalancerTypes, At
  <2>3. ASSUME NEW r \in Requests, Arrive(r) \/ CancelInGap(r), CutOff
        PROVE  FailingIsDisabled'
    <3>1. /\ caller[r].pc \notin {"weigh", "ban", "work"}
          /\ UNCHANGED <<active, errors, enabling>>
      BY <2>3 DEF Arrive, CancelInGap, At, accountVars, operatorVars
    <3>2. \E new : Goes(r, new)
      BY <2>3, ArriveMoves DEF Moved, CancelInGap, BalancerTypes
    <3> QED BY <2>3, <3>1, <3>2, WatchersStay DEF At
  <2>5. ASSUME NEW r \in Requests, Cancel(r), CutOff PROVE FailingIsDisabled'
    BY <2>5, CancelWatched
  <2>4. ASSUME NEW r \in Requests, Handling(r), CutOff PROVE FailingIsDisabled'
    <3>1. CASE Counts(r) \/ Weighs(r) \/ Bans(r)
      BY <2>4, <3>1, CountsWatched, WeighsWatched, BansWatched
    <3>2. CASE ~(Counts(r) \/ Weighs(r) \/ Bans(r))
      <4>1. /\ caller[r].pc \notin {"weigh", "ban"} /\ UNCHANGED <<active, enabling>>
            /\ \A t \in Tokens : errors'[t] \in {errors[t], 0}
        BY <2>4, <3>2 DEF Handling, Check, Unit, Succeeds, Refused, RateLimited, TriesNext,
           AccountFails, Closes, At, accountVars, operatorVars, BalancerTypes, WorldFits
      <4>2. ~(At(r, "work") /\ At(r, "weigh")')
        BY <2>4, <3>2, OnlyCountsWeighs DEF At
      <4> QED BY <2>4, <4>1, <4>2, HandlingMoves, WatchersStay DEF Moved, BalancerTypes
    <3> QED BY <3>1, <3>2
  <2> QED BY <2>0, <2>1, <2>2, <2>3, <2>4, <2>5, OutsideWatched
          DEF BalancerNext, Environment, Outside
<1> QED BY <1>1, <1>2, TypesHold, PTL DEF BalancerSpec

----------------------------------------------------------------------------
(***************************************************************************)
(* Nobody is refused while an account is free: every account that was      *)
(* usable since the selection began is still to be tested, or a candidate. *)
(***************************************************************************)
Covered(r) ==
    LET c == caller[r]
    IN  /\ c.pc = "filter" => chance[r] \subseteq c.seen \cup Ids(c.cands)
        /\ c.pc \in {"walk", "reserve"} => chance[r] \subseteq Ids(c.queue)
        /\ c.pc \notin {"list", "filter", "walk", "reserve"} => chance[r] = {}

ChancesCovered == \A r \in Requests : Covered(r)

\* What Chances does to the account of one caller.
LEMMA ChanceShrinks ==
    ASSUME Chances, NEW r \in Requests
    PROVE  /\ chance'[r] \subseteq Usable(r)'
           /\ caller'[r].pc # "list" => chance'[r] \subseteq chance[r]
           /\ caller'[r].pc \notin {"list", "filter", "walk", "reserve", "refused"} =>
                 chance'[r] = {}
BY DEF Chances, At

LEMMA OthersCovered ==
    ASSUME ChancesCovered, Chances, NEW r \in Requests, caller'[r] = caller[r]
    PROVE  Covered(r)'
BY ChanceShrinks DEF ChancesCovered, Covered

LEMMA RankedIds ==
    ASSUME NEW cands, NEW preferred
    PROVE  Ids(Ranked(cands, preferred)) = Ids(cands)
<1> DEFINE Item(c) == [tok |-> c.tok,
                        rank |-> (IF c.stale THEN 2 ELSE 0) + (IF c \in preferred THEN 0 ELSE 1)]
<1>1. \A c \in cands : Item(c).tok = c.tok /\ Item(c) \in Ranked(cands, preferred)
  BY DEF Ranked
<1>2. \A e \in Ranked(cands, preferred) : \E c \in cands : e = Item(c)
  BY DEF Ranked
<1> HIDE DEF Item
<1> QED BY <1>1, <1>2 DEF Ids

LEMMA ListCovered ==
    ASSUME BalancerTypes, ChancesCovered, Chances, NEW r \in Requests, List(r)
    PROVE  Covered(r)'
<1> DEFINE c == caller[r]
<1>1. c \in Callers /\ active' = active
  BY DEF BalancerTypes, CallersFit, List, accountVars
<1>2. chance'[r] \subseteq active
  BY <1>1, ChanceShrinks DEF Usable
<1>3. CASE active = {}
  <2>1. caller'[r] = [c EXCEPT !.pc = "refused"]
    BY <1>3 DEF List, Goes, BalancerTypes, CallersFit
  <2> QED BY <1>1, <1>2, <1>3, <2>1 DEF Covered, Callers
<1>4. CASE active # {}
  <2>1. caller'[r] = [c EXCEPT !.pc = "filter", !.seen = active, !.due = active \cap stale]
    BY <1>4 DEF List, Goes, BalancerTypes, CallersFit
  <2> QED BY <1>1, <1>2, <1>4, <2>1 DEF Covered, Callers
<1> QED BY <1>3, <1>4

LEMMA FilterCovered ==
    ASSUME BalancerTypes, ChancesCovered, Chances, NEW r \in Requests,
           NEW t \in Tokens, Filter(r, t)
    PROVE  Covered(r)'
<1> DEFINE c == caller[r]
           ok == /\ t \notin c.tried /\ t \in funded /\ unfit[t] = "no"
                 /\ CanUse(SlotOf(r, t))
           item == [tok |-> t, busy |-> Busy(r, t), stale |-> t \in c.due]
           cands == IF ok THEN c.cands \cup {item} ELSE c.cands
           new == [c EXCEPT !.seen = @ \ {t}, !.cands = cands]
<1>1. c \in Callers /\ c.pc = "filter" /\ UNCHANGED <<slotVars, accountVars>>
  BY DEF BalancerTypes, CallersFit, Filter, At
<1>2. caller'[r] = new
  BY DEF Filter, Goes, BalancerTypes, CallersFit
<1>3. chance[r] \subseteq c.seen \cup Ids(c.cands)
  BY <1>1 DEF ChancesCovered, Covered
<1>4. t \in chance'[r] => ok
  <2>1. SUFFICES ASSUME t \in Usable(r)' PROVE ok
    BY ChanceShrinks
  <2>2. t \in funded' /\ t \notin caller'[r].tried /\ unfit'[t] = "no" /\ CanUse(SlotOf(r, t))'
    BY <2>1 DEF Usable
  <2>3. CanUse(SlotOf(r, t))' <=> CanUse(SlotOf(r, t))
    BY <1>1 DEF CanUse, InCooldown, EffectiveLimit, SlotOf, slotVars
  <2>4. caller'[r].tried = c.tried
    BY <1>1, <1>2 DEF Callers
  <2> QED BY <1>1, <2>2, <2>3, <2>4 DEF accountVars
<1>5. Ids(cands) = IF ok THEN Ids(c.cands) \cup {t} ELSE Ids(c.cands)
  <2>1. item.tok = t
    OBVIOUS
  <2> HIDE DEF item, ok
  <2> QED BY <2>1 DEF Ids
<1> HIDE DEF ok, item, cands
<1>6. new.pc = "filter" /\ new.seen = c.seen \ {t} /\ new.cands = cands
  BY <1>1 DEF Callers
<1>7. chance'[r] \subseteq chance[r]
  BY <1>2, <1>6, ChanceShrinks
<1> QED BY <1>2, <1>3, <1>4, <1>5, <1>6, <1>7 DEF Covered

LEMMA ArrangeCovered ==
    ASSUME BalancerTypes, ChancesCovered, Chances, NEW r \in Requests, Arrange(r)
    PROVE  Covered(r)'
<1> DEFINE c == caller[r]
<1>1. c \in Callers /\ c.pc = "filter" /\ chance[r] \subseteq Ids(c.cands)
  BY DEF BalancerTypes, CallersFit, Arrange, At, ChancesCovered, Covered
<1>2. CASE c.cands = {} /\ Goes(r, [c EXCEPT !.pc = "refused"])
  <2>1. caller'[r].pc = "refused"
    BY <1>1, <1>2 DEF Goes, BalancerTypes, CallersFit, Callers
  <2>2. chance[r] = {}
    BY <1>1, <1>2 DEF Ids
  <2> QED BY <2>1, <2>2, ChanceShrinks DEF Covered
<1>3. ASSUME NEW preferred \in SUBSET c.cands,
             Goes(r, [c EXCEPT !.pc = "walk", !.cands = {}, !.due = {},
                               !.queue = Ranked(c.cands, preferred)])
      PROVE  Covered(r)'
  <2> DEFINE queue == Ranked(c.cands, preferred)
  <2>1. caller'[r] = [c EXCEPT !.pc = "walk", !.cands = {}, !.due = {}, !.queue = queue]
    BY <1>3 DEF Goes, BalancerTypes, CallersFit
  <2>2. Ids(queue) = Ids(c.cands)
    BY RankedIds
  <2> HIDE DEF queue
  <2>3. caller'[r].pc = "walk" /\ caller'[r].queue = queue
    BY <1>1, <2>1 DEF Callers
  <2> QED BY <1>1, <2>2, <2>3, ChanceShrinks DEF Covered
<1>4. \/ c.cands = {} /\ Goes(r, [c EXCEPT !.pc = "refused"])
      \/ \E preferred \in SUBSET c.cands :
            Goes(r, [c EXCEPT !.pc = "walk", !.cands = {}, !.due = {},
                              !.queue = Ranked(c.cands, preferred)])
  BY DEF Arrange, Polled, Dense
<1> QED BY <1>2, <1>3, <1>4

\* A candidate may be dropped from the queue only when it is not usable.
LEMMA SkipCovered ==
    ASSUME BalancerTypes, ChancesCovered, Chances, NEW r \in Requests,
           caller[r].pc \in {"walk", "reserve"}, NEW item, item.tok \notin Usable(r)',
           NEW place \in {"walk", "reserve"},
           caller'[r].pc = place, caller'[r].queue = caller[r].queue \ {item}
    PROVE  Covered(r)'
<1>1. chance[r] \subseteq Ids(caller[r].queue)
  BY DEF ChancesCovered, Covered
<1>2. chance'[r] \subseteq chance[r] /\ item.tok \notin chance'[r]
  BY ChanceShrinks
<1>3. \A t \in Ids(caller[r].queue) : t # item.tok => t \in Ids(caller'[r].queue)
  BY DEF Ids
<1> QED BY <1>1, <1>2, <1>3 DEF Covered

LEMMA ValidateCovered ==
    ASSUME BalancerTypes, ChancesCovered, Chances, NEW r \in Requests, Validate(r)
    PROVE  Covered(r)'
<1> DEFINE c == caller[r]
<1>1. /\ c \in Callers /\ c.pc = "walk"
      /\ UNCHANGED <<active, broken, removed>>
  BY DEF BalancerTypes, CallersFit, Validate, At, slotVars
<1>2. PICK item \in c.queue :
         IF Valid(item.tok) THEN Goes(r, [c EXCEPT !.pc = "reserve"])
                            ELSE Goes(r, [c EXCEPT !.queue = @ \ {item}])
  BY DEF Validate
<1>3. CASE Valid(item.tok)
  <2>1. caller'[r].pc = "reserve" /\ caller'[r].queue = c.queue
    BY <1>1, <1>2, <1>3 DEF Goes, BalancerTypes, CallersFit, Callers
  <2> QED BY <1>1, <2>1, ChanceShrinks DEF ChancesCovered, Covered
<1>4. CASE ~Valid(item.tok)
  <2>1. caller'[r].pc = "walk" /\ caller'[r].queue = c.queue \ {item}
    BY <1>1, <1>2, <1>4 DEF Goes, BalancerTypes, CallersFit, Callers
  <2>2. item.tok \notin Usable(r)'
    BY <1>1, <1>4 DEF Valid, Usable, BalancerTypes, WorldFits
  <2> QED BY <1>1, <2>1, <2>2, SkipCovered
<1> QED BY <1>3, <1>4

LEMMA ReserveCovered ==
    ASSUME BalancerTypes, ChancesCovered, Chances, NEW r \in Requests, Reserve(r)
    PROVE  Covered(r)'
<1> DEFINE c == caller[r]
<1>1. c \in Callers /\ c.pc = "reserve"
  BY DEF BalancerTypes, CallersFit, Reserve, At
<1>2. PICK item \in c.queue :
         \/ Goes(r, [c EXCEPT !.pc = "ready", !.queue = {}, !.slot = item.tok])
         \/ /\ ~CanUse(SlotOf(r, item.tok))
            /\ Goes(r, [c EXCEPT !.pc = "walk", !.queue = @ \ {item}]) /\ UNCHANGED slotVars
  BY DEF Reserve
<1>3. CASE Goes(r, [c EXCEPT !.pc = "ready", !.queue = {}, !.slot = item.tok])
  <2>1. caller'[r].pc = "ready"
    BY <1>1, <1>3 DEF Goes, BalancerTypes, CallersFit, Callers
  <2> QED BY <2>1, ChanceShrinks DEF Covered
<1>4. CASE /\ ~CanUse(SlotOf(r, item.tok))
           /\ Goes(r, [c EXCEPT !.pc = "walk", !.queue = @ \ {item}]) /\ UNCHANGED slotVars
  <2>1. caller'[r].pc = "walk" /\ caller'[r].queue = c.queue \ {item} /\ UNCHANGED slotVars
    BY <1>1, <1>4 DEF Goes, BalancerTypes, CallersFit, Callers
  <2>2. ~CanUse(SlotOf(r, item.tok))'
    BY <1>4, <2>1 DEF CanUse, InCooldown, EffectiveLimit, SlotOf, slotVars
  <2>3. item.tok \notin Usable(r)'
    BY <2>2 DEF Usable
  <2> QED BY <1>1, <2>1, <2>3, SkipCovered
<1> QED BY <1>2, <1>3, <1>4

LEMMA SelectNamedCovered ==
    ASSUME BalancerTypes, ChancesCovered, Chances, NEW r \in Requests,
           SelectNamed(r) \/ NoCandidate(r)
    PROVE  Covered(r)'
<1> DEFINE c == caller[r]
<1>1. /\ c \in Callers /\ c.pc \in {"select", "walk"}
      /\ c.pc = "walk" => c.queue = {}
  BY DEF BalancerTypes, CallersFit, SelectNamed, NoCandidate, At
<1>2. chance[r] = {}
  BY <1>1 DEF ChancesCovered, Covered, Ids
<1>3. caller'[r].pc \in {"gap", "ready", "refused"}
  <2>1. ASSUME NEW place \in {"gap", "ready", "refused"}, NEW t,
               \/ Goes(r, [c EXCEPT !.slot = t, !.pc = place])
               \/ Goes(r, [c EXCEPT !.pc = place])
        PROVE  caller'[r].pc \in {"gap", "ready", "refused"}
    <3>1. \/ caller'[r] = [c EXCEPT !.slot = t, !.pc = place]
          \/ caller'[r] = [c EXCEPT !.pc = place]
      BY <2>1 DEF Goes, BalancerTypes, CallersFit
    <3> QED BY <1>1, <3>1 DEF Callers
  <2>2. CASE SelectNamed(r)
    BY <2>1, <2>2 DEF SelectNamed
  <2>3. CASE NoCandidate(r)
    BY <2>1, <2>3 DEF NoCandidate
  <2> QED BY <2>2, <2>3
<1> QED BY <1>2, <1>3, ChanceShrinks DEF Covered

\* The handlers end, or select again from the start.
LEMMA ElsewhereCovered ==
    ASSUME Chances, NEW r \in Requests,
           caller'[r].pc \notin {"filter", "walk", "reserve", "refused"}
    PROVE  Covered(r)'
BY ChanceShrinks DEF Covered

LEMMA HandlingElsewhere ==
    ASSUME BalancerTypes, NEW r \in Requests, Handling(r)
    PROVE  caller'[r].pc \notin {"filter", "walk", "reserve", "refused"}
<1> DEFINE c == caller[r]
           away == {"filter", "walk", "reserve", "refused"}
<1>1. c \in Callers /\ \A new : Goes(r, new) => caller'[r] = new
  BY DEF Goes, BalancerTypes, CallersFit
<1>2. ASSUME NEW place \in Places \ away, Goes(r, [c EXCEPT !.pc = place])
      PROVE  caller'[r].pc \notin away
  BY <1>1, <1>2 DEF Callers
<1>3. ASSUME Ends(r) PROVE caller'[r].pc \notin away
  <2>1. caller'[r] = [Over("none") EXCEPT !.slot = NoToken]
    BY <1>1, <1>3 DEF Ends, Leave
  <2> QED BY <2>1 DEF Over, Fresh
<1>4. ASSUME FailOver(r) PROVE caller'[r].pc \notin away
  <2> DEFINE again == [c EXCEPT !.pc = Entry(c.kind), !.tried = @ \cup {c.slot}]
  <2>1. again.pc = Entry(c.kind) /\ "slot" \in DOMAIN again /\ "pc" \in DOMAIN again
    BY <1>1 DEF Callers
  <2>2. caller'[r] = [again EXCEPT !.slot = NoToken]
    BY <1>1, <1>4 DEF FailOver, Leave
  <2> HIDE DEF again
  <2> QED BY <2>1, <2>2 DEF Entry
<1>5. CASE Check(r)
  BY <1>2, <1>3, <1>4, <1>5 DEF Check, GivesUpOn, Places
<1>6. CASE Unit(r)
  BY <1>2, <1>4, <1>6 DEF Unit, Places
<1>7. CASE Succeeds(r) \/ Refused(r) \/ Closes(r)
  BY <1>3, <1>7 DEF Succeeds, Refused, Closes
<1>8. CASE RateLimited(r) \/ Counts(r) \/ Bans(r)
  BY <1>2, <1>8 DEF RateLimited, Counts, Bans, Places
<1>9. CASE TriesNext(r) \/ AccountFails(r)
  BY <1>3, <1>4, <1>9 DEF TriesNext, AccountFails, GivesUpOn
<1>10. CASE Weighs(r)
  BY <1>2, <1>10 DEF Weighs, Places
<1> QED BY <1>5, <1>6, <1>7, <1>8, <1>9, <1>10 DEF Handling

LEMMA OtherwiseElsewhere ==
    ASSUME BalancerTypes, NEW r \in Requests,
           Arrive(r) \/ Cancel(r) \/ CancelInGap(r) \/ Progress(r) \/ Answer(r)
    PROVE  caller'[r].pc \notin {"filter", "walk", "reserve", "refused"}
<1>1. caller[r] \in Callers /\ \A new : Goes(r, new) => caller'[r] = new
  BY DEF Goes, BalancerTypes, CallersFit
<1>2. CASE Arrive(r)
  <2>1. PICK kind \in Kinds, t \in Tokens \cup {NoToken} : caller'[r] = [caller[r] EXCEPT !.kind = kind,
                                        !.pc = Entry(kind), !.target = t]
    BY <1>1, <1>2 DEF Arrive
  <2> QED BY <1>1, <2>1 DEF Entry, Callers
<1>3. CASE Progress(r)
  BY <1>1, <1>3 DEF Progress, Callers
<1>4. CASE Cancel(r) \/ CancelInGap(r) \/ Answer(r)
  <2>1. PICK reply : \/ Goes(r, Over(reply))
                     \/ Goes(r, [Over(reply) EXCEPT !.slot = NoToken])
    BY <1>4 DEF Cancel, CancelInGap, Answer, Ends, Leave
  <2>2. [Over(reply) EXCEPT !.slot = NoToken].pc = "done" /\ Over(reply).pc = "done"
    BY DEF Over, Fresh
  <2> QED BY <1>1, <2>1, <2>2
<1> QED BY <1>2, <1>3, <1>4

\* A step of one caller leaves the others where they are.
LEMMA OneMoves ==
    ASSUME BalancerTypes, NEW r \in Requests, Moved(r) \/ CancelInGap(r)
    PROVE  \A q \in Requests \ {r} : caller'[q] = caller[q]
BY DEF BalancerTypes, CallersFit, Moved, CancelInGap, Goes

\* A request of a client is told that there is no account only if no account
\* it had not yet tried was usable all through its selection, whatever other
\* requests took and whatever the operator changed meanwhile (select_token).
THEOREM RefusedOnlyWhenExhaustedHolds == BalancerSpec => []RefusedOnlyWhenExhausted
<1>1. BalancerInit => ChancesCovered
  BY DEF BalancerInit, ChancesCovered, Covered, Fresh
<1>2. BalancerTypes /\ ChancesCovered /\ [BalancerNext]_balancerVars => ChancesCovered'
  <2> SUFFICES ASSUME BalancerTypes, ChancesCovered, [BalancerNext]_balancerVars
               PROVE  ChancesCovered'
    OBVIOUS
  <2>1. CASE UNCHANGED balancerVars
    BY <2>1 DEF balancerVars, ChancesCovered, Covered
  <2>2. CASE BalancerNext
    <3>1. Chances
      BY <2>2 DEF BalancerNext
    <3>2. ASSUME NEW r \in Requests, Covered(r)',
                 \A q \in Requests \ {r} : caller'[q] = caller[q]
          PROVE  ChancesCovered'
      BY <3>1, <3>2, OthersCovered DEF ChancesCovered
    <3>3. ASSUME NEW r \in Requests, Selection(r) PROVE ChancesCovered'
      <4>1. Covered(r)'
        BY <3>1, <3>3, ListCovered, FilterCovered, ArrangeCovered, ValidateCovered,
           ReserveCovered, SelectNamedCovered, OtherwiseElsewhere, ElsewhereCovered
           DEF Selection
      <4> QED BY <3>2, <3>3, <4>1, SelectionMoves, OneMoves DEF BalancerTypes
    <3>4. ASSUME NEW r \in Requests, Handling(r) PROVE ChancesCovered'
      <4>1. Covered(r)'
        BY <3>1, <3>4, HandlingElsewhere, ElsewhereCovered
      <4> QED BY <3>2, <3>4, <4>1, HandlingMoves, OneMoves DEF BalancerTypes
    <3>5. ASSUME NEW r \in Requests, Arrive(r) \/ Cancel(r) \/ CancelInGap(r)
          PROVE  ChancesCovered'
      <4>1. Covered(r)'
        BY <3>1, <3>5, OtherwiseElsewhere, ElsewhereCovered
      <4> QED BY <3>2, <3>5, <4>1, ArriveMoves, CancelMoves, OneMoves DEF BalancerTypes
    <3>6. CASE Outside
      BY <3>1, <3>6, OutsideIsManagers, OthersCovered DEF ChancesCovered
    <3> QED BY <2>2, <3>3, <3>4, <3>5, <3>6 DEF BalancerNext, Environment, Outside
  <2> QED BY <2>1, <2>2
<1>3. ChancesCovered => RefusedOnlyWhenExhausted
  BY DEF ChancesCovered, Covered, RefusedOnlyWhenExhausted, At
<1> QED BY <1>1, <1>2, <1>3, TypesHold, PTL DEF BalancerSpec
=============================================================================
