----------------------------- MODULE TokenPool -----------------------------
(***************************************************************************)
(* The token pool of _PersonalBrowserPoolService                           *)
(* (src/services/browser_captcha_personal.py) on top of its dispatcher:    *)
(* captcha tokens are solved ahead of need and kept in buckets, one per    *)
(* kind of work; a request that finds its bucket empty sleeps on the       *)
(* bucket's condition while refill tasks solve for it.                     *)
(*                                                                         *)
(* Every block under _token_pool_lock is one step.  Leases of a bucket all *)
(* live equally long and leave in the order they came, so a bucket is two  *)
(* numbers: leases that ran out and are not noticed yet, and good ones.    *)
(***************************************************************************)
EXTENDS WorkerDispatch, FiniteSetsExt

CONSTANTS Requests,     \* get_token_with_metadata and get_token_bundle calls
          Refills,      \* refill tasks that exist at once: a bound
          Buckets,      \* IMAGE_GENERATION, VIDEO_GENERATION
          BucketOf,     \* the bucket each request asks for
          Seeded,       \* buckets of token_pool_seed_project_id
          NoBucket,
          MaxTarget,    \* largest token_pool_size an operator configures
          Parallelism,  \* _get_token_pool_refill_parallelism
          MaxEvents     \* bound: changes of the settings and leases that run out

ASSUME PoolAssumption ==
    /\ Clients = Requests \cup Refills /\ Requests \cap Refills = {}
    /\ NoAffinity = Refills
    /\ BucketOf \in [Requests -> Buckets] /\ Seeded \subseteq Buckets
    /\ NoBucket \notin Buckets
    /\ MaxTarget \in Nat \ {0} /\ Parallelism \in Nat \ {0}

VARIABLES enabled,     \* config.token_pool_enabled
          target,      \* _get_token_pool_bucket_target_size per bucket
          maintainer,  \* the maintainer loop runs
          meta,        \* buckets in _token_pool_bucket_meta: they have a condition
          stock,       \* _token_pool_queues
          waiting,     \* _token_pool_waiters
          inflight,    \* _token_pool_refill_inflight
          asker,       \* where each request is
          refill,      \* where each refill task is
          toggles,     \* history: changes of the pool's settings
          expiries     \* history: leases that ran out

settingVars == <<enabled, target, toggles>>
bucketVars == <<meta, stock, waiting, inflight>>
poolVars == <<settingVars, bucketVars, maintainer, asker, refill, expiries>>
vars == <<dispatchVars, poolVars>>

----------------------------------------------------------------------------
Empty == [stale |-> 0, good |-> 0]
Dormant == [pc |-> "idle", bucket |-> NoBucket]
Asking(where) == [pc |-> where, got |-> FALSE]

\* Requests between their waiters += 1 and their waiters -= 1.
Counted == {"maintain", "try", "asleep", "stranded", "leave"}

Init ==
    /\ DispatchInit
    /\ enabled = TRUE
    /\ target \in [Buckets -> 1 .. MaxTarget]
    /\ maintainer = FALSE
    /\ meta = {}
    /\ stock = [b \in Buckets |-> Empty]
    /\ waiting = [b \in Buckets |-> 0]
    /\ inflight = [b \in Buckets |-> 0]
    /\ asker = [r \in Requests |-> Asking("idle")]
    /\ refill = [f \in Refills |-> Dormant]
    /\ toggles = 0
    /\ expiries = 0

----------------------------------------------------------------------------
\* A sleeper whose condition is dropped is woken by nobody any more.
Strand(a, gone) ==
    [r \in Requests |->
        IF a[r].pc = "asleep" /\ BucketOf[r] \in gone THEN Asking("stranded") ELSE a[r]]

\* condition.notify_all().
Wake(a, b) ==
    [r \in Requests |->
        IF a[r].pc = "asleep" /\ BucketOf[r] = b THEN Asking("maintain") ELSE a[r]]

\* _cleanup_token_pool_bucket_locked, given the bucket's counters.
Unused(b, queue, running, waiters) == queue = Empty /\ running = 0 /\ waiters = 0

\* The pool is off: everything it knows is dropped, conditions included.
Forget(a) ==
    /\ meta' = {}
    /\ stock' = [b \in Buckets |-> Empty]
    /\ waiting' = [b \in Buckets |-> 0]
    /\ inflight' = [b \in Buckets |-> 0]
    /\ asker' = Strand(a, Buckets)

\* What the buckets have of a counter together.
Total(counter) == MapThenSumSet(LAMBDA b : counter[b], Buckets)

\* Buckets nobody has used for long are dropped, and those whose target is now
\* zero emptied; the others get refill tasks, in any order, until every bucket
\* has enough or all refills allowed at once are running.
Replenish(a, tasks) ==
    LET known == meta \cup {b \in Seeded : target[b] > 0}
        off == {b \in known : target[b] = 0}
        unused == {b \in known : stock[b].good = 0 /\ inflight[b] = 0 /\ waiting[b] = 0}
        need == [b \in Buckets |->
                    IF b \in known \ off /\ target[b] > stock[b].good + inflight[b]
                    THEN target[b] - stock[b].good - inflight[b] ELSE 0]
        free == {f \in Refills : tasks[f].pc = "idle"}
        room == Parallelism - Total(inflight)
    IN \E old \in SUBSET (unused \ Seeded), jobs \in [free -> Buckets \cup {NoBucket}] :
          LET gone == old \cup {b \in off : inflight[b] = 0 /\ waiting[b] = 0}
              given == [b \in Buckets |-> Cardinality({f \in free : jobs[f] = b})]
              total == Total(given)
              asked == Total([b \in Buckets |-> IF b \in gone THEN 0 ELSE need[b]])
          IN /\ \A b \in Buckets : given[b] <= need[b] /\ (b \in gone => given[b] = 0)
             /\ total = Least(Cardinality(free), Least(asked, IF room > 0 THEN room ELSE 0))
             /\ meta' = known \ gone
             /\ stock' = [b \in Buckets |->
                            [stale |-> 0, good |-> IF b \in off THEN 0 ELSE stock[b].good]]
             /\ inflight' = [b \in Buckets |-> inflight[b] + given[b]]
             /\ refill' = [f \in Refills |->
                             IF f \in free /\ jobs[f] # NoBucket
                             THEN [pc |-> "spawned", bucket |-> jobs[f]] ELSE tasks[f]]
             /\ asker' = Strand(a, gone)
             /\ UNCHANGED waiting

\* _maintain_token_pool_once, called with requests at a and refills at tasks.
Maintain(a, tasks) ==
    IF closing \/ ~enabled
    THEN Forget(a) /\ refill' = tasks
    ELSE Replenish(a, tasks)

\* The maintainer loop, once a second; calls of _ensure_workers do the same.
Tick ==
    /\ maintainer /\ ~closing
    /\ Maintain(asker, refill)
    /\ UNCHANGED <<dispatchVars, settingVars, maintainer, expiries>>

----------------------------------------------------------------------------
\* The browser that solved the lease, as far as its index still names one.
Remember(r) ==
    \E w \in Workers \cup {0} :
        affinity' = IF w = 0 THEN affinity ELSE [affinity EXCEPT ![ProjectOf[r]] = w]

ServedTheirAffinity == <<configured, alive, era, blocked, resv, closing, resizes, solver>>

\* The pool is off, or keeps nothing for this work: solved there and then.
AskDirect(r) ==
    /\ asker[r].pc = "idle"
    /\ ~enabled \/ target[BucketOf[r]] = 0
    /\ BeginSolve(r)
    /\ maintainer' = (enabled /\ ~closing)
    /\ asker' = [asker EXCEPT ![r] = Asking("direct")]
    /\ UNCHANGED <<settingVars, bucketVars, refill, expiries>>

PoolKeeps(r) == asker[r].pc = "idle" /\ enabled /\ target[BucketOf[r]] > 0

AskClosing(r) ==
    /\ PoolKeeps(r) /\ closing
    /\ asker' = [asker EXCEPT ![r] = Asking("gone")]
    /\ UNCHANGED <<dispatchVars, settingVars, bucketVars, maintainer, refill, expiries>>

\* Leases that ran out are dropped first.
Pop(b) == stock' = [stock EXCEPT ![b] = [stale |-> 0, good |-> @.good - 1]]
Prune(b) == stock' = [stock EXCEPT ![b].stale = 0]

\* A lease was ready.
AskServed(r) ==
    /\ PoolKeeps(r) /\ ~closing
    /\ stock[BucketOf[r]].good > 0
    /\ Pop(BucketOf[r])
    /\ meta' = meta \cup {BucketOf[r]}
    /\ Remember(r)
    /\ asker' = [asker EXCEPT ![r] = Asking("served")]
    /\ UNCHANGED <<ServedTheirAffinity, settingVars, waiting, inflight, maintainer,
                   refill, expiries>>

\* None was: the request is counted and sees to it that the pool is maintained.
AskWaits(r) ==
    /\ PoolKeeps(r) /\ ~closing
    /\ stock[BucketOf[r]].good = 0
    /\ Prune(BucketOf[r])
    /\ meta' = meta \cup {BucketOf[r]}
    /\ waiting' = [waiting EXCEPT ![BucketOf[r]] = @ + 1]
    /\ maintainer' = TRUE
    /\ asker' = [asker EXCEPT ![r] = Asking("maintain")]
    /\ UNCHANGED <<dispatchVars, settingVars, inflight, refill, expiries>>

\* Before every look at its bucket a waiter maintains the pool itself.
WaiterMaintains(r) ==
    /\ asker[r].pc = "maintain"
    /\ Maintain([asker EXCEPT ![r] = Asking("try")], refill)
    /\ UNCHANGED <<dispatchVars, settingVars, maintainer, expiries>>

TryServed(r) ==
    /\ asker[r].pc = "try"
    /\ stock[BucketOf[r]].good > 0
    /\ Pop(BucketOf[r])
    /\ meta' = meta \cup {BucketOf[r]}
    /\ asker' = [asker EXCEPT ![r] = [pc |-> "leave", got |-> TRUE]]
    /\ UNCHANGED <<dispatchVars, settingVars, waiting, inflight, maintainer, refill, expiries>>

TrySleeps(r) ==
    /\ asker[r].pc = "try"
    /\ stock[BucketOf[r]].good = 0
    /\ Prune(BucketOf[r])
    /\ meta' = meta \cup {BucketOf[r]}
    /\ asker' = [asker EXCEPT ![r] = Asking("asleep")]
    /\ UNCHANGED <<dispatchVars, settingVars, waiting, inflight, maintainer, refill, expiries>>

\* The deadline passes, or the client goes away.
GiveUp(r) ==
    /\ asker[r].pc \in {"maintain", "try", "asleep", "stranded"}
    /\ asker' = [asker EXCEPT ![r] = Asking("leave")]
    /\ UNCHANGED <<dispatchVars, settingVars, bucketVars, maintainer, refill, expiries>>

----------------------------------------------------------------------------
\* A bucket's counter goes down, never below zero, and a bucket that is not
\* used any more is dropped.
CountDown(n) == IF n <= 1 THEN 0 ELSE n - 1

Drop(b, a) ==
    LET unused == Unused(b, stock[b], inflight'[b], waiting'[b])
    IN /\ meta' = IF unused THEN meta \ {b} ELSE meta
       /\ asker' = IF unused THEN Strand(a, {b}) ELSE a

\* The finally of _wait_for_token_pool_token.
Leave(r) ==
    LET b == BucketOf[r]
    IN /\ asker[r].pc = "leave"
       /\ waiting' = [waiting EXCEPT ![b] = CountDown(@)]
       /\ UNCHANGED <<stock, inflight>>
       /\ Drop(b, [asker EXCEPT ![r] = Asking(IF @.got THEN "served" ELSE "gone")])
       /\ IF asker[r].got THEN Remember(r) ELSE UNCHANGED affinity
       /\ UNCHANGED <<ServedTheirAffinity, settingVars, maintainer, refill, expiries>>

----------------------------------------------------------------------------
\* _token_pool_refill_once: solve on any browser ...
RefillBegins(f) ==
    /\ refill[f].pc = "spawned"
    /\ BeginSolve(f)
    /\ maintainer' = IF closing THEN maintainer ELSE enabled
    /\ refill' = [refill EXCEPT ![f].pc = "solving"]
    /\ UNCHANGED <<settingVars, bucketVars, asker, expiries>>

RefillFailed(f) ==
    /\ refill[f].pc = "solving" /\ solver[f].pc = "failed"
    /\ refill' = [refill EXCEPT ![f].pc = "finish"]
    /\ UNCHANGED <<dispatchVars, settingVars, bucketVars, maintainer, asker, expiries>>

Keeps(b) == b \in meta /\ enabled /\ stock[b].good < target[b]

\* ... put the token into the bucket if the bucket still wants it ...
Deposit(f) ==
    LET b == refill[f].bucket
    IN /\ refill[f].pc = "solving" /\ solver[f].pc = "solved"
       /\ IF Keeps(b)
          THEN /\ stock' = [stock EXCEPT ![b] = [stale |-> 0, good |-> @.good + 1]]
               /\ asker' = Wake(asker, b)
          ELSE /\ IF b \in meta /\ enabled THEN Prune(b) ELSE UNCHANGED stock
               /\ UNCHANGED asker
       /\ refill' = [refill EXCEPT ![f].pc = "finish"]
       /\ UNCHANGED <<dispatchVars, settingVars, meta, waiting, inflight, maintainer, expiries>>

\* Mutant of Finish: the refill is counted off only if it brought a token.
FinishIfSolved(f) ==
    LET b == refill[f].bucket
    IN /\ refill[f].pc = "finish"
       /\ inflight' = IF solver[f].pc = "solved" THEN [inflight EXCEPT ![b] = CountDown(@)]
                                                 ELSE inflight
       /\ UNCHANGED <<stock, waiting>>
       /\ Drop(b, Wake(asker, b))
       /\ refill' = [refill EXCEPT ![f] = IF closing THEN Dormant ELSE [@ EXCEPT !.pc = "maintain"]]
       /\ solver' = [solver EXCEPT ![f] = Nowhere]
       /\ UNCHANGED <<workerVars, settingVars, maintainer, expiries>>

\* ... count the refill off, wake everyone, and maintain the pool.
Finish(f) ==
    LET b == refill[f].bucket
    IN /\ refill[f].pc = "finish"
       /\ inflight' = [inflight EXCEPT ![b] = CountDown(@)]
       /\ UNCHANGED <<stock, waiting>>
       /\ Drop(b, Wake(asker, b))
       /\ refill' = [refill EXCEPT ![f] = IF closing THEN Dormant ELSE [@ EXCEPT !.pc = "maintain"]]
       /\ solver' = [solver EXCEPT ![f] = Nowhere]
       /\ UNCHANGED <<workerVars, settingVars, maintainer, expiries>>

RefillMaintains(f) ==
    /\ refill[f].pc = "maintain"
    /\ Maintain(asker, [refill EXCEPT ![f] = Dormant])
    /\ UNCHANGED <<dispatchVars, settingVars, maintainer, expiries>>

----------------------------------------------------------------------------
Eventful == toggles + resizes + expiries < MaxEvents

\* A lease lives token_pool_ttl_seconds.
Expire(b) ==
    /\ stock[b].good > 0 /\ Eventful
    /\ stock' = [stock EXCEPT ![b] = [stale |-> @.stale + 1, good |-> @.good - 1]]
    /\ expiries' = expiries + 1
    /\ UNCHANGED <<dispatchVars, settingVars, meta, waiting, inflight, maintainer, asker, refill>>

\* The operator switches the pool or changes the size of a bucket.
Toggle ==
    /\ Eventful
    /\ \/ enabled' = ~enabled /\ UNCHANGED target
       \/ /\ \E b \in Buckets, n \in 0 .. MaxTarget :
                target[b] # n /\ target' = [target EXCEPT ![b] = n]
          /\ UNCHANGED enabled
    /\ toggles' = toggles + 1
    /\ UNCHANGED <<dispatchVars, bucketVars, maintainer, asker, refill, expiries>>

\* close(): the refill tasks are cancelled; one that never ran just ends.
Close ==
    /\ CloseWorkers
    /\ Forget(asker)
    /\ refill' = [f \in Refills |-> CASE refill[f].pc = "solving" -> [refill[f] EXCEPT !.pc = "finish"]
                                      [] refill[f].pc = "finish" -> refill[f]
                                      [] OTHER -> Dormant]
    /\ solver' = [c \in Clients |-> IF c \in Refills THEN Nowhere ELSE solver[c]]
    /\ maintainer' = FALSE
    /\ UNCHANGED <<settingVars, expiries>>

\* What the dispatcher does by itself.
Dispatch ==
    /\ \/ \E c \in Clients : \/ Acquire(c) \/ AcquireRaises(c)
                             \/ SolveOk(c) \/ SolveFails(c)
       \/ \E r \in Requests : SolveCancelled(r)
       \/ \E w \in Indexes : Block(w) \/ Unblock(w)
       \/ Eventful /\ Resize
    /\ UNCHANGED poolVars

Next ==
    \/ Dispatch
    \/ Tick \/ Toggle \/ Close
    \/ \E b \in Buckets : Expire(b)
    \/ \E r \in Requests : \/ AskDirect(r) \/ AskClosing(r) \/ AskServed(r) \/ AskWaits(r)
                           \/ WaiterMaintains(r) \/ TryServed(r) \/ TrySleeps(r)
                           \/ GiveUp(r) \/ Leave(r)
    \/ \E f \in Refills : \/ RefillBegins(f) \/ RefillFailed(f) \/ Deposit(f)
                          \/ Finish(f) \/ RefillMaintains(f)

Spec == Init /\ [][Next]_vars

\* Waiters and refill tasks that can run do, and browsers recover.  The
\* dispatcher's condition is FIFO and polled every quarter of a second, and
\* solving is not always in vain: both are strongly fair.  Nothing is assumed
\* of the callers that solve by themselves.
PoolFairness ==
    /\ WF_vars(Tick)
    /\ \A r \in Requests : WF_vars(WaiterMaintains(r) \/ TryServed(r) \/ TrySleeps(r) \/ Leave(r))
    /\ \A f \in Refills :
          /\ WF_vars(\/ RefillBegins(f) \/ RefillFailed(f) \/ Deposit(f)
                     \/ Finish(f) \/ RefillMaintains(f)
                     \/ AcquireRaises(f) /\ UNCHANGED poolVars)
          /\ SF_vars(Acquire(f) /\ UNCHANGED poolVars)
          /\ SF_vars(SolveOk(f) /\ UNCHANGED poolVars)
    /\ \A w \in Indexes : WF_vars(Unblock(w) /\ UNCHANGED poolVars)

----------------------------------------------------------------------------
\* A request that waits does not need its deadline: it gets a lease, unless
\* the operator touches the settings or the service closes.
WaitersAreServed ==
    \A r \in Requests :
        asker[r].pc \in Counted ~> asker[r].pc \notin Counted \/ toggles > 0 \/ closing
=============================================================================
