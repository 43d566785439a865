---------------------------- MODULE MCHeadedPool ----------------------------
(* Two requests compete for one slot, or one request uses two slots.        *)
EXTENDS HeadedPool
CONSTANTS r1, r2
MCKindsOf == [r \in ServiceCalls |-> IF r = r1 THEN {"token"} ELSE {"submit", "custom"}]
MCTokenOf == [r \in ServiceCalls |-> IF r = r1 THEN "a" ELSE "b"]

\* The second request comes only if there has always been one slot; with two
\* slots, two disturbances are a shrinking of the pool and its growing again.
OneSlot == \A g \in DOMAIN service' : service'[g] = 1
MCBound == \/ OneSlot
           \/ actor'[r2].pc = "idle" /\ (events' < 2 \/ service' = <<2, 1, 2>>)
MCNext == HeadedNext /\ MCBound
MCSpec == HeadedInit /\ [][MCNext]_headedVars
MCFairSpec == MCSpec /\ HeadedFairness

\* The only disturbance is an administrator who changes the number of slots.
ResizeNext == HeadedNext /\ (events' # events => count' # count)
ResizeSpec == HeadedInit /\ [][ResizeNext]_headedVars
=============================================================================
