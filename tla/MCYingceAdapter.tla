--------------------------- MODULE MCYingceAdapter ---------------------------
EXTENDS YingceAdapter

\* Either all the tasks are used and nothing disturbs the process, or one task
\* is left over and the timeout changes or the process restarts, once.
MCBound ==
    /\ changes' + restarts' <= 1
    /\ (\A v \in Videos : request'[v] # Unused) => changes' + restarts' = 0

MCNext == Next /\ MCBound
MCSpec == Init /\ [][MCNext]_vars
MCFairSpec == MCSpec /\ Fairness
=============================================================================
