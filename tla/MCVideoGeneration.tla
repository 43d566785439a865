-------------------------- MODULE MCVideoGeneration -------------------------
(* VideoGeneration for TLC.  r1 and r2 carry the same key; they are alike,  *)
(* so they may as well arrive in order.  Where clients leave there are two  *)
(* accounts with one slot each and one crash; where pollers give up there   *)
(* is one account with two slots and the process may die twice.             *)
EXTENDS VideoGeneration

CONSTANTS r1, r2, k1, t1, t2

SameKey == [r \in Requests |-> k1]
NoExplicitLimit == -1
OneAccount == "giveUp" \in scenario

MCInit ==
    /\ Init
    /\ \A s \in CM!Slots : limits[s] = IF OneAccount THEN NoCeiling ELSE 1
    /\ OneAccount => credits[t2] = 0
    /\ payer[k1] = t1  \* no rows yet: never read

MCNext ==
    /\ Next
    /\ req'[r2].pc # "idle" => req'[r1].pc # "idle"
    /\ ~OneAccount => crashes' < MaxCrashes

MCSpec == MCInit /\ [][MCNext]_vars
MCFairSpec == MCSpec /\ Fairness
=============================================================================
