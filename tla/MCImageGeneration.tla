-------------------------- MODULE MCImageGeneration -------------------------
(* ImageGeneration for TLC.  Two requests meet, which may as well arrive in *)
(* order: r1 and r2 carry the same key, r3 carries another.  Where clients  *)
(* leave and the process dies there are two accounts with one slot each;    *)
(* otherwise there is one account with two slots, which may be deleted or   *)
(* have its balance replaced while r2 arrives, or for which r3 competes     *)
(* while no call fails.                                                       *)
EXTENDS ImageGeneration

CONSTANTS r1, r2, r3, k1, k2, t1, t2

MCKeyOf == [r \in Requests |-> IF r = r3 THEN k2 ELSE k1]
NoExplicitLimit == -1
OneAccount == "cancel" \notin scenario
Second == IF scenario = {} THEN r3 ELSE r2

MCInit ==
    /\ HandlerInit
    /\ \A s \in CM!Slots : limits[s] = IF OneAccount THEN NoCeiling ELSE 1
    /\ OneAccount => credits[t2] = 0
    /\ payer[k1] = t1  \* no rows yet: never read

MCNext ==
    /\ Next
    /\ \A r \in Requests \ {r1} :
          req'[r].pc # "idle" => r = Second /\ req'[r1].pc # "idle"
    /\ scenario = {} => \A r \in Requests : req'[r].pc # "raised"
    /\ OneAccount => t2 \in accounts' /\ t2 \notin overwritten'

MCSpec == MCInit /\ [][MCNext]_handlerVars
MCFairSpec == MCSpec /\ Fairness
=============================================================================
