--------------------------- MODULE MCLoadBalancer ---------------------------
(* Two accounts, the first with a single slot, and two requests.  The      *)
(* requests are alike, so they may as well arrive in order; tests name the *)
(* first account.                                                          *)
EXTENDS LoadBalancer

CONSTANTS r1, r2

MCNoCeiling == -1
MCMediumOf == [r \in Requests |-> CHOOSE m \in Media : TRUE]

MCInit ==
    /\ BalancerInit
    /\ unfit[1] = "no"
    /\ \A s \in Slots : limits[s] = (IF s[1] = 1 THEN 1 ELSE NoCeiling)

MCArrivals ==
    /\ At(r1, "idle")' => At(r2, "idle")'
    /\ \A r \in Requests : caller'[r].target \in {NoToken, 1}

MCNext == BalancerNext /\ MCArrivals

MCSpec == MCInit /\ [][MCNext]_balancerVars
=============================================================================
