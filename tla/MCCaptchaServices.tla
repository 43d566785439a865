-------------------------- MODULE MCCaptchaServices --------------------------
(***************************************************************************)
(* The token pool and the extension's route, which share no state: a       *)
(* behaviour is of one of them, and the other stays where it begins.       *)
(*                                                                         *)
(* The pool: two requests and a refill task share a bucket and up to two   *)
(* browsers; once, the operator resizes the pool or changes its settings,  *)
(* or a lease ends.                                                        *)
(*                                                                         *)
(* The route: two handles for different instances, two browsers, one       *)
(* caller and three sockets.  A second handle, with which a browser pairs  *)
(* anew, meets neither a request nor a revocation nor a second browser,    *)
(* and a second browser meets no request.  A browser begins an exchange    *)
(* when its calls of connectWS have come to an end.                        *)
(***************************************************************************)
EXTENDS TokenPool, ExtensionCaptcha

VARIABLE part  \* the component that moves

CONSTANTS r1, r2

MCClients == Requests \cup Refills
MCProjectOf == [c \in Clients |-> "p"]
MCBucketOf == [r \in Requests |-> "image"]

\* Both requests ask for the same: which begins first does not matter.
InOrder == asker[r2].pc # "idle" => asker[r1].pc # "idle"

\* A change of the settings meets no browser that restarts or cools down.
Settled == toggles > 0 => blocked = {}

CONSTANTS h1, h2, i1, i2, b1, b2

MCInstanceOf == h1 :> i1 @@ h2 :> i2
MCRouteOf == [c \in Callers |-> i1]

Pairs(b) == browser[b].pairing # NoOne \/ browser[b].session # NoOne
Begins(b) == browser[b].pairing = NoOne /\ browser'[b].pairing # NoOne

NoRequest == \A c \in Callers : call[c].pc = "idle"

Apart ==
    /\ issued = Handles => NoRequest /\ revoking = NoOne /\ revoked = {}
    /\ \A b, d \in Browsers :
          b # d /\ Pairs(b) /\ Pairs(d) => issued # Handles /\ NoRequest

\* Which of the browsers pairs first does not matter.
OneAfterAnother ==
    /\ \A b \in Browsers : Begins(b) => browser[b].dialling = <<>>
    /\ Begins(b2) => Pairs(b1)

\* Where each begins, no step is due that fairness asks for.
MCInit ==
    /\ part \in {"pool", "route"}
    /\ Init /\ (part = "route" => configured = 1)
    /\ RouteInit
MCNext ==
    /\ \/ part = "pool" /\ Next /\ InOrder' /\ Settled' /\ UNCHANGED extVars
       \/ part = "route" /\ RouteNext /\ Apart' /\ OneAfterAnother /\ UNCHANGED vars
    /\ UNCHANGED part
MCSpec == MCInit /\ [][MCNext]_<<vars, extVars, part>>
MCFairSpec == MCSpec /\ PoolFairness /\ Fairness
=============================================================================
