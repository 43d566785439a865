----------------------------- MODULE KeyPromise -----------------------------
(***************************************************************************)
(* What an idempotency key promises to whoever uses it, without accounts,  *)
(* slots, quota or storage: its work is taken on by the upstream at most   *)
(* once, its outcome is decided once, it is not declared refused when the  *)
(* work was taken on, nor delivered when it was not, and a doubt is final. *)
(* ImageGeneration and VideoGeneration implement it for each of their      *)
(* keys.                                                                   *)
(***************************************************************************)
EXTENDS Integers

VARIABLES outcome,  \* what is known about the key
          work      \* how often the upstream took its work on

Outcomes == {"new", "open", "delivered", "refused", "unsure"}

PromiseInit == outcome = "new" /\ work = 0

Open ==
    /\ outcome = "new" /\ outcome' = "open"
    /\ UNCHANGED work

TakeOn ==
    /\ outcome = "open" /\ work = 0 /\ work' = 1
    /\ UNCHANGED outcome

Deliver ==
    /\ outcome = "open" /\ work = 1 /\ outcome' = "delivered"
    /\ UNCHANGED work

Refuse ==
    /\ outcome = "open" /\ work = 0 /\ outcome' = "refused"
    /\ UNCHANGED work

\* The upstream itself reports that the work it took on came to nothing.
TurnDown ==
    /\ outcome \in {"open", "unsure"} /\ work = 1 /\ work' = 0
    /\ UNCHANGED outcome

\* The caller went away while the upstream may just have taken the work on.
Doubt ==
    /\ outcome = "open" /\ outcome' = "unsure"
    /\ work' \in {work, 1}

PromiseNext == Open \/ TakeOn \/ Deliver \/ Refuse \/ TurnDown \/ Doubt

promiseVars == <<outcome, work>>

PromiseSpec == PromiseInit /\ [][PromiseNext]_promiseVars
=============================================================================
