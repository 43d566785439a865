--------------------------- MODULE WorkerDispatch ---------------------------
(***************************************************************************)
(* The dispatcher of the personal browser pool                             *)
(* (_PersonalBrowserPoolService in                                         *)
(* src/services/browser_captcha_personal.py): callers reserve one of a     *)
(* changing number of browsers, solve on it, and give it back; a caller    *)
(* that fails on one browser goes on to another.                           *)
(*                                                                         *)
(* A worker is known by its index, and so are its reservations.  When the  *)
(* pool shrinks and grows again an index names a new browser while a       *)
(* caller may still be at work on the old one; era counts the browsers an  *)
(* index has named.  The score that orders the browsers is left out: any   *)
(* browser that may be selected may also be the best.                      *)
(***************************************************************************)
EXTENDS Integers, FiniteSets

CONSTANTS Clients,     \* coroutines that ask for a browser
          Projects,    \* Flow projects, the keys of the affinity map
          ProjectOf,   \* the project each client works for
          NoAffinity,  \* clients that ignore the affinity (allow_affinity=False)
          MaxWorkers,  \* largest browser_count an operator configures
          Tabs,        \* resident tabs of one browser: its capacity
          MaxTries     \* 3 in the code

ASSUME DispatchAssumption ==
    /\ IsFiniteSet(Clients) /\ ProjectOf \in [Clients -> Projects]
    /\ MaxWorkers \in Nat \ {0} /\ Tabs \in Nat \ {0} /\ MaxTries \in Nat \ {0}

VARIABLES configured,  \* personal browser_count of the configuration
          alive,       \* len(_workers)
          era,         \* how many browsers each index has named
          blocked,     \* indexes whose browser restarts or cools down
          resv,        \* _worker_dispatch_reservations, 0 if absent
          affinity,    \* _project_worker_affinity, 0 if absent
          closing,     \* _closing
          solver,      \* the locals of each client
          resizes      \* history: changes of browser_count

workerVars == <<configured, alive, era, blocked, resv, affinity, closing, resizes>>
dispatchVars == <<workerVars, solver>>

----------------------------------------------------------------------------
Indexes == 1 .. MaxWorkers
Workers == 1 .. alive
Least(a, b) == IF a < b THEN a ELSE b

Nowhere == [pc |-> "idle", worker |-> 0, era |-> 0, tried |-> {}, left |-> 0]

\* The clients at work on the browser an index names now.
Holders(w) == {c \in Clients : solver[c].pc = "solving" /\ solver[c].worker = w
                                                        /\ solver[c].era = era[w]}

DispatchInit ==
    /\ configured \in Indexes
    /\ alive = 0
    /\ era = [w \in Indexes |-> 0]
    /\ blocked = {}
    /\ resv = [w \in Indexes |-> 0]
    /\ affinity = [p \in Projects |-> 0]
    /\ closing = FALSE
    /\ solver = [c \in Clients |-> Nowhere]
    /\ resizes = 0

----------------------------------------------------------------------------
\* The pool gets n browsers: surplus ones are closed, missing ones created,
\* and what is remembered about indexes that are gone is dropped.
SetSize(n) ==
    /\ alive' = n
    /\ era' = [w \in Indexes |-> IF w > alive /\ w <= n THEN era[w] + 1 ELSE era[w]]
    /\ blocked' = {w \in blocked : w <= alive /\ w <= n}
    /\ resv' = [w \in Indexes |-> IF w <= n THEN resv[w] ELSE 0]
    /\ affinity' = [p \in Projects |-> IF affinity[p] <= n THEN affinity[p] ELSE 0]

\* _ensure_workers: every operation of the pool begins with it.  The two locks
\* are FIFO, so a call that saw the pool open runs before close() does.
EnsureWorkers ==
    /\ IF closing THEN UNCHANGED <<alive, era, blocked, resv, affinity>>
                  ELSE SetSize(configured)
    /\ UNCHANGED <<configured, closing, resizes>>

\* The operator changes browser_count; the next call of the pool notices.
Resize ==
    /\ \E n \in Indexes \ {configured} : configured' = n
    /\ resizes' = resizes + 1
    /\ UNCHANGED <<alive, era, blocked, resv, affinity, closing, solver>>

\* _get_token_direct, _get_token_bundle_direct, refresh_session_token.
BeginSolve(c) ==
    /\ EnsureWorkers
    /\ solver' = [solver EXCEPT ![c] =
                    IF alive' = 0 THEN [Nowhere EXCEPT !.pc = "failed"]
                    ELSE [Nowhere EXCEPT !.pc = "acquire", !.left = Least(alive', MaxTries)]]

----------------------------------------------------------------------------
\* _resolve_worker_candidate_indexes without the browsers already tried.
Candidates(c) == Workers \ solver[c].tried

\* _worker_has_dispatch_capacity.
HasCapacity(w) == w \notin blocked /\ resv[w] < Tabs

Selectable(c) == {w \in Candidates(c) : HasCapacity(w)}

\* The browser of the client's project if it can be had, else any.
Eligible(c) ==
    LET preferred == affinity[ProjectOf[c]]
    IN IF c \notin NoAffinity /\ preferred \in Selectable(c) THEN {preferred}
                                                              ELSE Selectable(c)

\* An attempt is used up; the last one ends the call.
NextTry(c, tried) ==
    solver' = [solver EXCEPT ![c] =
                 IF solver[c].left = 1 THEN [Nowhere EXCEPT !.pc = "failed"]
                 ELSE [Nowhere EXCEPT !.pc = "acquire", !.tried = tried,
                                      !.left = solver[c].left - 1]]

\* _acquire_worker: until a browser can be selected it waits, without limit.
Acquire(c) ==
    /\ solver[c].pc = "acquire" /\ ~closing
    /\ \E w \in Eligible(c) :
          /\ resv' = [resv EXCEPT ![w] = @ + 1]
          /\ affinity' = [affinity EXCEPT ![ProjectOf[c]] = w]
          /\ solver' = [solver EXCEPT ![c].pc = "solving", ![c].worker = w,
                                      ![c].era = era[w], ![c].tried = @ \cup {w}]
    /\ UNCHANGED <<configured, alive, era, blocked, closing, resizes>>

\* The pool closes, or every browser was tried: RuntimeError.
AcquireRaises(c) ==
    /\ solver[c].pc = "acquire"
    /\ closing \/ Candidates(c) = {}
    /\ NextTry(c, solver[c].tried)
    /\ UNCHANGED workerVars

----------------------------------------------------------------------------
\* Mutant of GiveBack: a reservation is given back only by a success.
GiveBackNothing(w) == UNCHANGED resv

\* _release_worker_reservation: by index, whatever browser it names by now.
GiveBack(w) == resv' = [resv EXCEPT ![w] = IF @ <= 1 THEN 0 ELSE @ - 1]

Onlookers == <<configured, alive, era, blocked, closing, resizes>>

\* A token.  Only some callers have the affinity remembered for them again.
SolveOk(c) ==
    /\ solver[c].pc = "solving"
    /\ GiveBack(solver[c].worker)
    /\ affinity' = IF c \notin NoAffinity /\ solver[c].worker \in Workers
                   THEN [affinity EXCEPT ![ProjectOf[c]] = solver[c].worker]
                   ELSE affinity
    /\ solver' = [solver EXCEPT ![c] = [Nowhere EXCEPT !.pc = "solved"]]
    /\ UNCHANGED Onlookers

\* An exception or an empty token: on to another browser.
SolveFails(c) ==
    /\ solver[c].pc = "solving"
    /\ GiveBack(solver[c].worker)
    /\ NextTry(c, solver[c].tried)
    /\ UNCHANGED <<Onlookers, affinity>>

\* The client is cancelled; finally gives the browser back.
SolveCancelled(c) ==
    /\ solver[c].pc \in {"acquire", "solving"}
    /\ IF solver[c].pc = "solving" THEN GiveBack(solver[c].worker) ELSE UNCHANGED resv
    /\ solver' = [solver EXCEPT ![c] = [Nowhere EXCEPT !.pc = "failed"]]
    /\ UNCHANGED <<Onlookers, affinity>>

\* A browser restarts with a fresh profile, or cools down after a failed
\* launch; in the end it is usable again.
Block(w) ==
    /\ w \in Workers \ blocked
    /\ blocked' = blocked \cup {w}
    /\ UNCHANGED <<configured, alive, era, resv, affinity, closing, resizes, solver>>

Unblock(w) ==
    /\ w \in blocked
    /\ blocked' = blocked \ {w}
    /\ UNCHANGED <<configured, alive, era, resv, affinity, closing, resizes, solver>>

\* close(), first half: the pool forgets its browsers.
CloseWorkers ==
    /\ ~closing
    /\ closing' = TRUE
    /\ alive' = 0
    /\ blocked' = {}
    /\ resv' = [w \in Indexes |-> 0]
    /\ affinity' = [p \in Projects |-> 0]
    /\ UNCHANGED <<configured, era, resizes>>

----------------------------------------------------------------------------
\* A browser never looks busy on account of callers that are gone: every
\* reservation belongs to a caller at work on the very browser, through
\* failures, cancellations and changes of the pool's size.
ReservationsAreHeld == \A w \in Indexes : resv[w] <= Cardinality(Holders(w))

=============================================================================
