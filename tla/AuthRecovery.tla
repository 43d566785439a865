---------------------------- MODULE AuthRecovery ----------------------------
(***************************************************************************)
(* The credentials of one account and everybody who renews them.           *)
(*                                                                         *)
(* An account row holds a session token (ST), the access token (AT) minted *)
(* from it, an authentication state and the key of a browser profile.  It  *)
(* is changed by requests that find the AT stale (ensure_valid_token), by  *)
(* the one refresh task they share (_refresh_at), by the background        *)
(* refresher (run_protocol_refresh_once), by explicit re-logins            *)
(* (_run_account_reauth) and by the operator.  The task and the refresher  *)
(* take the account's refresh lock; re-logins, edits and requests do not.  *)
(*                                                                         *)
(* Sessions are abstract values, told apart by whose they are; an AT is    *)
(* named by the session it was minted from.  Whether the upstream accepts  *)
(* a session is its free choice at every call.                             *)
(***************************************************************************)
EXTENDS Naturals, FiniteSets

CONSTANTS
    Requests,       \* callers of ensure_valid_token
    Logins,         \* explicit re-logins
    Task,           \* the shared refresh task of the account
    Refresher,      \* the background protocol refresher
    Nobody,         \* holds a lock that is free
    OwnSessions,    \* session tokens of the account's own identity
    OtherSessions,  \* session tokens of somebody else
    NoSession,      \* nothing captured yet
    Keys, NoKey,    \* profile directories, and no directory
    StrikeLimit,    \* interactive timeouts before a re-login is required (3)
    Acts,           \* what the operator does: edit, toggle, configure, delete
    MaxCrashes      \* bound on restarts of the server

Sessions == OwnSessions \union OtherSessions
Recoverers == {Task, Refresher}
Actors == Requests \union Logins \union Recoverers

ASSUME SessionAssumption ==
    /\ OwnSessions # {}
    /\ OwnSessions \intersect OtherSessions = {}
    /\ NoSession \notin Sessions
ASSUME ActorAssumption ==
    /\ Task # Refresher
    /\ Nobody \notin Actors
    /\ Requests \intersect Logins = {}
    /\ Recoverers \intersect (Requests \union Logins) = {}
ASSUME KeyAssumption == Keys # {} /\ NoKey \notin Keys
ASSUME BoundAssumption ==
    /\ StrikeLimit \in Nat \ {0}
    /\ MaxCrashes \in Nat

VARIABLES
    row,      \* the account's row in the tokens table
    cache,    \* _at_validation_cache holds an unexpired entry
    future,   \* _refresh_futures holds an entry
    lock,     \* the holder of the account's refresh lock
    dirs,     \* profile directories on disk
    marked,   \* keys with a cleanup marker
    at,       \* where each actor is
    cand,     \* the session each actor carries
    verdict,  \* the failure each actor is about to record
    old, new, \* each re-login: the key it found and the key it made
    enabled,  \* the switch of the background refresher, in the database
    crashes

vars == <<row, cache, future, lock, dirs, marked, at, cand, verdict, old, new, enabled, crashes>>
memory == <<cache, future, lock>>
store == <<dirs, marked, old, new>>
world == <<enabled, crashes>>

AuthStates == {"ok", "backoff", "reauth"}
\* What the operator sets of an account besides its switch: whether it is
\* renewed by itself, in protocol mode, and whether Google cookies are stored.
\* "recent" says that the last renewal is less than the interval ago.
RowType == [present : BOOLEAN, active : BOOLEAN, st : Sessions, at : Sessions,
            fresh : BOOLEAN, auth : AuthStates, fails : 0 .. StrikeLimit,
            due : BOOLEAN, profile : Keys \union {NoKey},
            auto : BOOLEAN, protocol : BOOLEAN, cookies : BOOLEAN, recent : BOOLEAN]

\* Places of the task and the refresher while they hold the refresh lock.
Inside == {"exchange", "verify", "exchange2", "verify2", "renew", "login", "convert",
           "credits", "profile", "capture", "adopt", "mark", "prove", "won", "lost"}
Waiting == {"validate", "await", "mark", "prove"}
Places == Inside \union Waiting \union
    {"idle", "new", "dead", "lock", "served", "refused", "cancelled", "failed", "gone",
     "browse", "vet", "commit", "discard", "spoiled", "tidy", "done"}

NoVerdict == [auth |-> "ok", seen |-> 0, then |-> "idle"]

Init ==
    /\ row \in {[present |-> TRUE, active |-> TRUE, st |-> s, at |-> s, fresh |-> f,
                 auth |-> "ok", fails |-> 0, due |-> TRUE, profile |-> k,
                 auto |-> b, protocol |-> p, cookies |-> c, recent |-> FALSE] :
                    s \in OwnSessions, f \in BOOLEAN, k \in Keys \union {NoKey},
                    b \in BOOLEAN, p \in BOOLEAN, c \in BOOLEAN}
    /\ cache = FALSE /\ future = FALSE /\ lock = Nobody
    /\ dirs = {row.profile} \ {NoKey}
    /\ marked = {}
    /\ at = [a \in Actors |-> "idle"]
    /\ cand = [a \in Actors |-> NoSession]
    /\ verdict = [a \in Actors |-> NoVerdict]
    /\ old = [l \in Logins |-> NoKey]
    /\ new = [l \in Logins |-> NoKey]
    /\ enabled \in BOOLEAN /\ crashes = 0

-----------------------------------------------------------------------------
(* Writes to the row; an UPDATE of a deleted row changes nothing.          *)

Write(r) == row' = IF row.present THEN r ELSE row

\* Mutant of StoreSession: the candidate session itself is not written back.
StoreAccessOnly(s, c, noted) == \E f \in BOOLEAN :
    Write([row EXCEPT !.at = s, !.fresh = f, !.cookies = @ \/ c, !.recent = @ \/ noted])

\* One UPDATE stores a verified session and the access token minted from it,
\* captured cookies and the time of the renewal; the expiry may be unknown or
\* near.
StoreSession(s, c, noted) == \E f \in BOOLEAN :
    Write([row EXCEPT !.st = s, !.at = s, !.fresh = f, !.cookies = @ \/ c,
                      !.recent = @ \/ noted])

\* last_st_refresh_at is now.
Note == Write([row EXCEPT !.recent = TRUE])

Goto(a, p) == at' = [at EXCEPT ![a] = p]

\* _mark_auth_failure reads the failure count and writes later, in Mark.
Fail(a, auth, then) ==
    /\ verdict' = [verdict EXCEPT ![a] = [auth |-> auth, seen |-> row.fails, then |-> then]]
    /\ Goto(a, "mark")

StoreVerdict(v) ==
    Write([row EXCEPT !.auth = v.auth, !.due = FALSE,
                      !.fails = IF v.seen < StrikeLimit THEN v.seen + 1 ELSE StrikeLimit])

Mark(a) ==
    /\ at[a] = "mark"
    /\ StoreVerdict(verdict[a])
    /\ Goto(a, verdict[a].then)
    /\ verdict' = [verdict EXCEPT ![a] = NoVerdict]
    /\ UNCHANGED <<memory, store, cand, world>>

\* _mark_auth_success
Prove(a) ==
    /\ at[a] = "prove"
    /\ Write([row EXCEPT !.auth = "ok", !.fails = 0, !.due = TRUE])
    /\ Goto(a, IF a \in Requests THEN "served" ELSE "won")
    /\ UNCHANGED <<memory, store, cand, verdict, world>>

\* Mutant of SameIdentity: any login that works is taken.
AnyIdentity(a) == cand[a] \in Sessions

\* The address the upstream names for a candidate is the account's.
SameIdentity(a) == cand[a] \in OwnSessions

\* Mutant of TakeLock: the refresher does not wait for the account's lock.
TakeLockUnchecked(a) == (a = Task => lock = Nobody) /\ lock' = a

TakeLock(a) == lock = Nobody /\ lock' = a

\* Mutant of FreeLock: an early return forgets the lock.
FreeLockIfWon(a) == lock' = IF lock = a /\ at[a] = "won" THEN Nobody ELSE lock

\* The lock of a deleted account may not be the one its table names any more.
FreeLock(a) == lock' = IF lock = a THEN Nobody ELSE lock

\* Mutant of DropEntry: the finally of the refresh task is missing.
KeepEntry(a) == UNCHANGED future

DropEntry(a) == future' = (future /\ a # Task)

-----------------------------------------------------------------------------
(* A request: ensure_valid_token and _refresh_at.                          *)

\* Join the recorded refresh, or record and start one.  Awaiting a recorded
\* task that has already been cancelled raises at once.
Refresh(r) ==
    IF future
    THEN /\ Goto(r, IF at[Task] = "dead" THEN "cancelled" ELSE "await")
         /\ UNCHANGED future
    ELSE /\ future' = TRUE
         /\ at' = [at EXCEPT ![r] = "await", ![Task] = "new"]

\* A stale AT is refreshed at once, and so is a fresh one when the operator
\* presses the refresh button.
Ask(r) ==
    /\ at[r] = "idle"
    /\ \/ ~row.present /\ Goto(r, "refused") /\ UNCHANGED future
       \/ /\ row.present /\ row.fresh
          /\ Goto(r, IF cache THEN "served" ELSE "validate")
          /\ UNCHANGED future
       \/ Refresh(r)
    /\ UNCHANGED <<row, cache, lock, store, cand, verdict, world>>

\* The credits query accepts the AT: the account is good whatever its row says.
Validated(r) ==
    /\ at[r] = "validate"
    /\ cache' = TRUE
    /\ Goto(r, IF row.present /\ (row.auth # "ok" \/ row.fails # 0) THEN "prove" ELSE "served")
    /\ UNCHANGED <<row, future, lock, store, cand, verdict, world>>

Invalid(r) ==
    /\ at[r] = "validate"
    /\ Refresh(r)
    /\ UNCHANGED <<row, cache, lock, store, cand, verdict, world>>

\* A generation call is refused with a 401: record_runtime_authentication_failure.
Unauthorized(r) ==
    /\ at[r] = "served"
    /\ cache' = FALSE
    /\ Fail(r, "backoff", "failed")
    /\ UNCHANGED <<row, future, lock, store, cand, world>>

\* The refresh task is cancelled, and with it everybody who awaits it.
DropTask(place) ==
    /\ at' = [a \in Actors |-> IF a = Task THEN place
                               ELSE IF at[a] = "await" THEN "cancelled" ELSE at[a]]
    /\ cand' = [cand EXCEPT ![Task] = NoSession]
    /\ verdict' = [verdict EXCEPT ![Task] = NoVerdict]

\* The caller's client goes away.  Awaiting the shared task unshielded, the
\* caller takes the task and every other waiter with it.  A task that has not
\* run yet never reaches the finally that drops its entry.
Cancel(r) ==
    \/ /\ at[r] \in {"validate", "prove", "mark"}
       /\ Goto(r, "cancelled")
       /\ verdict' = [verdict EXCEPT ![r] = NoVerdict]
       /\ UNCHANGED <<row, memory, store, cand, world>>
    \/ /\ at[r] = "await"
       /\ future' = (at[Task] = "new")
       /\ DropTask(IF at[Task] = "new" THEN "dead" ELSE "idle")
       /\ lock' = IF lock = Task THEN Nobody ELSE lock
       /\ UNCHANGED <<row, cache, store, world>>

-----------------------------------------------------------------------------
(* The refresh task: _refresh_at_inner under the account's lock.           *)

Start ==
    /\ at[Task] = "new"
    /\ Goto(Task, "lock")
    /\ UNCHANGED <<row, memory, store, cand, verdict, world>>

TaskEnters ==
    /\ at[Task] = "lock"
    /\ TakeLock(Task)
    /\ Goto(Task, IF row.present THEN "exchange" ELSE "lost")
    /\ cand' = [cand EXCEPT ![Task] = row.st]
    /\ UNCHANGED <<row, cache, future, store, verdict, world>>

\* Where the code goes on when an exchange does not yield a working AT.
Fallback == IF at[Task] \in {"exchange", "verify"} THEN "renew" ELSE "profile"

\* _do_refresh_at: the candidate is stored only once its identity is known.
Exchange ==
    /\ at[Task] \in {"exchange", "exchange2"}
    /\ \/ Goto(Task, Fallback) /\ UNCHANGED <<row, verdict>>
       \/ ~SameIdentity(Task) /\ Note /\ Fail(Task, "reauth", Fallback)
       \/ /\ SameIdentity(Task)
          /\ StoreSession(cand[Task], FALSE, at[Task] = "exchange2" /\ cand[Task] # row.st)
          /\ Goto(Task, IF at[Task] = "exchange" THEN "verify" ELSE "verify2")
          /\ UNCHANGED verdict
    /\ UNCHANGED <<memory, store, cand, world>>

\* A credits query tries the new AT; only a 401 counts against it.
Verify ==
    /\ at[Task] \in {"verify", "verify2"}
    /\ \/ Goto(Task, "prove") /\ cache' = TRUE
       \/ Goto(Task, "prove") /\ UNCHANGED cache
       \/ Goto(Task, Fallback) /\ UNCHANGED cache
    /\ UNCHANGED <<row, future, lock, store, cand, verdict, world>>

\* _try_refresh_st: by stored cookies, which notes the time whatever comes of
\* it, or from the resident browser tab.  The task goes by the mode and the
\* cookies of the row it read on entry.
Renew ==
    /\ at[Task] = "renew"
    /\ Note \/ UNCHANGED row
    /\ \/ Goto(Task, "profile") /\ UNCHANGED cand
       \/ \E s \in Sessions : /\ cand' = [cand EXCEPT ![Task] = s]
                              /\ Goto(Task, "exchange2")
    /\ UNCHANGED <<memory, store, verdict, world>>

\* Leaving the lock.  The task drops its entry and answers all who wait.
Leave(a) ==
    /\ a \in Recoverers /\ at[a] \in {"won", "lost"}
    /\ FreeLock(a)
    /\ DropEntry(a)
    /\ cache' = (cache /\ (a = Task => at[a] = "won"))
    /\ at' = [b \in Actors |->
                IF b = a THEN "idle"
                ELSE IF a = Task /\ at[b] = "await"
                THEN IF at[a] = "won" /\ row.present THEN "served" ELSE "refused"
                ELSE at[b]]
    /\ cand' = [cand EXCEPT ![a] = NoSession]
    /\ UNCHANGED <<row, store, verdict, world>>

-----------------------------------------------------------------------------
(* _try_persistent_profile_recovery, the last resort of both.              *)

Profile(a) ==
    /\ at[a] = "profile"
    /\ IF row.profile \in dirs
       THEN Goto(a, "capture") /\ UNCHANGED verdict
       ELSE Fail(a, "reauth", "lost")
    /\ UNCHANGED <<row, memory, store, cand, world>>

\* The browser times out, does not start or stop, yields nothing usable, or
\* yields a session.
Capture(a) ==
    /\ at[a] = "capture"
    /\ \/ /\ Fail(a, IF row.fails + 1 >= StrikeLimit THEN "reauth" ELSE "backoff", "lost")
          /\ UNCHANGED cand
       \/ Fail(a, "backoff", "lost") /\ UNCHANGED cand
       \/ Fail(a, "reauth", "lost") /\ UNCHANGED cand
       \/ \E s \in Sessions : /\ cand' = [cand EXCEPT ![a] = s]
                              /\ Goto(a, "adopt")
                              /\ UNCHANGED verdict
    /\ UNCHANGED <<row, memory, store, world>>

Adopt(a) ==
    /\ at[a] = "adopt"
    /\ \/ Fail(a, "backoff", "lost") /\ UNCHANGED <<row, cache>>
       \/ ~SameIdentity(a) /\ Fail(a, "reauth", "lost") /\ UNCHANGED <<row, cache>>
       \/ /\ SameIdentity(a)
          /\ StoreSession(cand[a], TRUE, TRUE)
          /\ cache' = FALSE
          /\ Goto(a, "prove")
          /\ UNCHANGED verdict
    /\ UNCHANGED <<future, lock, store, cand, world>>

-----------------------------------------------------------------------------
(* The background refresher: run_protocol_refresh_once.                    *)

\* The account is on, and set up for renewal by stored cookies.
Renewable == row.present /\ row.active /\ row.auto /\ row.protocol /\ row.cookies

\* Mutant of Candidate: accounts that failed are not looked at again.
CandidateOk == row.present /\ row.active /\ row.auto /\ row.auth = "ok"

\* get_auth_recovery_candidates
Candidate ==
    /\ row.present /\ row.active /\ row.auto
    /\ row.auth # "reauth"
    /\ row.auth = "backoff" => row.due

\* Of the candidates, accounts in protocol mode that have cookies and were not
\* renewed within the interval are refreshed.
Scan ==
    /\ at[Refresher] = "idle"
    /\ enabled
    /\ Candidate /\ Renewable /\ ~row.recent
    /\ Goto(Refresher, "lock")
    /\ UNCHANGED <<row, memory, store, cand, verdict, world>>

\* Under the lock the row is read again, its set-up but not its state.
RefresherEnters ==
    /\ at[Refresher] = "lock"
    /\ TakeLock(Refresher)
    /\ Goto(Refresher, IF Renewable THEN "login" ELSE "lost")
    /\ UNCHANGED <<row, cache, future, store, cand, verdict, world>>

ProtocolLogin ==
    /\ at[Refresher] = "login"
    /\ Note
    /\ \/ Goto(Refresher, IF row.fresh THEN "lost" ELSE "profile") /\ UNCHANGED cand
       \/ \E s \in Sessions : /\ cand' = [cand EXCEPT ![Refresher] = s]
                              /\ Goto(Refresher, "convert")
    /\ UNCHANGED <<memory, store, verdict, world>>

ProtocolConvert ==
    /\ at[Refresher] = "convert"
    /\ \/ Note /\ Fail(Refresher, "backoff", "lost")
       \/ ~SameIdentity(Refresher) /\ Note /\ Fail(Refresher, "reauth", "lost")
       \/ SameIdentity(Refresher) /\ Goto(Refresher, "credits") /\ UNCHANGED <<row, verdict>>
    /\ UNCHANGED <<memory, store, cand, world>>

\* The pair is stored whether or not the credits query succeeds.
ProtocolStore ==
    /\ at[Refresher] = "credits"
    /\ StoreSession(cand[Refresher], FALSE, TRUE)
    /\ Goto(Refresher, "prove")
    /\ UNCHANGED <<memory, store, cand, verdict, world>>

-----------------------------------------------------------------------------
(* Profile directories: AccountProfileStore.                               *)

InUse == dirs \union marked \union {row.profile}
            \union {old[l] : l \in Logins} \union {new[l] : l \in Logins}

\* remove leaves a marker, then tries every marked directory; a locked one stays.
Remove(k) == \E drained \in SUBSET (marked \union ({k} \ {NoKey})) :
    /\ dirs' = dirs \ drained
    /\ marked' = (marked \union ({k} \ {NoKey})) \ drained

-----------------------------------------------------------------------------
(* An explicit re-login, without the refresh lock: _run_account_reauth.    *)

Open(l) ==
    /\ at[l] = "idle" /\ row.present
    /\ \/ \E k \in Keys \ InUse, drained \in SUBSET marked :
            /\ old' = [old EXCEPT ![l] = row.profile]
            /\ new' = [new EXCEPT ![l] = k]
            /\ dirs' = (dirs \ drained) \union {k}
            /\ marked' = marked \ drained
            /\ Goto(l, "browse")
            /\ UNCHANGED verdict
       \/ Fail(l, "reauth", "done") /\ UNCHANGED store
    /\ UNCHANGED <<row, memory, cand, world>>

\* The handler's locals end with it.
Forget(l) ==
    /\ old' = [old EXCEPT ![l] = NoKey]
    /\ new' = [new EXCEPT ![l] = NoKey]
    /\ cand' = [cand EXCEPT ![l] = NoSession]

\* The browser or the conversion fails: the candidate directory goes first.
Abort(l) ==
    /\ at[l] \in {"browse", "convert"}
    /\ Remove(new[l])
    /\ \E v \in {"backoff", "reauth"} : Fail(l, v, "done")
    /\ Forget(l)
    /\ UNCHANGED <<row, memory, world>>

Browsed(l) ==
    /\ at[l] = "browse"
    /\ \E s \in Sessions : cand' = [cand EXCEPT ![l] = s]
    /\ Goto(l, "convert")
    /\ UNCHANGED <<row, memory, store, verdict, world>>

Convert(l) ==
    /\ at[l] = "convert"
    /\ IF SameIdentity(l)
       THEN Goto(l, "vet") /\ UNCHANGED verdict
       ELSE Fail(l, "reauth", "tidy")
    /\ UNCHANGED <<row, memory, store, cand, world>>

\* The new AT must be accepted by Flow itself.  A refusal is recorded twice.
Vet(l) ==
    /\ at[l] = "vet"
    /\ cache' = FALSE
    /\ \/ Goto(l, "commit") /\ UNCHANGED verdict
       \/ Fail(l, "backoff", "spoiled")
    /\ UNCHANGED <<row, future, lock, store, cand, world>>

Spoiled(l) ==
    /\ at[l] = "spoiled"
    /\ Remove(new[l])
    /\ Fail(l, "reauth", "done")
    /\ Forget(l)
    /\ UNCHANGED <<row, memory, world>>

\* Mutant of Recredited: the reference to the profile is left as it was.
RecreditedWithoutProfile(l, f) ==
    [present |-> TRUE, active |-> TRUE, st |-> cand[l], at |-> cand[l], fresh |-> f,
     auth |-> "ok", fails |-> 0, due |-> TRUE, profile |-> row.profile,
     auto |-> row.auto, protocol |-> TRUE, cookies |-> TRUE, recent |-> TRUE]

Recredited(l, f) ==
    [present |-> TRUE, active |-> TRUE, st |-> cand[l], at |-> cand[l], fresh |-> f,
     auth |-> "ok", fails |-> 0, due |-> TRUE, profile |-> new[l],
     auto |-> row.auto, protocol |-> TRUE, cookies |-> TRUE, recent |-> TRUE]

\* commit_account_reauth: session, profile, state and switch in one transaction.
Commit(l) ==
    /\ at[l] = "commit"
    /\ \E f \in BOOLEAN : Write(Recredited(l, f))
    /\ Goto(l, IF row.present THEN "discard" ELSE "tidy")
    /\ UNCHANGED <<memory, store, cand, verdict, world>>

\* The directory the re-login replaced, or the candidate that was not wanted.
Discard(l) ==
    /\ at[l] \in {"discard", "tidy"}
    /\ Remove(IF at[l] = "discard" THEN old[l] ELSE new[l])
    /\ Goto(l, "done")
    /\ Forget(l)
    /\ UNCHANGED <<row, memory, verdict, world>>

-----------------------------------------------------------------------------
(* The operator, time and restarts.                                        *)

\* A replaced session, exchanged first: both halves are written, unlocked.  No
\* address is compared; the operator is trusted to enter the account's own.
Edit ==
    /\ "edit" \in Acts
    /\ cache' = FALSE
    /\ \E s \in OwnSessions : s # row.st /\ StoreSession(s, FALSE, FALSE)
    /\ UNCHANGED <<future, lock, store, at, cand, verdict, world>>

Toggle ==
    /\ "toggle" \in Acts
    /\ Write([row EXCEPT !.active = ~row.active])
    /\ UNCHANGED <<memory, store, at, cand, verdict, world>>

\* The account's own renewal settings, and the switch of the refresher.
Configure ==
    /\ "configure" \in Acts
    /\ \E b \in BOOLEAN, p \in BOOLEAN, c \in BOOLEAN :
            Write([row EXCEPT !.auto = b, !.protocol = p, !.cookies = c])
    /\ UNCHANGED <<memory, store, at, cand, verdict, world>>

SwitchRefresher ==
    /\ "configure" \in Acts
    /\ enabled' = ~enabled
    /\ UNCHANGED <<row, memory, store, at, cand, verdict, crashes>>

\* delete_token drops and cancels the refresh and forgets the lock, which the
\* refresher may hold; the profile stays on disk.
Delete ==
    /\ "delete" \in Acts /\ row.present
    /\ row' = [row EXCEPT !.present = FALSE]
    /\ future' = FALSE /\ lock' = Nobody
    /\ DropTask("idle")
    /\ UNCHANGED <<cache, store, world>>

\* The AT nears its expiry, the backoff and the interval end, the cached
\* validation lapses.
Expire ==
    /\ row.present /\ row.fresh
    /\ row' = [row EXCEPT !.fresh = FALSE]
    /\ UNCHANGED <<memory, store, at, cand, verdict, world>>

Elapse ==
    /\ row.present /\ ~row.due
    /\ row' = [row EXCEPT !.due = TRUE]
    /\ UNCHANGED <<memory, store, at, cand, verdict, world>>

Interval ==
    /\ row.present /\ row.recent
    /\ row' = [row EXCEPT !.recent = FALSE]
    /\ UNCHANGED <<memory, store, at, cand, verdict, world>>

Lapse ==
    /\ cache
    /\ cache' = FALSE
    /\ UNCHANGED <<row, future, lock, store, at, cand, verdict, world>>

\* The server restarts: rows and directories survive, nothing else does.
Crash ==
    /\ crashes < MaxCrashes
    /\ crashes' = crashes + 1
    /\ cache' = FALSE /\ future' = FALSE /\ lock' = Nobody
    /\ at' = [a \in Actors |-> IF a \in Recoverers \/ at[a] = "idle" THEN "idle" ELSE "gone"]
    /\ cand' = [a \in Actors |-> NoSession]
    /\ verdict' = [a \in Actors |-> NoVerdict]
    /\ old' = [l \in Logins |-> NoKey]
    /\ new' = [l \in Logins |-> NoKey]
    /\ UNCHANGED <<row, dirs, marked, enabled>>

-----------------------------------------------------------------------------

RequestStep(r) == Ask(r) \/ Validated(r) \/ Invalid(r) \/ Mark(r) \/ Prove(r)
TaskStep == Start \/ Exchange \/ Verify \/ Renew \/ Profile(Task) \/ Capture(Task)
            \/ Adopt(Task) \/ Mark(Task) \/ Prove(Task) \/ Leave(Task)
RefresherStep == ProtocolLogin \/ ProtocolConvert \/ ProtocolStore \/ Profile(Refresher)
            \/ Capture(Refresher) \/ Adopt(Refresher) \/ Mark(Refresher)
            \/ Prove(Refresher) \/ Leave(Refresher)
LoginStep(l) == Abort(l) \/ Browsed(l) \/ Convert(l) \/ Vet(l) \/ Spoiled(l)
            \/ Commit(l) \/ Discard(l) \/ Mark(l)

Next ==
    \/ \E r \in Requests : RequestStep(r) \/ Unauthorized(r) \/ Cancel(r)
    \/ TaskStep \/ TaskEnters
    \/ RefresherStep \/ RefresherEnters \/ Scan
    \/ \E l \in Logins : Open(l) \/ LoginStep(l)
    \/ Edit \/ Toggle \/ Configure \/ SwitchRefresher \/ Delete
    \/ Expire \/ Elapse \/ Interval \/ Lapse \/ Crash

Spec == Init /\ [][Next]_vars

\* Upstream calls and browsers are bounded by timeouts, the lock is first come
\* first served, the refresher wakes every minute and clocks move.  Nobody is
\* obliged to ask, to log in, to leave or to edit.
Fairness ==
    /\ \A r \in Requests : WF_vars(RequestStep(r) /\ at[r] # "idle")
    /\ WF_vars(TaskStep) /\ SF_vars(TaskEnters)
    /\ WF_vars(RefresherStep) /\ SF_vars(RefresherEnters) /\ WF_vars(Scan)
    /\ WF_vars(Elapse) /\ WF_vars(Interval)

FairSpec == Spec /\ Fairness

-----------------------------------------------------------------------------

\* Every variable keeps its shape; the state and the count of failures stay
\* within what update_token_auth_state allows.
AuthTypeOK ==
    /\ row \in RowType
    /\ cache \in BOOLEAN /\ future \in BOOLEAN
    /\ lock \in Recoverers \union {Nobody}
    /\ dirs \subseteq Keys /\ marked \subseteq Keys
    /\ at \in [Actors -> Places]
    /\ cand \in [Actors -> Sessions \union {NoSession}]
    /\ verdict \in [Actors -> [auth : AuthStates, seen : 0 .. StrikeLimit, then : Places]]
    /\ old \in [Logins -> Keys \union {NoKey}]
    /\ new \in [Logins -> Keys \union {NoKey}]
    /\ enabled \in BOOLEAN /\ crashes \in 0 .. MaxCrashes

\* No interleaving of requests, refresher, profile recovery, re-logins and
\* restarts ever leaves somebody else's session in the account's row.
SessionIsOwn == row.st \in OwnSessions /\ row.at \in OwnSessions

\* The stored access token was minted from the stored session token, although
\* five code paths write them, two of them without the lock.
PairMatches == row.at = row.st

\* Only one of the refresh task and the refresher is renewing an account that
\* exists, and it is the one that holds the account's lock.
RecoveryIsExclusive ==
    row.present => \A a \in Recoverers : at[a] \in Inside <=> lock = a

\* The entry of _refresh_futures goes with its task, whoever is cancelled when:
\* a task that ran has taken its entry away, and only a task that was cancelled
\* before it first ran leaves it behind.
EntryFollowsTask == future <=> at[Task] # "idle"

\* Concurrent requests share one real refresh: a caller is never handed the
\* cancellation of a task that will not run.  The design document promises it,
\* and that no failure disables an account for good; the code breaks it.
NoDeadRefresh == future => at[Task] # "dead"

\* The profile an account refers to is on disk, whatever re-logins run at the
\* same time, fail half way or are cut off by a restart.
ProfileStaysOnDisk == row.profile # NoKey => row.profile \in dirs

\* A caller that waits for a valid token is answered.
EveryCallerAnswered ==
    \A r \in Requests : at[r] \in Waiting ~> at[r] \notin Waiting

\* An account in backoff, switched on and set up for renewal, comes back into
\* the refresher's queue by itself as long as the refresher is on.
RetryDue == enabled /\ Renewable /\ row.auth = "backoff"
BackoffIsRetried == RetryDue ~> (at[Refresher] # "idle" \/ ~RetryDue)

=============================================================================
