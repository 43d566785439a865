# A TLA+ model of flow2api

flow2api serves image and video generation through a pool of upstream accounts.
A request carries an idempotency key; the server picks an account, freezes one
unit of its credit, obtains a captcha token from one of several kinds of
browsers, submits the work, and closes a row of the `tasks` table when the
outcome is known. This directory models the code that decides *who pays for
what, how often work is submitted, who may run it, with which credentials and
in whose browser*, checks it with TLC on small instances, and proves the facts
at its core with TLAPS for all of them.

All source names below are relative to `src/src/`; `plan` is
`src/docs/FLOW2API_LOCAL_ACCOUNT_POOL_PLAN_REV3_4.md`, `design` is
`src/docs/superpowers/specs/2026-08-16-durable-account-session-recovery-design.md`.
In references to lines, GH is `services/generation_handler.py` and TM is
`services/token_manager.py`.

## 1. The system

| component | state | operations | hard part | what makes it correct |
|---|---|---|---|---|
| `services/concurrency_manager.py` | limits, learned capacity, cooldown, in-flight counters, per account and medium; one lock | can_use, acquire, release, record_success, record_rate_limit, reset_token, remove_token | operator edits and removals under running requests, restarts | counters equal the slots held, admission within the limit, 429s never starve an account |
| `services/load_balancer.py` | round-robin positions | select_token in three call modes | filtered first, taken later | a request is refused only when nothing was free, a slot always has an owner |
| `core/database.py` (tasks, tokens) | task rows with status, quota state and payer; credits per account | get_or_create_idempotent_task, reserve / release / settle_task_quota, update_task, update_token, delete_token | each call is one transaction, sequences of calls are not | units frozen never exceed the balance, each is charged or released once |
| `services/generation_handler.py`, image | locals of each coroutine, result cache | `_handle_idempotent_image_with_quota`, `_replay_idempotent_task`, `handle_generation` | cancellation at every await, closed generators, failover, duplicates, timeouts | one submission per key, slots never leak, every request ends |
| `services/generation_handler.py`, video | the same, and one detached poller per accepted task | `_handle_idempotent_video_with_quota`, `_handle_video_generation`, `_collect_detached_video_poll`, `_poll_video_result`, `_fail_video_task`, `recover_incomplete_tasks` | poller and request close the same row; crash and recovery | outcome recorded once, accepted work watched and decided |
| `services/flow_client.py` | locals of one call, remote browser sessions | generate_image, generate_video_*, upsample, projects, uploads, retry and fallback helpers | nested retries of a non-idempotent POST | bounded posts, calls end, remote browsers are told |
| `services/token_manager.py` | the account rows, validation cache, shared refresh tasks, refresh locks, error counts | ensure_valid_token, `_refresh_at`, run_protocol_refresh_once, profile recovery, failure states, add, update, delete, record_error | a shared task cancelled by a waiter; five writers of one row, two without the lock | one renewal at a time, the stored pair is the account's own and a pair, callers are answered |
| `services/browser_captcha_personal.py` | browsers by index with reservations; token buckets; resident tabs, slot map, rebuild tasks | get_token, token pool maintainer and refill, resize; tab reservation, rebuild, recovery, fresh-profile restart, eviction, reaper | indices that name another browser, waiters, restarts that wait for the work they block | reservations have owners, waiters are served, requests end |
| `services/browser_captcha.py` | TokenBrowser per slot, semaphore, browser processes, pid files | get_token, custom jobs, launch, recycle, warm-up, reaper, reload_browser_count | a browser replaced, shared or forgotten under a solver, a pool that shrinks under its requests | a solver works under its account, calls end, no more browsers than slots |
| `services/browser_captcha_extension.py`, `extension_pairing.py`, `extension/background.js` | WebSocket routes, pending futures, pairing handles, sessions in memory and database | connect, request, answer, disconnect; exchange, verify, revoke | half-open links, reconnects, two calls of `connectWS` at once, revocation during verification | a route heals, a handle works once, a revoked session passes no verification |
| `services/compat_video_tasks.py`, `api/yingce_adapter.py` | registry of background video tasks and their workers | create, run, look up, expire, evict, shut down | expiry under a running worker | one generation per key, decided tasks stay, cancelled workers end |
| `services/file_cache.py` | cached files, a lock per name, the cleanup task | download_and_cache, cleanup, start, stop, set_timeout | expiry while serving, settings changed under the loop | content of a completed video is there as long as promised |
| `services/account_onboarding.py`, `account_profile_store.py`, `api/admin.py` (accounts) | onboarding session, profile directories, rows of accounts | add, import, plugin sync, onboarding, re-login, delete | look, talk to the upstream, then write | no second row without a race, reported profiles exist, sessions end |
| `main.py` | – | start and shutdown | order of start-up steps | recovery starts after the counters are loaded |
| `services/protocol_login.py`, `proxy_manager.py`, model tables, logging, monitoring, `static/`, `scripts/` | – | configuration, formatting, I/O | – | not modelled |

How they interact: a handler calls the load balancer (which reads the ledger and
the concurrency manager and takes a slot), then the token manager, the ledger,
the flow client, and the ledger again; the slot is given back in `finally`. The
flow client asks one of the captcha services for a token. A video adds the
poller, an asyncio task that outlives its request. The administration API
changes accounts, pools, caches and credentials under running requests. All of
it runs on one event loop, so only awaits are points of interleaving; each
ledger call is one SQLite transaction.

## 2. Modules

| module | models | state and actions |
|---|---|---|
| `ConcurrencyManager` | `concurrency_manager.py` | `limits`, `learned`, `cooldown`, `inflight` are its dictionaries; `held` counts the slots really held, `removed` the accounts dropped under their requests. One action per method. Time is a countdown (`Tick`). |
| `LoadBalancer` (EXTENDS `ConcurrencyManager`) | `select_token`, error counts and bans, the path of `handle_generation` that the test page takes | `caller[r]`: kind, `pc`, accounts tried, candidates, queue, slot. The filter looks at one account per step, so every answer may be stale when the queue is walked. The queue is a set of accounts with a rank. `Edit` is the operator's new limit of an account, which resets its learned capacity. `record_error` is three steps (count, `Weighs`, `Bans`), and the client may leave between them; `unweighed` is history: accounts whose last failure was counted and never weighed. |
| `TaskLedger` | the quota columns of `tasks` and `tokens` | `quota` and `payer` per key, `credits` and `accounts`; each action is one transaction. `granted`, `spent`, `overwritten` are history. |
| `QuotaHandler` (EXTENDS `TaskLedger`, INSTANCEs `ConcurrencyManager`) | what both handlers share | `req[r]` holds the locals of a coroutine: `pc` is the next await, `tok` the account whose slot it holds, `tried` is `attempted_token_ids`, `claim` is `idempotency_owner`, `err` is `last_error_class`. `accepted` counts what the upstream took on. |
| `ImageGeneration` (EXTENDS `QuotaHandler`) | `_handle_idempotent_image_with_quota` | adds the synchronous call, its cancellation and the closed generator |
| `VideoGeneration` (EXTENDS `QuotaHandler`) | `_handle_idempotent_video_with_quota`, poller, recovery | adds `poller[k]` with its ways to the media (named, redirected, fetched, joined, cached), the upstream's `job[k]`, crashes and `recover_incomplete_tasks` |
| `KeyPromise` | nothing: the abstract promise of one idempotency key | `outcome` and `work`: taken on at most once, one outcome, no refusal of accepted work. Both handlers instantiate it per key (`Promise(k)`), with their status and `accepted` as its state |
| `FlowSubmission` | one call of the flow client, for each of twelve methods and four sources of captcha tokens | rounds, quick repeats, the urllib fallback, the posts of a browser page, captcha tasks and their polls, remote sessions |
| `AuthRecovery` | the credentials of one account: `token_manager.py`, `account_profile_store.py`, `_run_account_reauth` of `admin.py` | `row` is the account's row with the operator's settings of its renewal, `enabled` the switch of the background refresher; `cache`, `future`, `lock` are `_at_validation_cache`, `_refresh_futures` and the refresh lock; `dirs` and `marked` are directories and cleanup markers. `at[a]` is where an actor is (a request, the shared `Task`, the `Refresher`, a re-login; a task that was cancelled before it first ran is `dead`), `cand[a]` the session it carries, `verdict[a]` the failure it read and is about to write |
| `AccountIntake` | adding, importing, syncing, onboarding of accounts | `rows` of `tokens`, `job[j]` a call with what it found and made, `active` the onboarding session, `browsers` and `dirs` of the sessions |
| `WorkerDispatch` | `_PersonalBrowserPoolService`, its dispatcher | `resv` reservations per index, `era` the browsers an index has named, affinity, blocked browsers, callers |
| `TokenPool` (EXTENDS `WorkerDispatch`) | its token buckets | leases, waiters, refill tasks and the maintainer; every block under `_token_pool_lock` is one step |
| `ResidentTabs` | `BrowserCaptchaService` of the personal mode: one browser with tabs | `pool`, `tab[t]` (slot, pending count, lock holder, account), rebuild jobs, the fresh-profile restart, the recovery of the browser |
| `HeadedPool` | `browser_captcha.py` | `actor[a]` a request or background job, TokenBrowsers per slot (`Copies`), `proc[p]` browsers with their cookies, `pidfile`, the semaphore of the service |
| `ExtensionPairing` | `extension_pairing.py` and its table | handles, sessions in memory and database, `lock` the processes inside the asyncio lock; an operation takes the lock, gets the database's answer and lets go in steps of their own |
| `ExtensionCaptcha` (EXTENDS `ExtensionPairing`) | `browser_captcha_extension.py`, the WebSocket route, `background.js` | `socket[w]` as both ends see it, `browser[b]` with the calls of `connectWS` that are reading the settings (`dialling`), requests and their futures, messages on the wire |
| `CompatVideoTasks`, `FileCache` | the registry, the cache | operators from a registry to a registry; actions of downloads, cleanup loop and administrator |
| `YingceAdapter` (EXTENDS `CompatVideoTasks`, INSTANCEs `FileCache`) | background videos from request to file | `worker[v]`, `request[v]` the key, clients that ask, restarts |
| `LoadBalancerProofs`, `QuotaHandlerProofs`, `ImageGenerationProofs`, `VideoGenerationProofs`, `SubmissionProofs`, `AccountProofs`, `CaptchaProofs`, `YingceAdapterProofs` | – | theorems about these modules; those of `ConcurrencyManager` are in the first, those of `TaskLedger` in the second, which the two after it extend; `AccountProofs` is about `AccountIntake` and `AuthRecovery`, `CaptchaProofs` about `TokenPool`, `ExtensionCaptcha` and `HeadedPool`, `SubmissionProofs` about `FlowSubmission` and `ResidentTabs` |
| `MC*` | – | constants, arrival orders and scenarios for TLC |

An action is the code from one await that touches shared state to the next.
Errors are reduced to the classes of `classify_failure` that lead to different
code: the four that move on to another account and one that does not.
A timeout of the upstream call nondeterministically was or was not taken on.

The row of a video is renamed to the upstream's operation when it is accepted
(`update_task(task_id=...)`); the model names rows by their key, which stays.

In `AuthRecovery` a session token is an abstract value of which only the owner
matters, an access token is named by the session it was minted from, and whether
the upstream accepts either is its free choice at each call. A verdict is read
and written in two steps (`Fail`, `Mark`), as `_mark_auth_failure` does. A
removed directory may stay on disk with its marker: `Remove` drains any part of
what is marked. The account has an address: without one the code takes any
session. An operator's edit is trusted to be the account's own session, because
`update_token` compares no address. Deleting an account also forgets its lock,
so that a later caller need not wait for a refresher that is still inside;
neither finds a row to change.

In the browser modules what happens inside a page is one step that succeeds or
fails. The order in which equally usable browsers or tabs are offered is left
out: any of them may come first. An index or slot id is not an identity: it may
name another browser or tab when its reservation is returned, which is what the
properties are about.

What happens to a request from outside is chosen at the start of a behaviour
from `Scenarios` and kept in `scenario`: `cancel` (CancelledError at any await,
with the commit under way done or not), `abandon` (GeneratorExit at a yield),
`crash` (the process dies and restarts), `delete` (the operator deletes the
account, then its counters), `refresh` (a credits query overwrites a balance),
`lostReply` (a reply is lost inside the flow client, which posts again), and for
videos `giveUp` (status queries fail or the poller's rounds are used up) and
`lapse` (an account is not valid at a restart). The other modules bound such
events by a counter (`MaxMoves`, `MaxEvents`, `MaxDisturbances`, `MaxChanges`, `MaxRestarts`).

## 3. Runs

| run | instance | question and answer |
|---|---|---|
| `account_pool` | two accounts, the first with one slot; two requests of three kinds (client, test with a key, test without); call modes default and polling; one event of the operator or of the world | `SlotAccounting` and `HeldIsOwned`: counters agree with the slots held and each slot with one request, on every way out of selection and handlers; `RefusedOnlyWhenExhausted`: nobody is refused while an account was usable all through the selection; `FailingIsDisabled`: an account at the threshold of failures is being switched off |
| `image` | two of three requests (same key, or another key), one or two accounts, three scenarios: leaving clients and a crash; deletion, overwritten balances, lost replies; nothing | `NeverOversold`; `KeepsPromise`: the handler implements `KeyPromise`; `SlotProtocol`: its slot operations are those of a `ConcurrencyManager` caller; `EveryRequestAnswered` |
| `video` | two requests with one key, whose work extends an earlier video; one crash with leaving clients, two crashes with pollers that give up, accounts that lapse and lost replies | `ReleasedWhenRefused`, `AcceptedIsWatched`, `OutcomeIsFinal`, `KeepsPromise`, `AcceptedIsDecided` |
| `headed_pool` | two requests of different accounts on one slot, or one on up to two slots; two disturbances | `SolverIsOnItsAccount`: a solver works under its own account; `EveryCallEnds` |
| `video_delivery` | three tasks with one key or none, a registry of two, one file, one change of the cache's timeout or one restart | one generation per key, content stays as long as promised, outcomes stay, workers end |
| `submission`, the call | each of the twelve methods with each captcha source; three rounds (four with captcha evaluation), one quick repeat, three page tries, two tries and polls of a captcha task | `PostsWithinBudget`: posts are bounded by the product of the budgets; `SessionsAreFinished`: remote browsers are told of the end; `CallEnds` |
| `submission`, the tabs | two requests (with and without an account) on a browser of one tab, four tab objects, three slot ids, two rebuild tasks, one disturbance (crash, cancellation, report, closing), a fresh-profile restart after one solve | `ReservationsHaveOwners`: every reservation has an owner who will give it back; `EveryRequestEnds` |
| `accounts`, recovery | two callers that leave at any moment, with the refresher, edits, switch and deletion; or one with changes of the renewal's settings; or two re-logins (own sessions and a foreign one, three directories) with edits; or one with a restart and the refresher | `RecoveryIsExclusive`; `EntryFollowsTask`: a refresh is on record as long as its task is there; `SessionIsOwn`, `PairMatches`: the row never holds a foreign session or half a pair; `ProfileStaysOnDisk`; `EveryCallerAnswered`; `BackoffIsRetried`: an account in backoff that is set up for renewal comes back to the refresher |
| `accounts`, intake | pairs of: an import of up to two items, a plugin's sync, an administrator's add, two onboarding sessions; two sessions of one account; two deletions, switches or restarts | `SecondRowNeedsARace`: a second row of an account needs calls that overlap; `ReportedProfilesExist`; `OnboardingEnds`, and the next can start |
| `captcha_services`, the pool | two requests, one refill task, up to two browsers of one tab, one change of the settings or of the pool's size, or one expired lease; closing | `ReservationsAreHeld`: no browser looks busy for callers that are gone; `WaitersAreServed`: a request that waits is served without needing its deadline |
| `captcha_services`, the route | two browsers of two profiles, three sockets, one caller, one administrator that revokes, one lost link, restart, lapse or failed write | `HandlesAreUsedOnce`; `RevokedIsRefused`: a verification that began before the revocation lets the session pass no more; `RouteHeals`: a route whose browser lives reaches a live socket again |

Three of the runs check two components each. The two share no state: a variable
`part` of the MC module, chosen at the start, says which of them moves, and the
other stays where it is, in a state in which no step is due that fairness asks
for (a call that has ended, an account set up for no renewal, an empty pool). The
reachable states are those of the two components, side by side.

Four runs show where code and documents disagree; they must be violated:

| run | property | what happens |
|---|---|---|
| `slot_leak` | `HeldIsOwned` | the path without an idempotency key takes the slot and awaits a write of its request log before it enters the `try` whose `finally` returns the slot (GH:2383): a streaming client that leaves there keeps the slot until the restart (plan:97) |
| `ban_cut` | `DisabledAfterNErrors` | `record_error` counts, reads back and disables in four awaits of the request's own coroutine (TM:1173–1186): a client that leaves after the first leaves the account in use at its threshold until the next failure on it, although `core/models.py:147` says "Auto-disable token after N consecutive errors" |
| `dead_refresh` | `NoDeadRefresh` | a caller that leaves before the task it created first runs cancels a coroutine that never reaches its `finally` (TM:769–779): the dead task stays in `_refresh_futures`, and every later refresh of the account is cancelled at once, until the account is deleted or the server restarts (design:74 promises one real refresh for concurrent requests, design:14 that no failure disables an account for good) |
| `headed_resize` | `WithinBrowserCount` | a request has chosen slot 1 when the operator sets the number of browsers to one: the removal closes what the slot has, nothing yet, and then the request launches its browser on the removed TokenBrowser, which neither the reaper nor a later removal knows (`services/browser_captcha.py:2655`); two browsers stay, where `config/setting_example.toml:59` says one |

The models show more readings of this kind, which have no run of their own.

* Images: a client cancelled after its unit was settled overwrites `succeeded`
  with `unknown` (`CancelInTry`); one that stops reading leaves `submitting`
  (`Abandon`); a retry of a succeeded key is refused when no account is free,
  because the account is selected before the key is looked up (`Select`,
  `GiveUp`); deleting an account deletes its keys, so a retry is submitted again
  (`OperatorDeletes`); a lost reply ends as a definite failure and its unit is
  released, because `_make_request` wraps timeouts in a plain Exception
  (`Refused`); a timed-out submission is posted again with a new captcha token
  (`FlowSubmission`; plan:64).
* Videos: a client that leaves between the acceptance and `create_task` leaves a
  task no one polls before the next restart (`AcceptedIsWatched` asks for
  clients that stay; GH:3382, plan:65); a poller that gives up releases the unit
  of work that is still running (`ReleasedWhenRefused` excepts it; plan:66); a
  crash between settling and closing a task, and a poller that gives up after
  it, leave a charged task that failed (`OutcomeIsFinal` excepts it); unknown
  tasks are read at the restart and skipped (plan:67); the recovery forgets
  which video an extension continues and whether the result was to be enlarged
  (GH:1343); enlarging passes a name that `_poll_video_result` does not define
  (GH:3554), so it always fails and the original is delivered.
* Capacity: nobody calls `record_success` of the concurrency manager, so learned
  capacity only falls until a restart (plan:53). `ban_token_for_429` has no
  caller either.
* Tests of one account with a key: when the account fails, the loop selects it
  again, and again, until the outcome is not one that fails over (GH:1592,
  GH:1627; the docstring at GH:1584 says that there is no failover).
* Credentials: waiters await the shared task unshielded, so one client that leaves cancels the refresh
  of the others (`Cancel`); the refresher re-reads the enable switch under the
  lock but not the state it selected the account by (`RefresherEnters`); a
  recovery that began before a re-login may write its verdict or its older
  session over it (`Mark`, `Exchange`); accounts waiting for a re-login are still
  selected for requests (design:68).
* Profiles: overlapping re-logins, a restart and a deletion leave directories
  that nothing names (`Discard`, `Crash`, `Delete`; design:15), and onboarding
  an account again leaves its old one (`api/admin.py:628`). The deadline of an
  onboarding session can strike between the commit of the row and the note that
  its profile is in use: the session fails and removes the directory that the
  new row names (`api/admin.py:868`, design:95).
* Accounts: an edit clears the reason of a ban (TM:633).
* Headed browsers: what `_extract_browser_pid` finds is the process of the
  Playwright driver, which has launched the browser, or nothing
  (`services/browser_captcha.py:991`–`1003`). The pid file that the next process
  finds therefore names a process whose command line never has the slot's marker
  (917–943, 1316): it is taken for somebody else's, its file is erased (981–986,
  `EraseStale`), and a browser that survived its service is never killed. The
  model says so and states no property about pid files. The browser of a driver
  that is stopped ends with it, which is how `Closed` ends browsers.
* Extension: `connectWS` reads the settings between its look at the socket and
  the new socket (`extension/background.js:154`–`166`), and a pairing calls it
  twice, by `storage.onChanged` and by whoever asked for it (409–414, 422–437).
  When the two readings overlap both open a socket. The older one is no longer
  `ws`: the browser answers nobody over it, nobody closes it, and the server, that
  listed it first, chooses it first (`services/browser_captcha_extension.py:96`).
  `RouteHeals` is therefore about routes that have no such socket (`NoOrphan`); set
  `NoOrphan(i) == TRUE` and TLC shows the dead route. Between the verification
  of a session and its listing lie the accept and another await: a session
  revoked there is still listed, since a revocation closes no connection.
* Cache: when two administrators disable and enable the cleanup at once, the one
  that waited for the old loop forgets the new one
  (`services/file_cache.py:211`–`224`; the docstring at 227 says that the loop
  follows the timeout).

### Bounds

Two requests with one key are enough for every race about a key (owner and
duplicate); two requests with different keys compete for an account's last unit
and slot. Two accounts make a failover possible, one unit of credit makes the
last unit contended. One crash reaches every state between two commits; two
crashes let the recovery itself be interrupted. In `submission` every loop
repeats at least once. The requests of a run are alike, so they may as well
arrive in order; `MCNext` says so where it saves states. Which actors and
disturbances meet in one behaviour is said in the `MC` module of the run: each
pair that shares state meets somewhere, all of them at once nowhere.

Bounded counters: `MaxCredits`, `MaxLearned`, `CooldownTicks`, `MaxHeld`,
`BanThreshold` (two, so that the failures of two requests add up),
`MaxCrashes`, `MaxRetries`, `EvaluationRetries`, `QuickRetries`, `PageTries`,
`TaskTries`, `TaskPolls`, `StrikeLimit`, `MaxMoves`, `MaxEvents`, `MaxChanges`,
`MaxRestarts`, `MaxId`, `MaxItems`, `MaxTarget`, `MaxDisturbances`,
`MaxAttempts`.

* `account_pool`: the loop over candidates is exercised by two accounts, one of
  which can be skipped for a lost slot, a lost balance, or a token that does not
  validate; one event of the operator falls into each gap of it. Every order of
  the manager's own calls, for any number of callers, is covered by the theorems
  about `ConcurrencyManager`.
* `accounts`, recovery: callers and re-logins meet only in the row, which both
  parts change under the refresher's hands. The code counts three interactive
  timeouts before it demands a re-login; the limit of one keeps both outcomes.
  Three directories are what two overlapping re-logins of an account with a
  profile use. The settings of a renewal (the refresher's switch, the account's
  own, its mode, its cookies) are at most one away from on, under one caller and
  the refresher; elsewhere they are on. Where nobody asks for a token, nobody
  reads the expiry or the cached validation, and they stay low. The ends of
  backoff and interval are told apart only by the idle refresher, so they come
  while it is idle (`ClocksMatter`).
* the pool, the tabs, `headed_pool`: an index, a slot and a tab
  have to be named, lost and named again while somebody still holds the first
  meaning; the bounds on objects (`era`, `Tabs`, `Slots`, `Copies`, `Forks`)
  leave room for that and for one more. With two slots the two disturbances of
  `headed_pool` are a pool that shrinks and grows again. A change of the token
  pool's settings meets no browser that restarts or cools down.
* `video_delivery`: three tasks over a capacity of two make the registry evict;
  a time to live of one lets a task expire at each step of its worker.
* the route: three sockets for two browsers let one browser reconnect while
  its old socket is half open. A second handle, with which a browser pairs anew,
  meets neither a request nor a revocation nor a second browser, and a second
  browser meets no request; the browsers pair in order, and an exchange begins
  when the browser's calls of `connectWS` have ended.
* `accounts`, intake: every pair of calls that share the account; an import has
  two items unless an onboarding session may meet it. Both sessions are the
  account's, so it does not matter which is named first.

### Fairness

Handlers and pollers: `WF(Step(r))`, since asyncio runs every coroutine that is
ready and every await of a handler ends, by the timeout of the HTTP client if
need be; `WF(PollerStep(k))`; `WF(UpstreamEnds(k))`: the upstream finishes or
fails its work, and if it does not the poller gives up after a bounded number of
rounds. `submission`, the call: each post and each captcha request has a timeout.

`accounts`, recovery: weak fairness of the steps of requests, task and refresher
(every upstream call and browser has a timeout), of the refresher's scan, which is
a periodic job, and of the end of a backoff and of the interval; strong fairness of
entering the lock, because `asyncio.Lock` wakes its waiters first come, first
served. Liveness is claimed of the callers' part of the run; the part with two
re-logins leaves the refresher out. `BackoffIsRetried` asks that the refresher and
the account's renewal stay switched on and set up (`RetryDue`): whoever switches
them off ends the promise.

`captcha_services`, the pool: waiters, refill tasks and browsers that recover run on. Getting
a browser is strongly fair, because the dispatcher's condition is FIFO and
polled every quarter of a second, and so is a successful solve: if solving fails
for ever, waiters have only their deadline, which `WaitersAreServed` does not
count on. The tabs, `headed_pool`: the event loop runs every request and
job; page scripts and launches have timeouts.

`video_delivery`: a generation may hang for ever; downloads have a timeout; and
some client keeps asking for some video, because the registry looks at the time
only when it is called. Without that assumption `EveryWorkerEnds` is false.
The route: both event loops run, the keepalive notices dead links, the database
answers; of the asyncio lock only weak fairness is asked. Intake: an onboarding session runs
under `asyncio.wait_for`, so its deadline comes; other calls may hang.

Nothing is assumed of clients, operators, crashes, credits queries or cooldowns.

## 4. Proofs

`LoadBalancerProofs`, for any accounts, media, ceilings and bounds with the
parameters that the modules assume, first about the manager by itself (`Spec`):

* `TypeCorrect` – `TypeOK` is inductive as it stands, with the lemmas that the
  smaller of positive limits, a fresh capacity and an effective limit are positive.
* `NeverStarvedHolds` – follows from the type invariant (learned capacity is at
  least one) and `EffectiveLimitPositive`.
* `SlotAccountingHolds` – inductive relative to `TypeOK`; the delicate steps are
  a release after a removal, where the counter is already zero, and a restart.
* `AdmissionHolds` – an action property: the counter that the guard tests is
  exact for an account that was not removed (`SlotAccounting`), which turns the
  guard into a statement about the slots really held.

Then about selection, tests and operator together (`BalancerSpec`), for any
requests, kinds of callers, call modes and number of events:

* `BalancerUsesManager` – every step is a step of `ConcurrencyManager` or leaves
  its state alone, so `BalancerAccounting` and `BalancerAdmission` carry the
  manager's theorems over. The invariant is `BalancerTypes`: `CallersFit` says at
  which places a coroutine holds a slot. Each caller's step is described once
  (`Moved`: it keeps, takes or drops its slot) and all else is proved of that.
* `HeldIsOwnedHolds` – the counters are the cardinalities of the sets of owners
  (`OneMore`, `OneLess`, `OwnersMoved`). It assumes that no test without a key
  streams its progress (`~LogsProgress \/ "plain" \notin Kinds`): that is the
  case in which `slot_leak` shows it violated.
* `FailingIsDisabledHolds` – by itself inductive, because the one whose failure
  reached the threshold stays at `weigh` or `ban` with the account in its hand
  until it is disabled (`WatchersStay`, `BansWatched`); a success or an
  operator's enabling resets the count first. A client that leaves there puts the
  account among those whose last failure was not weighed (`CancelWatched`), and it
  stays there until a failure is counted again (`CutOffStays`), since the
  counter only grows or is reset. Without that part the property is false: it
  is then `DisabledAfterNErrors`, which the run `ban_cut` violates.
* `RefusedOnlyWhenExhaustedHolds` – by `ChancesCovered`: an account that was
  usable ever since the selection began is still to be tested, or a candidate,
  or in the queue. A candidate that is skipped has just lost what made it usable.

`QuotaHandlerProofs`, for any finite set of keys, any accounts and credits,
first about the ledger by itself (`LedgerSpec`):

* `LedgerTypeCorrect`, `ReservationsHaveAccountsHolds` – inductive.
* `NeverOversoldHolds`, `ChargesBalanceHolds` – by the invariant
  `LedgerInv = LedgerTypeOK /\ NeverOversold /\ ChargesBalance`. The two need
  each other: the books balance only if settling never meets the floor at zero,
  and it does not because every frozen unit is covered. The counting steps are
  lemmas over cardinalities (`ReserveCovered`, `SettleCovered`, `OthersCovered`).

The rest of it are lemmas that both handlers' proofs cite. `Moves(r)` says what
a step of a coroutine may do to its locals and its slot, and `Sound` what a step
of the system must be: one transaction of the ledger, or none, and one operation
of the manager, or none (`MovesSound`, `CommonSound`, `CrashSound`,
`EnvironmentSound`). `Claims` and `OneOwner` say that a key has at most one
request that claimed it, which is the only one past the claim; `SearchGoes` is
the part of the handlers that looks for an account.

`ImageGenerationProofs`, for any requests, keys, accounts and scenarios:

* `ImageTypesHold`, `ImageUsesLedger` and `ImageUsesManager` (the property
  `SlotProtocol`) – each step is `Sound`. `ImageNeverOversold` follows from the
  ledger's theorem.
* `ImageKeepsPromise` – the refinement of `KeyPromise`, by `KeysFit`. A step of
  the handler writes a status without reading it, so that it is a step of the
  promise depends on where the owner is: `OwnersRow` relates its place to the
  status, to the state of the unit and to the number of submissions taken on.
  As the property says, behaviours in which the account is deleted under the
  task, or a reply is lost inside the flow client, are excepted.

`VideoGenerationProofs`, likewise, for any number of crashes:

* `VideoTypesHold`, `VideoUsesLedger`, `VideoUsesManager` – as above, with the
  steps of pollers (`PollerSound`).
* `ReleasedWhenRefusedHolds`, `OutcomeIsFinalHolds`, `VideoKeepsPromise` – by one
  invariant, `VideoInv = HandlerTypes /\ VideoFits /\ KeysFit`. None of them is
  inductive: a poller closes the row by what it has seen, so `PollerFits` relates
  its place to the status, `TellsTruth` to what the upstream really did
  (unless pollers give up) and `TellsWork` the row to the number of submissions
  taken on and to the unit (unless a reply was lost, too). `OwnersRow` and
  `OwnersWork` do the same for the request that claimed the key, which shares
  the row with the poller it created.
* `AcceptedIsWatchedHolds` – `WatchedKey` adds that only the owner can leave the
  place `accepted`, and leaves it with a poller, if no client leaves there.

TLC checked `VideoInv` on the instance of the run `video` before it was proved.

`SubmissionProofs`, of `FlowSubmission` for any budgets:

* `PostsWithinBudgetHolds` – by `FlowInv`, whose part `PostsFit` bounds the posts
  by those of the rounds before (`Past`) and those this round can have sent at
  its stage, quick repeat and page try (`Sent`); `RepeatsFit` says which of these
  counters may be in use, and `RoundEnds` that a full round adds no more than
  `PostsPerRound`.
* `SessionsAreFinishedHolds` – by the part `SessionsFit` of the same invariant.

and of `ResidentTabs` for any requests, accounts, tabs, slots, rebuild tasks, limits
and number of events, by the invariant `TabsInv`:

* `ReservationsHaveOwnersHolds` – the property speaks of any request that could give
  the reservation back; the invariant of one that will. `Reserves` are the places at
  which a request has a reservation on its books and not yet the tab's lock, and
  `Owner` adds that the books name this tab and the slot it has now: tab *and* slot,
  because a reservation is given back by slot id, and a rebuild puts another tab
  there. That no tab has two reservations (`Tabular`) is part of the invariant: the
  one who gives back its reservation leaves none behind. `OffJobs` (only a waiting
  request names a rebuild task) is needed for the end of a rebuild, which writes to
  the books of everyone who waits for it. There is one lemma per kind of step:
  those that leave the books alone (`MoverKeeps`, `NobodyMoves`), add a tab for
  nobody, drop tabs (`DarkTabular`, `ShutdownKeeps`), or change one request's books
  (`TakeKeeps`, `EndKeeps`, `BuildEndsKeeps`, `RebuiltKeeps`).

`AccountProofs`, of `AccountIntake` for any calls of each kind, sessions, length of
imports and events, by one invariant, `IntakeInv`, which TLC checked on the instance
of `accounts`, and with the two sessions in two accounts, before it was proved:

* `SecondRowNeedsARaceHolds` – the property speaks of what a call saw before it
  added its row, so the invariant says what each call knows. `Stable` is what every
  step does to the table: identifiers are not used again and a row keeps its
  account. It holds because whoever writes a session to a row found that row by
  the session's account (`OwnsRow`). Then `Apart`, that no row the call saw is of its
  account, is carried from the look-up (or from the import's snapshot) through the
  awaits to the insertion, and `KnowsAll` extends it over the items of an import:
  an account that the import does not know is one it neither found nor added.
  `SmallestExists` and `LargestExists` (a choice among stored rows is one of them)
  rest on the well-foundedness of the naturals.
* `ReportedProfilesExistHolds` – from `KeepsProfile`: the profile is on disk from
  the launch to the closing, and "added" or "updated" is only reported together
  with the note that keeps it.

and of `AuthRecovery` for any callers, re-logins, sessions, directories, strike
limit and number of restarts, along three inductive invariants:

* `TokenInv` gives `AuthTypeCorrect`, `SessionIsOwnHolds` and `PairMatchesHolds`.
  The type invariant is not inductive by itself: that what a re-login commits
  has the shape of a session follows from `Vetted`, which says that a session is
  the account's own from the identity check to the write, by the refresher and
  by each re-login, whatever happens between the two.
* `LockInv` gives `RecoveryIsExclusiveHolds` and `EntryFollowsTaskHolds`, for
  callers that leave at any moment, also before their task first runs.
  It adds `Returns` (a verdict recorded under the lock is followed by a step
  under the lock) and `TaskRecorded` (exactly a task that is not idle, a dead one
  included, is on record, so that no second one starts); `GoneStaysGone` covers the steps after a deletion,
  where the lock is no longer shared.
* `DiskInv` gives `ProfileStaysOnDiskHolds`. `CandidatesApart` says that the
  directory of a re-login that has not committed is on disk, unmarked, and
  neither the account's nor what another re-login will remove; `ReplacedFree`
  that a re-login that has committed removes a directory the account no longer
  refers to, even if others committed since; `ProfileKept` that the account's
  directory is not marked either, since any removal drains all markers.

`CaptchaProofs`, of `TokenPool` for any requests, refill tasks, browsers and
changes of the pool's size:

* `ReservationsAreHeldHolds` – by `PoolInv`. A reservation is returned by the
  index of a browser, and the index may name another browser when it is. What
  makes this harmless is `GoneAreFree` (an index that names no browser has no
  reservations, so the next browser it names inherits none) together with the
  counting lemmas `BalanceKept` and `BalanceAfterGiveBack`. `WorkersAreAwaited`
  says that whoever works on a browser was sent by its request or refill task,
  which waits for it; without it the steps of the bucket could start a second
  piece of work for the same caller and lose the first one's reservation.

and of `ExtensionCaptcha` for any browsers, handles, sockets and callers, by the
invariant `PairingInv`:

* `HandlesAreUsedOnceHolds` – `HandleIsSomewhere` says that a handle is in the
  dictionary, with exactly one browser, or spent.
* `RevokedIsRefusedHolds` – an action property. `SessionsWereMade` keeps a
  revoked session from being written again; `RowsAreHeld` says that one process at
  a time is inside the asyncio lock, and that the row a verification has read
  stays there while it is inside. A revocation that would take it waits for the
  lock, and is confirmed after the verification has let the session pass.

The first does not rest on the lock: a handle leaves the dictionary in the step
in which a browser begins to exchange it.

and of `HeadedPool` for any calls, accounts, background jobs, slots, TokenBrowsers,
processes, attempts and disturbances, by the invariant `AccountsInv` (`AccountsHold`):

* `SolverIsOnItsAccountHolds` – a solver does not hold the
  lock of its TokenBrowser, only its semaphore, and others recycle, warm and trim
  meanwhile. `Bindings` says that a TokenBrowser is bound to the account whose
  cookies its living browser has; `Makers` that a process under construction is
  nobody else's and has no cookies yet, so that nobody changes those of a browser at
  work; `Turns` that who launches, binds or closes is at the head of the lock's
  queue, through cancellations in the middle of the queue (`Cut`).

TLC checked `TabsInv` and `AccountsInv` on the instances of `submission` and
`headed_pool`. The two proofs also corrected the models: three `CASE` expressions, in
`LookBuilds` and `JobDone` of `ResidentTabs` and in `Chosen` of `HeadedPool`, had arms
that overlap, where TLA+ leaves the value open and TLC takes the first. They are now
`IF`s in the order of the code.

`YingceAdapterProofs`, for any videos, keys, files, capacity of the registry, time
to live and settings of the cache, by one invariant, `DeliveryInv`, which TLC
checked on the instance of `video_delivery` before it was proved. The lemmas about
the registry's methods (`CleanedUp`, `RoomMade`, `Added`, `UpdatesTo`) say what a
call makes of each task and of each key; each action is then a call to some of them.

* `OneWorkPerKeyHolds` – from `Serves`: a worker that is not cancelled works on a
  task that is still active and that the index names under the worker's key. Two
  workers of one key would be named by one entry. `Serves` is kept because a
  clean-up cancels the workers of exactly the tasks that it times out, and
  eviction at capacity takes only ended tasks. `Unborn` (an unused identifier has
  no task) keeps a new worker from sharing its task.
* `OutcomeStaysHolds` – an action property. A late worker was cancelled by
  the clean-up that failed its task; every call begins with a clean-up, so
  a task whose time is up has failed before a result could be written to it.
* `ContentIsServableHolds` – from `Servable`: while a completed task is younger
  than the cache keeps files, its file is there and no older than the task.
  Comparing the two ages makes the property inductive; `FilesKept`, which
  `LooksUpKept`, `StoresKept` and `CacheKeeps` prove of the cache's steps, says
  that no look-up, download or cleanup pass loses or ages a young file.

`TypeOK`, `NeverStarved`, `AdmissionWithinLimit`, `LedgerTypeOK`,
`ChargesBalance`, `ReservationsHaveAccounts` and `AuthTypeOK` are proved and
therefore not checked by a run as well.

Every safety property that a run checks as an invariant is thus a theorem, under the
hypotheses named above. Only model-checked is liveness (`EveryRequestAnswered`,
`AcceptedIsDecided`, `CallEnds`, `EveryRequestEnds`, `EveryCallEnds` and their like),
which together with ENABLED is out of the prover's reach.

## 5. Not modelled

* `handle_generation`: what it does to its parameters, reference images,
  streaming text. The order of load in the default call mode beyond "busy first";
  the random choice between equals is any choice. Membership tiers are one bit.
* Enlarging and the end of a concatenation other than the joining of an
  extension; failures of SQLite itself; a second cancellation inside `finally`.
* The token manager's project pool and its rotation, statistics, 429 bans (which
  nobody sets).
* Browsers: page scripts, launch cooldowns, the lease that keeps a second process
  out, memory and disk cleanup, custom tabs and `refresh_session_token` of the
  personal mode, fingerprints and proxies.
* The image endpoints of the second API and its translation of parameters; the
  download's address checks and redirects; `clear_all` of the cache.
* `protocol_login.py` (a sequence of exchanges without state of its own),
  `proxy_manager.py`, model tables, configuration, logging, monitoring,
  authentication of callers, web pages and helpers for the desktop.

## 6. Plan

Models worth adding: custom tabs of the personal browsers, whose closing job
meets their requests; the project pool; the second API's images.
