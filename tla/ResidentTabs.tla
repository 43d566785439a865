---------------------------- MODULE ResidentTabs ----------------------------
(***************************************************************************)
(* The resident tabs of one personal browser (BrowserCaptchaService in     *)
(* src/services/browser_captcha_personal.py).  Requests reserve a tab of a *)
(* shared pool, bind it to their account, solve on it under its lock, and  *)
(* on failure rebuild the tab or restart the browser; after enough solves  *)
(* the browser is restarted with a fresh profile once the work has         *)
(* drained, and new requests wait for that.                                *)
(*                                                                         *)
(* No block under _resident_lock awaits anything, so such a block is one   *)
(* step.  A tab object outlives its place in the pool: its slot may name a *)
(* newer tab by then.  The order in which idle tabs are offered (affinity  *)
(* of the project, readiness, least recently used) is left out.            *)
(***************************************************************************)
EXTENDS Integers, FiniteSets

CONSTANTS Requests,   \* calls of _get_token_direct
          Tokens,     \* accounts
          TokenOf,    \* the account of each request, or None
          Tabs,       \* tab objects: a bound on those that matter at once
          Slots,      \* slot ids: likewise
          Jobs,       \* rebuild tasks: likewise
          MaxTabs,    \* _max_resident_tabs
          Threshold,  \* _fresh_profile_restart_every_n_solves
          MaxEvents,  \* bound: crashes, cancellations, reports, closings
          Fresh,      \* the fresh profile restart, as the holder of a lock
          None

ASSUME ResidentAssumption ==
    /\ TokenOf \in [Requests -> Tokens \cup {None}]
    /\ MaxTabs \in Nat \ {0} /\ Threshold \in Nat \ {0} /\ MaxEvents \in Nat
    /\ Tabs # {} /\ Slots # {}
    /\ None \notin Tokens \cup Tabs \cup Slots \cup Jobs \cup Requests \cup {Fresh}

VARIABLES browser,      \* "none", "up", or "broken": gone and not noticed
          solves,       \* _successful_solves_since_browser_start
          pending,      \* _fresh_profile_restart_pending
          restart,      \* where _fresh_profile_restart_task is
          recoverer,    \* who holds _runtime_recover_lock
          builder,      \* who holds _tab_build_lock
          doomed,       \* the tab being built belongs to a browser that is gone
          legacy,       \* who holds _legacy_lock
          tab,          \* the tab objects
          pool,         \* _resident_tabs
          unavailable,  \* _resident_unavailable_slots
          job,          \* the rebuild tasks
          entry,        \* _resident_rebuild_tasks
          reap,         \* slots the idle reaper is about to close
          req,          \* the requests
          events        \* history: disturbances so far

browserVars == <<browser, solves, pending, restart, recoverer>>
tabVars == <<tab, pool, unavailable>>
jobVars == <<job, entry>>
residentVars == <<browserVars, builder, doomed, legacy, tabVars, jobVars, reap, req, events>>

----------------------------------------------------------------------------
NoTab == [slot |-> None, token |-> None, pend |-> 0, ready |-> FALSE,
          alive |-> FALSE, lock |-> None]
NoJob == [pc |-> "idle", slot |-> None, old |-> None, token |-> None, by |-> None]
NoReq == [pc |-> "idle", pos |-> "one", tab |-> None, slot |-> None,
          held |-> None, job |-> None]

NewTab(s, k, alive, p) == [slot |-> s, token |-> k, pend |-> p, ready |-> TRUE,
                           alive |-> alive, lock |-> None]

Ended == {"token", "nothing", "raised", "cancelled"}
Running(r) == req[r].pc \notin Ended \cup {"idle"}

At(s) == {t \in pool : tab[t].slot = s}

Busy(t) == tab[t].lock # None \/ tab[t].pend > 0

Full == Cardinality(pool) >= MaxTabs

\* Names nobody holds on to; any will do for something new.
FreeTabs == {t \in Tabs \ pool : /\ tab[t].lock = None
                                 /\ \A r \in Requests : req[r].tab # t
                                 /\ \A j \in Jobs : job[j].old # t}
FreeSlots == {s \in Slots \ reap : /\ At(s) = {} /\ entry[s] = None
                                   /\ \A r \in Requests : s \notin {req[r].slot, req[r].held}
                                   /\ \A j \in Jobs : job[j].slot # s}
Unused(names) == {CHOOSE n \in names : TRUE : m \in names}

\* A tab left of an earlier request, or none; a restart that is due or not.
ResidentInit ==
    /\ browser \in {"none", "up"}
    /\ solves \in 0 .. Threshold /\ (browser = "none" => solves = 0)
    /\ pending = (solves = Threshold)
    /\ restart = "none" /\ recoverer = None /\ builder = None /\ legacy = None
    /\ doomed = FALSE
    /\ \/ pool = {} /\ tab = [u \in Tabs |-> NoTab]
       \/ /\ browser = "up"
          /\ pool = {CHOOSE t \in Tabs : TRUE}
          /\ \E k \in Tokens \cup {None} :
                tab = [t \in Tabs |-> IF t \in pool THEN NewTab(CHOOSE s \in Slots : TRUE, k, TRUE, 0)
                                                    ELSE NoTab]
    /\ unavailable = {}
    /\ job = [j \in Jobs |-> NoJob] /\ entry = [s \in Slots |-> None]
    /\ reap = {} /\ events = 0
    /\ req = [r \in Requests |-> NoReq]

----------------------------------------------------------------------------
(* The script of _get_token_direct.  pos tells which of its many looks at  *)
(* the pool or solves a request is at:                                     *)
(*   pick, picked, waited, probed   looks for the first solve              *)
(*   chilled, cold                  the first tab was not ready            *)
(*   first, again, rebuilt, emptied, retried, last   the solves            *)
(*   mended                         the look after a failed rebuild        *)
(*   one, two                       gates; attempts of the legacy mode     *)

ToBind == {"pick", "picked", "waited", "probed"}
Legacy == <<"legacy", "one">>

\* With a tab in hand.
WithTab(pos) == CASE pos \in ToBind -> <<"bind", pos>>
                  [] pos \in {"chilled", "cold"} -> <<"solve", "first">>
                  [] pos = "mended" -> <<"solve", "rebuilt">>
                  [] OTHER -> <<"solve", pos>>

\* A look or a rebuild came back without a tab.
AfterNone(pos) == CASE pos \in {"pick", "picked"} -> <<"await", "waited">>
                    [] pos = "waited" -> <<"probe", "probed">>
                    [] pos = "chilled" -> <<"recover", "cold">>
                    [] pos = "rebuilt" -> <<"recover", "mended">>
                    [] pos = "mended" -> <<"probe", "emptied">>
                    [] OTHER -> Legacy

\* The browser broke during a look.
AfterRaise(pos) == CASE pos = "pick" -> <<"recover", "picked">>
                     [] pos = "picked" -> <<"await", "waited">>
                     [] OTHER -> <<"raised", "one">>

\* A solve brought nothing; or it failed because the browser broke.
AfterEmpty(pos) == CASE pos = "first" -> <<"rebuild", "rebuilt">>
                     [] pos \in {"rebuilt", "retried"} -> <<"rebuild", "last">>
                     [] OTHER -> Legacy

AfterBroken(pos) == CASE pos = "first" -> <<"recover", "again">>
                      [] pos = "rebuilt" -> <<"recover", "retried">>
                      [] OTHER -> AfterEmpty(pos)

\* The browser was recovered; or it was not.
AfterRecovery(pos) == IF pos = "two" THEN <<"temporary", "two">> ELSE <<"look", pos>>

AfterLoss(pos) == CASE pos = "picked" -> <<"await", "waited">>
                    [] pos = "again" -> <<"rebuild", "rebuilt">>
                    [] pos = "mended" -> <<"probe", "emptied">>
                    [] pos = "retried" -> <<"rebuild", "last">>
                    [] pos = "two" -> <<"temporary", "two">>
                    [] OTHER -> Legacy

At2(q, to) == [q EXCEPT !.pc = to[1], !.pos = to[2]]
Goto(r, to) == req' = [req EXCEPT ![r] = At2(@, to)]

\* The bound on what goes wrong: disturbances, and failures of a browser that
\* is well.  A failure for which there is a reason needs no leave.
Disturbed == events < MaxEvents /\ events' = events + 1
Fails(reason) == IF reason THEN UNCHANGED events ELSE Disturbed
Sick == doomed \/ browser # "up"

----------------------------------------------------------------------------
(* Reservations.                                                           *)

\* Tab objects that neither the pool nor a request refers to are collected.
Live(f, p, q) == [t \in Tabs |-> IF t \in p \/ \E r \in Requests : q[r].tab = t THEN f[t] ELSE NoTab]

Less(n) == IF n = 0 THEN 0 ELSE n - 1
Least(a, b) == IF a < b THEN a ELSE b

\* _mark_resident_slot_unavailable: the tab the slot names now, or the request's
\* own, is not ready any more.
Marked(f, s, t) ==
    [u \in Tabs |-> IF u \in At(s) \/ (At(s) = {} /\ u = t) THEN [f[u] EXCEPT !.ready = FALSE] ELSE f[u]]

\* _release_resident_slot_reservation by slot id: the tab the slot names now.
Released(s) == [t \in Tabs |-> IF t \in At(s) THEN [tab[t] EXCEPT !.pend = Less(@)] ELSE tab[t]]

\* _reserve_resident_slot_for_solve_locked, and what the request remembers.
Take(r, t) ==
    /\ tab' = [tab EXCEPT ![t].pend = @ + 1]
    /\ req' = [req EXCEPT ![r] = At2([@ EXCEPT !.tab = t, !.slot = tab[t].slot,
                                               !.held = tab[t].slot],
                                     WithTab(@.pos))]

TakeNone(r, to) ==
    /\ req' = [req EXCEPT ![r] = At2([@ EXCEPT !.tab = None, !.slot = None], to)]
    /\ tab' = Live(tab, pool, req')

\* The request ends; finally gives back the slot it still has on its books.
Return(r, result) ==
    /\ req' = [req EXCEPT ![r] = [NoReq EXCEPT !.pc = result]]
    /\ tab' = Live(Released(req[r].held), pool, req')

----------------------------------------------------------------------------
(* The browser's runtime.                                                  *)

\* _cancel_background_runtime_tasks: rebuild tasks on record and, unless it is
\* the caller, the fresh profile restart.  Whoever awaits a cancelled task is
\* cancelled with it, for the shields only keep the task from the waiters.
Cancelled(j) == \E s \in Slots : entry[s] = j

CancelTasks(q, self) ==
    /\ job' = [j \in Jobs |-> IF Cancelled(j) THEN NoJob ELSE job[j]]
    /\ entry' = [s \in Slots |-> None]
    /\ restart' = IF self = Fresh THEN "launching" ELSE "none"
    /\ req' = [r \in Requests |->
                 IF \/ q[r].pc \in {"rebuilding", "awaiting"} /\ Cancelled(q[r].job)
                    \/ q[r].pc = "gated" /\ self # Fresh
                 THEN [NoReq EXCEPT !.pc = "cancelled"] ELSE q[r]]
    /\ builder' = IF builder \in Jobs /\ Cancelled(builder) THEN None ELSE builder

\* _shutdown_browser_runtime_locked.
Shutdown(q, self) ==
    /\ CancelTasks(q, self)
    /\ solves' = 0 /\ pending' = FALSE
    /\ pool' = {} /\ unavailable' = {}
    /\ tab' = Live([t \in Tabs |-> [tab[t] EXCEPT !.alive = FALSE]], {}, req')
    /\ doomed' = (builder' # None)

\* _has_active_browser_work.
Active == legacy # None \/ builder # None \/ \E t \in pool : Busy(t)

\* The browser started again: with the tab of the request it was restarted
\* for, without it, or not at all.
Relaunched(k) ==
    \/ /\ browser' = "up" /\ builder = None /\ ~Full
       /\ \E t \in Unused(FreeTabs), s \in Unused(FreeSlots) :
             tab' = [tab EXCEPT ![t] = NewTab(s, k, TRUE, 0)] /\ pool' = pool \cup {t}
    \/ browser' = "up" /\ UNCHANGED <<tab, pool>>

\* _maybe_execute_pending_fresh_profile_restart.
Schedule(due) == restart' = IF due /\ restart = "none" THEN "draining" ELSE restart

\* The restart task is over; the requests it held up look again.
Woken == [r \in Requests |-> IF req[r].pc = "gated" THEN [req[r] EXCEPT !.pc = "gate"] ELSE req[r]]

RestartDrains ==
    /\ restart = "draining" /\ ~Active
    /\ restart' = "checking"
    /\ UNCHANGED <<browser, solves, pending, recoverer, builder, doomed, legacy, tabVars,
                   jobVars, reap, req, events>>

\* Under _runtime_recover_lock it looks again.
RestartShuts ==
    /\ restart = "checking" /\ recoverer = None
    /\ pending /\ ~Active
    /\ Shutdown(req, Fresh)
    /\ browser' = "none" /\ recoverer' = Fresh
    /\ UNCHANGED <<legacy, reap, events>>

RestartDefers ==
    /\ restart = "checking" /\ recoverer = None
    /\ ~pending \/ Active
    /\ restart' = "none" /\ req' = Woken
    /\ UNCHANGED <<browser, solves, pending, recoverer, builder, doomed, legacy, tabVars,
                   jobVars, reap, events>>

RestartEnds ==
    /\ restart = "launching"
    /\ \/ (\E k \in Tokens \cup {None} : Relaunched(k)) /\ UNCHANGED events
       \/ UNCHANGED <<browser, tab, pool>> /\ Disturbed
    /\ restart' = "none" /\ recoverer' = None /\ req' = Woken
    /\ UNCHANGED <<solves, pending, builder, doomed, legacy, unavailable, jobVars, reap>>

RestartNext == RestartDrains \/ RestartShuts \/ RestartDefers \/ RestartEnds

\* _recover_browser_runtime: one at a time; a browser that answers is taken as
\* it is, for another request may have restarted it meanwhile.
RecoverReuses(r) ==
    /\ req[r].pc = "recover" /\ recoverer = None /\ browser = "up"
    /\ Goto(r, AfterRecovery(req[r].pos))
    /\ UNCHANGED <<browserVars, builder, doomed, legacy, tabVars, jobVars, reap, events>>

RecoverShuts(r) ==
    /\ req[r].pc = "recover" /\ recoverer = None /\ browser # "up"
    /\ recoverer' = r
    /\ Shutdown([req EXCEPT ![r].pc = "relaunch"], r)
    /\ browser' = "none"
    /\ UNCHANGED <<legacy, reap, events>>

RecoverEnds(r) ==
    /\ req[r].pc = "relaunch"
    /\ recoverer' = None
    /\ \/ Relaunched(TokenOf[r]) /\ Goto(r, AfterRecovery(req[r].pos)) /\ UNCHANGED events
       \/ UNCHANGED <<browser, tab, pool>> /\ Goto(r, AfterLoss(req[r].pos)) /\ Disturbed
    /\ UNCHANGED <<solves, pending, restart, builder, doomed, legacy, unavailable, jobVars, reap>>

----------------------------------------------------------------------------
(* A request before it has a tab.                                          *)

Start(r) ==
    /\ req[r].pc = "idle"
    /\ Goto(r, <<"gate", "one">>)
    /\ UNCHANGED <<browserVars, builder, doomed, legacy, tabVars, jobVars, reap, events>>

\* _wait_for_pending_fresh_profile_restart_before_solve, which every request
\* passes before and after it initializes the browser.
GatePasses(r) ==
    /\ req[r].pc = "gate" /\ restart = "none" /\ ~pending
    /\ \/ /\ req[r].pos = "two" \/ browser # "none"
          /\ Goto(r, <<"look", "pick">>)
       \/ req[r].pos = "one" /\ browser # "up" /\ Goto(r, <<"init", "two">>)
    /\ UNCHANGED <<browserVars, builder, doomed, legacy, tabVars, jobVars, reap, events>>

GateWaits(r) ==
    /\ req[r].pc = "gate" /\ (restart # "none" \/ pending)
    /\ Schedule(pending)
    /\ Goto(r, <<"gated", req[r].pos>>)
    /\ UNCHANGED <<browser, solves, pending, recoverer, builder, doomed, legacy, tabVars,
                   jobVars, reap, events>>

\* initialize, when there is no browser or it was seen to be broken.
InitClearsAway(r) ==
    /\ req[r].pc = "init" /\ browser = "broken"
    /\ Shutdown(req, r)
    /\ browser' = "none"
    /\ recoverer' = IF recoverer = Fresh THEN None ELSE recoverer
    /\ UNCHANGED <<legacy, reap, events>>

InitEnds(r) ==
    /\ req[r].pc = "init" /\ browser # "broken"
    /\ \/ browser' = "up" /\ req' = [req EXCEPT ![r].pc = "gate"] /\ UNCHANGED events
       \/ /\ browser = "none" /\ UNCHANGED browser /\ Disturbed
          /\ req' = [req EXCEPT ![r] = [NoReq EXCEPT !.pc = "raised"]]
    /\ UNCHANGED <<solves, pending, restart, recoverer, builder, doomed, legacy, tabVars,
                   jobVars, reap>>

\* The idle tabs a look may yield; one bound to the request's account already
\* comes first.
Offer(r) ==
    LET idle == {t \in pool : tab[t].slot \notin unavailable /\ ~Busy(t)}
        own == {t \in idle : tab[t].token = TokenOf[r]}
    IN IF TokenOf[r] # None /\ own # {} THEN own ELSE idle

Fits(r, t) == TokenOf[r] \in {None, tab[t].token}
Fitting(r) == {t \in Offer(r) : Fits(r, t)}

\* _ensure_resident_tab, first block.
LookFinds(r) ==
    /\ req[r].pc = "look"
    /\ \E t \in Fitting(r) : Take(r, t)
    /\ UNCHANGED <<browserVars, builder, doomed, legacy, pool, unavailable, jobVars, reap, events>>

LookFull(r) ==
    /\ req[r].pc = "look" /\ Fitting(r) = {} /\ Full /\ TokenOf[r] = None
    /\ TakeNone(r, AfterNone(req[r].pos))
    /\ UNCHANGED <<browserVars, builder, doomed, legacy, pool, unavailable, jobVars, reap, events>>

\* With all tabs busy it naps for the tab it prefers; else, or then, it makes
\* room and builds a tab.
LookBuilds(r) ==
    /\ req[r].pc = "look" /\ Fitting(r) = {} /\ (Full => TokenOf[r] # None)
    /\ Goto(r, <<IF ~Full THEN "build" ELSE IF Offer(r) = {} THEN "nap" ELSE "evict", req[r].pos>>)
    /\ UNCHANGED <<browserVars, builder, doomed, legacy, tabVars, jobVars, reap, events>>

Nap(r) ==
    /\ req[r].pc = "nap"
    /\ \/ \E t \in Offer(r) : Take(r, t)
       \/ Goto(r, <<"evict", req[r].pos>>) /\ UNCHANGED tab
    /\ UNCHANGED <<browserVars, builder, doomed, legacy, pool, unavailable, jobVars, reap, events>>

\* _close_resident_tab; a rebuild of the slot goes on, but off the record.
Close(S) ==
    /\ pool' = pool \ S
    /\ tab' = Live([t \in Tabs |-> [tab[t] EXCEPT !.alive = @ /\ t \notin S]], pool', req)
    /\ unavailable' = unavailable \ {tab[t].slot : t \in S}
    /\ entry' = [s \in Slots |-> IF \E t \in S : tab[t].slot = s THEN None ELSE entry[s]]

\* _evict_lru_tab_if_needed: any tab nobody holds the lock of, reserved or not.
Victims == {t \in pool : Full /\ tab[t].lock = None}

EvictPicks(r) ==
    /\ req[r].pc = "evict"
    /\ IF Victims = {} THEN Goto(r, <<"build", req[r].pos>>)
       ELSE \E t \in Victims : req' = [req EXCEPT ![r].pc = "evicting", ![r].slot = tab[t].slot]
    /\ UNCHANGED <<browserVars, builder, doomed, legacy, tabVars, jobVars, reap, events>>

EvictCloses(r) ==
    /\ req[r].pc = "evicting"
    /\ req' = [req EXCEPT ![r].pc = "build", ![r].slot = None]
    /\ Close(At(req[r].slot))
    /\ UNCHANGED <<browserVars, builder, doomed, legacy, job, reap, events>>

\* The second look, under _tab_build_lock.
BuildFinds(r) ==
    /\ req[r].pc = "build" /\ builder = None
    /\ \E t \in IF Full THEN Offer(r) ELSE Fitting(r) : Take(r, t)
    /\ UNCHANGED <<browserVars, builder, doomed, legacy, pool, unavailable, jobVars, reap, events>>

BuildFull(r) ==
    /\ req[r].pc = "build" /\ builder = None /\ Full /\ Offer(r) = {}
    /\ TakeNone(r, AfterNone(req[r].pos))
    /\ UNCHANGED <<browserVars, builder, doomed, legacy, pool, unavailable, jobVars, reap, events>>

BuildBegins(r) ==
    /\ req[r].pc = "build" /\ builder = None /\ ~Full /\ Fitting(r) = {}
    /\ builder' = r /\ doomed' = FALSE
    /\ Goto(r, <<"creating", req[r].pos>>)
    /\ UNCHANGED <<browserVars, legacy, tabVars, jobVars, reap, events>>

\* A tab is made; or none, and then one that came free meanwhile will do; or
\* the browser breaks.  A tab may still be recorded when its browser is gone.
BuildEnds(r) ==
    /\ req[r].pc = "creating"
    /\ builder' = None
    /\ \/ \E t \in Unused(FreeTabs), s \in Unused(FreeSlots) :
             /\ pool' = pool \cup {t}
             /\ tab' = [tab EXCEPT ![t] = NewTab(s, TokenOf[r], ~doomed /\ browser = "up", 1)]
             /\ req' = [req EXCEPT ![r] = At2([@ EXCEPT !.tab = t, !.slot = s, !.held = s],
                                              WithTab(@.pos))]
             /\ UNCHANGED events
       \/ \E t \in Fitting(r) : Take(r, t) /\ UNCHANGED pool /\ Fails(Sick)
       \/ Fitting(r) = {} /\ TakeNone(r, AfterNone(req[r].pos)) /\ UNCHANGED pool /\ Fails(Sick)
       \/ Sick /\ TakeNone(r, AfterRaise(req[r].pos)) /\ UNCHANGED <<pool, events>>
    /\ UNCHANGED <<browserVars, doomed, legacy, unavailable, jobVars, reap>>

\* _probe_browser_runtime: only a browser that does not answer is recovered.
Probed(pos) == IF browser = "up" THEN Legacy ELSE <<"recover", pos>>

\* _wait_for_active_resident_rebuild: for any rebuild on record.
Await(r) ==
    /\ req[r].pc = "await"
    /\ IF \E s \in Slots : entry[s] # None
       THEN \E s \in Slots : /\ entry[s] # None
                             /\ req' = [req EXCEPT ![r].pc = "awaiting", ![r].job = entry[s]]
       ELSE Goto(r, Probed("probed"))
    /\ UNCHANGED <<browserVars, builder, doomed, legacy, tabVars, jobVars, reap, events>>

AwaitTimesOut(r) ==
    /\ req[r].pc = "awaiting"
    /\ req' = [req EXCEPT ![r] = At2([@ EXCEPT !.job = None], AfterNone("waited"))]
    /\ UNCHANGED <<browserVars, builder, doomed, legacy, tabVars, jobVars, reap, events>>

Probe(r) ==
    /\ req[r].pc = "probe"
    /\ Goto(r, Probed(req[r].pos))
    /\ UNCHANGED <<browserVars, builder, doomed, legacy, tabVars, jobVars, reap, events>>

----------------------------------------------------------------------------
(* A request with a tab.                                                   *)

\* _ensure_resident_token_binding: a tab of another account is bound anew; a
\* tab that is not ready then is marked, given back, and rebuilt.
Bind(r) ==
    LET t == req[r].tab
        solve == [req EXCEPT ![r] = At2(@, <<"solve", "first">>)]
        chill == [req EXCEPT ![r] = At2([@ EXCEPT !.tab = None, !.held = None],
                                        <<"rebuild", "chilled">>)]
        rebound == TokenOf[r] # None /\ tab[t].lock = None
    IN /\ req[r].pc = "bind"
       /\ \/ /\ \/ Fits(r, t) /\ tab[t].ready /\ UNCHANGED tab
                \/ /\ rebound /\ tab[t].alive
                   /\ tab' = [tab EXCEPT ![t].token = TokenOf[r], ![t].ready = TRUE]
             /\ req' = solve /\ UNCHANGED <<unavailable, events>>
          \/ /\ req' = chill
             /\ unavailable' = unavailable \cup {req[r].slot}
             /\ \/ /\ Fits(r, t) /\ ~tab[t].ready
                   /\ tab' = Live(Marked(Released(req[r].held), req[r].slot, t), pool, req')
                   /\ UNCHANGED events
                \/ /\ rebound /\ Fails(~tab[t].alive)
                   /\ tab' = Live([Marked(Released(req[r].held), req[r].slot, t) EXCEPT ![t].ready = FALSE],
                                  pool, req')
       /\ UNCHANGED <<browserVars, builder, doomed, legacy, pool, jobVars, reap>>

\* Mutant of SolveBegins: the reservation is kept while the request solves.
SolveBeginsReserved(r) ==
    LET t == req[r].tab
    IN /\ req[r].pc = "solve" /\ tab[t].ready /\ tab[t].lock = None
       /\ tab' = [tab EXCEPT ![t].lock = r]
       /\ req' = [req EXCEPT ![r].pc = "solving"]
       /\ UNCHANGED <<browserVars, builder, doomed, legacy, pool, unavailable, jobVars, reap, events>>

\* _solve_with_resident_tab: the reservation of this tab turns into its lock.
SolveBegins(r) ==
    LET t == req[r].tab
    IN /\ req[r].pc = "solve" /\ tab[t].ready /\ tab[t].lock = None
       /\ tab' = [tab EXCEPT ![t].lock = r, ![t].pend = Less(@)]
       /\ req' = [req EXCEPT ![r].pc = "solving"]
       /\ UNCHANGED <<browserVars, builder, doomed, legacy, pool, unavailable, jobVars, reap, events>>

\* Nothing came of a solve; who goes on to a rebuild still has the tab in hand.
Unsolved(r, to) ==
    LET kept == IF to[1] = "rebuild" THEN req[r].tab ELSE None
    IN [req EXCEPT ![r] = At2([@ EXCEPT !.tab = kept, !.held = None], to)]

\* Somebody marked the tab meanwhile.  Before the first solve the request then
\* falls back and keeps its reservation.
SolveUnready(r) ==
    /\ req[r].pc = "solve" /\ ~tab[req[r].tab].ready
    /\ IF req[r].pos = "first" THEN Goto(r, Legacy) /\ UNCHANGED tab
       ELSE /\ req' = Unsolved(r, AfterEmpty(req[r].pos))
            /\ tab' = Live([tab EXCEPT ![req[r].tab].pend = Less(@)], pool, req')
    /\ UNCHANGED <<browserVars, builder, doomed, legacy, pool, unavailable, jobVars, reap, events>>

\* _record_browser_solve_success.
Counted == /\ solves' = Least(solves + 1, Threshold)
           /\ pending' = (pending \/ solves + 1 >= Threshold)

SolveOk(r) ==
    /\ req[r].pc = "solving" /\ tab[req[r].tab].alive
    /\ tab' = [tab EXCEPT ![req[r].tab].lock = None]
    /\ req' = [req EXCEPT ![r].pc = "solved"]
    /\ Counted
    /\ UNCHANGED <<browser, restart, recoverer, builder, doomed, legacy, pool, unavailable,
                   jobVars, reap, events>>

\* Mutant of SolveFails: the lock of the tab stays with the request.
SolveFailsLocked(r) ==
    LET t == req[r].tab
    IN /\ req[r].pc = "solving"
       /\ \/ req' = Unsolved(r, AfterEmpty(req[r].pos))
          \/ ~tab[t].alive /\ req' = Unsolved(r, AfterBroken(req[r].pos))
       /\ tab' = Live(tab, pool, req') /\ Fails(~tab[t].alive)
       /\ UNCHANGED <<browserVars, builder, doomed, legacy, pool, unavailable, jobVars, reap>>

\* No token, or an exception, which may tell that the browser broke.  (What is
\* to be rebuilt is marked when it is.)
SolveFails(r) ==
    LET t == req[r].tab
        free == [tab EXCEPT ![t].lock = None]
    IN /\ req[r].pc = "solving"
       /\ \/ /\ req' = Unsolved(r, AfterEmpty(req[r].pos))
             /\ tab' = Live(free, pool, req')
             /\ UNCHANGED unavailable
          \/ /\ ~tab[t].alive
             /\ req' = Unsolved(r, AfterBroken(req[r].pos))
             /\ IF req[r].pos = "first"
                THEN /\ tab' = Live(Marked(free, req[r].slot, t), pool, req')
                     /\ unavailable' = unavailable \cup {req[r].slot}
                ELSE tab' = Live(free, pool, req') /\ UNCHANGED unavailable
       /\ Fails(~tab[t].alive)
       /\ UNCHANGED <<browserVars, builder, doomed, legacy, pool, jobVars, reap>>

\* After the lock is free the request still reads the page and the cookies.
Deliver(r) ==
    /\ req[r].pc = "solved"
    /\ Schedule(pending)
    /\ req' = [req EXCEPT ![r] = [NoReq EXCEPT !.pc = "token"]]
    /\ tab' = Live(tab, pool, req')
    /\ UNCHANGED <<browser, solves, pending, recoverer, builder, doomed, legacy, pool,
                   unavailable, jobVars, reap, events>>

----------------------------------------------------------------------------
(* Rebuilding a slot: one task per slot, shared by all who ask for it.     *)

Begin(s, k, by) ==
    \E j \in Unused({i \in Jobs : job[i].pc = "idle"}) :
        /\ job' = [job EXCEPT ![j] = [NoJob EXCEPT !.pc = "queued", !.slot = s, !.token = k, !.by = by]]
        /\ entry' = [entry EXCEPT ![s] = j]

Rebuild(r) ==
    LET s == req[r].slot
    IN /\ req[r].pc = "rebuild"
       /\ IF entry[s] = None THEN Begin(s, TokenOf[r], r) ELSE UNCHANGED jobVars
       /\ req' = [req EXCEPT ![r].pc = "rebuilding", ![r].job = entry'[s], ![r].tab = None]
       /\ tab' = Live(Marked(tab, s, req[r].tab), pool, req')
       /\ unavailable' = unavailable \cup {s}
       /\ UNCHANGED <<browserVars, builder, doomed, legacy, pool, reap, events>>

\* The task takes the old tab out of the pool and destroys its page before it
\* waits for whoever solves on it.
JobStarts(j) ==
    LET old == At(job[j].slot)
    IN /\ job[j].pc = "queued" /\ builder = None
       /\ builder' = j /\ doomed' = FALSE
       /\ pool' = pool \ old
       /\ tab' = Live([t \in Tabs |-> [tab[t] EXCEPT !.alive = @ /\ t \notin old]], pool', req)
       /\ job' = [job EXCEPT ![j].pc = "closing",
                             ![j].old = IF old = {} THEN None ELSE CHOOSE t \in old : TRUE]
       /\ UNCHANGED <<browserVars, legacy, unavailable, entry, reap, req, events>>

JobCloses(j) ==
    /\ job[j].pc = "closing"
    /\ \A t \in Tabs : t = job[j].old => tab[t].lock = None
    /\ job' = [job EXCEPT ![j].pc = "creating", ![j].old = None]
    /\ UNCHANGED <<browserVars, builder, doomed, legacy, tabVars, entry, reap, req, events>>

\* The task is over: those who wait for it go on with its tab, if any.
JobDone(j, t, to) ==
    /\ builder' = None
    /\ job' = [job EXCEPT ![j] = NoJob]
    /\ entry' = [s \in Slots |-> IF entry[s] = j THEN None ELSE entry[s]]
    /\ req' = [r \in Requests |->
                 IF req[r].job # j THEN req[r]
                 ELSE IF req[r].pc = "awaiting"
                 THEN At2([req[r] EXCEPT !.job = None],
                          IF to = "raised" THEN AfterNone("waited") ELSE <<"look", "waited">>)
                 ELSE [req[r] EXCEPT !.job = None, !.tab = t, !.pc = to]]

JobBuilds(j) ==
    /\ job[j].pc = "creating"
    /\ \E t \in Unused(FreeTabs) :
          /\ pool' = pool \cup {t}
          /\ tab' = [tab EXCEPT ![t] = NewTab(job[j].slot, job[j].token, ~doomed /\ browser = "up", 0)]
          /\ JobDone(j, t, "rebuilt")
    /\ unavailable' = unavailable \ {job[j].slot}
    /\ UNCHANGED <<browserVars, doomed, legacy, reap, events>>

JobFails(j) ==
    /\ job[j].pc = "creating"
    /\ \/ JobDone(j, None, "rebuilt")
       \/ Sick /\ JobDone(j, None, "raised")
    /\ Fails(Sick)
    /\ UNCHANGED <<browserVars, doomed, legacy, tabVars, reap>>

\* finalize: the slot's tab of now is reserved, unless somebody was faster.
Rebuilt(r) ==
    LET now == At(req[r].slot)
    IN /\ req[r].pc = "rebuilt"
       /\ IF req[r].tab = None THEN TakeNone(r, AfterNone(req[r].pos))
          ELSE LET t == IF now = {} THEN req[r].tab ELSE CHOOSE u \in now : TRUE
               IN IF Busy(t) THEN TakeNone(r, AfterNone(req[r].pos)) ELSE Take(r, t)
       /\ UNCHANGED <<browserVars, builder, doomed, legacy, pool, unavailable, jobVars, reap, events>>

----------------------------------------------------------------------------
(* The last resort: a temporary page, one request at a time, two attempts. *)

LegacyBegins(r) ==
    /\ req[r].pc = "legacy" /\ legacy = None
    /\ legacy' = r
    /\ Goto(r, <<"temporary", "one">>)
    /\ UNCHANGED <<browserVars, builder, doomed, tabVars, jobVars, reap, events>>

LegacyEnds(r) ==
    /\ req[r].pc = "temporary"
    /\ legacy' = None
    /\ \/ browser = "up" /\ Counted /\ Schedule(pending') /\ Return(r, "token") /\ UNCHANGED events
       \/ UNCHANGED <<solves, pending, restart>> /\ Return(r, "nothing")
          /\ Fails(browser # "up")
       \/ browser = "none" /\ UNCHANGED <<solves, pending, restart>> /\ Return(r, "raised")
          /\ UNCHANGED events
    /\ UNCHANGED <<browser, recoverer, builder, doomed, pool, unavailable, jobVars, reap>>

LegacyRecovers(r) ==
    /\ req[r].pc = "temporary" /\ req[r].pos = "one" /\ browser # "up"
    /\ Goto(r, <<"recover", "two">>)
    /\ UNCHANGED <<browserVars, builder, doomed, legacy, tabVars, jobVars, reap, events>>

----------------------------------------------------------------------------
(* Disturbances.                                                           *)

Crash ==
    /\ Disturbed /\ browser = "up"
    /\ browser' = "broken"
    /\ tab' = [t \in Tabs |-> [tab[t] EXCEPT !.alive = FALSE]]
    /\ doomed' = (builder # None)
    /\ UNCHANGED <<solves, pending, restart, recoverer, builder, legacy, pool, unavailable,
                   jobVars, reap, req>>

\* The client goes away.  Whatever lock the request holds is free, its slot is
\* given back, and a rebuild it began goes on off the record.
Disconnect(r) ==
    /\ Disturbed /\ Running(r)
    /\ builder' = IF builder = r THEN None ELSE builder
    /\ legacy' = IF legacy = r THEN None ELSE legacy
    /\ recoverer' = IF recoverer = r THEN None ELSE recoverer
    /\ entry' = [s \in Slots |-> IF \E j \in Jobs : entry[s] = j /\ job[j].by = r
                                                   /\ req[r].job = j /\ req[r].pc = "rebuilding"
                                 THEN None ELSE entry[s]]
    /\ req' = [req EXCEPT ![r] = [NoReq EXCEPT !.pc = "cancelled"]]
    /\ tab' = Live([t \in Tabs |-> [Released(req[r].held)[t] EXCEPT !.lock = IF @ = r THEN None ELSE @]],
                   pool, req')
    /\ UNCHANGED <<browser, solves, pending, restart, doomed, pool, unavailable, job, reap>>

\* _idle_tab_reaper_loop picks tabs nobody holds the lock of, and closes them
\* one after the other.
ReapPicks ==
    /\ Disturbed /\ reap = {}
    /\ \E S \in SUBSET {t \in pool : tab[t].lock = None} :
          S # {} /\ reap' = {tab[t].slot : t \in S}
    /\ UNCHANGED <<browserVars, builder, doomed, legacy, tabVars, jobVars, req>>

ReapCloses ==
    /\ \E s \in reap : Close(At(s)) /\ reap' = reap \ {s}
    /\ UNCHANGED <<browserVars, builder, doomed, legacy, job, req, events>>

\* reclaim_runtime_memory: background tasks are cancelled, idle tabs closed.
Reclaim ==
    /\ Disturbed
    /\ CancelTasks(req, None)
    /\ recoverer' = IF recoverer = Fresh THEN None ELSE recoverer
    /\ \E S \in SUBSET {t \in pool : ~Busy(t)} :
          /\ pool' = pool \ S
          /\ tab' = Live([t \in Tabs |-> [tab[t] EXCEPT !.alive = @ /\ t \notin S]], pool', req')
          /\ unavailable' = unavailable \ {tab[t].slot : t \in S}
    /\ UNCHANGED <<browser, solves, pending, doomed, legacy, reap>>

\* report_flow_error: a token of the slot was refused by the upstream.
ReportFresh ==
    /\ Disturbed /\ browser # "none"
    /\ \E t \in pool : /\ unavailable' = unavailable \cup {tab[t].slot}
                       /\ tab' = Marked(tab, tab[t].slot, t)
    /\ pending' = TRUE
    /\ Schedule(TRUE)
    /\ UNCHANGED <<browser, solves, recoverer, builder, doomed, legacy, pool, jobVars,
                   reap, req>>

ReportReloads ==
    /\ Disturbed /\ browser # "none"
    /\ \E t \in pool :
          /\ tab[t].lock = None
          /\ \/ tab[t].alive /\ tab' = [tab EXCEPT ![t].ready = TRUE]
                             /\ unavailable' = unavailable \ {tab[t].slot}
             \/ tab' = [tab EXCEPT ![t].ready = FALSE] /\ UNCHANGED unavailable
    /\ UNCHANGED <<browserVars, builder, doomed, legacy, pool, jobVars, reap, req>>

ReportRebuilds ==
    /\ Disturbed /\ browser # "none"
    /\ \E t \in pool, k \in Tokens \cup {None} :
          /\ entry[tab[t].slot] = None /\ Begin(tab[t].slot, k, None)
          /\ unavailable' = unavailable \cup {tab[t].slot}
          /\ tab' = Marked(tab, tab[t].slot, t)
    /\ UNCHANGED <<browserVars, builder, doomed, legacy, pool, reap, req>>

ReportRestarts ==
    /\ Disturbed /\ browser # "none" /\ recoverer = None
    /\ Shutdown(req, None)
    /\ browser' \in {"up", "none"}
    /\ UNCHANGED <<recoverer, legacy, reap>>

----------------------------------------------------------------------------
RequestNext(r) ==
    \/ GatePasses(r) \/ GateWaits(r) \/ InitClearsAway(r) \/ InitEnds(r)
    \/ LookFinds(r) \/ LookFull(r) \/ LookBuilds(r) \/ Nap(r) \/ EvictPicks(r) \/ EvictCloses(r)
    \/ BuildFinds(r) \/ BuildFull(r) \/ BuildBegins(r) \/ BuildEnds(r)
    \/ Await(r) \/ AwaitTimesOut(r) \/ Probe(r)
    \/ RecoverReuses(r) \/ RecoverShuts(r) \/ RecoverEnds(r)
    \/ Bind(r) \/ SolveBegins(r) \/ SolveUnready(r) \/ SolveOk(r) \/ SolveFails(r) \/ Deliver(r)
    \/ Rebuild(r) \/ Rebuilt(r)
    \/ LegacyBegins(r) \/ LegacyEnds(r) \/ LegacyRecovers(r)

JobNext(j) == JobStarts(j) \/ JobCloses(j) \/ JobBuilds(j) \/ JobFails(j)

Disturbance ==
    \/ Crash \/ ReapPicks \/ Reclaim
    \/ ReportFresh \/ ReportReloads \/ ReportRebuilds \/ ReportRestarts
    \/ \E r \in Requests : Disconnect(r)

ResidentNext ==
    \/ \E r \in Requests : Start(r) \/ RequestNext(r)
    \/ \E j \in Jobs : JobNext(j)
    \/ RestartNext \/ ReapCloses
    \/ Disturbance

ResidentSpec == ResidentInit /\ [][ResidentNext]_residentVars

\* Everything that was begun goes on: solves and page loads have time limits.
ResidentFairness ==
    /\ \A r \in Requests : WF_residentVars(RequestNext(r))
    /\ \A j \in Jobs : WF_residentVars(JobNext(j))
    /\ WF_residentVars(RestartNext)

----------------------------------------------------------------------------
\* A tab never looks reserved on account of nobody, or the restart with a fresh
\* profile would wait for it for good and every request behind it.
ReservationsHaveOwners ==
    \A t \in pool : tab[t].pend > 0 =>
        \E r \in Requests : req[r].tab = t /\ req[r].held = tab[t].slot /\ req[r].pc # "solving"

\* A request gets a token, nothing, or an error in the end, whatever it has to
\* wait for: a restart, a rebuild of others, the browser's recovery, a lock.
EveryRequestEnds == \A r \in Requests : Running(r) ~> req[r].pc \in Ended
=============================================================================
