----------------------------- MODULE HeadedPool -----------------------------
(***************************************************************************)
(* The pool of headed browsers (src/services/browser_captcha.py): the      *)
(* service BrowserCaptchaService hands out slots, and the TokenBrowser of  *)
(* a slot keeps one browser that is bound to the account it works for.     *)
(* A browser is a process of the operating system that a Playwright driver *)
(* owns, a process of its own: either can die, and a browser can outlive   *)
(* whoever knew of it.  Pids, and the pid file of a slot, name the driver, *)
(* whose end is that of its browser.                                       *)
(*                                                                         *)
(* No block under _browsers_lock or _slot_allocation_lock suspends, so     *)
(* such a block is one step.  Requests, warm-ups, the idle reaper, error   *)
(* reports and removals meet at the lock of a TokenBrowser, which is FIFO. *)
(* A TokenBrowser taken out of the pool lives on while it is being used.   *)
(***************************************************************************)
EXTENDS Integers, FiniteSets, Sequences

CONSTANTS ServiceCalls,     \* calls of the service
          KindsOf,          \* the methods each may call: "token", "submit", "custom"
          TokenOf,          \* the account of each request, or None
          Jobs,             \* background coroutines: a bound on those at work at once
          Copies,           \* TokenBrowsers of one slot in use at once: likewise
          Forks,            \* processes of one slot that matter at once: likewise
          MaxCount,         \* largest browser_count an operator configures
          MaxAttempts,      \* 3 in the code
          MaxDisturbances,  \* bound: reports, settings, deaths, cancellations, restarts
          None

ASSUME HeadedAssumption ==
    /\ KindsOf \in [ServiceCalls -> SUBSET {"token", "submit", "custom"}]
    /\ MaxCount \in Nat \ {0} /\ MaxAttempts \in Nat \ {0} /\ MaxDisturbances \in Nat
    /\ Copies \in Nat /\ Forks \in Nat
    /\ ServiceCalls \cap Jobs = {} /\ None \notin ServiceCalls \cup Jobs
    /\ \A n \in {Copies, Forks} : None \notin (0 .. MaxCount - 1) \X (1 .. n)

VARIABLES
          count,      \* _browser_count
          service,    \* sizes of _token_semaphore: a change replaces it
          reserved,   \* _slot_reservations, 0 if absent
          pool,       \* _browsers: the TokenBrowser of each slot, or None
          obj,        \* the TokenBrowsers
          proc,       \* the browser processes
          toWarm,     \* slots that are about to be warmed
          toRemove,   \* TokenBrowsers taken out of the pool, about to be recycled
          pidfile,    \* the browser whose driver the pid file of each slot names, or None
          actor,      \* where each request and job is
          events      \* history: disturbances so far

slotVars == <<count, service, reserved, pool>>
todoVars == <<toWarm, toRemove>>
headedVars == <<slotVars, obj, proc, pidfile, toWarm, toRemove, actor, events>>

----------------------------------------------------------------------------
Slots == 0 .. MaxCount - 1
Actors == ServiceCalls \cup Jobs

\* TokenBrowsers and processes, named by the slot they were made for.
Objects == Slots \X (1 .. Copies)
Procs == Slots \X (1 .. Forks)
Slot(n) == n[1]

NoObject == [sem |-> None, lock |-> <<>>, proc |-> None, bound |-> None,
             pid |-> None, fails |-> 0]
NoProc == [alive |-> FALSE, cookies |-> None]
Idle == [pc |-> "idle", kind |-> "", obj |-> None, proc |-> None, pid |-> None,
         after |-> "", left |-> 0, gen |-> 0, inside |-> FALSE]

Outcomes == {"token", "nothing", "cut"}
AtWork(a) == actor[a].pc \notin Outcomes \cup {"idle"}
Kind(a) == actor[a].kind
Token(a) == IF a \in ServiceCalls THEN TokenOf[a] ELSE None

Pooled == {pool[s] : s \in Slots} \ {None}

\* The next name of its kind for something new.
Fresh(free) == {n \in free : \A m \in free : n[2] <= m[2]}

FreeObjects(s) ==
    Fresh({o \in Objects : Slot(o) = s /\ o # pool[s] /\ o \notin toRemove /\ \A a \in Actors : actor[a].obj # o})
FreeProcs(s) ==
    Fresh({p \in Procs :
              /\ Slot(p) = s /\ ~proc[p].alive /\ pidfile[s] # p
              /\ \A o \in Objects : p \notin {obj[o].proc, obj[o].pid}
              /\ \A a \in Actors : p \notin {actor[a].proc, actor[a].pid}})

\* is_busy.
Busy(o) == obj[o].sem # None

Go(a, pc) == actor' = [actor EXCEPT ![a].pc = pc]

HeadedInit ==
    /\ count \in 1 .. MaxCount
    /\ service = <<count>>
    /\ reserved = [s \in Slots |-> 0]
    /\ pool = [s \in Slots |-> None]
    /\ obj = [o \in Objects |-> NoObject]
    /\ proc = [p \in Procs |-> NoProc]
    /\ toWarm = 0 .. count - 1 /\ toRemove = {}
    /\ pidfile = [s \in Slots |-> None]
    /\ actor = [a \in Actors |-> Idle]
    /\ events = 0

----------------------------------------------------------------------------
\* The service: admission, choice of a slot, and the way out.

\* _token_semaphore as it was when the request came; submit_flow_request does
\* not pass it.
Arrive(r) ==
    /\ actor[r].pc = "idle"
    /\ \E k \in KindsOf[r] :
         actor' = [actor EXCEPT ![r] = [Idle EXCEPT !.pc = "service", !.kind = k, !.gen = Len(service),
                                                    !.left = MaxAttempts]]
    /\ UNCHANGED <<todoVars, slotVars, obj, proc, pidfile, events>>

Inside(g) == {r \in ServiceCalls : actor[r].inside /\ actor[r].gen = g}
Admits(r) ==
    LET g == actor[r].gen
    IN Kind(r) = "submit" \/ Cardinality(Inside(g)) < service[g]

\* _is_slot_busy_for_allocation, _has_warmed_browser_for_allocation.
Offered == 0 .. count - 1
IdleSlots == {s \in Offered : /\ reserved[s] = 0
                              /\ pool[s] # None => ~Busy(pool[s])}
Warmed == {s \in Offered : pool[s] # None /\ obj[pool[s]].proc # None}

\* _select_browser_id without the round robin: a warm idle slot before a cold
\* one, any slot when all are busy.  Tests of a site take the next slot.
Chosen(r) ==
    IF Kind(r) = "custom" \/ IdleSlots = {} THEN Offered
    ELSE IF IdleSlots \cap Warmed # {} THEN IdleSlots \cap Warmed
    ELSE IdleSlots

\* _get_or_create_browser: the slot's TokenBrowser, made if there is none.
ObjectOf(s) == IF pool[s] # None THEN {pool[s]} ELSE FreeObjects(s)

Install(s, o) ==
    IF pool[s] = o THEN UNCHANGED <<pool, obj>>
    ELSE pool' = [pool EXCEPT ![s] = o] /\ obj' = [obj EXCEPT ![o] = NoObject]

Select(r) ==
    /\ actor[r].pc = "service" /\ Admits(r)
    /\ \E s \in Chosen(r) : \E o \in ObjectOf(s) :
          /\ Install(s, o)
          /\ reserved' = IF Kind(r) = "custom" THEN reserved ELSE [reserved EXCEPT ![s] = @ + 1]
          /\ actor' = [actor EXCEPT ![r].pc = "queue", ![r].obj = o,
                                    ![r].inside = Kind(r) # "submit"]
    /\ UNCHANGED <<todoVars, count, service, proc, pidfile, events>>

\* _release_slot_reservation: by slot, whatever TokenBrowser it has by now.
Release(r, how) ==
    LET s == Slot(actor[r].obj)
    IN reserved' = IF Kind(r) = "custom" THEN reserved
                   ELSE [reserved EXCEPT ![s] = IF @ <= 1 THEN 0 ELSE @ - 1]

\* The finally clauses of a request that has a slot, down to the service.
Unwind(r, how) ==
    /\ Release(r, how)
    /\ actor' = [actor EXCEPT ![r] = [Idle EXCEPT !.pc = how]]

----------------------------------------------------------------------------
\* The locks of a TokenBrowser.

Head1(o) == IF obj[o].lock = <<>> THEN None ELSE Head(obj[o].lock)
\* The slot's own semaphore; whoever has it counts as _solve_inflight.
TakeSlot(r) ==
    LET o == actor[r].obj
    IN /\ actor[r].pc = "queue" /\ obj[o].sem = None
       /\ IF Kind(r) = "custom"
          THEN /\ obj' = [obj EXCEPT ![o].sem = r]
               /\ actor' = [actor EXCEPT ![r].pc = "launch"]
          ELSE /\ obj' = [obj EXCEPT ![o].sem = r, ![o].lock = Append(@, r)]
               /\ actor' = [actor EXCEPT ![r].pc = "lock"]
       /\ UNCHANGED <<todoVars, slotVars, proc, pidfile, events>>

\* Mutant of ForgetBrowser: the account the browser was bound to is remembered.
ForgetKeepsBinding(o) ==
    [obj EXCEPT ![o].proc = None, ![o].pid = None, ![o].fails = 0]

\* The first half of _recycle_browser_locked: the TokenBrowser forgets its
\* browser before it begins to close it.
ForgetBrowser(o) == [obj EXCEPT ![o].proc = None, ![o].pid = None, ![o].bound = None, ![o].fails = 0]

\* The pid a TokenBrowser kills beside the browser it closes: the one it has
\* noted, else the one in the slot's pid file.
Noted(o) == IF obj[o].pid # None THEN obj[o].pid ELSE pidfile[Slot(o)]

Recycle(a, after) ==
    LET o == actor[a].obj
    IN /\ obj' = ForgetBrowser(o)
       /\ actor' = [actor EXCEPT ![a].pc = "close", ![a].proc = obj[o].proc,
                                 ![a].pid = Noted(o), ![a].after = after]

\* What makes _get_or_create_shared_browser recycle the browser it finds: it is
\* gone, or bound to another account (a warm-up has none) ...
Unusable(o, k) == ~proc[obj[o].proc].alive \/ obj[o].bound # k

Reuses(a) ==
    LET o == actor[a].obj
    IN /\ actor[a].pc = "lock" /\ Head1(o) = a
       /\ obj[o].proc # None /\ ~Unusable(o, Token(a))
       /\ obj' = [obj EXCEPT ![o].lock = Tail(@)]
       /\ actor' = [actor EXCEPT ![a] = IF a \in Jobs THEN Idle
                                        ELSE [@ EXCEPT !.pc = "solve", !.proc = obj[o].proc]]
       /\ UNCHANGED <<todoVars, slotVars, proc, pidfile, events>>

\* ... or the proxy was changed, the keepalive page broke, the session token of
\* the account is no longer there.
Discards(a) ==
    LET o == actor[a].obj
    IN /\ actor[a].pc = "lock" /\ Head1(o) = a /\ obj[o].proc # None
       /\ \/ Unusable(o, Token(a)) /\ UNCHANGED events
          \/ ~Unusable(o, Token(a)) /\ events < MaxDisturbances /\ events' = events + 1
       /\ Recycle(a, "create")
       /\ UNCHANGED <<todoVars, slotVars, proc, pidfile>>

----------------------------------------------------------------------------
\* _close_browser: the process ends, or is killed, and the pid file goes.
KillIn(f, ps) == [p \in Procs |-> IF p \in ps THEN NoProc ELSE f[p]]

\* Mutant of Vacated: the semaphore stays taken.
VacatedNever(ob, o) == ob

\* The slot's semaphore is free again.
Vacated(ob, o) == [ob EXCEPT ![o].sem = None]

\* The end of an attempt of r, with the TokenBrowsers at ob: another one, or
\* the way out, which nothing interrupts.

Again(r, ob) ==
    LET o == actor[r].obj
        next == [actor[r] EXCEPT !.left = @ - 1, !.proc = None, !.pid = None, !.after = ""]
    IN IF actor[r].left = 1
       THEN Unwind(r, "nothing") /\ obj' = Vacated(ob, o)
       ELSE /\ IF Kind(r) = "custom"
               THEN obj' = ob /\ actor' = [actor EXCEPT ![r] = [next EXCEPT !.pc = "launch"]]
               ELSE /\ obj' = [ob EXCEPT ![o].lock = Append(@, r)]
                    /\ actor' = [actor EXCEPT ![r] = [next EXCEPT !.pc = "lock"]]
            /\ UNCHANGED reserved

\* An attempt fails.  Whether the browser is recycled then is one of choices;
\* recycling queues for the lock.
Fails(r, ob, choices) ==
    LET o == actor[r].obj
        failed == IF Kind(r) = "custom" THEN ob
                  ELSE [ob EXCEPT ![o].fails = IF @ = 2 THEN 2 ELSE @ + 1]
    IN \E recycles \in choices :
          IF recycles
          THEN /\ obj' = [failed EXCEPT ![o].lock = Append(@, r)]
               /\ actor' = [actor EXCEPT ![r].pc = "purge", ![r].proc = None, ![r].pid = None]
               /\ UNCHANGED reserved
          ELSE Again(r, failed)

\* get_or_create_shared_browser raises: the lock is free again.
Raises(a, ob) ==
    LET freed == [ob EXCEPT ![actor[a].obj].lock = Tail(@)]
    IN IF a \in Jobs
       THEN obj' = freed /\ actor' = [actor EXCEPT ![a] = Idle] /\ UNCHANGED reserved
       ELSE Fails(a, freed, BOOLEAN)

----------------------------------------------------------------------------
\* The steps of _create_browser, at the head of the lock; a temporary browser
\* is made without lock and pid file.
Steady == <<count, service, pool, todoVars>>
Lone(a) == Kind(a) = "custom"
SlotOf(a) == Slot(actor[a].obj)

Launched(a, f) ==
    \E p \in FreeProcs(SlotOf(a)) :
        /\ proc' = [f EXCEPT ![p].alive = TRUE]
        /\ actor' = [actor EXCEPT ![a].pc = "record", ![a].proc = p]

\* _cleanup_stale_slot_process kills what the pid file names only if its command
\* line has the marker of the slot, which is an argument of the browser and not
\* of the driver: all it does is to erase the file.
EraseStale(a) ==
    LET s == SlotOf(a)
    IN /\ pidfile' = [pidfile EXCEPT ![s] = None]
       /\ obj' = IF pidfile[s] = None THEN obj ELSE [obj EXCEPT ![actor[a].obj].pid = None]

\* There is no browser: what is left of an earlier one is cleaned up, and one
\* is launched.  Before its process is there, launching looks like waiting.
Creates(a) ==
    LET o == actor[a].obj
    IN /\ actor[a].pc = "lock" /\ Head1(o) = a /\ obj[o].proc = None
       /\ Launched(a, proc)
       /\ EraseStale(a)
       /\ UNCHANGED <<Steady, reserved, events>>

LaunchLone(r) ==
    /\ actor[r].pc = "launch"
    /\ Launched(r, proc)
    /\ UNCHANGED <<Steady, reserved, obj, pidfile, events>>

\* Launching, or making the context, raises: playwright takes the browser down.
LaunchFails(a) ==
    LET o == actor[a].obj
        ob == IF Lone(a) THEN obj ELSE [obj EXCEPT ![o].pid = None]
    IN /\ actor[a].pc = "record"
       /\ proc' = KillIn(proc, {actor[a].proc})
       /\ pidfile' = IF Lone(a) THEN pidfile ELSE [pidfile EXCEPT ![SlotOf(a)] = None]
       /\ IF Lone(a) THEN Fails(a, ob, {FALSE}) ELSE Raises(a, ob)
       /\ UNCHANGED <<Steady, events>>

\* _extract_browser_pid, which finds the driver or nothing, and _write_pid_file.
Record(a) ==
    LET p == actor[a].proc
    IN /\ actor[a].pc = "record"
       /\ IF Lone(a)
          THEN Go(a, "solve") /\ UNCHANGED <<obj, pidfile>>
          ELSE /\ Go(a, "bind")
               /\ \E pid \in {p, None} :
                     /\ pidfile' = [pidfile EXCEPT ![SlotOf(a)] = pid]
                     /\ obj' = [obj EXCEPT ![actor[a].obj].pid = pid]
       /\ UNCHANGED <<Steady, reserved, proc, events>>

\* _ensure_shared_token_binding: the cookies of the account, unless the
\* TokenBrowser takes them to be there.
Bind(a) ==
    LET o == actor[a].obj
        p == actor[a].proc
        k == Token(a)
    IN /\ actor[a].pc = "bind"
       /\ proc' = IF k = None \/ obj[o].bound = k THEN proc
                  ELSE [proc EXCEPT ![p].cookies = IF @ = None /\ proc[p].alive THEN k ELSE @]
       /\ obj' = [obj EXCEPT ![o].bound = k, ![o].proc = p, ![o].lock = Tail(@)]
       /\ actor' = IF a \in Jobs THEN [actor EXCEPT ![a] = Idle]
                                 ELSE [actor EXCEPT ![a].pc = "solve"]
       /\ UNCHANGED <<Steady, reserved, pidfile, events>>

\* The account has no session token, or the cookies cannot be set.
BindFails(a) ==
    /\ actor[a].pc = "bind" /\ Token(a) # None
    /\ actor' = [actor EXCEPT ![a].pc = "close", ![a].pid = Noted(actor[a].obj),
                                 ![a].after = "raise"]
    /\ UNCHANGED <<Steady, reserved, obj, proc, pidfile, events>>

\* What a page of the browser ends with: success needs the browser.
Succeeds(r) ==
    LET o == actor[r].obj
    IN /\ proc[actor[r].proc].alive
       /\ Unwind(r, "token") /\ obj' = Vacated([obj EXCEPT ![o].fails = 0], o)
       /\ UNCHANGED <<Steady, proc, pidfile, events>>

At(r, pc, kind) == actor[r].pc = pc /\ Kind(r) = kind

\* _execute_captcha.
TokenSolved(r) == At(r, "solve", "token") /\ Succeeds(r)

\* Whatever goes wrong in it is an empty token; get_token recycles the browser
\* after two failures in a row.
TokenFails(r) ==
    /\ At(r, "solve", "token")
    /\ Fails(r, obj, {obj[actor[r].obj].fails >= 1})
    /\ UNCHANGED <<Steady, proc, pidfile, events>>

\* The Flow page does not open, or its captcha script does not get ready.
PageFails(r) ==
    /\ actor[r].pc = "solve" /\ Kind(r) \in {"token", "submit"}
    /\ Fails(r, obj, {Kind(r) = "token" /\ obj[actor[r].obj].fails >= 1})
    /\ UNCHANGED <<Steady, proc, pidfile, events>>

\* The page solves the captcha and posts the request itself.
Posted(r) == At(r, "solve", "submit") /\ Succeeds(r)

\* It recycles the browser if that was closed under it; a page that crashed
\* looks the same.
PostFails(r) ==
    /\ At(r, "solve", "submit")
    /\ Fails(r, obj, IF proc[actor[r].proc].alive THEN BOOLEAN ELSE {TRUE})
    /\ UNCHANGED <<Steady, proc, pidfile, events>>

\* _execute_custom_captcha, and the finally that closes the temporary browser.
FinallyCloses(r, after) ==
    /\ actor' = [actor EXCEPT ![r].pc = "close", ![r].after = after]
    /\ UNCHANGED <<Steady, reserved, obj, proc, pidfile, events>>

LoneSolved(r) ==
    At(r, "solve", "custom") /\ proc[actor[r].proc].alive /\ FinallyCloses(r, "token")

LoneFails(r) == At(r, "solve", "custom") /\ FinallyCloses(r, "attempt")

\* recycle_browser by a request or a job.
Purge(a) ==
    /\ actor[a].pc = "purge" /\ Head1(actor[a].obj) = a
    /\ Recycle(a, "attempt")
    /\ UNCHANGED <<todoVars, slotVars, proc, pidfile, events>>

\* What is left of the reservations when a slot is gone.
Trim(f) == [s \in Slots |-> IF s < count THEN f[s] ELSE 0]

\* _close_browser has done its work.
Closed(a) ==
    LET o == actor[a].obj
        gone == [obj EXCEPT ![o].pid = None]
        freed == [gone EXCEPT ![o].lock = Tail(@)]
        after == actor[a].after
    IN /\ actor[a].pc = "close"
       /\ proc' = KillIn(proc, {actor[a].proc, actor[a].pid})
       /\ pidfile' = IF Lone(a) THEN pidfile ELSE [pidfile EXCEPT ![SlotOf(a)] = None]
       /\ \/ Lone(a) /\ after = "attempt" /\ Fails(a, obj, {FALSE})
          \/ Lone(a) /\ after # "attempt" /\ Unwind(a, after) /\ obj' = Vacated(obj, o)
          \/ /\ ~Lone(a) /\ after = "create"
             /\ obj' = gone
             /\ actor' = [actor EXCEPT ![a] = [@ EXCEPT !.pc = "lock", !.proc = None,
                                                        !.pid = None, !.after = ""]]
             /\ UNCHANGED reserved
          \/ ~Lone(a) /\ after = "raise" /\ Raises(a, gone)
          \/ ~Lone(a) /\ after = "attempt" /\ a \in ServiceCalls /\ Again(a, freed)
          \/ /\ ~Lone(a) /\ after = "attempt" /\ a \in Jobs
             /\ IF actor[a].left > 1
                THEN /\ obj' = [freed EXCEPT ![o].lock = Append(@, a)]
                     /\ actor' = [actor EXCEPT ![a].pc = "purge", ![a].left = @ - 1,
                                               ![a].proc = None, ![a].pid = None]
                     /\ UNCHANGED reserved
                ELSE /\ obj' = freed
                     /\ actor' = [actor EXCEPT ![a] = Idle]
                     /\ reserved' = IF Kind(a) = "remove" THEN Trim(reserved) ELSE reserved
       /\ UNCHANGED <<Steady, events>>

----------------------------------------------------------------------------
\* The jobs.
Disturb == events < MaxDisturbances /\ events' = events + 1

Starts(j, kind, o, times) ==
    /\ obj' = [obj EXCEPT ![o].lock = Append(@, j)]
    /\ actor' = [actor EXCEPT ![j] = [Idle EXCEPT !.pc = "purge", !.kind = kind,
                                                  !.obj = o, !.left = times]]

\* _idle_reaper_loop: nobody solves on the browser, and nobody has for long.
Reap(j) ==
    /\ actor[j].pc = "idle"
    /\ \E o \in Pooled : ~Busy(o) /\ obj[o].proc # None /\ Starts(j, "reap", o, 1)
    /\ Disturb
    /\ UNCHANGED <<todoVars, slotVars, proc, pidfile>>

\* report_error: Flow refused a token for its captcha; the slot that solved it
\* recycles whatever it has by now, busy or not.
ReportError(j) ==
    /\ actor[j].pc = "idle"
    /\ \E o \in Pooled : Starts(j, "report", o, 1)
    /\ Disturb
    /\ UNCHANGED <<todoVars, slotVars, proc, pidfile>>

\* _warmup_browser_slot, for no account: it makes the TokenBrowser and queues.
WarmStarts(j) ==
    /\ actor[j].pc = "idle"
    /\ \E s \in toWarm : \E o \in ObjectOf(s) :
          /\ toWarm' = toWarm \ {s}
          /\ IF pool[s] = o
             THEN obj' = [obj EXCEPT ![o].lock = Append(@, j)] /\ UNCHANGED pool
             ELSE /\ obj' = [obj EXCEPT ![o] = [NoObject EXCEPT !.lock = <<j>>]]
                  /\ pool' = [pool EXCEPT ![s] = o]
          /\ actor' = [actor EXCEPT ![j] = [Idle EXCEPT !.pc = "lock", !.kind = "warm", !.obj = o]]
    /\ UNCHANGED <<count, service, reserved, proc, pidfile, toRemove, events>>

\* A TokenBrowser out of the pool is recycled twice.
RemovalStarts(j) ==
    /\ actor[j].pc = "idle"
    /\ \E o \in toRemove : Starts(j, "remove", o, 2) /\ toRemove' = toRemove \ {o}
    /\ UNCHANGED <<slotVars, proc, pidfile, toWarm, events>>

\* An administrator saves the captcha settings: reload_browser_count, then
\* warmup_browser_slots, of which one task exists at a time.  Its removals and
\* warm-ups run in whatever order and side by side as far as there are jobs.
Prepare ==
    /\ toWarm = {} /\ toRemove = {}
    /\ \A j \in Jobs : actor[j].kind \notin {"warm", "remove"}
    /\ \E n \in 1 .. MaxCount :
          /\ count' = n
          /\ service' = Append(service, n)
          /\ pool' = [s \in Slots |-> IF s < n THEN pool[s] ELSE None]
          /\ toWarm' = 0 .. n - 1
          /\ toRemove' = Pooled \ {pool[s] : s \in 0 .. n - 1}
    /\ Disturb
    /\ UNCHANGED <<reserved, obj, proc, pidfile, actor>>

\* A browser dies by itself.
Die ==
    /\ \E p \in Procs : proc[p].alive /\ proc' = KillIn(proc, {p})
    /\ Disturb
    /\ UNCHANGED <<todoVars, slotVars, obj, pidfile, actor>>

\* A coroutine that is cancelled leaves the queue of a lock, and a semaphore.
Left(q, a) ==
    LET i == CHOOSE i \in DOMAIN q : q[i] = a
    IN IF \A j \in DOMAIN q : q[j] # a THEN q
       ELSE [j \in 1 .. Len(q) - 1 |-> q[IF j < i THEN j ELSE j + 1]]

Cut(f, a) == [o \in Objects |->
                 LET sem == IF f[o].sem = a THEN None ELSE f[o].sem
                 IN [f[o] EXCEPT !.sem = sem, !.lock = Left(@, a)]]

\* The client of a request goes away.  What it was doing is cut short: a
\* browser it was launching is noted nowhere, one it was closing may live on;
\* only the finally of a temporary browser still closes it.
Disconnect(r) ==
    /\ AtWork(r) /\ Disturb
    /\ IF actor[r].pc = "service"
       THEN actor' = [actor EXCEPT ![r] = [Idle EXCEPT !.pc = "cut"]] /\ UNCHANGED <<reserved, obj>>
       ELSE IF Lone(r) /\ actor[r].pc = "solve"
       THEN actor' = [actor EXCEPT ![r].pc = "close", ![r].after = "cut"] /\ UNCHANGED <<reserved, obj>>
       ELSE Unwind(r, "cut") /\ obj' = Cut(obj, r)
    /\ UNCHANGED <<Steady, proc, pidfile>>

\* The server ends, at any point, and starts again.  Its browsers may survive.
ServerRestarts ==
    /\ Disturb
    /\ \E dead \in SUBSET {p \in Procs : proc[p].alive} : proc' = KillIn(proc, dead)
    /\ pool' = [s \in Slots |-> None]
    /\ reserved' = [s \in Slots |-> 0]
    /\ service' = Append(service, count)
    /\ obj' = [o \in Objects |-> NoObject]
    /\ toWarm' = 0 .. count - 1 /\ toRemove' = {}
    /\ actor' = [a \in Actors |-> IF AtWork(a) /\ a \in ServiceCalls THEN [Idle EXCEPT !.pc = "cut"]
                                  ELSE IF a \in ServiceCalls THEN actor[a] ELSE Idle]
    /\ UNCHANGED <<count, pidfile>>

----------------------------------------------------------------------------
Step(a) ==
    \/ Reuses(a) \/ Discards(a) \/ Creates(a) \/ LaunchFails(a) \/ Record(a)
    \/ Bind(a) \/ BindFails(a) \/ Purge(a) \/ Closed(a)

Ends(r) ==
    \/ TokenSolved(r) \/ TokenFails(r) \/ Posted(r) \/ PostFails(r)
    \/ PageFails(r) \/ LoneSolved(r) \/ LoneFails(r)

HeadedNext ==
    \/ \E a \in Actors : Step(a)
    \/ \E r \in ServiceCalls :
          Arrive(r) \/ Select(r) \/ TakeSlot(r) \/ LaunchLone(r) \/ Ends(r) \/ Disconnect(r)
    \/ \E j \in Jobs : Reap(j) \/ ReportError(j) \/ WarmStarts(j) \/ RemovalStarts(j)
    \/ Prepare \/ Die \/ ServerRestarts

HeadedSpec == HeadedInit /\ [][HeadedNext]_headedVars

\* Every coroutine that can run does.
HeadedFairness ==
    /\ \A a \in Actors : WF_headedVars(Step(a))
    /\ \A r \in ServiceCalls : WF_headedVars(Select(r) \/ TakeSlot(r) \/ LaunchLone(r) \/ Ends(r))
    /\ \A j \in Jobs : WF_headedVars(WarmStarts(j) \/ RemovalStarts(j))

FairHeadedSpec == HeadedSpec /\ HeadedFairness

----------------------------------------------------------------------------
\* A page solves for the account its request works for: however the slot is
\* shared, warmed, recycled and its browser replaced, the cookies in the browser
\* are those of that account.
SolverIsOnItsAccount ==
    \A r \in ServiceCalls :
        (actor[r].pc = "solve" /\ Kind(r) # "custom" /\ proc[actor[r].proc].alive)
            => proc[actor[r].proc].cookies = TokenOf[r]

\* browser_count is the number of headed browsers: when every request, removal
\* and warm-up has ended, no more of them are alive.
WithinBrowserCount ==
    (toRemove = {} /\ \A a \in Actors : ~AtWork(a))
        => Cardinality({p \in Procs : proc[p].alive}) <= count

\* Every request ends, with or without a token.
EveryCallEnds == \A r \in ServiceCalls : AtWork(r) ~> ~AtWork(r)
=============================================================================
