---------------------------- MODULE YingceAdapter ----------------------------
(***************************************************************************)
(* Compatible video tasks from the request to the delivered file           *)
(* (api/yingce_adapter.py over services/compat_video_tasks.py and          *)
(* services/file_cache.py).  A request is answered at once with a task;    *)
(* a background worker runs the generation, brings its video into the file *)
(* cache and completes the task; clients ask for the task and its content. *)
(* Time is up for a task only when somebody calls the registry: the clean- *)
(* up there fails the task and cancels its worker.                         *)
(*                                                                         *)
(* One step of a worker is what it does between two suspensions.  The lock *)
(* of the registry is never held across a suspension, so a clean-up, the   *)
(* check that follows it and the update are one step.                      *)
(***************************************************************************)
EXTENDS CompatVideoTasks

CONSTANTS Admins, Loops, CacheTimeout, MaxChanges,
          MaxRestarts   \* bound: restarts of the process

Unused == "unused"   \* no task was made with this identifier

ASSUME DeliveryAssumption ==
    /\ CacheTimeout \in Nat \ {0} /\ Loops # {}
    /\ MaxChanges \in Nat /\ MaxRestarts \in Nat
    /\ None \notin Nat /\ Unused \notin Keys \cup {None}

VARIABLES
    age, holder, timeout, cleaner, loop, admin, changes,   \* the file cache
    worker,    \* the background worker of each task
    request,   \* ghost: the key each task was made for
    made,      \* ghost: age of the content of a completed task
    restarts

INSTANCE FileCache WITH Downloaders <- Videos

adminVars == <<timeout, cleaner, loop, admin, changes>>
storeVars == <<age, holder, timeout, cleaner, loop, admin, changes>>
vars == <<registry, age, holder, timeout, cleaner, loop, admin, changes,
          worker, request, made, restarts>>

NoWorker == [pc |-> "none", file |-> None, inner |-> FALSE, cancelled |-> FALSE]

Init ==
    /\ RegistryInit /\ CacheInit
    /\ worker = [v \in Videos |-> NoWorker]
    /\ request = [v \in Videos |-> Unused]
    /\ made = [v \in Videos |-> 0]
    /\ restarts = 0

Live(v) == worker[v].pc \notin {"none", "ended"}
Runs(v) == Live(v) /\ ~worker[v].cancelled

\* Mutant: the expiry hook is not bound.
CancelledNever(late) == worker

\* _cancel_background_video_task for the tasks a clean-up times out.
Cancelled(late) ==
    [v \in Videos |-> IF v \in late /\ Live(v)
                      THEN [worker[v] EXCEPT !.cancelled = TRUE] ELSE worker[v]]

\* The guarded worker of v ends in the step that times out the tasks late.
Leaves(v, late) ==
    worker' = [Cancelled(late) EXCEPT ![v] = [NoWorker EXCEPT !.pc = "ended"]]

-----------------------------------------------------------------------------
(* The clients *)

\* The next identifier; which one it is does not matter.
Fresh ==
    LET unused == {v \in Videos : request[v] = Unused}
    IN  IF unused = {} THEN {} ELSE {CHOOSE v \in unused : TRUE}

\* create_video after its parameters were accepted.
CreateVideo(k) ==
    LET reg == CleanUp(registry)
        cancelled == Cancelled(TimedOut(registry))
    IN  \/ \* the task of the key, or idempotency_conflict when the
           \* fingerprints differ: nothing else changes in either case
           /\ Answers(reg, k)
           /\ registry' = reg /\ worker' = cancelled
           /\ UNCHANGED request
        \/ \* video_task_capacity
           /\ ~Answers(reg, k)
           /\ Rooms(reg) = {}
           /\ registry' = reg /\ worker' = cancelled
           /\ UNCHANGED request
        \/ \E v \in Fresh, room \in Rooms(reg) :
             /\ ~Answers(reg, k)
             /\ registry' = Add(room, v, k)
             /\ request' = [request EXCEPT ![v] = k]
             /\ worker' = [cancelled EXCEPT ![v].pc = "start"]

AskVideo(k) ==
    /\ CreateVideo(k)
    /\ UNCHANGED <<storeVars, made, restarts>>

\* get_video and get_video_content.
GetVideo ==
    /\ Expired(registry) # {}
    /\ registry' = CleanUp(registry)
    /\ worker' = Cancelled(TimedOut(registry))
    /\ UNCHANGED <<storeVars, request, made, restarts>>

-----------------------------------------------------------------------------
(* The worker *)

\* update(failed) and the end of the worker.
Fails(v) ==
    /\ registry' = Update(CleanUp(registry), v, "failed", None)
    /\ Leaves(v, TimedOut(registry))

\* The end of _run_video_task: a task that timed out meanwhile stays failed.
Completes(v, f) ==
    /\ registry' = Update(CleanUp(registry), v, "completed", f)
    /\ Leaves(v, TimedOut(registry))

\* The file f, whose ages are as in ages, is the content of v.
Delivers(v, f, ages) ==
    /\ age' = ages
    /\ Completes(v, f)
    /\ made' = [made EXCEPT ![v] = ages[f]]

WorkerStarts(v) ==
    /\ Runs(v) /\ worker[v].pc = "start"
    /\ registry' = Update(CleanUp(registry), v, "in_progress", None)
    /\ worker' = [Cancelled(TimedOut(registry)) EXCEPT ![v].pc = "generating"]
    /\ UNCHANGED <<storeVars, request, made, restarts>>

\* The generation handler raised, or answered with an error.
GenerationFails(v) ==
    /\ Runs(v) /\ worker[v].pc = "generating"
    /\ Fails(v)
    /\ UNCHANGED <<storeVars, request, made, restarts>>

\* What follows a download: the handler goes on with the local address, the
\* worker delivers.
Fetched(v, f, ages) ==
    IF worker[v].inner
    THEN /\ age' = ages
         /\ worker' = [worker EXCEPT ![v].pc = "generating", ![v].inner = FALSE,
                                     ![v].file = f]
         /\ UNCHANGED <<registry, made>>
    ELSE Delivers(v, f, ages)

\* download_and_cache from inside its lock to its first suspension.
LooksUp(v, f) ==
    \/ /\ Hit(f)
       /\ Fetched(v, f, age)
       /\ UNCHANGED holder
    \/ /\ ~Hit(f)
       /\ age' = LookedUp(f)
       /\ holder' = [holder EXCEPT ![f] = v]
       /\ worker' = [worker EXCEPT ![v].pc = "downloading", ![v].file = f]
       /\ UNCHANGED <<registry, made>>

Fetches(v, f) ==
    IF holder[f] = None
    THEN LooksUp(v, f)
    ELSE /\ worker' = [worker EXCEPT ![v].pc = "waiting", ![v].file = f]
         /\ UNCHANGED <<registry, made, age, holder>>

\* The handler brings the video into the cache before it answers.
HandlerCaches(v, f) ==
    /\ Runs(v) /\ worker[v].pc = "generating" /\ worker[v].file = None
    /\ IF holder[f] = None
       THEN \/ /\ Hit(f)
               /\ worker' = [worker EXCEPT ![v].file = f]
               /\ UNCHANGED <<age, holder>>
            \/ /\ ~Hit(f)
               /\ age' = LookedUp(f)
               /\ holder' = [holder EXCEPT ![f] = v]
               /\ worker' = [worker EXCEPT ![v] =
                     [@ EXCEPT !.pc = "downloading", !.file = f, !.inner = TRUE]]
       ELSE /\ worker' = [worker EXCEPT ![v] =
                  [@ EXCEPT !.pc = "waiting", !.file = f, !.inner = TRUE]]
            /\ UNCHANGED <<age, holder>>
    /\ UNCHANGED <<registry, made, adminVars, request, restarts>>

\* The answer names a file of the cache.
AnswerIsLocal(v, f) == worker[v].file = f /\ Present(f)

\* The generation answered and _materialize_video_content looks for the video.
GenerationAnswers(v) ==
    /\ Runs(v) /\ worker[v].pc = "generating"
    /\ \/ \E f \in Files :
            /\ AnswerIsLocal(v, f)
            /\ Delivers(v, f, age)
            /\ UNCHANGED holder
       \/ \E f \in Files :   \* a data address, written under a new name
            /\ worker[v].file = None /\ ~Present(f) /\ holder[f] = None
            /\ Delivers(v, f, Stored(f))
            /\ UNCHANGED holder
       \/ \E f \in Files : worker[v].file = None /\ Fetches(v, f)
       \/ \* no address, one that cannot be used, or a file that is gone
          /\ worker[v].file \notin {f \in Files : Present(f)}
          /\ Fails(v)
          /\ UNCHANGED <<age, holder, made>>
    /\ UNCHANGED <<adminVars, request, restarts>>

\* The lock of the file was free when the worker's turn came.
LockGranted(v) ==
    LET f == worker[v].file IN
    /\ Runs(v) /\ worker[v].pc = "waiting" /\ holder[f] = None
    /\ LooksUp(v, f)
    /\ UNCHANGED <<adminVars, request, restarts>>

\* _write_cached_content, once everything was downloaded.
DownloadEnds(v) ==
    LET f == worker[v].file IN
    /\ Runs(v) /\ worker[v].pc = "downloading"
    /\ Fetched(v, f, Stored(f))
    /\ holder' = [holder EXCEPT ![f] = None]
    /\ UNCHANGED <<adminVars, request, restarts>>

\* A handler that cannot cache the video goes on with the remote address.
DownloadFails(v) ==
    LET f == worker[v].file IN
    /\ Runs(v) /\ worker[v].pc = "downloading"
    /\ holder' = [holder EXCEPT ![f] = None]
    /\ \/ /\ worker[v].inner
          /\ worker' = [worker EXCEPT ![v] = [NoWorker EXCEPT !.pc = "generating"]]
          /\ UNCHANGED registry
       \/ ~worker[v].inner /\ Fails(v)
    /\ UNCHANGED <<age, adminVars, request, made, restarts>>

Holding(v) == {f \in Files : holder[f] = v}

\* The cancellation reaches the worker where it is suspended.
WorkerCancelled(v) ==
    /\ Live(v) /\ worker[v].cancelled
    /\ Leaves(v, {})
    /\ holder' = [f \in Files |-> IF f \in Holding(v) THEN None ELSE holder[f]]
    /\ UNCHANGED <<registry, age, adminVars, request, made, restarts>>

-----------------------------------------------------------------------------
(* Time and restarts *)

Tick ==
    /\ registry' = Older(registry)
    /\ FilesGrowOld
    /\ made' = [v \in Videos |-> IF registry.tasks[v].status = "completed"
                                    /\ made[v] <= CacheTimeout
                                 THEN made[v] + 1 ELSE made[v]]
    /\ UNCHANGED <<holder, adminVars, worker, request, restarts>>

\* shutdown_background_video_tasks, the end of the process and a new one: the
\* files and the configuration are all that is left.
Restart ==
    /\ restarts < MaxRestarts
    /\ restarts' = restarts + 1
    /\ registry' = [tasks |-> [v \in Videos |-> Absent], index |-> [k \in Keys |-> None]]
    /\ worker' = [v \in Videos |-> IF Live(v) THEN [NoWorker EXCEPT !.pc = "ended"]
                                   ELSE worker[v]]
    /\ holder' = [f \in Files |-> None]
    /\ timeout' = timeout
    /\ cleaner' = (IF timeout = 0 THEN None ELSE FirstLoop)
    /\ loop' = [l \in Loops |-> IF l = cleaner' THEN "running" ELSE "unborn"]
    /\ admin' = [a \in Admins |-> None]
    /\ UNCHANGED <<age, changes, request, made>>

WorkerNext(v) ==
    \/ WorkerStarts(v)
    \/ GenerationFails(v)
    \/ \E f \in Files : HandlerCaches(v, f)
    \/ GenerationAnswers(v)
    \/ LockGranted(v)
    \/ DownloadEnds(v)
    \/ DownloadFails(v)
    \/ WorkerCancelled(v)

Next ==
    \/ \E k \in Keys \cup {None} : AskVideo(k)
    \/ GetVideo
    \/ \E v \in Videos : WorkerNext(v)
    \/ CacheNext /\ UNCHANGED <<registry, worker, request, made, restarts>>
    \/ Tick
    \/ Restart

Spec == Init /\ [][Next]_vars

\* The generation itself may hang for ever.  Downloads have a timeout, and
\* somebody keeps asking for videos, which is what makes time run out.
Fairness ==
    /\ WF_vars(Tick) /\ WF_vars(GetVideo)
    /\ \A v \in Videos :
         WF_vars(WorkerStarts(v) \/ DownloadEnds(v) \/ DownloadFails(v) \/ WorkerCancelled(v))
    /\ \A a \in Admins : WF_vars(StopReturns(a) /\ UNCHANGED <<registry, worker, request, made, restarts>>)
    /\ \A l \in Loops : WF_vars(LoopEnds(l) /\ UNCHANGED <<registry, worker, request, made, restarts>>)

FairSpec == Spec /\ Fairness

-----------------------------------------------------------------------------
(* Properties *)

\* One idempotency key never has two generations at work: a retry gets the
\* task that is there, and the key of a task that timed out is free only
\* together with the cancellation of its worker (create_idempotent,
\* _cancel_background_video_task).
OneWorkPerKey ==
    \A v, w \in Videos : v # w /\ Runs(v) /\ Runs(w) =>
        request[v] = None \/ request[v] # request[w]

\* The content of a completed video can be served until the file is older than
\* the cache keeps files, whoever downloads, looks up or cleans up meanwhile.
ContentIsServable ==
    \A v \in Videos :
        registry.tasks[v].status = "completed" /\ made[v] < CacheTimeout =>
            Present(registry.tasks[v].file)

\* A task that ended keeps its outcome and its file, and a task whose time was
\* up does not complete: a worker that finishes late cannot bring it back after
\* its key was given away, nor can a clean-up fail a video that is there.
OutcomeStays ==
    [][\A v \in Videos :
         LET before == registry.tasks[v]  after == registry'.tasks[v] IN
         /\ before.status \in Terminal =>
              after.status = "absent" \/ [after EXCEPT !.left = before.left] = before
         /\ v \in TimedOut(registry) => after.status # "completed"]_vars

\* Every worker ends, even when its generation hangs, as long as somebody asks
\* for some video.
EveryWorkerEnds == \A v \in Videos : Live(v) ~> ~Live(v)
=============================================================================
