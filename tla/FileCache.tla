------------------------------ MODULE FileCache ------------------------------
(***************************************************************************)
(* The cache of downloaded media (services/file_cache.py): the files with  *)
(* their ages, a download lock per file name, the timeout an administrator *)
(* sets, and the background loop that removes old files.  The loop is      *)
(* started and stopped from update_cache_enabled and                       *)
(* update_cache_config (api/admin.py); stop_cleanup_task waits for the     *)
(* cancelled loop between two of its steps.                                *)
(***************************************************************************)
EXTENDS Naturals

CONSTANTS Files, None,
          Downloaders,   \* whoever calls download_and_cache
          Admins,        \* requests of administrators that change the timeout
          Loops,         \* cleanup tasks that may be created
          CacheTimeout,  \* the timeout that is set when it is not zero
          MaxChanges     \* bound: changes of the timeout

VARIABLES age,      \* age of each file, up to CacheTimeout + 1; None: not there
          holder,   \* who holds the download lock of a name
          timeout,  \* default_timeout
          cleaner,  \* _cleanup_task
          loop,     \* state of each cleanup task
          admin,    \* the cleanup task each administrator waits for
          changes

FirstLoop == CHOOSE l \in Loops : TRUE

\* The lifespan sets the timeout and starts the loop.
Startup(t) ==
    /\ timeout = t
    /\ cleaner = (IF t = 0 THEN None ELSE FirstLoop)
    /\ loop = [l \in Loops |-> IF l = cleaner THEN "running" ELSE "unborn"]

CacheInit ==
    /\ age = [f \in Files |-> None]
    /\ holder = [f \in Files |-> None]
    /\ \E t \in {0, CacheTimeout} : Startup(t)
    /\ admin = [a \in Admins |-> None]
    /\ changes = 0

Present(f) == age[f] # None

-----------------------------------------------------------------------------
(* download_and_cache *)

\* Mutant: the comparison of the age with the timeout is the wrong way round.
HitSwapped(f) == Present(f) /\ (timeout = 0 \/ age[f] >= CacheTimeout)

\* A file that is young enough, or that never expires, is used as it is.
Hit(f) == Present(f) /\ (timeout = 0 \/ age[f] < CacheTimeout)

\* What is left of a file that is looked up: an old one is removed.
LookedUp(f) == IF Hit(f) THEN age ELSE [age EXCEPT ![f] = None]

Stored(f) == [age EXCEPT ![f] = 0]

-----------------------------------------------------------------------------
(* The cleanup loop and its administration *)

Ended(l) == loop[l] = "done"

\* start_cleanup_task, which finds a task that has not ended good enough.
StartLoop ==
    IF cleaner # None /\ ~Ended(cleaner)
    THEN UNCHANGED <<cleaner, loop>>
    ELSE \E l \in Loops :
           /\ loop[l] = "unborn"
           /\ cleaner' = l
           /\ loop' = [loop EXCEPT ![l] = "running"]

\* stop_cleanup_task up to its await.
StopLoop(a) ==
    IF cleaner = None
    THEN UNCHANGED <<loop, admin>>
    ELSE /\ loop' = [loop EXCEPT ![cleaner] = IF @ = "running" THEN "cancelled" ELSE @]
         /\ admin' = [admin EXCEPT ![a] = cleaner]

\* set_timeout followed by refresh_cleanup_task.
SetTimeout(a, t) ==
    /\ admin[a] = None /\ changes < MaxChanges
    /\ changes' = changes + 1
    /\ timeout' = t
    /\ \/ t = 0 /\ StopLoop(a) /\ UNCHANGED cleaner
       \/ t > 0 /\ StartLoop /\ UNCHANGED admin
    /\ UNCHANGED <<age, holder>>

\* The cancelled loop leaves its sleep and ends.
LoopEnds(l) ==
    /\ loop[l] = "cancelled"
    /\ loop' = [loop EXCEPT ![l] = "done"]
    /\ UNCHANGED <<age, holder, timeout, cleaner, admin, changes>>

\* stop_cleanup_task after its await.
StopReturns(a) ==
    /\ admin[a] # None /\ Ended(admin[a])
    /\ cleaner' = None
    /\ admin' = [admin EXCEPT ![a] = None]
    /\ UNCHANGED <<age, holder, timeout, loop, changes>>

\* _cleanup_expired_files in one pass; a file that cannot be deleted stays.
CleanupPass(l) ==
    /\ loop[l] = "running" /\ timeout > 0
    /\ \E gone \in SUBSET {f \in Files : Present(f) /\ age[f] > CacheTimeout} :
         age' = [f \in Files |-> IF f \in gone THEN None ELSE age[f]]
    /\ UNCHANGED <<holder, timeout, cleaner, loop, admin, changes>>

FilesGrowOld ==
    age' = [f \in Files |-> IF age[f] \in 0 .. CacheTimeout THEN age[f] + 1 ELSE age[f]]

CacheNext ==
    \/ \E a \in Admins : StopReturns(a) \/ \E t \in {0, CacheTimeout} : SetTimeout(a, t)
    \/ \E l \in Loops : LoopEnds(l) \/ CleanupPass(l)

=============================================================================
