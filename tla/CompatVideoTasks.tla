-------------------------- MODULE CompatVideoTasks --------------------------
(***************************************************************************)
(* The registry of compatible video tasks (services/compat_video_tasks.py).*)
(* Every method of the registry runs without suspension under its lock, so *)
(* each of them is an operator from a registry to a registry, and the      *)
(* modules that use the registry compose them into their actions.  Task    *)
(* identifiers are fresh for ever.  The expiry time of a task is kept as   *)
(* the time it has left, so that no clock has to be bounded.               *)
(***************************************************************************)
EXTENDS Naturals, FiniteSets

CONSTANTS Videos,   \* task identifiers
          Keys,     \* idempotency digests
          Files,    \* names of cached files
          None,
          Ttl,      \* ttl_seconds
          Capacity

ASSUME RegistryAssumption ==
    /\ Ttl \in Nat \ {0} /\ Capacity \in Nat \ {0}
    /\ None \notin Videos \cup Keys \cup Files

VARIABLE registry   \* CompatVideoTaskRegistry: _tasks and _idempotency

Active == {"queued", "in_progress"}
Terminal == {"completed", "failed", "cancelled"}
Absent == [status |-> "absent", left |-> 0, file |-> None]

RegistryInit ==
    registry = [tasks |-> [v \in Videos |-> Absent],
                index |-> [k \in Keys |-> None]]

Known(reg) == {v \in Videos : reg.tasks[v].status # "absent"}

\* The idempotency entries that name one of the tasks gone are dropped.
Unindex(index, gone) ==
    [k \in Keys |-> IF index[k] \in gone
                    THEN None ELSE index[k]]

RemoveTasks(reg, gone) ==
    [tasks |-> [v \in Videos |-> IF v \in gone THEN Absent ELSE reg.tasks[v]],
     index |-> Unindex(reg.index, gone)]

Expired(reg) == {v \in Known(reg) : reg.tasks[v].left = 0}

\* The active tasks whose time is up; the expiry hook is called for them.
TimedOut(reg) == {v \in Expired(reg) : reg.tasks[v].status \in Active}

\* _cleanup_expired_unlocked: an active task times out and is kept for
\* another period, any other expired task disappears.
CleanUp(reg) ==
    LET late == TimedOut(reg)
        kept == RemoveTasks(reg, Expired(reg) \ late)
    IN  [tasks |-> [v \in Videos |->
                      IF v \in late
                      THEN [status |-> "failed", left |-> Ttl, file |-> reg.tasks[v].file]
                      ELSE kept.tasks[v]],
         index |-> Unindex(kept.index, late)]

Finished(reg) == {v \in Videos : reg.tasks[v].status \in Terminal}

\* The terminal tasks finished first; the order among equals is arbitrary.
Oldest(reg) ==
    {v \in Finished(reg) :
        \A w \in Finished(reg) : reg.tasks[v].left <= reg.tasks[w].left}

Full(reg) == Cardinality(Known(reg)) >= Capacity

\* _ensure_capacity_unlocked, after a clean-up: what it may leave behind.
\* Tasks are added one at a time, so one eviction makes room.
Rooms(reg) ==
    IF Full(reg) THEN {RemoveTasks(reg, {v}) : v \in Oldest(reg)} ELSE {reg}

\* A key that is in use answers a request.
Answers(reg, k) ==
    /\ k # None
    /\ reg.index[k] \in Known(reg)

\* create and create_idempotent add the queued task.
Add(reg, v, k) ==
    [tasks |-> [reg.tasks EXCEPT ![v] = [status |-> "queued", left |-> Ttl, file |-> None]],
     index |-> IF k = None THEN reg.index
               ELSE [reg.index EXCEPT ![k] = v]]

\* Mutant: an update does not look at the status it overwrites.
UpdateAlways(reg, v, status, file) ==
    IF reg.tasks[v].status = "absent" THEN reg
    ELSE [reg EXCEPT !.tasks[v].status = status,
                     !.tasks[v].file = IF file = None THEN @ ELSE file,
                     !.tasks[v].left = IF status \in Terminal THEN Ttl ELSE @]

\* update, after the clean-up: a task that reached an end keeps it.
Update(reg, v, status, file) ==
    IF reg.tasks[v].status \notin Active THEN reg
    ELSE [reg EXCEPT !.tasks[v] = [status |-> status,
                                   left |-> IF status \in Terminal THEN Ttl ELSE @.left,
                                   file |-> IF file = None THEN @.file ELSE file]]

\* A second passes for every task.
Older(reg) ==
    [reg EXCEPT !.tasks = [v \in Videos |->
        [reg.tasks[v] EXCEPT !.left = IF @ = 0 THEN 0 ELSE @ - 1]]]
=============================================================================
