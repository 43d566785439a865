------------------------ MODULE YingceAdapterProofs ------------------------
(***************************************************************************)
(* For any videos, keys, files, capacity, time to live and changes of the  *)
(* cache: a key never has two generations at work, a task keeps its        *)
(* outcome, and the file of a completed task is there as long as promised. *)
(***************************************************************************)
EXTENDS YingceAdapter, TLAPS

(***************************************************************************)
(* The methods of the registry.                                            *)
(***************************************************************************)
Task == [status : {"absent"} \cup Active \cup Terminal, left : Nat, file : Files \cup {None}]

Registry == [tasks : [Videos -> Task], index : [Keys -> Videos \cup {None}]]

\* An update writes one of these.
Written == {"in_progress", "failed", "completed"}

LEMMA AbsentTask == Absent \in Task
BY DEF Absent, Task

\* A clean-up fails what timed out, drops what else expired, with its keys.
LEMMA CleanedUp ==
    ASSUME NEW reg \in Registry
    PROVE  /\ CleanUp(reg) \in Registry
           /\ \A v \in Videos :
                 CleanUp(reg).tasks[v] =
                    IF v \in TimedOut(reg)
                    THEN [status |-> "failed", left |-> Ttl, file |-> reg.tasks[v].file]
                    ELSE IF v \in Expired(reg) THEN Absent ELSE reg.tasks[v]
           /\ \A k \in Keys : CleanUp(reg).index[k] =
                                 IF reg.index[k] \in Expired(reg) THEN None ELSE reg.index[k]
<1> DEFINE late == TimedOut(reg)
           kept == RemoveTasks(reg, Expired(reg) \ late)
           C == CleanUp(reg)
<1>1. reg.tasks \in [Videos -> Task] /\ reg.index \in [Keys -> Videos \cup {None}]
  BY DEF Registry
<1>2. late \subseteq Expired(reg) /\ Expired(reg) \subseteq Videos /\ None \notin Videos
  BY RegistryAssumption DEF TimedOut, Expired, Known
<1>3. \A v \in Videos : kept.tasks[v] = IF v \in Expired(reg) \ late THEN Absent ELSE reg.tasks[v]
  BY DEF RemoveTasks
<1>4. \A k \in Keys : kept.index[k] = IF reg.index[k] \in Expired(reg) \ late THEN None
                                                                     ELSE reg.index[k]
  BY DEF RemoveTasks, Unindex
<1>5. C = [tasks |-> [v \in Videos |-> IF v \in late
                                       THEN [status |-> "failed", left |-> Ttl, file |-> reg.tasks[v].file]
                                       ELSE kept.tasks[v]],
           index |-> Unindex(kept.index, late)]
  BY DEF CleanUp
<1> HIDE DEF kept, C
<1>6. ASSUME NEW v \in Videos
      PROVE  C.tasks[v] = IF v \in late
                          THEN [status |-> "failed", left |-> Ttl, file |-> reg.tasks[v].file]
                          ELSE IF v \in Expired(reg) THEN Absent ELSE reg.tasks[v]
  BY <1>3, <1>5
<1>7. ASSUME NEW k \in Keys
      PROVE  C.index[k] = IF reg.index[k] \in Expired(reg) THEN None ELSE reg.index[k]
  <2>1. C.index[k] = IF kept.index[k] \in late THEN None ELSE kept.index[k]
    BY <1>5 DEF Unindex
  <2> QED BY <1>2, <1>4, <2>1
<1>8. C \in Registry
  <2>1. \A v \in Videos : C.tasks[v] \in Task
    <3> SUFFICES ASSUME NEW v \in Videos PROVE C.tasks[v] \in Task
      OBVIOUS
    <3>1. reg.tasks[v] \in Task /\ reg.tasks[v].file \in Files \cup {None}
      BY <1>1 DEF Task
    <3>2. [status |-> "failed", left |-> Ttl, file |-> reg.tasks[v].file] \in Task
      BY <3>1, RegistryAssumption DEF Task, Terminal
    <3> QED BY <1>6, <3>1, <3>2, AbsentTask
  <2>2. \A k \in Keys : C.index[k] \in Videos \cup {None}
    BY <1>1, <1>7
  <2>3. C = [tasks |-> [v \in Videos |-> C.tasks[v]], index |-> [k \in Keys |-> C.index[k]]]
    BY <1>5 DEF Unindex
  <2> QED BY <2>1, <2>2, <2>3 DEF Registry
<1> QED BY <1>6, <1>7, <1>8 DEF C

\* An update writes an active task and no other.
LEMMA Updated ==
    ASSUME NEW reg \in Registry, NEW v \in Videos, NEW status \in Written,
           NEW file \in Files \cup {None}
    PROVE  /\ Update(reg, v, status, file) \in Registry
           /\ \A w \in Videos \ {v} : Update(reg, v, status, file).tasks[w] = reg.tasks[w]
           /\ Update(reg, v, status, file).index = reg.index
           /\ reg.tasks[v].status \notin Active =>
                 Update(reg, v, status, file).tasks[v] = reg.tasks[v]
           /\ reg.tasks[v].status \in Active =>
                 /\ Update(reg, v, status, file).tasks[v].status = status
                 /\ file # None => Update(reg, v, status, file).tasks[v].file = file
<1> DEFINE t == reg.tasks[v]
           new == [status |-> status, left |-> IF status \in Terminal THEN Ttl ELSE t.left,
                   file |-> IF file = None THEN t.file ELSE file]
           U == Update(reg, v, status, file)
<1>1. /\ reg = [tasks |-> reg.tasks, index |-> reg.index]
      /\ reg.tasks \in [Videos -> Task] /\ reg.index \in [Keys -> Videos \cup {None}]
      /\ t \in Task
  BY DEF Registry
<1>2. CASE t.status \notin Active
  BY <1>1, <1>2 DEF Update
<1>3. CASE t.status \in Active
  <2>1. new \in Task
    BY <1>1, RegistryAssumption DEF Task, Written, Active, Terminal
  <2>2. U = [reg EXCEPT !.tasks = [reg.tasks EXCEPT ![v] = new]]
    BY <1>1, <1>3 DEF Update
  <2>3. U = [tasks |-> [reg.tasks EXCEPT ![v] = new], index |-> reg.index]
    BY <1>1, <2>2
  <2> HIDE DEF new
  <2>4. U.tasks[v] = new /\ \A w \in Videos \ {v} : U.tasks[w] = reg.tasks[w]
    BY <1>1, <2>3
  <2>5. U.index = reg.index /\ U \in Registry
    BY <1>1, <2>1, <2>3 DEF Registry
  <2>6. new.status = status /\ (file # None => new.file = file)
    BY DEF new
  <2> QED BY <1>3, <2>4, <2>5, <2>6
<1> QED BY <1>2, <1>3

\* Room is made by removing one finished task, with its key.
LEMMA RoomMade ==
    ASSUME NEW reg \in Registry, NEW room \in Rooms(reg)
    PROVE  /\ room \in Registry
           /\ \A v \in Videos : \/ room.tasks[v] = reg.tasks[v]
                                \/ /\ reg.tasks[v].status \in Terminal
                                   /\ room.tasks[v] = Absent
           /\ \A k \in Keys : \/ room.index[k] = reg.index[k]
                              \/ /\ reg.index[k] \in Videos /\ room.index[k] = None
                                 /\ reg.tasks[reg.index[k]].status \in Terminal
<1>1. CASE room = reg
  BY <1>1
<1>2. CASE \E v \in Oldest(reg) : room = RemoveTasks(reg, {v})
  <2>1. PICK v \in Videos : reg.tasks[v].status \in Terminal /\ room = RemoveTasks(reg, {v})
    BY <1>2 DEF Oldest, Finished
  <2>2. room = [tasks |-> [w \in Videos |-> IF w \in {v} THEN Absent ELSE reg.tasks[w]],
                index |-> [k \in Keys |-> IF reg.index[k] \in {v} THEN None ELSE reg.index[k]]]
    BY <2>1 DEF RemoveTasks, Unindex
  <2>3. reg.tasks \in [Videos -> Task] /\ reg.index \in [Keys -> Videos \cup {None}]
    BY DEF Registry
  <2>4. room \in Registry
    BY <2>2, <2>3, AbsentTask DEF Registry
  <2> QED BY <2>1, <2>2, <2>4
<1> QED BY <1>1, <1>2 DEF Rooms

LEMMA Added ==
    ASSUME NEW reg \in Registry, NEW v \in Videos, NEW k \in Keys \cup {None}
    PROVE  /\ Add(reg, v, k) \in Registry
           /\ Add(reg, v, k).tasks[v].status = "queued"
           /\ \A w \in Videos \ {v} : Add(reg, v, k).tasks[w] = reg.tasks[w]
           /\ k \in Keys => Add(reg, v, k).index[k] = v
           /\ \A i \in Keys \ {k} : Add(reg, v, k).index[i] = reg.index[i]
<1> DEFINE new == [status |-> "queued", left |-> Ttl, file |-> None]
<1>1. new \in Task
  BY RegistryAssumption DEF Task, Active
<1>2. reg.tasks \in [Videos -> Task] /\ reg.index \in [Keys -> Videos \cup {None}]
  BY DEF Registry
<1>3. Add(reg, v, k) = [tasks |-> [reg.tasks EXCEPT ![v] = new],
                        index |-> IF k = None THEN reg.index ELSE [reg.index EXCEPT ![k] = v]]
  BY DEF Add
<1>4. new.status = "queued"
  OBVIOUS
<1> HIDE DEF new
<1>5. None \notin Keys
  BY RegistryAssumption
<1> QED BY <1>1, <1>2, <1>3, <1>4, <1>5 DEF Registry

----------------------------------------------------------------------------
(***************************************************************************)
(* The invariant.                                                          *)
(***************************************************************************)
Workers == [pc : {"none", "start", "generating", "waiting", "downloading", "ended"},
            file : Files \cup {None}, inner : BOOLEAN, cancelled : BOOLEAN]

Ages == [Files -> Nat \cup {None}]

Shape ==
    /\ registry \in Registry
    /\ worker \in [Videos -> Workers]
    /\ \A v \in Videos : worker[v].pc \in {"waiting", "downloading"} => worker[v].file \in Files
    /\ request \in [Videos -> Keys \cup {None, Unused}]
    /\ made \in [Videos -> Nat]
    /\ age \in Ages

\* A worker that is not cancelled works on an active task, which its key names.
Serves(v) ==
    Runs(v) => /\ registry.tasks[v].status \in Active
               /\ request[v] # Unused
               /\ request[v] \in Keys => registry.index[request[v]] = v

Unborn(v) == request[v] = Unused => registry.tasks[v].status = "absent"

\* The file of a completed task is there, and no older than the task.
Backed(v) ==
    LET f == registry.tasks[v].file
    IN  f \in Files /\ age[f] \in Nat /\ age[f] <= made[v]

Servable(v) == registry.tasks[v].status = "completed" /\ made[v] < CacheTimeout => Backed(v)

DeliveryInv == Shape /\ \A v \in Videos : Serves(v) /\ Unborn(v) /\ Servable(v)

----------------------------------------------------------------------------
(***************************************************************************)
(* What a step may do to a task, its worker and the files.                 *)
(***************************************************************************)
\* The action of OutcomeStays for one task.
OutcomeKept(v) ==
    LET before == registry.tasks[v]  after == registry'.tasks[v] IN
    /\ before.status \in Terminal =>
         after.status = "absent" \/ [after EXCEPT !.left = before.left] = before
    /\ v \in TimedOut(registry) => after.status # "completed"

\* A task gets no worker and no outcome that it had not, and keeps its key.
TaskKept(v) ==
    LET before == registry.tasks[v]  after == registry'.tasks[v] IN
    /\ request'[v] = request[v] /\ made'[v] = made[v]
    /\ Runs(v)' => Runs(v) /\ after.status \in Active
                           /\ (request[v] \in Keys => registry'.index[request[v]] = v)
    /\ before.status = "absent" => after.status = "absent"
    /\ after.status = "completed" => before.status = "completed" /\ after.file = before.file

\* No file is lost, or gets older, while it is young.
FilesKept ==
    \A f \in Files :
        age[f] \in Nat /\ age[f] < CacheTimeout => age'[f] \in Nat /\ age'[f] <= age[f]

LEMMA TasksKeep ==
    ASSUME DeliveryInv, Shape', FilesKept, NEW v \in Videos, TaskKept(v)
    PROVE  (Serves(v) /\ Unborn(v) /\ Servable(v))'
<1>1. Serves(v)' /\ Unborn(v)'
  BY DEF DeliveryInv, TaskKept, Serves, Unborn
<1>2. ASSUME registry'.tasks[v].status = "completed", made'[v] < CacheTimeout PROVE Backed(v)'
  <2>1. Backed(v) /\ registry'.tasks[v].file = registry.tasks[v].file
    BY <1>2 DEF DeliveryInv, TaskKept, Servable
  <2>2. made[v] \in Nat /\ made'[v] = made[v] /\ CacheTimeout \in Nat
    BY DeliveryAssumption DEF DeliveryInv, Shape, TaskKept
  <2> QED BY <1>2, <2>1, <2>2 DEF Backed, FilesKept
<1> QED BY <1>1, <1>2 DEF Servable

\* A clean-up: the task of a worker that goes on is as it was, and so is what a
\* completed task is.
LEMMA CleanedTask ==
    ASSUME DeliveryInv, NEW v \in Videos
    PROVE  LET before == registry.tasks[v]  after == CleanUp(registry).tasks[v] IN
           /\ CleanUp(registry) \in Registry
           /\ before \in Task /\ after \in Task
           /\ Runs(v) /\ v \notin TimedOut(registry) =>
                 /\ after = before
                 /\ request[v] \in Keys => CleanUp(registry).index[request[v]] = v
           /\ v \in TimedOut(registry) => after.status = "failed"
           /\ before.status \in Terminal \cup {"absent"} => after = before \/ after = Absent
           /\ before.status = "absent" => after.status = "absent"
           /\ after.status \in Active \cup {"completed"} => after = before
<1>1. registry \in Registry /\ registry.tasks[v] \in Task
  BY DEF DeliveryInv, Shape, Registry
<1>2. /\ CleanUp(registry) \in Registry
      /\ CleanUp(registry).tasks[v] =
            IF v \in TimedOut(registry)
            THEN [status |-> "failed", left |-> Ttl, file |-> registry.tasks[v].file]
            ELSE IF v \in Expired(registry) THEN Absent ELSE registry.tasks[v]
      /\ \A k \in Keys : CleanUp(registry).index[k] =
            IF registry.index[k] \in Expired(registry) THEN None ELSE registry.index[k]
  BY <1>1, CleanedUp
<1>3. CleanUp(registry).tasks[v] \in Task
  BY <1>2 DEF Registry
<1>4. ASSUME Runs(v), v \notin TimedOut(registry)
      PROVE  v \notin Expired(registry) /\ (request[v] \in Keys => registry.index[request[v]] = v)
  BY <1>4 DEF DeliveryInv, Serves, TimedOut
<1>5. v \in TimedOut(registry) => registry.tasks[v].status \in Active
  BY DEF TimedOut
<1> QED BY <1>1, <1>2, <1>3, <1>4, <1>5 DEF Absent, Active, Terminal

LEMMA LeftRestored ==
    ASSUME NEW t \in Task, NEW left
    PROVE  /\ [t EXCEPT !.left = t.left] = t
           /\ [[t EXCEPT !.left = left] EXCEPT !.left = t.left] = t
<1>1. t = [status |-> t.status, left |-> t.left, file |-> t.file]
  BY DEF Task
<1> QED BY <1>1

LEMMA OutcomeSame ==
    ASSUME NEW v \in Videos, registry.tasks[v] \in Task,
           \/ registry'.tasks[v] = registry.tasks[v]
           \/ registry'.tasks[v].status = "absent"
           \/ registry.tasks[v].status \notin Terminal,
           v \in TimedOut(registry) => registry'.tasks[v].status # "completed"
    PROVE  OutcomeKept(v)
<1>1. CASE registry'.tasks[v] = registry.tasks[v]
  <2>1. [registry.tasks[v] EXCEPT !.left = registry.tasks[v].left] = registry.tasks[v]
    BY LeftRestored
  <2> QED BY <1>1, <2>1 DEF OutcomeKept
<1>2. CASE registry'.tasks[v].status = "absent" \/ registry.tasks[v].status \notin Terminal
  BY <1>2 DEF OutcomeKept
<1> QED BY <1>1, <1>2

LEMMA CancelledWorkers ==
    ASSUME Shape, NEW late
    PROVE  /\ Cancelled(late) \in [Videos -> Workers]
           /\ \A v \in Videos :
                 /\ Cancelled(late)[v].pc = worker[v].pc
                 /\ Cancelled(late)[v].file = worker[v].file
                 /\ v \in late /\ Live(v) => Cancelled(late)[v].cancelled = TRUE
                 /\ ~(v \in late /\ Live(v)) => Cancelled(late)[v] = worker[v]
<1> SUFFICES ASSUME NEW v \in Videos
             PROVE  /\ Cancelled(late)[v] \in Workers
                    /\ Cancelled(late)[v].pc = worker[v].pc
                    /\ Cancelled(late)[v].file = worker[v].file
                    /\ v \in late /\ Live(v) => Cancelled(late)[v].cancelled = TRUE
                    /\ ~(v \in late /\ Live(v)) => Cancelled(late)[v] = worker[v]
  BY DEF Cancelled
<1>1. worker[v] \in Workers
  BY DEF Shape
<1>2. Cancelled(late)[v] = IF v \in late /\ Live(v) THEN [worker[v] EXCEPT !.cancelled = TRUE]
                                                     ELSE worker[v]
  BY DEF Cancelled
<1>3. CASE v \in late /\ Live(v)
  <2>1. Cancelled(late)[v] = [worker[v] EXCEPT !.cancelled = TRUE]
    BY <1>2, <1>3
  <2> QED BY <1>1, <1>3, <2>1 DEF Workers
<1>4. CASE ~(v \in late /\ Live(v))
  BY <1>1, <1>2, <1>4
<1> QED BY <1>3, <1>4

LEMMA InvKept ==
    ASSUME DeliveryInv, Shape', FilesKept, \A v \in Videos : TaskKept(v)
    PROVE  DeliveryInv'
BY TasksKeep DEF DeliveryInv

\* Worker w, which is not at work in this step, during a clean-up.
LEMMA OtherCleaned ==
    ASSUME DeliveryInv, NEW w \in Videos,
           worker'[w] = Cancelled(TimedOut(registry))[w], Runs(w)'
    PROVE  Runs(w) /\ w \notin TimedOut(registry)
<1>1. /\ Cancelled(TimedOut(registry))[w].pc = worker[w].pc
      /\ w \in TimedOut(registry) /\ Live(w) => Cancelled(TimedOut(registry))[w].cancelled
      /\ ~(w \in TimedOut(registry) /\ Live(w)) =>
            Cancelled(TimedOut(registry))[w] = worker[w]
  BY CancelledWorkers DEF DeliveryInv
<1> QED BY <1>1 DEF Runs, Live

\* A call that only cleans up.
LEMMA CleansKeep ==
    ASSUME DeliveryInv, registry' = CleanUp(registry),
           worker' = Cancelled(TimedOut(registry)), UNCHANGED <<request, made, age>>
    PROVE  DeliveryInv' /\ \A v \in Videos : OutcomeKept(v)
<1>1. Shape'
  <2>1. registry' \in Registry
    BY CleanedUp DEF DeliveryInv, Shape
  <2>2. /\ worker' \in [Videos -> Workers]
        /\ \A v \in Videos : worker'[v].pc = worker[v].pc /\ worker'[v].file = worker[v].file
    BY CancelledWorkers DEF DeliveryInv
  <2> QED BY <2>1, <2>2 DEF DeliveryInv, Shape
<1>2. FilesKept
  BY DeliveryAssumption DEF FilesKept
<1>3. ASSUME NEW v \in Videos PROVE TaskKept(v)
  <2>1. Runs(v)' => Runs(v) /\ v \notin TimedOut(registry)
    BY OtherCleaned
  <2>2. /\ Runs(v) /\ v \notin TimedOut(registry) =>
              /\ registry'.tasks[v].status \in Active
              /\ request[v] \in Keys => registry'.index[request[v]] = v
        /\ registry.tasks[v].status = "absent" => registry'.tasks[v].status = "absent"
        /\ registry'.tasks[v].status = "completed" => registry'.tasks[v] = registry.tasks[v]
    BY CleanedTask DEF DeliveryInv, Serves
  <2> QED BY <2>1, <2>2 DEF TaskKept
<1>4. ASSUME NEW v \in Videos PROVE OutcomeKept(v)
  <2>1. /\ registry.tasks[v] \in Task
        /\ registry.tasks[v].status \in Terminal =>
              registry'.tasks[v] = registry.tasks[v] \/ registry'.tasks[v] = Absent
        /\ v \in TimedOut(registry) => registry'.tasks[v].status = "failed"
    BY CleanedTask
  <2> QED BY <2>1, OutcomeSame DEF Absent
<1> QED BY <1>1, <1>2, <1>3, <1>4, InvKept

\* A call that cleans up and adds the task u.
LEMMA CreatesKeep ==
    ASSUME DeliveryInv, NEW u \in Fresh, NEW k \in Keys \cup {None},
           NEW room \in Rooms(CleanUp(registry)), ~Answers(CleanUp(registry), k),
           registry' = Add(room, u, k), request' = [request EXCEPT ![u] = k],
           worker' = [Cancelled(TimedOut(registry)) EXCEPT ![u].pc = "start"],
           UNCHANGED <<made, age>>
    PROVE  DeliveryInv' /\ \A v \in Videos : OutcomeKept(v)
<1> DEFINE reg == CleanUp(registry)
           late == TimedOut(registry)
<1>1. /\ u \in Videos /\ request[u] = Unused /\ registry.tasks[u].status = "absent"
      /\ ~Runs(u) /\ u \notin late
  <2>1. u \in Videos /\ request[u] = Unused
    BY DEF Fresh
  <2> QED BY <2>1 DEF DeliveryInv, Serves, Unborn, TimedOut, Active
<1>2. reg \in Registry
  BY CleanedUp DEF DeliveryInv, Shape
<1> HIDE DEF reg
<1>3. /\ room \in Registry
      /\ \A v \in Videos : \/ room.tasks[v] = reg.tasks[v]
                           \/ /\ reg.tasks[v].status \in Terminal
                              /\ room.tasks[v] = Absent
      /\ \A i \in Keys : \/ room.index[i] = reg.index[i]
                         \/ /\ reg.index[i] \in Videos /\ room.index[i] = None
                            /\ reg.tasks[reg.index[i]].status \in Terminal
  BY <1>2, RoomMade DEF reg
<1>4. /\ registry' \in Registry /\ registry'.tasks[u].status = "queued"
      /\ \A v \in Videos \ {u} : registry'.tasks[v] = room.tasks[v]
      /\ k \in Keys => registry'.index[k] = u
      /\ \A i \in Keys \ {k} : registry'.index[i] = room.index[i]
  BY <1>1, <1>3, Added
<1>5. /\ request' \in [Videos -> Keys \cup {None, Unused}] /\ request'[u] = k
      /\ \A v \in Videos \ {u} : request'[v] = request[v]
  BY <1>1 DEF DeliveryInv, Shape
<1>6. /\ worker' \in [Videos -> Workers] /\ worker'[u].pc = "start"
      /\ \A v \in Videos \ {u} : worker'[v] = Cancelled(late)[v]
      /\ \A v \in Videos \ {u} : worker'[v].pc = worker[v].pc /\ worker'[v].file = worker[v].file
  <2>1. /\ Cancelled(late) \in [Videos -> Workers]
        /\ \A v \in Videos : /\ Cancelled(late)[v].pc = worker[v].pc
                             /\ Cancelled(late)[v].file = worker[v].file
    BY CancelledWorkers DEF DeliveryInv
  <2> HIDE DEF late
  <2>2. worker' = [Cancelled(late) EXCEPT ![u] = [Cancelled(late)[u] EXCEPT !.pc = "start"]]
    BY <1>1, <2>1 DEF late
  <2>3. PICK first : first = [Cancelled(late)[u] EXCEPT !.pc = "start"]
    OBVIOUS
  <2>4. u \in Videos /\ first \in Workers /\ first.pc = "start"
    BY <1>1, <2>1, <2>3 DEF Workers
  <2>5. worker' = [Cancelled(late) EXCEPT ![u] = first]
    BY <2>2, <2>3
  <2>6. worker' \in [Videos -> Workers] /\ worker'[u].pc = "start"
    BY <2>1, <2>4, <2>5
  <2>7. \A v \in Videos \ {u} : worker'[v] = Cancelled(late)[v]
    BY <2>1, <2>4, <2>5
  <2> QED BY <2>1, <2>6, <2>7
<1>7. Shape'
  BY <1>4, <1>5, <1>6 DEF DeliveryInv, Shape
<1>8. FilesKept
  BY DeliveryAssumption DEF FilesKept
<1>9. ASSUME NEW v \in Videos \ {u} PROVE TaskKept(v)
  <2>1. Runs(v)' => Runs(v) /\ v \notin late
    BY <1>6, OtherCleaned
  <2>2. Runs(v) /\ v \notin late =>
           /\ reg.tasks[v] = registry.tasks[v] /\ reg.tasks[v].status \in Active
           /\ request[v] \in Keys => reg.index[request[v]] = v
    BY CleanedTask DEF reg, DeliveryInv, Serves
  <2>3. Runs(v) /\ v \notin late => request[v] # k \/ k = None
    <3>1. v \in Known(reg) <=> reg.tasks[v].status # "absent"
      BY DEF Known
    <3> QED BY <2>2, <3>1 DEF Answers, reg, Active
  <2>4. Runs(v) /\ v \notin late =>
           /\ room.tasks[v] = reg.tasks[v]
           /\ request[v] \in Keys => room.index[request[v]] = v
    BY <1>3, <2>2 DEF Active, Terminal
  <2>5. Runs(v)' => /\ Runs(v) /\ registry'.tasks[v].status \in Active
                    /\ request[v] \in Keys => registry'.index[request[v]] = v
    BY <1>4, <2>1, <2>2, <2>3, <2>4, RegistryAssumption
  <2>6. /\ registry.tasks[v].status = "absent" => reg.tasks[v].status = "absent"
        /\ reg.tasks[v].status = "completed" => reg.tasks[v] = registry.tasks[v]
    BY CleanedTask DEF reg
  <2>7. registry'.tasks[v] = reg.tasks[v] \/ registry'.tasks[v] = Absent
    BY <1>3, <1>4
  <2> QED BY <1>5, <2>5, <2>6, <2>7 DEF TaskKept, Absent
<1>10. (Serves(u) /\ Unborn(u) /\ Servable(u))'
  BY <1>1, <1>4, <1>5, DeliveryAssumption DEF Serves, Unborn, Servable, Active
<1>11. ASSUME NEW v \in Videos PROVE OutcomeKept(v)
  <2>1. CASE v = u
    BY <1>1, <1>4, <2>1 DEF OutcomeKept, Terminal
  <2>2. CASE v # u
    <3>1. registry'.tasks[v] = reg.tasks[v] \/ registry'.tasks[v] = Absent
      BY <1>3, <1>4, <2>2
    <3>2. /\ registry.tasks[v] \in Task
          /\ registry.tasks[v].status \in Terminal =>
                reg.tasks[v] = registry.tasks[v] \/ reg.tasks[v] = Absent
          /\ v \in late => reg.tasks[v].status = "failed"
      BY CleanedTask DEF reg
    <3> QED BY <3>1, <3>2, OutcomeSame DEF Absent
  <2> QED BY <2>1, <2>2
<1>12. \A v \in Videos : (Serves(v) /\ Unborn(v) /\ Servable(v))'
  BY <1>7, <1>8, <1>9, <1>10, TasksKeep
<1> QED BY <1>7, <1>11, <1>12 DEF DeliveryInv

----------------------------------------------------------------------------
(***************************************************************************)
(* The steps.                                                              *)
(***************************************************************************)
\* Worker v writes its task, after a clean-up.
LEMMA UpdatesTo ==
    ASSUME DeliveryInv, NEW v \in Videos, Runs(v), NEW s \in Written, NEW f \in Files \cup {None},
           registry' = Update(CleanUp(registry), v, s, f), request' = request,
           \A w \in Videos \ {v} : /\ worker'[w] = Cancelled(TimedOut(registry))[w]
                                   /\ made'[w] = made[w]
    PROVE  /\ registry' \in Registry
           /\ \A w \in Videos \ {v} : TaskKept(w)
           /\ \A w \in Videos : OutcomeKept(w)
           /\ v \in TimedOut(registry) => registry'.tasks[v].status = "failed"
           /\ v \notin TimedOut(registry) =>
                 /\ registry'.tasks[v].status = s
                 /\ f # None => registry'.tasks[v].file = f
                 /\ request[v] \in Keys => registry'.index[request[v]] = v
<1> DEFINE reg == CleanUp(registry)
<1>1. reg \in Registry
  BY CleanedUp DEF DeliveryInv, Shape
<1>2. /\ v \in TimedOut(registry) => reg.tasks[v].status = "failed"
      /\ v \notin TimedOut(registry) =>
            /\ reg.tasks[v].status \in Active
            /\ request[v] \in Keys => reg.index[request[v]] = v
  BY CleanedTask DEF DeliveryInv, Serves
<1> HIDE DEF reg
<1>3. registry' = Update(reg, v, s, f)
  BY DEF reg
<1>4. /\ registry' \in Registry /\ registry'.index = reg.index
      /\ \A w \in Videos \ {v} : registry'.tasks[w] = reg.tasks[w]
      /\ reg.tasks[v].status \notin Active => registry'.tasks[v] = reg.tasks[v]
      /\ reg.tasks[v].status \in Active =>
            registry'.tasks[v].status = s /\ (f # None => registry'.tasks[v].file = f)
  BY <1>1, <1>3, Updated
<1>5. ASSUME NEW w \in Videos \ {v} PROVE TaskKept(w)
  <2>1. Runs(w)' => Runs(w) /\ w \notin TimedOut(registry)
    BY OtherCleaned
  <2>2. /\ Runs(w) /\ w \notin TimedOut(registry) =>
              /\ reg.tasks[w].status \in Active
              /\ request[w] \in Keys => reg.index[request[w]] = w
        /\ registry.tasks[w].status = "absent" => reg.tasks[w].status = "absent"
        /\ reg.tasks[w].status = "completed" => reg.tasks[w] = registry.tasks[w]
    BY CleanedTask DEF reg, DeliveryInv, Serves
  <2> QED BY <1>4, <2>1, <2>2 DEF TaskKept
<1>6. ASSUME NEW w \in Videos PROVE OutcomeKept(w)
  <2>1. /\ registry.tasks[w] \in Task
        /\ registry.tasks[w].status \in Terminal =>
              reg.tasks[w] = registry.tasks[w] \/ reg.tasks[w] = Absent
        /\ w \in TimedOut(registry) => reg.tasks[w].status = "failed"
    BY CleanedTask DEF reg
  <2>2. CASE w = v
    <3>1. registry.tasks[v].status \in Active
      BY DEF DeliveryInv, Serves
    <3> QED BY <1>2, <1>4, <2>1, <2>2, <3>1, OutcomeSame DEF Active, Terminal
  <2>3. CASE w # v
    BY <1>4, <2>1, <2>3, OutcomeSame DEF Absent
  <2> QED BY <2>2, <2>3
<1> QED BY <1>2, <1>4, <1>5, <1>6 DEF Active

\* The worker v ends.
LEMMA LeavesShape ==
    ASSUME DeliveryInv, NEW v \in Videos, NEW late, Leaves(v, late)
    PROVE  /\ worker' \in [Videos -> Workers] /\ ~Runs(v)'
           /\ \A w \in Videos \ {v} : worker'[w] = Cancelled(late)[w]
           /\ \A w \in Videos :
                 worker'[w].pc \in {"waiting", "downloading"} => worker'[w].file \in Files
<1>1. /\ Cancelled(late) \in [Videos -> Workers]
      /\ \A w \in Videos : /\ Cancelled(late)[w].pc = worker[w].pc
                           /\ Cancelled(late)[w].file = worker[w].file
  BY CancelledWorkers DEF DeliveryInv
<1>2. [NoWorker EXCEPT !.pc = "ended"] \in Workers /\ [NoWorker EXCEPT !.pc = "ended"].pc = "ended"
  BY DEF NoWorker, Workers
<1>3. worker' \in [Videos -> Workers] /\ worker'[v].pc = "ended"
  BY <1>1, <1>2 DEF Leaves
<1>4. \A w \in Videos \ {v} : worker'[w] = Cancelled(late)[w]
  BY <1>1 DEF Leaves
<1> QED BY <1>1, <1>3, <1>4 DEF Runs, Live, DeliveryInv, Shape

LEMMA FailsKeep ==
    ASSUME DeliveryInv, NEW v \in Videos, Runs(v), Fails(v), UNCHANGED <<request, made, age>>
    PROVE  DeliveryInv' /\ \A w \in Videos : OutcomeKept(w)
<1>1. /\ worker' \in [Videos -> Workers] /\ ~Runs(v)'
      /\ \A w \in Videos \ {v} : worker'[w] = Cancelled(TimedOut(registry))[w]
      /\ \A w \in Videos :
            worker'[w].pc \in {"waiting", "downloading"} => worker'[w].file \in Files
  BY LeavesShape DEF Fails
<1>2. /\ registry' \in Registry
      /\ \A w \in Videos \ {v} : TaskKept(w)
      /\ \A w \in Videos : OutcomeKept(w)
      /\ registry'.tasks[v].status = "failed"
  BY <1>1, UpdatesTo DEF Fails, Written
<1>3. Shape'
  BY <1>1, <1>2 DEF DeliveryInv, Shape
<1>4. FilesKept
  BY DeliveryAssumption DEF FilesKept
<1>5. registry.tasks[v].status # "absent"
  BY DEF DeliveryInv, Serves, Active
<1>6. TaskKept(v)
  BY <1>1, <1>2, <1>5 DEF TaskKept
<1> QED BY <1>2, <1>3, <1>4, <1>6, InvKept

LEMMA DeliversKeep ==
    ASSUME DeliveryInv, NEW v \in Videos, Runs(v), NEW f \in Files, NEW ages \in Ages,
           ages[f] \in Nat, Delivers(v, f, ages), FilesKept, request' = request
    PROVE  DeliveryInv' /\ \A w \in Videos : OutcomeKept(w)
<1>1. /\ worker' \in [Videos -> Workers] /\ ~Runs(v)'
      /\ \A w \in Videos \ {v} : worker'[w] = Cancelled(TimedOut(registry))[w]
      /\ \A w \in Videos :
            worker'[w].pc \in {"waiting", "downloading"} => worker'[w].file \in Files
  BY LeavesShape DEF Delivers, Completes
<1>2. /\ made' \in [Videos -> Nat] /\ made'[v] = ages[f]
      /\ \A w \in Videos \ {v} : made'[w] = made[w]
  BY DEF Delivers, DeliveryInv, Shape
<1>3. f # None
  BY RegistryAssumption
<1>4. /\ registry' \in Registry
      /\ \A w \in Videos \ {v} : TaskKept(w)
      /\ \A w \in Videos : OutcomeKept(w)
      /\ registry'.tasks[v].status = "completed" => registry'.tasks[v].file = f
      /\ registry'.tasks[v].status # "absent"
  BY <1>1, <1>2, <1>3, UpdatesTo DEF Delivers, Completes, Written
<1>5. Shape'
  BY <1>1, <1>2, <1>4 DEF DeliveryInv, Shape, Delivers
<1>6. (Serves(v) /\ Unborn(v))'
  BY <1>1 DEF Serves, Unborn, DeliveryInv
<1>7. Servable(v)'
  BY <1>2, <1>4 DEF Servable, Backed, Delivers
<1>8. \A w \in Videos \ {v} : (Serves(w) /\ Unborn(w) /\ Servable(w))'
  BY <1>4, <1>5, TasksKeep
<1> QED BY <1>4, <1>5, <1>6, <1>7, <1>8 DEF DeliveryInv

LEMMA StartsKeep ==
    ASSUME DeliveryInv, NEW v \in Videos, WorkerStarts(v)
    PROVE  DeliveryInv' /\ \A w \in Videos : OutcomeKept(w)
<1> DEFINE late == TimedOut(registry)
<1>1. PICK others \in [Videos -> Workers] :
           /\ others = Cancelled(late)
           /\ \A w \in Videos :
                 /\ others[w].pc = worker[w].pc /\ others[w].file = worker[w].file
                 /\ w \in late /\ Live(w) => others[w].cancelled = TRUE
  <2>1. Cancelled(late) \in [Videos -> Workers]
    BY CancelledWorkers DEF DeliveryInv
  <2>2. \A w \in Videos :
           /\ Cancelled(late)[w].pc = worker[w].pc /\ Cancelled(late)[w].file = worker[w].file
           /\ w \in late /\ Live(w) => Cancelled(late)[w].cancelled = TRUE
    BY CancelledWorkers DEF DeliveryInv
  <2> QED BY <2>1, <2>2
<1>2. PICK new : /\ new = [others[v] EXCEPT !.pc = "generating"]
                 /\ worker' = [others EXCEPT ![v] = new]
  BY <1>1 DEF WorkerStarts
<1>3. new \in Workers /\ new.pc = "generating" /\ new.cancelled = others[v].cancelled
  BY <1>1, <1>2 DEF Workers
<1>4. /\ worker' \in [Videos -> Workers] /\ worker'[v] = new
      /\ \A w \in Videos \ {v} : worker'[w] = others[w]
  BY <1>1, <1>2, <1>3
<1>5. /\ registry' \in Registry
      /\ \A w \in Videos \ {v} : TaskKept(w)
      /\ \A w \in Videos : OutcomeKept(w)
      /\ v \in late => registry'.tasks[v].status = "failed"
      /\ v \notin late => /\ registry'.tasks[v].status = "in_progress"
                          /\ request[v] \in Keys => registry'.index[request[v]] = v
  BY <1>1, <1>4, UpdatesTo DEF WorkerStarts, Written
<1>6. Shape'
  <2>1. \A w \in Videos :
           worker'[w].pc \in {"waiting", "downloading"} => worker'[w].file \in Files
    <3> SUFFICES ASSUME NEW w \in Videos, worker'[w].pc \in {"waiting", "downloading"}
                 PROVE  worker'[w].file \in Files
      OBVIOUS
    <3>1. w # v
      BY <1>3, <1>4
    <3>2. worker'[w].pc = worker[w].pc /\ worker'[w].file = worker[w].file
      BY <1>1, <1>4, <3>1
    <3> QED BY <3>2 DEF DeliveryInv, Shape
  <2> QED BY <1>4, <1>5, <2>1 DEF WorkerStarts, storeVars, DeliveryInv, Shape
<1>7. FilesKept
  BY DeliveryAssumption DEF FilesKept, WorkerStarts, storeVars
<1>8. TaskKept(v)
  <2>1. Runs(v) /\ Live(v) /\ registry.tasks[v].status \in Active
    BY DEF WorkerStarts, DeliveryInv, Serves, Runs
  <2>2. Runs(v)' => v \notin late
    <3>1. v \in late => new.cancelled = TRUE
      BY <1>1, <1>3, <2>1
    <3>2. v \in late => worker'[v].cancelled = TRUE
      BY <1>4, <3>1
    <3> QED BY <3>2 DEF Runs
  <2> QED BY <1>5, <2>1, <2>2 DEF TaskKept, WorkerStarts, Active
<1> QED BY <1>5, <1>6, <1>7, <1>8, InvKept

\* Worker v goes on without the registry.
LEMMA MovesKeep ==
    ASSUME DeliveryInv, NEW v \in Videos, Runs(v), NEW new \in Workers,
           worker' = [worker EXCEPT ![v] = new],
           new.pc \in {"waiting", "downloading"} => new.file \in Files,
           age' \in Ages, FilesKept, UNCHANGED <<registry, made, request>>
    PROVE  DeliveryInv' /\ \A w \in Videos : OutcomeKept(w)
<1>1. /\ worker' \in [Videos -> Workers] /\ worker'[v] = new
      /\ \A w \in Videos \ {v} : worker'[w] = worker[w]
  BY DEF DeliveryInv, Shape
<1>2. Shape'
  BY <1>1 DEF DeliveryInv, Shape
<1>3. ASSUME NEW w \in Videos PROVE TaskKept(w)
  <2>1. Runs(w)' => Runs(w)
    BY <1>1 DEF Runs, Live
  <2> QED BY <2>1 DEF TaskKept, DeliveryInv, Serves
<1>4. ASSUME NEW w \in Videos PROVE OutcomeKept(w)
  <2>1. registry.tasks[w] \in Task
    BY DEF DeliveryInv, Shape, Registry
  <2>2. w \in TimedOut(registry) => registry.tasks[w].status # "completed"
    BY DEF TimedOut, Active
  <2> QED BY <2>1, <2>2, OutcomeSame
<1> QED BY <1>2, <1>3, <1>4, InvKept

\* The cache: a look-up only removes a file that is old, and a download brings
\* a new one.
LEMMA LooksUpKept ==
    ASSUME Shape, NEW f, age' = LookedUp(f)
    PROVE  age' \in Ages /\ FilesKept
<1>1. age \in Ages /\ CacheTimeout \in Nat
  BY DeliveryAssumption DEF Shape
<1>2. CASE Hit(f)
  BY <1>1, <1>2 DEF LookedUp, FilesKept, Ages
<1>3. CASE ~Hit(f)
  <2>1. /\ age' = [age EXCEPT ![f] = None]
        /\ \A g \in Files \ {f} : age'[g] = age[g]
    BY <1>1, <1>3 DEF LookedUp, Ages
  <2>2. ~(f \in Files /\ age[f] \in Nat /\ age[f] < CacheTimeout)
    BY <1>3, DeliveryAssumption DEF Hit, Present
  <2>3. age' \in Ages
    BY <1>1, <2>1 DEF Ages
  <2>4. ASSUME NEW g \in Files, age[g] \in Nat, age[g] < CacheTimeout
        PROVE  age'[g] \in Nat /\ age'[g] <= age[g]
    <3>1. g # f
      BY <2>2, <2>4
    <3> QED BY <2>1, <2>4, <3>1
  <2> QED BY <2>3, <2>4 DEF FilesKept
<1> QED BY <1>2, <1>3

LEMMA StoresKept ==
    ASSUME Shape, NEW f \in Files, NEW ages, ages = Stored(f)
    PROVE  ages \in Ages /\ ages[f] \in Nat /\ (age' = ages => FilesKept)
BY DeliveryAssumption DEF Shape, Stored, Ages, FilesKept

LEMMA SameFiles == ASSUME Shape, age' = age PROVE age' \in Ages /\ FilesKept
BY DeliveryAssumption DEF Shape, Ages, FilesKept

LEMMA PresentAge == ASSUME Shape, NEW f \in Files, Present(f) PROVE age[f] \in Nat
BY DEF Shape, Ages, Present

\* Worker v has got the file f.
LEMMA FetchedKeep ==
    ASSUME DeliveryInv, NEW v \in Videos, Runs(v), NEW f \in Files, NEW ages \in Ages,
           ages[f] \in Nat, Fetched(v, f, ages), FilesKept, request' = request
    PROVE  DeliveryInv' /\ \A w \in Videos : OutcomeKept(w)
<1>1. CASE worker[v].inner
  <2>1. worker[v] \in Workers
    BY DEF DeliveryInv, Shape
  <2>2. PICK new : /\ new = [worker[v] EXCEPT !.pc = "generating", !.inner = FALSE, !.file = f]
                   /\ worker' = [worker EXCEPT ![v] = new]
    BY <1>1, <2>1 DEF Fetched, DeliveryInv, Shape
  <2>3. new \in Workers /\ new.pc = "generating"
    BY <2>1, <2>2 DEF Workers
  <2>4. age' = ages /\ UNCHANGED <<registry, made>>
    BY <1>1 DEF Fetched
  <2> QED BY <2>2, <2>3, <2>4, MovesKeep
<1>2. CASE ~worker[v].inner
  BY <1>2, DeliversKeep DEF Fetched
<1> QED BY <1>1, <1>2

\* Worker v asks for the file f, and waits for its lock or downloads it.
LEMMA AsksKeep ==
    ASSUME DeliveryInv, NEW v \in Videos, Runs(v), NEW f \in Files,
           NEW place \in {"waiting", "downloading"},
           worker' = [worker EXCEPT ![v].pc = place, ![v].file = f],
           age' \in Ages, FilesKept, UNCHANGED <<registry, made, request>>
    PROVE  DeliveryInv' /\ \A w \in Videos : OutcomeKept(w)
<1>1. worker[v] \in Workers
  BY DEF DeliveryInv, Shape
<1>2. PICK new : /\ new = [worker[v] EXCEPT !.pc = place, !.file = f]
                 /\ worker' = [worker EXCEPT ![v] = new]
  BY <1>1 DEF DeliveryInv, Shape
<1>3. new \in Workers /\ new.file = f
  BY <1>1, <1>2 DEF Workers
<1> QED BY <1>2, <1>3, MovesKeep

LEMMA LooksUpKeep ==
    ASSUME DeliveryInv, NEW v \in Videos, Runs(v), NEW f \in Files, LooksUp(v, f),
           request' = request
    PROVE  DeliveryInv' /\ \A w \in Videos : OutcomeKept(w)
<1>1. CASE Hit(f) /\ Fetched(v, f, age)
  <2>1. age \in Ages /\ age[f] \in Nat
    BY <1>1, PresentAge DEF Hit, DeliveryInv, Shape
  <2>2. age' = age
    BY <1>1 DEF Fetched, Delivers
  <2> QED BY <1>1, <2>1, <2>2, SameFiles, FetchedKeep DEF DeliveryInv
<1>2. CASE ~Hit(f) /\ age' = LookedUp(f)
  BY <1>2, LooksUpKept, AsksKeep DEF LooksUp, DeliveryInv
<1> QED BY <1>1, <1>2 DEF LooksUp

LEMMA FetchesKeep ==
    ASSUME DeliveryInv, NEW v \in Videos, Runs(v), NEW f \in Files, Fetches(v, f),
           request' = request
    PROVE  DeliveryInv' /\ \A w \in Videos : OutcomeKept(w)
<1>1. CASE holder[f] = None
  BY <1>1, LooksUpKeep DEF Fetches
<1>2. CASE holder[f] # None
  BY <1>2, SameFiles, AsksKeep DEF Fetches, DeliveryInv
<1> QED BY <1>1, <1>2

LEMMA HandlerCachesKeep ==
    ASSUME DeliveryInv, NEW v \in Videos, NEW f \in Files, HandlerCaches(v, f)
    PROVE  DeliveryInv' /\ \A w \in Videos : OutcomeKept(w)
<1>1. worker[v] \in Workers /\ Runs(v) /\ worker[v].pc = "generating"
  BY DEF DeliveryInv, Shape, HandlerCaches
<1>2. UNCHANGED <<registry, made, request>>
  BY DEF HandlerCaches
<1>3. CASE worker' = [worker EXCEPT ![v].file = f] /\ age' = age
  <2>1. PICK new : new = [worker[v] EXCEPT !.file = f] /\ worker' = [worker EXCEPT ![v] = new]
    BY <1>1, <1>3 DEF DeliveryInv, Shape
  <2>2. new \in Workers /\ new.file = f
    BY <1>1, <2>1 DEF Workers
  <2> QED BY <1>1, <1>2, <1>3, <2>1, <2>2, SameFiles, MovesKeep DEF DeliveryInv
<1>4. ASSUME NEW place \in {"waiting", "downloading"},
             worker' = [worker EXCEPT ![v] =
                           [worker[v] EXCEPT !.pc = place, !.file = f, !.inner = TRUE]],
             age' \in Ages, FilesKept
      PROVE  DeliveryInv' /\ \A w \in Videos : OutcomeKept(w)
  <2>1. PICK new : /\ new = [worker[v] EXCEPT !.pc = place, !.file = f, !.inner = TRUE]
                   /\ worker' = [worker EXCEPT ![v] = new]
    BY <1>4
  <2>2. new \in Workers /\ new.file = f
    BY <1>1, <2>1 DEF Workers
  <2> QED BY <1>1, <1>2, <1>4, <2>1, <2>2, MovesKeep
<1>5. CASE /\ age' = LookedUp(f)
           /\ worker' = [worker EXCEPT ![v] =
                 [worker[v] EXCEPT !.pc = "downloading", !.file = f, !.inner = TRUE]]
  BY <1>4, <1>5, LooksUpKept DEF DeliveryInv
<1>6. CASE /\ age' = age
           /\ worker' = [worker EXCEPT ![v] =
                 [worker[v] EXCEPT !.pc = "waiting", !.file = f, !.inner = TRUE]]
  BY <1>4, <1>6, SameFiles DEF DeliveryInv
<1>7. CASE holder[f] = None
  BY <1>3, <1>5, <1>7 DEF HandlerCaches
<1>8. CASE holder[f] # None
  BY <1>6, <1>8 DEF HandlerCaches
<1> QED BY <1>7, <1>8

LEMMA GenerationAnswersKeep ==
    ASSUME DeliveryInv, NEW v \in Videos, GenerationAnswers(v)
    PROVE  DeliveryInv' /\ \A w \in Videos : OutcomeKept(w)
<1>1. Runs(v) /\ request' = request /\ Shape
  BY DEF GenerationAnswers, DeliveryInv
<1>2. ASSUME NEW f \in Files, AnswerIsLocal(v, f), Delivers(v, f, age)
      PROVE  DeliveryInv' /\ \A w \in Videos : OutcomeKept(w)
  <2>1. age \in Ages /\ age[f] \in Nat
    BY <1>1, <1>2, PresentAge DEF AnswerIsLocal, Shape
  <2>2. age' = age
    BY <1>2 DEF Delivers
  <2> QED BY <1>1, <1>2, <2>1, <2>2, SameFiles, DeliversKeep
<1>3. ASSUME NEW f \in Files, Delivers(v, f, Stored(f))
      PROVE  DeliveryInv' /\ \A w \in Videos : OutcomeKept(w)
  <2>1. age' = Stored(f)
    BY <1>3 DEF Delivers
  <2>2. Stored(f) \in Ages /\ Stored(f)[f] \in Nat /\ FilesKept
    BY <1>1, <2>1, StoresKept
  <2> QED BY <1>1, <1>3, <2>2, DeliversKeep
<1>4. ASSUME NEW f \in Files, Fetches(v, f)
      PROVE  DeliveryInv' /\ \A w \in Videos : OutcomeKept(w)
  BY <1>1, <1>4, FetchesKeep
<1>5. CASE Fails(v) /\ UNCHANGED <<age, made>>
  BY <1>1, <1>5, FailsKeep
<1> QED BY <1>2, <1>3, <1>4, <1>5 DEF GenerationAnswers

LEMMA LockGrantedKeep ==
    ASSUME DeliveryInv, NEW v \in Videos, LockGranted(v)
    PROVE  DeliveryInv' /\ \A w \in Videos : OutcomeKept(w)
<1>1. worker[v].file \in Files
  BY DEF DeliveryInv, Shape, LockGranted
<1> QED BY <1>1, LooksUpKeep DEF LockGranted

LEMMA DownloadEndsKeep ==
    ASSUME DeliveryInv, NEW v \in Videos, DownloadEnds(v)
    PROVE  DeliveryInv' /\ \A w \in Videos : OutcomeKept(w)
<1> DEFINE f == worker[v].file
<1>1. f \in Files /\ Runs(v) /\ Fetched(v, f, Stored(f)) /\ request' = request
  BY DEF DeliveryInv, Shape, DownloadEnds
<1>2. age' = Stored(f)
  BY <1>1 DEF Fetched, Delivers
<1>3. Stored(f) \in Ages /\ Stored(f)[f] \in Nat /\ FilesKept
  BY <1>1, <1>2, StoresKept DEF DeliveryInv
<1> QED BY <1>1, <1>3, FetchedKeep

LEMMA DownloadFailsKeep ==
    ASSUME DeliveryInv, NEW v \in Videos, DownloadFails(v)
    PROVE  DeliveryInv' /\ \A w \in Videos : OutcomeKept(w)
<1>1. Runs(v) /\ UNCHANGED <<age, request, made>>
  BY DEF DownloadFails
<1>2. CASE /\ worker' = [worker EXCEPT ![v] = [NoWorker EXCEPT !.pc = "generating"]]
           /\ UNCHANGED registry
  <2>1. /\ [NoWorker EXCEPT !.pc = "generating"] \in Workers
        /\ [NoWorker EXCEPT !.pc = "generating"].pc = "generating"
    BY DEF NoWorker, Workers
  <2> QED BY <1>1, <1>2, <2>1, SameFiles, MovesKeep DEF DeliveryInv
<1>3. CASE Fails(v)
  BY <1>1, <1>3, FailsKeep
<1> QED BY <1>2, <1>3 DEF DownloadFails

\* Steps that leave the registry alone, and with it the outcomes.
LEMMA SameOutcomes ==
    ASSUME DeliveryInv, registry' = registry
    PROVE  \A v \in Videos : OutcomeKept(v)
<1> SUFFICES ASSUME NEW v \in Videos PROVE OutcomeKept(v)
  OBVIOUS
<1>1. registry.tasks[v] \in Task
  BY DEF DeliveryInv, Shape, Registry
<1>2. v \in TimedOut(registry) => registry.tasks[v].status # "completed"
  BY DEF TimedOut, Active
<1> QED BY <1>1, <1>2, OutcomeSame

LEMMA WorkerCancelledKeep ==
    ASSUME DeliveryInv, NEW v \in Videos, WorkerCancelled(v)
    PROVE  DeliveryInv' /\ \A w \in Videos : OutcomeKept(w)
<1>1. UNCHANGED <<registry, age, request, made>> /\ Leaves(v, {})
  BY DEF WorkerCancelled
<1>2. /\ worker' \in [Videos -> Workers] /\ ~Runs(v)'
      /\ \A w \in Videos \ {v} : worker'[w] = Cancelled({})[w]
      /\ \A w \in Videos :
            worker'[w].pc \in {"waiting", "downloading"} => worker'[w].file \in Files
  BY <1>1, LeavesShape
<1>3. \A w \in Videos \ {v} : worker'[w] = worker[w]
  BY <1>2, CancelledWorkers DEF DeliveryInv
<1>4. Shape'
  BY <1>1, <1>2 DEF DeliveryInv, Shape
<1>5. ASSUME NEW w \in Videos PROVE TaskKept(w)
  <2>1. Runs(w)' => Runs(w)
    BY <1>2, <1>3 DEF Runs, Live
  <2> QED BY <1>1, <2>1 DEF TaskKept, DeliveryInv, Serves
<1>6. FilesKept
  BY <1>1, SameFiles DEF DeliveryInv
<1> QED BY <1>1, <1>4, <1>5, <1>6, InvKept, SameOutcomes

\* The cleanup loop removes nothing but old files.
LEMMA CacheKeeps ==
    ASSUME DeliveryInv, CacheNext, UNCHANGED <<registry, worker, request, made, restarts>>
    PROVE  DeliveryInv' /\ \A v \in Videos : OutcomeKept(v)
<1>1. age' \in Ages /\ FilesKept
  <2>1. CASE age' = age
    BY <2>1, SameFiles DEF DeliveryInv
  <2>2. ASSUME NEW l \in Loops, CleanupPass(l) PROVE age' \in Ages /\ FilesKept
    <3>1. PICK gone \in SUBSET {f \in Files : Present(f) /\ age[f] > CacheTimeout} :
             age' = [f \in Files |-> IF f \in gone THEN None ELSE age[f]]
      BY <2>2 DEF CleanupPass
    <3>2. age' \in Ages
      BY <3>1 DEF DeliveryInv, Shape, Ages
    <3>3. ASSUME NEW f \in Files, age[f] \in Nat, age[f] < CacheTimeout PROVE age'[f] = age[f]
      <4>1. f \notin gone
        BY <3>1, <3>3, DeliveryAssumption
      <4> QED BY <3>1, <4>1
    <3> QED BY <3>2, <3>3 DEF FilesKept
  <2> QED BY <2>1, <2>2 DEF CacheNext, StopReturns, SetTimeout, LoopEnds
<1>2. Shape'
  BY <1>1 DEF DeliveryInv, Shape
<1>3. \A v \in Videos : TaskKept(v)
  BY DEF TaskKept, DeliveryInv, Serves, Runs, Live
<1> QED BY <1>1, <1>2, <1>3, InvKept, SameOutcomes

LEMMA TickKeeps ==
    ASSUME DeliveryInv, Tick
    PROVE  DeliveryInv' /\ \A v \in Videos : OutcomeKept(v)
<1>1. /\ CacheTimeout \in Nat /\ age \in Ages /\ made \in [Videos -> Nat]
      /\ registry.tasks \in [Videos -> Task] /\ registry.index \in [Keys -> Videos \cup {None}]
      /\ registry = [tasks |-> registry.tasks, index |-> registry.index]
  BY DeliveryAssumption DEF DeliveryInv, Shape, Registry
<1>2. ASSUME NEW v \in Videos
      PROVE  \E left \in Nat : registry'.tasks[v] = [registry.tasks[v] EXCEPT !.left = left]
  <2>1. registry' = [registry EXCEPT !.tasks =
           [w \in Videos |-> [registry.tasks[w] EXCEPT !.left = IF @ = 0 THEN 0 ELSE @ - 1]]]
    BY DEF Tick, Older
  <2>2. registry'.tasks[v] = [registry.tasks[v] EXCEPT !.left = IF @ = 0 THEN 0 ELSE @ - 1]
    BY <1>1, <2>1
  <2>3. registry.tasks[v].left \in Nat
    BY <1>1 DEF Task
  <2>4. PICK left \in Nat : left = IF registry.tasks[v].left = 0 THEN 0 ELSE registry.tasks[v].left - 1
    BY <2>3
  <2>5. registry'.tasks[v] = [registry.tasks[v] EXCEPT !.left = left]
    BY <2>2, <2>4
  <2> QED BY <2>5
<1>3. ASSUME NEW v \in Videos
      PROVE  /\ registry'.tasks[v] \in Task
             /\ registry'.tasks[v].status = registry.tasks[v].status
             /\ registry'.tasks[v].file = registry.tasks[v].file
             /\ OutcomeKept(v)
  <2>1. PICK left \in Nat : registry'.tasks[v] = [registry.tasks[v] EXCEPT !.left = left]
    BY <1>2
  <2>2. registry.tasks[v] \in Task
    BY <1>1
  <2>3. /\ registry'.tasks[v] \in Task
        /\ registry'.tasks[v].status = registry.tasks[v].status
        /\ registry'.tasks[v].file = registry.tasks[v].file
    BY <2>1, <2>2 DEF Task
  <2>4. [registry'.tasks[v] EXCEPT !.left = registry.tasks[v].left] = registry.tasks[v]
    BY <2>1, <2>2, LeftRestored
  <2>5. v \in TimedOut(registry) => registry.tasks[v].status # "completed"
    BY DEF TimedOut, Active
  <2> QED BY <2>3, <2>4, <2>5 DEF OutcomeKept
<1>4. registry'.index = registry.index /\ registry' \in Registry
  <2>1. registry' = [tasks |-> [v \in Videos |-> registry'.tasks[v]], index |-> registry.index]
    BY <1>1 DEF Tick, Older
  <2> QED BY <1>1, <1>3, <2>1 DEF Registry
<1>5. age' \in Ages /\ made' \in [Videos -> Nat] /\ UNCHANGED <<worker, request>>
  BY <1>1 DEF Tick, FilesGrowOld, Ages
<1>6. Shape'
  BY <1>4, <1>5 DEF DeliveryInv, Shape
<1>7. ASSUME NEW v \in Videos PROVE (Serves(v) /\ Unborn(v))'
  BY <1>3, <1>4, <1>5 DEF DeliveryInv, Serves, Unborn, Runs, Live
<1>8. ASSUME NEW v \in Videos, registry'.tasks[v].status = "completed", made'[v] < CacheTimeout
      PROVE  Backed(v)'
  <2>1. made'[v] = IF made[v] <= CacheTimeout THEN made[v] + 1 ELSE made[v]
    BY <1>3, <1>8 DEF Tick
  <2>2. made[v] \in Nat /\ made[v] < CacheTimeout /\ made'[v] = made[v] + 1
    BY <1>1, <1>8, <2>1
  <2>3. Backed(v)
    BY <1>3, <1>8, <2>2 DEF DeliveryInv, Servable
  <2> DEFINE f == registry.tasks[v].file
  <2>4. f \in Files /\ age[f] \in Nat /\ age[f] <= made[v]
    BY <2>3 DEF Backed
  <2>5. age'[f] = age[f] + 1
    BY <1>1, <2>2, <2>4 DEF Tick, FilesGrowOld
  <2> QED BY <1>3, <2>2, <2>4, <2>5 DEF Backed
<1> QED BY <1>3, <1>6, <1>7, <1>8 DEF DeliveryInv, Servable

LEMMA RestartKeeps ==
    ASSUME DeliveryInv, Restart
    PROVE  DeliveryInv' /\ \A v \in Videos : OutcomeKept(v)
<1>1. registry' \in Registry /\ \A v \in Videos : registry'.tasks[v].status = "absent"
  BY AbsentTask DEF Restart, Registry, Absent
<1>2. ASSUME NEW v \in Videos
      PROVE  /\ worker'[v] \in Workers /\ ~Live(v)'
             /\ worker'[v].pc \notin {"waiting", "downloading"}
  <2>1. /\ [NoWorker EXCEPT !.pc = "ended"] \in Workers
        /\ [NoWorker EXCEPT !.pc = "ended"].pc = "ended"
    BY DEF NoWorker, Workers
  <2>2. worker'[v] = IF Live(v) THEN [NoWorker EXCEPT !.pc = "ended"] ELSE worker[v]
    BY DEF Restart
  <2> QED BY <2>1, <2>2 DEF Live, DeliveryInv, Shape
<1>3. worker' \in [Videos -> Workers]
  BY <1>2 DEF Restart
<1>4. Shape'
  BY <1>1, <1>2, <1>3 DEF Restart, DeliveryInv, Shape
<1>5. \A v \in Videos : (Serves(v) /\ Unborn(v) /\ Servable(v))'
  BY <1>1, <1>2 DEF Serves, Runs, Unborn, Servable
<1>6. \A v \in Videos : OutcomeKept(v)
  BY <1>1 DEF OutcomeKept
<1> QED BY <1>4, <1>5, <1>6 DEF DeliveryInv

----------------------------------------------------------------------------
LEMMA DeliveryInit == Init => DeliveryInv
<1> SUFFICES ASSUME Init PROVE DeliveryInv
  OBVIOUS
<1>1. registry \in Registry /\ \A v \in Videos : registry.tasks[v].status = "absent"
  BY AbsentTask DEF Init, RegistryInit, Registry, Absent
<1>2. \A v \in Videos : worker[v] \in Workers /\ worker[v].pc = "none"
  BY DEF Init, NoWorker, Workers
<1>3. Shape
  BY <1>1, <1>2 DEF Init, CacheInit, Shape, Ages
<1> QED BY <1>1, <1>2, <1>3 DEF DeliveryInv, Serves, Runs, Live, Unborn, Servable

LEMMA DeliveryStep ==
    ASSUME DeliveryInv, [Next]_vars
    PROVE  DeliveryInv' /\ \A v \in Videos : OutcomeKept(v)
<1>1. ASSUME NEW k \in Keys \cup {None}, AskVideo(k)
      PROVE  DeliveryInv' /\ \A v \in Videos : OutcomeKept(v)
  <2>1. CreateVideo(k) /\ UNCHANGED <<made, age>>
    BY <1>1 DEF AskVideo, storeVars
  <2>2. CASE /\ registry' = CleanUp(registry) /\ worker' = Cancelled(TimedOut(registry))
             /\ UNCHANGED request
    BY <2>1, <2>2, CleansKeep
  <2>3. ASSUME NEW u \in Fresh, NEW room \in Rooms(CleanUp(registry)),
               ~Answers(CleanUp(registry), k), registry' = Add(room, u, k),
               request' = [request EXCEPT ![u] = k],
               worker' = [Cancelled(TimedOut(registry)) EXCEPT ![u].pc = "start"]
        PROVE  DeliveryInv' /\ \A v \in Videos : OutcomeKept(v)
    BY <2>1, <2>3, CreatesKeep
  <2> QED BY <2>1, <2>2, <2>3 DEF CreateVideo
<1>2. CASE GetVideo
  BY <1>2, CleansKeep DEF GetVideo, storeVars
<1>3. ASSUME NEW v \in Videos, WorkerNext(v)
      PROVE  DeliveryInv' /\ \A w \in Videos : OutcomeKept(w)
  <2>1. CASE GenerationFails(v)
    BY <2>1, FailsKeep DEF GenerationFails, storeVars
  <2> QED BY <1>3, <2>1, StartsKeep, HandlerCachesKeep, GenerationAnswersKeep, LockGrantedKeep,
             DownloadEndsKeep, DownloadFailsKeep, WorkerCancelledKeep DEF WorkerNext
<1>4. CASE UNCHANGED vars
  <2>1. UNCHANGED <<registry, worker, request, made, age>>
    BY <1>4 DEF vars
  <2>2. Shape' /\ FilesKept
    BY <2>1, SameFiles DEF DeliveryInv, Shape
  <2>3. \A v \in Videos : TaskKept(v)
    BY <2>1 DEF TaskKept, DeliveryInv, Serves, Runs, Live
  <2> QED BY <2>1, <2>2, <2>3, InvKept, SameOutcomes
<1> QED BY <1>1, <1>2, <1>3, <1>4, CacheKeeps, TickKeeps, RestartKeeps DEF Next

LEMMA DeliveryInvHolds == Spec => []DeliveryInv
<1>1. DeliveryInv /\ [Next]_vars => DeliveryInv'
  BY DeliveryStep
<1> QED BY <1>1, DeliveryInit, PTL DEF Spec

\* However clients retry, tasks time out, evict each other and are cancelled,
\* the worker that is not cancelled is the one its key names.
THEOREM OneWorkPerKeyHolds == Spec => []OneWorkPerKey
<1>1. DeliveryInv => OneWorkPerKey
  BY DEF DeliveryInv, Shape, Serves, OneWorkPerKey
<1> QED BY <1>1, DeliveryInvHolds, PTL

\* A finished task keeps its outcome and its file until it is dropped, and a
\* worker that comes too late does not complete its task.
THEOREM OutcomeStaysHolds == Spec => OutcomeStays
<1>1. DeliveryInv /\ [Next]_vars =>
         [\A v \in Videos :
            LET before == registry.tasks[v]  after == registry'.tasks[v] IN
            /\ before.status \in Terminal =>
                 after.status = "absent" \/ [after EXCEPT !.left = before.left] = before
            /\ v \in TimedOut(registry) => after.status # "completed"]_vars
  BY DeliveryStep DEF OutcomeKept
<1> QED BY <1>1, DeliveryInvHolds, PTL DEF Spec, OutcomeStays

\* Downloads, look-ups and the cleanup loop may share the file of a completed
\* video, but it is there until it is as old as the cache keeps files.
THEOREM ContentIsServableHolds == Spec => []ContentIsServable
<1>1. DeliveryInv => ContentIsServable
  BY DeliveryAssumption DEF DeliveryInv, Servable, Backed, ContentIsServable, Present
<1> QED BY <1>1, DeliveryInvHolds, PTL
=============================================================================
