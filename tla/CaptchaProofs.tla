--------------------------- MODULE CaptchaProofs ---------------------------
(***************************************************************************)
(* Theorems about three of the services that find captcha tokens: the      *)
(* token pool over personal browsers, the operators' own browsers with     *)
(* their extension, and the pool of headed browsers. They share no state.  *)
(***************************************************************************)
EXTENDS TokenPool, ExtensionCaptcha, HeadedPool, FiniteSetTheorems, TLAPS

(***************************************************************************)
(* The pool.  For any requests, refill tasks, browsers and changes of the  *)
(* pool, no reservation outlives the caller it was made for.  Reservations *)
(* are returned by the index of a browser, which may name another browser  *)
(* by then; the invariant says why that does no harm.                      *)
(***************************************************************************)
Places == {"idle", "acquire", "solving", "solved", "failed"}
Locals == [pc : Places, worker : Nat, era : Nat, tried : SUBSET Indexes, left : Int]
Waits == {"idle", "direct", "maintain", "try", "asleep", "stranded", "leave", "served", "gone"}
Stages == {"idle", "spawned", "solving", "finish", "maintain"}
Askers == [Requests -> [pc : Waits, got : BOOLEAN]]
RefillTasks == [Refills -> [pc : Stages, bucket : Buckets \cup {NoBucket}]]

PoolShape ==
    /\ configured \in Indexes /\ alive \in 0 .. MaxWorkers
    /\ era \in [Indexes -> Nat] /\ resv \in [Indexes -> Nat]
    /\ solver \in [Clients -> Locals]
    /\ asker \in Askers
    /\ refill \in RefillTasks

Working(c) == solver[c].pc \in {"acquire", "solving"}

\* Whoever works on a browser was sent there by its request or refill task,
\* which waits for it.
WorkersAreAwaited ==
    /\ \A r \in Requests : Working(r) => asker[r].pc = "direct"
    /\ \A f \in Refills : Working(f) => refill[f].pc = "solving"

\* An index that names no browser has no reservations left to be inherited by
\* the next browser it names.
GoneAreFree == \A w \in Indexes : w > alive => resv[w] = 0

PoolInv == PoolShape /\ WorkersAreAwaited /\ GoneAreFree /\ ReservationsAreHeld

-----------------------------------------------------------------------------
(* Counting                                                                *)

\* The callers of a browser can be counted (Holders).
LEMMA HoldersCounted ==
    \A w \in Indexes : IsFiniteSet(Holders(w)) /\ Cardinality(Holders(w)) \in Nat
<1>1. \A w \in Indexes : Holders(w) \subseteq Clients  BY DEF Holders
<1> QED  BY <1>1, FS_Subset, FS_CardinalityType, DispatchAssumption

\* So they can after a step.
LEMMA HoldersCountedNext ==
    \A w \in Indexes : IsFiniteSet(Holders(w)') /\ Cardinality(Holders(w)') \in Nat
<1>1. \A w \in Indexes : Holders(w)' \subseteq Clients  BY DEF Holders
<1> QED  BY <1>1, FS_Subset, FS_CardinalityType, DispatchAssumption

\* A browser of which only somebody new becomes a caller and which gets no
\* further reservation keeps its balance.
LEMMA BalanceKept ==
    ASSUME PoolInv, NEW w \in Indexes,
           resv'[w] = 0 \/ (resv'[w] = resv[w] /\ Holders(w) \subseteq Holders(w)')
    PROVE  resv'[w] <= Cardinality(Holders(w)')
<1>1. resv[w] <= Cardinality(Holders(w)) /\ resv[w] \in Nat
      BY DEF PoolInv, ReservationsAreHeld, PoolShape
<1>2. CASE resv'[w] = 0  BY <1>2, HoldersCountedNext
<1>3. CASE resv'[w] = resv[w] /\ Holders(w) \subseteq Holders(w)'
    <2>1. Cardinality(Holders(w)) <= Cardinality(Holders(w)')
          BY <1>3, HoldersCountedNext, FS_Subset
    <2> QED  BY <1>1, <1>3, <2>1, HoldersCounted, HoldersCountedNext
<1> QED  BY <1>2, <1>3

\* A caller that stops working on a browser, and returns its reservation by
\* index (_release_worker_reservation), leaves every browser in balance.
LEMMA BalanceAfterGiveBack ==
    ASSUME PoolInv, NEW c \in Clients, solver[c].pc = "solving",
           GiveBack(solver[c].worker), era' = era,
           NEW l \in Locals, l.pc # "solving", solver' = [solver EXCEPT ![c] = l]
    PROVE  ReservationsAreHeld' /\ resv' \in [Indexes -> Nat]
           /\ \A w \in Indexes : resv'[w] <= resv[w]
<1> DEFINE v == solver[c].worker
<1>0. resv \in [Indexes -> Nat] /\ solver \in [Clients -> Locals]
      BY DEF PoolInv, PoolShape
<1>1. resv' \in [Indexes -> Nat] /\ \A w \in Indexes : resv'[w] <= resv[w]
    <2>1. resv' = [resv EXCEPT ![v] = IF resv[v] <= 1 THEN 0 ELSE resv[v] - 1]
          BY DEF GiveBack
    <2>2. \A w \in Indexes : resv'[w] = IF w = v /\ resv[w] <= 1 THEN 0
                                         ELSE IF w = v THEN resv[w] - 1 ELSE resv[w]
          BY <1>0, <2>1
    <2>3. \A w \in Indexes : resv[w] \in Nat /\ resv'[w] \in Nat /\ resv'[w] <= resv[w]
          BY <1>0, <2>2
    <2>4. resv' = [w \in Indexes |-> resv'[w]]  BY <1>0, <2>1
    <2> QED  BY <2>3, <2>4
<1>2. ASSUME NEW w \in Indexes PROVE Holders(w)' = Holders(w) \ {c}
      BY <1>0 DEF Holders
<1>3. ASSUME NEW w \in Indexes PROVE resv'[w] <= Cardinality(Holders(w)')
    <2>0. resv[w] <= Cardinality(Holders(w)) /\ resv[w] \in Nat
          BY <1>0 DEF PoolInv, ReservationsAreHeld
    <2>1. CASE w # v
        <3>1. resv'[w] = resv[w]  BY <1>0, <2>1 DEF GiveBack
        <3>2. c \notin Holders(w)  BY <2>1 DEF Holders
        <3> QED  BY <3>1, <3>2, <1>2, BalanceKept
    <2>2. CASE w = v
        <3>1. resv'[w] = IF resv[w] <= 1 THEN 0 ELSE resv[w] - 1
              BY <1>0, <2>2 DEF GiveBack
        <3> DEFINE n == Cardinality(Holders(w))  rest == Cardinality(Holders(w) \ {c})
        <3>2. n \in Nat /\ IsFiniteSet(Holders(w))  BY HoldersCounted
        <3>3. CASE c \in Holders(w)
            <4>0. rest \in Nat  BY <1>2, HoldersCountedNext
            <4>1. rest = n - 1  BY <3>2, <3>3, FS_RemoveElement
            <4> HIDE DEF n, rest
            <4>2. resv'[w] <= rest  BY <3>1, <3>2, <2>0, <4>0, <4>1 DEF n
            <4> QED  BY <4>2, <1>2 DEF rest
        <3>4. CASE c \notin Holders(w)
            <4>1. Holders(w) \ {c} = Holders(w)  BY <3>4
            <4> QED  BY <3>1, <3>2, <1>2, <2>0, <4>1
        <3> QED  BY <3>1, <3>2, <3>3, <3>4, <1>2, <2>0
    <2> QED  BY <2>1, <2>2
<1> QED  BY <1>1, <1>3 DEF ReservationsAreHeld

-----------------------------------------------------------------------------
(* The dispatcher                                                          *)

\* What the steps of the dispatcher preserve by themselves: the shape of its
\* variables, that indexes of no browser are free, and the balance.
DispatchShape ==
    /\ configured \in Indexes /\ alive \in 0 .. MaxWorkers
    /\ era \in [Indexes -> Nat] /\ resv \in [Indexes -> Nat]
    /\ solver \in [Clients -> Locals]

DispatchInv == DispatchShape /\ GoneAreFree /\ ReservationsAreHeld

\* The locals of a caller between two attempts.
LEMMA LocalsReset ==
    ASSUME NEW t \in SUBSET Indexes, NEW n \in Int
    PROVE  /\ [Nowhere EXCEPT !.pc = "failed"] \in Locals
           /\ [Nowhere EXCEPT !.pc = "solved"] \in Locals
           /\ [Nowhere EXCEPT !.pc = "acquire", !.left = n] \in Locals
           /\ [Nowhere EXCEPT !.pc = "acquire", !.tried = t, !.left = n] \in Locals
           /\ [Nowhere EXCEPT !.pc = "failed"].pc = "failed"
           /\ [Nowhere EXCEPT !.pc = "solved"].pc = "solved"
           /\ [Nowhere EXCEPT !.pc = "acquire", !.left = n].pc = "acquire"
           /\ [Nowhere EXCEPT !.pc = "acquire", !.tried = t, !.left = n].pc = "acquire"
<1>1. [Nowhere EXCEPT !.pc = "failed"] \in Locals /\ [Nowhere EXCEPT !.pc = "failed"].pc = "failed"
      BY DEF Nowhere, Locals, Places
<1>2. [Nowhere EXCEPT !.pc = "solved"] \in Locals /\ [Nowhere EXCEPT !.pc = "solved"].pc = "solved"
      BY DEF Nowhere, Locals, Places
<1>3. [Nowhere EXCEPT !.pc = "acquire", !.left = n] \in Locals
      /\ [Nowhere EXCEPT !.pc = "acquire", !.left = n].pc = "acquire"
      BY DEF Nowhere, Locals, Places
<1>4. [Nowhere EXCEPT !.pc = "acquire", !.tried = t, !.left = n] \in Locals
      /\ [Nowhere EXCEPT !.pc = "acquire", !.tried = t, !.left = n].pc = "acquire"
      BY DEF Nowhere, Locals, Places
<1> QED  BY <1>1, <1>2, <1>3, <1>4

\* The pool takes the configured size when an operation begins
\* (_ensure_workers): indexes that are cut off lose their reservations, and
\* those that come to name a browser had none.
LEMMA BeginSolveKeeps ==
    ASSUME PoolInv, NEW c \in Clients, ~Working(c), BeginSolve(c)
    PROVE  DispatchInv' /\ \A d \in Clients \ {c} : solver'[d] = solver[d]
<1>0. /\ configured \in Indexes /\ alive \in 0 .. MaxWorkers
      /\ era \in [Indexes -> Nat] /\ resv \in [Indexes -> Nat]
      /\ solver \in [Clients -> Locals] /\ GoneAreFree
      /\ solver[c].pc # "solving"
      BY DEF PoolInv, PoolShape, Working
<1>1. /\ configured' \in Indexes /\ alive' \in 0 .. MaxWorkers
      /\ era' \in [Indexes -> Nat] /\ resv' \in [Indexes -> Nat]
      /\ GoneAreFree'
      /\ \A w \in Indexes : resv'[w] = 0 \/ (resv'[w] = resv[w] /\ era'[w] = era[w])
    <2>1. CASE closing
          BY <1>0, <2>1 DEF BeginSolve, EnsureWorkers, GoneAreFree
    <2>2. CASE ~closing
          BY <1>0, <2>2 DEF BeginSolve, EnsureWorkers, SetSize, GoneAreFree, Indexes
    <2> QED  BY <2>1, <2>2
<1>2. PICK l \in Locals : l.pc # "solving" /\ solver' = [solver EXCEPT ![c] = l]
    <2>1. CASE alive' = 0
        <3> DEFINE l == [Nowhere EXCEPT !.pc = "failed"]
        <3>0. {} \in SUBSET Indexes /\ 0 \in Int  OBVIOUS
        <3>1. l \in Locals /\ l.pc = "failed"  BY <3>0, LocalsReset
        <3> QED  BY <2>1, <3>1 DEF BeginSolve
    <2>2. CASE alive' # 0
        <3> DEFINE l == [Nowhere EXCEPT !.pc = "acquire", !.left = Least(alive', MaxTries)]
        <3>0. Least(alive', MaxTries) \in Int  BY <1>1, DispatchAssumption DEF Least
        <3>1. l \in Locals /\ l.pc = "acquire"  BY <3>0, LocalsReset
        <3> QED  BY <2>2, <3>1 DEF BeginSolve
    <2> QED  BY <2>1, <2>2
<1>3. solver' \in [Clients -> Locals] /\ \A d \in Clients \ {c} : solver'[d] = solver[d]
      BY <1>0, <1>2
<1>4. \A w \in Indexes : era'[w] = era[w] => Holders(w) \subseteq Holders(w)'
      BY <1>0, <1>3 DEF Holders
<1>5. \A w \in Indexes : resv'[w] <= Cardinality(Holders(w)')
      BY <1>1, <1>4, BalanceKept
<1> QED  BY <1>1, <1>3, <1>5 DEF DispatchInv, DispatchShape, ReservationsAreHeld

\* A caller gets a browser, and the reservation with it (_acquire_worker).
LEMMA AcquireKeeps ==
    ASSUME PoolInv, NEW c \in Clients, Acquire(c)
    PROVE  DispatchInv' /\ \A d \in Clients : solver'[d].pc # solver[d].pc => Working(d)
<1>0. /\ configured \in Indexes /\ alive \in 0 .. MaxWorkers
      /\ era \in [Indexes -> Nat] /\ resv \in [Indexes -> Nat]
      /\ solver \in [Clients -> Locals] /\ GoneAreFree
      BY DEF PoolInv, PoolShape
<1>1. PICK w \in Workers :
          /\ resv' = [resv EXCEPT ![w] = @ + 1]
          /\ solver' = [solver EXCEPT ![c].pc = "solving", ![c].worker = w,
                                      ![c].era = era[w], ![c].tried = @ \cup {w}]
      BY DEF Acquire, Eligible, Selectable, Candidates
<1>2. /\ solver[c].pc = "acquire"
      /\ UNCHANGED <<configured, alive, era>>
      BY DEF Acquire
<1>3. w \in Indexes /\ w <= alive /\ w \in 0 .. MaxWorkers
      BY <1>0, <1>1, DispatchAssumption DEF Workers, Indexes
<1>4. /\ solver' \in [Clients -> Locals]
      /\ \A d \in Clients \ {c} : solver'[d] = solver[d]
      /\ solver'[c].pc = "solving" /\ solver'[c].worker = w /\ solver'[c].era = era[w]
    <2>1. era[w] \in Nat /\ w \in Nat /\ {w} \subseteq Indexes  BY <1>0, <1>3
    <2> DEFINE l == [solver[c] EXCEPT !.pc = "solving", !.worker = w, !.era = era[w],
                                      !.tried = @ \cup {w}]
    <2>2. l \in Locals /\ l.pc = "solving" /\ l.worker = w /\ l.era = era[w]
        <3>1. solver[c] \in Locals  BY <1>0
        <3> QED  BY <3>1, <2>1 DEF Locals, Places
    <2>3. solver' = [solver EXCEPT ![c] = l]  BY <1>1
    <2> HIDE DEF l
    <2> QED  BY <1>0, <2>2, <2>3
<1>5. resv' \in [Indexes -> Nat] /\ GoneAreFree'
      BY <1>0, <1>1, <1>2, <1>3 DEF GoneAreFree, Indexes
<1>6. ASSUME NEW x \in Indexes PROVE resv'[x] <= Cardinality(Holders(x)')
    <2>1. CASE x # w
        <3>1. resv'[x] = resv[x]  BY <1>0, <1>1, <2>1
        <3>2. Holders(x) \subseteq Holders(x)'  BY <1>2, <1>4, <2>1 DEF Holders
        <3> QED  BY <3>1, <3>2, BalanceKept
    <2>2. CASE x = w
        <3>1. resv'[x] = resv[x] + 1 /\ resv[x] \in Nat  BY <1>0, <1>1, <1>3, <2>2
        <3>2. Holders(x)' = Holders(x) \cup {c} /\ c \notin Holders(x)
              BY <1>2, <1>4, <2>2 DEF Holders
        <3>3. Cardinality(Holders(x) \cup {c}) = Cardinality(Holders(x)) + 1
              BY <3>2, HoldersCounted, FS_AddElement
        <3>4. resv[x] <= Cardinality(Holders(x))  BY DEF PoolInv, ReservationsAreHeld
        <3> QED  BY <3>1, <3>2, <3>3, <3>4, HoldersCounted
    <2> QED  BY <2>1, <2>2
<1>7. \A d \in Clients : solver'[d].pc # solver[d].pc => Working(d)
      BY <1>2, <1>4 DEF Working
<1> QED  BY <1>0, <1>2, <1>4, <1>5, <1>6, <1>7
         DEF DispatchInv, DispatchShape, ReservationsAreHeld

\* A caller that ends an attempt returns the browser, if it had one, and ends
\* or tries another; nobody else's locals change.
LEMMA EndsKeep ==
    ASSUME PoolInv, NEW c \in Clients,
           SolveOk(c) \/ SolveFails(c) \/ SolveCancelled(c) \/ AcquireRaises(c)
    PROVE  DispatchInv' /\ \A d \in Clients : solver'[d].pc # solver[d].pc => Working(d)
<1>0. /\ configured \in Indexes /\ alive \in 0 .. MaxWorkers
      /\ era \in [Indexes -> Nat] /\ resv \in [Indexes -> Nat]
      /\ solver \in [Clients -> Locals] /\ GoneAreFree
      BY DEF PoolInv, PoolShape
<1>1. UNCHANGED <<configured, alive, era>> /\ Working(c)
      BY DEF SolveOk, SolveFails, SolveCancelled, AcquireRaises, Onlookers, workerVars, Working
<1>2. PICK l \in Locals : l.pc # "solving" /\ solver' = [solver EXCEPT ![c] = l]
    <2>1. solver[c].tried \in SUBSET Indexes /\ solver[c].left - 1 \in Int
          BY <1>0 DEF Locals
    <2> DEFINE failed == [Nowhere EXCEPT !.pc = "failed"]
               solved == [Nowhere EXCEPT !.pc = "solved"]
               again == [Nowhere EXCEPT !.pc = "acquire", !.tried = solver[c].tried,
                                        !.left = solver[c].left - 1]
    <2>2. /\ failed \in Locals /\ failed.pc = "failed"
          /\ solved \in Locals /\ solved.pc = "solved"
          /\ again \in Locals /\ again.pc = "acquire"
          BY <2>1, LocalsReset
    <2>3. \E l \in {failed, solved, again} : solver' = [solver EXCEPT ![c] = l]
          BY DEF SolveOk, SolveFails, SolveCancelled, AcquireRaises, NextTry
    <2> HIDE DEF failed, solved, again
    <2> QED  BY <2>2, <2>3
<1>3. solver' \in [Clients -> Locals] /\ \A d \in Clients \ {c} : solver'[d] = solver[d]
      BY <1>0, <1>2
<1>4. CASE solver[c].pc = "solving" /\ GiveBack(solver[c].worker)
    <2>1. /\ ReservationsAreHeld' /\ resv' \in [Indexes -> Nat]
          /\ \A w \in Indexes : resv'[w] <= resv[w]
          BY <1>1, <1>2, <1>4, BalanceAfterGiveBack
    <2>2. GoneAreFree'  BY <1>0, <1>1, <2>1 DEF GoneAreFree
    <2> QED  BY <1>0, <1>1, <1>3, <2>1, <2>2 DEF DispatchInv, DispatchShape
<1>5. CASE solver[c].pc # "solving" /\ UNCHANGED resv
    <2>1. \A w \in Indexes : Holders(w) \subseteq Holders(w)'
          BY <1>1, <1>3, <1>5 DEF Holders
    <2>2. \A w \in Indexes : resv'[w] <= Cardinality(Holders(w)')
          BY <1>5, <2>1, BalanceKept
    <2>3. GoneAreFree'  BY <1>0, <1>1, <1>5 DEF GoneAreFree
    <2> QED  BY <1>0, <1>1, <1>3, <1>5, <2>2, <2>3
             DEF DispatchInv, DispatchShape, ReservationsAreHeld
<1>6. (solver[c].pc = "solving" /\ GiveBack(solver[c].worker))
      \/ (solver[c].pc # "solving" /\ UNCHANGED resv)
      BY DEF SolveOk, SolveFails, SolveCancelled, AcquireRaises, workerVars
<1> QED  BY <1>1, <1>3, <1>4, <1>5, <1>6

-----------------------------------------------------------------------------
(* The pool around the dispatcher                                          *)

\* What a step of the pool may not do: take a request from its own solving, or
\* a refill task from a solving that goes on.
AskersKept ==
    /\ asker' \in Askers
    /\ \A r \in Requests : asker[r].pc = "direct" => asker'[r].pc = "direct"

RefillsKept ==
    /\ refill' \in RefillTasks
    /\ \A f \in Refills : refill[f].pc = "solving" /\ Working(f) => refill'[f].pc = "solving"

\* Waking sleepers and dropping conditions concern those who wait.
LEMMA SleepersOnly ==
    ASSUME NEW a \in Askers, NEW gone, NEW b
    PROVE  /\ Strand(a, gone) \in Askers /\ Wake(a, b) \in Askers
           /\ \A r \in Requests : a[r].pc = "direct" =>
                 Strand(a, gone)[r].pc = "direct" /\ Wake(a, b)[r].pc = "direct"
BY DEF Strand, Wake, Askers, Asking, Waits

\* The maintenance of the pool hands work to idle refill tasks only.
LEMMA MaintenanceKeeps ==
    ASSUME NEW a \in Askers, NEW tasks \in RefillTasks, Maintain(a, tasks)
    PROVE  /\ asker' \in Askers /\ refill' \in RefillTasks
           /\ \A r \in Requests : a[r].pc = "direct" => asker'[r].pc = "direct"
           /\ \A f \in Refills : tasks[f].pc = "solving" => refill'[f].pc = "solving"
<1>1. CASE closing \/ ~enabled
    <2>1. asker' = Strand(a, Buckets) /\ refill' = tasks  BY <1>1 DEF Maintain, Forget
    <2> QED  BY <2>1, SleepersOnly
<1>2. CASE ~(closing \/ ~enabled)
    <2>1. Replenish(a, tasks)  BY <1>2, Zenon DEF Maintain
    <2>2. PICK jobs \in [{f \in Refills : tasks[f].pc = "idle"} -> Buckets \cup {NoBucket}] :
              refill' = [f \in Refills |->
                           IF f \in {g \in Refills : tasks[g].pc = "idle"} /\ jobs[f] # NoBucket
                           THEN [pc |-> "spawned", bucket |-> jobs[f]] ELSE tasks[f]]
          BY <2>1, Zenon DEF Replenish
    <2>3. PICK gone : asker' = Strand(a, gone)  BY <2>1, Zenon DEF Replenish
    <2>4. refill' \in RefillTasks
          /\ \A f \in Refills : tasks[f].pc = "solving" => refill'[f].pc = "solving"
          BY <2>2 DEF RefillTasks, Stages
    <2> QED  BY <2>3, <2>4, SleepersOnly
<1> QED  BY <1>1, <1>2

\* A step that leaves the dispatcher alone.
LEMMA PoolMoves ==
    ASSUME PoolInv, UNCHANGED <<configured, alive, era, resv, solver>>,
           AskersKept, RefillsKept
    PROVE  PoolInv'
<1>1. PoolShape' /\ GoneAreFree'
      BY DEF PoolInv, PoolShape, GoneAreFree, AskersKept, RefillsKept
<1>2. WorkersAreAwaited'
      BY DEF PoolInv, WorkersAreAwaited, Working, AskersKept, RefillsKept
<1>3. \A w \in Indexes : resv'[w] <= Cardinality(Holders(w)')
    <2>1. \A w \in Indexes : Holders(w)' = Holders(w)  BY DEF Holders
    <2> QED  BY <2>1, BalanceKept
<1> QED  BY <1>1, <1>2, <1>3 DEF PoolInv, ReservationsAreHeld

\* A step of the dispatcher by itself: callers that move were at work.
LEMMA DispatcherMoves ==
    ASSUME PoolInv, DispatchInv', UNCHANGED <<asker, refill>>,
           \A d \in Clients : solver'[d].pc # solver[d].pc => Working(d)
    PROVE  PoolInv'
<1>1. \A d \in Clients : Working(d)' => Working(d)
      BY DEF Working
<1>2. WorkersAreAwaited'
      BY <1>1, PoolAssumption DEF PoolInv, WorkersAreAwaited
<1> QED  BY <1>2 DEF PoolInv, PoolShape, DispatchInv, DispatchShape

\* The steps of Dispatch preserve the invariant.
LEMMA DispatchKeeps == ASSUME PoolInv, Dispatch PROVE PoolInv'
<1>1. UNCHANGED <<asker, refill>>  BY DEF Dispatch, poolVars
<1>2. ASSUME NEW c \in Clients, Acquire(c) PROVE PoolInv'
      BY <1>1, <1>2, AcquireKeeps, DispatcherMoves
<1>3. ASSUME NEW c \in Clients,
             SolveOk(c) \/ SolveFails(c) \/ SolveCancelled(c) \/ AcquireRaises(c)
      PROVE  PoolInv'
      BY <1>1, <1>3, EndsKeep, DispatcherMoves
<1>4. AskersKept /\ RefillsKept
      BY <1>1 DEF AskersKept, RefillsKept, PoolInv, PoolShape
<1>5. ASSUME NEW w \in Indexes, Block(w) \/ Unblock(w) PROVE PoolInv'
      BY <1>4, <1>5, PoolMoves DEF Block, Unblock
<1>6. CASE Resize
    <2>1. configured' \in Indexes /\ UNCHANGED <<alive, era, resv, solver>>
          BY <1>6 DEF Resize
    <2>2. \A w \in Indexes : Holders(w)' = Holders(w)  BY <2>1 DEF Holders
    <2>3. \A w \in Indexes : resv'[w] <= Cardinality(Holders(w)')
          BY <2>1, <2>2, BalanceKept
    <2>4. DispatchInv'
          BY <2>1, <2>3 DEF PoolInv, PoolShape, DispatchInv, DispatchShape, GoneAreFree,
                            ReservationsAreHeld
    <2> QED  BY <1>1, <2>1, <2>4, DispatcherMoves
<1> QED  BY <1>2, <1>3, <1>5, <1>6, PoolAssumption DEF Dispatch

\* close() drops all reservations at once, whoever is still at work.
LEMMA CloseKeeps == ASSUME PoolInv, Close PROVE PoolInv'
<1>0. /\ configured \in Indexes /\ era \in [Indexes -> Nat]
      /\ solver \in [Clients -> Locals] /\ asker \in Askers /\ refill \in RefillTasks
      BY DEF PoolInv, PoolShape
<1>1. /\ alive' = 0 /\ resv' = [w \in Indexes |-> 0]
      /\ UNCHANGED <<configured, era>>
      BY DEF Close, CloseWorkers
<1>2. solver' = [c \in Clients |-> IF c \in Refills THEN Nowhere ELSE solver[c]]
      BY DEF Close
<1>3. Nowhere \in Locals /\ Nowhere.pc = "idle"
      BY DEF Nowhere, Locals, Places
<1>4. solver' \in [Clients -> Locals]  BY <1>0, <1>2, <1>3
<1>5. asker' \in Askers /\ \A r \in Requests : asker[r].pc = "direct" => asker'[r].pc = "direct"
      BY <1>0, SleepersOnly DEF Close, Forget
<1>6. refill' \in RefillTasks
      BY <1>0 DEF Close, Dormant, RefillTasks, Stages
<1>7. WorkersAreAwaited'
    <2>1. \A f \in Refills : solver'[f].pc = "idle"  BY <1>2, <1>3, PoolAssumption
    <2>2. \A r \in Requests : solver'[r] = solver[r]  BY <1>2, PoolAssumption
    <2> QED  BY <1>5, <2>1, <2>2 DEF PoolInv, WorkersAreAwaited, Working
<1>8. \A w \in Indexes : resv'[w] <= Cardinality(Holders(w)')
      BY <1>1, HoldersCountedNext
<1>9. PoolShape' /\ GoneAreFree'
      BY <1>0, <1>1, <1>4, <1>5, <1>6, DispatchAssumption DEF PoolShape, GoneAreFree
<1> QED  BY <1>7, <1>8, <1>9 DEF PoolInv, ReservationsAreHeld

\* A request that begins to solve by itself was idle.
LEMMA AskDirectKeeps == ASSUME PoolInv, NEW r \in Requests, AskDirect(r) PROVE PoolInv'
<1>0. /\ r \in Clients /\ asker \in Askers /\ refill \in RefillTasks
      /\ asker[r].pc = "idle" /\ BeginSolve(r)
      BY PoolAssumption DEF PoolInv, PoolShape, AskDirect
<1>1. ~Working(r)  BY <1>0 DEF PoolInv, WorkersAreAwaited
<1>2. DispatchInv' /\ \A d \in Clients \ {r} : solver'[d] = solver[d]
      BY <1>0, <1>1, BeginSolveKeeps
<1>3. asker' \in Askers /\ asker'[r].pc = "direct"
      /\ \A q \in Requests \ {r} : asker'[q] = asker[q]
      BY <1>0 DEF AskDirect, Asking, Askers, Waits
<1>4. refill' = refill  BY DEF AskDirect
<1>5. WorkersAreAwaited'
      BY <1>0, <1>2, <1>3, <1>4, PoolAssumption DEF PoolInv, WorkersAreAwaited, Working
<1> QED  BY <1>0, <1>2, <1>3, <1>4, <1>5
         DEF PoolInv, PoolShape, DispatchInv, DispatchShape

\* A refill task that begins to solve has just been created.
LEMMA RefillBeginsKeeps == ASSUME PoolInv, NEW f \in Refills, RefillBegins(f) PROVE PoolInv'
<1>0. /\ f \in Clients /\ asker \in Askers /\ refill \in RefillTasks
      /\ refill[f].pc = "spawned" /\ BeginSolve(f)
      BY PoolAssumption DEF PoolInv, PoolShape, RefillBegins
<1>1. ~Working(f)  BY <1>0 DEF PoolInv, WorkersAreAwaited
<1>2. DispatchInv' /\ \A d \in Clients \ {f} : solver'[d] = solver[d]
      BY <1>0, <1>1, BeginSolveKeeps
<1>3. refill' \in RefillTasks /\ refill'[f].pc = "solving"
      /\ \A g \in Refills \ {f} : refill'[g] = refill[g]
      BY <1>0 DEF RefillBegins, RefillTasks, Stages
<1>4. asker' = asker  BY DEF RefillBegins
<1>5. WorkersAreAwaited'
      BY <1>0, <1>2, <1>3, <1>4, PoolAssumption DEF PoolInv, WorkersAreAwaited, Working
<1> QED  BY <1>0, <1>2, <1>3, <1>4, <1>5
         DEF PoolInv, PoolShape, DispatchInv, DispatchShape

\* A refill task that ends forgets its locals; it works on no browser then.
LEMMA FinishKeeps == ASSUME PoolInv, NEW f \in Refills, Finish(f) PROVE PoolInv'
<1>0. /\ f \in Clients /\ asker \in Askers /\ refill \in RefillTasks
      /\ solver \in [Clients -> Locals] /\ refill[f].pc = "finish"
      /\ UNCHANGED <<configured, alive, era, resv>>
      /\ solver' = [solver EXCEPT ![f] = Nowhere]
      BY PoolAssumption DEF PoolInv, PoolShape, Finish, workerVars
<1>1. ~Working(f)  BY <1>0 DEF PoolInv, WorkersAreAwaited
<1>2. Nowhere \in Locals /\ Nowhere.pc = "idle"
      BY DEF Nowhere, Locals, Places
<1>3. solver' \in [Clients -> Locals] /\ ~Working(f)'
      /\ \A d \in Clients \ {f} : solver'[d] = solver[d]
      BY <1>0, <1>2 DEF Working
<1>4. asker' \in Askers /\ \A r \in Requests : asker[r].pc = "direct" => asker'[r].pc = "direct"
    <2> DEFINE b == refill[f].bucket
    <2>1. asker' = Wake(asker, b) \/ asker' = Strand(Wake(asker, b), {b})
          BY DEF Finish, Drop
    <2>2. Wake(asker, b) \in Askers
          /\ \A r \in Requests : asker[r].pc = "direct" => Wake(asker, b)[r].pc = "direct"
          BY <1>0, SleepersOnly
    <2> QED  BY <2>1, <2>2, SleepersOnly
<1>5. refill' \in RefillTasks /\ \A g \in Refills \ {f} : refill'[g] = refill[g]
      BY <1>0 DEF Finish, Dormant, RefillTasks, Stages
<1>6. \A w \in Indexes : Holders(w)' = Holders(w)
      BY <1>0, <1>1, <1>3 DEF Holders, Working
<1>7. \A w \in Indexes : resv'[w] <= Cardinality(Holders(w)')
      BY <1>0, <1>6, BalanceKept
<1>8. WorkersAreAwaited'
      BY <1>3, <1>4, <1>5, PoolAssumption DEF PoolInv, WorkersAreAwaited, Working
<1> QED  BY <1>0, <1>3, <1>4, <1>5, <1>7, <1>8
         DEF PoolInv, PoolShape, GoneAreFree, ReservationsAreHeld

\* The steps of a request that leave the dispatcher's callers alone.
LEMMA RequestKeeps ==
    ASSUME PoolInv, NEW r \in Requests,
           \/ AskClosing(r) \/ AskServed(r) \/ AskWaits(r) \/ WaiterMaintains(r)
           \/ TryServed(r) \/ TrySleeps(r) \/ GiveUp(r) \/ Leave(r)
    PROVE  PoolInv'
<1>0. asker \in Askers /\ refill \in RefillTasks  BY DEF PoolInv, PoolShape
<1>1. UNCHANGED <<configured, alive, era, resv, solver>>
      BY DEF AskClosing, AskServed, AskWaits, WaiterMaintains, TryServed, TrySleeps, GiveUp, Leave,
             dispatchVars, workerVars, ServedTheirAffinity
<1>2. asker[r].pc # "direct"
      BY DEF AskClosing, AskServed, AskWaits, WaiterMaintains, TryServed, TrySleeps, GiveUp, Leave,
             PoolKeeps
<1>3. \A where \in Waits : [asker EXCEPT ![r] = Asking(where)] \in Askers
      BY <1>0 DEF Askers, Asking
<1>4. \A a \in Askers : (\A q \in Requests \ {r} : a[q] = asker[q]) =>
         \A q \in Requests : asker[q].pc = "direct" => a[q].pc = "direct"
      BY <1>2
<1>5. CASE WaiterMaintains(r)
    <2> DEFINE a == [asker EXCEPT ![r] = Asking("try")]
    <2>1. a \in Askers /\ \A q \in Requests \ {r} : a[q] = asker[q]
          BY <1>0, <1>3 DEF Waits, Askers
    <2>2. Maintain(a, refill)  BY <1>5 DEF WaiterMaintains
    <2> HIDE DEF a
    <2>3. AskersKept /\ RefillsKept
          BY <1>0, <1>4, <2>1, <2>2, MaintenanceKeeps DEF AskersKept, RefillsKept
    <2> QED  BY <1>1, <2>3, PoolMoves
<1>6. CASE Leave(r)
    <2> DEFINE to == IF asker[r].got THEN "served" ELSE "gone"
               a == [asker EXCEPT ![r] = Asking(to)]
    <2>1. a \in Askers /\ \A q \in Requests \ {r} : a[q] = asker[q]
          BY <1>0, <1>3 DEF Waits, Askers
    <2>2. asker' = a \/ asker' = Strand(a, {BucketOf[r]})
          BY <1>6 DEF Leave, Drop
    <2>3. refill' = refill  BY <1>6 DEF Leave
    <2> HIDE DEF a
    <2>4. AskersKept /\ RefillsKept
          BY <1>0, <1>4, <2>1, <2>2, <2>3, SleepersOnly DEF AskersKept, RefillsKept
    <2> QED  BY <1>1, <2>4, PoolMoves
<1>7. CASE AskClosing(r) \/ AskServed(r) \/ AskWaits(r) \/ TryServed(r) \/ TrySleeps(r) \/ GiveUp(r)
    <2>0. \/ \E where \in {"gone", "served", "maintain", "asleep", "leave"} :
                asker' = [asker EXCEPT ![r] = Asking(where)]
          \/ asker' = [asker EXCEPT ![r] = [pc |-> "leave", got |-> TRUE]]
          BY <1>7 DEF AskClosing, AskServed, AskWaits, TryServed, TrySleeps, GiveUp
    <2>1. asker' \in Askers /\ \A q \in Requests \ {r} : asker'[q] = asker[q]
        <3>1. CASE \E where \in {"gone", "served", "maintain", "asleep", "leave"} :
                     asker' = [asker EXCEPT ![r] = Asking(where)]
              BY <1>0, <1>3, <3>1 DEF Waits, Askers
        <3>2. CASE asker' = [asker EXCEPT ![r] = [pc |-> "leave", got |-> TRUE]]
              BY <1>0, <3>2 DEF Waits, Askers
        <3> QED  BY <2>0, <3>1, <3>2
    <2>2. refill' = refill
          BY <1>7 DEF AskClosing, AskServed, AskWaits, TryServed, TrySleeps, GiveUp
    <2>3. AskersKept /\ RefillsKept
          BY <1>0, <1>4, <2>1, <2>2 DEF AskersKept, RefillsKept
    <2> QED  BY <1>1, <2>3, PoolMoves
<1> QED  BY <1>5, <1>6, <1>7

\* The steps of a refill task between its solving and its end.
LEMMA RefillKeeps ==
    ASSUME PoolInv, NEW f \in Refills,
           RefillFailed(f) \/ Deposit(f) \/ RefillMaintains(f)
    PROVE  PoolInv'
<1>0. asker \in Askers /\ refill \in RefillTasks  BY DEF PoolInv, PoolShape
<1>1. UNCHANGED <<configured, alive, era, resv, solver>>
      BY DEF RefillFailed, Deposit, RefillMaintains, dispatchVars, workerVars
<1>2. CASE RefillFailed(f) \/ Deposit(f)
    <2>1. ~Working(f)  BY <1>2 DEF RefillFailed, Deposit, Working
    <2>2. refill' \in RefillTasks /\ \A g \in Refills \ {f} : refill'[g] = refill[g]
          BY <1>0, <1>2 DEF RefillFailed, Deposit, RefillTasks, Stages
    <2>3. asker' = asker \/ asker' = Wake(asker, refill[f].bucket)
          BY <1>2 DEF RefillFailed, Deposit
    <2>4. AskersKept /\ RefillsKept
          BY <1>0, <2>1, <2>2, <2>3, SleepersOnly DEF AskersKept, RefillsKept
    <2> QED  BY <1>1, <2>4, PoolMoves
<1>3. CASE RefillMaintains(f)
    <2> DEFINE tasks == [refill EXCEPT ![f] = Dormant]
    <2>1. tasks \in RefillTasks /\ \A g \in Refills \ {f} : tasks[g] = refill[g]
          BY <1>0 DEF RefillTasks, Stages, Dormant
    <2>2. Maintain(asker, tasks) /\ refill[f].pc # "solving"  BY <1>3 DEF RefillMaintains
    <2> HIDE DEF tasks
    <2>3. AskersKept /\ RefillsKept
          BY <1>0, <2>1, <2>2, MaintenanceKeeps DEF AskersKept, RefillsKept
    <2> QED  BY <1>1, <2>3, PoolMoves
<1> QED  BY <1>2, <1>3

\* The steps of nobody in particular.
LEMMA SettingsKeep ==
    ASSUME PoolInv, Tick \/ Toggle \/ (\E b \in Buckets : Expire(b)) \/ UNCHANGED vars
    PROVE  PoolInv'
<1>0. asker \in Askers /\ refill \in RefillTasks  BY DEF PoolInv, PoolShape
<1>1. UNCHANGED <<configured, alive, era, resv, solver>>
      BY DEF Tick, Toggle, Expire, vars, dispatchVars, workerVars
<1>2. CASE Tick
    <2>1. Maintain(asker, refill)  BY <1>2 DEF Tick
    <2>2. AskersKept /\ RefillsKept
          BY <1>0, <2>1, MaintenanceKeeps DEF AskersKept, RefillsKept
    <2> QED  BY <1>1, <2>2, PoolMoves
<1>3. CASE UNCHANGED <<asker, refill>>
    <2>1. AskersKept /\ RefillsKept  BY <1>0, <1>3 DEF AskersKept, RefillsKept
    <2> QED  BY <1>1, <2>1, PoolMoves
<1> QED  BY <1>2, <1>3 DEF Toggle, Expire, vars, poolVars

-----------------------------------------------------------------------------
\* No browser looks busy on account of callers that are gone: whatever
\* requests, refill tasks, the operator and the closing of the service do, the
\* reservations of an index are at most the callers at work on the browser it
\* names now (ReservationsAreHeld).
THEOREM ReservationsAreHeldHolds == Spec => []ReservationsAreHeld
<1>1. Init => PoolInv
    <2> SUFFICES ASSUME Init PROVE PoolInv  OBVIOUS
    <2>1. Nowhere \in Locals /\ Nowhere.pc = "idle"  BY DEF Nowhere, Locals, Places
    <2>2. PoolShape
          BY <2>1, DispatchAssumption
          DEF Init, DispatchInit, PoolShape, Askers, Asking, Waits, RefillTasks, Stages, Dormant
    <2>3. WorkersAreAwaited /\ GoneAreFree
          BY <2>1, PoolAssumption DEF Init, DispatchInit, WorkersAreAwaited, Working, GoneAreFree
    <2>4. ReservationsAreHeld
          BY HoldersCounted DEF Init, DispatchInit, ReservationsAreHeld
    <2> QED  BY <2>2, <2>3, <2>4 DEF PoolInv
<1>2. PoolInv /\ [Next]_vars => PoolInv'
    <2> SUFFICES ASSUME PoolInv, [Next]_vars PROVE PoolInv'  OBVIOUS
    <2>1. CASE Dispatch  BY <2>1, DispatchKeeps
    <2>2. CASE Close  BY <2>2, CloseKeeps
    <2>3. CASE Tick \/ Toggle \/ (\E b \in Buckets : Expire(b)) \/ UNCHANGED vars
          BY <2>3, SettingsKeep
    <2>4. ASSUME NEW r \in Requests, AskDirect(r) PROVE PoolInv'
          BY <2>4, AskDirectKeeps
    <2>5. ASSUME NEW r \in Requests,
                 \/ AskClosing(r) \/ AskServed(r) \/ AskWaits(r) \/ WaiterMaintains(r)
                 \/ TryServed(r) \/ TrySleeps(r) \/ GiveUp(r) \/ Leave(r)
          PROVE  PoolInv'
          BY <2>5, RequestKeeps
    <2>6. ASSUME NEW f \in Refills, RefillBegins(f) PROVE PoolInv'
          BY <2>6, RefillBeginsKeeps
    <2>7. ASSUME NEW f \in Refills, RefillFailed(f) \/ Deposit(f) \/ RefillMaintains(f)
          PROVE  PoolInv'
          BY <2>7, RefillKeeps
    <2>8. ASSUME NEW f \in Refills, Finish(f) PROVE PoolInv'
          BY <2>8, FinishKeeps
    <2> QED  BY <2>1, <2>2, <2>3, <2>4, <2>5, <2>6, <2>7, <2>8 DEF Next
<1>3. PoolInv => ReservationsAreHeld  BY DEF PoolInv
<1> QED  BY <1>1, <1>2, <1>3, PTL DEF Spec

----------------------------------------------------------------------------
(***************************************************************************)
(* The extension.  For any browsers, handles, sockets and callers, a       *)
(* pairing handle makes at most one session, and no verification lets a    *)
(* session pass whose revocation was confirmed.  The first does not rest   *)
(* on the lock: a handle leaves the dictionary in the same step in which a *)
(* browser begins to exchange it.  The second does: nobody deletes the row *)
(* that a verification has read before it lets go of the lock              *)
(* (RowsAreHeld).                                                          *)
(***************************************************************************)
\* Browsers and sockets are records with the fields they begin with.
IsPlugin(it) ==
    it = [session |-> it.session, ws |-> it.ws, queue |-> it.queue, pairing |-> it.pairing,
          dialling |-> it.dialling, again |-> it.again, timer |-> it.timer]

IsSocket(it) == it = [pc |-> it.pc, of |-> it.of, key |-> it.key, link |-> it.link]

Plugins ==
    /\ browser = [b \in Browsers |-> browser[b]]
    /\ \A b \in Browsers : IsPlugin(browser[b])

Wires ==
    /\ socket = [w \in Sockets |-> socket[w]]
    /\ \A w \in Sockets : IsSocket(socket[w])

\* A handle is in the dictionary, with one browser, or spent.
HandleIsSomewhere ==
    /\ made \in [Handles -> Nat]
    /\ pairings \subseteq issued /\ issued \subseteq Handles
    /\ \A b \in Browsers : browser[b].pairing \in issued \cup {NoOne}
    /\ \A h \in Handles : h \notin issued => made[h] = 0
    /\ \A h \in pairings : made[h] = 0 /\ \A b \in Browsers : browser[b].pairing # h
    /\ \A b \in Browsers : browser[b].pairing # NoOne =>
          /\ made[browser[b].pairing] = 0
          /\ \A d \in Browsers : d # b => browser[d].pairing # browser[b].pairing

\* Sessions that are stored, revoked or about to be revoked were made once,
\* and none is both stored and revoked.
SessionsWereMade ==
    /\ \A h \in stored \cup revoked : h \in Handles /\ made[h] >= 1
    /\ revoking # NoOne => revoking.of \in Handles /\ made[revoking.of] >= 1
    /\ stored \cap revoked = {}

\* One process at a time is inside the lock, and the row that a verification
\* has read stays there while it is.
RowsAreHeld ==
    /\ \A p, q \in lock : p = q
    /\ \A w \in Sockets : socket[w].pc = "found" => w \in lock /\ socket[w].key \in stored

PairingInv ==
    /\ Plugins /\ Wires
    /\ HandleIsSomewhere /\ SessionsWereMade /\ HandlesAreUsedOnce /\ RowsAreHeld

-----------------------------------------------------------------------------
\* One field of a browser changes.
LEMMA PluginField ==
    ASSUME NEW it, IsPlugin(it), NEW v, NEW x,
           \/ x = [it EXCEPT !.session = v] \/ x = [it EXCEPT !.ws = v]
           \/ x = [it EXCEPT !.queue = v] \/ x = [it EXCEPT !.dialling = v]
           \/ x = [it EXCEPT !.again = v] \/ x = [it EXCEPT !.timer = v]
    PROVE  IsPlugin(x) /\ x.pairing = it.pairing
<1>1. CASE x = [it EXCEPT !.session = v]  BY <1>1 DEF IsPlugin
<1>2. CASE x = [it EXCEPT !.ws = v]  BY <1>2 DEF IsPlugin
<1>3. CASE x = [it EXCEPT !.queue = v]  BY <1>3 DEF IsPlugin
<1>4. CASE x = [it EXCEPT !.dialling = v]  BY <1>4 DEF IsPlugin
<1>5. CASE x = [it EXCEPT !.again = v]  BY <1>5 DEF IsPlugin
<1>6. CASE x = [it EXCEPT !.timer = v]  BY <1>6 DEF IsPlugin
<1> QED  BY <1>1, <1>2, <1>3, <1>4, <1>5, <1>6

LEMMA PluginPairing ==
    ASSUME NEW it, IsPlugin(it), NEW v, NEW x, x = [it EXCEPT !.pairing = v]
    PROVE  IsPlugin(x) /\ x.pairing = v
BY DEF IsPlugin

\* connectWS leaves the exchange alone.
LEMMA DialsPlugin ==
    ASSUME NEW it, IsPlugin(it)
    PROVE  IsPlugin(Dials(it)) /\ Dials(it).pairing = it.pairing
<1>1. PICK v : v = Append(it.dialling, it.session)  OBVIOUS
<1>2. PICK x : x = [it EXCEPT !.dialling = v]  OBVIOUS
<1>3. IsPlugin(x) /\ x.pairing = it.pairing  BY <1>2, PluginField
<1>4. Dials(it) = x \/ Dials(it) = it  BY <1>1, <1>2 DEF Dials
<1> QED  BY <1>3, <1>4

\* One field of a socket changes.
LEMMA SocketField ==
    ASSUME NEW it, IsSocket(it), NEW v
    PROVE  /\ IsSocket([it EXCEPT !.pc = v])
           /\ [it EXCEPT !.pc = v].pc = v /\ [it EXCEPT !.pc = v].key = it.key
           /\ IsSocket([it EXCEPT !.link = v])
           /\ [it EXCEPT !.link = v].pc = it.pc /\ [it EXCEPT !.link = v].key = it.key
<1>1. PICK a : a = [it EXCEPT !.pc = v]  OBVIOUS
<1>2. IsSocket(a) /\ a.pc = v /\ a.key = it.key  BY <1>1 DEF IsSocket
<1>3. PICK c : c = [it EXCEPT !.link = v]  OBVIOUS
<1>4. IsSocket(c) /\ c.pc = it.pc /\ c.key = it.key  BY <1>3 DEF IsSocket
<1> QED  BY <1>1, <1>2, <1>3, <1>4

LEMMA ShutSocket == IsSocket(Shut) /\ Shut.pc = "shut"
BY DEF IsSocket, Shut

\* What happens to one browser, or to one socket, leaves the others alone.
LEMMA OnePlugin ==
    ASSUME Plugins, NEW b \in Browsers, NEW it, IsPlugin(it), browser' = [browser EXCEPT ![b] = it]
    PROVE  /\ Plugins' /\ browser'[b] = it
           /\ \A d \in Browsers \ {b} : browser'[d] = browser[d]
<1>1. browser'[b] = it /\ \A d \in Browsers \ {b} : browser'[d] = browser[d]  BY DEF Plugins
<1>2. browser' = [d \in Browsers |-> browser'[d]]  BY DEF Plugins
<1>3. \A d \in Browsers : IsPlugin(browser'[d])  BY <1>1 DEF Plugins
<1>4. Plugins'  BY <1>2, <1>3 DEF Plugins, IsPlugin
<1> QED  BY <1>1, <1>4

LEMMA OneSocket ==
    ASSUME Wires, NEW w \in Sockets, NEW it, IsSocket(it), socket' = [socket EXCEPT ![w] = it]
    PROVE  /\ Wires' /\ socket'[w] = it
           /\ \A v \in Sockets \ {w} : socket'[v] = socket[v]
<1>1. socket'[w] = it /\ \A v \in Sockets \ {w} : socket'[v] = socket[v]  BY DEF Wires
<1>2. socket' = [v \in Sockets |-> socket'[v]]  BY DEF Wires
<1>3. \A v \in Sockets : IsSocket(socket'[v])  BY <1>1 DEF Wires
<1>4. Wires'  BY <1>2, <1>3 DEF Wires, IsSocket
<1> QED  BY <1>1, <1>4

-----------------------------------------------------------------------------
\* A socket may lose its link; no other verification comes upon a row.
Finds ==
    \A w \in Sockets : socket'[w].pc = "found" =>
        socket[w].pc = "found" /\ socket'[w].key = socket[w].key

\* The lock is left alone, taken while it is free, or freed by its holder.
LEMMA RowsKeep ==
    ASSUME RowsAreHeld, Finds,
           \/ UNCHANGED <<lock, stored>>
           \/ lock = {} /\ \E p : lock' = {p}
           \/ \E p \in lock : lock' = lock \ {p} /\ (p \notin Sockets \/ socket'[p].pc # "found")
    PROVE  RowsAreHeld'
<1>1. CASE UNCHANGED <<lock, stored>>  BY <1>1 DEF RowsAreHeld, Finds
<1>2. CASE lock = {} /\ \E p : lock' = {p}  BY <1>2 DEF RowsAreHeld, Finds
<1>3. ASSUME NEW p \in lock, lock' = lock \ {p}, p \notin Sockets \/ socket'[p].pc # "found"
      PROVE  RowsAreHeld'
    <2>1. \A w \in Sockets : socket'[w].pc # "found"  BY <1>3 DEF RowsAreHeld, Finds
    <2> QED  BY <1>3, <2>1 DEF RowsAreHeld
<1> QED  BY <1>1, <1>2, <1>3

\* What browsers and sockets may do while no handle changes hands.
SameHandles == Plugins' /\ Wires' /\ \A b \in Browsers : browser'[b].pairing = browser[b].pairing

\* A step after which handles, sessions and exchanges are as they were.
LEMMA HandlesUntouched ==
    ASSUME PairingInv, SameHandles, revoking' \in {revoking, NoOne}, RowsAreHeld',
           UNCHANGED <<issued, pairings, made, revoked>>, stored' \subseteq stored
    PROVE  PairingInv'
<1>1. HandleIsSomewhere'  BY DEF PairingInv, SameHandles, HandleIsSomewhere
<1>2. SessionsWereMade'  BY DEF PairingInv, SessionsWereMade
<1> QED  BY <1>1, <1>2 DEF PairingInv, SameHandles, HandlesAreUsedOnce

\* A step of one socket.
LEMMA SocketStep ==
    ASSUME PairingInv, NEW w \in Sockets, NEW it, IsSocket(it), socket' = [socket EXCEPT ![w] = it],
           browser' = browser, revoking' = revoking,
           UNCHANGED <<issued, pairings, made, revoked>>, stored' \subseteq stored,
           \/ RowsAreHeld'
           \/ /\ it.pc = "found" => socket[w].pc = "found" /\ it.key = socket[w].key
              /\ \/ UNCHANGED <<lock, stored>>
                 \/ lock = {} /\ \E p : lock' = {p}
                 \/ w \in lock /\ lock' = lock \ {w} /\ it.pc # "found"
    PROVE  PairingInv'
<1>1. /\ Wires' /\ socket'[w] = it
      /\ \A v \in Sockets \ {w} : socket'[v] = socket[v]
      BY OneSocket DEF PairingInv
<1>2. Plugins'  BY DEF PairingInv, Plugins, IsPlugin
<1>3. RowsAreHeld'
    <2>1. CASE it.pc = "found" => socket[w].pc = "found" /\ it.key = socket[w].key
        <3>1. Finds  BY <1>1, <2>1 DEF Finds
        <3>2. ASSUME w \in lock, lock' = lock \ {w}, it.pc # "found" PROVE RowsAreHeld'
              BY <1>1, <3>1, <3>2, RowsKeep DEF PairingInv
        <3>3. CASE UNCHANGED <<lock, stored>> \/ (lock = {} /\ \E p : lock' = {p})
              BY <3>1, <3>3, RowsKeep DEF PairingInv
        <3> QED  BY <3>2, <3>3
    <2> QED  BY <2>1
<1> QED  BY <1>1, <1>2, <1>3, HandlesUntouched DEF SameHandles

\* A verification takes the lock, reads the row, and lets go of both.
LEMMA VerifyingKeeps ==
    ASSUME PairingInv, NEW w \in Sockets, Verify(w) \/ VerifyReads(w) \/ VerifyEnds(w) \/ VerifyRaises(w)
    PROVE  PairingInv'
<1>1. browser' = browser /\ revoking' = revoking
      BY DEF Verify, VerifyReads, VerifyEnds, VerifyRaises
<1>2. UNCHANGED <<issued, pairings, made, revoked>> /\ stored' \subseteq stored
      BY DEF Verify, VerifyReads, VerifyEnds, VerifyRaises, VerifyTakes, VerifyFinds,
             VerifyRefuses, VerifyKeeps, StorageRaises
<1>3. IsSocket(socket[w]) /\ Wires  BY DEF PairingInv, Wires
<1>4. CASE Verify(w)
    <2>1. PICK it : it = [socket[w] EXCEPT !.pc = "verify"]  OBVIOUS
    <2>2. IsSocket(it) /\ it.pc = "verify"  BY <1>3, <2>1, SocketField
    <2>3. socket' = [socket EXCEPT ![w] = it] /\ lock = {} /\ lock' = {w}
          BY <1>4, <2>1 DEF Verify, VerifyTakes, Takes
    <2>4. it.pc # "found"  BY <2>2
    <2> QED  BY <1>1, <1>2, <2>2, <2>3, <2>4, SocketStep
<1>5. CASE socket' = [socket EXCEPT ![w] = Shut] /\ ~Verify(w)
    <2>1. w \in lock /\ lock' = lock \ {w}
        <3>1. CASE VerifyReads(w)
            <4>1. PICK it : it = [socket[w] EXCEPT !.pc = "found"]  OBVIOUS
            <4>2. it.pc = "found"  BY <1>3, <4>1, SocketField
            <4>3. socket'[w] = Shut  BY <1>3, <1>5 DEF Wires
            <4>4. socket' # [socket EXCEPT ![w] = it]
                  BY <1>3, <4>2, <4>3, ShutSocket DEF Wires
            <4> QED  BY <3>1, <4>1, <4>4 DEF VerifyReads, VerifyRefuses, Frees
        <3>2. CASE VerifyEnds(w) \/ VerifyRaises(w)
              BY <3>2 DEF VerifyEnds, VerifyRaises, VerifyKeeps, StorageRaises, Frees
        <3> QED  BY <1>5, <3>1, <3>2
    <2>2. Shut.pc # "found"  BY ShutSocket
    <2> QED  BY <1>1, <1>2, <1>5, <2>1, <2>2, ShutSocket, SocketStep
<1>6. CASE VerifyEnds(w) /\ socket' = [socket EXCEPT ![w].pc = "accept"]
    <2>1. PICK it : it = [socket[w] EXCEPT !.pc = "accept"]  OBVIOUS
    <2>2. IsSocket(it) /\ it.pc = "accept"  BY <1>3, <2>1, SocketField
    <2>3. socket' = [socket EXCEPT ![w] = it] /\ w \in lock /\ lock' = lock \ {w}
          BY <1>6, <2>1 DEF VerifyEnds, VerifyKeeps, Frees
    <2>4. it.pc # "found"  BY <2>2
    <2> QED  BY <1>1, <1>2, <2>2, <2>3, <2>4, SocketStep
<1>7. CASE VerifyFinds(w, socket[w].key) /\ socket' = [socket EXCEPT ![w].pc = "found"]
    <2>1. PICK it : it = [socket[w] EXCEPT !.pc = "found"]  OBVIOUS
    <2>2. IsSocket(it) /\ it.key = socket[w].key  BY <1>3, <2>1, SocketField
    <2>3. /\ socket' = [socket EXCEPT ![w] = it] /\ w \in lock /\ lock' = lock
          /\ socket[w].key \in stored \ lapsed /\ stored' = stored \ lapsed
          BY <1>7, <2>1 DEF VerifyFinds, Standing
    <2>4. socket'[w] = it /\ \A v \in Sockets \ {w} : socket'[v] = socket[v]
          BY <1>3, <2>2, <2>3, OneSocket
    <2>5. RowsAreHeld'  BY <2>2, <2>3, <2>4 DEF PairingInv, RowsAreHeld
    <2> QED  BY <1>1, <1>2, <2>2, <2>3, <2>5, SocketStep
<1> QED  BY <1>4, <1>5, <1>6, <1>7 DEF Verify, VerifyReads, VerifyEnds, VerifyRaises

\* A socket is listed, loses its link or is closed.
LEMMA SocketsKeep ==
    ASSUME PairingInv, NEW w \in Sockets, Accept(w) \/ LinkDrops(w) \/ ServerSees(w)
    PROVE  PairingInv'
<1>1. UNCHANGED <<pairingVars, browser, revoking>>  BY DEF Accept, LinkDrops, ServerSees
<1>2. IsSocket(socket[w])  BY DEF PairingInv, Wires
<1>3. CASE socket' = [socket EXCEPT ![w] = Shut]
    <2>1. Shut.pc # "found"  BY ShutSocket
    <2> QED  BY <1>1, <1>3, <2>1, ShutSocket, SocketStep DEF pairingVars
<1>4. CASE socket' = [socket EXCEPT ![w].pc = "open"]
    <2>1. PICK it : it = [socket[w] EXCEPT !.pc = "open"]  OBVIOUS
    <2>2. IsSocket(it) /\ it.pc = "open"  BY <1>2, <2>1, SocketField
    <2>3. socket' = [socket EXCEPT ![w] = it]  BY <1>4, <2>1
    <2>4. it.pc # "found"  BY <2>2
    <2> QED  BY <1>1, <2>2, <2>3, <2>4, SocketStep DEF pairingVars
<1>5. CASE socket' = [socket EXCEPT ![w].link = FALSE]
    <2>1. PICK it : it = [socket[w] EXCEPT !.link = FALSE]  OBVIOUS
    <2>2. IsSocket(it) /\ it.pc = socket[w].pc /\ it.key = socket[w].key
          BY <1>2, <2>1, SocketField
    <2>3. socket' = [socket EXCEPT ![w] = it]  BY <1>5, <2>1
    <2> QED  BY <1>1, <2>2, <2>3, SocketStep DEF pairingVars
<1> QED  BY <1>3, <1>4, <1>5 DEF Accept, LinkDrops, ServerSees

-----------------------------------------------------------------------------
\* closeSocket takes the link of a socket away.
LEMMA ClosingKeeps ==
    ASSUME Wires, NEW ws,
           socket' = [w \in Sockets |-> IF w = ws THEN [socket[w] EXCEPT !.link = FALSE]
                                        ELSE socket[w]]
    PROVE  Wires' /\ \A w \in Sockets : socket'[w].pc = socket[w].pc /\ socket'[w].key = socket[w].key
<1>1. ASSUME NEW w \in Sockets
      PROVE  /\ IsSocket(socket'[w])
             /\ socket'[w].pc = socket[w].pc /\ socket'[w].key = socket[w].key
    <2>1. PICK it : it = [socket[w] EXCEPT !.link = FALSE]  OBVIOUS
    <2>2. IsSocket(socket[w])  BY DEF Wires
    <2>3. IsSocket(it) /\ it.pc = socket[w].pc /\ it.key = socket[w].key
          BY <2>1, <2>2, SocketField
    <2>4. socket'[w] = it \/ socket'[w] = socket[w]  BY <2>1
    <2> QED  BY <2>2, <2>3, <2>4
<1>2. socket' = [w \in Sockets |-> socket'[w]]  OBVIOUS
<1> QED  BY <1>1, <1>2 DEF Wires, IsSocket

\* A step of one browser: its exchange, if it has one, goes on.
LEMMA PluginStep ==
    ASSUME PairingInv, NEW b \in Browsers, NEW it, IsPlugin(it), it.pairing = browser[b].pairing,
           browser' = [browser EXCEPT ![b] = it], Wires', Finds, UNCHANGED <<pairingVars, revoking>>
    PROVE  PairingInv'
<1>1. /\ Plugins' /\ browser'[b] = it
      /\ \A d \in Browsers \ {b} : browser'[d] = browser[d]
      BY OnePlugin DEF PairingInv
<1>2. RowsAreHeld'  BY RowsKeep DEF PairingInv, pairingVars
<1> QED  BY <1>1, <1>2, HandlesUntouched DEF SameHandles, pairingVars

LEMMA BrowsersKeep ==
    ASSUME PairingInv, NEW b \in Browsers,
           Redials(b) \/ Dial(b) \/ Opens(b) \/ BrowserSees(b) \/ Solve(b)
    PROVE  PairingInv'
<1>1. UNCHANGED <<pairingVars, revoking>>  BY DEF Redials, Dial, Opens, BrowserSees, Solve
<1>2. IsPlugin(browser[b])  BY DEF PairingInv, Plugins
<1>3. ASSUME socket' = socket PROVE Wires' /\ Finds
      BY <1>3 DEF PairingInv, Wires, Finds, IsSocket
<1>4. CASE Redials(b)
    <2>1. PICK it : it = [browser[b] EXCEPT !.again = FALSE]  OBVIOUS
    <2>2. IsPlugin(it) /\ it.pairing = browser[b].pairing  BY <1>2, <2>1, PluginField
    <2>3. CASE ClosesAndDials(b, it)
        <3>1. PICK u : u = [[it EXCEPT !.ws = NoOne] EXCEPT !.timer = FALSE]  OBVIOUS
        <3>2. PICK x : x = [it EXCEPT !.ws = NoOne]  OBVIOUS
        <3>3. IsPlugin(x) /\ x.pairing = it.pairing  BY <2>2, <3>2, PluginField
        <3>4. u = [x EXCEPT !.timer = FALSE]  BY <3>1, <3>2
        <3>5. IsPlugin(u) /\ u.pairing = it.pairing  BY <3>3, <3>4, PluginField
        <3>6. u = [it EXCEPT !.ws = NoOne, !.timer = FALSE]  BY <3>1
        <3>7. IsPlugin(Dials(u)) /\ Dials(u).pairing = browser[b].pairing
              BY <2>2, <3>5, DialsPlugin
        <3>8. browser' = [browser EXCEPT ![b] = Dials(u)]  BY <2>3, <3>6 DEF ClosesAndDials
        <3>9. Wires' /\ Finds
            <4>1. PICK ws : ws = browser[b].ws  OBVIOUS
            <4>2. socket' = [w \in Sockets |-> IF w = ws THEN [socket[w] EXCEPT !.link = FALSE]
                                               ELSE socket[w]]
                  BY <2>3, <4>1 DEF ClosesAndDials
            <4> QED  BY <4>2, ClosingKeeps DEF PairingInv, Finds
        <3> QED  BY <1>1, <3>7, <3>8, <3>9, PluginStep
    <2>4. CASE browser' = [browser EXCEPT ![b] = Dials(it)] /\ socket' = socket
          BY <1>1, <1>3, <2>2, <2>4, DialsPlugin, PluginStep
    <2>5. CASE /\ browser' = [browser EXCEPT ![b] = [it EXCEPT !.dialling = Append(@, it.session)]]
               /\ socket' = socket
        <3>1. PICK v : v = Append(it.dialling, it.session)  OBVIOUS
        <3>2. PICK x : x = [it EXCEPT !.dialling = v]  OBVIOUS
        <3>3. IsPlugin(x) /\ x.pairing = browser[b].pairing  BY <2>2, <3>2, PluginField
        <3>4. browser' = [browser EXCEPT ![b] = x]  BY <2>5, <3>1, <3>2
        <3> QED  BY <1>1, <1>3, <2>5, <3>3, <3>4, PluginStep
    <2> QED  BY <1>4, <2>1, <2>3, <2>4, <2>5 DEF Redials
<1>5. CASE Dial(b)
    <2>1. PICK it : it = [browser[b] EXCEPT !.timer = FALSE]  OBVIOUS
    <2>2. IsPlugin(it) /\ it.pairing = browser[b].pairing  BY <1>2, <2>1, PluginField
    <2>3. browser' = [browser EXCEPT ![b] = Dials(it)] /\ socket' = socket
          BY <1>5, <2>1 DEF Dial
    <2> QED  BY <1>1, <1>3, <2>2, <2>3, DialsPlugin, PluginStep
<1>6. CASE Opens(b)
    <2>1. PICK w \in Sockets :
             /\ browser' = [browser EXCEPT ![b].ws = w, ![b].dialling = Tail(@)]
             /\ socket' = [socket EXCEPT ![w] =
                  [pc |-> "dialled", of |-> b, key |-> Head(browser[b].dialling), link |-> TRUE]]
          BY <1>6 DEF Opens
    <2>2. PICK s : s = [pc |-> "dialled", of |-> b, key |-> Head(browser[b].dialling), link |-> TRUE]
          OBVIOUS
    <2>3. IsSocket(s) /\ s.pc # "found"  BY <2>2 DEF IsSocket
    <2>4. socket' = [socket EXCEPT ![w] = s]  BY <2>1, <2>2
    <2>5. Wires' /\ Finds
        <3>1. /\ Wires' /\ socket'[w] = s
              /\ \A v \in Sockets \ {w} : socket'[v] = socket[v]
              BY <2>3, <2>4, OneSocket DEF PairingInv
        <3> QED  BY <2>3, <3>1 DEF Finds
    <2>6. PICK x : x = [browser[b] EXCEPT !.ws = w]  OBVIOUS
    <2>7. PICK v : v = Tail(browser[b].dialling)  OBVIOUS
    <2>8. PICK y : y = [x EXCEPT !.dialling = v]  OBVIOUS
    <2>9. IsPlugin(y) /\ y.pairing = browser[b].pairing
        <3>1. IsPlugin(x) /\ x.pairing = browser[b].pairing  BY <1>2, <2>6, PluginField
        <3> QED  BY <2>8, <3>1, PluginField
    <2>10. browser' = [browser EXCEPT ![b] = y]
           BY <1>2, <2>1, <2>6, <2>7, <2>8 DEF PairingInv, Plugins, IsPlugin
    <2> QED  BY <1>1, <2>5, <2>9, <2>10, PluginStep
<1>7. CASE BrowserSees(b)
    <2>1. PICK x : x = [browser[b] EXCEPT !.ws = NoOne]  OBVIOUS
    <2>2. PICK y : y = [x EXCEPT !.timer = TRUE]  OBVIOUS
    <2>3. IsPlugin(y) /\ y.pairing = browser[b].pairing
        <3>1. IsPlugin(x) /\ x.pairing = browser[b].pairing  BY <1>2, <2>1, PluginField
        <3> QED  BY <2>2, <3>1, PluginField
    <2>4. browser' = [browser EXCEPT ![b] = y] /\ socket' = socket
          BY <1>2, <1>7, <2>1, <2>2 DEF BrowserSees, PairingInv, Plugins, IsPlugin
    <2> QED  BY <1>1, <1>3, <2>3, <2>4, PluginStep
<1>8. CASE Solve(b)
    <2>1. PICK v : v = Tail(browser[b].queue)  OBVIOUS
    <2>2. PICK x : x = [browser[b] EXCEPT !.queue = v]  OBVIOUS
    <2>3. IsPlugin(x) /\ x.pairing = browser[b].pairing  BY <1>2, <2>2, PluginField
    <2>4. browser' = [browser EXCEPT ![b] = x] /\ socket' = socket
          BY <1>8, <2>1, <2>2 DEF Solve
    <2> QED  BY <1>1, <1>3, <2>3, <2>4, PluginStep
<1> QED  BY <1>4, <1>5, <1>6, <1>7, <1>8

\* A request changes at most the queue of one browser.
LEMMA CallersKeep ==
    ASSUME PairingInv,
           \/ \E c \in Callers :
                 Ask(c) \/ Assign(c) \/ Send(c) \/ Conclude(c) \/ TimeOut(c) \/ Cancel(c)
           \/ \E m \in wire : Receive(m) \/ Vanishes(m)
           \/ UNCHANGED extVars
    PROVE  PairingInv'
<1>1. UNCHANGED <<pairingVars, socket, revoking>>
      BY DEF Ask, Assign, Send, Conclude, TimeOut, Cancel, Receive, Vanishes, netVars, extVars
<1>2. Wires' /\ Finds  BY <1>1 DEF PairingInv, Wires, Finds, IsSocket
<1>3. browser' = browser \/ \E b, q : browser' = [browser EXCEPT ![b].queue = q]
      BY DEF Ask, Assign, Send, Conclude, TimeOut, Cancel, Receive, Vanishes, netVars, extVars
<1>4. CASE browser' = browser
    <2>1. Plugins'  BY <1>4 DEF PairingInv, Plugins, IsPlugin
    <2>2. RowsAreHeld'  BY <1>1, <1>2, RowsKeep DEF PairingInv, pairingVars
    <2> QED  BY <1>1, <1>2, <1>4, <2>1, <2>2, HandlesUntouched DEF SameHandles, pairingVars
<1>5. ASSUME NEW b, NEW q, browser' = [browser EXCEPT ![b].queue = q] PROVE PairingInv'
    <2>1. CASE b \in Browsers
        <3>1. PICK it : it = [browser[b] EXCEPT !.queue = q]  OBVIOUS
        <3>2. IsPlugin(browser[b])  BY <2>1 DEF PairingInv, Plugins
        <3>3. IsPlugin(it) /\ it.pairing = browser[b].pairing
              BY <3>1, <3>2, PluginField
        <3>4. browser' = [browser EXCEPT ![b] = it]  BY <1>5, <3>1
        <3> QED  BY <1>1, <1>2, <2>1, <3>3, <3>4, PluginStep
    <2>2. CASE b \notin Browsers
        <3>1. browser' = browser  BY <1>5, <2>2 DEF PairingInv, Plugins
        <3> QED  BY <1>4, <3>1
    <2> QED  BY <2>1, <2>2
<1> QED  BY <1>3, <1>4, <1>5

-----------------------------------------------------------------------------
\* A step that leaves the browsers and the sockets alone.
LEMMA OnlyHandles ==
    ASSUME PairingInv, UNCHANGED <<browser, socket>>
    PROVE  Plugins' /\ Wires' /\ Finds
BY DEF PairingInv, Plugins, Wires, IsPlugin, IsSocket, Finds

\* The steps of a handle before and after its exchange, and of revocations.
LEMMA HandlesKeep ==
    ASSUME PairingInv, NEW h \in Handles, IssueHandle(h) \/ Revoke(h) \/ Lapse(h)
    PROVE  PairingInv'
<1>0. UNCHANGED <<browser, socket>>  BY DEF IssueHandle, Revoke, Lapse, netVars
<1>1. Plugins' /\ Wires' /\ Finds  BY <1>0, OnlyHandles
<1>2. RowsAreHeld'
    <2>1. UNCHANGED <<lock, stored>> \/ (lock = {} /\ \E p : lock' = {p})
          BY DEF IssueHandle, Revoke, Lapse, Issue, RevokeTakes, Takes, HandleLapses, SessionLapses
    <2> QED  BY <1>1, <2>1, RowsKeep DEF PairingInv
<1>3. CASE IssueHandle(h)
    <2>1. /\ h \notin issued /\ issued' = issued \cup {h} /\ pairings' = pairings \cup {h}
          /\ UNCHANGED <<stored, made, revoked, revoking>>
          BY <1>3 DEF IssueHandle, Issue
    <2>2. NoOne \notin Handles  BY PairingAssumption
    <2>3. HandleIsSomewhere'
          BY <1>0, <2>1, <2>2 DEF PairingInv, HandleIsSomewhere
    <2> QED  BY <1>1, <1>2, <2>1, <2>3 DEF PairingInv, SessionsWereMade, HandlesAreUsedOnce
<1>4. CASE Revoke(h)
    <2>1. /\ h \in stored /\ revoking' = [of |-> h, known |-> h \in memory]
          /\ UNCHANGED <<issued, pairings, stored, made, revoked>>
          BY <1>4 DEF Revoke, RevokeTakes
    <2>2. revoking'.of = h  BY <2>1
    <2>3. SessionsWereMade'  BY <2>1, <2>2 DEF PairingInv, SessionsWereMade
    <2>4. HandleIsSomewhere' /\ HandlesAreUsedOnce'
          BY <1>0, <2>1 DEF PairingInv, HandleIsSomewhere, HandlesAreUsedOnce
    <2> QED  BY <1>1, <1>2, <2>3, <2>4 DEF PairingInv
<1>5. CASE Lapse(h)
    <2>1. UNCHANGED <<issued, pairings, stored, made, revoked, revoking>>
          BY <1>5 DEF Lapse, HandleLapses, SessionLapses
    <2> QED  BY <1>0, <1>1, <1>2, <2>1, HandlesUntouched DEF SameHandles
<1> QED  BY <1>3, <1>4, <1>5

\* A browser begins an exchange: the handle leaves the dictionary for it.
LEMMA PairKeeps ==
    ASSUME PairingInv, NEW b \in Browsers, NEW h \in Handles, Pair(b, h) \/ PairRefused(b, h)
    PROVE  PairingInv'
<1>0. UNCHANGED <<socket, revoking, issued, stored, made, revoked>>
      BY DEF Pair, PairRefused, ExchangeTakes, ExchangeRefused, netVars
<1>1. pairings' = pairings \ {h}
      BY DEF Pair, PairRefused, ExchangeTakes, ExchangeRefused
<1>2. Wires' /\ Finds  BY <1>0 DEF PairingInv, Wires, Finds, IsSocket
<1>3. RowsAreHeld'
    <2>1. UNCHANGED <<lock, stored>> \/ (lock = {} /\ \E p : lock' = {p})
          BY DEF Pair, PairRefused, ExchangeTakes, ExchangeRefused, Takes
    <2> QED  BY <1>2, <2>1, RowsKeep DEF PairingInv
<1>4. CASE PairRefused(b, h)
    <2>1. browser' = browser  BY <1>4 DEF PairRefused, netVars
    <2>2. HandleIsSomewhere'  BY <1>0, <1>1, <2>1 DEF PairingInv, HandleIsSomewhere
    <2>3. Plugins'  BY <2>1 DEF PairingInv, Plugins, IsPlugin
    <2> QED  BY <1>0, <1>2, <1>3, <2>2, <2>3
             DEF PairingInv, SessionsWereMade, HandlesAreUsedOnce
<1>5. CASE Pair(b, h)
    <2>1. PICK it : it = [browser[b] EXCEPT !.pairing = h]  OBVIOUS
    <2>2. h \in pairings /\ browser' = [browser EXCEPT ![b] = it]
          BY <1>5, <2>1 DEF Pair, ExchangeTakes, Exchangeable
    <2>3. IsPlugin(it) /\ it.pairing = h
          BY <2>1, PluginPairing DEF PairingInv, Plugins
    <2>4. /\ Plugins' /\ browser'[b].pairing = h
          /\ \A d \in Browsers \ {b} : browser'[d].pairing = browser[d].pairing
          BY <2>2, <2>3, OnePlugin DEF PairingInv
    <2>5. HandleIsSomewhere'
          BY <1>0, <1>1, <2>2, <2>4, PairingAssumption DEF PairingInv, HandleIsSomewhere
    <2> QED  BY <1>0, <1>2, <1>3, <2>4, <2>5
             DEF PairingInv, SessionsWereMade, HandlesAreUsedOnce
<1> QED  BY <1>4, <1>5

\* The exchange ends, with a session or without one; the handle is spent.
LEMMA PairedKeeps ==
    ASSUME PairingInv, NEW b \in Browsers, Paired(b) \/ PairFails(b)
    PROVE  PairingInv'
<1> DEFINE h == browser[b].pairing
<1>0. /\ h # NoOne /\ h \in Handles
      /\ UNCHANGED <<revoking, issued, pairings, revoked>>
      BY DEF Paired, PairFails, ExchangeStores, StorageRaises, PairingInv, HandleIsSomewhere
<1>1. /\ Plugins' /\ Wires' /\ Finds /\ browser'[b].pairing = NoOne
      /\ \A d \in Browsers \ {b} : browser'[d].pairing = browser[d].pairing
    <2>0. IsPlugin(browser[b])  BY DEF PairingInv, Plugins
    <2>1. CASE Paired(b)
        <3>1. PICK x : x = [browser[b] EXCEPT !.session = h]  OBVIOUS
        <3>2. PICK y : y = [x EXCEPT !.pairing = NoOne]  OBVIOUS
        <3>3. PICK z : z = [y EXCEPT !.again = TRUE]  OBVIOUS
        <3>4. PICK u : u = [z EXCEPT !.ws = NoOne]  OBVIOUS
        <3>5. PICK v : v = [u EXCEPT !.timer = FALSE]  OBVIOUS
        <3>6. IsPlugin(y) /\ y.pairing = NoOne
            <4>1. IsPlugin(x)  BY <2>0, <3>1, PluginField
            <4> QED  BY <3>2, <4>1, PluginPairing
        <3>7. IsPlugin(v) /\ v.pairing = NoOne
            <4>1. IsPlugin(z) /\ z.pairing = NoOne  BY <3>3, <3>6, PluginField
            <4>2. IsPlugin(u) /\ u.pairing = NoOne  BY <3>4, <4>1, PluginField
            <4> QED  BY <3>5, <4>2, PluginField
        <3>8. z = [browser[b] EXCEPT !.session = h, !.pairing = NoOne, !.again = TRUE]
              BY <3>1, <3>2, <3>3
        <3>9. v = [z EXCEPT !.ws = NoOne, !.timer = FALSE]  BY <3>4, <3>5
        <3>10. ClosesAndDials(b, z)  BY <2>1, <3>8 DEF Paired
        <3>11. browser' = [browser EXCEPT ![b] = Dials(v)]  BY <3>9, <3>10 DEF ClosesAndDials
        <3>12. IsPlugin(Dials(v)) /\ Dials(v).pairing = NoOne  BY <3>7, DialsPlugin
        <3>13. /\ Plugins' /\ browser'[b] = Dials(v)
               /\ \A d \in Browsers \ {b} : browser'[d] = browser[d]
               BY <3>11, <3>12, OnePlugin DEF PairingInv
        <3>14. PICK ws : ws = browser[b].ws  OBVIOUS
        <3>15. socket' = [w \in Sockets |-> IF w = ws THEN [socket[w] EXCEPT !.link = FALSE]
                                            ELSE socket[w]]
               BY <3>10, <3>14 DEF ClosesAndDials
        <3>16. Wires' /\ Finds  BY <3>15, ClosingKeeps DEF PairingInv, Finds
        <3> QED  BY <3>12, <3>13, <3>16
    <2>2. CASE PairFails(b)
        <3>1. PICK it : it = [browser[b] EXCEPT !.pairing = NoOne]  OBVIOUS
        <3>2. browser' = [browser EXCEPT ![b] = it] /\ socket' = socket
              BY <2>2, <3>1 DEF PairFails
        <3>3. IsPlugin(it) /\ it.pairing = NoOne  BY <2>0, <3>1, PluginPairing
        <3>4. /\ Plugins' /\ browser'[b] = it
              /\ \A d \in Browsers \ {b} : browser'[d] = browser[d]
              BY <3>2, <3>3, OnePlugin DEF PairingInv
        <3>5. Wires' /\ Finds  BY <3>2 DEF PairingInv, Wires, Finds, IsSocket
        <3> QED  BY <3>3, <3>4, <3>5
    <2> QED  BY <2>1, <2>2
<1>2. RowsAreHeld'
    <2>1. b \in lock /\ lock' = lock \ {b} /\ b \notin Sockets
          BY ExtensionAssumption DEF Paired, PairFails, ExchangeStores, StorageRaises, Frees
    <2> QED  BY <1>1, <2>1, RowsKeep DEF PairingInv
<1>3. CASE UNCHANGED <<stored, made>>
    <2>1. \A d \in Browsers : browser'[d].pairing \in {browser[d].pairing, NoOne}
          BY <1>1
    <2>2. \A d \in Browsers : browser'[d].pairing # NoOne =>
             /\ made'[browser'[d].pairing] = 0
             /\ \A e \in Browsers : e # d => browser'[e].pairing # browser'[d].pairing
          BY <1>0, <1>3, <2>1 DEF PairingInv, HandleIsSomewhere
    <2>3. \A g \in pairings' : made'[g] = 0 /\ \A d \in Browsers : browser'[d].pairing # g
          BY <1>0, <1>3, <2>1, PairingAssumption DEF PairingInv, HandleIsSomewhere
    <2>4. HandleIsSomewhere'
          BY <1>0, <1>3, <2>1, <2>2, <2>3 DEF PairingInv, HandleIsSomewhere
    <2> QED  BY <1>0, <1>1, <1>2, <1>3, <2>4
             DEF PairingInv, SessionsWereMade, HandlesAreUsedOnce
<1>4. CASE stored' = stored \cup {h} /\ made' = [made EXCEPT ![h] = @ + 1]
    <2>1. made[h] = 0 /\ made \in [Handles -> Nat]
          BY <1>0 DEF PairingInv, HandleIsSomewhere
    <2>2. /\ made' \in [Handles -> Nat] /\ made'[h] = 1
          /\ \A g \in Handles \ {h} : made'[g] = made[g]
          BY <1>0, <1>4, <2>1
    <2>3. HandleIsSomewhere'
        <3>1. \A d \in Browsers \ {b} : browser[d].pairing # h
              BY <1>0 DEF PairingInv, HandleIsSomewhere
        <3>2. h \in issued /\ h \notin pairings
              BY <1>0 DEF PairingInv, HandleIsSomewhere
        <3>3. \A d \in Browsers : browser'[d].pairing = NoOne
                                  \/ (d # b /\ browser'[d].pairing = browser[d].pairing)
              BY <1>1
        <3> HIDE DEF h
        <3>4. \A g \in pairings' : made'[g] = 0 /\ \A d \in Browsers : browser'[d].pairing # g
              BY <1>0, <2>2, <3>2, <3>3, PairingAssumption DEF PairingInv, HandleIsSomewhere
        <3>5. \A d \in Browsers : browser'[d].pairing # NoOne =>
                 /\ made'[browser'[d].pairing] = 0
                 /\ \A e \in Browsers : e # d => browser'[e].pairing # browser'[d].pairing
              BY <1>0, <2>2, <3>1, <3>3 DEF PairingInv, HandleIsSomewhere
        <3> QED  BY <1>0, <2>2, <3>2, <3>3, <3>4, <3>5 DEF PairingInv, HandleIsSomewhere
    <2>4. SessionsWereMade'
          BY <1>0, <1>4, <2>1, <2>2 DEF PairingInv, SessionsWereMade
    <2>5. HandlesAreUsedOnce'
          BY <2>2 DEF PairingInv, HandlesAreUsedOnce
    <2> QED  BY <1>1, <1>2, <2>3, <2>4, <2>5 DEF PairingInv
<1> QED  BY <1>3, <1>4 DEF Paired, PairFails, ExchangeStores, StorageRaises

\* A revocation ends: the session is no longer stored when it is confirmed.
LEMMA RevokedKeeps == ASSUME PairingInv, Revoked \/ RevokeFails PROVE PairingInv'
<1>0. /\ UNCHANGED <<browser, socket, issued, pairings, made>> /\ revoking # NoOne
      /\ revoking' = NoOne
      BY DEF Revoked, RevokeFails, RevokeDeletes, RevokeFindsNothing, StorageRaises, netVars
<1>1. \/ stored' \subseteq stored /\ revoked' = revoked
      \/ stored' = stored \ {revoking.of} /\ revoked' = revoked \cup {revoking.of}
      BY DEF Revoked, RevokeFails, RevokeDeletes, RevokeFindsNothing, StorageRaises
<1>2. SessionsWereMade'  BY <1>0, <1>1 DEF PairingInv, SessionsWereMade
<1>3. Plugins' /\ Wires' /\ Finds  BY <1>0, OnlyHandles
<1>4. RowsAreHeld'
    <2>1. Admin \in lock /\ lock' = lock \ {Admin} /\ Admin \notin Sockets
          BY ExtensionAssumption
          DEF Revoked, RevokeFails, RevokeDeletes, RevokeFindsNothing, StorageRaises, Frees
    <2> QED  BY <1>3, <2>1, RowsKeep DEF PairingInv
<1> QED  BY <1>0, <1>2, <1>3, <1>4 DEF PairingInv, HandleIsSomewhere, HandlesAreUsedOnce

\* The server restarts: handles and exchanges under way are lost.
LEMMA RestartKeeps == ASSUME PairingInv, Restart PROVE PairingInv'
<1>0. /\ pairings' = {} /\ lock' = {} /\ revoking' = NoOne
      /\ UNCHANGED <<issued, stored, made, revoked>>
      /\ browser' = [b \in Browsers |-> [browser[b] EXCEPT !.pairing = NoOne]]
      /\ socket' = [w \in Sockets |-> Shut]
      BY DEF Restart, PairingRestarts
<1>1. Plugins' /\ \A b \in Browsers : browser'[b].pairing = NoOne
    <2>1. ASSUME NEW b \in Browsers PROVE IsPlugin(browser'[b]) /\ browser'[b].pairing = NoOne
        <3>1. PICK it : it = [browser[b] EXCEPT !.pairing = NoOne]  OBVIOUS
        <3>2. IsPlugin(it) /\ it.pairing = NoOne
              BY <3>1, PluginPairing DEF PairingInv, Plugins
        <3>3. browser'[b] = it  BY <1>0, <3>1
        <3> QED  BY <3>2, <3>3
    <2>2. browser' = [b \in Browsers |-> browser'[b]]  BY <1>0
    <2> QED  BY <2>1, <2>2 DEF Plugins, IsPlugin
<1>2. Wires' /\ RowsAreHeld'
    <2>1. \A w \in Sockets : socket'[w] = Shut  BY <1>0
    <2>2. socket' = [w \in Sockets |-> socket'[w]]  BY <1>0
    <2>3. \A w \in Sockets : IsSocket(socket'[w]) /\ socket'[w].pc = "shut"
          BY <2>1, ShutSocket
    <2> QED  BY <1>0, <2>2, <2>3 DEF Wires, IsSocket, RowsAreHeld
<1>3. HandleIsSomewhere' /\ SessionsWereMade'
      BY <1>0, <1>1 DEF PairingInv, HandleIsSomewhere, SessionsWereMade
<1> QED  BY <1>0, <1>1, <1>2, <1>3 DEF PairingInv, HandlesAreUsedOnce

-----------------------------------------------------------------------------
\* The invariant holds in every reachable state.
LEMMA PairingInvHolds == RouteSpec => []PairingInv
<1>1. RouteInit => PairingInv
    <2> SUFFICES ASSUME RouteInit PROVE PairingInv  OBVIOUS
    <2>1. Plugins  BY DEF RouteInit, Plugins, IsPlugin
    <2>2. Wires /\ RowsAreHeld
          BY ShutSocket DEF RouteInit, PairingInit, Wires, RowsAreHeld
    <2>3. HandleIsSomewhere /\ SessionsWereMade /\ HandlesAreUsedOnce
          BY DEF RouteInit, PairingInit, HandleIsSomewhere, SessionsWereMade, HandlesAreUsedOnce
    <2> QED  BY <2>1, <2>2, <2>3 DEF PairingInv
<1>2. PairingInv /\ [RouteNext]_extVars => PairingInv'
    <2> SUFFICES ASSUME PairingInv, [RouteNext]_extVars PROVE PairingInv'  OBVIOUS
    <2>1. ASSUME NEW h \in Handles, IssueHandle(h) \/ Revoke(h) \/ Lapse(h) PROVE PairingInv'
          BY <2>1, HandlesKeep
    <2>2. ASSUME NEW b \in Browsers, Paired(b) \/ PairFails(b) PROVE PairingInv'
          BY <2>2, PairedKeeps
    <2>3. ASSUME NEW b \in Browsers, NEW h \in Handles, Pair(b, h) \/ PairRefused(b, h)
          PROVE  PairingInv'
          BY <2>3, PairKeeps
    <2>4. ASSUME NEW b \in Browsers, Redials(b) \/ Dial(b) \/ Opens(b) \/ BrowserSees(b) \/ Solve(b)
          PROVE  PairingInv'
          BY <2>4, BrowsersKeep
    <2>5. ASSUME NEW w \in Sockets, Verify(w) \/ VerifyReads(w) \/ VerifyEnds(w) \/ VerifyRaises(w)
          PROVE  PairingInv'
          BY <2>5, VerifyingKeeps
    <2>6. ASSUME NEW w \in Sockets, Accept(w) \/ LinkDrops(w) \/ ServerSees(w) PROVE PairingInv'
          BY <2>6, SocketsKeep
    <2>7. CASE \/ \E c \in Callers :
                     Ask(c) \/ Assign(c) \/ Send(c) \/ Conclude(c) \/ TimeOut(c) \/ Cancel(c)
               \/ \E m \in wire : Receive(m) \/ Vanishes(m)
               \/ UNCHANGED extVars
          BY <2>7, CallersKeep
    <2>8. CASE Revoked \/ RevokeFails  BY <2>8, RevokedKeeps
    <2>9. CASE Restart  BY <2>9, RestartKeeps
    <2> QED  BY <2>1, <2>2, <2>3, <2>4, <2>5, <2>6, <2>7, <2>8, <2>9 DEF RouteNext
<1> QED  BY <1>1, <1>2, PTL DEF RouteSpec

\* A handle makes at most one session, through exchanges that overlap, fail
\* half way or meet a restart (HandlesAreUsedOnce).
THEOREM HandlesAreUsedOnceHolds == RouteSpec => []HandlesAreUsedOnce
<1>1. PairingInv => HandlesAreUsedOnce  BY DEF PairingInv
<1> QED  BY <1>1, PairingInvHolds, PTL

\* Which steps let a session pass.
LEMMA OnlyVerifyEnds ==
    ASSUME PairingInv, RouteNext, NEW w \in Sockets,
           socket[w].pc # "accept", socket'[w].pc = "accept"
    PROVE  VerifyEnds(w) /\ socket'[w].key = socket[w].key
<1>0. IsSocket(socket[w]) /\ Wires /\ socket' # socket  BY DEF PairingInv, Wires
<1>1. ASSUME NEW h \in Handles, IssueHandle(h) \/ Revoke(h) \/ Lapse(h) PROVE FALSE
      BY <1>0, <1>1 DEF IssueHandle, Revoke, Lapse, netVars
<1>2. ASSUME NEW b \in Browsers,
             PairFails(b) \/ Dial(b) \/ BrowserSees(b) \/ Solve(b)
             \/ \E h \in Handles : Pair(b, h) \/ PairRefused(b, h)
      PROVE  FALSE
      BY <1>0, <1>2 DEF PairFails, Dial, BrowserSees, Solve, Pair, PairRefused, netVars
<1>3. ASSUME NEW b \in Browsers, Paired(b) \/ Redials(b) PROVE FALSE
    <2>1. PICK ws : ws = browser[b].ws  OBVIOUS
    <2>2. socket' = [v \in Sockets |-> IF v = ws THEN [socket[v] EXCEPT !.link = FALSE]
                                       ELSE socket[v]]
          BY <1>0, <1>3, <2>1 DEF Paired, Redials, ClosesAndDials
    <2> QED  BY <1>0, <2>2, ClosingKeeps
<1>4. ASSUME NEW b \in Browsers, Opens(b) PROVE FALSE
    <2>1. PICK v \in Sockets : socket' = [socket EXCEPT ![v] =
             [pc |-> "dialled", of |-> b, key |-> Head(browser[b].dialling), link |-> TRUE]]
          BY <1>4 DEF Opens
    <2>2. PICK s : s = [pc |-> "dialled", of |-> b, key |-> Head(browser[b].dialling), link |-> TRUE]
          OBVIOUS
    <2>3. s.pc = "dialled"  BY <2>2
    <2>4. socket' = [socket EXCEPT ![v] = s]  BY <2>1, <2>2
    <2> QED  BY <1>0, <2>3, <2>4 DEF Wires
<1>5. ASSUME NEW v \in Sockets,
             Verify(v) \/ VerifyReads(v) \/ VerifyRaises(v) \/ Accept(v) \/ LinkDrops(v)
             \/ ServerSees(v)
      PROVE  FALSE
    <2>1. PICK it : /\ socket' = [socket EXCEPT ![v] = it]
                    /\ it \in {Shut, [socket[v] EXCEPT !.pc = "verify"],
                               [socket[v] EXCEPT !.pc = "found"], [socket[v] EXCEPT !.pc = "open"],
                               [socket[v] EXCEPT !.link = FALSE]}
          BY <1>5 DEF Verify, VerifyReads, VerifyRaises, Accept, LinkDrops, ServerSees
    <2>2. IsSocket(socket[v])  BY <1>0 DEF Wires
    <2>3. it.pc \in {"shut", "verify", "found", "open", socket[v].pc}
        <3>1. CASE it = Shut  BY <3>1, ShutSocket
        <3>2. CASE it = [socket[v] EXCEPT !.pc = "verify"]  BY <2>2, <3>2, SocketField
        <3>3. CASE it = [socket[v] EXCEPT !.pc = "found"]  BY <2>2, <3>3, SocketField
        <3>4. CASE it = [socket[v] EXCEPT !.pc = "open"]  BY <2>2, <3>4, SocketField
        <3>5. CASE it = [socket[v] EXCEPT !.link = FALSE]  BY <2>2, <3>5, SocketField
        <3> QED  BY <2>1, <3>1, <3>2, <3>3, <3>4, <3>5
    <2>4. socket'[v] = it /\ \A u \in Sockets \ {v} : socket'[u] = socket[u]
          BY <1>0, <2>1 DEF Wires
    <2> QED  BY <2>3, <2>4
<1>6. CASE \/ \E c \in Callers :
                 Ask(c) \/ Assign(c) \/ Send(c) \/ Conclude(c) \/ TimeOut(c) \/ Cancel(c)
           \/ \E m \in wire : Receive(m) \/ Vanishes(m)
           \/ Revoked \/ RevokeFails
      BY <1>0, <1>6 DEF Ask, Assign, Send, Conclude, TimeOut, Cancel, Receive, Vanishes,
                        Revoked, RevokeFails, netVars
<1>7. CASE Restart
    <2>1. socket'[w] = Shut  BY <1>7 DEF Restart
    <2> QED  BY <2>1, ShutSocket
<1>8. ASSUME NEW v \in Sockets, VerifyEnds(v) PROVE VerifyEnds(w) /\ socket'[w].key = socket[w].key
    <2>1. PICK it : /\ socket' = [socket EXCEPT ![v] = it]
                    /\ it \in {Shut, [socket[v] EXCEPT !.pc = "accept"]}
          BY <1>8 DEF VerifyEnds
    <2>2. IsSocket(socket[v])  BY <1>0 DEF Wires
    <2>3. it.pc = "shut" \/ it.key = socket[v].key
        <3>1. CASE it = Shut  BY <3>1, ShutSocket
        <3>2. CASE it = [socket[v] EXCEPT !.pc = "accept"]  BY <2>2, <3>2, SocketField
        <3> QED  BY <2>1, <3>1, <3>2
    <2>4. socket'[v] = it /\ \A u \in Sockets \ {v} : socket'[u] = socket[u]
          BY <1>0, <2>1 DEF Wires
    <2>5. v = w  BY <2>4
    <2> QED  BY <1>8, <2>3, <2>4, <2>5
<1> QED  BY <1>1, <1>2, <1>3, <1>4, <1>5, <1>6, <1>7, <1>8 DEF RouteNext

\* The row that a verification has read is still there when it lets the
\* session pass, and no revoked session has a row (RevokedIsRefused).
THEOREM RevokedIsRefusedHolds == RouteSpec => RevokedIsRefused
<1> DEFINE Refused == \A w \in Sockets :
        socket[w].pc # "accept" /\ socket'[w].pc = "accept" => socket'[w].key \notin revoked
<1>1. PairingInv /\ [RouteNext]_extVars => [Refused]_extVars
    <2> SUFFICES ASSUME PairingInv, RouteNext, NEW w \in Sockets,
                        socket[w].pc # "accept", socket'[w].pc = "accept"
                 PROVE  socket'[w].key \notin revoked
        OBVIOUS
    <2>1. VerifyEnds(w) /\ socket'[w].key = socket[w].key  BY OnlyVerifyEnds
    <2>2. socket[w].key \in stored  BY <2>1 DEF VerifyEnds, PairingInv, RowsAreHeld
    <2> QED  BY <2>1, <2>2 DEF PairingInv, SessionsWereMade
<1>2. RouteSpec => [][Refused]_extVars  BY <1>1, PairingInvHolds, PTL DEF RouteSpec
<1> QED  BY <1>2 DEF RevokedIsRefused

(***************************************************************************)
(* The headed browsers. For any requests, background jobs, slots and       *)
(* disturbances, a page solves for the account its request works for. A    *)
(* browser is in the hands of whoever has the lock of its TokenBrowser     *)
(* (Turns), a process that is being made is nobody else's (Makers), and a  *)
(* TokenBrowser knows whose cookies its browser has (Bindings).            *)
(***************************************************************************)
IsActor(q) == q = [pc |-> q.pc, kind |-> q.kind, obj |-> q.obj, proc |-> q.proc, pid |-> q.pid,
                   after |-> q.after, left |-> q.left, gen |-> q.gen, inside |-> q.inside]
IsBrowser(u) == u = [sem |-> u.sem, lock |-> u.lock, proc |-> u.proc, bound |-> u.bound,
                     pid |-> u.pid, fails |-> u.fails]
IsProc(p) == p = [alive |-> p.alive, cookies |-> p.cookies]

\* Temporary browsers are made without lock.
Alone(q) == q.kind = "custom"
Making(q) == q.pc \in {"record", "bind"}
Locks(q) == q.pc \in {"record", "bind", "close"} /\ ~Alone(q)
Solving(q) == q.pc = "solve" /\ ~Alone(q)

\* Where an actor can be.
Proper(q) ==
    /\ IsActor(q)
    /\ q.pc \in {"queue", "lock", "launch", "record", "bind", "solve", "close", "purge"}
          => q.obj \in Objects
    /\ Solving(q) => q.proc \in Procs
    /\ q.pc = "launch" => Alone(q)
    /\ Alone(q) => /\ q.pc \in {"service", "queue", "launch", "record", "solve", "close"}
                   /\ q.proc # None => (q.pc \in {"record", "solve", "close"})
                   /\ q.pc = "close" => (q.after \in {"attempt", "token", "cut"})
    /\ q.pc = "close" /\ ~Alone(q) => q.after \in {"create", "attempt", "raise"}

Acting(f) == f = [a \in Actors |-> f[a]] /\ \A a \in Actors : Proper(f[a])
Browsing(f) == /\ f = [o \in Objects |-> f[o]]
               /\ \A o \in Objects : IsBrowser(f[o]) /\ f[o].lock \in Seq(Actors)
\* A process that ended has no cookies.
Running(f) == /\ f = [p \in Procs |-> f[p]]
              /\ \A p \in Procs : IsProc(f[p]) /\ (f[p].alive \/ f[p].cookies = None)
Pooling(f) == /\ f = [s \in Slots |-> f[s]]
              /\ \A s \in Slots : f[s] # None => f[s] \in Objects /\ Slot(f[s]) = s

Shapes == /\ Acting(actor) /\ Browsing(obj) /\ Running(proc) /\ Pooling(pool)
          /\ count \in 1 .. MaxCount /\ toWarm \subseteq Slots /\ toRemove \subseteq Objects

\* Whoever makes or closes the browser of a TokenBrowser has its lock.
Led(l, a) == l # <<>> /\ Head(l) = a
Turns == \A a \in Actors : Locks(actor[a]) => Led(obj[actor[a].obj].lock, a)

\* A process that is being made is nobody else's, and has no cookies yet.
Makes(a) ==
    /\ actor[a].proc \in Procs
    /\ proc[actor[a].proc].cookies = None
    /\ \A o \in Objects : obj[o].proc # actor[a].proc
    /\ \A b \in Actors \ {a} : actor[b].proc # actor[a].proc
    /\ ~Alone(actor[a]) => obj[actor[a].obj].proc = None
Makers == \A a \in Actors : Making(actor[a]) => Makes(a)

\* A TokenBrowser is bound to the account whose cookies its browser has.
Bound(o) == IF obj[o].proc = None THEN obj[o].bound = None
            ELSE /\ obj[o].proc \in Procs
                 /\ proc[obj[o].proc].alive => proc[obj[o].proc].cookies = obj[o].bound
Bindings == \A o \in Objects : Bound(o)

Solvers == \A r \in ServiceCalls :
              Solving(actor[r]) /\ proc[actor[r].proc].alive => proc[actor[r].proc].cookies = TokenOf[r]

AccountsInv == Shapes /\ Turns /\ Makers /\ Bindings /\ Solvers

----------------------------------------------------------------------------
\* The slot of a TokenBrowser or a process, neither of which is None.
LEMMA SlotsOf == /\ \A o \in Objects : Slot(o) \in Slots /\ o # None
                 /\ \A p \in Procs : Slot(p) \in Slots /\ p # None
  <1>1. ASSUME NEW n, NEW o \in Slots \X (1 .. n) PROVE Slot(o) \in Slots
    BY DEF Slot
  <1>2. None \notin Slots \X (1 .. Copies) /\ None \notin Slots \X (1 .. Forks)
    BY HeadedAssumption DEF Slots
  <1> QED
    BY <1>1, <1>2 DEF Objects, Procs

\* The process p may have died; nothing else happened to it.
Calm(p) == proc'[p].alive => proc[p].alive /\ proc'[p].cookies = proc[p].cookies
\* The process m, if there is one, belongs to a alone.
Own(a, m) == m = None \/ (/\ m \in Procs
                          /\ \A b \in Actors \ {a} : actor[b].proc # m
                          /\ \A o \in Objects : obj[o].proc # m)

\* A step of a, who makes the process m if it makes one.
LEMMA AccountsKept ==
  ASSUME AccountsInv, Shapes', NEW a \in Actors, NEW q, NEW m, actor' = [actor EXCEPT ![a] = q],
         Own(a, m), \A p \in Procs : p # m => Calm(p),
         \A b \in Actors \ {a} : Locks(actor[b]) => Led(obj'[actor[b].obj].lock, b),
         \A o \in Objects :
            \/ obj'[o].proc = obj[o].proc /\ obj'[o].bound = obj[o].bound
            \/ obj'[o].proc = None /\ obj'[o].bound = None
            \/ /\ m # None /\ o = actor[a].obj /\ Led(obj[o].lock, a) /\ obj'[o].proc = m
               /\ proc'[m].alive => proc'[m].cookies = obj'[o].bound,
         q.proc \in {None, actor[a].proc, m} \/ \E o \in Objects : q.proc = obj[o].proc,
         Locks(q) => Led(obj'[q.obj].lock, a),
         Making(q) => /\ m # None /\ q.proc = m /\ proc'[m].cookies = None
                      /\ \A o \in Objects : obj'[o].proc # m
                      /\ ~Alone(q) => obj'[q.obj].proc = None,
         a \in ServiceCalls /\ Solving(q) /\ proc'[q.proc].alive => proc'[q.proc].cookies = TokenOf[a]
  PROVE  AccountsInv'
  <1>1. /\ actor'[a] = q
        /\ \A b \in Actors \ {a} : actor'[b] = actor[b]
    BY DEF AccountsInv, Shapes, Acting
  <1>2. Turns'
    BY <1>1 DEF Turns
  <1>3. Makers'
    <2>1. ASSUME NEW b \in Actors, Making(actor[b])', b # a
          PROVE  Makes(b)'
      <3>1. Making(actor[b]) /\ actor'[b] = actor[b] /\ Makes(b)
        BY <1>1, <2>1 DEF Making, Makers, AccountsInv
      <3> DEFINE p == actor[b].proc
      <3>2. p \in Procs /\ p # None /\ p # m
        BY <2>1, <3>1, SlotsOf DEF Makes, Own
      <3>3. proc'[p].cookies = None
        BY <3>1, <3>2 DEF Makes, Calm, Shapes, Running
      <3>4. \A o \in Objects : obj'[o].proc # p
        BY <3>1, <3>2 DEF Makes
      <3>5. q.proc # p
        BY <3>1, <3>2, <2>1 DEF Makes
      <3>6. \A c \in Actors \ {b} : actor'[c].proc # p
        BY <3>1, <3>5, <1>1 DEF Makes
      <3>7. ~Alone(actor[b]) => obj'[actor[b].obj].proc = None
        <4> SUFFICES ASSUME ~Alone(actor[b]) PROVE obj'[actor[b].obj].proc = None
          OBVIOUS
        <4>1. Locks(actor[b])
          BY <3>1 DEF Making, Locks
        <4>2. actor[b].obj \in Objects
          BY <3>1 DEF Making, AccountsInv, Shapes, Acting, Proper
        <4>3. Led(obj[actor[b].obj].lock, b)
          BY <4>1 DEF AccountsInv, Turns
        <4> QED
          BY <3>1, <4>2, <4>3, <2>1 DEF Makes, Led
      <3> QED
        BY <3>1, <3>2, <3>3, <3>4, <3>6, <3>7 DEF Makes, Alone
    <2>2. ASSUME Making(q) PROVE Makes(a)'
      <3>1. m # None /\ m \in Procs /\ q.proc = m
        BY <2>2 DEF Own
      <3>2. \A b \in Actors \ {a} : actor'[b].proc # m
        BY <3>1, <1>1 DEF Own
      <3> QED
        BY <1>1, <2>2, <3>1, <3>2 DEF Makes, Alone
    <2> QED
      BY <1>1, <2>1, <2>2 DEF Makers, Making
  <1>4. Bindings'
    <2> SUFFICES ASSUME NEW o \in Objects PROVE Bound(o)'
      BY DEF Bindings
    <2>1. Bound(o)
      BY DEF AccountsInv, Bindings
    <2>2. CASE obj'[o].proc = obj[o].proc /\ obj'[o].bound = obj[o].bound
      BY <2>1, <2>2, SlotsOf DEF Bound, Own, Calm
    <2>3. CASE obj'[o].proc = None /\ obj'[o].bound = None
      BY <2>3 DEF Bound
    <2>4. CASE m # None /\ obj'[o].proc = m /\ (proc'[m].alive => proc'[m].cookies = obj'[o].bound)
      BY <2>4 DEF Bound, Own
    <2> QED
      BY <2>2, <2>3, <2>4
  <1>5. Solvers'
    <2> SUFFICES ASSUME NEW r \in ServiceCalls, Solving(actor'[r]), proc'[actor'[r].proc].alive
                 PROVE  proc'[actor'[r].proc].cookies = TokenOf[r]
      BY DEF Solvers, Solving, Alone
    <2>1. CASE r = a
      BY <1>1, <2>1
    <2>2. CASE r # a
      <3>1. actor'[r] = actor[r] /\ Solving(actor[r])
        BY <1>1, <2>2 DEF Actors
      <3>2. actor[r].proc \in Procs
        BY <3>1 DEF AccountsInv, Shapes, Acting, Proper, Actors
      <3>3. actor[r].proc # m
        BY <2>2, <3>2, SlotsOf DEF Own, Actors
      <3>4. proc[actor[r].proc].alive /\ proc'[actor[r].proc].cookies = proc[actor[r].proc].cookies
        BY <3>1, <3>2, <3>3 DEF Calm
      <3> QED
        BY <3>1, <3>4 DEF AccountsInv, Solvers
    <2> QED
      BY <2>1, <2>2
  <1> QED
    BY <1>2, <1>3, <1>4, <1>5 DEF AccountsInv

\* The TokenBrowsers at f become those at g by a step of a: none gets another
\* browser, and nobody else loses its lock.
Mild(f, g, a) ==
    \A o \in Objects :
        /\ f[o].lock # <<>> /\ Head(f[o].lock) # a => Led(g[o].lock, Head(f[o].lock))
        /\ \/ g[o].proc = f[o].proc /\ g[o].bound = f[o].bound
           \/ g[o].proc = None /\ g[o].bound = None

\* Two such changes in a row are one.
LEMMA MildMild ==
  ASSUME NEW f, NEW g, NEW h, NEW a, Mild(f, g, a), Mild(g, h, a)
  PROVE  Mild(f, h, a)
  <1> SUFFICES ASSUME NEW o \in Objects
               PROVE  /\ f[o].lock # <<>> /\ Head(f[o].lock) # a => Led(h[o].lock, Head(f[o].lock))
                      /\ \/ h[o].proc = f[o].proc /\ h[o].bound = f[o].bound
                         \/ h[o].proc = None /\ h[o].bound = None
    BY DEF Mild
  <1> QED
    BY DEF Mild, Led

\* No change is one.
LEMMA MildSame == ASSUME NEW f, NEW a PROVE Mild(f, f, a)
  BY DEF Mild, Led

\* A step of one actor to a proper place.
LEMMA ActingKept ==
  ASSUME Acting(actor), NEW a \in Actors, NEW q, Proper(q), actor' = [actor EXCEPT ![a] = q]
  PROVE  Acting(actor')
  BY DEF Acting

\* A step of a that makes no process.
LEMMA QuietKeeps ==
  ASSUME AccountsInv, NEW a \in Actors, NEW q, actor' = [actor EXCEPT ![a] = q], Proper(q),
         Browsing(obj'), Running(proc'), UNCHANGED <<count, pool>>,
         toWarm' \subseteq toWarm, toRemove' \subseteq toRemove,
         Mild(obj, obj', a), \A p \in Procs : Calm(p),
         ~Making(q), Locks(q) => Led(obj'[q.obj].lock, a),
         q.proc \in {None, actor[a].proc} \/ \E o \in Objects : q.proc = obj[o].proc,
         a \in ServiceCalls /\ Solving(q) /\ proc'[q.proc].alive => proc'[q.proc].cookies = TokenOf[a]
  PROVE  AccountsInv'
  <1>1. Shapes'
    <2>1. Acting(actor')
      BY ActingKept DEF AccountsInv, Shapes
    <2> QED
      BY <2>1 DEF AccountsInv, Shapes, Pooling
  <1>2. Own(a, None)
    BY DEF Own
  <1>3. \A b \in Actors \ {a} : Locks(actor[b]) => Led(obj'[actor[b].obj].lock, b)
    <2> SUFFICES ASSUME NEW b \in Actors \ {a}, Locks(actor[b]) PROVE Led(obj'[actor[b].obj].lock, b)
      OBVIOUS
    <2>1. actor[b].obj \in Objects
      BY DEF AccountsInv, Shapes, Acting, Proper, Locks
    <2>2. Led(obj[actor[b].obj].lock, b)
      BY DEF AccountsInv, Turns
    <2> QED
      BY <2>1, <2>2 DEF Mild, Led
  <1>4. \A o \in Objects : \/ obj'[o].proc = obj[o].proc /\ obj'[o].bound = obj[o].bound
                           \/ obj'[o].proc = None /\ obj'[o].bound = None
    BY DEF Mild
  <1> QED
    BY <1>1, <1>2, <1>3, <1>4, AccountsKept

\* It lets go of its browser, and queues or ends.
Parked(q, o) == /\ Proper(q) /\ q.proc = None /\ q.obj \in {None, o}
                /\ q.pc \notin {"record", "bind", "solve", "close"}

\* A step of a that lets go of whatever process it has.
LEMMA ParkKeeps ==
  ASSUME AccountsInv, NEW a \in Actors, NEW q, actor' = [actor EXCEPT ![a] = q],
         Parked(q, actor[a].obj), Browsing(obj'), Running(proc'),
         UNCHANGED <<count, pool, toWarm, toRemove>>, Mild(obj, obj', a), \A p \in Procs : Calm(p)
  PROVE  AccountsInv'
  <1>1. Proper(q) /\ ~Making(q) /\ ~Locks(q) /\ ~Solving(q) /\ q.proc = None
    BY DEF Parked, Making, Locks, Solving
  <1> QED
    BY <1>1, QuietKeeps

----------------------------------------------------------------------------
\* What can happen to a TokenBrowser.
\* One of them changes to w.
Swap(f, o, w) == [f EXCEPT ![o] = w]
Tame(f, o, w, a) ==
    /\ IsBrowser(w) /\ w.lock \in Seq(Actors)
    /\ f[o].lock # <<>> /\ Head(f[o].lock) # a => Led(w.lock, Head(f[o].lock))
    /\ (w.proc = f[o].proc /\ w.bound = f[o].bound) \/ (w.proc = None /\ w.bound = None)

\* Such a change, of the TokenBrowsers as a whole.
LEMMA Replaced ==
  ASSUME NEW f, Browsing(f), NEW o \in Objects, NEW a \in Actors, NEW w, Tame(f, o, w, a)
  PROVE  Browsing(Swap(f, o, w)) /\ Mild(f, Swap(f, o, w), a) /\ Swap(f, o, w)[o] = w
  BY DEF Browsing, Mild, Led, Swap, Tame

\* Queueing for a lock ...
LEMMA QueueMild ==
  ASSUME NEW f, Browsing(f), NEW o \in Objects, NEW a \in Actors
  PROVE  /\ Browsing([f EXCEPT ![o].lock = Append(@, a)])
         /\ Mild(f, [f EXCEPT ![o].lock = Append(@, a)], a)
  <1>1. PICK u : u = f[o]
    OBVIOUS
  <1>2. PICK l : l = Append(f[o].lock, a)
    OBVIOUS
  <1>3. PICK w : w = [u EXCEPT !.lock = l]
    OBVIOUS
  <1>4. [f EXCEPT ![o].lock = Append(@, a)] = Swap(f, o, w)
    BY <1>1, <1>2, <1>3 DEF Swap
  <1>5. IsBrowser(u) /\ u.lock \in Seq(Actors)
    BY <1>1 DEF Browsing
  <1>6. l \in Seq(Actors) /\ (u.lock # <<>> => Led(l, Head(u.lock)))
    BY <1>1, <1>2, <1>5 DEF Led
  <1>7. IsBrowser(w) /\ w.lock = l /\ w.proc = u.proc /\ w.bound = u.bound
    BY <1>3, <1>5 DEF IsBrowser
  <1> QED
    <2>1. Tame(f, o, w, a)
      BY <1>1, <1>6, <1>7 DEF Tame
    <2>2. Browsing(Swap(f, o, w)) /\ Mild(f, Swap(f, o, w), a)
      BY <2>1, Replaced
    <2> QED
      BY <1>4, <2>2

\* ... giving it back ...
LEMMA PopMild ==
  ASSUME NEW f, Browsing(f), NEW o \in Objects, NEW a \in Actors, Led(f[o].lock, a)
  PROVE  /\ Browsing([f EXCEPT ![o].lock = Tail(@)])
         /\ Mild(f, [f EXCEPT ![o].lock = Tail(@)], a)
  <1>1. PICK u : u = f[o]
    OBVIOUS
  <1>2. PICK l : l = Tail(f[o].lock)
    OBVIOUS
  <1>3. PICK w : w = [u EXCEPT !.lock = l]
    OBVIOUS
  <1>4. [f EXCEPT ![o].lock = Tail(@)] = Swap(f, o, w)
    BY <1>1, <1>2, <1>3 DEF Swap
  <1>5. IsBrowser(u) /\ u.lock \in Seq(Actors)
    BY <1>1 DEF Browsing
  <1>6. l \in Seq(Actors)
    BY <1>1, <1>2, <1>5 DEF Led
  <1>7. IsBrowser(w) /\ w.lock = l /\ w.proc = u.proc /\ w.bound = u.bound
    BY <1>3, <1>5 DEF IsBrowser
  <1> QED
    <2>1. Tame(f, o, w, a)
      BY <1>1, <1>6, <1>7 DEF Tame, Led
    <2>2. Browsing(Swap(f, o, w)) /\ Mild(f, Swap(f, o, w), a)
      BY <2>1, Replaced
    <2> QED
      BY <1>4, <2>2

\* ... the semaphore ...
LEMMA SemMild ==
  ASSUME NEW f, Browsing(f), NEW o \in Objects, NEW a \in Actors, NEW v
  PROVE  /\ Browsing([f EXCEPT ![o].sem = v]) /\ Mild(f, [f EXCEPT ![o].sem = v], a)
  <1>1. PICK u : u = f[o]
    OBVIOUS
  <1>2. IsBrowser(u) /\ u.lock \in Seq(Actors)
    BY <1>1 DEF Browsing
  <1>3. PICK w : w = [u EXCEPT !.sem = v]
    OBVIOUS
  <1>4. [f EXCEPT ![o].sem = v] = Swap(f, o, w)
    BY <1>1, <1>3 DEF Swap
  <1>5. IsBrowser(w) /\ w.lock = u.lock /\ w.proc = u.proc /\ w.bound = u.bound
    BY <1>2, <1>3 DEF IsBrowser
  <1>6. Tame(f, o, w, a)
    BY <1>1, <1>2, <1>5 DEF Tame, Led
  <1>7. Browsing(Swap(f, o, w)) /\ Mild(f, Swap(f, o, w), a) /\ Swap(f, o, w)[o] = w
    BY <1>6, Replaced
  <1> QED
    BY <1>1, <1>4, <1>5, <1>7

\* ... the count of failures ...
LEMMA FailsMild ==
  ASSUME NEW f, Browsing(f), NEW o \in Objects, NEW a \in Actors, NEW v
  PROVE  /\ Browsing([f EXCEPT ![o].fails = v]) /\ Mild(f, [f EXCEPT ![o].fails = v], a)
  <1>1. PICK u : u = f[o]
    OBVIOUS
  <1>2. IsBrowser(u) /\ u.lock \in Seq(Actors)
    BY <1>1 DEF Browsing
  <1>3. PICK w : w = [u EXCEPT !.fails = v]
    OBVIOUS
  <1>4. [f EXCEPT ![o].fails = v] = Swap(f, o, w)
    BY <1>1, <1>3 DEF Swap
  <1>5. IsBrowser(w) /\ w.lock = u.lock /\ w.proc = u.proc /\ w.bound = u.bound
    BY <1>2, <1>3 DEF IsBrowser
  <1>6. Tame(f, o, w, a)
    BY <1>1, <1>2, <1>5 DEF Tame, Led
  <1>7. Browsing(Swap(f, o, w)) /\ Mild(f, Swap(f, o, w), a) /\ Swap(f, o, w)[o] = w
    BY <1>6, Replaced
  <1> QED
    BY <1>1, <1>4, <1>5, <1>7

\* ... forgetting the noted process.
LEMMA PidMild ==
  ASSUME NEW f, Browsing(f), NEW o \in Objects, NEW a \in Actors
  PROVE  /\ Browsing([f EXCEPT ![o].pid = None]) /\ Mild(f, [f EXCEPT ![o].pid = None], a)
         /\ [f EXCEPT ![o].pid = None][o].lock = f[o].lock
  <1>1. PICK u : u = f[o]
    OBVIOUS
  <1>2. IsBrowser(u) /\ u.lock \in Seq(Actors)
    BY <1>1 DEF Browsing
  <1>3. PICK w : w = [u EXCEPT !.pid = None]
    OBVIOUS
  <1>4. [f EXCEPT ![o].pid = None] = Swap(f, o, w)
    BY <1>1, <1>3 DEF Swap
  <1>5. IsBrowser(w) /\ w.lock = u.lock /\ w.proc = u.proc /\ w.bound = u.bound /\ w.pid = None
    BY <1>2, <1>3 DEF IsBrowser
  <1>6. Tame(f, o, w, a)
    BY <1>1, <1>2, <1>5 DEF Tame, Led
  <1>7. Browsing(Swap(f, o, w)) /\ Mild(f, Swap(f, o, w), a) /\ Swap(f, o, w)[o] = w
    BY <1>6, Replaced
  <1> QED
    BY <1>1, <1>4, <1>5, <1>7

\* Who leaves a queue takes the lock from nobody else.
LEMMA LeftMild ==
  ASSUME NEW q \in Seq(Actors), NEW a
  PROVE  /\ Left(q, a) \in Seq(Actors)
         /\ q # <<>> /\ Head(q) # a => Led(Left(q, a), Head(q))
  <1>1. CASE \A j \in DOMAIN q : q[j] # a
    BY <1>1 DEF Left, Led
  <1>2. CASE ~\A j \in DOMAIN q : q[j] # a
    <2> DEFINE i == CHOOSE i \in DOMAIN q : q[i] = a
    <2>1. i \in DOMAIN q /\ q[i] = a
      BY <1>2
    <2>2. Left(q, a) = [j \in 1 .. Len(q) - 1 |-> q[IF j < i THEN j ELSE j + 1]]
      BY <1>2 DEF Left
    <2> HIDE DEF i
    <2>3. \A j \in 1 .. Len(q) - 1 : q[IF j < i THEN j ELSE j + 1] \in Actors
      OBVIOUS
    <2>4. Len(q) - 1 \in Nat
      BY <2>1
    <2>5. Left(q, a) \in Seq(Actors) /\ Len(Left(q, a)) = Len(q) - 1
      BY <2>2, <2>3, <2>4
    <2>6. ASSUME q # <<>>, Head(q) # a PROVE Led(Left(q, a), Head(q))
      <3>1. i > 1 /\ Len(q) > 1 /\ q[1] = Head(q)
        BY <2>1, <2>6
      <3>2. Left(q, a)[1] = q[1]
        BY <2>2, <3>1
      <3> QED
        BY <2>5, <3>1, <3>2 DEF Led
    <2> QED
      BY <2>5, <2>6
  <1> QED
    BY <1>1, <1>2

\* Cancelling somebody takes the lock from nobody else.
LEMMA CutMild ==
  ASSUME NEW f, Browsing(f), NEW a \in Actors
  PROVE  Browsing(Cut(f, a)) /\ Mild(f, Cut(f, a), a)
  <1>1. Cut(f, a) = [o \in Objects |-> Cut(f, a)[o]]
    BY DEF Cut
  <1>2. ASSUME NEW o \in Objects
        PROVE  /\ IsBrowser(Cut(f, a)[o]) /\ Cut(f, a)[o].lock = Left(f[o].lock, a)
               /\ Cut(f, a)[o].proc = f[o].proc /\ Cut(f, a)[o].bound = f[o].bound
    <2>1. PICK v : v = IF f[o].sem = a THEN None ELSE f[o].sem
      OBVIOUS
    <2>2. Cut(f, a)[o] = [f[o] EXCEPT !.sem = v, !.lock = Left(@, a)]
      BY <2>1 DEF Cut
    <2>3. IsBrowser(f[o])
      BY DEF Browsing
    <2> QED
      BY <2>2, <2>3 DEF IsBrowser
  <1>3. \A o \in Objects : f[o].lock \in Seq(Actors)
    BY DEF Browsing
  <1>4. Browsing(Cut(f, a))
    BY <1>1, <1>2, <1>3, LeftMild DEF Browsing
  <1>5. Mild(f, Cut(f, a), a)
    BY <1>2, <1>3, LeftMild DEF Mild
  <1> QED
    BY <1>4, <1>5

----------------------------------------------------------------------------
\* What can happen to an actor.
Then(x, c, p, i, d, l) ==
    [pc |-> c, kind |-> x.kind, obj |-> x.obj, proc |-> p, pid |-> i, after |-> d,
     left |-> l, gen |-> x.gen, inside |-> x.inside]
Queues(x, c, l) == [x EXCEPT !.left = l, !.proc = None, !.pid = None, !.after = "", !.pc = c]
Purges(x) == [x EXCEPT !.pc = "purge", !.proc = None, !.pid = None]
Repeats(x, l) == [x EXCEPT !.pc = "purge", !.left = l, !.proc = None, !.pid = None]
Relocks(x) == [x EXCEPT !.pc = "lock", !.proc = None, !.pid = None, !.after = ""]
Shuts(x, p, i, d) == [x EXCEPT !.pc = "close", !.proc = p, !.pid = i, !.after = d]
Throws(x, i) == [x EXCEPT !.pc = "close", !.pid = i, !.after = "raise"]
Finishes(x, d) == [x EXCEPT !.pc = "close", !.after = d]
Works(x, c, p) == [x EXCEPT !.pc = c, !.proc = p]
Proceeds(x, c) == [x EXCEPT !.pc = c]

\* The fields of an actor that goes on.
LEMMA ThenFields ==
  ASSUME NEW x, NEW c, NEW p, NEW i, NEW d, NEW l
  PROVE  LET n == Then(x, c, p, i, d, l)
         IN /\ IsActor(n) /\ n.pc = c /\ n.kind = x.kind /\ n.obj = x.obj /\ n.proc = p /\ n.pid = i
            /\ n.after = d
  BY DEF IsActor, Then

\* An actor is a record of nine fields.
LEMMA ActorRecord ==
  ASSUME NEW x, IsActor(x)
  PROVE  \E A, B, C, D, E, F, G, H, I :
            x \in [pc : A, kind : B, obj : C, proc : D, pid : E, after : F, left : G, gen : H, inside : I]
  <1>1. PICK A, B, C : A = {x.pc} /\ B = {x.kind} /\ C = {x.obj}
    OBVIOUS
  <1>2. PICK D, E, F : D = {x.proc} /\ E = {x.pid} /\ F = {x.after}
    OBVIOUS
  <1>3. PICK G, H, I : G = {x.left} /\ H = {x.gen} /\ I = {x.inside}
    OBVIOUS
  <1>4. x \in [pc : A, kind : B, obj : C, proc : D, pid : E, after : F, left : G, gen : H, inside : I]
    BY <1>1, <1>2, <1>3 DEF IsActor
  <1> QED
    BY <1>4

\* The updates of an actor in the model, as records: it tries again ...
LEMMA QueuesThen ==
  ASSUME NEW x, IsActor(x), NEW c, NEW l
  PROVE  Queues(x, c, l) = Then(x, c, None, None, "", l)
  <1>1. PICK A, B, C, D, E, F, G, H, I :
           x \in [pc : A, kind : B, obj : C, proc : D, pid : E, after : F, left : G, gen : H, inside : I]
    BY ActorRecord
  <1>2. PICK n : n = [x EXCEPT !.left = l, !.proc = None, !.pid = None, !.after = "", !.pc = c]
    OBVIOUS
  <1>3. n = Then(x, c, None, None, "", l)
    BY <1>1, <1>2 DEF Then
  <1> QED
    BY <1>2, <1>3 DEF Queues

\* ... has its browser recycled ...
LEMMA PurgesThen ==
  ASSUME NEW x, IsActor(x)
  PROVE  Purges(x) = Then(x, "purge", None, None, x.after, x.left)
  <1>1. PICK A, B, C, D, E, F, G, H, I :
           x \in [pc : A, kind : B, obj : C, proc : D, pid : E, after : F, left : G, gen : H, inside : I]
    BY ActorRecord
  <1>2. PICK n : n = [x EXCEPT !.pc = "purge", !.proc = None, !.pid = None]
    OBVIOUS
  <1>3. n = Then(x, "purge", None, None, x.after, x.left)
    BY <1>1, <1>2 DEF Then
  <1> QED
    BY <1>2, <1>3 DEF Purges

\* ... once more ...
LEMMA RepeatsThen ==
  ASSUME NEW x, IsActor(x), NEW l
  PROVE  Repeats(x, l) = Then(x, "purge", None, None, x.after, l)
  <1>1. PICK A, B, C, D, E, F, G, H, I :
           x \in [pc : A, kind : B, obj : C, proc : D, pid : E, after : F, left : G, gen : H, inside : I]
    BY ActorRecord
  <1>2. PICK n : n = [x EXCEPT !.pc = "purge", !.left = l, !.proc = None, !.pid = None]
    OBVIOUS
  <1>3. n = Then(x, "purge", None, None, x.after, l)
    BY <1>1, <1>2 DEF Then
  <1> QED
    BY <1>2, <1>3 DEF Repeats

\* ... waits for a browser at the head of the lock ...
LEMMA RelocksThen ==
  ASSUME NEW x, IsActor(x)
  PROVE  Relocks(x) = Then(x, "lock", None, None, "", x.left)
  <1>1. PICK A, B, C, D, E, F, G, H, I :
           x \in [pc : A, kind : B, obj : C, proc : D, pid : E, after : F, left : G, gen : H, inside : I]
    BY ActorRecord
  <1>2. PICK n : n = [x EXCEPT !.pc = "lock", !.proc = None, !.pid = None, !.after = ""]
    OBVIOUS
  <1>3. n = Then(x, "lock", None, None, "", x.left)
    BY <1>1, <1>2 DEF Then
  <1> QED
    BY <1>2, <1>3 DEF Relocks

\* ... closes a browser ...
LEMMA ShutsThen ==
  ASSUME NEW x, IsActor(x), NEW p, NEW i, NEW d
  PROVE  Shuts(x, p, i, d) = Then(x, "close", p, i, d, x.left)
  <1>1. PICK A, B, C, D, E, F, G, H, I :
           x \in [pc : A, kind : B, obj : C, proc : D, pid : E, after : F, left : G, gen : H, inside : I]
    BY ActorRecord
  <1>2. PICK n : n = [x EXCEPT !.pc = "close", !.proc = p, !.pid = i, !.after = d]
    OBVIOUS
  <1>3. n = Then(x, "close", p, i, d, x.left)
    BY <1>1, <1>2 DEF Then
  <1> QED
    BY <1>2, <1>3 DEF Shuts

\* ... which it could not bind ...
LEMMA ThrowsThen ==
  ASSUME NEW x, IsActor(x), NEW i
  PROVE  Throws(x, i) = Then(x, "close", x.proc, i, "raise", x.left)
  <1>1. PICK A, B, C, D, E, F, G, H, I :
           x \in [pc : A, kind : B, obj : C, proc : D, pid : E, after : F, left : G, gen : H, inside : I]
    BY ActorRecord
  <1>2. PICK n : n = [x EXCEPT !.pc = "close", !.pid = i, !.after = "raise"]
    OBVIOUS
  <1>3. n = Then(x, "close", x.proc, i, "raise", x.left)
    BY <1>1, <1>2 DEF Then
  <1> QED
    BY <1>2, <1>3 DEF Throws

\* ... or which was a temporary one ...
LEMMA FinishesThen ==
  ASSUME NEW x, IsActor(x), NEW d
  PROVE  Finishes(x, d) = Then(x, "close", x.proc, x.pid, d, x.left)
  <1>1. PICK A, B, C, D, E, F, G, H, I :
           x \in [pc : A, kind : B, obj : C, proc : D, pid : E, after : F, left : G, gen : H, inside : I]
    BY ActorRecord
  <1>2. PICK n : n = [x EXCEPT !.pc = "close", !.after = d]
    OBVIOUS
  <1>3. n = Then(x, "close", x.proc, x.pid, d, x.left)
    BY <1>1, <1>2 DEF Then
  <1> QED
    BY <1>2, <1>3 DEF Finishes

\* ... has a process ...
LEMMA WorksThen ==
  ASSUME NEW x, IsActor(x), NEW c, NEW p
  PROVE  Works(x, c, p) = Then(x, c, p, x.pid, x.after, x.left)
  <1>1. PICK A, B, C, D, E, F, G, H, I :
           x \in [pc : A, kind : B, obj : C, proc : D, pid : E, after : F, left : G, gen : H, inside : I]
    BY ActorRecord
  <1>2. PICK n : n = [x EXCEPT !.pc = c, !.proc = p]
    OBVIOUS
  <1>3. n = Then(x, c, p, x.pid, x.after, x.left)
    BY <1>1, <1>2 DEF Then
  <1> QED
    BY <1>2, <1>3 DEF Works

\* ... or keeps the one it has.
LEMMA ProceedsThen ==
  ASSUME NEW x, IsActor(x), NEW c
  PROVE  Proceeds(x, c) = Then(x, c, x.proc, x.pid, x.after, x.left)
  <1>1. PICK A, B, C, D, E, F, G, H, I :
           x \in [pc : A, kind : B, obj : C, proc : D, pid : E, after : F, left : G, gen : H, inside : I]
    BY ActorRecord
  <1>2. PICK n : n = [x EXCEPT !.pc = c]
    OBVIOUS
  <1>3. n = Then(x, c, x.proc, x.pid, x.after, x.left)
    BY <1>1, <1>2 DEF Then
  <1> QED
    BY <1>2, <1>3 DEF Proceeds

\* An actor queues for a lock, or is done.
Parks(f, a) == /\ \E q : actor' = [actor EXCEPT ![a] = q] /\ Parked(q, actor[a].obj)
               /\ Browsing(obj') /\ Mild(f, obj', a)

\* An actor that is done is parked.
LEMMA IdleParked ==
  ASSUME NEW o, NEW how \in {"idle"} \cup Outcomes
  PROVE  /\ Parked([Idle EXCEPT !.pc = how], o) /\ Parked(Idle, o)
  <1>1. PICK n : n = [Idle EXCEPT !.pc = how]
    OBVIOUS
  <1>2. /\ IsActor(n) /\ n.pc = how /\ n.kind = "" /\ n.obj = None /\ n.proc = None
    BY <1>1 DEF IsActor, Idle
  <1>3. Parked(n, o)
    BY <1>2 DEF Parked, Proper, Outcomes, Alone, Solving
  <1>4. Parked(Idle, o)
    BY DEF Parked, Proper, Outcomes, Alone, Solving, Idle, IsActor
  <1> QED
    BY <1>1, <1>3, <1>4

\* So is one that queues for a lock.
LEMMA ThenParked ==
  ASSUME NEW x, x.obj \in Objects, NEW c, NEW i, NEW d, NEW l,
         (c = "launch" /\ Alone(x)) \/ (c \in {"lock", "purge"} /\ ~Alone(x))
  PROVE  Parked(Then(x, c, None, i, d, l), x.obj)
  BY DEF Parked, Proper, IsActor, Alone, Solving, Then

\* The end of an attempt parks the request.
LEMMA AgainParks ==
  ASSUME Acting(actor), NEW r \in Actors, actor[r].obj \in Objects, NEW ob, Browsing(ob), Again(r, ob)
  PROVE  Parks(ob, r)
  <1> DEFINE o == actor[r].obj
  <1>0. IsActor(actor[r])
    BY DEF Acting, Proper
  <1>1. CASE actor[r].left = 1
    <2>1. Unwind(r, "nothing") /\ obj' = Vacated(ob, o)
      BY <1>1 DEF Again
    <2>2. PICK q : q = [Idle EXCEPT !.pc = "nothing"]
      OBVIOUS
    <2>3. actor' = [actor EXCEPT ![r] = q]
      BY <2>1, <2>2 DEF Unwind
    <2>4. Parked(q, o)
      BY <2>2, IdleParked DEF Outcomes
    <2>5. Browsing(obj') /\ Mild(ob, obj', r)
      BY <2>1, SemMild DEF Vacated
    <2> QED
      BY <2>3, <2>4, <2>5 DEF Parks
  <1>2. CASE actor[r].left # 1 /\ Kind(r) = "custom"
    <2>1. PICK l : l = actor[r].left - 1
      OBVIOUS
    <2>2. PICK x : x = actor[r]
      OBVIOUS
    <2>3. obj' = ob /\ actor' = [actor EXCEPT ![r] = Queues(x, "launch", l)]
      BY <1>2, <2>1, <2>2 DEF Again, Queues
    <2>4. actor' = [actor EXCEPT ![r] = Then(x, "launch", None, None, "", l)]
      <3>1. IsActor(x)
        BY <1>0, <2>2
      <3>2. Queues(x, "launch", l) = Then(x, "launch", None, None, "", l)
        BY <3>1, QueuesThen
      <3> QED
        BY <2>3, <3>2
    <2>5. Parked(Then(x, "launch", None, None, "", l), o)
      BY <1>2, <2>2, ThenParked DEF Kind, Alone
    <2>6. Browsing(obj') /\ Mild(ob, obj', r)
      BY <2>3, MildSame
    <2> QED
      BY <2>4, <2>5, <2>6 DEF Parks
  <1>3. CASE actor[r].left # 1 /\ Kind(r) # "custom"
    <2>1. PICK l : l = actor[r].left - 1
      OBVIOUS
    <2>2. PICK x : x = actor[r]
      OBVIOUS
    <2>3. /\ obj' = [ob EXCEPT ![o].lock = Append(@, r)]
          /\ actor' = [actor EXCEPT ![r] = Queues(x, "lock", l)]
      BY <1>3, <2>1, <2>2 DEF Again, Queues
    <2>4. actor' = [actor EXCEPT ![r] = Then(x, "lock", None, None, "", l)]
      <3>1. IsActor(x)
        BY <1>0, <2>2
      <3>2. Queues(x, "lock", l) = Then(x, "lock", None, None, "", l)
        BY <3>1, QueuesThen
      <3> QED
        BY <2>3, <3>2
    <2>5. Parked(Then(x, "lock", None, None, "", l), o)
      BY <1>3, <2>2, ThenParked DEF Kind, Alone
    <2>6. Browsing(obj') /\ Mild(ob, obj', r)
      BY <2>3, QueueMild
    <2> QED
      BY <2>4, <2>5, <2>6 DEF Parks
  <1> QED
    BY <1>1, <1>2, <1>3

\* A change before the parking belongs to it.
LEMMA ParksMild ==
  ASSUME NEW f, NEW g, NEW a, Mild(f, g, a), Parks(g, a)
  PROVE  Parks(f, a)
  BY MildMild DEF Parks

\* A failed attempt parks the request.
LEMMA FailsParks ==
  ASSUME Acting(actor), NEW r \in Actors, actor[r].obj \in Objects, NEW ob, Browsing(ob),
         NEW choices, Fails(r, ob, choices), Alone(actor[r]) => choices = {FALSE}
  PROVE  Parks(ob, r)
  <1> DEFINE o == actor[r].obj
             failed == IF Kind(r) = "custom" THEN ob
                       ELSE [ob EXCEPT ![o].fails = IF @ = 2 THEN 2 ELSE @ + 1]
  <1>1. Browsing(failed) /\ Mild(ob, failed, r)
    <2>1. CASE Kind(r) = "custom"
      BY <2>1, MildSame
    <2>2. CASE Kind(r) # "custom"
      <3>1. PICK v : v = IF ob[o].fails = 2 THEN 2 ELSE ob[o].fails + 1
        OBVIOUS
      <3>2. failed = [ob EXCEPT ![o].fails = v]
        BY <2>2, <3>1
      <3>3. Browsing([ob EXCEPT ![o].fails = v]) /\ Mild(ob, [ob EXCEPT ![o].fails = v], r)
        BY FailsMild
      <3> HIDE DEF failed
      <3> QED
        BY <3>2, <3>3
    <2> QED
      BY <2>1, <2>2
  <1>2. PICK recycles \in choices :
           IF recycles
           THEN /\ obj' = [failed EXCEPT ![o].lock = Append(@, r)]
                /\ actor' = [actor EXCEPT ![r].pc = "purge", ![r].proc = None, ![r].pid = None]
           ELSE Again(r, failed)
    BY DEF Fails
  <1> HIDE DEF failed
  <1>3. CASE recycles
    <2>1. PICK x : x = actor[r]
      OBVIOUS
    <2>2. /\ obj' = [failed EXCEPT ![o].lock = Append(@, r)]
          /\ actor' = [actor EXCEPT ![r].pc = "purge", ![r].proc = None, ![r].pid = None]
      BY <1>2, <1>3
    <2>3. actor' = [actor EXCEPT ![r] = Purges(x)]
      BY <2>1, <2>2 DEF Purges
    <2>4. actor' = [actor EXCEPT ![r] = Then(x, "purge", None, None, x.after, x.left)]
      <3>1. IsActor(x)
        BY <2>1 DEF Acting, Proper
      <3>2. Purges(x) = Then(x, "purge", None, None, x.after, x.left)
        BY <3>1, PurgesThen
      <3> QED
        BY <2>3, <3>2
    <2>5. ~Alone(actor[r])
      BY <1>2, <1>3
    <2>6. Parked(Then(x, "purge", None, None, x.after, x.left), o)
      BY <2>1, <2>5, ThenParked DEF Alone
    <2>7. Browsing(obj') /\ Mild(failed, obj', r)
      BY <1>1, <2>2, QueueMild
    <2>8. Parks(failed, r)
      BY <2>4, <2>6, <2>7 DEF Parks
    <2> QED
      BY <1>1, <2>8, ParksMild
  <1>4. CASE ~recycles
    <2>1. Again(r, failed)
      BY <1>2, <1>4
    <2>2. Parks(failed, r)
      BY <1>1, <2>1, AgainParks
    <2> QED
      BY <1>1, <2>2, ParksMild
  <1> QED
    BY <1>3, <1>4

\* So does a browser that cannot be had.
LEMMA RaisesParks ==
  ASSUME Acting(actor), NEW a \in Actors, actor[a].obj \in Objects, NEW ob, Browsing(ob),
         ~Alone(actor[a]), Led(ob[actor[a].obj].lock, a), Raises(a, ob)
  PROVE  Parks(ob, a)
  <1> DEFINE o == actor[a].obj
  <1>1. PICK freed : freed = [ob EXCEPT ![o].lock = Tail(@)]
    OBVIOUS
  <1>2. Browsing(freed) /\ Mild(ob, freed, a)
    BY <1>1, PopMild
  <1>3. CASE a \in Jobs
    <2>1. obj' = freed /\ actor' = [actor EXCEPT ![a] = Idle]
      BY <1>1, <1>3 DEF Raises
    <2>2. Parked(Idle, o)
      BY IdleParked
    <2> QED
      BY <1>2, <2>1, <2>2 DEF Parks
  <1>4. CASE a \notin Jobs
    <2>1. Fails(a, freed, BOOLEAN)
      BY <1>1, <1>4 DEF Raises
    <2>2. Parks(freed, a)
      BY <1>2, <2>1, FailsParks
    <2> QED
      BY <1>2, <2>2, ParksMild
  <1> QED
    BY <1>3, <1>4

----------------------------------------------------------------------------
\* The parts of the invariant that most steps need.
LEMMA TypedPool ==
  ASSUME AccountsInv
  PROVE  /\ Acting(actor) /\ Browsing(obj) /\ Running(proc) /\ Pooling(pool)
         /\ \A a \in Actors : IsActor(actor[a]) /\ Proper(actor[a])
         /\ \A r \in ServiceCalls : r \in Actors
         /\ \A j \in Jobs : j \in Actors
         /\ \A a \in Actors :
               actor[a].pc \in {"queue", "lock", "launch", "record", "bind", "solve", "close", "purge"}
                  => actor[a].obj \in Objects
         /\ \A p \in Procs : Calm(p) \/ proc' # proc
  BY DEF AccountsInv, Shapes, Acting, Proper, Calm, Actors

\* No process dies.
LEMMA SameProcs ==
  ASSUME AccountsInv, UNCHANGED proc
  PROVE  Running(proc') /\ \A p \in Procs : Calm(p)
  BY TypedPool

\* A step that parks its actor.
LEMMA ParksKeep ==
  ASSUME AccountsInv, NEW a \in Actors, NEW f, Mild(obj, f, a), Parks(f, a), Running(proc'),
         UNCHANGED <<count, pool, toWarm, toRemove>>, \A p \in Procs : Calm(p)
  PROVE  AccountsInv'
  <1>1. PICK q : actor' = [actor EXCEPT ![a] = q] /\ Parked(q, actor[a].obj)
    BY DEF Parks
  <1>2. Browsing(obj') /\ Mild(f, obj', a)
    BY DEF Parks
  <1>3. Mild(obj, obj', a)
    BY <1>2, MildMild
  <1> QED
    BY <1>1, <1>2, <1>3, ParkKeeps

\* A request comes.
LEMMA ArriveKeeps == ASSUME AccountsInv, NEW r \in ServiceCalls, Arrive(r) PROVE AccountsInv'
  <1>1. PICK k \in KindsOf[r] :
          actor' = [actor EXCEPT ![r] = [Idle EXCEPT !.pc = "service", !.kind = k, !.gen = Len(service),
                                                    !.left = MaxAttempts]]
    BY DEF Arrive
  <1>2. PICK g : g = Len(service)
    OBVIOUS
  <1>3. PICK q : q = [Idle EXCEPT !.pc = "service", !.kind = k, !.gen = g, !.left = MaxAttempts]
    OBVIOUS
  <1>4. actor' = [actor EXCEPT ![r] = q]
    BY <1>1, <1>2, <1>3
  <1>5. IsActor(q) /\ q.pc = "service" /\ q.obj = None /\ q.proc = None
    BY <1>3 DEF IsActor, Idle
  <1>6. Parked(q, actor[r].obj)
    BY <1>5 DEF Parked, Proper, Alone, Solving
  <1>7. /\ r \in Actors /\ actor[r].pc = "idle" /\ obj' = obj
        /\ UNCHANGED <<count, pool, toWarm, toRemove, proc>>
    BY DEF Arrive, slotVars, todoVars, Actors
  <1>8. Browsing(obj') /\ Mild(obj, obj', r)
    BY <1>7, TypedPool, MildSame
  <1> QED
    BY <1>4, <1>6, <1>7, <1>8, SameProcs, ParkKeeps

\* An attempt on a browser with a lock fails.
LEMMA FailKeeps ==
  ASSUME AccountsInv, NEW r \in ServiceCalls, actor[r].pc = "solve", Kind(r) \in {"token", "submit"},
         NEW choices, Fails(r, obj, choices), UNCHANGED <<Steady, proc, pidfile, events>>
  PROVE  AccountsInv'
  <1>1. /\ r \in Actors /\ actor[r].obj \in Objects /\ ~Alone(actor[r])
        /\ UNCHANGED <<count, pool, toWarm, toRemove, proc>>
    BY TypedPool DEF Kind, Alone, Steady, todoVars
  <1>2. Parks(obj, r)
    BY <1>1, TypedPool, FailsParks
  <1> QED
    BY <1>1, <1>2, SameProcs, MildSame, ParksKeep

\* An attempt on a browser with a lock succeeds.
LEMMA SucceedsKeeps ==
  ASSUME AccountsInv, NEW r \in ServiceCalls, actor[r].pc = "solve", Kind(r) \in {"token", "submit"},
         Succeeds(r)
  PROVE  AccountsInv'
  <1>1. /\ r \in Actors /\ actor[r].obj \in Objects /\ ~Alone(actor[r])
        /\ UNCHANGED <<count, pool, toWarm, toRemove, proc>>
    BY TypedPool DEF Kind, Alone, Steady, todoVars, Succeeds
  <1> DEFINE o == actor[r].obj
  <1>2. PICK f : f = [obj EXCEPT ![o].fails = 0]
    OBVIOUS
  <1>3. Browsing(f) /\ Mild(obj, f, r)
    BY <1>1, <1>2, TypedPool, FailsMild
  <1>4. obj' = [f EXCEPT ![o].sem = None] /\ Unwind(r, "token")
    BY <1>2 DEF Succeeds, Vacated
  <1>5. Browsing(obj') /\ Mild(f, obj', r)
    BY <1>1, <1>3, <1>4, SemMild
  <1>6. PICK q : q = [Idle EXCEPT !.pc = "token"]
    OBVIOUS
  <1>7. actor' = [actor EXCEPT ![r] = q]
    BY <1>4, <1>6 DEF Unwind
  <1>8. Parked(q, o)
    BY <1>6, IdleParked DEF Outcomes
  <1>9. Parks(f, r)
    BY <1>5, <1>7, <1>8 DEF Parks
  <1> QED
    BY <1>1, <1>3, <1>9, SameProcs, ParksKeep

\* Every end of such an attempt.
LEMMA SolvingKeeps ==
  ASSUME AccountsInv, NEW r \in ServiceCalls,
         TokenSolved(r) \/ TokenFails(r) \/ Posted(r) \/ PostFails(r) \/ PageFails(r)
  PROVE  AccountsInv'
  <1>1. CASE TokenSolved(r)
    BY <1>1, SucceedsKeeps DEF TokenSolved, At
  <1>2. CASE TokenFails(r)
    BY <1>2, FailKeeps DEF TokenFails, At
  <1>3. CASE Posted(r)
    BY <1>3, SucceedsKeeps DEF Posted, At
  <1>4. CASE PostFails(r)
    BY <1>4, FailKeeps DEF PostFails, At
  <1>5. CASE PageFails(r)
    BY <1>5, FailKeeps DEF PageFails
  <1> QED
    BY <1>1, <1>2, <1>3, <1>4, <1>5

\* A temporary browser is closed.
LEMMA LoneCloses ==
  ASSUME AccountsInv, NEW r \in ServiceCalls, At(r, "solve", "custom"), NEW after \in {"token", "attempt", "cut"},
         actor' = [actor EXCEPT ![r].pc = "close", ![r].after = after],
         UNCHANGED <<count, pool, obj, toWarm, toRemove, proc>>
  PROVE  AccountsInv'
  <1>1. PICK x : x = actor[r]
    OBVIOUS
  <1>2. r \in Actors /\ IsActor(x) /\ Proper(x) /\ x.pc = "solve" /\ Alone(x) /\ x.obj \in Objects
    BY <1>1, TypedPool DEF At, Kind, Alone
  <1>3. PICK q : q = Then(x, "close", x.proc, x.pid, after, x.left)
    OBVIOUS
  <1>4. actor' = [actor EXCEPT ![r] = q]
    <2>1. actor' = [actor EXCEPT ![r] = Finishes(x, after)]
      BY <1>1 DEF Finishes
    <2>2. Finishes(x, after) = q
      BY <1>2, <1>3, FinishesThen
    <2> QED
      BY <2>1, <2>2
  <1>5. /\ IsActor(q) /\ q.pc = "close" /\ Alone(q) /\ q.obj = x.obj /\ q.proc = x.proc
        /\ q.after = after
    BY <1>2, <1>3, ThenFields DEF Alone
  <1>6. Proper(q) /\ ~Making(q) /\ ~Locks(q) /\ ~Solving(q)
    BY <1>2, <1>5 DEF Proper, Making, Locks, Solving
  <1>7. Browsing(obj') /\ Mild(obj, obj', r)
    BY TypedPool, MildSame
  <1> QED
    BY <1>1, <1>2, <1>4, <1>5, <1>6, <1>7, SameProcs, QuietKeeps

\* Every end of an attempt on a temporary browser.
LEMMA LoneKeeps == ASSUME AccountsInv, NEW r \in ServiceCalls, LoneSolved(r) \/ LoneFails(r) PROVE AccountsInv'
  BY LoneCloses DEF LoneSolved, LoneFails, FinallyCloses, Steady, todoVars

\* A request gets the semaphore of its slot.
LEMMA TakeSlotKeeps == ASSUME AccountsInv, NEW r \in ServiceCalls, TakeSlot(r) PROVE AccountsInv'
  <1> DEFINE o == actor[r].obj
  <1>1. PICK x : x = actor[r]
    OBVIOUS
  <1>2. r \in Actors /\ IsActor(x) /\ Proper(x) /\ x.pc = "queue" /\ x.obj \in Objects /\ o \in Objects
    BY <1>1, TypedPool DEF TakeSlot
  <1>3. PICK f : f = [obj EXCEPT ![o].sem = r]
    OBVIOUS
  <1>4. Browsing(f) /\ Mild(obj, f, r)
    BY <1>2, <1>3, TypedPool, SemMild
  <1>5. \E c \in {"launch", "lock"} :
           /\ actor' = [actor EXCEPT ![r] = Proceeds(x, c)]
           /\ c = "launch" <=> Alone(x)
           /\ Browsing(obj') /\ Mild(f, obj', r)
    <2>1. CASE Kind(r) = "custom"
      <3>1. obj' = f /\ actor' = [actor EXCEPT ![r] = Proceeds(x, "launch")]
        BY <1>1, <1>3, <2>1 DEF TakeSlot, Proceeds
      <3> QED
        BY <1>1, <1>4, <2>1, <3>1, MildSame DEF Kind, Alone
    <2>2. CASE Kind(r) # "custom"
      <3>1. /\ obj' = [f EXCEPT ![o].lock = Append(@, r)]
            /\ actor' = [actor EXCEPT ![r] = Proceeds(x, "lock")]
        BY <1>1, <1>3, <2>2 DEF TakeSlot, Proceeds
      <3>2. Browsing(obj') /\ Mild(f, obj', r)
        BY <1>2, <1>4, <3>1, QueueMild
      <3> QED
        BY <1>1, <2>2, <3>1, <3>2 DEF Kind, Alone
    <2> QED
      BY <2>1, <2>2
  <1>6. PICK c \in {"launch", "lock"} :
           /\ actor' = [actor EXCEPT ![r] = Proceeds(x, c)]
           /\ c = "launch" <=> Alone(x)
           /\ Browsing(obj') /\ Mild(f, obj', r)
    BY <1>5
  <1>7. PICK q : q = Then(x, c, x.proc, x.pid, x.after, x.left)
    OBVIOUS
  <1>8. actor' = [actor EXCEPT ![r] = q]
    <2>1. Proceeds(x, c) = q
      BY <1>2, <1>7, ProceedsThen
    <2> QED
      BY <1>6, <2>1
  <1>9. IsActor(q) /\ q.pc = c /\ q.kind = x.kind /\ q.obj = x.obj /\ q.proc = x.proc
    BY <1>7, ThenFields
  <1>10. Proper(q) /\ ~Making(q) /\ ~Locks(q) /\ ~Solving(q)
    BY <1>2, <1>6, <1>9 DEF Proper, Making, Locks, Solving, Alone
  <1>11. Mild(obj, obj', r)
    BY <1>4, <1>6, MildMild
  <1>12. UNCHANGED <<count, pool, toWarm, toRemove, proc>>
    BY DEF TakeSlot, todoVars, slotVars
  <1> QED
    BY <1>1, <1>2, <1>6, <1>8, <1>9, <1>10, <1>11, <1>12, SameProcs, QuietKeeps

\* The browser that is there is used.
LEMMA ReusesKeeps == ASSUME AccountsInv, NEW a \in Actors, Reuses(a) PROVE AccountsInv'
  <1> DEFINE o == actor[a].obj
  <1>1. PICK x : x = actor[a]
    OBVIOUS
  <1>2. IsActor(x) /\ Proper(x) /\ x.pc = "lock" /\ x.obj \in Objects /\ o \in Objects /\ ~Alone(x)
    BY <1>1, TypedPool DEF Reuses, Proper
  <1>3. Led(obj[o].lock, a)
    BY HeadedAssumption DEF Reuses, Head1, Led, Actors
  <1>4. Browsing(obj') /\ Mild(obj, obj', a)
    BY <1>2, <1>3, TypedPool, PopMild DEF Reuses
  <1>5. UNCHANGED <<count, pool, toWarm, toRemove, proc>>
    BY DEF Reuses, todoVars, slotVars
  <1>6. obj[o].proc # None /\ proc[obj[o].proc].alive /\ obj[o].bound = Token(a)
    BY DEF Reuses, Unusable
  <1>7. obj[o].proc \in Procs /\ proc[obj[o].proc].cookies = Token(a)
    BY <1>2, <1>6 DEF AccountsInv, Bindings, Bound
  <1>8. CASE a \in Jobs
    <2>1. actor' = [actor EXCEPT ![a] = Idle]
      BY <1>8 DEF Reuses
    <2>2. Parked(Idle, o)
      BY IdleParked
    <2> QED
      BY <1>4, <1>5, <2>1, <2>2, SameProcs, ParkKeeps
  <1>9. CASE a \notin Jobs
    <2>1. PICK p : p = obj[o].proc
      OBVIOUS
    <2>2. PICK q : q = Then(x, "solve", p, x.pid, x.after, x.left)
      OBVIOUS
    <2>3. actor' = [actor EXCEPT ![a] = q]
      <3>1. actor' = [actor EXCEPT ![a] = Works(x, "solve", p)]
        BY <1>1, <1>9, <2>1 DEF Reuses, Works
      <3>2. Works(x, "solve", p) = q
        BY <1>2, <2>2, WorksThen
      <3> QED
        BY <3>1, <3>2
    <2>4. IsActor(q) /\ q.pc = "solve" /\ q.kind = x.kind /\ q.obj = x.obj /\ q.proc = p
      BY <2>2, ThenFields
    <2>5. Proper(q) /\ ~Making(q) /\ ~Locks(q)
      BY <1>2, <1>7, <2>1, <2>4 DEF Proper, Making, Locks, Alone
    <2>6. a \in ServiceCalls => proc'[q.proc].cookies = TokenOf[a]
      BY <1>5, <1>7, <2>1, <2>4 DEF Token
    <2>7. \E u \in Objects : q.proc = obj[u].proc
      BY <1>2, <2>1, <2>4
    <2> QED
      BY <1>4, <1>5, <2>3, <2>5, <2>6, <2>7, SameProcs, QuietKeeps
  <1> QED
    BY <1>8, <1>9

\* Forgetting a browser takes the lock from nobody.
LEMMA ForgetMild ==
  ASSUME Browsing(obj), NEW o \in Objects, NEW a \in Actors
  PROVE  /\ Browsing(ForgetBrowser(o)) /\ Mild(obj, ForgetBrowser(o), a)
         /\ ForgetBrowser(o)[o].lock = obj[o].lock
  <1>1. PICK u : u = obj[o]
    OBVIOUS
  <1>2. IsBrowser(u) /\ u.lock \in Seq(Actors)
    BY <1>1 DEF Browsing
  <1>3. PICK w : w = [u EXCEPT !.proc = None, !.pid = None, !.bound = None, !.fails = 0]
    OBVIOUS
  <1>4. ForgetBrowser(o) = Swap(obj, o, w)
    BY <1>1, <1>3 DEF Swap, ForgetBrowser
  <1>5. PICK A, B, C, D, E, F :
           u \in [sem : A, lock : B, proc : C, bound : D, pid : E, fails : F]
    <2>1. PICK A, B, C : A = {u.sem} /\ B = {u.lock} /\ C = {u.proc}
      OBVIOUS
    <2>2. PICK D, E, F : D = {u.bound} /\ E = {u.pid} /\ F = {u.fails}
      OBVIOUS
    <2>3. u \in [sem : A, lock : B, proc : C, bound : D, pid : E, fails : F]
      BY <1>2, <2>1, <2>2 DEF IsBrowser
    <2> QED
      BY <2>3
  <1>6. w.lock = u.lock /\ w.proc = None /\ w.bound = None
    BY <1>3, <1>5
  <1>7. IsBrowser(w)
    BY <1>3, <1>5 DEF IsBrowser
  <1>8. Tame(obj, o, w, a)
    BY <1>1, <1>2, <1>6, <1>7 DEF Tame, Led
  <1>9. Browsing(Swap(obj, o, w)) /\ Mild(obj, Swap(obj, o, w), a) /\ Swap(obj, o, w)[o] = w
    BY <1>8, Replaced
  <1> QED
    BY <1>1, <1>4, <1>6, <1>9

\* A browser is recycled by the one who has its lock.
LEMMA RecycleKeeps ==
  ASSUME AccountsInv, NEW a \in Actors, actor[a].pc \in {"lock", "purge"}, Head1(actor[a].obj) = a,
         NEW after \in {"create", "attempt"}, Recycle(a, after),
         UNCHANGED <<count, pool, toWarm, toRemove, proc>>
  PROVE  AccountsInv'
  <1> DEFINE o == actor[a].obj
  <1>1. PICK x : x = actor[a]
    OBVIOUS
  <1>2. /\ IsActor(x) /\ Proper(x) /\ x.obj \in Objects /\ o \in Objects /\ ~Alone(x)
        /\ x.pc \in {"lock", "purge"}
    BY <1>1, TypedPool DEF Proper
  <1>3. Led(obj[o].lock, a)
    BY HeadedAssumption DEF Head1, Led, Actors
  <1>4. Browsing(obj') /\ Mild(obj, obj', a) /\ obj'[o].lock = obj[o].lock
    BY <1>2, TypedPool, ForgetMild DEF Recycle
  <1>5. PICK p, i : p = obj[o].proc /\ i = Noted(o)
    OBVIOUS
  <1>6. PICK q : q = Then(x, "close", p, i, after, x.left)
    OBVIOUS
  <1>7. actor' = [actor EXCEPT ![a] = q]
    <2>1. actor' = [actor EXCEPT ![a] = Shuts(x, p, i, after)]
      BY <1>1, <1>5 DEF Recycle, Shuts
    <2>2. Shuts(x, p, i, after) = q
      BY <1>2, <1>6, ShutsThen
    <2> QED
      BY <2>1, <2>2
  <1>8. /\ IsActor(q) /\ q.pc = "close" /\ q.kind = x.kind /\ q.obj = x.obj /\ q.proc = p
        /\ q.pid = i /\ q.after = after
    BY <1>6, ThenFields
  <1>9. Proper(q) /\ ~Making(q) /\ ~Solving(q)
    BY <1>2, <1>8 DEF Proper, Making, Solving, Alone
  <1>10. \E u \in Objects : q.proc = obj[u].proc
    BY <1>2, <1>5, <1>8
  <1>11. q.obj = o /\ Led(obj'[q.obj].lock, a)
    BY <1>1, <1>3, <1>4, <1>8
  <1> QED
    BY <1>4, <1>7, <1>9, <1>10, <1>11, SameProcs, QuietKeeps

\* Every way to recycle a browser.
LEMMA RecyclesKeep ==
  ASSUME AccountsInv, NEW a \in Actors, Discards(a) \/ Purge(a)
  PROVE  AccountsInv'
  <1>1. CASE Discards(a)
    BY <1>1, RecycleKeeps DEF Discards, slotVars, todoVars
  <1>2. CASE Purge(a)
    BY <1>2, RecycleKeeps DEF Purge, slotVars, todoVars
  <1> QED
    BY <1>1, <1>2

\* The account's cookies cannot be set.
LEMMA BindFailsKeeps == ASSUME AccountsInv, NEW a \in Actors, BindFails(a) PROVE AccountsInv'
  <1> DEFINE o == actor[a].obj
  <1>1. PICK x : x = actor[a]
    OBVIOUS
  <1>2. IsActor(x) /\ Proper(x) /\ x.obj \in Objects /\ o \in Objects /\ ~Alone(x) /\ x.pc = "bind"
    BY <1>1, TypedPool DEF Proper, BindFails
  <1>3. Locks(x) /\ Led(obj[o].lock, a)
    BY <1>1, <1>2 DEF AccountsInv, Turns, Locks
  <1>4. PICK i : i = Noted(o)
    OBVIOUS
  <1>5. PICK q : q = Then(x, "close", x.proc, i, "raise", x.left)
    OBVIOUS
  <1>6. actor' = [actor EXCEPT ![a] = q]
    <2>1. actor' = [actor EXCEPT ![a] = Throws(x, i)]
      BY <1>1, <1>4 DEF BindFails, Throws
    <2>2. Throws(x, i) = q
      BY <1>2, <1>5, ThrowsThen
    <2> QED
      BY <2>1, <2>2
  <1>7. /\ IsActor(q) /\ q.pc = "close" /\ q.kind = x.kind /\ q.obj = x.obj /\ q.proc = x.proc
        /\ q.after = "raise"
    BY <1>5, ThenFields
  <1>8. Proper(q) /\ ~Making(q) /\ ~Solving(q)
    BY <1>2, <1>7 DEF Proper, Making, Solving, Alone
  <1>9. UNCHANGED <<count, pool, toWarm, toRemove, proc, obj>>
    BY DEF BindFails, Steady, todoVars
  <1>10. Browsing(obj') /\ Mild(obj, obj', a)
    BY <1>9, TypedPool, MildSame
  <1>11. q.obj = o /\ Led(obj'[q.obj].lock, a)
    BY <1>1, <1>3, <1>7, <1>9
  <1> QED
    BY <1>1, <1>6, <1>7, <1>8, <1>9, <1>10, <1>11, SameProcs, QuietKeeps

\* A job queues for the lock of a TokenBrowser.
LEMMA StartsKeeps ==
  ASSUME AccountsInv, NEW j \in Jobs, actor[j].pc = "idle", NEW kind \in {"reap", "report", "remove"},
         NEW o \in Objects, NEW times, Starts(j, kind, o, times),
         toRemove' \subseteq toRemove, UNCHANGED <<count, pool, toWarm, proc>>
  PROVE  AccountsInv'
  <1>1. PICK q : q = [Idle EXCEPT !.pc = "purge", !.kind = kind, !.obj = o, !.left = times]
    OBVIOUS
  <1>2. actor' = [actor EXCEPT ![j] = q]
    BY <1>1 DEF Starts
  <1>3. IsActor(q) /\ q.pc = "purge" /\ q.kind = kind /\ q.obj = o /\ q.proc = None
    BY <1>1 DEF IsActor, Idle
  <1>4. Proper(q) /\ ~Making(q) /\ ~Locks(q) /\ ~Solving(q)
    BY <1>3 DEF Proper, Making, Locks, Solving, Alone
  <1>5. j \in Actors
    BY TypedPool
  <1>6. Browsing(obj') /\ Mild(obj, obj', j)
    BY <1>5, TypedPool, QueueMild DEF Starts
  <1> QED
    BY <1>2, <1>3, <1>4, <1>5, <1>6, SameProcs, QuietKeeps

\* What is in the pool is a TokenBrowser.
LEMMA PooledAre == AccountsInv => Pooled \subseteq Objects
  BY TypedPool DEF Pooled, Pooling

\* The reaper, an error report, a removal.
LEMMA JobStartsKeep ==
  ASSUME AccountsInv, NEW j \in Jobs, Reap(j) \/ ReportError(j) \/ RemovalStarts(j)
  PROVE  AccountsInv'
  <1>1. CASE Reap(j)
    BY <1>1, StartsKeeps, PooledAre DEF Reap, slotVars, todoVars
  <1>2. CASE ReportError(j)
    BY <1>2, StartsKeeps, PooledAre DEF ReportError, slotVars, todoVars
  <1>3. CASE RemovalStarts(j)
    <2>1. PICK o \in toRemove : Starts(j, "remove", o, 2) /\ toRemove' = toRemove \ {o}
      BY <1>3 DEF RemovalStarts
    <2>2. o \in Objects
      BY DEF AccountsInv, Shapes
    <2> QED
      BY <1>3, <2>1, <2>2, StartsKeeps DEF RemovalStarts, slotVars
  <1> QED
    BY <1>1, <1>2, <1>3

\* The client of a request goes away.
LEMMA DisconnectKeeps == ASSUME AccountsInv, NEW r \in ServiceCalls, Disconnect(r) PROVE AccountsInv'
  <1>1. /\ r \in Actors /\ UNCHANGED <<count, pool, toWarm, toRemove, proc>>
    BY DEF Disconnect, Steady, todoVars, Actors
  <1>2. PICK q : q = [Idle EXCEPT !.pc = "cut"]
    OBVIOUS
  <1>3. Parked(q, actor[r].obj)
    BY <1>2, IdleParked DEF Outcomes
  <1>4. CASE actor[r].pc = "service"
    <2>1. actor' = [actor EXCEPT ![r] = q] /\ obj' = obj
      BY <1>2, <1>4 DEF Disconnect
    <2>2. Browsing(obj') /\ Mild(obj, obj', r)
      BY <2>1, TypedPool, MildSame
    <2> QED
      BY <1>1, <1>3, <2>1, <2>2, SameProcs, ParkKeeps
  <1>5. CASE Lone(r) /\ actor[r].pc = "solve"
    <2>1. actor' = [actor EXCEPT ![r].pc = "close", ![r].after = "cut"] /\ obj' = obj
      BY <1>5 DEF Disconnect
    <2>2. At(r, "solve", "custom")
      BY <1>5 DEF At, Lone
    <2> QED
      BY <1>1, <2>1, <2>2, LoneCloses
  <1>6. CASE ~(actor[r].pc = "service") /\ ~(Lone(r) /\ actor[r].pc = "solve")
    <2>1. actor' = [actor EXCEPT ![r] = q] /\ obj' = Cut(obj, r)
      BY <1>2, <1>6 DEF Disconnect, Unwind
    <2>2. Browsing(obj') /\ Mild(obj, obj', r)
      BY <1>1, <2>1, TypedPool, CutMild
    <2> QED
      BY <1>1, <1>3, <2>1, <2>2, SameProcs, ParkKeeps
  <1> QED
    BY <1>4, <1>5, <1>6

\* A process that is about to be made is nobody's.
LEMMA FreeProcsAre ==
  ASSUME NEW s, NEW p \in FreeProcs(s)
  PROVE  /\ p \in Procs /\ ~proc[p].alive
         /\ \A o \in Objects : obj[o].proc # p
         /\ \A a \in Actors : actor[a].proc # p
  BY DEF FreeProcs, Fresh

\* Killing processes changes no other.
LEMMA KilledRunning ==
  ASSUME Running(proc), NEW ps
  PROVE  /\ Running(KillIn(proc, ps))
         /\ \A p \in Procs : /\ p \in ps => ~KillIn(proc, ps)[p].alive
                             /\ KillIn(proc, ps)[p].alive => /\ proc[p].alive
                                                             /\ KillIn(proc, ps)[p].cookies = proc[p].cookies
                             /\ ~proc[p].alive => ~KillIn(proc, ps)[p].alive
  BY DEF Running, KillIn, NoProc, IsProc

\* A new process, and an actor that makes it.
LEMMA LaunchedFacts ==
  ASSUME AccountsInv, NEW a \in Actors, actor[a].pc \in {"lock", "launch"}, Launched(a, proc)
  PROVE  \E m, q :
            /\ m \in FreeProcs(SlotOf(a)) /\ actor' = [actor EXCEPT ![a] = q] /\ IsActor(q) /\ Proper(q)
            /\ q.pc = "record" /\ q.kind = actor[a].kind /\ q.obj = actor[a].obj /\ q.proc = m
            /\ Running(proc') /\ proc'[m].cookies = None
            /\ \A p \in Procs : p # m => Calm(p)
  <1>1. PICK m \in FreeProcs(SlotOf(a)) :
          /\ proc' = [proc EXCEPT ![m].alive = TRUE]
          /\ actor' = [actor EXCEPT ![a].pc = "record", ![a].proc = m]
    BY DEF Launched
  <1>2. PICK x : x = actor[a]
    OBVIOUS
  <1>3. IsActor(x) /\ Proper(x) /\ x.obj \in Objects
    BY <1>2, TypedPool
  <1>4. PICK q : q = Then(x, "record", m, x.pid, x.after, x.left)
    OBVIOUS
  <1>5. actor' = [actor EXCEPT ![a] = q]
    <2>1. actor' = [actor EXCEPT ![a] = Works(x, "record", m)]
      BY <1>1, <1>2 DEF Works
    <2>2. Works(x, "record", m) = q
      BY <1>3, <1>4, WorksThen
    <2> QED
      BY <2>1, <2>2
  <1>6. IsActor(q) /\ q.pc = "record" /\ q.kind = x.kind /\ q.obj = x.obj /\ q.proc = m
    BY <1>4, ThenFields
  <1>7. Proper(q)
    BY <1>3, <1>6 DEF Proper, Solving, Alone
  <1>8. m \in Procs /\ ~proc[m].alive /\ Running(proc)
    BY FreeProcsAre, TypedPool
  <1>9. /\ proc'[m].cookies = None /\ IsProc(proc'[m]) /\ (proc'[m].alive \/ proc'[m].cookies = None)
        /\ \A p \in Procs : p # m => proc'[p] = proc[p]
        /\ proc' = [p \in Procs |-> proc'[p]]
    <2>1. PICK u : u = proc[m]
      OBVIOUS
    <2>2. IsProc(u) /\ u.cookies = None
      BY <1>8, <2>1 DEF Running
    <2>3. PICK A, B : u \in [alive : A, cookies : B]
      <3>1. PICK A, B : A = {u.alive} /\ B = {u.cookies}
        OBVIOUS
      <3>2. u \in [alive : A, cookies : B]
        BY <2>2, <3>1 DEF IsProc
      <3> QED
        BY <3>2
    <2>4. PICK w : w = [u EXCEPT !.alive = TRUE]
      OBVIOUS
    <2>5. IsProc(w) /\ w.cookies = None
      BY <2>2, <2>3, <2>4 DEF IsProc
    <2>6. proc' = [proc EXCEPT ![m] = w]
      BY <1>1, <2>1, <2>4
    <2>7. /\ proc'[m] = w /\ \A p \in Procs : p # m => proc'[p] = proc[p]
          /\ proc' = [p \in Procs |-> proc'[p]]
      BY <1>8, <2>6 DEF Running
    <2> QED
      BY <2>5, <2>7
  <1>10. Running(proc')
    BY <1>8, <1>9 DEF Running
  <1>11. \A p \in Procs : p # m => Calm(p)
    BY <1>9 DEF Calm
  <1> QED
    BY <1>1, <1>2, <1>5, <1>6, <1>7, <1>9, <1>10, <1>11

\* A temporary browser is launched.
LEMMA LaunchLoneKeeps == ASSUME AccountsInv, NEW r \in ServiceCalls, LaunchLone(r) PROVE AccountsInv'
  <1>1. r \in Actors /\ actor[r].pc = "launch" /\ Launched(r, proc)
    BY TypedPool DEF LaunchLone
  <1>2. UNCHANGED <<count, pool, toWarm, toRemove, obj>>
    BY DEF LaunchLone, Steady, todoVars
  <1>3. PICK m, q :
            /\ m \in FreeProcs(SlotOf(r)) /\ actor' = [actor EXCEPT ![r] = q] /\ IsActor(q) /\ Proper(q)
            /\ q.pc = "record" /\ q.kind = actor[r].kind /\ q.obj = actor[r].obj /\ q.proc = m
            /\ Running(proc') /\ proc'[m].cookies = None
            /\ \A p \in Procs : p # m => Calm(p)
    BY <1>1, LaunchedFacts
  <1>4. m # None /\ Own(r, m) /\ \A u \in Objects : obj'[u].proc # m
    BY <1>2, <1>3, FreeProcsAre, SlotsOf DEF Own
  <1>5. Alone(q) /\ ~Locks(q) /\ ~Solving(q)
    BY <1>1, <1>3, TypedPool DEF Alone, Locks, Solving, Proper
  <1>6. Shapes'
    <2>1. Acting(actor')
      BY <1>1, <1>3, TypedPool, ActingKept
    <2> QED
      BY <1>2, <1>3, <2>1 DEF AccountsInv, Shapes, Browsing, Pooling
  <1>7. \A b \in Actors \ {r} : Locks(actor[b]) => Led(obj'[actor[b].obj].lock, b)
    BY <1>2 DEF AccountsInv, Turns
  <1>8. \A u \in Objects : obj'[u].proc = obj[u].proc /\ obj'[u].bound = obj[u].bound
    BY <1>2
  <1>9. \A p \in Procs : p # m => Calm(p)
    BY <1>3
  <1>10. q.proc = m /\ proc'[m].cookies = None /\ actor' = [actor EXCEPT ![r] = q]
    BY <1>3
  <1> QED
    BY <1>1, <1>4, <1>5, <1>6, <1>7, <1>8, <1>9, <1>10, AccountsKept

\* Whoever else has a lock keeps it.
LEMMA OthersLead ==
  ASSUME AccountsInv, NEW a \in Actors, Mild(obj, obj', a)
  PROVE  \A b \in Actors \ {a} : Locks(actor[b]) => Led(obj'[actor[b].obj].lock, b)
  <1> SUFFICES ASSUME NEW b \in Actors \ {a}, Locks(actor[b]) PROVE Led(obj'[actor[b].obj].lock, b)
    OBVIOUS
  <1>1. actor[b].obj \in Objects
    BY TypedPool DEF Locks
  <1>2. Led(obj[actor[b].obj].lock, b)
    BY DEF AccountsInv, Turns
  <1> QED
    BY <1>1, <1>2 DEF Mild, Led

\* Erasing the pid file of a slot does nothing to its TokenBrowsers that matters.
LEMMA EraseStaleMild ==
  ASSUME Browsing(obj), NEW a \in Actors, actor[a].obj \in Objects, EraseStale(a)
  PROVE  Browsing(obj') /\ Mild(obj, obj', a) /\ obj'[actor[a].obj].lock = obj[actor[a].obj].lock
  <1>1. CASE pidfile[SlotOf(a)] = None
    BY <1>1, MildSame DEF EraseStale
  <1>2. CASE pidfile[SlotOf(a)] # None
    BY <1>2, PidMild DEF EraseStale
  <1> QED
    BY <1>1, <1>2

\* A slot's browser is launched.
LEMMA CreatesKeeps == ASSUME AccountsInv, NEW a \in Actors, Creates(a) PROVE AccountsInv'
  <1> DEFINE o == actor[a].obj
  <1>1. actor[a].pc = "lock" /\ o \in Objects /\ ~Alone(actor[a]) /\ obj[o].proc = None
    BY TypedPool DEF Creates, Proper
  <1>2. Led(obj[o].lock, a)
    BY HeadedAssumption DEF Creates, Head1, Led, Actors
  <1>3. UNCHANGED <<count, pool, toWarm, toRemove>>
    BY DEF Creates, Steady, todoVars
  <1>4. Launched(a, proc) /\ EraseStale(a)
    BY DEF Creates
  <1>5. PICK m, q :
            /\ m \in FreeProcs(SlotOf(a)) /\ actor' = [actor EXCEPT ![a] = q] /\ IsActor(q) /\ Proper(q)
            /\ q.pc = "record" /\ q.kind = actor[a].kind /\ q.obj = o /\ q.proc = m
            /\ Running(proc') /\ proc'[m].cookies = None
            /\ \A p \in Procs : p # m => Calm(p)
    BY <1>1, <1>4, LaunchedFacts
  <1>6. Browsing(obj') /\ Mild(obj, obj', a) /\ obj'[o].lock = obj[o].lock
    BY <1>1, <1>4, TypedPool, EraseStaleMild
  <1>7. obj'[o].proc = None
    BY <1>1, <1>6 DEF Mild
  <1>8. m # None /\ Own(a, m)
    BY <1>5, FreeProcsAre, SlotsOf DEF Own
  <1>9. \A u \in Objects : obj'[u].proc # m
    BY <1>5, <1>6, <1>8, FreeProcsAre DEF Mild
  <1>10. ~Alone(q) /\ ~Solving(q)
    BY <1>1, <1>5 DEF Alone, Solving
  <1>11. Shapes'
    <2>1. Acting(actor')
      BY <1>5, TypedPool, ActingKept
    <2> QED
      BY <1>3, <1>5, <1>6, <2>1 DEF AccountsInv, Shapes, Pooling
  <1>12. \A b \in Actors \ {a} : Locks(actor[b]) => Led(obj'[actor[b].obj].lock, b)
    BY <1>6, OthersLead
  <1>13. \A u \in Objects : \/ obj'[u].proc = obj[u].proc /\ obj'[u].bound = obj[u].bound
                            \/ obj'[u].proc = None /\ obj'[u].bound = None
    BY <1>6 DEF Mild
  <1>14. q.proc = m /\ q.obj = o /\ proc'[m].cookies = None /\ actor' = [actor EXCEPT ![a] = q]
    BY <1>5
  <1>15. \A p \in Procs : p # m => Calm(p)
    BY <1>5
  <1>16. Led(obj'[q.obj].lock, a) /\ obj'[q.obj].proc = None
    BY <1>2, <1>6, <1>7, <1>14
  <1> QED
    BY <1>8, <1>9, <1>10, <1>11, <1>12, <1>13, <1>14, <1>15, <1>16, AccountsKept

\* What is known of a process that is being made.
LEMMA MadeFacts ==
  ASSUME AccountsInv, NEW a \in Actors, Making(actor[a])
  PROVE  /\ actor[a].obj \in Objects
         /\ actor[a].proc \in Procs /\ actor[a].proc # None
         /\ proc[actor[a].proc].cookies = None
         /\ Own(a, actor[a].proc)
         /\ ~Alone(actor[a]) =>
               /\ Locks(actor[a]) /\ Led(obj[actor[a].obj].lock, a)
               /\ obj[actor[a].obj].proc = None /\ obj[actor[a].obj].bound = None
  <1>1. actor[a].obj \in Objects
    BY TypedPool DEF Making
  <1>2. Makes(a)
    BY DEF AccountsInv, Makers
  <1>3. ~Alone(actor[a]) => Locks(actor[a])
    BY DEF Making, Locks
  <1>4. ~Alone(actor[a]) => obj[actor[a].obj].bound = None
    BY <1>1, <1>2 DEF AccountsInv, Bindings, Bound, Makes
  <1> QED
    BY <1>1, <1>2, <1>3, <1>4, SlotsOf DEF Makes, Own, AccountsInv, Turns

\* A launch fails.
LEMMA LaunchFailsKeeps == ASSUME AccountsInv, NEW a \in Actors, LaunchFails(a) PROVE AccountsInv'
  <1> DEFINE o == actor[a].obj
             m == actor[a].proc
  <1>1. actor[a].pc = "record" /\ Making(actor[a]) /\ o \in Objects
    BY TypedPool DEF LaunchFails, Making
  <1>2. UNCHANGED <<count, pool, toWarm, toRemove>> /\ proc' = KillIn(proc, {m})
    BY DEF LaunchFails, Steady, todoVars
  <1>3. Running(proc') /\ \A p \in Procs : Calm(p)
    BY <1>2, TypedPool, KilledRunning DEF Calm
  <1>4. CASE Lone(a)
    <2>1. Fails(a, obj, {FALSE})
      BY <1>4 DEF LaunchFails
    <2>2. Parks(obj, a)
      BY <1>1, <2>1, TypedPool, FailsParks
    <2> QED
      BY <1>2, <1>3, <2>2, MildSame, ParksKeep
  <1>5. CASE ~Lone(a)
    <2>1. PICK f : f = [obj EXCEPT ![o].pid = None]
      OBVIOUS
    <2>2. Raises(a, f)
      BY <1>5, <2>1 DEF LaunchFails
    <2>3. Browsing(f) /\ Mild(obj, f, a) /\ f[o].lock = obj[o].lock
      BY <1>1, <2>1, TypedPool, PidMild
    <2>4. ~Alone(actor[a])
      BY <1>5 DEF Lone, Kind, Alone
    <2>5. Led(f[o].lock, a)
      BY <1>1, <2>3, <2>4, MadeFacts
    <2>6. Parks(f, a)
      BY <1>1, <2>2, <2>3, <2>4, <2>5, TypedPool, RaisesParks
    <2> QED
      BY <1>2, <1>3, <2>3, <2>6, ParksKeep
  <1> QED
    BY <1>4, <1>5

\* A pid is noted, or none.
LEMMA RecordKeeps == ASSUME AccountsInv, NEW a \in Actors, Record(a) PROVE AccountsInv'
  <1>0. PICK o, m : o = actor[a].obj /\ m = actor[a].proc
    OBVIOUS
  <1>1. actor[a].pc = "record" /\ Making(actor[a])
    BY DEF Record, Making
  <1>2. UNCHANGED <<count, pool, toWarm, toRemove, proc>>
    BY DEF Record, Steady, todoVars
  <1>3. PICK x : x = actor[a]
    OBVIOUS
  <1>4. IsActor(x) /\ Proper(x) /\ o \in Objects
    BY <1>0, <1>1, <1>3, TypedPool DEF Making
  <1>5. CASE Lone(a)
    <2>1. obj' = obj /\ actor' = [actor EXCEPT ![a] = Proceeds(x, "solve")]
      BY <1>3, <1>5 DEF Record, Go, Proceeds
    <2>2. PICK q : q = Then(x, "solve", x.proc, x.pid, x.after, x.left)
      OBVIOUS
    <2>3. Proceeds(x, "solve") = q
      BY <1>4, <2>2, ProceedsThen
    <2>4. actor' = [actor EXCEPT ![a] = q]
      BY <2>1, <2>3
    <2>5. IsActor(q) /\ q.pc = "solve" /\ q.kind = x.kind /\ q.obj = x.obj /\ q.proc = x.proc
      BY <2>2, ThenFields
    <2>6. Proper(q) /\ ~Making(q) /\ ~Locks(q) /\ ~Solving(q)
      BY <1>0, <1>1, <1>3, <1>4, <1>5, <2>5 DEF Proper, Making, Locks, Solving, Alone, Lone, Kind
    <2>7. Browsing(obj') /\ Mild(obj, obj', a)
      BY <2>1, TypedPool, MildSame
    <2> QED
      BY <1>2, <1>3, <2>1, <2>4, <2>5, <2>6, <2>7, SameProcs, QuietKeeps
  <1>6. CASE ~Lone(a)
    <2>1. ~Alone(actor[a])
      BY <1>6 DEF Alone, Lone, Kind
    <2>2. PICK i : obj' = [obj EXCEPT ![o].pid = i]
      BY <1>0, <1>6 DEF Record
    <2>3. PICK q : q = Then(x, "bind", x.proc, x.pid, x.after, x.left)
      OBVIOUS
    <2>4. actor' = [actor EXCEPT ![a] = q]
      <3>1. actor' = [actor EXCEPT ![a] = Proceeds(x, "bind")]
        BY <1>3, <1>6 DEF Record, Go, Proceeds
      <3>2. Proceeds(x, "bind") = q
        BY <1>4, <2>3, ProceedsThen
      <3> QED
        BY <3>1, <3>2
    <2>5. IsActor(q) /\ q.pc = "bind" /\ q.kind = x.kind /\ q.obj = o /\ q.proc = m
      BY <1>0, <1>3, <2>3, ThenFields
    <2>6. Proper(q) /\ ~Solving(q) /\ ~Alone(q)
      BY <1>3, <1>4, <2>1, <2>5 DEF Proper, Solving, Alone
    <2>7. /\ Browsing(obj')
          /\ \A u \in Objects : /\ obj'[u].lock = obj[u].lock /\ obj'[u].proc = obj[u].proc
                                /\ obj'[u].bound = obj[u].bound
      <3>1. PICK u : u = obj[o]
        OBVIOUS
      <3>2. PICK w : w = [u EXCEPT !.pid = i]
        OBVIOUS
      <3>3. obj' = [obj EXCEPT ![o] = w]
        BY <2>2, <3>1, <3>2
      <3>4. IsBrowser(u)
        BY <1>4, <3>1, TypedPool DEF Browsing
      <3>5. IsBrowser(w) /\ w.lock = u.lock /\ w.proc = u.proc /\ w.bound = u.bound
        BY <3>2, <3>4 DEF IsBrowser
      <3> QED
        BY <1>4, <3>1, <3>3, <3>5, TypedPool DEF Browsing
    <2>8. /\ m # None /\ proc[m].cookies = None /\ Own(a, m)
          /\ Led(obj[o].lock, a) /\ obj[o].proc = None
      BY <1>0, <1>1, <2>1, MadeFacts
    <2>9. Shapes'
      <3>1. Acting(actor')
        BY <2>4, <2>6, TypedPool, ActingKept
      <3> QED
        BY <1>2, <2>7, <3>1 DEF AccountsInv, Shapes, Running, Pooling
    <2>10. \A b \in Actors \ {a} : Locks(actor[b]) => Led(obj'[actor[b].obj].lock, b)
      BY <2>7, TypedPool DEF AccountsInv, Turns, Locks
    <2>11. /\ Led(obj'[q.obj].lock, a) /\ obj'[q.obj].proc = None /\ proc'[m].cookies = None /\ q.proc = m
           /\ \A u \in Objects : obj'[u].proc # m
      BY <1>2, <1>4, <2>5, <2>7, <2>8 DEF Own
    <2>12. \A p \in Procs : p # m => Calm(p)
      BY <1>2 DEF Calm
    <2>13. \A u \in Objects : obj'[u].proc = obj[u].proc /\ obj'[u].bound = obj[u].bound
      BY <2>7
    <2> QED
      BY <2>4, <2>6, <2>8, <2>9, <2>10, <2>11, <2>12, <2>13, AccountsKept
  <1> QED
    BY <1>5, <1>6

\* The browser gets the account's cookies.
LEMMA BindKeeps == ASSUME AccountsInv, NEW a \in Actors, Bind(a) PROVE AccountsInv'
  <1>0. PICK o, m, k : o = actor[a].obj /\ m = actor[a].proc /\ k = Token(a)
    OBVIOUS
  <1>1. actor[a].pc = "bind" /\ Making(actor[a]) /\ ~Alone(actor[a]) /\ o \in Objects
    BY <1>0, TypedPool DEF Bind, Making, Proper
  <1>2. UNCHANGED <<count, pool, toWarm, toRemove>>
    BY DEF Bind, Steady, todoVars
  <1>3. /\ m \in Procs /\ m # None /\ proc[m].cookies = None /\ Own(a, m)
        /\ Led(obj[o].lock, a) /\ obj[o].proc = None /\ obj[o].bound = None
    BY <1>0, <1>1, MadeFacts
  <1>4. PICK x : x = actor[a]
    OBVIOUS
  <1>5. IsActor(x) /\ Proper(x)
    BY <1>4, TypedPool
  \* The TokenBrowser.
  <1>6. /\ Browsing(obj') /\ obj'[o].proc = m /\ obj'[o].bound = k
        /\ \A u \in Objects : u # o => obj'[u] = obj[u]
    <2>1. PICK u, l : u = obj[o] /\ l = Tail(obj[o].lock)
      OBVIOUS
    <2>2. PICK w : w = [u EXCEPT !.bound = k, !.proc = m, !.lock = l]
      OBVIOUS
    <2>3. obj' = [obj EXCEPT ![o] = w]
      BY <1>0, <2>1, <2>2 DEF Bind
    <2>4. IsBrowser(u) /\ l \in Seq(Actors)
      BY <1>1, <1>3, <2>1, TypedPool DEF Browsing, Led
    <2>5. PICK A, B, C, D, E, F :
             u \in [sem : A, lock : B, proc : C, bound : D, pid : E, fails : F]
      <3>1. PICK A, B, C : A = {u.sem} /\ B = {u.lock} /\ C = {u.proc}
        OBVIOUS
      <3>2. PICK D, E, F : D = {u.bound} /\ E = {u.pid} /\ F = {u.fails}
        OBVIOUS
      <3>3. u \in [sem : A, lock : B, proc : C, bound : D, pid : E, fails : F]
        BY <2>4, <3>1, <3>2 DEF IsBrowser
      <3> QED
        BY <3>3
    <2>6. w.lock = l /\ w.proc = m /\ w.bound = k
      BY <2>2, <2>5
    <2>7. IsBrowser(w)
      BY <2>2, <2>5 DEF IsBrowser
    <2> QED
      BY <1>1, <2>1, <2>3, <2>4, <2>6, <2>7, TypedPool DEF Browsing
  \* The process.
  <1>7. /\ Running(proc') /\ (\A p \in Procs : p # m => Calm(p))
        /\ proc'[m].alive => proc'[m].cookies = k
    <2>1. CASE k = None \/ obj[o].bound = k
      <3>1. proc' = proc /\ k = None
        BY <1>0, <1>3, <2>1 DEF Bind
      <3> QED
        BY <1>3, <3>1, TypedPool DEF Calm
    <2>2. CASE ~(k = None \/ obj[o].bound = k)
      <3>1. PICK c : c = IF proc[m].cookies = None /\ proc[m].alive THEN k ELSE proc[m].cookies
        OBVIOUS
      <3>2. PICK u : u = proc[m]
        OBVIOUS
      <3>3. IsProc(u) /\ (u.alive \/ u.cookies = None)
        BY <1>3, <3>2, TypedPool DEF Running
      <3>4. PICK w : w = [u EXCEPT !.cookies = c]
        OBVIOUS
      <3>5. proc' = [proc EXCEPT ![m] = w]
        BY <1>0, <2>2, <3>1, <3>2, <3>4 DEF Bind
      <3>6. IsProc(w) /\ w.cookies = c /\ w.alive = u.alive
        <4>1. PICK A, B : A = {u.alive} /\ B = {u.cookies}
          OBVIOUS
        <4>2. u \in [alive : A, cookies : B]
          BY <3>3, <4>1 DEF IsProc
        <4>3. w.cookies = c /\ w.alive = u.alive
          BY <3>4, <4>2
        <4>4. IsProc(w)
          BY <3>4, <4>2 DEF IsProc
        <4> QED
          BY <4>3, <4>4
      <3>7. /\ proc'[m] = w /\ \A p \in Procs : p # m => proc'[p] = proc[p]
            /\ proc' = [p \in Procs |-> proc'[p]]
        BY <1>3, <3>5, TypedPool DEF Running
      <3>8. (w.alive => w.cookies = k) /\ (w.alive \/ w.cookies = None)
        BY <1>3, <3>1, <3>2, <3>3, <3>6
      <3>9. Running(proc')
        BY <3>6, <3>7, <3>8, TypedPool DEF Running
      <3>10. \A p \in Procs : p # m => Calm(p)
        BY <3>7 DEF Calm
      <3> QED
        BY <3>7, <3>8, <3>9, <3>10
    <2> QED
      BY <2>1, <2>2
  \* The actor.
  <1>8. PICK q : /\ actor' = [actor EXCEPT ![a] = q] /\ Proper(q) /\ ~Making(q) /\ ~Locks(q)
                 /\ q.proc \in {None, m} /\ (Solving(q) => q.proc = m)
    <2>1. CASE a \in Jobs
      <3>1. actor' = [actor EXCEPT ![a] = Idle]
        BY <2>1 DEF Bind
      <3>2. Parked(Idle, o)
        BY IdleParked
      <3> QED
        BY <3>1, <3>2 DEF Parked, Making, Locks, Solving
    <2>2. CASE a \notin Jobs
      <3>1. actor' = [actor EXCEPT ![a] = Proceeds(x, "solve")]
        BY <1>4, <2>2 DEF Bind, Proceeds
      <3>2. PICK q : q = Then(x, "solve", x.proc, x.pid, x.after, x.left)
        OBVIOUS
      <3>3. Proceeds(x, "solve") = q
        BY <1>5, <3>2, ProceedsThen
      <3>4. IsActor(q) /\ q.pc = "solve" /\ q.kind = x.kind /\ q.obj = x.obj /\ q.proc = x.proc
        BY <3>2, ThenFields
      <3>5. Proper(q) /\ ~Making(q) /\ ~Locks(q)
        BY <1>0, <1>1, <1>3, <1>4, <3>4 DEF Proper, Making, Locks, Alone
      <3> QED
        BY <1>0, <1>4, <3>1, <3>3, <3>4, <3>5
    <2> QED
      BY <2>1, <2>2
  <1>9. Shapes'
    <2>1. Acting(actor')
      BY <1>8, TypedPool, ActingKept
    <2> QED
      BY <1>2, <1>6, <1>7, <2>1 DEF AccountsInv, Shapes, Pooling
  <1>10. ASSUME NEW b \in Actors \ {a}, Locks(actor[b]) PROVE Led(obj'[actor[b].obj].lock, b)
    <2>1. Led(obj[actor[b].obj].lock, b) /\ actor[b].obj \in Objects
      BY <1>10, TypedPool DEF AccountsInv, Turns, Locks
    <2>2. actor[b].obj # o
      BY <1>3, <1>10, <2>1 DEF Led
    <2> QED
      BY <1>6, <2>1, <2>2
  <1>11. \A u \in Objects :
            \/ obj'[u].proc = obj[u].proc /\ obj'[u].bound = obj[u].bound
            \/ /\ m # None /\ u = actor[a].obj /\ Led(obj[u].lock, a) /\ obj'[u].proc = m
               /\ proc'[m].alive => proc'[m].cookies = obj'[u].bound
    BY <1>0, <1>3, <1>6, <1>7
  <1>12. a \in ServiceCalls /\ Solving(q) /\ proc'[q.proc].alive => proc'[q.proc].cookies = TokenOf[a]
    BY <1>0, <1>7, <1>8 DEF Token
  <1>13. \A p \in Procs : p # m => Calm(p)
    BY <1>7
  <1> QED
    BY <1>3, <1>8, <1>9, <1>10, <1>11, <1>12, <1>13, AccountsKept

\* A browser is closed.
LEMMA ClosedKeeps == ASSUME AccountsInv, NEW a \in Actors, Closed(a) PROVE AccountsInv'
  <1>0. PICK o, m, i, after : /\ o = actor[a].obj /\ m = actor[a].proc /\ i = actor[a].pid
                              /\ after = actor[a].after
    OBVIOUS
  <1>1. actor[a].pc = "close" /\ o \in Objects /\ actor[a].obj \in Objects
    BY <1>0, TypedPool DEF Closed
  <1>2. UNCHANGED <<count, pool, toWarm, toRemove>>
    BY DEF Closed, Steady, todoVars
  <1>3. proc' = KillIn(proc, {m, i})
    BY <1>0 DEF Closed
  <1>4. Running(proc') /\ \A p \in Procs : Calm(p)
    BY <1>3, TypedPool, KilledRunning DEF Calm
  <1>5. PICK x : x = actor[a]
    OBVIOUS
  <1>6. IsActor(x) /\ Proper(x) /\ x.obj \in Objects
    BY <1>1, <1>5, TypedPool
  <1>7. CASE Lone(a)
    <2>1. after \in {"attempt", "token", "cut"}
      BY <1>0, <1>1, <1>7, TypedPool DEF Proper, Alone, Lone, Kind
    <2>2. \/ after = "attempt" /\ Fails(a, obj, {FALSE})
          \/ after # "attempt" /\ Unwind(a, after) /\ obj' = Vacated(obj, o)
      BY <1>0, <1>7 DEF Closed
    <2>3. Parks(obj, a)
      <3>1. CASE after = "attempt" /\ Fails(a, obj, {FALSE})
        BY <1>1, <3>1, TypedPool, FailsParks
      <3>2. CASE after # "attempt" /\ Unwind(a, after) /\ obj' = Vacated(obj, o)
        <4>1. PICK q : q = [Idle EXCEPT !.pc = after]
          OBVIOUS
        <4>2. actor' = [actor EXCEPT ![a] = q]
          BY <3>2, <4>1 DEF Unwind
        <4>3. Parked(q, actor[a].obj)
          BY <2>1, <3>2, <4>1, IdleParked DEF Outcomes
        <4>4. Browsing(obj') /\ Mild(obj, obj', a)
          BY <1>1, <3>2, TypedPool, SemMild DEF Vacated
        <4> QED
          BY <4>2, <4>3, <4>4 DEF Parks
      <3> QED
        BY <2>2, <3>1, <3>2
    <2> QED
      BY <1>2, <1>4, <2>3, MildSame, ParksKeep
  <1>8. CASE ~Lone(a)
    <2>1. ~Alone(actor[a]) /\ ~Alone(x) /\ Locks(actor[a])
      BY <1>1, <1>5, <1>8 DEF Alone, Lone, Kind, Locks
    <2>2. Led(obj[o].lock, a)
      BY <1>0, <2>1 DEF AccountsInv, Turns
    <2>3. PICK gone : gone = [obj EXCEPT ![o].pid = None]
      OBVIOUS
    <2>4. Browsing(gone) /\ Mild(obj, gone, a) /\ gone[o].lock = obj[o].lock
      BY <1>1, <2>3, TypedPool, PidMild
    <2>5. PICK freed : freed = [gone EXCEPT ![o].lock = Tail(@)]
      OBVIOUS
    <2>6. Browsing(freed) /\ Mild(gone, freed, a)
      BY <1>1, <2>2, <2>4, <2>5, PopMild
    <2>7. Parks(gone, a)
      <3>1. CASE /\ after = "create" /\ obj' = gone
                 /\ actor' = [actor EXCEPT ![a] = [@ EXCEPT !.pc = "lock", !.proc = None,
                                                            !.pid = None, !.after = ""]]
        <4>1. actor' = [actor EXCEPT ![a] = Relocks(x)]
          BY <1>5, <3>1 DEF Relocks
        <4>2. Relocks(x) = Then(x, "lock", None, None, "", x.left)
          BY <1>6, RelocksThen
        <4>3. Parked(Then(x, "lock", None, None, "", x.left), x.obj)
          BY <1>6, <2>1, ThenParked
        <4>4. Browsing(obj') /\ Mild(gone, obj', a)
          BY <2>4, <3>1, MildSame
        <4> QED
          BY <1>5, <4>1, <4>2, <4>3, <4>4 DEF Parks
      <3>2. CASE Raises(a, gone)
        <4>1. Led(gone[actor[a].obj].lock, a)
          BY <1>0, <2>2, <2>4
        <4> QED
          BY <1>1, <2>1, <2>4, <3>2, <4>1, TypedPool, RaisesParks
      <3>3. CASE Again(a, freed)
        <4>1. Parks(freed, a)
          BY <1>1, <2>6, <3>3, TypedPool, AgainParks
        <4> QED
          BY <2>6, <4>1, ParksMild
      <3>4. CASE /\ obj' = [freed EXCEPT ![o].lock = Append(@, a)]
                 /\ actor' = [actor EXCEPT ![a].pc = "purge", ![a].left = @ - 1,
                                           ![a].proc = None, ![a].pid = None]
        <4>1. PICK l : l = x.left - 1
          OBVIOUS
        <4>2. actor' = [actor EXCEPT ![a] = Repeats(x, l)]
          BY <1>5, <3>4, <4>1 DEF Repeats
        <4>3. Repeats(x, l) = Then(x, "purge", None, None, x.after, l)
          BY <1>6, RepeatsThen
        <4>4. Parked(Then(x, "purge", None, None, x.after, l), x.obj)
          BY <1>6, <2>1, ThenParked
        <4>5. Browsing(obj') /\ Mild(freed, obj', a)
          BY <1>1, <2>6, <3>4, QueueMild
        <4>6. Parks(freed, a)
          BY <1>5, <4>2, <4>3, <4>4, <4>5 DEF Parks
        <4> QED
          BY <2>6, <4>6, ParksMild
      <3>5. CASE obj' = freed /\ actor' = [actor EXCEPT ![a] = Idle]
        <4>1. Parked(Idle, actor[a].obj)
          BY IdleParked
        <4> QED
          BY <2>6, <3>5, <4>1 DEF Parks
      <3>6. \/ /\ after = "create" /\ obj' = gone
               /\ actor' = [actor EXCEPT ![a] = [@ EXCEPT !.pc = "lock", !.proc = None,
                                                          !.pid = None, !.after = ""]]
            \/ Raises(a, gone) \/ Again(a, freed)
            \/ /\ obj' = [freed EXCEPT ![o].lock = Append(@, a)]
               /\ actor' = [actor EXCEPT ![a].pc = "purge", ![a].left = @ - 1,
                                         ![a].proc = None, ![a].pid = None]
            \/ obj' = freed /\ actor' = [actor EXCEPT ![a] = Idle]
        BY <1>0, <1>8, <2>3, <2>5 DEF Closed
      <3> QED
        BY <3>1, <3>2, <3>3, <3>4, <3>5, <3>6
    <2> QED
      BY <1>2, <1>4, <2>4, <2>7, ParksKeep
  <1> QED
    BY <1>7, <1>8

----------------------------------------------------------------------------
\* A slot gets a new TokenBrowser.
LEMMA FreeObjectsAre ==
  ASSUME NEW s, NEW o \in FreeObjects(s)
  PROVE  o \in Objects /\ Slot(o) = s /\ \A a \in Actors : actor[a].obj # o
  BY DEF FreeObjects, Fresh

\* An actor gets a slot's new TokenBrowser.
LEMMA NewKeeps ==
  ASSUME AccountsInv, NEW a \in Actors, NEW q, actor' = [actor EXCEPT ![a] = q], Proper(q),
         NEW s \in Slots, NEW o \in FreeObjects(s), q.obj = o, q.proc \in {None, actor[a].proc},
         q.pc \in {"queue", "lock"},
         NEW u, IsBrowser(u), u.lock \in Seq(Actors), u.proc = None, u.bound = None,
         obj' = [obj EXCEPT ![o] = u], pool' = [pool EXCEPT ![s] = o],
         toWarm' \subseteq toWarm, UNCHANGED <<count, proc, toRemove>>
  PROVE  AccountsInv'
  <1>1. o \in Objects /\ Slot(o) = s /\ \A b \in Actors : actor[b].obj # o
    BY FreeObjectsAre
  <1>2. Acting(actor) /\ Browsing(obj) /\ Pooling(pool)
    BY DEF AccountsInv, Shapes
  <1>3. obj'[o] = u /\ \A x \in Objects \ {o} : obj'[x] = obj[x]
    BY <1>1, <1>2 DEF Browsing
  <1>4. Shapes'
    <2>1. Acting(actor')
      BY <1>2, ActingKept
    <2>2. Browsing(obj')
      BY <1>1, <1>2 DEF Browsing
    <2>3. Pooling(pool')
      BY <1>1, <1>2 DEF Pooling
    <2> QED
      BY <1>2, <2>1, <2>2, <2>3 DEF AccountsInv, Shapes
  <1>5. ~Making(q) /\ ~Locks(q) /\ ~Solving(q)
    BY DEF Making, Locks, Solving
  <1>6. Own(a, None)
    BY DEF Own
  <1>7. \A b \in Actors \ {a} : Locks(actor[b]) => Led(obj'[actor[b].obj].lock, b)
    <2> SUFFICES ASSUME NEW b \in Actors \ {a}, Locks(actor[b]) PROVE Led(obj'[actor[b].obj].lock, b)
      OBVIOUS
    <2>1. actor[b].obj \in Objects /\ actor[b].obj # o
      BY <1>1, <1>2 DEF Acting, Proper, Locks
    <2>2. Led(obj[actor[b].obj].lock, b)
      BY DEF AccountsInv, Turns
    <2> QED
      BY <1>3, <2>1, <2>2
  <1>8. \A x \in Objects : \/ obj'[x].proc = obj[x].proc /\ obj'[x].bound = obj[x].bound
                           \/ obj'[x].proc = None /\ obj'[x].bound = None
    BY <1>3
  <1>9. \A p \in Procs : Calm(p)
    BY SameProcs
  <1> QED
    BY <1>4, <1>5, <1>6, <1>7, <1>8, <1>9, AccountsKept

\* ... or another user of the one it has.
LEMMA OldKeeps ==
  ASSUME AccountsInv, NEW a \in Actors, NEW q, actor' = [actor EXCEPT ![a] = q], Proper(q),
         q.proc \in {None, actor[a].proc}, q.pc \in {"queue", "lock"}, Browsing(obj'), Mild(obj, obj', a),
         toWarm' \subseteq toWarm, UNCHANGED <<count, proc, pool, toRemove>>
  PROVE  AccountsInv'
  <1>1. ~Making(q) /\ ~Locks(q) /\ ~Solving(q)
    BY DEF Making, Locks, Solving
  <1> QED
    BY <1>1, SameProcs, QuietKeeps

\* What a request or a warm-up that gets a slot becomes.
Gets(x, c, o, i) == [x EXCEPT !.pc = c, !.obj = o, !.inside = i]

\* The fields of an actor that gets a slot.
LEMMA GetsFields ==
  ASSUME NEW x, IsActor(x), NEW c, NEW o, NEW i
  PROVE  LET n == Gets(x, c, o, i)
         IN IsActor(n) /\ n.pc = c /\ n.kind = x.kind /\ n.obj = o /\ n.proc = x.proc
  <1>1. PICK n : n = Gets(x, c, o, i)
    OBVIOUS
  <1>2. n = [pc |-> c, kind |-> x.kind, obj |-> o, proc |-> x.proc, pid |-> x.pid,
             after |-> x.after, left |-> x.left, gen |-> x.gen, inside |-> i]
    BY <1>1 DEF Gets, IsActor
  <1>3. IsActor(n) /\ n.pc = c /\ n.kind = x.kind /\ n.obj = o /\ n.proc = x.proc
    BY <1>2 DEF IsActor
  <1> QED
    BY <1>1, <1>3

\* A request gets a slot.
LEMMA SelectKeeps == ASSUME AccountsInv, NEW r \in ServiceCalls, Select(r) PROVE AccountsInv'
  <1>1. PICK x : x = actor[r]
    OBVIOUS
  <1>2. r \in Actors /\ IsActor(x) /\ Proper(x) /\ x.pc = "service"
    BY <1>1, TypedPool DEF Select
  <1>3. PICK s \in Chosen(r) : \E o \in ObjectOf(s) :
           /\ Install(s, o)
           /\ actor' = [actor EXCEPT ![r].pc = "queue", ![r].obj = o, ![r].inside = Kind(r) # "submit"]
    BY DEF Select
  <1>4. PICK o \in ObjectOf(s) :
           /\ Install(s, o)
           /\ actor' = [actor EXCEPT ![r].pc = "queue", ![r].obj = o, ![r].inside = Kind(r) # "submit"]
    BY <1>3
  <1>5. PICK i : i = (Kind(r) # "submit")
    OBVIOUS
  <1>6. PICK q : q = Gets(x, "queue", o, i)
    OBVIOUS
  <1>7. actor' = [actor EXCEPT ![r] = q]
    BY <1>1, <1>4, <1>5, <1>6 DEF Gets
  <1>8. IsActor(q) /\ q.pc = "queue" /\ q.kind = x.kind /\ q.obj = o /\ q.proc = x.proc
    BY <1>2, <1>6, GetsFields
  <1>9. s \in Slots
    BY <1>4, HeadedAssumption DEF Chosen, IdleSlots, Warmed, Offered, Slots, AccountsInv, Shapes
  <1>10. Proper(q)
    <2>1. o \in Objects
      BY <1>4, <1>9, FreeObjectsAre, TypedPool DEF ObjectOf, Pooling
    <2> QED
      BY <1>2, <1>8, <2>1, SlotsOf DEF Proper, Solving, Alone
  <1>11. q.obj = o /\ q.proc \in {None, actor[r].proc} /\ q.pc \in {"queue", "lock"}
    BY <1>1, <1>8
  <1>12. UNCHANGED <<count, proc, toRemove, toWarm>>
    BY DEF Select, todoVars
  <1>13. CASE pool[s] = o
    <2>1. obj' = obj /\ pool' = pool
      BY <1>4, <1>13 DEF Install
    <2>2. Browsing(obj') /\ Mild(obj, obj', r)
      BY <2>1, TypedPool, MildSame
    <2> QED
      BY <1>2, <1>7, <1>10, <1>11, <1>12, <2>1, <2>2, OldKeeps
  <1>14. CASE pool[s] # o
    <2>1. o \in FreeObjects(s)
      BY <1>4, <1>14 DEF ObjectOf
    <2>2. PICK u : u = NoObject
      OBVIOUS
    <2>3. IsBrowser(u) /\ u.lock \in Seq(Actors) /\ u.proc = None /\ u.bound = None
      BY <2>2 DEF NoObject, IsBrowser
    <2>4. obj' = [obj EXCEPT ![o] = u] /\ pool' = [pool EXCEPT ![s] = o]
      BY <1>4, <1>14, <2>2 DEF Install
    <2> QED
      BY <1>2, <1>7, <1>9, <1>10, <1>11, <1>12, <2>1, <2>3, <2>4, NewKeeps
  <1> QED
    BY <1>13, <1>14

\* A warm-up gets a slot.
LEMMA WarmStartsKeeps == ASSUME AccountsInv, NEW j \in Jobs, WarmStarts(j) PROVE AccountsInv'
  <1>1. PICK s \in toWarm : \E o \in ObjectOf(s) :
          /\ toWarm' = toWarm \ {s}
          /\ IF pool[s] = o
             THEN obj' = [obj EXCEPT ![o].lock = Append(@, j)] /\ UNCHANGED pool
             ELSE /\ obj' = [obj EXCEPT ![o] = [NoObject EXCEPT !.lock = <<j>>]]
                  /\ pool' = [pool EXCEPT ![s] = o]
          /\ actor' = [actor EXCEPT ![j] = [Idle EXCEPT !.pc = "lock", !.kind = "warm", !.obj = o]]
    BY DEF WarmStarts
  <1>2. PICK o \in ObjectOf(s) :
          /\ toWarm' = toWarm \ {s}
          /\ IF pool[s] = o
             THEN obj' = [obj EXCEPT ![o].lock = Append(@, j)] /\ UNCHANGED pool
             ELSE /\ obj' = [obj EXCEPT ![o] = [NoObject EXCEPT !.lock = <<j>>]]
                  /\ pool' = [pool EXCEPT ![s] = o]
          /\ actor' = [actor EXCEPT ![j] = [Idle EXCEPT !.pc = "lock", !.kind = "warm", !.obj = o]]
    BY <1>1
  <1>3. j \in Actors /\ actor[j].pc = "idle" /\ s \in Slots
    BY <1>2 DEF WarmStarts, Actors, AccountsInv, Shapes
  <1>4. PICK q : q = [Idle EXCEPT !.pc = "lock", !.kind = "warm", !.obj = o]
    OBVIOUS
  <1>5. actor' = [actor EXCEPT ![j] = q]
    BY <1>2, <1>4
  <1>6. IsActor(q) /\ q.pc = "lock" /\ q.kind = "warm" /\ q.obj = o /\ q.proc = None
    BY <1>4 DEF IsActor, Idle
  <1>7. Proper(q)
    <2>1. o \in Objects
      BY <1>2, <1>3, FreeObjectsAre, TypedPool DEF ObjectOf, Pooling
    <2> QED
      BY <1>6, <2>1 DEF Proper, Solving, Alone
  <1>8. q.obj = o /\ q.proc \in {None, actor[j].proc} /\ q.pc \in {"queue", "lock"}
    BY <1>6
  <1>9. toWarm' \subseteq toWarm /\ UNCHANGED <<count, proc, toRemove>>
    BY <1>2 DEF WarmStarts
  <1>10. CASE pool[s] = o
    <2>1. o \in Objects
      BY <1>2, <1>3, FreeObjectsAre, TypedPool DEF ObjectOf, Pooling
    <2>2. obj' = [obj EXCEPT ![o].lock = Append(@, j)] /\ pool' = pool
      BY <1>2, <1>10
    <2>3. Browsing(obj') /\ Mild(obj, obj', j)
      BY <1>3, <2>1, <2>2, TypedPool, QueueMild
    <2> QED
      BY <1>3, <1>5, <1>7, <1>8, <1>9, <2>2, <2>3, OldKeeps
  <1>11. CASE pool[s] # o
    <2>1. o \in FreeObjects(s)
      BY <1>2, <1>11 DEF ObjectOf
    <2>2. PICK u : u = [NoObject EXCEPT !.lock = <<j>>]
      OBVIOUS
    <2>3. IsBrowser(u) /\ u.lock = <<j>> /\ u.proc = None /\ u.bound = None
      BY <2>2 DEF NoObject, IsBrowser
    <2>4. u.lock \in Seq(Actors)
      BY <1>3, <2>3
    <2>5. obj' = [obj EXCEPT ![o] = u] /\ pool' = [pool EXCEPT ![s] = o]
      BY <1>2, <1>11, <2>2
    <2> QED
      BY <1>3, <1>5, <1>7, <1>8, <1>9, <2>1, <2>3, <2>4, <2>5, NewKeeps
  <1> QED
    BY <1>10, <1>11

----------------------------------------------------------------------------
\* Nobody moves; a process may die, TokenBrowsers may leave the pool.
LEMMA WorldKeeps ==
  ASSUME AccountsInv, UNCHANGED <<actor, obj>>, Shapes', \A p \in Procs : Calm(p)
  PROVE  AccountsInv'
  <1>1. Turns'
    BY DEF AccountsInv, Turns
  <1>2. Makers'
    <2> SUFFICES ASSUME NEW a \in Actors, Making(actor[a]) PROVE Makes(a)'
      BY DEF Makers, Making
    <2>1. Makes(a)
      BY DEF AccountsInv, Makers
    <2>2. proc'[actor[a].proc].cookies = None
      BY <2>1 DEF Makes, Calm, Shapes, Running
    <2> QED
      BY <2>1, <2>2 DEF Makes, Alone
  <1>3. Bindings'
    <2> SUFFICES ASSUME NEW o \in Objects PROVE Bound(o)'
      BY DEF Bindings
    <2>1. Bound(o)
      BY DEF AccountsInv, Bindings
    <2> QED
      BY <2>1 DEF Bound, Calm
  <1>4. Solvers'
    <2> SUFFICES ASSUME NEW r \in ServiceCalls, Solving(actor[r]), proc'[actor[r].proc].alive
                 PROVE  proc'[actor[r].proc].cookies = TokenOf[r]
      BY DEF Solvers, Solving, Alone
    <2>1. actor[r].proc \in Procs
      BY TypedPool DEF Proper
    <2> QED
      BY <2>1 DEF AccountsInv, Solvers, Calm
  <1> QED
    BY <1>1, <1>2, <1>3, <1>4 DEF AccountsInv

\* The pool is resized.
LEMMA PrepareKeeps == ASSUME AccountsInv, Prepare PROVE AccountsInv'
  <1>1. PICK n \in 1 .. MaxCount :
          /\ count' = n
          /\ pool' = [s \in Slots |-> IF s < n THEN pool[s] ELSE None]
          /\ toWarm' = 0 .. n - 1
          /\ toRemove' = Pooled \ {pool[s] : s \in 0 .. n - 1}
    BY DEF Prepare
  <1>2. UNCHANGED <<actor, obj, proc>>
    BY DEF Prepare
  <1>3. Shapes'
    <2>1. Pooling(pool')
      BY <1>1, TypedPool DEF Pooling
    <2>2. toWarm' \subseteq Slots
      BY <1>1, HeadedAssumption DEF Slots
    <2>3. toRemove' \subseteq Objects
      BY <1>1, PooledAre
    <2> QED
      BY <1>1, <1>2, <2>1, <2>2, <2>3, TypedPool DEF Shapes
  <1> QED
    BY <1>2, <1>3, SameProcs, WorldKeeps

\* A browser dies.
LEMMA DieKeeps == ASSUME AccountsInv, Die PROVE AccountsInv'
  <1>1. PICK p \in Procs : proc' = KillIn(proc, {p})
    BY DEF Die
  <1>2. UNCHANGED <<count, pool, toWarm, toRemove, actor, obj>>
    BY DEF Die, slotVars, todoVars
  <1>3. Running(proc') /\ \A m \in Procs : Calm(m)
    BY <1>1, TypedPool, KilledRunning DEF Calm
  <1>4. Shapes'
    BY <1>2, <1>3 DEF Shapes, AccountsInv
  <1> QED
    BY <1>2, <1>3, <1>4, WorldKeeps

\* Nothing happens.
LEMMA StutterKeeps == ASSUME AccountsInv, UNCHANGED headedVars PROVE AccountsInv'
  <1>1. UNCHANGED <<count, pool, toWarm, toRemove, actor, obj, proc>>
    BY DEF headedVars, slotVars
  <1>2. Shapes'
    BY <1>1 DEF Shapes, AccountsInv
  <1> QED
    BY <1>1, <1>2, SameProcs, WorldKeeps

\* After a restart every coroutine is at rest.
Rests(q) == q.pc \in {"idle"} \cup Outcomes /\ q.kind # "custom"

\* Who rests has no browser in hand.
LEMMA RestsFacts ==
  ASSUME NEW q, Rests(q)
  PROVE  /\ ~Making(q) /\ ~Locks(q) /\ ~Solving(q) /\ ~Alone(q)
         /\ IsActor(q) => Proper(q)
  BY DEF Rests, Outcomes, Making, Locks, Solving, Alone, Proper

\* Where everybody is after a restart.
LEMMA RestartActors ==
  ASSUME AccountsInv, ServerRestarts, NEW a \in Actors
  PROVE  Proper(actor'[a]) /\ Rests(actor'[a])
  <1>1. PICK c : c = [Idle EXCEPT !.pc = "cut"]
    OBVIOUS
  <1>2. actor'[a] = IF AtWork(a) /\ a \in ServiceCalls THEN c
                    ELSE IF a \in ServiceCalls THEN actor[a] ELSE Idle
    BY <1>1 DEF ServerRestarts
  <1>3. IsActor(c) /\ Rests(c)
    BY <1>1 DEF IsActor, Rests, Idle, Outcomes
  <1>4. IsActor(Idle) /\ Rests(Idle)
    BY DEF IsActor, Rests, Idle
  <1>5. Proper(actor[a])
    BY TypedPool
  <1>6. ~AtWork(a) => Rests(actor[a])
    BY <1>5 DEF AtWork, Rests, Proper, Alone, Outcomes
  <1> QED
    BY <1>2, <1>3, <1>4, <1>5, <1>6, RestsFacts

\* The server restarts: nobody is at work, and no TokenBrowser is left.
LEMMA ServerRestartsKeeps == ASSUME AccountsInv, ServerRestarts PROVE AccountsInv'
  <1>1. actor' = [a \in Actors |-> actor'[a]] /\ \A a \in Actors : Proper(actor'[a]) /\ Rests(actor'[a])
    <2>1. actor' = [a \in Actors |-> actor'[a]]
      BY DEF ServerRestarts
    <2> QED
      BY <2>1, RestartActors
  <1>2. \A a \in Actors : ~Making(actor'[a]) /\ ~Locks(actor'[a]) /\ ~Solving(actor'[a])
    BY <1>1, RestsFacts
  <1>3. PICK u : u = NoObject
    OBVIOUS
  <1>4. IsBrowser(u) /\ u.lock = <<>> /\ u.proc = None /\ u.bound = None
    BY <1>3 DEF NoObject, IsBrowser
  <1>5. obj' = [o \in Objects |-> u]
    BY <1>3 DEF ServerRestarts
  <1>6. PICK dead \in SUBSET {p \in Procs : proc[p].alive} : proc' = KillIn(proc, dead)
    BY DEF ServerRestarts
  <1>7. Running(proc')
    BY <1>6, TypedPool, KilledRunning
  <1>8. /\ pool' = [s \in Slots |-> None] /\ toWarm' = 0 .. count - 1 /\ toRemove' = {}
        /\ UNCHANGED count
    BY DEF ServerRestarts
  <1>9. Shapes'
    <2>1. Acting(actor')
      BY <1>1 DEF Acting
    <2>2. Browsing(obj')
      <3>1. u.lock \in Seq(Actors)
        BY <1>4
      <3>2. \A o \in Objects : obj'[o] = u
        BY <1>5
      <3> QED
        BY <1>4, <1>5, <3>1, <3>2 DEF Browsing
    <2>3. Pooling(pool')
      BY <1>8 DEF Pooling
    <2>4. count' \in 1 .. MaxCount /\ toWarm' \subseteq Slots /\ toRemove' \subseteq Objects
      BY <1>8, HeadedAssumption DEF Slots, AccountsInv, Shapes
    <2> QED
      BY <1>7, <2>1, <2>2, <2>3, <2>4 DEF Shapes
  <1>10. Turns' /\ Makers' /\ Solvers'
    <2>1. Turns'
      BY <1>2 DEF Turns
    <2>2. Makers'
      BY <1>2 DEF Makers
    <2>3. Solvers'
      BY <1>2 DEF Solvers, Actors
    <2> QED
      BY <2>1, <2>2, <2>3
  <1>11. Bindings'
    BY <1>4, <1>5 DEF Bindings, Bound
  <1> QED
    BY <1>9, <1>10, <1>11 DEF AccountsInv

----------------------------------------------------------------------------
\* The invariant holds initially ...
LEMMA AccountsInit == HeadedInit => AccountsInv
  <1> SUFFICES ASSUME HeadedInit PROVE AccountsInv
    OBVIOUS
  <1>1. Proper(Idle) /\ Rests(Idle)
    BY DEF Rests, Idle, Proper, IsActor, Alone, Solving
  <1>2. PICK i : i = Idle
    OBVIOUS
  <1>3. actor = [a \in Actors |-> i]
    BY <1>2 DEF HeadedInit
  <1>4. \A a \in Actors : /\ ~Making(actor[a]) /\ ~Locks(actor[a])
                          /\ ~Solving(actor[a]) /\ Proper(actor[a])
    BY <1>1, <1>2, <1>3, RestsFacts
  <1>5. PICK u : u = NoObject
    OBVIOUS
  <1>6. IsBrowser(u) /\ u.lock = <<>> /\ u.proc = None /\ u.bound = None
    BY <1>5 DEF NoObject, IsBrowser
  <1>7. obj = [o \in Objects |-> u]
    BY <1>5 DEF HeadedInit
  <1>8. PICK w : w = NoProc
    OBVIOUS
  <1>9. IsProc(w) /\ ~w.alive /\ w.cookies = None
    BY <1>8 DEF NoProc, IsProc
  <1>10. proc = [p \in Procs |-> w]
    BY <1>8 DEF HeadedInit
  <1>11. Shapes
    <2>1. Acting(actor)
      BY <1>3, <1>4 DEF Acting
    <2>2. Browsing(obj)
      <3>1. u.lock \in Seq(Actors)
        BY <1>6
      <3>2. \A o \in Objects : obj[o] = u
        BY <1>7
      <3> QED
        BY <1>6, <1>7, <3>1, <3>2 DEF Browsing
    <2>3. Running(proc)
      BY <1>9, <1>10 DEF Running
    <2>4. Pooling(pool)
      BY DEF HeadedInit, Pooling
    <2>5. count \in 1 .. MaxCount /\ toWarm \subseteq Slots /\ toRemove \subseteq Objects
      BY HeadedAssumption DEF HeadedInit, Slots
    <2> QED
      BY <2>1, <2>2, <2>3, <2>4, <2>5 DEF Shapes
  <1>12. Turns /\ Makers
    BY <1>4 DEF Turns, Makers
  <1>13. Solvers
    BY <1>4 DEF Solvers, Actors
  <1>14. Bindings
    BY <1>6, <1>7 DEF Bindings, Bound
  <1> QED
    BY <1>11, <1>12, <1>13, <1>14 DEF AccountsInv

\* ... and every step keeps it.
LEMMA AccountsNext == AccountsInv /\ [HeadedNext]_headedVars => AccountsInv'
  <1> SUFFICES ASSUME AccountsInv, [HeadedNext]_headedVars PROVE AccountsInv'
    OBVIOUS
  <1>1. ASSUME NEW a \in Actors, Step(a) PROVE AccountsInv'
    BY <1>1, ReusesKeeps, RecyclesKeep, CreatesKeeps, LaunchFailsKeeps, RecordKeeps, BindKeeps,
       BindFailsKeeps, ClosedKeeps DEF Step
  <1>2. ASSUME NEW r \in ServiceCalls, Ends(r) PROVE AccountsInv'
    BY <1>2, SolvingKeeps, LoneKeeps DEF Ends
  <1>3. ASSUME NEW r \in ServiceCalls, Arrive(r) \/ Select(r) \/ TakeSlot(r) \/ LaunchLone(r) \/ Disconnect(r)
        PROVE  AccountsInv'
    BY <1>3, ArriveKeeps, SelectKeeps, TakeSlotKeeps, LaunchLoneKeeps, DisconnectKeeps
  <1>4. ASSUME NEW j \in Jobs, Reap(j) \/ ReportError(j) \/ WarmStarts(j) \/ RemovalStarts(j)
        PROVE  AccountsInv'
    BY <1>4, JobStartsKeep, WarmStartsKeeps
  <1> QED
    BY <1>1, <1>2, <1>3, <1>4, PrepareKeeps, DieKeeps, ServerRestartsKeeps, StutterKeeps DEF HeadedNext

\* In every reachable state the pool of headed browsers satisfies the whole
\* inductive invariant: locks, bindings and cookies.
THEOREM AccountsHold == HeadedSpec => []AccountsInv
  BY AccountsInit, AccountsNext, PTL DEF HeadedSpec

\* A page solves for the account its request works for, however many slots,
\* requests and background jobs there are.
THEOREM SolverIsOnItsAccountHolds == HeadedSpec => []SolverIsOnItsAccount
  <1>1. AccountsInv => SolverIsOnItsAccount
    BY DEF AccountsInv, Solvers, SolverIsOnItsAccount, Solving, Alone, Kind
  <1> QED
    BY <1>1, AccountsHold, PTL
=============================================================================
