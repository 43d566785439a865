---------------------------- MODULE AccountProofs ----------------------------
(***************************************************************************)
(* First AccountIntake, for any calls, sessions and events: who adds a row *)
(* saw none of its account, and a reported profile is there.  Then         *)
(* AuthRecovery, for any number of callers, re-logins, sessions, profile   *)
(* directories and restarts.                                               *)
(***************************************************************************)
EXTENDS AuthRecovery, AccountIntake, WellFoundedInduction, TLAPS

-----------------------------------------------------------------------------
(***************************************************************************)
(* The invariant of the intake: what a call knows of the table.            *)
(***************************************************************************)
Points ==
    {"idle", "launch", "login", "item", "convert", "lookup", "check", "prepare", "credits", "project",
     "insert", "pool", "profile", "update", "enable", "disable", "close", "finish", "done"}

Row == [st : Sts, active : BOOLEAN, profile : Jobs \cup {NoOne}]

Call == [pc : Points, st : Sts \cup {NoOne}, rest : Seq(Sts), known : [Emails -> Nat], id : Nat,
         was : BOOLEAN, kept : BOOLEAN, before : SUBSET Nat, made : Nat,
         answer : {"none", "failed", "added", "updated", "timeout", "lost"}]

TableShape ==
    /\ inserted \in 0 .. MaxId
    /\ Stored \subseteq 1 .. inserted
    /\ \A i \in Stored : rows[i] \in Row

\* Whoever has not looked for an account has no row, and whoever adds has one.
Located(r) ==
    /\ r.pc \in {"idle", "launch", "login"} => r.id = 0
    /\ r.pc \in {"idle", "launch", "login", "convert", "lookup"} => r.made = 0
    /\ r.made \in {0, r.id} /\ r.id <= inserted
    /\ r.pc = "pool" \/ (r.pc = "item" /\ r.answer = "added") => r.made # 0
    /\ r.pc \in {"convert", "lookup", "check", "prepare", "credits", "project", "insert", "update"}
            \/ r.id # 0 => r.st \in Sts
    /\ r.pc = "item" => r.rest # <<>>
    /\ r.pc = "idle" => r.answer = "none"

\* The row of a call is one of the call's account, and so is what an import knows.
OwnsRow(r) ==
    /\ r.id \in Stored => EmailOf[rows[r.id].st] = EmailOf[r.st]
    /\ r.before \subseteq 1 .. inserted
    /\ \A e \in Emails : /\ r.known[e] <= inserted
                         /\ r.known[e] \in Stored => EmailOf[rows[r.known[e]].st] = e

\* No row the call knew of is one of its account.
Apart(r) == \A i \in r.before \cap Stored : EmailOf[rows[i].st] # EmailOf[r.st]

Adding(j, r) ==
    \/ KindOf[j] # "add" /\ r.pc \in {"check", "prepare", "credits", "project", "insert"}
    \/ KindOf[j] # "add" /\ r.made \in Stored
    \/ KindOf[j] = "import" /\ r.pc = "convert" /\ r.id = 0

\* What an import does not know, it did not find and has not added.
KnowsAll(r) ==
    \A e \in Emails : r.known[e] = 0 => \A i \in r.before \cap Stored : EmailOf[rows[i].st] # e

\* An onboarding keeps the profile it reports.
KeepsProfile(j, r) ==
    /\ r.pc \notin {"enable", "disable"}
    /\ r.pc \notin {"idle", "launch", "close", "finish", "done"} => j \in profiles
    /\ r.kept => j \in profiles /\ r.pc \in {"close", "finish", "done"}
    /\ r.pc \in {"close", "finish", "done"} /\ r.answer \in {"added", "updated"} => r.kept

Sound(j, r) ==
    /\ r \in Call
    /\ Located(r)
    /\ OwnsRow(r)
    /\ Adding(j, r) => Apart(r)
    /\ r.pc = "item" => KindOf[j] = "import"
    /\ r.pc \in {"launch", "login"} => KindOf[j] = "onboard"
    /\ KindOf[j] = "import" => KnowsAll(r)
    /\ KindOf[j] = "onboard" => KeepsProfile(j, r)

IntakeInv ==
    /\ TableShape
    /\ job \in [Jobs -> Call]
    /\ \A j \in Jobs : Sound(j, job[j])

-----------------------------------------------------------------------------
(* Choosing a row.                                                         *)

LEMMA SmallestExists == ASSUME NEW S \in SUBSET Nat, S # {} PROVE \E x \in S : \A y \in S : x =< y
<1> DEFINE R == {p \in Nat \X Nat : p[1] < p[2]}
<1>1. IsWellFoundedOn(R, Nat)
  BY NatLessThanWellFounded DEF OpToRel
<1>2. \A x, y \in Nat : y < x => <<y, x>> \in R
  OBVIOUS
<1> HIDE DEF R
<1>3. PICK x \in S : \A y \in S : ~(<<y, x>> \in R)
  BY <1>1, WFMin
<1>4. ASSUME NEW y \in S PROVE x =< y
  <2>1. ~(y < x)
    BY <1>2, <1>3
  <2> QED BY <2>1
<1> QED BY <1>4

\* The oldest and the newest of some rows are among them, if there are any.
LEMMA OldestStored ==
    ASSUME TableShape, NEW ids \in SUBSET Stored
    PROVE  /\ Oldest(ids) \in 0 .. inserted
           /\ ids = {} => Oldest(ids) = 0
           /\ ids # {} => Oldest(ids) \in ids
<1>1. ids \subseteq 1 .. inserted /\ inserted \in Nat
  BY IntakeAssumption DEF TableShape
<1>2. CASE ids = {}
  BY <1>1, <1>2 DEF Oldest
<1>3. CASE ids # {}
  <2>1. PICK x \in ids : \A y \in ids : x =< y
    BY <1>1, <1>3, SmallestExists
  <2>2. Min(ids) \in ids
    BY <2>1 DEF Min
  <2>3. Oldest(ids) = Min(ids)
    BY <1>3 DEF Oldest
  <2>4. PICK m \in ids : m = Min(ids)
    BY <2>2
  <2>5. m \in 0 .. inserted
    BY <1>1
  <2> QED BY <1>3, <2>3, <2>4, <2>5
<1> QED BY <1>2, <1>3

LEMMA LargestExists ==
    ASSUME NEW n \in Nat, NEW S \in SUBSET (1 .. n), S # {} PROVE \E x \in S : \A y \in S : x >= y
<1> DEFINE T == {m \in 0 .. n : n - m \in S}
<1>1. PICK x \in S : x \in 1 .. n
  OBVIOUS
<1>2. n - x \in 0 .. n /\ n - (n - x) = x
  BY <1>1
<1>3. n - x \in T
  BY <1>1, <1>2
<1>4. PICK m \in T : \A y \in T : m =< y
  <2>1. T \in SUBSET Nat
    OBVIOUS
  <2> HIDE DEF T
  <2>2. T # {}
    BY <1>3
  <2> QED BY <2>1, <2>2, SmallestExists
<1>5. n - m \in S
  OBVIOUS
<1>6. ASSUME NEW y \in S PROVE n - m >= y
  <2>1. y \in 1 .. n /\ n - y \in 0 .. n /\ n - (n - y) = y
    OBVIOUS
  <2>2. n - y \in T
    BY <2>1
  <2>3. m =< n - y /\ m \in 0 .. n
    BY <1>4, <2>2
  <2> QED BY <2>1, <2>3
<1> QED BY <1>5, <1>6

LEMMA NewestStored ==
    ASSUME TableShape, NEW ids \in SUBSET Stored
    PROVE  /\ Newest(ids) \in 0 .. inserted
           /\ ids = {} => Newest(ids) = 0
           /\ ids # {} => Newest(ids) \in ids
<1>1. ids \subseteq 1 .. inserted /\ inserted \in Nat
  BY IntakeAssumption DEF TableShape
<1>2. CASE ids = {}
  BY <1>1, <1>2 DEF Newest
<1>3. CASE ids # {}
  <2>1. PICK x \in ids : \A y \in ids : x >= y
    BY <1>1, <1>3, LargestExists
  <2>2. Max(ids) \in ids
    BY <2>1 DEF Max
  <2>3. Newest(ids) = Max(ids)
    BY <1>3 DEF Newest
  <2>4. PICK m \in ids : m = Max(ids)
    BY <2>2
  <2>5. m \in 0 .. inserted
    BY <1>1
  <2> QED BY <1>3, <2>3, <2>4, <2>5
<1> QED BY <1>2, <1>3

----------------------------------------------------------------------------
(***************************************************************************)
(* What one call's step leaves of the others.                              *)
(***************************************************************************)
\* Rows keep their account and identifiers are not used again.
Stable ==
    /\ TableShape'
    /\ inserted =< inserted'
    /\ \A i \in Stored' : i =< inserted =>
          i \in Stored /\ EmailOf[rows'[i].st] = EmailOf[rows[i].st]

LEMMA SoundStays ==
    ASSUME TableShape, Stable, NEW j \in Jobs, NEW r, Sound(j, r), j \in profiles => j \in profiles'
    PROVE  Sound(j, r)'
<1>1. r.id \in Nat /\ r.before \in SUBSET Nat /\ r.made \in Nat /\ r.known \in [Emails -> Nat]
  BY DEF Sound, Call
<1>2. inserted \in Nat /\ inserted' \in Nat /\ inserted =< inserted'
  BY IntakeAssumption DEF TableShape, Stable
<1>3. Located(r)' 
  BY <1>1, <1>2 DEF Sound, Located
<1>4. OwnsRow(r)'
  <2>1. r.before \subseteq 1 .. inserted'
    BY <1>2 DEF Sound, OwnsRow
  <2>2. r.id \in Stored' => EmailOf[rows'[r.id].st] = EmailOf[r.st]
    BY DEF Sound, Located, OwnsRow, Stable
  <2>3. ASSUME NEW e \in Emails
        PROVE  r.known[e] =< inserted' /\ (r.known[e] \in Stored' => EmailOf[rows'[r.known[e]].st] = e)
    BY <1>1, <1>2 DEF Sound, OwnsRow, Stable
  <2> QED BY <2>1, <2>2, <2>3 DEF OwnsRow
<1>5. \A i \in r.before : i =< inserted
  BY <1>2 DEF Sound, OwnsRow
<1>6. Adding(j, r)' => Apart(r)'
  <2>1. Adding(j, r)' => Adding(j, r)
    BY <1>1, <1>2 DEF Adding, Stable, Sound, Located
  <2> QED BY <1>5, <2>1 DEF Sound, Apart, Stable
<1>7. KindOf[j] = "import" => KnowsAll(r)'
  BY <1>5 DEF Sound, KnowsAll, Stable
<1>8. KindOf[j] = "onboard" => KeepsProfile(j, r)'
  BY DEF Sound, KeepsProfile
<1> QED BY <1>3, <1>4, <1>6, <1>7, <1>8 DEF Sound

LEMMA SameTable == ASSUME TableShape, UNCHANGED <<rows, inserted>> PROVE Stable
<1>1. rows' = rows /\ inserted' = inserted /\ inserted =< inserted
  BY IntakeAssumption DEF TableShape
<1>2. TableShape'
  BY <1>1 DEF TableShape, Stored
<1> QED BY <1>1, <1>2 DEF Stable, Stored

\* One call moves, and the others keep what they had.
LEMMA MovesTo ==
    ASSUME IntakeInv, Stable, NEW j \in Jobs, NEW r, Step(j, r), Sound(j, r)',
           \A k \in Jobs \ {j} : k \in profiles => k \in profiles'
    PROVE  IntakeInv'
<1>1. job' \in [Jobs -> Call] /\ job'[j] = r /\ \A k \in Jobs \ {j} : job'[k] = job[k]
  BY DEF IntakeInv, Step, Sound
<1>2. ASSUME NEW k \in Jobs, k # j PROVE Sound(k, job[k])'
  <2>1. PICK q : q = job[k]
    OBVIOUS
  <2>2. Sound(k, q)
    BY <2>1 DEF IntakeInv
  <2>3. Sound(k, q)'
    BY <1>2, <2>2, SoundStays DEF IntakeInv
  <2>4. job'[k] = q
    BY <1>1, <1>2, <2>1
  <2> QED BY <2>3, <2>4
<1>3. ASSUME NEW k \in Jobs PROVE Sound(k, job[k])'
  <2>1. CASE k = j
    BY <1>1, <2>1
  <2> QED BY <1>2, <2>1
<1> QED BY <1>1, <1>3 DEF IntakeInv, Stable

LEMMA Moves ==
    ASSUME IntakeInv, Stable, profiles' = profiles, NEW j \in Jobs, NEW r, Step(j, r), Sound(j, r)
    PROVE  IntakeInv'
<1>1. Sound(j, r)'
  BY SoundStays DEF IntakeInv
<1> QED BY <1>1, MovesTo

\* Nobody moves.
LEMMA Rests == ASSUME IntakeInv, Stable, UNCHANGED <<job, profiles>> PROVE IntakeInv'
<1>1. ASSUME NEW k \in Jobs PROVE Sound(k, job[k])'
  <2>1. PICK q : q = job[k]
    OBVIOUS
  <2>2. Sound(k, q)
    BY <2>1 DEF IntakeInv
  <2>3. Sound(k, q)'
    BY <2>2, SoundStays DEF IntakeInv
  <2> QED BY <2>1, <2>3
<1> QED BY <1>1 DEF IntakeInv, Stable

LEMMA EndsKeeps ==
    ASSUME IntakeInv, Stable, profiles' = profiles, NEW j \in Jobs,
           NEW result \in {"failed", "timeout", "added", "updated"},
           Ends(j, result),
           KindOf[j] = "onboard" => result \in {"failed", "timeout"} /\ ~job[j].kept,
           result = "added" => job[j].made # 0
    PROVE  IntakeInv'
<1>1. PICK r : r = After(j, result, job[j])
  OBVIOUS
<1>2. Sound(j, job[j]) /\ job[j] \in Call
  BY DEF IntakeInv
<1>3. PICK next \in {"close", "item", "done"} : 
         /\ r = [job[j] EXCEPT !.pc = next, !.answer = result]
         /\ KindOf[j] = "onboard" => next = "close"
         /\ next = "item" => KindOf[j] = "import" /\ job[j].rest # <<>>
  BY <1>1 DEF After
<1>4. /\ r \in Call /\ r.pc = next /\ r.answer = result
      /\ r.st = job[j].st /\ r.rest = job[j].rest /\ r.known = job[j].known /\ r.id = job[j].id
      /\ r.kept = job[j].kept /\ r.before = job[j].before /\ r.made = job[j].made
  BY <1>2, <1>3 DEF Call, Points
<1>5. Located(r) 
  BY <1>2, <1>3, <1>4 DEF Sound, Located
<1>6. OwnsRow(r)
  BY <1>2, <1>4 DEF Sound, OwnsRow
<1>7. Adding(j, r) => Apart(r)
  BY <1>2, <1>4 DEF Sound, Adding, Apart
<1>8. KindOf[j] = "import" => KnowsAll(r)
  BY <1>2, <1>4 DEF Sound, KnowsAll
<1>9. KindOf[j] = "onboard" => KeepsProfile(j, r)
  BY <1>2, <1>3, <1>4 DEF Sound, KeepsProfile
<1>10. Step(j, r)
  BY <1>1 DEF Ends
<1>11. Sound(j, r)
  BY <1>3, <1>4, <1>5, <1>6, <1>7, <1>8, <1>9 DEF Sound
<1> QED BY <1>10, <1>11, Moves
LEMMA QuietIsStable == ASSUME IntakeInv, Quiet PROVE Stable /\ profiles' = profiles
BY SameTable DEF IntakeInv, Quiet

----------------------------------------------------------------------------
(***************************************************************************)
(* The steps.                                                              *)
(***************************************************************************)
\* A step that only goes on, from where the account is settled.
LEMMA GoesKeeps ==
    ASSUME IntakeInv, Stable, profiles' = profiles, NEW j \in Jobs, NEW pc \in Points, Goes(j, pc),
           job[j].pc \notin {"idle", "launch", "login"},
           pc \notin {"idle", "launch", "login", "item", "convert", "pool"},
           pc = "lookup" => job[j].pc = "convert",
           pc \in {"lookup", "check", "prepare", "credits", "project", "insert", "update"} =>
              job[j].st \in Sts,
           pc \in {"check", "prepare", "credits", "project", "insert"} /\ KindOf[j] # "add" => Apart(job[j]),
           KindOf[j] = "onboard" =>
              /\ pc \notin {"enable", "disable"}
              /\ job[j].pc \in {"close", "finish", "done"} => pc \in {"close", "finish", "done"}
              /\ pc \in {"close", "finish", "done"} => job[j].pc \in {"close", "finish", "done"}
    PROVE  IntakeInv'
<1>1. PICK r : r = [job[j] EXCEPT !.pc = pc]
  OBVIOUS
<1>2. Sound(j, job[j]) /\ job[j] \in Call
  BY DEF IntakeInv
<1>3. /\ r \in Call /\ r.pc = pc /\ r.answer = job[j].answer
      /\ r.st = job[j].st /\ r.rest = job[j].rest /\ r.known = job[j].known /\ r.id = job[j].id
      /\ r.kept = job[j].kept /\ r.before = job[j].before /\ r.made = job[j].made
  BY <1>1, <1>2 DEF Call
<1>4. Located(r)
  BY <1>2, <1>3 DEF Sound, Located
<1>5. OwnsRow(r)
  BY <1>2, <1>3 DEF Sound, OwnsRow
<1>6. Adding(j, r) => Apart(r)
  BY <1>2, <1>3 DEF Sound, Adding, Apart
<1>7. KindOf[j] = "import" => KnowsAll(r)
  BY <1>2, <1>3 DEF Sound, KnowsAll
<1>8. KindOf[j] = "onboard" => KeepsProfile(j, r)
  BY <1>2, <1>3 DEF Sound, KeepsProfile
<1>9. Step(j, r)
  BY <1>1 DEF Goes
<1>10. Sound(j, r)
  BY <1>3, <1>4, <1>5, <1>6, <1>7, <1>8 DEF Sound
<1> QED BY <1>9, <1>10, Moves
LEMMA PointsHave ==
    /\ {"launch", "login", "item", "convert", "check", "update"} \subseteq Points
    /\ {"pool", "close", "finish", "done"} \subseteq Points
BY DEF Points

\* Every step sees these facts of its call.
LEMMA CallFacts ==
    ASSUME IntakeInv, NEW j \in Jobs
    PROVE  /\ TableShape /\ inserted \in Nat /\ 0 \notin Stored
           /\ job[j] \in Call /\ Sound(j, job[j])
           /\ Located(job[j]) /\ OwnsRow(job[j])
           /\ KindOf[j] = "onboard" => KeepsProfile(j, job[j])
           /\ job[j].id \in Nat /\ job[j].made \in Nat /\ job[j].known \in [Emails -> Nat]
<1>1. TableShape /\ inserted \in Nat /\ 0 \notin Stored
  BY IntakeAssumption DEF IntakeInv, TableShape
<1>2. job[j] \in Call /\ Sound(j, job[j])
  BY DEF IntakeInv
<1>3. job[j].id \in Nat /\ job[j].made \in Nat /\ job[j].known \in [Emails -> Nat]
  BY <1>2 DEF Call
<1> QED BY <1>1, <1>2, <1>3 DEF Sound

LEMMA BeginAddKeeps == ASSUME IntakeInv, NEW j \in Jobs, NEW st \in Sts, BeginAdd(j, st) PROVE IntakeInv'
<1>1. PICK r : r = [job[j] EXCEPT !.pc = "check", !.st = st]
  OBVIOUS
<1>2. /\ r \in Call /\ r.pc = "check" /\ r.st = st /\ r.answer = job[j].answer
      /\ r.rest = job[j].rest /\ r.known = job[j].known /\ r.id = job[j].id
      /\ r.kept = job[j].kept /\ r.before = job[j].before /\ r.made = job[j].made
  <2>1. PICK q \in Call : q = job[j]
    BY CallFacts
  <2>2. /\ r.pc = "check" /\ r.st = st /\ r.answer = q.answer /\ r.rest = q.rest
        /\ r.known = q.known /\ r.id = q.id /\ r.kept = q.kept /\ r.before = q.before
        /\ r.made = q.made
    BY <1>1, <2>1 DEF Call
  <2>3. r \in Call
    BY <1>1, <2>1, PointsHave DEF Call
  <2> QED BY <2>1, <2>2, <2>3
<1>3. KindOf[j] = "add" /\ job[j].pc = "idle" /\ r.id = 0 /\ r.made = 0
  BY <1>2, CallFacts DEF BeginAdd, Located
<1>4. Located(r) /\ OwnsRow(r)
  BY <1>2, <1>3, CallFacts DEF Located, OwnsRow
<1>5. Sound(j, r)
  BY <1>2, <1>3, <1>4, CallFacts DEF Sound, Adding
<1>6. Step(j, r) /\ Quiet
  BY <1>1 DEF BeginAdd
<1> QED BY <1>5, <1>6, Moves, QuietIsStable

LEMMA BeginPluginKeeps ==
    ASSUME IntakeInv, NEW j \in Jobs, NEW st \in Sts, BeginPlugin(j, st) PROVE IntakeInv'
<1>1. PICK r : r = [job[j] EXCEPT !.pc = "convert", !.st = st, !.before = Stored]
  OBVIOUS
<1>2. Stored \subseteq 1 .. inserted /\ Stored \in SUBSET Nat
  BY CallFacts DEF TableShape
<1>3. /\ r \in Call /\ r.pc = "convert" /\ r.st = st /\ r.answer = job[j].answer
      /\ r.rest = job[j].rest /\ r.known = job[j].known /\ r.id = job[j].id
      /\ r.kept = job[j].kept /\ r.before = Stored /\ r.made = job[j].made
  <2>1. PICK q \in Call : q = job[j]
    BY CallFacts
  <2>2. /\ r.pc = "convert" /\ r.st = st /\ r.answer = q.answer /\ r.rest = q.rest
        /\ r.known = q.known /\ r.id = q.id /\ r.kept = q.kept /\ r.before = Stored
        /\ r.made = q.made
    BY <1>1, <1>2, <2>1 DEF Call
  <2>3. r \in Call
    BY <1>1, <1>2, <2>1, PointsHave DEF Call
  <2> QED BY <2>1, <2>2, <2>3
<1>4. KindOf[j] = "plugin" /\ job[j].pc = "idle" /\ r.id = 0 /\ r.made = 0
  BY <1>3, CallFacts DEF BeginPlugin, Located
<1>5. Located(r) /\ OwnsRow(r)
  BY <1>2, <1>3, <1>4, CallFacts DEF Located, OwnsRow
<1>6. Sound(j, r)
  BY <1>3, <1>4, <1>5, CallFacts DEF Sound, Adding
<1>7. Step(j, r) /\ Quiet
  BY <1>1 DEF BeginPlugin
<1> QED BY <1>6, <1>7, Moves, QuietIsStable

LEMMA ItemsAreSequences ==
    ASSUME NEW items \in Imports PROVE items \in Seq(Sts) /\ items # <<>>
<1>1. PICK n \in 1 .. MaxItems : items \in [1 .. n -> Sts]
  BY DEF Imports
<1>2. n \in Nat /\ n # 0
  BY <1>1, IntakeAssumption
<1>3. items \in Seq(Sts) /\ Len(items) = n
  BY <1>1, <1>2
<1> QED BY <1>2, <1>3

LEMMA BeginImportKeeps ==
    ASSUME IntakeInv, NEW j \in Jobs, NEW items \in Imports, BeginImport(j, items) PROVE IntakeInv'
<1>1. PICK known : known = [e \in Emails |-> Newest(OfEmail(e))]
  OBVIOUS
<1>2. PICK r : r = [job[j] EXCEPT !.pc = "item", !.rest = items, !.before = Stored, !.known = known]
  OBVIOUS
<1>3. Stored \subseteq 1 .. inserted /\ Stored \in SUBSET Nat
  BY CallFacts DEF TableShape
<1>4. ASSUME NEW e \in Emails
      PROVE  /\ known[e] \in Nat /\ known[e] =< inserted
             /\ known[e] \in Stored => EmailOf[rows[known[e]].st] = e
             /\ known[e] = 0 => \A i \in Stored : EmailOf[rows[i].st] # e
  <2>1. PICK ids \in SUBSET Stored : ids = OfEmail(e)
    BY DEF OfEmail
  <2>2. PICK i : i = Newest(ids)
    OBVIOUS
  <2>3. i \in 0 .. inserted /\ (ids = {} => i = 0) /\ (ids # {} => i \in ids)
    BY <2>2, NewestStored, CallFacts
  <2>4. known[e] = i
    BY <1>1, <2>1, <2>2
  <2> QED BY <2>1, <2>3, <2>4, CallFacts DEF OfEmail
<1>5. items \in Seq(Sts) /\ items # <<>> /\ known \in [Emails -> Nat]
  BY <1>1, <1>4, ItemsAreSequences
<1>6. /\ r \in Call /\ r.pc = "item" /\ r.st = job[j].st /\ r.answer = job[j].answer
      /\ r.rest = items /\ r.known = known /\ r.id = job[j].id
      /\ r.kept = job[j].kept /\ r.before = Stored /\ r.made = job[j].made
  <2>1. PICK q \in Call : q = job[j]
    BY CallFacts
  <2>2. /\ r.pc = "item" /\ r.st = q.st /\ r.answer = q.answer /\ r.rest = items
        /\ r.known = known /\ r.id = q.id /\ r.kept = q.kept /\ r.before = Stored
        /\ r.made = q.made
    BY <1>2, <1>3, <1>5, <2>1 DEF Call
  <2>3. r \in Call
    BY <1>2, <1>3, <1>5, <2>1, PointsHave DEF Call
  <2> QED BY <2>1, <2>2, <2>3
<1>7. KindOf[j] = "import" /\ r.id = 0 /\ r.made = 0 /\ r.answer = "none"
  BY <1>6, CallFacts DEF BeginImport, Located
<1>8. Located(r)
  BY <1>5, <1>6, <1>7, CallFacts DEF Located
<1>9. OwnsRow(r) /\ KnowsAll(r)
  BY <1>3, <1>4, <1>6, <1>7, CallFacts DEF OwnsRow, KnowsAll
<1>10. Sound(j, r)
  BY <1>6, <1>7, <1>8, <1>9, CallFacts DEF Sound, Adding
<1>11. Step(j, r) /\ Quiet
  BY <1>1, <1>2 DEF BeginImport
<1> QED BY <1>10, <1>11, Moves, QuietIsStable
\* What an import has added, it knows from the next item on.
LEMMA NextItemKeeps == ASSUME IntakeInv, NEW j \in Jobs, NextItem(j) PROVE IntakeInv'
<1> DEFINE was == job[j]
           added == IF was.answer = "added" THEN {was.made} ELSE {}
           grown == IF added = {} THEN was.known ELSE [was.known EXCEPT ![EmailOf[was.st]] = was.made]
<1>1. PICK known : known = grown
  OBVIOUS
<1>2. PICK r : r = [was EXCEPT !.pc = "convert", !.st = Head(was.rest), !.rest = Tail(@), !.known = known,
                               !.id = known[EmailOf[Head(was.rest)]], !.before = @ \cup added, !.made = 0]
  OBVIOUS
<1>3. Step(j, r) /\ Quiet /\ was.pc = "item"
  BY <1>1, <1>2 DEF NextItem
<1>4. /\ KindOf[j] = "import" /\ KnowsAll(was)
      /\ was \in Call /\ Located(was) /\ OwnsRow(was)
      /\ TableShape /\ inserted \in Nat /\ 0 \notin Stored
      /\ was.id \in Nat /\ was.made \in Nat /\ was.known \in [Emails -> Nat]
  BY <1>3, CallFacts DEF Sound
<1>5. Head(was.rest) \in Sts /\ Tail(was.rest) \in Seq(Sts)
  <2>1. was.rest \in Seq(Sts) /\ was.rest # <<>>
    BY <1>3, <1>4 DEF Located, Call
  <2> QED BY <2>1
<1>6. PICK st \in Sts, rest \in Seq(Sts) : st = Head(was.rest) /\ rest = Tail(was.rest)
  BY <1>5
<1>7. /\ was.before \subseteq 1 .. inserted /\ was.made =< inserted
      /\ was.answer = "added" => was.made = was.id /\ was.made # 0 /\ was.st \in Sts
  BY <1>3, <1>4 DEF Located, OwnsRow
<1>8. PICK before \in SUBSET Nat : before = was.before \cup added /\ before \subseteq 1 .. inserted
  <2>1. added \subseteq 1 .. inserted
    BY <1>4, <1>7
  <2> HIDE DEF added
  <2>2. PICK prior, extra : prior = was.before /\ extra = added
    OBVIOUS
  <2>3. prior \subseteq 1 .. inserted /\ extra \subseteq 1 .. inserted
    BY <1>7, <2>1, <2>2
  <2>4. prior \cup extra \in SUBSET Nat /\ prior \cup extra \subseteq 1 .. inserted
    BY <1>4, <2>3
  <2> QED BY <2>2, <2>4
<1>9. ASSUME NEW e \in Emails
      PROVE  /\ known[e] \in Nat /\ known[e] =< inserted
             /\ known[e] \in Stored => EmailOf[rows[known[e]].st] = e
             /\ known[e] = 0 => \A i \in before \cap Stored : EmailOf[rows[i].st] # e
  <2>1. CASE was.answer # "added"
    <3>1. known = was.known /\ before = was.before
      BY <1>1, <1>8, <2>1
    <3> QED BY <1>4, <3>1 DEF OwnsRow, KnowsAll
  <2>2. CASE was.answer = "added"
    <3>1. known = [was.known EXCEPT ![EmailOf[was.st]] = was.made] /\ before = was.before \cup {was.made}
      BY <1>1, <1>8, <2>2
    <3>2. was.made \in Stored => EmailOf[rows[was.made].st] = EmailOf[was.st]
      BY <1>4, <1>7, <2>2 DEF OwnsRow
    <3>3. CASE e = EmailOf[was.st]
      <4>1. known[e] = was.made
        BY <1>4, <3>1, <3>3
      <4> QED BY <1>4, <1>7, <2>2, <3>2, <3>3, <4>1
    <3>4. CASE e # EmailOf[was.st]
      <4>1. known[e] = was.known[e]
        BY <1>4, <3>1, <3>4
      <4> QED BY <1>4, <3>1, <3>2, <3>4, <4>1 DEF OwnsRow, KnowsAll
    <3> QED BY <3>3, <3>4
  <2> QED BY <2>1, <2>2
<1>10. known \in [Emails -> Nat] /\ EmailOf[st] \in Emails
  <2>1. DOMAIN known = Emails /\ known = [e \in DOMAIN known |-> known[e]]
    BY <1>1, <1>4
  <2> QED BY <1>9, <2>1 DEF Emails
<1> HIDE DEF added, grown
<1>11. PICK id \in Nat : id = known[EmailOf[st]]
  BY <1>10
<1>12. /\ r \in Call /\ r.pc = "convert" /\ r.st = st /\ r.known = known /\ r.id = id
       /\ r.before = before /\ r.made = 0
  <2>1. r = [was EXCEPT !.pc = "convert", !.st = st, !.rest = rest, !.known = known,
                        !.id = id, !.before = before, !.made = 0]
    BY <1>2, <1>6, <1>8, <1>11
  <2>2. /\ r.pc = "convert" /\ r.st = st /\ r.known = known /\ r.id = id /\ r.before = before
        /\ r.made = 0
    BY <1>4, <2>1 DEF Call
  <2>3. r \in Call
    BY <1>4, <1>8, <1>10, <2>1 DEF Call, Points
  <2> QED BY <2>2, <2>3
<1>13. Located(r)
  BY <1>9, <1>10, <1>11, <1>12 DEF Located
<1>14. OwnsRow(r)
  BY <1>8, <1>9, <1>10, <1>11, <1>12 DEF OwnsRow
<1>15. KnowsAll(r)
  BY <1>9, <1>12 DEF KnowsAll
<1>16. Adding(j, r) => Apart(r)
  BY <1>4, <1>9, <1>10, <1>11, <1>12 DEF Adding, Apart
<1>17. Sound(j, r)
  BY <1>4, <1>12, <1>13, <1>14, <1>15, <1>16 DEF Sound
<1> QED BY <1>3, <1>17, Moves, QuietIsStable
LEMMA StartKeeps == ASSUME IntakeInv, NEW j \in Jobs, StartSession(j) PROVE IntakeInv'
<1>1. PICK r : r = [job[j] EXCEPT !.pc = "launch"]
  OBVIOUS
<1>2. KindOf[j] = "onboard" /\ job[j].pc = "idle" /\ Step(j, r)
  BY <1>1 DEF StartSession, Goes
<1>3. /\ r \in Call /\ r.pc = "launch" /\ r.answer = job[j].answer
      /\ r.st = job[j].st /\ r.rest = job[j].rest /\ r.known = job[j].known /\ r.id = job[j].id
      /\ r.kept = job[j].kept /\ r.before = job[j].before /\ r.made = job[j].made
  <2>1. PICK q \in Call : q = job[j]
    BY CallFacts
  <2>2. /\ r.pc = "launch" /\ r.answer = q.answer /\ r.st = q.st /\ r.rest = q.rest
        /\ r.known = q.known /\ r.id = q.id /\ r.kept = q.kept /\ r.before = q.before
        /\ r.made = q.made
    BY <1>1, <2>1 DEF Call
  <2>3. r \in Call
    BY <1>1, <2>1, PointsHave DEF Call
  <2> QED BY <2>1, <2>2, <2>3
<1>4. Located(r) /\ OwnsRow(r) /\ KeepsProfile(j, r) /\ ~Adding(j, r)
  BY <1>2, <1>3, CallFacts DEF Located, OwnsRow, KeepsProfile, Adding
<1>5. Sound(j, r)
  BY <1>2, <1>3, <1>4 DEF Sound
<1>6. Stable /\ profiles' = profiles
  BY CallFacts, SameTable DEF StartSession
<1> QED BY <1>2, <1>5, <1>6, Moves

\* Flow's refusal ends the call.
LEMMA ConvertsKeep ==
    ASSUME IntakeInv, Quiet, NEW j \in Jobs, NEW pc \in Points, Converts(j, pc),
           job[j].pc \in {"convert", "prepare", "credits", "project"},
           pc \in {"lookup", "check", "update", "credits", "project", "insert"},
           pc = "lookup" => job[j].pc = "convert",
           pc \in {"check", "credits", "project", "insert"} /\ KindOf[j] # "add" => Apart(job[j])
    PROVE  IntakeInv'
<1>1. Stable /\ profiles' = profiles
  BY QuietIsStable
<1>2. job[j].st \in Sts /\ (KindOf[j] = "onboard" => ~job[j].kept)
  BY CallFacts DEF Located, KeepsProfile
<1>3. CASE Ends(j, "failed")
  BY <1>1, <1>2, <1>3, EndsKeeps
<1>4. CASE Goes(j, pc)
  BY <1>1, <1>2, <1>4, GoesKeeps
<1> QED BY <1>3, <1>4 DEF Converts

LEMMA ConversionsKeep ==
    ASSUME IntakeInv, NEW j \in Jobs,
           \/ PluginConverts(j) \/ ImportConverts(j) \/ OnboardConverts(j)
           \/ Prepare(j) \/ Credits(j) \/ FirstProject(j)
    PROVE  IntakeInv'
<1>1. CASE PluginConverts(j) \/ OnboardConverts(j)
  BY <1>1, ConvertsKeep DEF PluginConverts, OnboardConverts, Points
<1>2. CASE ImportConverts(j)
  <2>1. PICK pc : pc = IF job[j].id = 0 THEN "check" ELSE "update"
    OBVIOUS
  <2>2. pc = "check" => Apart(job[j])
    BY <1>2, <2>1, CallFacts DEF ImportConverts, Sound, Adding
  <2> QED BY <1>2, <2>1, <2>2, ConvertsKeep DEF ImportConverts, Points
<1>3. CASE Prepare(j) \/ Credits(j) \/ FirstProject(j)
  <2>1. KindOf[j] # "add" => Apart(job[j])
    BY <1>3, CallFacts DEF Prepare, Credits, FirstProject, Sound, Adding
  <2>2. CASE Prepare(j)
    BY <2>1, <2>2, ConvertsKeep DEF Prepare, Points
  <2>3. CASE Credits(j)
    BY <2>1, <2>3, ConvertsKeep DEF Credits, Converts, Points
  <2>4. CASE FirstProject(j)
    BY <2>1, <2>4, ConvertsKeep DEF FirstProject, Converts, Points
  <2> QED BY <1>3, <2>2, <2>3, <2>4
<1> QED BY <1>1, <1>2, <1>3

LEMMA LookupKeeps == ASSUME IntakeInv, NEW j \in Jobs, Lookup(j) PROVE IntakeInv'
<1>1. /\ Stable /\ profiles' = profiles /\ job[j].pc = "lookup" /\ job[j].st \in Sts
      /\ job[j].made = 0
  BY QuietIsStable, CallFacts DEF Lookup, Located
<1>2. PICK ids \in SUBSET Stored : ids = ByEmail(job[j].st)
  BY DEF ByEmail, OfEmail
<1>3. PICK i \in 0 .. inserted : i = Oldest(ids) /\ (ids = {} => i = 0) /\ (ids # {} => i \in ids)
  BY OldestStored, CallFacts
<1>4. CASE i = 0
  <2>1. Goes(j, "check")
    BY <1>2, <1>3, <1>4 DEF Lookup, Goes
  <2>2. Apart(job[j])
    BY <1>2, <1>3, <1>4, CallFacts DEF Apart, ByEmail, OfEmail
  <2> QED BY <1>1, <2>1, <2>2, GoesKeeps DEF Points
<1>5. CASE i # 0
  <2>1. PICK r : r = [job[j] EXCEPT !.pc = "update", !.id = i, !.was = rows[i].active]
    OBVIOUS
  <2>2. Step(j, r)
    BY <1>2, <1>3, <1>5, <2>1 DEF Lookup
  <2>3. i \in Stored /\ EmailOf[rows[i].st] = EmailOf[job[j].st] /\ rows[i].active \in BOOLEAN
    BY <1>2, <1>3, <1>5, CallFacts DEF ByEmail, OfEmail, TableShape, Row
  <2>4. PICK was \in BOOLEAN : was = rows[i].active
    BY <2>3
  <2>5. /\ r \in Call /\ r.pc = "update" /\ r.answer = job[j].answer
        /\ r.st = job[j].st /\ r.rest = job[j].rest /\ r.known = job[j].known /\ r.id = i
        /\ r.kept = job[j].kept /\ r.before = job[j].before /\ r.made = job[j].made
    <3>1. r = [job[j] EXCEPT !.pc = "update", !.id = i, !.was = was] /\ i \in Nat
      BY <1>3, <2>1, <2>4, CallFacts
    <3>2. r \in Call
      <4>1. PICK q \in Call : q = job[j]
        BY CallFacts
      <4> QED BY <3>1, <4>1, PointsHave DEF Call
    <3> QED BY <3>1, <3>2, CallFacts DEF Call
  <2>6. Located(r) /\ OwnsRow(r)
    BY <1>1, <1>3, <2>3, <2>5, CallFacts DEF Located, OwnsRow
  <2>7. ~Adding(j, r)
    BY <1>1, <2>5, CallFacts DEF Adding
  <2>8. KindOf[j] = "import" => KnowsAll(r)
    BY <2>5, CallFacts DEF Sound, KnowsAll
  <2>9. KindOf[j] = "onboard" => KeepsProfile(j, r)
    BY <1>1, <2>5, CallFacts DEF KeepsProfile
  <2>10. Sound(j, r)
    BY <2>5, <2>6, <2>7, <2>8, <2>9 DEF Sound
  <2> QED BY <1>1, <2>2, <2>10, Moves
<1> QED BY <1>4, <1>5

LEMMA CheckKeeps == ASSUME IntakeInv, NEW j \in Jobs, Check(j) PROVE IntakeInv'
<1>1. Stable /\ profiles' = profiles /\ job[j].pc = "check"
  BY QuietIsStable DEF Check
<1>2. job[j].st \in Sts /\ (KindOf[j] = "onboard" => ~job[j].kept)
  BY <1>1, CallFacts DEF Located, KeepsProfile
<1>3. KindOf[j] # "add" => Apart(job[j])
  BY <1>1, CallFacts DEF Sound, Adding
<1>4. CASE Ends(j, "failed")
  BY <1>1, <1>2, <1>4, EndsKeeps
<1>5. CASE Goes(j, "prepare")
  BY <1>1, <1>2, <1>3, <1>5, GoesKeeps DEF Points
<1> QED BY <1>4, <1>5 DEF Check
LEMMA InsertKeeps == ASSUME IntakeInv, NEW j \in Jobs, Insert(j) PROVE IntakeInv'
<1>1. PICK q \in Call : q = job[j] /\ Sound(j, q) /\ q.pc = "insert" /\ q.st \in Sts
  BY CallFacts DEF Insert, Located
<1>2. CASE BySt(job[j].st) # {}
  <2>1. Ends(j, "failed") /\ Stable /\ profiles' = profiles
    BY <1>2, CallFacts, SameTable DEF Insert
  <2>2. KindOf[j] = "onboard" => ~job[j].kept
    BY <1>1, CallFacts DEF KeepsProfile
  <2> QED BY <2>1, <2>2, EndsKeeps
<1>3. CASE BySt(job[j].st) = {}
  <2>1. PICK i : i = inserted + 1
    OBVIOUS
  <2>2. i \in Nat /\ i =< MaxId /\ inserted' = i /\ i \notin Stored /\ Stored \subseteq 1 .. inserted
    BY <1>3, <2>1, CallFacts, IntakeAssumption DEF Insert, TableShape
  <2>3. rows' = [k \in Stored \cup {i} |-> IF k = i THEN NewRow(q.st) ELSE rows[k]]
    BY <1>1, <1>3, <2>1 DEF Insert
  <2>4. Stored' = Stored \cup {i} /\ rows'[i] = NewRow(q.st) /\ \A k \in Stored : rows'[k] = rows[k]
    BY <2>2, <2>3 DEF Stored
  <2>5. NewRow(q.st) \in Row /\ NewRow(q.st).st = q.st
    BY <1>1 DEF NewRow, Row
  <2>6. TableShape'
    <3>1. inserted' \in 0 .. MaxId
      BY <2>2, IntakeAssumption
    <3>2. Stored' \subseteq 1 .. inserted'
      <4>1. inserted \in Nat /\ 1 .. inserted \subseteq 1 .. i /\ i \in 1 .. i
        BY <2>1, CallFacts
      <4> QED BY <2>2, <2>4, <4>1
    <3>3. \A k \in Stored' : rows'[k] \in Row
      BY <2>4, <2>5, CallFacts DEF TableShape
    <3> QED BY <3>1, <3>2, <3>3 DEF TableShape
  <2>7. Stable
    BY <2>1, <2>2, <2>4, <2>6, CallFacts DEF Stable
  <2>8. profiles' = profiles
    BY DEF Insert
  <2>9. Sound(j, q)'
    BY <1>1, <2>7, <2>8, SoundStays, CallFacts
  <2>10. PICK r : r = [q EXCEPT !.pc = "pool", !.id = i, !.made = i]
    OBVIOUS
  <2>11. Step(j, r)
    BY <1>1, <1>3, <2>1, <2>10 DEF Insert
  <2>12. /\ r \in Call /\ r.pc = "pool" /\ r.answer = q.answer
         /\ r.st = q.st /\ r.rest = q.rest /\ r.known = q.known /\ r.id = i
         /\ r.kept = q.kept /\ r.before = q.before /\ r.made = i
    BY <2>2, <2>10 DEF Call, Points
  <2>13. Located(r)'
    BY <1>1, <2>1, <2>2, <2>12, CallFacts DEF Located
  <2>14. OwnsRow(r)'
    BY <2>4, <2>5, <2>9, <2>12 DEF Sound, OwnsRow
  <2>15. Adding(j, r)' => Apart(r)'
    BY <1>1, <2>9, <2>12 DEF Sound, Adding, Apart
  <2>16. KindOf[j] = "import" => KnowsAll(r)'
    BY <2>9, <2>12 DEF Sound, KnowsAll
  <2>17. KindOf[j] = "onboard" => KeepsProfile(j, r)'
    BY <1>1, <2>9, <2>12 DEF Sound, KeepsProfile
  <2>18. Sound(j, r)'
    BY <2>12, <2>13, <2>14, <2>15, <2>16, <2>17 DEF Sound
  <2> QED BY <2>7, <2>8, <2>11, <2>18, MovesTo
<1> QED BY <1>2, <1>3

LEMMA ReturnsKeep ==
    ASSUME IntakeInv, NEW j \in Jobs,
           PoolFails(j) \/ AddReturns(j) \/ PluginReturns(j) \/ ImportReturns(j) \/ OnboardReturns(j)
    PROVE  IntakeInv'
<1>1. Stable /\ profiles' = profiles /\ job[j].pc = "pool"
  BY QuietIsStable DEF PoolFails, AddReturns, PluginReturns, ImportReturns, OnboardReturns
<1>2. job[j].made # 0 /\ (KindOf[j] = "onboard" => ~job[j].kept)
  BY <1>1, CallFacts DEF Located, KeepsProfile
<1>3. CASE PoolFails(j)
  BY <1>1, <1>2, <1>3, EndsKeeps DEF PoolFails
<1>4. CASE AddReturns(j) \/ PluginReturns(j)
  BY <1>1, <1>2, <1>4, EndsKeeps DEF AddReturns, PluginReturns
<1>5. CASE ImportReturns(j)
  <2>1. CASE Ends(j, "added")
    BY <1>1, <1>2, <1>5, <2>1, EndsKeeps DEF ImportReturns
  <2>2. CASE Goes(j, "disable")
    BY <1>1, <1>5, <2>2, GoesKeeps DEF ImportReturns, Points
  <2> QED BY <1>5, <2>1, <2>2 DEF ImportReturns
<1>6. CASE OnboardReturns(j)
  BY <1>1, <1>6, GoesKeeps DEF OnboardReturns, Points
<1> QED BY <1>3, <1>4, <1>5, <1>6
\* What is written to a row is of the row's account.
LEMMA WritesStable ==
    ASSUME TableShape, NEW i, NEW entry, Writes(i, entry),
           i \in Stored => entry \in Row /\ EmailOf[entry.st] = EmailOf[rows[i].st]
    PROVE  Stable /\ profiles' = profiles
<1>1. /\ Stored' = Stored /\ inserted' = inserted /\ profiles' = profiles
      /\ \A k \in Stored : rows'[k] = IF k = i THEN entry ELSE rows[k]
  BY DEF Writes, Stored
<1>2. \A k \in Stored : rows'[k] \in Row /\ EmailOf[rows'[k].st] = EmailOf[rows[k].st]
  BY <1>1 DEF TableShape
<1>3. TableShape'
  BY <1>1, <1>2 DEF TableShape
<1>4. inserted =< inserted
  BY IntakeAssumption DEF TableShape
<1> QED BY <1>1, <1>2, <1>3, <1>4 DEF Stable

\* A row that is there is the call's to write.
LEMMA OwnRow ==
    ASSUME IntakeInv, NEW j \in Jobs, job[j].id \in Stored
    PROVE  /\ RowOf(j) = rows[job[j].id] /\ RowOf(j) \in Row /\ job[j].st \in Sts
           /\ EmailOf[RowOf(j).st] = EmailOf[job[j].st]
<1>1. RowOf(j) = rows[job[j].id] /\ job[j].id # 0
  BY CallFacts DEF RowOf
<1> QED BY <1>1, CallFacts DEF TableShape, Located, OwnsRow

LEMMA UpdateTokenStable ==
    ASSUME IntakeInv, NEW j \in Jobs, UpdateToken(j) PROVE Stable /\ profiles' = profiles
<1>1. PICK entry : entry = [RowOf(j) EXCEPT !.st = job[j].st]
  OBVIOUS
<1>2. ASSUME job[j].id \in Stored
      PROVE  entry \in Row /\ EmailOf[entry.st] = EmailOf[rows[job[j].id].st]
  BY <1>1, <1>2, OwnRow DEF Row
<1> QED BY <1>1, <1>2, WritesStable, CallFacts DEF UpdateToken

LEMMA UpdatesKeep ==
    ASSUME IntakeInv, NEW j \in Jobs, PluginUpdates(j) \/ ImportUpdates(j) PROVE IntakeInv'
<1>1. Stable /\ profiles' = profiles /\ job[j].pc = "update" /\ KindOf[j] \in {"plugin", "import"}
  BY UpdateTokenStable DEF PluginUpdates, ImportUpdates
<1>2. CASE Ends(j, "updated")
  BY <1>1, <1>2, EndsKeeps
<1>3. ASSUME NEW pc \in {"enable", "disable"}, Goes(j, pc) PROVE IntakeInv'
  BY <1>1, <1>3, GoesKeeps DEF Points
<1> QED BY <1>2, <1>3 DEF PluginUpdates, ImportUpdates

LEMMA UpdateConflictsKeep == ASSUME IntakeInv, NEW j \in Jobs, UpdateConflicts(j) PROVE IntakeInv'
<1>1. Stable /\ profiles' = profiles /\ Ends(j, "failed") /\ job[j].pc = "update"
  BY QuietIsStable DEF UpdateConflicts
<1>2. KindOf[j] = "onboard" => ~job[j].kept
  BY <1>1, CallFacts DEF KeepsProfile
<1> QED BY <1>1, <1>2, EndsKeeps

LEMMA SwitchKeeps == ASSUME IntakeInv, NEW j \in Jobs, Switch(j) PROVE IntakeInv'
<1>1. PICK on \in BOOLEAN : on = (job[j].pc = "enable")
  OBVIOUS
<1>2. PICK entry : entry = [RowOf(j) EXCEPT !.active = job[j].pc = "enable"]
  OBVIOUS
<1>3. ASSUME job[j].id \in Stored
      PROVE  entry \in Row /\ EmailOf[entry.st] = EmailOf[rows[job[j].id].st]
  <2>1. entry = [RowOf(j) EXCEPT !.active = on]
    BY <1>1, <1>2
  <2>2. RowOf(j) \in Row /\ RowOf(j) = rows[job[j].id]
    BY <1>3, OwnRow
  <2> QED BY <2>1, <2>2 DEF Row
<1>4. Stable /\ profiles' = profiles
  BY <1>2, <1>3, WritesStable, CallFacts DEF Switch
<1>5. KindOf[j] # "onboard"
  BY CallFacts DEF Switch, KeepsProfile
<1>6. PICK result \in {"added", "updated"} :
         result = (IF job[j].made # 0 THEN "added" ELSE "updated") /\ Ends(j, result)
  BY DEF Switch
<1> QED BY <1>4, <1>5, <1>6, EndsKeeps

\* The profile is noted as kept once it is written, or not at all.
LEMMA PersistKeeps == ASSUME IntakeInv, NEW j \in Jobs, PersistProfile(j) PROVE IntakeInv'
<1>1. /\ KindOf[j] = "onboard" /\ job[j].pc \in {"update", "profile"}
      /\ j \in profiles /\ ~job[j].kept
  BY CallFacts DEF PersistProfile, KeepsProfile
<1>2. PICK st : st = IF job[j].pc = "update" THEN job[j].st ELSE RowOf(j).st
  OBVIOUS
<1>3. PICK entry : entry = [RowOf(j) EXCEPT !.profile = j,
                                            !.st = IF job[j].pc = "update" THEN job[j].st ELSE @]
  OBVIOUS
<1>4. ASSUME job[j].id \in Stored
      PROVE  entry \in Row /\ EmailOf[entry.st] = EmailOf[rows[job[j].id].st]
  <2>1. PICK prior \in Row : prior = RowOf(j) /\ prior = rows[job[j].id]
    BY <1>4, OwnRow
  <2>2. entry = [prior EXCEPT !.profile = j, !.st = st]
    BY <1>2, <1>3, <2>1
  <2>3. st \in Sts /\ EmailOf[st] = EmailOf[prior.st]
    BY <1>2, <1>4, <2>1, OwnRow DEF Row
  <2>4. entry \in Row /\ entry.st = st
    BY <2>2, <2>3 DEF Row
  <2> QED BY <2>1, <2>3, <2>4
<1>5. Stable /\ profiles' = profiles
  BY <1>3, <1>4, WritesStable, CallFacts DEF PersistProfile
<1>6. ASSUME NEW kept \in BOOLEAN, NEW result \in {"added", "updated", "timeout"},
             result = "timeout" => kept = job[j].kept, result # "timeout" => kept = TRUE,
             Step(j, [job[j] EXCEPT !.pc = "close", !.kept = kept, !.answer = result])
      PROVE  IntakeInv'
  <2>1. PICK r : r = [job[j] EXCEPT !.pc = "close", !.kept = kept, !.answer = result]
    OBVIOUS
  <2>2. /\ r \in Call /\ r.pc = "close" /\ r.answer = result
        /\ r.st = job[j].st /\ r.rest = job[j].rest /\ r.known = job[j].known /\ r.id = job[j].id
        /\ r.kept = kept /\ r.before = job[j].before /\ r.made = job[j].made
    <3>1. PICK q \in Call : q = job[j]
      BY CallFacts
    <3>2. /\ r.pc = "close" /\ r.answer = result /\ r.st = q.st /\ r.rest = q.rest
          /\ r.known = q.known /\ r.id = q.id /\ r.kept = kept /\ r.before = q.before
          /\ r.made = q.made
      BY <2>1, <3>1 DEF Call
    <3>3. r \in Call
      BY <2>1, <3>1, PointsHave DEF Call
    <3> QED BY <3>1, <3>2, <3>3
  <2>3. Located(r) /\ OwnsRow(r)
    BY <1>1, <2>2, CallFacts DEF Located, OwnsRow
  <2>4. Adding(j, r) => Apart(r)
    BY <2>2, CallFacts DEF Sound, Adding, Apart
  <2>5. KeepsProfile(j, r)
    BY <1>1, <1>6, <2>2 DEF KeepsProfile
  <2>6. Sound(j, r)
    BY <1>1, <2>2, <2>3, <2>4, <2>5 DEF Sound
  <2> QED BY <1>5, <1>6, <2>1, <2>6, Moves
<1>7. PICK result \in {"added", "updated"} : result = IF job[j].made # 0 THEN "added" ELSE "updated"
  OBVIOUS
<1>8. CASE Step(j, [job[j] EXCEPT !.pc = "close", !.kept = TRUE, !.answer = result])
  BY <1>6, <1>8
<1>9. CASE Step(j, [job[j] EXCEPT !.pc = "close", !.answer = "timeout"])
  <2>1. PICK kept \in BOOLEAN : kept = job[j].kept
    BY CallFacts DEF Call
  <2>2. [job[j] EXCEPT !.pc = "close", !.answer = "timeout"] =
           [job[j] EXCEPT !.pc = "close", !.kept = kept, !.answer = "timeout"]
    BY <2>1, CallFacts DEF Call
  <2> QED BY <1>6, <1>9, <2>1, <2>2
<1> QED BY <1>7, <1>8, <1>9 DEF PersistProfile
LEMMA LaunchKeeps == ASSUME IntakeInv, NEW j \in Jobs, Launch(j) PROVE IntakeInv'
<1>1. PICK q \in Call : q = job[j] /\ Sound(j, q) /\ q.pc = "launch"
  BY CallFacts DEF Launch
<1>2. PICK r : r = [q EXCEPT !.pc = "login"]
  OBVIOUS
<1>3. /\ r \in Call /\ r.pc = "login" /\ r.answer = q.answer
      /\ r.st = q.st /\ r.rest = q.rest /\ r.known = q.known /\ r.id = q.id
      /\ r.kept = q.kept /\ r.before = q.before /\ r.made = q.made
  BY <1>2 DEF Call, Points
<1>4. Stable /\ j \in profiles' /\ \A k \in profiles : k \in profiles'
  BY CallFacts, SameTable DEF Launch
<1>5. Sound(j, q)'
  BY <1>1, <1>4, SoundStays, CallFacts
<1>6. Located(r)' /\ OwnsRow(r)'
  BY <1>1, <1>3, <1>5 DEF Sound, Located, OwnsRow
<1>7. Adding(j, r)' => Apart(r)'
  BY <1>3, <1>5 DEF Sound, Adding, Apart
<1>8. KindOf[j] = "import" => KnowsAll(r)'
  BY <1>3, <1>5 DEF Sound, KnowsAll
<1>9. KindOf[j] = "onboard" => KeepsProfile(j, r)'
  BY <1>1, <1>3, <1>4, <1>5 DEF Sound, KeepsProfile
<1>10. Sound(j, r)'
  BY <1>1, <1>3, <1>6, <1>7, <1>8, <1>9 DEF Sound
<1>11. Step(j, r)
  BY <1>1, <1>2 DEF Launch, Goes
<1> QED BY <1>4, <1>10, <1>11, MovesTo

LEMMA CaptureKeeps == ASSUME IntakeInv, NEW j \in Jobs, CaptureResult(j) PROVE IntakeInv'
<1>1. Stable /\ profiles' = profiles /\ job[j].pc = "login"
  BY QuietIsStable DEF CaptureResult
<1>2. /\ job[j].id = 0 /\ job[j].made = 0
      /\ KindOf[j] = "onboard" /\ ~job[j].kept /\ j \in profiles
  BY <1>1, CallFacts DEF Located, KeepsProfile, Sound
<1>3. CASE Ends(j, "failed")
  BY <1>1, <1>2, <1>3, EndsKeeps
<1>4. ASSUME NEW st \in Sts,
             Step(j, [job[j] EXCEPT !.pc = "convert", !.st = st, !.before = Stored])
      PROVE  IntakeInv'
  <2>1. PICK r : r = [job[j] EXCEPT !.pc = "convert", !.st = st, !.before = Stored]
    OBVIOUS
  <2>2. Stored \subseteq 1 .. inserted /\ Stored \in SUBSET Nat
    BY CallFacts DEF TableShape
  <2>3. /\ r \in Call /\ r.pc = "convert" /\ r.st = st /\ r.answer = job[j].answer
        /\ r.rest = job[j].rest /\ r.known = job[j].known /\ r.id = job[j].id
        /\ r.kept = job[j].kept /\ r.before = Stored /\ r.made = job[j].made
    <3>1. PICK q \in Call : q = job[j]
      BY CallFacts
    <3>2. /\ r.pc = "convert" /\ r.st = st /\ r.answer = q.answer /\ r.rest = q.rest
          /\ r.known = q.known /\ r.id = q.id /\ r.kept = q.kept /\ r.before = Stored
          /\ r.made = q.made
      BY <2>1, <2>2, <3>1 DEF Call
    <3>3. r \in Call
      BY <2>1, <2>2, <3>1, PointsHave DEF Call
    <3> QED BY <3>1, <3>2, <3>3
  <2>4. Located(r) /\ OwnsRow(r)
    BY <1>2, <2>2, <2>3, CallFacts DEF Located, OwnsRow
  <2>5. KeepsProfile(j, r)
    BY <1>2, <2>3 DEF KeepsProfile
  <2>6. Sound(j, r)
    BY <1>2, <2>3, <2>4, <2>5, CallFacts DEF Sound, Adding
  <2> QED BY <1>1, <1>4, <2>1, <2>6, Moves
<1> QED BY <1>3, <1>4 DEF CaptureResult
LEMMA DeadlineKeeps == ASSUME IntakeInv, NEW j \in Jobs, Deadline(j) PROVE IntakeInv'
<1>1. Stable /\ profiles' = profiles /\ Ends(j, "timeout")
  BY QuietIsStable DEF Deadline
<1>2. ~job[j].kept
  BY CallFacts DEF Deadline, KeepsProfile
<1> QED BY <1>1, <1>2, EndsKeeps

\* Only an onboarding that keeps nothing takes its profile along.
LEMMA CloseKeeps == ASSUME IntakeInv, NEW j \in Jobs, Close(j) PROVE IntakeInv'
<1>1. PICK q \in Call : q = job[j] /\ Sound(j, q) /\ q.pc = "close"
  BY CallFacts DEF Close
<1>2. PICK r : r = [q EXCEPT !.pc = "finish"]
  OBVIOUS
<1>3. /\ r \in Call /\ r.pc = "finish" /\ r.answer = q.answer
      /\ r.st = q.st /\ r.rest = q.rest /\ r.known = q.known /\ r.id = q.id
      /\ r.kept = q.kept /\ r.before = q.before /\ r.made = q.made
  BY <1>2 DEF Call, Points
<1>4. /\ Stable /\ (q.kept => profiles' = profiles)
      /\ \A k \in Jobs \ {j} : k \in profiles => k \in profiles'
  BY <1>1, CallFacts, SameTable DEF Close
<1>5. Step(j, r)
  BY <1>1, <1>2 DEF Close, Goes
<1>6. UNCHANGED <<rows, inserted>>
  BY DEF Close
<1>7. Located(r) /\ OwnsRow(r) /\ (Adding(j, r) => Apart(r)) /\ (KindOf[j] = "import" => KnowsAll(r))
  BY <1>1, <1>3 DEF Sound, Located, OwnsRow, Adding, Apart, KnowsAll
<1>8. /\ Located(r)' /\ OwnsRow(r)' /\ (Adding(j, r)' => Apart(r)')
      /\ (KindOf[j] = "import" => KnowsAll(r)')
  BY <1>6, <1>7 DEF Located, OwnsRow, Adding, Apart, KnowsAll, Stored
<1>9. KindOf[j] = "onboard" => KeepsProfile(j, r)'
  BY <1>1, <1>3, <1>4 DEF Sound, KeepsProfile
<1>10. Sound(j, r)'
  BY <1>3, <1>8, <1>9 DEF Sound
<1> QED BY <1>4, <1>5, <1>10, MovesTo

LEMMA FinishKeeps == ASSUME IntakeInv, NEW j \in Jobs, Finish(j) PROVE IntakeInv'
<1>1. Stable /\ profiles' = profiles /\ job[j].pc = "finish" /\ Goes(j, "done")
  BY CallFacts, SameTable DEF Finish
<1> QED BY <1>1, GoesKeeps DEF Points

LEMMA RowsChange ==
    ASSUME IntakeInv, NEW i \in Ids, DeleteRow(i) \/ Disable(i) PROVE IntakeInv'
<1>1. TableShape /\ inserted \in Nat
  BY IntakeAssumption DEF IntakeInv, TableShape
<1>2. CASE DeleteRow(i)
  <2>1. /\ Stored' = Stored \ {i} /\ inserted' = inserted
        /\ \A k \in Stored' : rows'[k] = rows[k]
    BY <1>2 DEF DeleteRow, Stored
  <2>2. TableShape'
    BY <1>1, <2>1 DEF TableShape
  <2>3. Stable
    BY <1>1, <2>1, <2>2 DEF Stable
  <2> QED BY <1>2, <2>3, Rests DEF DeleteRow
<1>3. CASE Disable(i)
  <2>1. PICK entry : entry = [rows[i] EXCEPT !.active = FALSE]
    OBVIOUS
  <2>2. i \in Stored /\ rows' = [rows EXCEPT ![i] = entry] /\ inserted' = inserted
    BY <1>3, <2>1 DEF Disable
  <2>3. entry \in Row /\ entry.st = rows[i].st
    BY <1>1, <2>1, <2>2 DEF TableShape, Row
  <2>4. Stored' = Stored /\ \A k \in Stored : rows'[k] = IF k = i THEN entry ELSE rows[k]
    BY <2>2 DEF Stored
  <2>5. TableShape'
    BY <1>1, <2>2, <2>3, <2>4 DEF TableShape
  <2>6. Stable
    BY <1>1, <2>2, <2>3, <2>4, <2>5 DEF Stable
  <2> QED BY <1>3, <2>6, Rests DEF Disable
<1> QED BY <1>2, <1>3

LEMMA RestartKeeps == ASSUME IntakeInv, Restart PROVE IntakeInv'
<1>1. UNCHANGED <<rows, inserted, profiles>> /\ TableShape
  BY DEF Restart, IntakeInv
<1>2. Stable
  BY <1>1, SameTable
<1>3. ASSUME NEW k \in Jobs PROVE job'[k] \in Call /\ Sound(k, job[k])'
  <2>1. CASE job[k].pc \in {"idle", "done"}
    <3>1. PICK q : q = job[k] /\ Sound(k, q) /\ q \in Call
      BY CallFacts, <1>3
    <3>2. job'[k] = q
      BY <1>3, <2>1, <3>1 DEF Restart
    <3>3. Sound(k, q)'
      BY <1>1, <1>2, <3>1, SoundStays
    <3> QED BY <3>1, <3>2, <3>3
  <2>2. CASE job[k].pc \notin {"idle", "done"}
    <3>1. PICK r : r = [job[k] EXCEPT !.pc = "done", !.answer = "lost"]
      OBVIOUS
    <3>2. /\ r \in Call /\ r.pc = "done" /\ r.answer = "lost"
          /\ r.st = job[k].st /\ r.rest = job[k].rest /\ r.known = job[k].known /\ r.id = job[k].id
          /\ r.kept = job[k].kept /\ r.before = job[k].before /\ r.made = job[k].made
      <4>1. PICK q \in Call : q = job[k]
        BY CallFacts
      <4>2. /\ r.pc = "done" /\ r.answer = "lost" /\ r.st = q.st /\ r.rest = q.rest
            /\ r.known = q.known /\ r.id = q.id /\ r.kept = q.kept /\ r.before = q.before
            /\ r.made = q.made
        BY <3>1, <4>1 DEF Call
      <4>3. r \in Call
        BY <3>1, <4>1, PointsHave DEF Call
      <4> QED BY <4>1, <4>2, <4>3
    <3>3. Located(r) /\ OwnsRow(r)
      BY <3>2, CallFacts DEF Located, OwnsRow
    <3>4. Adding(k, r) => Apart(r)
      BY <3>2, CallFacts DEF Sound, Adding, Apart
    <3>5. KindOf[k] = "import" => KnowsAll(r)
      BY <3>2, CallFacts DEF Sound, KnowsAll
    <3>6. KindOf[k] = "onboard" => KeepsProfile(k, r)
      BY <3>2, CallFacts DEF KeepsProfile
    <3>7. Sound(k, r)
      BY <3>2, <3>3, <3>4, <3>5, <3>6 DEF Sound
    <3>8. Sound(k, r)'
      BY <1>1, <1>2, <3>7, SoundStays
    <3>9. job'[k] = r
      BY <1>3, <2>2, <3>1 DEF Restart
    <3> QED BY <3>2, <3>8, <3>9
  <2> QED BY <2>1, <2>2
<1>4. job' \in [Jobs -> Call]
  <2>1. job' = [k \in Jobs |-> job'[k]]
    BY DEF Restart
  <2> QED BY <1>3, <2>1
<1> QED BY <1>2, <1>3, <1>4 DEF IntakeInv, Stable
-----------------------------------------------------------------------------
(* The theorems about the intake.                                          *)

LEMMA IntakeStarts == IntakeInit => IntakeInv
<1> SUFFICES ASSUME IntakeInit PROVE IntakeInv
  OBVIOUS
<1>1. Stored = {} /\ inserted = 0
  BY DEF IntakeInit, Stored
<1>2. TableShape
  BY <1>1, IntakeAssumption DEF TableShape
<1>3. PICK known : known = [e \in Emails |-> 0]
  OBVIOUS
<1>4. Fresh = [pc |-> "idle", st |-> NoOne, rest |-> <<>>, known |-> known, id |-> 0,
               was |-> TRUE, kept |-> FALSE, before |-> {}, made |-> 0, answer |-> "none"]
  BY <1>3 DEF Fresh
<1>5. known \in [Emails -> Nat] /\ <<>> \in Seq(Sts) /\ \A e \in Emails : known[e] = 0
  BY <1>3
<1>6. Fresh \in Call
  BY <1>4, <1>5 DEF Call, Points
<1>7. PICK r : r = Fresh
  OBVIOUS
<1>8. /\ r \in Call /\ r.pc = "idle" /\ r.id = 0 /\ r.made = 0 /\ r.before = {} /\ r.kept = FALSE
      /\ r.known = known /\ r.answer = "none"
  BY <1>4, <1>6, <1>7
<1>9. Located(r) /\ OwnsRow(r) /\ KnowsAll(r) /\ Apart(r)
  BY <1>1, <1>5, <1>8 DEF Located, OwnsRow, KnowsAll, Apart
<1>10. \A j \in Jobs : KeepsProfile(j, r)
  BY <1>8 DEF KeepsProfile
<1>11. \A j \in Jobs : Sound(j, r)
  BY <1>8, <1>9, <1>10 DEF Sound
<1>12. job = [j \in Jobs |-> r]
  BY <1>7 DEF IntakeInit
<1> QED BY <1>2, <1>8, <1>11, <1>12 DEF IntakeInv

LEMMA ProgressKeeps == ASSUME IntakeInv, NEW j \in Jobs, Progress(j) PROVE IntakeInv'
<1>1. CASE NextItem(j)
  BY <1>1, NextItemKeeps
<1>2. CASE \/ PluginConverts(j) \/ ImportConverts(j) \/ OnboardConverts(j)
           \/ Prepare(j) \/ Credits(j) \/ FirstProject(j)
  BY <1>2, ConversionsKeep
<1>3. CASE Lookup(j)
  BY <1>3, LookupKeeps
<1>4. CASE Check(j)
  BY <1>4, CheckKeeps
<1>5. CASE Insert(j)
  BY <1>5, InsertKeeps
<1>6. CASE PoolFails(j) \/ AddReturns(j) \/ PluginReturns(j) \/ ImportReturns(j) \/ OnboardReturns(j)
  BY <1>6, ReturnsKeep
<1>7. CASE PluginUpdates(j) \/ ImportUpdates(j)
  BY <1>7, UpdatesKeep
<1>8. CASE UpdateConflicts(j)
  BY <1>8, UpdateConflictsKeep
<1>9. CASE Switch(j)
  BY <1>9, SwitchKeeps
<1>10. CASE PersistProfile(j)
  BY <1>10, PersistKeeps
<1>11. CASE Launch(j)
  BY <1>11, LaunchKeeps
<1>12. CASE CaptureResult(j)
  BY <1>12, CaptureKeeps
<1>13. CASE Close(j)
  BY <1>13, CloseKeeps
<1>14. CASE Finish(j)
  BY <1>14, FinishKeeps
<1> QED
  BY <1>1, <1>2, <1>3, <1>4, <1>5, <1>6, <1>7, <1>8, <1>9, <1>10, <1>11, <1>12, <1>13, <1>14
  DEF Progress

LEMMA IntakeStep == IntakeInv /\ [IntakeNext]_intakeVars => IntakeInv'
<1> SUFFICES ASSUME IntakeInv, [IntakeNext]_intakeVars PROVE IntakeInv'
  OBVIOUS
<1>1. ASSUME NEW j \in Jobs, Progress(j) PROVE IntakeInv'
  BY <1>1, ProgressKeeps
<1>2. ASSUME NEW j \in Jobs, StartSession(j) PROVE IntakeInv'
  BY <1>2, StartKeeps
<1>3. ASSUME NEW j \in Jobs, Deadline(j) PROVE IntakeInv'
  BY <1>3, DeadlineKeeps
<1>4. ASSUME NEW j \in Jobs, NEW st \in Sts, BeginAdd(j, st) PROVE IntakeInv'
  BY <1>4, BeginAddKeeps
<1>5. ASSUME NEW j \in Jobs, NEW st \in Sts, BeginPlugin(j, st) PROVE IntakeInv'
  BY <1>5, BeginPluginKeeps
<1>6. ASSUME NEW j \in Jobs, NEW items \in Imports, BeginImport(j, items) PROVE IntakeInv'
  BY <1>6, BeginImportKeeps
<1>7. ASSUME NEW i \in Ids, DeleteRow(i) \/ Disable(i) PROVE IntakeInv'
  BY <1>7, RowsChange
<1>8. CASE Restart
  BY <1>8, RestartKeeps
<1>9. CASE UNCHANGED intakeVars
  <2>1. UNCHANGED <<rows, inserted, job, profiles>>
    BY <1>9 DEF intakeVars
  <2>2. Stable
    BY <2>1, SameTable DEF IntakeInv
  <2> QED BY <2>1, <2>2, Rests
<1> QED BY <1>1, <1>2, <1>3, <1>4, <1>5, <1>6, <1>7, <1>8, <1>9 DEF IntakeNext

LEMMA IntakeInvHolds == IntakeSpec => []IntakeInv
BY IntakeStarts, IntakeStep, PTL DEF IntakeSpec

\* However calls overlap and rows come and go, a sync, an import or an
\* onboarding adds no row beside one of the same account that it could know of.
THEOREM SecondRowNeedsARaceHolds == IntakeSpec => []SecondRowNeedsARace
<1>1. IntakeInv => SecondRowNeedsARace
  BY DEF IntakeInv, Sound, Adding, Apart, SecondRowNeedsARace
<1> QED BY <1>1, IntakeInvHolds, PTL

\* An onboarding that reports its account has left the profile it logged in
\* with, wherever its deadline strikes and whatever other sessions remove.
THEOREM ReportedProfilesExistHolds == IntakeSpec => []ReportedProfilesExist
<1>1. IntakeInv => ReportedProfilesExist
  BY DEF IntakeInv, Sound, KeepsProfile, ReportedProfilesExist, Onboards
<1> QED BY <1>1, IntakeInvHolds, PTL

-----------------------------------------------------------------------------
(***************************************************************************)
(* AuthRecovery.                                                           *)
(***************************************************************************)
USE SessionAssumption, ActorAssumption, KeyAssumption, BoundAssumption
USE DEF Sessions, Recoverers, Actors

-----------------------------------------------------------------------------
(* Facts about single writes.                                              *)

\* The places the actions send their actors to.
LEMMA KnownPlaces ==
    /\ "idle" \in Places /\ "new" \in Places /\ "dead" \in Places /\ "lock" \in Places /\ "await" \in Places
    /\ "validate" \in Places /\ "served" \in Places /\ "refused" \in Places /\ "cancelled" \in Places
    /\ "failed" \in Places /\ "gone" \in Places /\ "browse" \in Places /\ "vet" \in Places
    /\ "commit" \in Places /\ "discard" \in Places /\ "spoiled" \in Places /\ "tidy" \in Places
    /\ "done" \in Places /\ "exchange" \in Places /\ "verify" \in Places /\ "exchange2" \in Places
    /\ "verify2" \in Places /\ "renew" \in Places /\ "login" \in Places /\ "convert" \in Places
    /\ "credits" \in Places /\ "profile" \in Places /\ "capture" \in Places /\ "adopt" \in Places
    /\ "mark" \in Places /\ "prove" \in Places /\ "won" \in Places /\ "lost" \in Places
BY DEF Places, Inside, Waiting

\* Going somewhere moves one actor only.
LEMMA GotoMovesOne ==
    ASSUME at \in [Actors -> Places], NEW a \in Actors, NEW p \in Places, Goto(a, p)
    PROVE  /\ at' \in [Actors -> Places]
           /\ at'[a] = p
           /\ \A b \in Actors \ {a} : at'[b] = at[b]
BY DEF Goto

\* A failure on its way to the row waits in "mark" with what was read.
LEMMA FailMovesOne ==
    ASSUME at \in [Actors -> Places], row \in RowType,
           verdict \in [Actors -> [auth : AuthStates, seen : 0 .. StrikeLimit, then : Places]],
           NEW a \in Actors, NEW v \in AuthStates, NEW p \in Places, Fail(a, v, p)
    PROVE  /\ at' \in [Actors -> Places]
           /\ at'[a] = "mark"
           /\ \A b \in Actors \ {a} : at'[b] = at[b] /\ verdict'[b] = verdict[b]
           /\ verdict' \in [Actors -> [auth : AuthStates, seen : 0 .. StrikeLimit, then : Places]]
           /\ verdict'[a].then = p
<1>1. "mark" \in Places
  BY KnownPlaces
<1>2. row.fails \in 0 .. StrikeLimit
  BY DEF RowType
<1> QED
  BY <1>1, <1>2 DEF Fail, Goto

\* Joining the refresh moves the caller and perhaps the task, nobody else.
LEMMA RefreshMovesTask ==
    ASSUME at \in [Actors -> Places], future \in BOOLEAN, NEW r \in Requests, Refresh(r)
    PROVE  /\ at' \in [Actors -> Places]
           /\ future' \in BOOLEAN
           /\ \A b \in Actors \ {r, Task} : at'[b] = at[b]
           /\ at'[r] \in {"cancelled", "await"}
           /\ future => at'[Task] = at[Task] /\ future' = future
           /\ ~future => at'[Task] = "new" /\ future' = TRUE
<1> USE KnownPlaces
<1>1. CASE future
  <2>1. Goto(r, IF at[Task] = "dead" THEN "cancelled" ELSE "await")
    BY <1>1 DEF Refresh
  <2>2. future' = future
    BY <1>1 DEF Refresh
  <2>3. r \in Actors /\ Task \in Actors /\ r # Task
    OBVIOUS
  <2>4. PICK p \in {"cancelled", "await"} : Goto(r, p)
    BY <2>1
  <2>5. p \in Places
    OBVIOUS
  <2>6. /\ at' \in [Actors -> Places]
        /\ at'[r] = p
        /\ \A b \in Actors \ {r} : at'[b] = at[b]
    BY <2>3, <2>4, <2>5, GotoMovesOne
  <2> QED
    BY <1>1, <2>2, <2>3, <2>6
<1>2. CASE ~future
  <2>1. future' = TRUE
    BY <1>2 DEF Refresh
  <2>2. at' = [at EXCEPT ![r] = "await", ![Task] = "new"]
    BY <1>2 DEF Refresh
  <2> QED
    BY <1>2, <2>1, <2>2
<1> QED
  BY <1>1, <1>2

\* A cancelled task leaves its place, and its waiters theirs.
LEMMA DropTaskMoves ==
    ASSUME at \in [Actors -> Places], cand \in [Actors -> Sessions \union {NoSession}],
           verdict \in [Actors -> [auth : AuthStates, seen : 0 .. StrikeLimit, then : Places]],
           NEW place \in Places, DropTask(place)
    PROVE  /\ at' \in [Actors -> Places]
           /\ at'[Task] = place /\ cand'[Task] = NoSession /\ verdict'[Task] = NoVerdict
           /\ \A b \in Actors \ {Task} :
                  at'[b] \in {at[b], "cancelled"} /\ cand'[b] = cand[b] /\ verdict'[b] = verdict[b]
           /\ at[Refresher] # "await" => at'[Refresher] = at[Refresher]
           /\ cand' \in [Actors -> Sessions \union {NoSession}]
           /\ verdict' \in [Actors -> [auth : AuthStates, seen : 0 .. StrikeLimit, then : Places]]
<1>1. NoVerdict \in [auth : AuthStates, seen : 0 .. StrikeLimit, then : Places]
  BY KnownPlaces DEF NoVerdict, AuthStates
<1>2. at' = [b \in Actors |-> IF b = Task THEN place
                             ELSE IF at[b] = "await" THEN "cancelled" ELSE at[b]]
  BY DEF DropTask
<1>3. at' \in [Actors -> Places]
  <2>1. place \in Places /\ "cancelled" \in Places
    BY KnownPlaces
  <2>2. \A b \in Actors : at[b] \in Places
    OBVIOUS
  <2> HIDE DEF Actors
  <2> QED
    BY <1>2, <2>1, <2>2
<1>4. /\ at'[Task] = place
      /\ \A b \in Actors \ {Task} : at'[b] \in {at[b], "cancelled"}
      /\ at[Refresher] # "await" => at'[Refresher] = at[Refresher]
  <2>1. \A b \in Actors : at'[b] = IF b = Task THEN place
                             ELSE IF at[b] = "await" THEN "cancelled" ELSE at[b]
    BY <1>2
  <2>2. Task \in Actors /\ Refresher \in Actors /\ Refresher # Task
    OBVIOUS
  <2> HIDE DEF Actors
  <2> QED
    BY <2>1, <2>2
<1>5. cand' = [cand EXCEPT ![Task] = NoSession]
      /\ verdict' = [verdict EXCEPT ![Task] = NoVerdict]
  BY DEF DropTask
<1> QED
  BY <1>1, <1>3, <1>4, <1>5

\* A session of the account's own is stored as a pair of its own.
LEMMA StoreKeepsPair ==
    ASSUME NEW s \in OwnSessions, NEW c \in BOOLEAN, NEW noted \in BOOLEAN,
           row \in RowType, SessionIsOwn, PairMatches,
           StoreSession(s, c, noted)
    PROVE  row' \in RowType /\ SessionIsOwn' /\ PairMatches' /\ row'.profile = row.profile
<1>1. PICK f \in BOOLEAN : Write([row EXCEPT !.st = s, !.at = s, !.fresh = f,
                                    !.cookies = @ \/ c, !.recent = @ \/ noted])
  BY DEF StoreSession
<1> DEFINE r == [row EXCEPT !.st = s, !.at = s, !.fresh = f,
                            !.cookies = @ \/ c, !.recent = @ \/ noted]
<1>2. r \in RowType /\ r.st = s /\ r.at = s /\ r.profile = row.profile
  <2>1. (row.cookies \/ c) \in BOOLEAN /\ (row.recent \/ noted) \in BOOLEAN
    OBVIOUS
  <2>2. PICK x \in BOOLEAN, y \in BOOLEAN : x = (row.cookies \/ c) /\ y = (row.recent \/ noted)
    BY <2>1
  <2>3. r = [row EXCEPT !.st = s, !.at = s, !.fresh = f, !.cookies = x, !.recent = y]
    BY <2>2 DEF RowType
  <2>4. s \in Sessions
    OBVIOUS
  <2> HIDE DEF r, Sessions, Actors, Recoverers
  <2> QED
    BY <2>3, <2>4 DEF RowType
<1>3. row' = r \/ row' = row
  BY <1>1 DEF Write
<1> QED
  BY <1>2, <1>3 DEF SessionIsOwn, PairMatches

\* Noting the time of a renewal changes nothing else.
LEMMA NoteKeepsPair ==
    ASSUME row \in RowType, SessionIsOwn, PairMatches, Note
    PROVE  row' \in RowType /\ SessionIsOwn' /\ PairMatches' /\ row'.profile = row.profile
<1> DEFINE r == [row EXCEPT !.recent = TRUE]
<1>1. r \in RowType /\ r.st = row.st /\ r.at = row.at /\ r.profile = row.profile
  BY DEF RowType
<1>2. row' = r \/ row' = row
  BY DEF Note, Write
<1> QED
  BY <1>1, <1>2 DEF SessionIsOwn, PairMatches

\* A success clears the failure state only.
LEMMA SuccessKeepsPair ==
    ASSUME row \in RowType, SessionIsOwn, PairMatches,
           Write([row EXCEPT !.auth = "ok", !.fails = 0, !.due = TRUE])
    PROVE  row' \in RowType /\ SessionIsOwn' /\ PairMatches' /\ row'.profile = row.profile
<1> DEFINE r == [row EXCEPT !.auth = "ok", !.fails = 0, !.due = TRUE]
<1>1. r \in RowType /\ r.st = row.st /\ r.at = row.at /\ r.profile = row.profile
  <2>1. 0 \in 0 .. StrikeLimit /\ "ok" \in AuthStates
    BY DEF AuthStates
  <2> HIDE DEF Sessions, Actors, Recoverers
  <2> QED
    BY <2>1 DEF RowType
<1>2. row' = r \/ row' = row
  BY DEF Write
<1> QED
  BY <1>1, <1>2 DEF SessionIsOwn, PairMatches

\* A recorded failure changes the state, the count and the deadline only.
LEMMA VerdictKeepsPair ==
    ASSUME NEW v \in [auth : AuthStates, seen : 0 .. StrikeLimit, then : Places],
           row \in RowType, SessionIsOwn, PairMatches, StoreVerdict(v)
    PROVE  row' \in RowType /\ SessionIsOwn' /\ PairMatches' /\ row'.profile = row.profile
<1>1. (IF v.seen < StrikeLimit THEN v.seen + 1 ELSE StrikeLimit) \in 0 .. StrikeLimit
  OBVIOUS
<1>2. v.auth \in AuthStates
  OBVIOUS
<1> QED
  BY <1>1, <1>2 DEF StoreVerdict, Write, RowType, SessionIsOwn, PairMatches

-----------------------------------------------------------------------------
(* Tokens: whose they are and that they are a pair.                        *)

\* Between the identity check and the write, a session is carried by an actor.
Vetted ==
    /\ at[Refresher] = "credits" => cand[Refresher] \in OwnSessions
    /\ \A l \in Logins : at[l] \in {"vet", "commit"} => cand[l] \in OwnSessions
    /\ \A a \in Actors : verdict[a].then \notin {"credits", "vet", "commit"}

TokenInv == AuthTypeOK /\ SessionIsOwn /\ PairMatches /\ Vetted

\* The initial tokens are a pair of the account's own.
LEMMA TokenInvInit == Init => TokenInv
<1> SUFFICES ASSUME Init PROVE TokenInv
  OBVIOUS
<1>1. PICK s \in OwnSessions, f \in BOOLEAN, k \in Keys \union {NoKey},
              b \in BOOLEAN, p \in BOOLEAN, c \in BOOLEAN :
         row = [present |-> TRUE, active |-> TRUE, st |-> s, at |-> s, fresh |-> f,
                auth |-> "ok", fails |-> 0, due |-> TRUE, profile |-> k,
                auto |-> b, protocol |-> p, cookies |-> c, recent |-> FALSE]
  BY DEF Init
<1>2. row \in RowType /\ SessionIsOwn /\ PairMatches
  BY <1>1 DEF RowType, SessionIsOwn, PairMatches, AuthStates
<1>3. NoVerdict \in [auth : AuthStates, seen : 0 .. StrikeLimit, then : Places]
  BY KnownPlaces DEF NoVerdict, AuthStates
<1>4. AuthTypeOK
  <2>1. row.profile \in Keys \union {NoKey}
    BY <1>2 DEF RowType
  <2>2. cache \in BOOLEAN /\ future \in BOOLEAN
    BY DEF Init
  <2> QED
    BY <1>2, <1>3, <2>1, <2>2, KnownPlaces DEF Init, AuthTypeOK
<1> QED
  BY <1>2, <1>4 DEF Init, TokenInv, Vetted, NoVerdict

\* Recording a failure keeps the tokens, whatever else of the step keeps its shape.
LEMMA FailKeepsTokens ==
    ASSUME TokenInv, NEW a \in Actors, NEW v \in AuthStates,
           NEW p \in Places \ {"credits", "vet", "commit"}, Fail(a, v, p),
           row' \in RowType, SessionIsOwn', PairMatches', cache' \in BOOLEAN, future' = future, lock' = lock,
           dirs' \subseteq Keys, marked' \subseteq Keys,
           cand' \in [Actors -> Sessions \union {NoSession}],
           \A b \in Actors \ {a} : cand'[b] = cand[b],
           old' \in [Logins -> Keys \union {NoKey}],
           new' \in [Logins -> Keys \union {NoKey}],
           world' = world
    PROVE  TokenInv'
<1>1. /\ at' \in [Actors -> Places]
      /\ at'[a] = "mark"
      /\ \A b \in Actors \ {a} : at'[b] = at[b] /\ verdict'[b] = verdict[b]
      /\ verdict' \in [Actors -> [auth : AuthStates, seen : 0 .. StrikeLimit, then : Places]]
      /\ verdict'[a].then = p
  BY FailMovesOne DEF TokenInv, AuthTypeOK
<1>2. AuthTypeOK'
  BY <1>1 DEF TokenInv, AuthTypeOK, world
<1>3. Vetted'
  BY <1>1 DEF TokenInv, Vetted
<1> QED
  BY <1>2, <1>3 DEF TokenInv

\* Every step of a request keeps the tokens.
LEMMA RequestKeepsTokens ==
    ASSUME TokenInv, NEW r \in Requests,
           RequestStep(r) \/ Unauthorized(r) \/ Cancel(r)
    PROVE  TokenInv'
<1> USE KnownPlaces DEF TokenInv, AuthTypeOK, Vetted, SessionIsOwn, PairMatches, world
<1>1. CASE Ask(r)
  <2>1. CASE Refresh(r)
    BY <1>1, <2>1, RefreshMovesTask DEF Ask, store
  <2>2. CASE UNCHANGED future /\ \E p \in {"refused", "served", "validate"} : Goto(r, p)
    BY <1>1, <2>2 DEF Ask, Goto, store
  <2> QED
    BY <1>1, <2>1, <2>2 DEF Ask
<1>2. CASE Validated(r)
  BY <1>2 DEF Validated, Goto, store, Inside
<1>3. CASE Invalid(r)
  BY <1>3, RefreshMovesTask DEF Invalid, store
<1>4. CASE Mark(r)
  <2>1. row' \in RowType /\ SessionIsOwn' /\ PairMatches'
    BY <1>4, VerdictKeepsPair DEF Mark
  <2> QED
    BY <1>4, <2>1 DEF Mark, Goto, memory, store, NoVerdict, AuthStates
<1>5. CASE Prove(r)
  <2>1. row' \in RowType /\ SessionIsOwn' /\ PairMatches'
    BY <1>5, SuccessKeepsPair DEF Prove
  <2> QED
    BY <1>5, <2>1 DEF Prove, Goto, memory, store
<1>6. CASE Unauthorized(r)
  <2>1. "backoff" \in AuthStates /\ cache' \in BOOLEAN
    BY <1>6 DEF Unauthorized, AuthStates
  <2> QED
    BY <1>6, <2>1, FailKeepsTokens DEF Unauthorized, store
<1>7. CASE Cancel(r)
  <2>1. CASE /\ at[r] = "await" /\ (\E p \in {"dead", "idle"} : DropTask(p)) /\ future' = (at[Task] = "new")
             /\ lock' = IF lock = Task THEN Nobody ELSE lock
             /\ UNCHANGED <<row, cache, store, world>>
    <3>1. future' \in BOOLEAN
      BY <2>1
    <3>2. lock' \in Recoverers \union {Nobody}
      BY <2>1
    <3> QED
      BY <2>1, <3>1, <3>2, DropTaskMoves DEF store, NoVerdict
  <2>2. CASE Goto(r, "cancelled") /\ verdict' = [verdict EXCEPT ![r] = NoVerdict] /\
             UNCHANGED <<row, memory, store, cand, world>>
    BY <2>2 DEF Goto, memory, store, NoVerdict, AuthStates
  <2> QED
    BY <1>7, <2>1, <2>2 DEF Cancel
<1> QED
  BY <1>1, <1>2, <1>3, <1>4, <1>5, <1>6, <1>7 DEF RequestStep

\* What the refresh task and the refresher share, the profile recovery and the
\* two writes of a verdict, keeps the tokens.
LEMMA RecoveryKeepsTokens ==
    ASSUME TokenInv, NEW a \in Recoverers,
           Profile(a) \/ Capture(a) \/ Adopt(a) \/ Mark(a) \/ Prove(a) \/ Leave(a)
    PROVE  TokenInv'
<1> USE KnownPlaces DEF TokenInv, AuthTypeOK, Vetted, SessionIsOwn, PairMatches, world
<1>1. CASE Profile(a)
  <2>1. CASE Goto(a, "capture") /\ UNCHANGED verdict
    BY <1>1, <2>1 DEF Profile, Goto, memory, store
  <2>2. CASE Fail(a, "reauth", "lost")
    <3>1. "reauth" \in AuthStates
      BY DEF AuthStates
    <3> QED
      BY <1>1, <2>2, <3>1, FailKeepsTokens DEF Profile, memory, store
  <2> QED
    BY <1>1, <2>1, <2>2 DEF Profile
<1>2. CASE Capture(a)
  <2>1. CASE UNCHANGED cand /\ \E v \in {"backoff", "reauth"} : Fail(a, v, "lost")
    <3>1. PICK v \in AuthStates : Fail(a, v, "lost")
      BY <2>1 DEF AuthStates
    <3> QED
      BY <1>2, <2>1, <3>1, FailKeepsTokens DEF Capture, memory, store
  <2>2. CASE \E s \in Sessions : /\ cand' = [cand EXCEPT ![a] = s]
                                 /\ Goto(a, "adopt")
                                 /\ UNCHANGED verdict
    BY <1>2, <2>2 DEF Capture, Goto, memory, store
  <2> QED
    BY <1>2, <2>1, <2>2 DEF Capture
<1>3. CASE Adopt(a)
  <2>1. CASE UNCHANGED <<row, cache>> /\ \E v \in {"backoff", "reauth"} : Fail(a, v, "lost")
    <3>1. PICK v \in AuthStates : Fail(a, v, "lost")
      BY <2>1 DEF AuthStates
    <3> QED
      BY <1>3, <2>1, <3>1, FailKeepsTokens DEF Adopt, store
  <2>2. CASE SameIdentity(a) /\ StoreSession(cand[a], TRUE, TRUE) /\ cache' = FALSE /\ Goto(a, "prove")
             /\ UNCHANGED verdict
    <3>1. row' \in RowType /\ SessionIsOwn' /\ PairMatches'
      BY <2>2, StoreKeepsPair DEF SameIdentity
    <3> QED
      BY <1>3, <2>2, <3>1 DEF Adopt, Goto, store
  <2> QED
    BY <1>3, <2>1, <2>2 DEF Adopt
<1>4. CASE Mark(a)
  <2>1. row' \in RowType /\ SessionIsOwn' /\ PairMatches'
    BY <1>4, VerdictKeepsPair DEF Mark
  <2> QED
    BY <1>4, <2>1 DEF Mark, Goto, memory, store, NoVerdict, AuthStates
<1>5. CASE Prove(a)
  <2>1. row' \in RowType /\ SessionIsOwn' /\ PairMatches'
    BY <1>5, SuccessKeepsPair DEF Prove
  <2> QED
    BY <1>5, <2>1 DEF Prove, Goto, memory, store
<1>6. CASE Leave(a)
  <2>1. /\ at' \in [Actors -> Places]
        /\ \A b \in Actors : at'[b] \in {at[b], "idle", "served", "refused"}
    BY <1>6 DEF Leave
  <2>2. cache' \in BOOLEAN
    BY <1>6 DEF Leave
  <2>3. future' \in BOOLEAN
    BY <1>6 DEF Leave, DropEntry
  <2> QED
    BY <1>6, <2>1, <2>2, <2>3 DEF Leave, FreeLock, store
<1> QED
  BY <1>1, <1>2, <1>3, <1>4, <1>5, <1>6

\* Every other step of the refresh task keeps the tokens.
LEMMA TaskKeepsTokens ==
    ASSUME TokenInv, Start \/ TaskEnters \/ Exchange \/ Verify \/ Renew
    PROVE  TokenInv'
<1> USE KnownPlaces DEF TokenInv, AuthTypeOK, Vetted, SessionIsOwn, PairMatches, world
<1>1. CASE Start
  BY <1>1 DEF Start, Goto, memory, store
<1>2. CASE TaskEnters
  BY <1>2 DEF TaskEnters, TakeLock, Goto, store, RowType
<1>3. Fallback \in {"renew", "profile"}
  BY DEF Fallback
<1>4. CASE Exchange
  <2>1. CASE Goto(Task, Fallback) /\ UNCHANGED <<row, verdict>>
    BY <1>3, <1>4, <2>1 DEF Exchange, Goto, memory, store
  <2>2. CASE Note /\ Fail(Task, "reauth", Fallback)
    <3>1. "reauth" \in AuthStates
      BY DEF AuthStates
    <3>2. row' \in RowType /\ SessionIsOwn' /\ PairMatches'
      BY <2>2, NoteKeepsPair
    <3> QED
      BY <1>3, <1>4, <2>2, <3>1, <3>2, FailKeepsTokens DEF Exchange, memory, store
  <2>3. CASE SameIdentity(Task) /\ UNCHANGED verdict
             /\ \/ StoreSession(cand[Task], FALSE, TRUE)
                \/ StoreSession(cand[Task], FALSE, FALSE)
             /\ \E p \in {"verify", "verify2"} : Goto(Task, p)
    <3>1. row' \in RowType /\ SessionIsOwn' /\ PairMatches'
      BY <2>3, StoreKeepsPair DEF SameIdentity
    <3> QED
      BY <1>4, <2>3, <3>1 DEF Exchange, Goto, memory, store
  <2>4. CASE SameIdentity(Task) /\ UNCHANGED verdict
             /\ StoreSession(cand[Task], FALSE, at[Task] = "exchange2" /\ cand[Task] # row.st)
             /\ Goto(Task, IF at[Task] = "exchange" THEN "verify" ELSE "verify2")
    <3> DEFINE noted == at[Task] = "exchange2" /\ cand[Task] # row.st
    <3>1. noted \in BOOLEAN /\ StoreSession(cand[Task], FALSE, noted)
      BY <2>4
    <3>2. StoreSession(cand[Task], FALSE, TRUE) \/ StoreSession(cand[Task], FALSE, FALSE)
      <4>1. noted = TRUE \/ noted = FALSE
        BY <3>1
      <4> HIDE DEF noted
      <4> QED
        BY <3>1, <4>1
    <3>3. \E p \in {"verify", "verify2"} : Goto(Task, p)
      BY <2>4
    <3> QED
      BY <2>3, <2>4, <3>2, <3>3
  <2> QED
    BY <1>4, <2>1, <2>2, <2>4 DEF Exchange
<1>5. CASE Verify
  <2>1. cache' \in BOOLEAN
    BY <1>5 DEF Verify
  <2> QED
    BY <1>3, <1>5, <2>1 DEF Verify, Goto, store
<1>6. CASE Renew
  <2>1. row' \in RowType /\ SessionIsOwn' /\ PairMatches'
    BY <1>6, NoteKeepsPair DEF Renew
  <2> QED
    BY <1>6, <2>1 DEF Renew, Goto, memory, store
<1> QED
  BY <1>1, <1>2, <1>4, <1>5, <1>6

\* Every other step of the background refresher keeps the tokens.
LEMMA RefresherKeepsTokens ==
    ASSUME TokenInv,
           Scan \/ RefresherEnters \/ ProtocolLogin \/ ProtocolConvert \/ ProtocolStore
    PROVE  TokenInv'
<1> USE KnownPlaces DEF TokenInv, AuthTypeOK, Vetted, SessionIsOwn, PairMatches, world
<1>1. CASE Scan
  BY <1>1 DEF Scan, Goto, memory, store
<1>2. CASE RefresherEnters
  BY <1>2 DEF RefresherEnters, TakeLock, Goto, store
<1>3. CASE ProtocolLogin
  <2>1. row' \in RowType /\ SessionIsOwn' /\ PairMatches'
    BY <1>3, NoteKeepsPair DEF ProtocolLogin
  <2> QED
    BY <1>3, <2>1 DEF ProtocolLogin, Goto, memory, store
<1>4. CASE ProtocolConvert
  <2>1. CASE Note /\ \E v \in {"backoff", "reauth"} : Fail(Refresher, v, "lost")
    <3>1. PICK v \in AuthStates : Fail(Refresher, v, "lost")
      BY <2>1 DEF AuthStates
    <3>2. row' \in RowType /\ SessionIsOwn' /\ PairMatches'
      BY <2>1, NoteKeepsPair
    <3> QED
      BY <1>4, <3>1, <3>2, FailKeepsTokens DEF ProtocolConvert, memory, store
  <2>2. CASE SameIdentity(Refresher) /\ Goto(Refresher, "credits") /\ UNCHANGED <<row, verdict>>
    BY <1>4, <2>2 DEF ProtocolConvert, SameIdentity, Goto, memory, store
  <2> QED
    BY <1>4, <2>1, <2>2 DEF ProtocolConvert
<1>5. CASE ProtocolStore
  <2>1. row' \in RowType /\ SessionIsOwn' /\ PairMatches'
    BY <1>5, StoreKeepsPair DEF ProtocolStore
  <2> QED
    BY <1>5, <2>1 DEF ProtocolStore, Goto, memory, store
<1> QED
  BY <1>1, <1>2, <1>3, <1>4, <1>5

\* Removed directories are directories, and only marked ones go.
LEMMA RemoveKeepsShape ==
    ASSUME NEW k \in Keys \union {NoKey}, dirs \subseteq Keys, marked \subseteq Keys, Remove(k)
    PROVE  /\ dirs' \subseteq Keys /\ marked' \subseteq Keys
           /\ marked' \subseteq marked \union {k}
           /\ \A d \in dirs : d \notin marked \union {k} => d \in dirs'
BY DEF Remove

\* A re-login that ends gives up what it carried.
LEMMA ForgetKeepsShape ==
    ASSUME NEW l \in Logins,
           cand \in [Actors -> Sessions \union {NoSession}],
           old \in [Logins -> Keys \union {NoKey}],
           new \in [Logins -> Keys \union {NoKey}],
           Forget(l)
    PROVE  /\ cand' \in [Actors -> Sessions \union {NoSession}]
           /\ old' \in [Logins -> Keys \union {NoKey}]
           /\ new' \in [Logins -> Keys \union {NoKey}]
           /\ \A b \in Actors \ {l} : cand'[b] = cand[b]
           /\ \A m \in Logins \ {l} : old'[m] = old[m] /\ new'[m] = new[m]
           /\ old'[l] = NoKey /\ new'[l] = NoKey
BY DEF Forget

\* Every step of a re-login keeps the tokens.
LEMMA LoginKeepsTokens ==
    ASSUME TokenInv, NEW l \in Logins, Open(l) \/ LoginStep(l)
    PROVE  TokenInv'
<1> USE KnownPlaces DEF TokenInv, AuthTypeOK, Vetted, SessionIsOwn, PairMatches, world
<1>1. CASE Open(l)
  <2>1. CASE Fail(l, "reauth", "done") /\ UNCHANGED store
    <3>1. "reauth" \in AuthStates
      BY DEF AuthStates
    <3> QED
      BY <1>1, <2>1, <3>1, FailKeepsTokens DEF Open, memory, store
  <2>2. CASE \E k \in Keys \ InUse, drained \in SUBSET marked :
            /\ old' = [old EXCEPT ![l] = row.profile]
            /\ new' = [new EXCEPT ![l] = k]
            /\ dirs' = (dirs \ drained) \union {k}
            /\ marked' = marked \ drained
            /\ Goto(l, "browse")
            /\ UNCHANGED verdict
    <3>1. row.profile \in Keys \union {NoKey}
      BY DEF RowType
    <3> QED
      BY <1>1, <2>2, <3>1 DEF Open, Goto, memory
  <2> QED
    BY <1>1, <2>1, <2>2 DEF Open
<1>2. CASE Abort(l)
  <2>1. PICK v \in AuthStates : Fail(l, v, "done")
    BY <1>2 DEF Abort, AuthStates
  <2>2. dirs' \subseteq Keys /\ marked' \subseteq Keys
    BY <1>2, RemoveKeepsShape DEF Abort
  <2>3. Forget(l) /\ UNCHANGED <<row, cache, future, lock, world>>
    BY <1>2 DEF Abort, memory
  <2> QED
    BY <2>1, <2>2, <2>3, FailKeepsTokens, ForgetKeepsShape
<1>3. CASE Browsed(l)
  BY <1>3 DEF Browsed, Goto, memory, store
<1>4. CASE Convert(l)
  <2>1. CASE SameIdentity(l) /\ Goto(l, "vet") /\ UNCHANGED verdict
    BY <1>4, <2>1 DEF Convert, SameIdentity, Goto, memory, store
  <2>2. CASE Fail(l, "reauth", "tidy")
    <3>1. "reauth" \in AuthStates
      BY DEF AuthStates
    <3> QED
      BY <1>4, <2>2, <3>1, FailKeepsTokens DEF Convert, memory, store
  <2> QED
    BY <1>4, <2>1, <2>2 DEF Convert
<1>5. CASE Vet(l)
  <2>1. CASE Goto(l, "commit") /\ UNCHANGED verdict
    BY <1>5, <2>1 DEF Vet, Goto, store
  <2>2. CASE Fail(l, "backoff", "spoiled")
    <3>1. cache' \in BOOLEAN /\ "backoff" \in AuthStates
      BY <1>5 DEF Vet, AuthStates
    <3> QED
      BY <1>5, <2>2, <3>1, FailKeepsTokens DEF Vet, store
  <2> QED
    BY <1>5, <2>1, <2>2 DEF Vet
<1>6. CASE Spoiled(l)
  <2>1. dirs' \subseteq Keys /\ marked' \subseteq Keys
    BY <1>6, RemoveKeepsShape DEF Spoiled
  <2>2. "reauth" \in AuthStates
    BY DEF AuthStates
  <2> QED
    BY <1>6, <2>1, <2>2, FailKeepsTokens, ForgetKeepsShape DEF Spoiled, memory
<1>7. CASE Commit(l)
  <2>1. PICK f \in BOOLEAN : Write(Recredited(l, f))
    BY <1>7 DEF Commit
  <2>2. cand[l] \in OwnSessions /\ 0 \in 0 .. StrikeLimit /\ "ok" \in AuthStates
    BY <1>7 DEF Commit, AuthStates
  <2>3. /\ Recredited(l, f) \in RowType
        /\ Recredited(l, f).st = cand[l] /\ Recredited(l, f).at = cand[l]
    BY <2>2 DEF Recredited, RowType
  <2>4. row' \in RowType /\ SessionIsOwn' /\ PairMatches'
    BY <2>1, <2>2, <2>3 DEF Write
  <2> QED
    BY <1>7, <2>4 DEF Commit, Goto, memory, store
<1>8. CASE Discard(l)
  <2>1. dirs' \subseteq Keys /\ marked' \subseteq Keys
    BY <1>8, RemoveKeepsShape DEF Discard
  <2> QED
    BY <1>8, <2>1, ForgetKeepsShape DEF Discard, Goto, memory
<1>9. CASE Mark(l)
  <2>1. row' \in RowType /\ SessionIsOwn' /\ PairMatches'
    BY <1>9, VerdictKeepsPair DEF Mark
  <2> QED
    BY <1>9, <2>1 DEF Mark, Goto, memory, store, NoVerdict, AuthStates
<1> QED
  BY <1>1, <1>2, <1>3, <1>4, <1>5, <1>6, <1>7, <1>8, <1>9 DEF LoginStep

\* The operator, time and restarts.
Surroundings ==
    \/ Edit \/ Toggle \/ Configure \/ SwitchRefresher \/ Delete
    \/ Expire \/ Elapse \/ Interval \/ Lapse \/ Crash

\* The operator, time and restarts keep the tokens.
LEMMA SurroundingsKeepTokens ==
    ASSUME TokenInv, Surroundings
    PROVE  TokenInv'
<1> USE KnownPlaces DEF TokenInv, AuthTypeOK, Vetted, SessionIsOwn, PairMatches, world
<1>1. CASE Edit
  <2>1. row' \in RowType /\ SessionIsOwn' /\ PairMatches'
    BY <1>1, StoreKeepsPair DEF Edit
  <2> QED
    BY <1>1, <2>1 DEF Edit, store
<1>2. CASE Toggle
  <2>1. (~row.active) \in BOOLEAN
    OBVIOUS
  <2>2. row' \in RowType /\ row'.st = row.st /\ row'.at = row.at
    BY <1>2, <2>1 DEF Toggle, Write, RowType
  <2> QED
    BY <1>2, <2>2 DEF Toggle, memory, store
<1>3. CASE Delete
  <2>1. row' \in RowType /\ row'.st = row.st /\ row'.at = row.at
    BY <1>3 DEF Delete, RowType
  <2>2. lock' \in Recoverers \union {Nobody} /\ future' \in BOOLEAN
    BY <1>3 DEF Delete
  <2> QED
    BY <1>3, <2>1, <2>2, DropTaskMoves DEF Delete, store, NoVerdict
<1>4. CASE Expire
  <2>1. row' \in RowType /\ row'.st = row.st /\ row'.at = row.at
    BY <1>4 DEF Expire, RowType
  <2> QED
    BY <1>4, <2>1 DEF Expire, memory, store
<1>5. CASE Elapse
  <2>1. row' \in RowType /\ row'.st = row.st /\ row'.at = row.at
    BY <1>5 DEF Elapse, RowType
  <2> QED
    BY <1>5, <2>1 DEF Elapse, memory, store
<1>6. CASE Lapse
  <2>1. cache' \in BOOLEAN
    BY <1>6 DEF Lapse
  <2> QED
    BY <1>6, <2>1 DEF Lapse, store
<1>7. CASE Crash
  <2>1. NoVerdict \in [auth : AuthStates, seen : 0 .. StrikeLimit, then : Places]
    BY DEF NoVerdict, AuthStates
  <2>2. /\ at' \in [Actors -> Places]
        /\ \A a \in Actors : at'[a] \in {"idle", "gone"}
    BY <1>7 DEF Crash
  <2>3. cache' \in BOOLEAN /\ future' \in BOOLEAN
    BY <1>7 DEF Crash
  <2>4. crashes' \in 0 .. MaxCrashes
    BY <1>7 DEF Crash
  <2> QED
    BY <1>7, <2>1, <2>2, <2>3, <2>4 DEF Crash, NoVerdict
<1>8. CASE Configure
  <2>1. PICK b \in BOOLEAN, p \in BOOLEAN, c \in BOOLEAN :
            Write([row EXCEPT !.auto = b, !.protocol = p, !.cookies = c])
    BY <1>8 DEF Configure
  <2> DEFINE r == [row EXCEPT !.auto = b, !.protocol = p, !.cookies = c]
  <2>2. r \in RowType /\ r.st = row.st /\ r.at = row.at
    <3> HIDE DEF Sessions, Actors, Recoverers
    <3> QED
      BY DEF RowType
  <2>3. row' = r \/ row' = row
    BY <2>1 DEF Write
  <2>4. row' \in RowType /\ row'.st = row.st /\ row'.at = row.at
    BY <2>2, <2>3
  <2> QED
    BY <1>8, <2>4 DEF Configure, memory, store
<1>9. CASE SwitchRefresher
  <2>1. enabled' \in BOOLEAN
    BY <1>9 DEF SwitchRefresher
  <2> QED
    BY <1>9, <2>1 DEF SwitchRefresher, memory, store
<1>10. CASE Interval
  <2>1. row' \in RowType /\ row'.st = row.st /\ row'.at = row.at
    BY <1>10 DEF Interval, RowType
  <2> QED
    BY <1>10, <2>1 DEF Interval, memory, store
<1> QED
  BY <1>1, <1>2, <1>3, <1>4, <1>5, <1>6, <1>7, <1>8, <1>9, <1>10 DEF Surroundings

\* The tokens' invariant is inductive.
LEMMA TokenInvStep == TokenInv /\ [Next]_vars => TokenInv'
<1> SUFFICES ASSUME TokenInv, [Next]_vars PROVE TokenInv'
  OBVIOUS
<1>1. CASE \E r \in Requests : RequestStep(r) \/ Unauthorized(r) \/ Cancel(r)
  BY <1>1, RequestKeepsTokens
<1>2. CASE TaskStep \/ TaskEnters
  BY <1>2, TaskKeepsTokens, RecoveryKeepsTokens DEF TaskStep
<1>3. CASE RefresherStep \/ RefresherEnters \/ Scan
  BY <1>3, RefresherKeepsTokens, RecoveryKeepsTokens DEF RefresherStep
<1>4. CASE \E l \in Logins : Open(l) \/ LoginStep(l)
  BY <1>4, LoginKeepsTokens
<1>5. CASE Surroundings
  BY <1>5, SurroundingsKeepTokens
<1>6. CASE UNCHANGED vars
  BY <1>6 DEF vars, memory, store, TokenInv, AuthTypeOK, Vetted, SessionIsOwn, PairMatches
<1> QED
  BY <1>1, <1>2, <1>3, <1>4, <1>5, <1>6 DEF Next, Surroundings

\* Every reachable state has the shape of the row, of the memory and of the
\* store that the code relies on.
THEOREM AuthTypeCorrect == Spec => []AuthTypeOK
<1>1. TokenInv => AuthTypeOK
  BY DEF TokenInv
<1> QED
  BY <1>1, TokenInvInit, TokenInvStep, PTL DEF Spec

\* Whatever sessions profiles, logins and the upstream hand over, in any number
\* and order, the row never holds a session of somebody else.
THEOREM SessionIsOwnHolds == Spec => []SessionIsOwn
<1>1. TokenInv => SessionIsOwn
  BY DEF TokenInv
<1> QED
  BY <1>1, TokenInvInit, TokenInvStep, PTL DEF Spec

\* The access token of the row is always the one minted from its session.
THEOREM PairMatchesHolds == Spec => []PairMatches
<1>1. TokenInv => PairMatches
  BY DEF TokenInv
<1> QED
  BY <1>1, TokenInvInit, TokenInvStep, PTL DEF Spec

-----------------------------------------------------------------------------
(* The lock: who may renew, and which refresh is on record.                *)

\* A failure recorded under the lock is followed by a step under the lock.
Returns == \A a \in Recoverers :
    at[a] = "mark" => verdict[a].then \in {"renew", "profile", "lost"}

\* An entry is on record exactly while its task runs, or for good once the task
\* was cancelled before it first ran.
TaskRecorded == future <=> at[Task] # "idle"

LockFacts == RecoveryIsExclusive /\ Returns /\ TaskRecorded

LockInv == TokenInv /\ LockFacts

\* Which places are inside the lock.
LEMMA InsidePlaces ==
    /\ "exchange" \in Inside /\ "verify" \in Inside /\ "exchange2" \in Inside
    /\ "verify2" \in Inside /\ "renew" \in Inside /\ "login" \in Inside /\ "convert" \in Inside
    /\ "credits" \in Inside /\ "profile" \in Inside /\ "capture" \in Inside /\ "adopt" \in Inside
    /\ "mark" \in Inside /\ "prove" \in Inside /\ "won" \in Inside /\ "lost" \in Inside
    /\ "idle" \notin Inside /\ "new" \notin Inside /\ "lock" \notin Inside
    /\ "await" \notin Inside /\ "dead" \notin Inside /\ "cancelled" \notin Inside
BY DEF Inside

\* A holder of the lock that keeps it stays exclusive.
LEMMA StaysInside ==
    ASSUME LockFacts, row'.present => row.present,
           NEW a \in Recoverers, at[a] \in Inside, at'[a] \in Inside,
           at'[a] = "mark" => verdict'[a].then \in {"renew", "profile", "lost"},
           \A b \in Recoverers \ {a} : at'[b] = at[b] /\ verdict'[b] = verdict[b],
           lock' = lock, future' = future
    PROVE  LockFacts'
<1>1. RecoveryIsExclusive'
  BY DEF LockFacts, RecoveryIsExclusive
<1>2. Returns'
  BY DEF LockFacts, Returns
<1>3. at[Task] # "idle" <=> at'[Task] # "idle"
  BY InsidePlaces
<1> QED
  BY <1>1, <1>2, <1>3 DEF LockFacts, TaskRecorded

\* Steps of the others change nothing of it.
LEMMA StaysOutside ==
    ASSUME LockFacts, row'.present => row.present,
           \A b \in Recoverers : at'[b] = at[b] /\ verdict'[b] = verdict[b],
           lock' = lock, future' = future
    PROVE  LockFacts'
<1>1. RecoveryIsExclusive' /\ Returns'
  BY DEF LockFacts, RecoveryIsExclusive, Returns
<1> QED
  BY <1>1 DEF LockFacts, TaskRecorded

\* A cancelled task is out of the lock, and nobody else is.
LEMMA DropTaskUnlocks ==
    ASSUME LockInv, NEW place \in {"dead", "idle"}, DropTask(place),
           row'.present => row.present,
           row'.present => lock' = IF lock = Task THEN Nobody ELSE lock,
           future' = (place = "dead")
    PROVE  LockFacts'
<1>1. /\ at'[Task] = place /\ verdict'[Refresher] = verdict[Refresher]
      /\ at'[Refresher] \in {at[Refresher], "cancelled"}
      /\ at[Refresher] # "await" => at'[Refresher] = at[Refresher]
  BY DropTaskMoves, KnownPlaces DEF LockInv, TokenInv, AuthTypeOK
<1>3. at'[Refresher] \in Inside <=> at[Refresher] \in Inside
  BY <1>1 DEF Inside
<1>4. RecoveryIsExclusive'
  BY <1>1, <1>3, InsidePlaces DEF LockInv, LockFacts, RecoveryIsExclusive
<1>5. Returns'
  BY <1>1 DEF LockInv, LockFacts, Returns
<1>6. TaskRecorded'
  BY <1>1 DEF TaskRecorded
<1> QED
  BY <1>4, <1>5, <1>6 DEF LockFacts

\* Nobody is inside at first.
LEMMA LockInvInit == Init => LockInv
<1> SUFFICES ASSUME Init PROVE LockInv
  OBVIOUS
<1>1. lock = Nobody /\ future = FALSE /\ at[Task] = "idle" /\ at[Refresher] = "idle"
  BY DEF Init
<1>2. LockFacts
  BY <1>1, InsidePlaces DEF LockFacts, RecoveryIsExclusive, Returns, TaskRecorded
<1> QED
  BY <1>2, TokenInvInit DEF LockInv

\* Joining or starting the refresh starts at most one task.
LEMMA RefreshStartsOne ==
    ASSUME LockInv, row'.present => row.present,
           NEW r \in Requests, Refresh(r), UNCHANGED <<lock, verdict>>
    PROVE  LockFacts'
<1>1. /\ \A b \in Actors \ {r, Task} : at'[b] = at[b]
      /\ future => at'[Task] = at[Task] /\ future' = future
      /\ ~future => at'[Task] = "new" /\ future' = TRUE
  BY RefreshMovesTask DEF LockInv, TokenInv, AuthTypeOK
<1>2. at'[Refresher] = at[Refresher]
  BY <1>1
<1>3. CASE future
  BY <1>1, <1>2, <1>3, StaysOutside DEF LockInv
<1>4. CASE ~future
  <2>1. at[Task] = "idle" /\ at'[Task] = "new" /\ future'
    BY <1>1, <1>4 DEF LockInv, LockFacts, TaskRecorded
  <2>2. RecoveryIsExclusive'
    BY <1>2, <2>1, InsidePlaces DEF LockInv, LockFacts, RecoveryIsExclusive
  <2>3. Returns'
    BY <1>2, <2>1 DEF LockInv, LockFacts, Returns
  <2> QED
    BY <2>1, <2>2, <2>3 DEF LockFacts, TaskRecorded
<1> QED
  BY <1>3, <1>4

\* Every step of a request keeps the lock.
LEMMA RequestKeepsLock ==
    ASSUME LockInv, row'.present => row.present, NEW r \in Requests,
           RequestStep(r) \/ Unauthorized(r) \/ Cancel(r)
    PROVE  LockFacts'
<1> USE DEF LockInv
<1>1. r \in Actors /\ r \notin Recoverers
  OBVIOUS
<1>2. CASE Refresh(r) /\ UNCHANGED <<lock, verdict>>
  BY <1>2, RefreshStartsOne
<1>3. CASE /\ at[r] = "await" /\ future' = (at[Task] = "new")
           /\ DropTask(IF at[Task] = "new" THEN "dead" ELSE "idle")
           /\ lock' = IF lock = Task THEN Nobody ELSE lock
  BY <1>3, DropTaskUnlocks
<1>4. CASE (\E p \in Places : at' = [at EXCEPT ![r] = p]) /\ UNCHANGED <<lock, future>>
           /\ (\E v : verdict' = [verdict EXCEPT ![r] = v] \/ verdict' = verdict)
  BY <1>1, <1>4, StaysOutside DEF TokenInv, AuthTypeOK
<1>5. CASE Ask(r)
  BY <1>2, <1>4, <1>5, KnownPlaces DEF Ask, Goto
<1>6. CASE Validated(r)
  BY <1>4, <1>6, KnownPlaces DEF Validated, Goto
<1>7. CASE Invalid(r)
  BY <1>2, <1>7 DEF Invalid
<1>8. CASE Mark(r)
  <2>1. verdict[r].then \in Places
    BY DEF TokenInv, AuthTypeOK
  <2> QED
    BY <1>4, <1>8, <2>1 DEF Mark, Goto, memory
<1>9. CASE Prove(r)
  BY <1>4, <1>9, KnownPlaces DEF Prove, Goto, memory
<1>10. CASE Unauthorized(r)
  BY <1>4, <1>10, KnownPlaces DEF Unauthorized, Fail, Goto
<1>11. CASE Cancel(r)
  BY <1>3, <1>4, <1>11, KnownPlaces DEF Cancel, Goto, memory
<1> QED
  BY <1>5, <1>6, <1>7, <1>8, <1>9, <1>10, <1>11 DEF RequestStep

\* A holder goes on inside the lock, by a move or by a failure to record.
LEMMA MovesInside ==
    ASSUME LockInv, row'.present => row.present,
           NEW a \in Recoverers, at[a] \in Inside, UNCHANGED <<future, lock>>,
           \/ \E p \in Inside \ {"mark"} : Goto(a, p) /\ UNCHANGED verdict
           \/ \E v \in AuthStates, p \in {"renew", "profile", "lost"} : Fail(a, v, p)
    PROVE  LockFacts'
<1> USE DEF LockInv
<1>1. CASE \E p \in Inside \ {"mark"} : Goto(a, p) /\ UNCHANGED verdict
  <2>1. PICK p \in Inside \ {"mark"} : Goto(a, p) /\ UNCHANGED verdict
    BY <1>1
  <2>2. p \in Places
    BY DEF Places
  <2> QED
    BY <2>1, <2>2, GotoMovesOne, StaysInside DEF TokenInv, AuthTypeOK
<1>2. CASE \E v \in AuthStates, p \in {"renew", "profile", "lost"} : Fail(a, v, p)
  <2>1. PICK v \in AuthStates, p \in {"renew", "profile", "lost"} : Fail(a, v, p)
    BY <1>2
  <2>2. p \in Places
    BY KnownPlaces
  <2>3. /\ at'[a] = "mark" /\ verdict'[a].then = p
        /\ \A b \in Actors \ {a} : at'[b] = at[b] /\ verdict'[b] = verdict[b]
    BY <2>1, <2>2, FailMovesOne DEF TokenInv, AuthTypeOK
  <2> QED
    BY <2>1, <2>3, StaysInside, InsidePlaces
<1> QED
  BY <1>1, <1>2

\* The shared steps of the task and the refresher keep the lock.
LEMMA RecoveryKeepsLock ==
    ASSUME LockInv, row'.present => row.present, NEW a \in Recoverers,
           Profile(a) \/ Capture(a) \/ Adopt(a) \/ Mark(a) \/ Prove(a) \/ Leave(a)
    PROVE  LockFacts'
<1> USE InsidePlaces
<1>0. "ok" \in AuthStates /\ "backoff" \in AuthStates /\ "reauth" \in AuthStates
  BY DEF AuthStates
<1>1. CASE Profile(a)
  BY <1>0, <1>1, MovesInside DEF Profile, memory
<1>2. CASE Capture(a)
  <2>1. \/ Goto(a, "adopt") /\ UNCHANGED verdict
        \/ \E v \in AuthStates : Fail(a, v, "lost")
    BY <1>0, <1>2 DEF Capture
  <2>2. at[a] \in Inside /\ UNCHANGED <<future, lock>>
    BY <1>2 DEF Capture, memory
  <2> QED
    BY <2>1, <2>2, MovesInside
<1>3. CASE Adopt(a)
  BY <1>0, <1>3, MovesInside DEF Adopt
<1>4. CASE Mark(a)
  <2>1. verdict[a].then \in {"renew", "profile", "lost"}
    BY <1>4 DEF Mark, LockInv, LockFacts, Returns
  <2>2. /\ at'[a] = verdict[a].then
        /\ \A b \in Recoverers \ {a} : at'[b] = at[b] /\ verdict'[b] = verdict[b]
    BY <1>4 DEF Mark, Goto, LockInv, TokenInv, AuthTypeOK
  <2> QED
    BY <1>4, <2>1, <2>2, StaysInside DEF Mark, memory, LockInv
<1>5. CASE Prove(a)
  BY <1>5, MovesInside DEF Prove, memory
<1>6. CASE Leave(a)
  <2>1. /\ at'[a] = "idle" /\ UNCHANGED verdict
        /\ lock' = IF lock = a THEN Nobody ELSE lock
        /\ \A b \in Recoverers \ {a} : at'[b] \in Inside <=> at[b] \in Inside
        /\ \A b \in Recoverers \ {a} : at'[b] = at[b] \/ at'[b] \in {"served", "refused"}
    BY <1>6 DEF Leave, FreeLock, LockInv, TokenInv, AuthTypeOK, Inside
  <2>2. row.present => lock = a
    BY <1>6 DEF Leave, LockInv, LockFacts, RecoveryIsExclusive
  <2>3. RecoveryIsExclusive'
    BY <2>1, <2>2 DEF LockInv, LockFacts, RecoveryIsExclusive
  <2>4. Returns'
    BY <2>1 DEF LockInv, LockFacts, Returns
  <2>5. TaskRecorded'
    <3>1. CASE a = Task
      BY <1>6, <2>1, <3>1 DEF Leave, DropEntry, TaskRecorded
    <3>2. CASE a # Task
      <4>1. at'[Task] = at[Task]
        BY <1>6, <3>2 DEF Leave
      <4>2. future' = future
        BY <1>6, <3>2 DEF Leave, DropEntry, LockInv, TokenInv, AuthTypeOK
      <4> QED
        BY <4>1, <4>2 DEF LockInv, LockFacts, TaskRecorded
    <3> QED
      BY <3>1, <3>2
  <2> QED
    BY <2>3, <2>4, <2>5 DEF LockFacts
<1> QED
  BY <1>1, <1>2, <1>3, <1>4, <1>5, <1>6

\* Taking the lock, by either of the two.
LEMMA EnterKeepsLock ==
    ASSUME LockInv, row'.present => row.present, NEW a \in Recoverers, at[a] = "lock", TakeLock(a),
           NEW p \in Inside \ {"mark"}, Goto(a, p), UNCHANGED <<future, verdict>>
    PROVE  LockFacts'
<1>1. /\ at'[a] = p /\ \A b \in Recoverers \ {a} : at'[b] = at[b]
      /\ lock = Nobody /\ lock' = a
  <2>1. p \in Places
    BY DEF Places
  <2> QED
    BY <2>1, GotoMovesOne DEF TakeLock, LockInv, TokenInv, AuthTypeOK
<1>2. RecoveryIsExclusive'
  BY <1>1 DEF LockInv, LockFacts, RecoveryIsExclusive
<1>3. Returns'
  BY <1>1 DEF LockInv, LockFacts, Returns
<1>4. TaskRecorded'
  BY <1>1, InsidePlaces DEF LockInv, LockFacts, TaskRecorded
<1> QED
  BY <1>2, <1>3, <1>4 DEF LockFacts

\* Every other step of the refresh task keeps the lock.
LEMMA TaskKeepsLock ==
    ASSUME LockInv, row'.present => row.present,
           Start \/ TaskEnters \/ Exchange \/ Verify \/ Renew
    PROVE  LockFacts'
<1> USE InsidePlaces
<1>0. "reauth" \in AuthStates /\ Fallback \in {"renew", "profile"}
  BY DEF AuthStates, Fallback
<1>1. CASE Start
  <2>1. /\ at'[Task] = "lock" /\ at[Task] = "new" /\ at'[Refresher] = at[Refresher]
        /\ UNCHANGED <<future, lock, verdict>>
    BY <1>1 DEF Start, Goto, memory, LockInv, TokenInv, AuthTypeOK
  <2>2. RecoveryIsExclusive'
    BY <2>1 DEF LockInv, LockFacts, RecoveryIsExclusive
  <2> QED
    BY <2>1, <2>2 DEF LockInv, LockFacts, Returns, TaskRecorded
<1>2. CASE TaskEnters
  BY <1>2, EnterKeepsLock DEF TaskEnters
<1>3. CASE Exchange
  BY <1>0, <1>3, MovesInside DEF Exchange, memory
<1>4. CASE Verify
  BY <1>0, <1>4, MovesInside DEF Verify
<1>5. CASE Renew
  BY <1>5, MovesInside DEF Renew, memory
<1> QED
  BY <1>1, <1>2, <1>3, <1>4, <1>5

\* Every other step of the background refresher keeps the lock.
LEMMA RefresherKeepsLock ==
    ASSUME LockInv, row'.present => row.present,
           Scan \/ RefresherEnters \/ ProtocolLogin \/ ProtocolConvert \/ ProtocolStore
    PROVE  LockFacts'
<1> USE InsidePlaces
<1>0. "backoff" \in AuthStates /\ "reauth" \in AuthStates
  BY DEF AuthStates
<1>1. CASE Scan
  <2>1. /\ at'[Refresher] = "lock" /\ at[Refresher] = "idle" /\ at'[Task] = at[Task]
        /\ UNCHANGED <<future, lock, verdict>>
    BY <1>1 DEF Scan, Goto, memory, LockInv, TokenInv, AuthTypeOK
  <2>2. RecoveryIsExclusive'
    BY <2>1 DEF LockInv, LockFacts, RecoveryIsExclusive
  <2> QED
    BY <2>1, <2>2 DEF LockInv, LockFacts, Returns, TaskRecorded
<1>2. CASE RefresherEnters
  BY <1>2, EnterKeepsLock DEF RefresherEnters
<1>3. CASE ProtocolLogin
  BY <1>3, MovesInside DEF ProtocolLogin, memory
<1>4. CASE ProtocolConvert
  BY <1>0, <1>4, MovesInside DEF ProtocolConvert, memory
<1>5. CASE ProtocolStore
  BY <1>5, MovesInside DEF ProtocolStore, memory
<1> QED
  BY <1>1, <1>2, <1>3, <1>4, <1>5

\* Re-logins never touch the lock, nor who holds it.
LEMMA LoginKeepsLock ==
    ASSUME LockInv, row'.present => row.present, NEW l \in Logins, Open(l) \/ LoginStep(l)
    PROVE  LockFacts'
<1>1. l \in Actors /\ l \notin Recoverers
  OBVIOUS
<1>2. CASE (\E p : at' = [at EXCEPT ![l] = p]) /\ UNCHANGED <<lock, future>>
           /\ (\E v : verdict' = [verdict EXCEPT ![l] = v] \/ verdict' = verdict)
  BY <1>1, <1>2, StaysOutside DEF LockInv, TokenInv, AuthTypeOK
<1> USE DEF Fail, Goto, memory
<1>3. CASE Open(l)
  BY <1>2, <1>3 DEF Open
<1>4. CASE Abort(l)
  BY <1>2, <1>4 DEF Abort
<1>5. CASE Browsed(l)
  BY <1>2, <1>5 DEF Browsed
<1>6. CASE Convert(l)
  BY <1>2, <1>6 DEF Convert
<1>7. CASE Vet(l)
  BY <1>2, <1>7 DEF Vet
<1>8. CASE Spoiled(l)
  BY <1>2, <1>8 DEF Spoiled
<1>9. CASE Commit(l)
  BY <1>2, <1>9 DEF Commit
<1>10. CASE Discard(l)
  BY <1>2, <1>10 DEF Discard
<1>11. CASE Mark(l)
  BY <1>2, <1>11 DEF Mark
<1> QED
  BY <1>3, <1>4, <1>5, <1>6, <1>7, <1>8, <1>9, <1>10, <1>11 DEF LoginStep

\* Neither do the operator, time and restarts, except that two of them end the task.
LEMMA SurroundingsKeepLock ==
    ASSUME LockInv, row'.present => row.present,
           Surroundings
    PROVE  LockFacts'
<1>1. CASE Edit \/ Toggle \/ Configure \/ SwitchRefresher
           \/ Expire \/ Elapse \/ Interval \/ Lapse
  BY <1>1, StaysOutside DEF LockInv, Edit, Toggle, Configure, SwitchRefresher,
                            Expire, Elapse, Interval, Lapse, memory
<1>2. CASE Delete
  <2>1. DropTask("idle") /\ future' = FALSE /\ ~row'.present
    BY <1>2 DEF Delete, LockInv, TokenInv, AuthTypeOK, RowType
  <2> QED
    BY <2>1, DropTaskUnlocks
<1>3. CASE Crash
  <2>1. /\ lock' = Nobody /\ future' = FALSE
        /\ \A a \in Recoverers : at'[a] = "idle"
    BY <1>3 DEF Crash
  <2>2. RecoveryIsExclusive' /\ Returns'
    BY <2>1, InsidePlaces DEF RecoveryIsExclusive, Returns
  <2>3. TaskRecorded'
    BY <2>1 DEF TaskRecorded
  <2> QED
    BY <2>2, <2>3 DEF LockFacts
<1> QED
  BY <1>1, <1>2, <1>3 DEF Surroundings

\* A deleted account does not come back: an UPDATE of its row does nothing.
LEMMA GoneStaysGone ==
    ASSUME TokenInv, [Next]_vars
    PROVE  row'.present => row.present
<1> SUFFICES ASSUME ~row.present PROVE ~row'.present
  OBVIOUS
<1>1. CASE row' = row
  BY <1>1
<1>2. ASSUME NEW r, Write(r)
      PROVE  row' = row
  BY <1>2 DEF Write
<1>3. ASSUME NEW a \in Actors, Mark(a) \/ Prove(a)
      PROVE  row' = row
  BY <1>2, <1>3 DEF Mark, Prove, StoreVerdict
<1>4. ASSUME NEW s, NEW c, NEW noted, StoreSession(s, c, noted) \/ Note
      PROVE  row' = row
  BY <1>2, <1>4 DEF StoreSession, Note
<1>5. CASE \E r \in Requests : RequestStep(r) \/ Unauthorized(r) \/ Cancel(r)
  BY <1>1, <1>3, <1>5
  DEF RequestStep, Ask, Validated, Invalid, Unauthorized, Cancel
<1>6. ASSUME NEW a \in Recoverers, Profile(a) \/ Capture(a) \/ Adopt(a) \/ Leave(a)
      PROVE  row' = row
  BY <1>4, <1>6 DEF Profile, Capture, Adopt, Leave
<1>7. CASE TaskStep \/ TaskEnters
  BY <1>1, <1>3, <1>4, <1>6, <1>7
  DEF TaskStep, TaskEnters, Start, Exchange, Verify, Renew
<1>8. CASE RefresherStep \/ RefresherEnters \/ Scan
  BY <1>1, <1>3, <1>4, <1>6, <1>8
  DEF RefresherStep, RefresherEnters, Scan, ProtocolLogin, ProtocolConvert, ProtocolStore
<1>9. CASE \E l \in Logins : Open(l) \/ LoginStep(l)
  <2>1. ASSUME NEW l \in Logins, Commit(l)
        PROVE  row' = row
    BY <1>2, <2>1 DEF Commit
  <2> QED
    BY <1>1, <1>3, <1>9, <2>1
    DEF LoginStep, Open, Abort, Browsed, Convert, Vet, Spoiled, Discard
<1>10. CASE Edit \/ Toggle \/ Configure
  BY <1>1, <1>2, <1>4, <1>10 DEF Edit, Toggle, Configure
<1>11. CASE Delete \/ Expire \/ Elapse \/ Interval
  <2>1. row'.present = row.present \/ row'.present = FALSE
    BY <1>11 DEF Delete, Expire, Elapse, Interval, TokenInv, AuthTypeOK, RowType
  <2> QED
    BY <2>1
<1>12. CASE SwitchRefresher \/ Lapse \/ Crash \/ UNCHANGED vars
  BY <1>1, <1>12 DEF SwitchRefresher, Lapse, Crash, vars
<1> QED
  BY <1>5, <1>7, <1>8, <1>9, <1>10, <1>11, <1>12 DEF Next

\* The lock's invariant is inductive.
LEMMA LockInvStep == LockInv /\ [Next]_vars => LockInv'
<1> SUFFICES ASSUME LockInv, [Next]_vars PROVE LockFacts'
  BY TokenInvStep DEF LockInv
<1>0. row'.present => row.present
  BY GoneStaysGone DEF LockInv
<1>1. CASE \E r \in Requests : RequestStep(r) \/ Unauthorized(r) \/ Cancel(r)
  BY <1>0, <1>1, RequestKeepsLock
<1>2. CASE TaskStep \/ TaskEnters
  BY <1>0, <1>2, TaskKeepsLock, RecoveryKeepsLock DEF TaskStep
<1>3. CASE RefresherStep \/ RefresherEnters \/ Scan
  BY <1>0, <1>3, RefresherKeepsLock, RecoveryKeepsLock DEF RefresherStep
<1>4. CASE \E l \in Logins : Open(l) \/ LoginStep(l)
  BY <1>0, <1>4, LoginKeepsLock
<1>5. CASE Surroundings
  BY <1>0, <1>5, SurroundingsKeepLock
<1>6. CASE UNCHANGED vars
  BY <1>0, <1>6, StaysOutside DEF vars, LockInv
<1> QED
  BY <1>1, <1>2, <1>3, <1>4, <1>5, <1>6 DEF Next, Surroundings

\* The refresh task and the refresher never renew an account that exists at once,
\* whoever asks, leaves, logs in, edits or restarts.
THEOREM RecoveryIsExclusiveHolds == Spec => []RecoveryIsExclusive
<1>1. LockInv => RecoveryIsExclusive
  BY DEF LockInv, LockFacts
<1> QED
  BY <1>1, LockInvInit, LockInvStep, PTL DEF Spec

\* An entry of the refreshes goes with its task: no interleaving of callers that
\* leave at any moment, deletions and restarts leaves the entry of a task that
\* ran, or takes away the entry of one that is still to end.
THEOREM EntryFollowsTaskHolds == Spec => []EntryFollowsTask
<1>1. LockInv => EntryFollowsTask
  BY DEF LockInv, LockFacts, TaskRecorded, EntryFollowsTask
<1> QED
  BY <1>1, LockInvInit, LockInvStep, PTL DEF Spec

-----------------------------------------------------------------------------
(* Directories: the profile of the account outlives every re-login.        *)

\* The account's profile is on disk and not marked for removal.
ProfileKept == row.profile # NoKey => row.profile \in dirs \ marked

\* A directory made by a re-login that has not committed is its own.
CandidatesApart == \A l \in Logins :
    new[l] # NoKey /\ at[l] # "discard" =>
        /\ new[l] \in dirs \ marked
        /\ new[l] # row.profile
        /\ \A m \in Logins : new[l] # old[m]
        /\ \A m \in Logins \ {l} : new[l] # new[m]

\* A re-login that has committed removes what is no longer referred to.
ReplacedFree == \A l \in Logins :
    /\ at[l] = "discard" /\ old[l] # NoKey => old[l] # row.profile
    /\ verdict[l].then # "discard"

DiskInv == TokenInv /\ ProfileKept /\ CandidatesApart /\ ReplacedFree

DiskFacts == ProfileKept /\ CandidatesApart /\ ReplacedFree

\* Only the initial profile is on disk at first.
LEMMA DiskInvInit == Init => DiskInv
<1> SUFFICES ASSUME Init PROVE DiskInv
  OBVIOUS
<1>1. /\ dirs = {row.profile} \ {NoKey} /\ marked = {}
      /\ \A l \in Logins : new[l] = NoKey /\ at[l] = "idle" /\ verdict[l] = NoVerdict
  BY DEF Init
<1> QED
  BY <1>1, TokenInvInit DEF DiskInv, ProfileKept, CandidatesApart, ReplacedFree, NoVerdict

\* Steps that leave directories and re-logins alone.
LEMMA DiskUntouched ==
    ASSUME DiskInv, row'.profile = row.profile, UNCHANGED store,
           \A l \in Logins : /\ at'[l] = "discard" <=> at[l] = "discard"
                             /\ verdict'[l] = verdict[l]
    PROVE  DiskFacts'
<1>1. ProfileKept'
  BY DEF store, DiskInv, ProfileKept
<1>2. CandidatesApart'
  BY DEF store, DiskInv, CandidatesApart
<1>3. ReplacedFree'
  BY DEF store, DiskInv, ReplacedFree
<1> QED
  BY <1>1, <1>2, <1>3 DEF DiskFacts

\* Requests, the task and the refresher do not touch directories.
LEMMA OthersKeepDisk ==
    ASSUME DiskInv,
           \/ \E r \in Requests : RequestStep(r) \/ Unauthorized(r) \/ Cancel(r)
           \/ TaskStep \/ TaskEnters \/ RefresherStep \/ RefresherEnters \/ Scan
           \/ Surroundings /\ ~Crash
    PROVE  DiskFacts'
<1> USE DEF DiskInv, TokenInv, AuthTypeOK
<1>0. ASSUME NEW a \in Actors \ Logins, NEW p, Goto(a, p)
      PROVE  \A l \in Logins : at'[l] = at[l]
  BY <1>0 DEF Goto
<1>1. ASSUME NEW a \in Actors \ Logins, NEW v, verdict' = [verdict EXCEPT ![a] = v]
      PROVE  \A l \in Logins : verdict'[l] = verdict[l]
  BY <1>1
<1>2. ASSUME NEW a \in Actors \ Logins, NEW v, NEW p, Fail(a, v, p)
      PROVE  \A l \in Logins : at'[l] = at[l] /\ verdict'[l] = verdict[l]
  BY <1>0, <1>1, <1>2 DEF Fail
<1>3. ASSUME NEW p \in {"dead", "idle"}, DropTask(p)
      PROVE  \A l \in Logins : /\ at'[l] = "discard" <=> at[l] = "discard"
                               /\ verdict'[l] = verdict[l]
  BY <1>3 DEF DropTask
<1>4. ASSUME NEW r \in Requests, Refresh(r)
      PROVE  \A l \in Logins : at'[l] = at[l]
  BY <1>4, RefreshMovesTask
<1>5. ASSUME NEW s \in OwnSessions, NEW c \in BOOLEAN, NEW noted \in BOOLEAN,
             StoreSession(s, c, noted) \/ Note
      PROVE  row'.profile = row.profile
  BY <1>5, StoreKeepsPair, NoteKeepsPair
<1>6. ASSUME NEW r \in Requests, RequestStep(r) \/ Unauthorized(r) \/ Cancel(r)
      PROVE  DiskFacts'
  <2>0. r \in Actors \ Logins
    OBVIOUS
  <2>1. CASE Ask(r) \/ Invalid(r)
    BY <1>0, <1>4, <2>0, <2>1, DiskUntouched DEF Ask, Invalid
  <2>2. CASE Validated(r)
    BY <1>0, <2>0, <2>2, DiskUntouched DEF Validated
  <2>3. CASE Mark(r)
    BY <1>0, <1>1, <2>0, <2>3, VerdictKeepsPair, DiskUntouched DEF Mark
  <2>4. CASE Prove(r)
    BY <1>0, <2>0, <2>4, SuccessKeepsPair, DiskUntouched DEF Prove
  <2>5. CASE Unauthorized(r)
    BY <1>2, <2>0, <2>5, DiskUntouched DEF Unauthorized
  <2>6. CASE Cancel(r)
    BY <1>0, <1>1, <1>3, <2>0, <2>6, DiskUntouched DEF Cancel
  <2> QED
    BY <1>6, <2>1, <2>2, <2>3, <2>4, <2>5, <2>6 DEF RequestStep
<1>7. ASSUME NEW a \in Recoverers,
             Profile(a) \/ Capture(a) \/ Adopt(a) \/ Mark(a) \/ Prove(a) \/ Leave(a)
      PROVE  DiskFacts'
  <2>0. a \in Actors \ Logins
    OBVIOUS
  <2>1. CASE Profile(a)
    BY <1>0, <1>2, <2>0, <2>1, DiskUntouched DEF Profile
  <2>2. CASE Capture(a)
    BY <1>0, <1>2, <2>0, <2>2, DiskUntouched DEF Capture
  <2>3. CASE Adopt(a)
    BY <1>0, <1>2, <1>5, <2>0, <2>3, DiskUntouched DEF Adopt, SameIdentity
  <2>4. CASE Mark(a)
    BY <1>0, <1>1, <2>0, <2>4, VerdictKeepsPair, DiskUntouched DEF Mark
  <2>5. CASE Prove(a)
    BY <1>0, <2>0, <2>5, SuccessKeepsPair, DiskUntouched DEF Prove
  <2>6. CASE Leave(a)
    <3>1. \A l \in Logins : at'[l] = "discard" <=> at[l] = "discard"
      BY <2>0, <2>6 DEF Leave
    <3> QED
      BY <2>6, <3>1, DiskUntouched DEF Leave
  <2> QED
    BY <1>7, <2>1, <2>2, <2>3, <2>4, <2>5, <2>6
<1>8. CASE Start \/ TaskEnters \/ Exchange \/ Verify \/ Renew
  <2>0. Task \in Actors \ Logins
    OBVIOUS
  <2>1. CASE Start \/ TaskEnters \/ Verify
    BY <1>0, <2>0, <2>1, DiskUntouched DEF Start, TaskEnters, Verify
  <2>2. CASE Exchange
    <3>1. row'.profile = row.profile
      BY <2>2, StoreKeepsPair, NoteKeepsPair DEF Exchange, SameIdentity
    <3> QED
      BY <1>0, <1>2, <2>0, <2>2, <3>1, DiskUntouched DEF Exchange
  <2>3. CASE Renew
    <3>1. row'.profile = row.profile
      BY <2>3, NoteKeepsPair DEF Renew
    <3> QED
      BY <1>0, <2>0, <2>3, <3>1, DiskUntouched DEF Renew
  <2> QED
    BY <1>8, <2>1, <2>2, <2>3
<1>9. CASE Scan \/ RefresherEnters \/ ProtocolLogin \/ ProtocolConvert \/ ProtocolStore
  <2>0. Refresher \in Actors \ Logins
    OBVIOUS
  <2>1. CASE Scan \/ RefresherEnters
    BY <1>0, <2>0, <2>1, DiskUntouched DEF Scan, RefresherEnters
  <2>2. CASE ProtocolLogin \/ ProtocolConvert
    <3>1. row'.profile = row.profile
      BY <2>2, NoteKeepsPair DEF ProtocolLogin, ProtocolConvert
    <3> QED
      BY <1>0, <1>2, <2>0, <2>2, <3>1, DiskUntouched DEF ProtocolLogin, ProtocolConvert
  <2>3. CASE ProtocolStore
    BY <1>0, <1>5, <2>0, <2>3, DiskUntouched DEF ProtocolStore, Vetted
  <2> QED
    BY <1>9, <2>1, <2>2, <2>3
<1>10. CASE Edit
  BY <1>5, <1>10, DiskUntouched DEF Edit
<1>11. CASE Toggle \/ Configure \/ Expire \/ Elapse \/ Interval
  <2>1. CASE Configure
    <3>1. PICK b \in BOOLEAN, p \in BOOLEAN, c \in BOOLEAN :
              Write([row EXCEPT !.auto = b, !.protocol = p, !.cookies = c])
      BY <2>1 DEF Configure
    <3>2. row'.profile = row.profile
      BY <3>1 DEF Write, RowType
    <3> QED
      BY <2>1, <3>2, DiskUntouched DEF Configure
  <2>2. CASE Toggle \/ Expire \/ Elapse \/ Interval
    <3>1. row'.profile = row.profile
      BY <2>2 DEF Toggle, Expire, Elapse, Interval, Write, RowType
    <3> QED
      BY <2>2, <3>1, DiskUntouched DEF Toggle, Expire, Elapse, Interval
  <2> QED
    BY <1>11, <2>1, <2>2
<1>12. CASE Delete
  <2>1. row'.profile = row.profile
    BY <1>12 DEF Delete, RowType
  <2> QED
    BY <1>3, <1>12, <2>1, DiskUntouched DEF Delete
<1>13. CASE Lapse \/ SwitchRefresher
  BY <1>13, DiskUntouched DEF Lapse, SwitchRefresher
<1> QED
  BY <1>6, <1>7, <1>8, <1>9, <1>10, <1>11, <1>12, <1>13
  DEF TaskStep, RefresherStep, Surroundings

\* A re-login moves within its own states and keeps its directories.
LEMMA LoginMoves ==
    ASSUME DiskInv, NEW l \in Logins, row'.profile = row.profile, UNCHANGED store,
           at[l] # "discard", at'[l] # "discard", verdict'[l].then # "discard",
           \A m \in Logins \ {l} : at'[m] = at[m] /\ verdict'[m] = verdict[m]
    PROVE  DiskFacts'
<1>1. ProfileKept'
  BY DEF store, DiskInv, ProfileKept
<1>2. CandidatesApart'
  BY DEF store, DiskInv, CandidatesApart
<1>3. ReplacedFree'
  BY DEF store, DiskInv, ReplacedFree
<1> QED
  BY <1>1, <1>2, <1>3 DEF DiskFacts

\* A re-login ends: what it removes is neither the account's profile nor the
\* candidate of another one.
LEMMA LoginEnds ==
    ASSUME DiskInv, NEW l \in Logins, NEW k \in Keys \union {NoKey}, Remove(k), Forget(l),
           row' = row, at'[l] # "discard", verdict'[l].then # "discard",
           \A m \in Logins \ {l} : at'[m] = at[m] /\ verdict'[m] = verdict[m],
           k # NoKey => k # row.profile,
           k # NoKey => \A m \in Logins \ {l} : at[m] # "discard" => new[m] # k
    PROVE  DiskFacts'
<1>1. \A d \in dirs \ marked : d # k => d \in dirs' \ marked'
  BY DEF Remove
<1>2. /\ \A m \in Logins \ {l} : old'[m] = old[m] /\ new'[m] = new[m]
      /\ old'[l] = NoKey /\ new'[l] = NoKey
  BY ForgetKeepsShape DEF DiskInv, TokenInv, AuthTypeOK
<1>3. NoKey \notin dirs
  BY DEF DiskInv, TokenInv, AuthTypeOK
<1>4. ProfileKept'
  BY <1>1 DEF DiskInv, ProfileKept
<1>5. CandidatesApart'
  BY <1>1, <1>2, <1>3 DEF DiskInv, CandidatesApart
<1>6. ReplacedFree'
  BY <1>2 DEF DiskInv, ReplacedFree
<1> QED
  BY <1>4, <1>5, <1>6 DEF DiskFacts

\* A re-login opens: its directory is new to everybody.
LEMMA LoginOpens ==
    ASSUME DiskInv, NEW l \in Logins, at[l] = "idle",
           NEW k \in Keys \ InUse, NEW drained \in SUBSET marked,
           old' = [old EXCEPT ![l] = row.profile], new' = [new EXCEPT ![l] = k],
           dirs' = (dirs \ drained) \union {k}, marked' = marked \ drained,
           Goto(l, "browse"), UNCHANGED <<row, verdict>>
    PROVE  DiskFacts'
<1>1. /\ at'[l] = "browse"
      /\ \A m \in Logins \ {l} : at'[m] = at[m]
  BY DEF Goto, DiskInv, TokenInv, AuthTypeOK
<1>2. /\ old'[l] = row.profile /\ new'[l] = k
      /\ \A m \in Logins \ {l} : old'[m] = old[m] /\ new'[m] = new[m]
  BY DEF DiskInv, TokenInv, AuthTypeOK
<1>3. /\ k \notin dirs /\ k \notin marked /\ k # row.profile /\ k # NoKey
      /\ \A m \in Logins : k # old[m] /\ k # new[m]
  BY DEF InUse
<1>4. ProfileKept'
  BY DEF DiskInv, ProfileKept
<1>5. CandidatesApart'
  <2>1. \A m \in Logins \ {l} : new[m] # NoKey /\ at[m] # "discard" =>
            /\ new[m] \in dirs' \ marked'
            /\ new[m] # row.profile
            /\ \A n \in Logins \ {l} : new[m] # old[n]
            /\ \A n \in Logins \ {l, m} : new[m] # new[n]
    BY DEF DiskInv, CandidatesApart
  <2>2. k \in dirs' \ marked'
    BY <1>3
  <2> QED
    BY <1>1, <1>2, <1>3, <2>1, <2>2 DEF CandidatesApart
<1>6. ReplacedFree'
  BY <1>1, <1>2 DEF DiskInv, ReplacedFree
<1> QED
  BY <1>4, <1>5, <1>6 DEF DiskFacts

\* A re-login commits: its directory is the account's, the old one nobody's.
LEMMA LoginCommits ==
    ASSUME DiskInv, NEW l \in Logins, at[l] = "commit", row.present,
           row'.profile = new[l], Goto(l, "discard"), UNCHANGED <<store, verdict>>
    PROVE  DiskFacts'
<1>1. /\ at'[l] = "discard"
      /\ \A m \in Logins \ {l} : at'[m] = at[m]
  BY DEF Goto, DiskInv, TokenInv, AuthTypeOK
<1>2. ProfileKept'
  BY DEF store, DiskInv, ProfileKept, CandidatesApart
<1>3. CandidatesApart'
  BY <1>1 DEF store, DiskInv, CandidatesApart
<1>4. ReplacedFree'
  <2>1. \A m \in Logins : old[m] # NoKey => old[m] # new[l]
    BY DEF DiskInv, CandidatesApart
  <2> QED
    BY <1>1, <2>1 DEF store, DiskInv, ReplacedFree
<1> QED
  BY <1>2, <1>3, <1>4 DEF DiskFacts

\* Every step of a re-login keeps the profile.
LEMMA LoginKeepsDisk ==
    ASSUME DiskInv, NEW l \in Logins, Open(l) \/ LoginStep(l)
    PROVE  DiskFacts'
<1> USE DEF DiskInv, TokenInv, AuthTypeOK
<1>1. ASSUME NEW p, Goto(l, p)
      PROVE  at'[l] = p /\ \A m \in Logins \ {l} : at'[m] = at[m]
  BY <1>1 DEF Goto
<1>2. ASSUME NEW v, NEW p, Fail(l, v, p)
      PROVE  /\ at'[l] = "mark" /\ verdict'[l].then = p
             /\ \A m \in Logins \ {l} : at'[m] = at[m] /\ verdict'[m] = verdict[m]
  BY <1>1, <1>2 DEF Fail
<1>3. verdict[l].then # "discard"
  BY DEF ReplacedFree
<1>4. new[l] # NoKey /\ at[l] # "discard" =>
          /\ new[l] # row.profile
          /\ \A m \in Logins \ {l} : new[m] # new[l]
  BY DEF CandidatesApart
<1>5. CASE Open(l)
  <2>1. CASE Fail(l, "reauth", "done") /\ UNCHANGED store
    BY <1>2, <1>5, <2>1, LoginMoves DEF Open
  <2>2. CASE \E k \in Keys \ InUse, drained \in SUBSET marked :
            /\ old' = [old EXCEPT ![l] = row.profile]
            /\ new' = [new EXCEPT ![l] = k]
            /\ dirs' = (dirs \ drained) \union {k}
            /\ marked' = marked \ drained
            /\ Goto(l, "browse")
            /\ UNCHANGED verdict
    BY <1>5, <2>2, LoginOpens DEF Open
  <2> QED
    BY <1>5, <2>1, <2>2 DEF Open
<1>6. CASE Abort(l)
  <2>1. PICK v \in {"backoff", "reauth"} : Fail(l, v, "done")
    BY <1>6 DEF Abort
  <2> QED
    BY <1>2, <1>4, <1>6, <2>1, LoginEnds DEF Abort
<1>7. CASE Browsed(l)
  BY <1>1, <1>3, <1>7, LoginMoves DEF Browsed
<1>8. CASE Convert(l)
  BY <1>1, <1>2, <1>3, <1>8, LoginMoves DEF Convert
<1>9. CASE Vet(l)
  BY <1>1, <1>2, <1>3, <1>9, LoginMoves DEF Vet
<1>10. CASE Spoiled(l)
  BY <1>2, <1>4, <1>10, LoginEnds DEF Spoiled
<1>11. CASE Commit(l)
  <2>1. PICK f \in BOOLEAN : Write(Recredited(l, f))
    BY <1>11 DEF Commit
  <2>2. CASE row.present
    <3>1. row'.profile = new[l]
      BY <2>1, <2>2 DEF Write, Recredited
    <3> QED
      BY <1>11, <2>2, <3>1, LoginCommits DEF Commit
  <2>3. CASE ~row.present
    <3>1. row' = row
      BY <2>1, <2>3 DEF Write
    <3> QED
      BY <1>1, <1>3, <1>11, <2>3, <3>1, LoginMoves DEF Commit
  <2> QED
    BY <2>2, <2>3
<1>12. CASE Discard(l)
  <2>1. /\ at'[l] = "done" /\ \A m \in Logins \ {l} : at'[m] = at[m]
        /\ row' = row /\ verdict' = verdict /\ Forget(l)
    BY <1>1, <1>12 DEF Discard
  <2>2. CASE at[l] = "discard"
    <3>1. Remove(old[l]) /\ old[l] \in Keys \union {NoKey}
      BY <1>12, <2>2 DEF Discard
    <3>2. old[l] # NoKey => old[l] # row.profile
      BY <2>2 DEF ReplacedFree
    <3>3. old[l] # NoKey => \A m \in Logins \ {l} : at[m] # "discard" => new[m] # old[l]
      BY DEF CandidatesApart
    <3> QED
      BY <1>3, <2>1, <3>1, <3>2, <3>3, LoginEnds
  <2>3. CASE at[l] = "tidy"
    <3>1. Remove(new[l]) /\ new[l] \in Keys \union {NoKey}
      BY <1>12, <2>3 DEF Discard
    <3> QED
      BY <1>3, <1>4, <2>1, <2>3, <3>1, LoginEnds
  <2> QED
    BY <1>12, <2>2, <2>3 DEF Discard
<1>13. CASE Mark(l)
  <2>1. row'.profile = row.profile
    BY <1>13, VerdictKeepsPair DEF Mark
  <2> QED
    BY <1>1, <1>3, <1>13, <2>1, LoginMoves DEF Mark, NoVerdict
<1> QED
  BY <1>5, <1>6, <1>7, <1>8, <1>9, <1>10, <1>11, <1>12, <1>13 DEF LoginStep

\* A restart forgets the re-logins and leaves row and directories.
LEMMA CrashKeepsDisk == DiskInv /\ Crash => DiskFacts'
<1> SUFFICES ASSUME DiskInv, Crash PROVE DiskFacts'
  OBVIOUS
<1>1. \A l \in Logins : /\ new'[l] = NoKey /\ old'[l] = NoKey
                        /\ verdict'[l] = NoVerdict
  BY DEF Crash
<1>2. ProfileKept'
  BY DEF Crash, DiskInv, ProfileKept
<1> QED
  BY <1>1, <1>2 DEF DiskFacts, CandidatesApart, ReplacedFree, NoVerdict

\* The disk's invariant is inductive.
LEMMA DiskInvStep == DiskInv /\ [Next]_vars => DiskInv'
<1> SUFFICES ASSUME DiskInv, [Next]_vars PROVE DiskFacts'
  BY TokenInvStep DEF DiskInv, DiskFacts
<1>1. CASE \/ \E r \in Requests : RequestStep(r) \/ Unauthorized(r) \/ Cancel(r)
           \/ TaskStep \/ TaskEnters \/ RefresherStep \/ RefresherEnters \/ Scan
           \/ Surroundings /\ ~Crash
  BY <1>1, OthersKeepDisk
<1>2. CASE \E l \in Logins : Open(l) \/ LoginStep(l)
  BY <1>2, LoginKeepsDisk
<1>3. CASE Crash
  BY <1>3, CrashKeepsDisk
<1>4. CASE UNCHANGED vars
  BY <1>4, DiskUntouched DEF vars, store
<1> QED
  BY <1>1, <1>2, <1>3, <1>4 DEF Next, Surroundings

\* No re-login, failed, committed late or cut off by a restart, ever removes the
\* profile directory the account refers to.
THEOREM ProfileStaysOnDiskHolds == Spec => []ProfileStaysOnDisk
<1>1. DiskInv => ProfileStaysOnDisk
  BY DEF DiskInv, ProfileKept, ProfileStaysOnDisk
<1> QED
  BY <1>1, DiskInvInit, DiskInvStep, PTL DEF Spec

=============================================================================
